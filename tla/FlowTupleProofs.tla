--------------------------- MODULE FlowTupleProofs ---------------------------
(***************************************************************************)
(* Proofs about FlowTuple, for any addresses, ports and header lengths and *)
(* a flow_map of any size.  A step is taken apart once, by what xdp_prog   *)
(* does to flow_map and started (XdpCases); the rest is about one flow.    *)
(***************************************************************************)
EXTENDS FlowTuple, FiniteSetTheorems, TLAPS

Entry    == [num_packet : Nat, header_length : Nat, dst_port : u16]
Received == [segments : Nat, header_bytes : Nat, ends : Nat]

LEMMA Bounds ==
  /\ MaxEntries \in Nat /\ MaxFrames \in Nat
  /\ \A w \in Ports : w \in u16
  /\ \A d \in Doffs : d \in Nat
  BY FlowTupleAssumption

\* The port as a number fits 16 bits again.
LEMMA PortSwapped == ASSUME NEW w \in u16 PROVE bpf_ntohs(w) \in u16
  <1> DEFINE low == w % 256
             high == w \div 256
  <1>1. w \in Nat /\ w < 65536
    BY DEF u16
  <1>2. low >= 0 /\ low <= 255 /\ low \in Int
    BY <1>1
  <1>3. high >= 0 /\ high <= 255 /\ high \in Int
    BY <1>1
  <1>4. bpf_ntohs(w) = low * 256 + high
    BY DEF bpf_ntohs
  <1> HIDE DEF low, high
  <1>5. low * 256 + high \in u16
    BY <1>2, <1>3 DEF u16
  <1> QED
    BY <1>4, <1>5

LEMMA FrameTyped ==
  ASSUME NEW p \in Frames
  PROVE  /\ p \in Frame /\ p.tcp \in TCP /\ p.at20 \in TCP
         /\ Tuple(p, p.tcp) \in Flow /\ Tuple(p, p.at20) \in Flow
         /\ Segment(p) /\ p.ihl = 5 => p.at20 = p.tcp
  BY DEF Frames, Frame, Flow, TCP, Tuple

\* The frames xdp_prog looks at are the segments the monitored host sent.
LEMMA ParsedIsSegment ==
  ASSUME NEW p \in Frames
  PROVE  Parsed(p) /\ p.saddr = Monitored <=> Segment(p)
  BY DEF Frames, Frame, Parsed, Segment

-----------------------------------------------------------------------------
(* What a frame does to the table. *)

HasRoom(f) == f \in DOMAIN flow_map \/ Cardinality(DOMAIN flow_map) < MaxEntries

\* The entry of f after one more packet.
Old(f, tcp) ==
  IF f \in DOMAIN flow_map THEN flow_map[f]
  ELSE [num_packet |-> 0, header_length |-> 0, dst_port |-> bpf_ntohs(tcp.dest)]
Counted(f, tcp) ==
  [num_packet |-> Old(f, tcp).num_packet + 1,
   header_length |-> Old(f, tcp).header_length + 4 * tcp.doff,
   dst_port |-> Old(f, tcp).dst_port]

TypeInv == TypeOK /\ IsFiniteSet(DOMAIN flow_map)

LEMMA CountedTyped ==
  ASSUME TypeInv, NEW f \in Flow, NEW tcp \in TCP
  PROVE  Counted(f, tcp) \in Entry /\ Old(f, tcp) \in Entry
  <1>1. tcp.doff \in Doffs /\ tcp.dest \in Ports
    BY DEF TCP
  <1>2. 4 * tcp.doff \in Nat
    BY <1>1, Bounds
  <1>3. bpf_ntohs(tcp.dest) \in u16
    BY <1>1, Bounds, PortSwapped
  <1>4. Old(f, tcp) \in Entry
    BY <1>3 DEF Old, TypeInv, TypeOK, Entry
  <1> QED
    BY <1>2, <1>4 DEF Counted, Entry

\* update_flow_attribute counts the packet for its flow, if there is an entry or room for
\* one, and leaves the other entries alone.
LEMMA UpdateIs ==
  ASSUME TypeInv, NEW f \in Flow, NEW tcp \in TCP, update_flow_attribute(f, tcp)
  PROVE  /\ HasRoom(f) =>
              /\ DOMAIN flow_map' = DOMAIN flow_map \cup {f}
              /\ flow_map'[f] = Counted(f, tcp)
              /\ \A g \in DOMAIN flow_map \ {f} : flow_map'[g] = flow_map[g]
         /\ ~HasRoom(f) => flow_map' = flow_map /\ f \notin DOMAIN flow_map
  BY DEF update_flow_attribute, Old, Counted, HasRoom

-----------------------------------------------------------------------------
(* Types. *)

\* What a step does: a frame is looked at, and then it is a segment of the host, or not.
LEMMA XdpCases ==
  ASSUME TypeInv, NEW p \in Frames, Receive(p)
  PROVE  \/ /\ Segment(p)
            /\ update_flow_attribute(Tuple(p, p.at20), p.at20)
            /\ started' = IF p.at20.end /\ Tuple(p, p.at20) \in DOMAIN flow_map'
                          THEN [started EXCEPT ![Tuple(p, p.at20)] = @ + 1] ELSE started
         \/ ~Segment(p) /\ UNCHANGED <<flow_map, started, received, optioned>>
  BY ParsedIsSegment DEF Receive, xdp_prog, flow_tuple

\* An insert adds one entry at most, and none to a full table.
LEMMA RoomKept ==
  ASSUME TypeInv, NEW f \in Flow, NEW tcp \in TCP, update_flow_attribute(f, tcp)
  PROVE  /\ IsFiniteSet(DOMAIN flow_map') /\ Cardinality(DOMAIN flow_map') <= MaxEntries
         /\ Cardinality(DOMAIN flow_map) = MaxEntries => DOMAIN flow_map' = DOMAIN flow_map
         /\ ~HasRoom(f) => Cardinality(DOMAIN flow_map) = MaxEntries
  <1>1. /\ IsFiniteSet(DOMAIN flow_map) /\ Cardinality(DOMAIN flow_map) \in Nat
        /\ Cardinality(DOMAIN flow_map) <= MaxEntries
    BY FS_CardinalityType DEF TypeInv, TypeOK
  <1>2. /\ IsFiniteSet(DOMAIN flow_map \cup {f})
        /\ Cardinality(DOMAIN flow_map \cup {f}) =
             IF f \in DOMAIN flow_map THEN Cardinality(DOMAIN flow_map)
                                      ELSE Cardinality(DOMAIN flow_map) + 1
    BY <1>1, FS_AddElement
  <1>3. CASE HasRoom(f)
    <2>1. DOMAIN flow_map' = DOMAIN flow_map \cup {f}
      BY <1>3, UpdateIs
    <2>2. f \in DOMAIN flow_map => DOMAIN flow_map \cup {f} = DOMAIN flow_map
      OBVIOUS
    <2> QED
      BY <1>1, <1>2, <1>3, <2>1, <2>2, Bounds DEF HasRoom
  <1>4. CASE ~HasRoom(f)
    <2>1. flow_map' = flow_map /\ f \notin DOMAIN flow_map
      BY <1>4, UpdateIs
    <2> QED
      BY <1>1, <1>4, <2>1, Bounds DEF HasRoom
  <1> QED
    BY <1>3, <1>4

LEMMA TypeInit == Init => TypeInv
  <1> SUFFICES ASSUME Init PROVE TypeInv
    OBVIOUS
  <1>1. DOMAIN flow_map = {}
    BY DEF Init
  <1>2. IsFiniteSet({}) /\ Cardinality({}) = 0
    BY FS_EmptySet
  <1> QED
    BY <1>1, <1>2, Bounds DEF Init, TypeInv, TypeOK

LEMMA TypeStep == TypeInv /\ [Next]_vars => TypeInv'
  <1> SUFFICES ASSUME TypeInv, [Next]_vars PROVE TypeInv'
    OBVIOUS
  <1>1. CASE UNCHANGED vars
    BY <1>1 DEF TypeInv, TypeOK, vars
  <1>2. ASSUME nframes < MaxFrames, NEW p \in Frames, Receive(p) PROVE TypeInv'
    <2>1. nframes' \in 0 .. MaxFrames
      BY <1>2, Bounds DEF TypeInv, TypeOK, Receive
    <2>2. ASSUME Segment(p) PROVE TypeInv'
      <3> DEFINE f == Tuple(p, p.at20)
                 g == Tuple(p, p.tcp)
      <3>1. /\ f \in Flow /\ g \in Flow /\ p.at20 \in TCP /\ p.tcp \in TCP
            /\ update_flow_attribute(f, p.at20)
        BY <1>2, <2>2, XdpCases, FrameTyped
      <3>2. /\ DOMAIN flow_map' \subseteq Flow
            /\ \A k \in DOMAIN flow_map' : flow_map'[k] \in Entry
        <4>1. /\ DOMAIN flow_map \subseteq Flow
              /\ \A k \in DOMAIN flow_map : flow_map[k] \in Entry
          BY DEF TypeInv, TypeOK, Entry
        <4>2. Counted(f, p.at20) \in Entry
          BY <3>1, CountedTyped
        <4>3. CASE HasRoom(f)
          BY <3>1, <4>1, <4>2, <4>3, UpdateIs
        <4>4. CASE ~HasRoom(f)
          BY <3>1, <4>1, <4>4, UpdateIs
        <4> QED
          BY <4>3, <4>4
      <3>3. started' \in [Flow -> Nat]
        BY <1>2, <2>2, <3>1, XdpCases DEF TypeInv, TypeOK
      <3>4. 4 * p.tcp.doff \in Nat
        BY <3>1, Bounds DEF TCP
      <3>5. received' \in [Flow -> Received] /\ optioned' \subseteq Flow
        BY <1>2, <2>2, <3>1, <3>4 DEF Receive, TypeInv, TypeOK, Received
      <3> QED
        BY <2>1, <3>1, <3>2, <3>3, <3>5, RoomKept DEF TypeInv, TypeOK, Entry, Received
    <2>3. ASSUME ~Segment(p) PROVE TypeInv'
      BY <1>2, <2>1, <2>3, XdpCases DEF TypeInv, TypeOK
    <2> QED
      BY <2>2, <2>3
  <1> QED
    BY <1>1, <1>2 DEF Next

\* flow_map holds no more entries than it has room for, and every entry is one of a flow,
\* with a port of 16 bits, whatever frames arrive.
THEOREM FlowTupleTypeCorrect == Spec => []TypeOK
  <1>1. TypeInv => TypeOK
    BY DEF TypeInv
  <1> QED
    BY <1>1, TypeInit, TypeStep, PTL DEF Spec

-----------------------------------------------------------------------------
(* Flows are connections. *)

\* What FlowsAreConnections says of one flow; a connection of which nothing was received
\* has no bytes and no end either.
IsConnection(f) ==
  LET r == received[f]
  IN  IF f \in DOMAIN flow_map
      THEN /\ flow_map[f] = [num_packet |-> r.segments, header_length |-> r.header_bytes,
                             dst_port |-> bpf_ntohs(f.dport)]
           /\ started[f] = r.ends
      ELSE /\ r.segments = 0 \/ Cardinality(DOMAIN flow_map) = MaxEntries
           /\ started[f] = 0
NothingYet(f) ==
  received[f].segments = 0 => received[f].header_bytes = 0 /\ received[f].ends = 0

\* The inductive invariant.
ConnectionInv ==
  /\ TypeInv
  /\ \A f \in Flow \ optioned : IsConnection(f)
  /\ \A f \in Flow : NothingYet(f)

LEMMA ConnectionInit == Init => ConnectionInv
  <1> SUFFICES ASSUME Init PROVE ConnectionInv
    OBVIOUS
  <1>1. DOMAIN flow_map = {}
    BY DEF Init
  <1> QED
    BY <1>1, TypeInit DEF Init, ConnectionInv, IsConnection, NothingYet

\* The segment's own connection: the packet, its header bytes and its end are counted on
\* both sides, or on neither as long as the table is full.
LEMMA OwnConnection ==
  ASSUME ConnectionInv, NEW p \in Frames, Receive(p), Segment(p), p.ihl = 5,
         Tuple(p, p.tcp) \notin optioned
  PROVE  IsConnection(Tuple(p, p.tcp))'
  <1>f. PICK f \in Flow : f = Tuple(p, p.tcp)
    BY FrameTyped
  <1>e. PICK ends \in {0, 1} : ends = IF p.tcp.end THEN 1 ELSE 0
    OBVIOUS
  <1> SUFFICES IsConnection(f)'
    BY <1>f
  <1> DEFINE old == received[f]
  <1>1. /\ f \in Flow /\ p.tcp \in TCP /\ p.at20 = p.tcp /\ f.dport = p.tcp.dest
        /\ IsConnection(f) /\ NothingYet(f)
    BY <1>f, FrameTyped DEF ConnectionInv, Tuple
  <1>2. /\ update_flow_attribute(f, p.tcp)
        /\ started' = IF p.tcp.end /\ f \in DOMAIN flow_map'
                      THEN [started EXCEPT ![f] = @ + 1] ELSE started
    BY <1>f, <1>1, XdpCases DEF ConnectionInv
  <1>3. received'[f] = [segments |-> old.segments + 1, header_bytes |-> old.header_bytes + 4 * p.tcp.doff,
                        ends |-> old.ends + ends]
    BY <1>f, <1>e, <1>1 DEF Receive, ConnectionInv, TypeInv, TypeOK
  <1>4. old \in Received /\ started[f] \in Nat /\ 4 * p.tcp.doff \in Nat
    BY <1>1, Bounds DEF ConnectionInv, TypeInv, TypeOK, Received, TCP
  <1>5. f \in DOMAIN flow_map' => started'[f] = started[f] + ends
    BY <1>e, <1>1, <1>2, <1>4 DEF ConnectionInv, TypeInv, TypeOK
  <1>6. f \notin DOMAIN flow_map' => started' = started
    BY <1>2
  <1>7. CASE HasRoom(f)
    <2>1. f \in DOMAIN flow_map' /\ flow_map'[f] = Counted(f, p.tcp)
      BY <1>1, <1>2, <1>7, UpdateIs DEF ConnectionInv
    <2>2. CASE f \in DOMAIN flow_map
      <3>1. /\ flow_map[f] = [num_packet |-> old.segments, header_length |-> old.header_bytes,
                              dst_port |-> bpf_ntohs(f.dport)]
            /\ started[f] = old.ends
        BY <1>1, <2>2 DEF IsConnection
      <3>2. Counted(f, p.tcp) = [num_packet |-> old.segments + 1,
                                 header_length |-> old.header_bytes + 4 * p.tcp.doff,
                                 dst_port |-> bpf_ntohs(f.dport)]
        BY <2>2, <3>1 DEF Counted, Old
      <3>3. started'[f] = old.ends + ends
        BY <1>5, <2>1, <3>1
      <3> QED
        BY <1>3, <2>1, <3>2, <3>3 DEF IsConnection
    <2>3. CASE f \notin DOMAIN flow_map
      <3>1. Cardinality(DOMAIN flow_map) # MaxEntries
        BY <1>7, <2>3, Bounds DEF HasRoom
      <3>2. old.segments = 0 /\ old.header_bytes = 0 /\ old.ends = 0 /\ started[f] = 0
        BY <1>1, <2>3, <3>1 DEF IsConnection, NothingYet
      <3>3. Counted(f, p.tcp) = [num_packet |-> old.segments + 1,
                                 header_length |-> old.header_bytes + 4 * p.tcp.doff,
                                 dst_port |-> bpf_ntohs(f.dport)]
        BY <1>1, <2>3, <3>2 DEF Counted, Old
      <3>4. started'[f] = old.ends + ends
        BY <1>5, <2>1, <3>2
      <3> QED
        BY <1>3, <2>1, <3>3, <3>4 DEF IsConnection
    <2> QED
      BY <2>2, <2>3
  <1>8. CASE ~HasRoom(f)
    <2>1. flow_map' = flow_map /\ f \notin DOMAIN flow_map
      BY <1>1, <1>2, <1>8, UpdateIs DEF ConnectionInv
    <2>2. Cardinality(DOMAIN flow_map) = MaxEntries
      BY <1>1, <1>2, <1>8, RoomKept DEF ConnectionInv
    <2> QED
      <3>1. started[f] = 0
        BY <1>1, <2>1 DEF IsConnection
      <3>2. f \notin DOMAIN flow_map' /\ started'[f] = 0
        BY <1>6, <2>1, <3>1
      <3> QED
        BY <2>1, <2>2, <3>2 DEF IsConnection
  <1> QED
    BY <1>7, <1>8

\* Other connections keep their entry, their count and their place outside a full table.
LEMMA OtherConnections ==
  ASSUME ConnectionInv, NEW p \in Frames, Receive(p), Segment(p),
         NEW g \in Flow, IsConnection(g), g # Tuple(p, p.tcp), g # Tuple(p, p.at20)
  PROVE  IsConnection(g)'
  <1> DEFINE f == Tuple(p, p.at20)
  <1>1. /\ f \in Flow /\ p.at20 \in TCP /\ update_flow_attribute(f, p.at20) /\ g # f
        /\ started' = IF p.at20.end /\ f \in DOMAIN flow_map'
                      THEN [started EXCEPT ![f] = @ + 1] ELSE started
    BY FrameTyped, XdpCases DEF ConnectionInv
  <1>2. received'[g] = received[g] /\ started'[g] = started[g]
    BY <1>1, FrameTyped DEF Receive, ConnectionInv, TypeInv, TypeOK
  <1> HIDE DEF f
  <1>3. /\ g \in DOMAIN flow_map' <=> g \in DOMAIN flow_map
        /\ g \in DOMAIN flow_map => flow_map'[g] = flow_map[g]
    <2>1. CASE HasRoom(f)
      BY <1>1, <2>1, UpdateIs DEF ConnectionInv
    <2>2. CASE ~HasRoom(f)
      BY <1>1, <2>2, UpdateIs DEF ConnectionInv
    <2> QED
      BY <2>1, <2>2
  <1>4. Cardinality(DOMAIN flow_map) = MaxEntries => Cardinality(DOMAIN flow_map') = MaxEntries
    <2>1. Cardinality(DOMAIN flow_map) = MaxEntries => DOMAIN flow_map' = DOMAIN flow_map
      BY <1>1, RoomKept DEF ConnectionInv
    <2> QED
      BY <2>1
  <1> QED
    BY <1>2, <1>3, <1>4 DEF IsConnection

LEMMA ConnectionStep == ConnectionInv /\ [Next]_vars => ConnectionInv'
  <1> SUFFICES ASSUME ConnectionInv, [Next]_vars PROVE ConnectionInv'
    OBVIOUS
  <1>1. TypeInv'
    BY TypeStep DEF ConnectionInv
  <1>2. ASSUME UNCHANGED <<flow_map, started, received, optioned>> PROVE ConnectionInv'
    BY <1>1, <1>2 DEF ConnectionInv, IsConnection, NothingYet
  <1>3. ASSUME NEW p \in Frames, Receive(p), Segment(p) PROVE ConnectionInv'
    <2>1. /\ optioned \subseteq optioned'
          /\ p.ihl # 5 => Tuple(p, p.tcp) \in optioned' /\ Tuple(p, p.at20) \in optioned'
      BY <1>3 DEF Receive
    <2>2. ASSUME NEW g \in Flow \ optioned' PROVE IsConnection(g)'
      <3>1. IsConnection(g)
        BY <2>1, <2>2 DEF ConnectionInv
      <3>2. CASE g = Tuple(p, p.tcp)
        BY <1>3, <2>1, <2>2, <3>2, OwnConnection
      <3>3. CASE g # Tuple(p, p.tcp)
        <4>1. g # Tuple(p, p.at20)
          BY <1>3, <2>1, <2>2, <3>3, FrameTyped
        <4> QED
          BY <1>3, <2>2, <3>1, <3>3, <4>1, OtherConnections
      <3> QED
        BY <3>2, <3>3
    <2>3. ASSUME NEW g \in Flow PROVE NothingYet(g)'
      <3>1. received \in [Flow -> Received] /\ NothingYet(g)
        BY DEF ConnectionInv, TypeInv, TypeOK, Received
      <3>2. received' = [received EXCEPT ![Tuple(p, p.tcp)] =
                 [segments |-> @.segments + 1, header_bytes |-> @.header_bytes + 4 * p.tcp.doff,
                  ends |-> @.ends + IF p.tcp.end THEN 1 ELSE 0]]
        BY <1>3 DEF Receive
      <3>3. CASE g = Tuple(p, p.tcp)
        BY <3>1, <3>2, <3>3 DEF NothingYet, Received
      <3>4. CASE g # Tuple(p, p.tcp)
        BY <3>1, <3>2, <3>4 DEF NothingYet
      <3> QED
        BY <3>3, <3>4
    <2> QED
      BY <1>1, <2>2, <2>3 DEF ConnectionInv
  <1> QED
    BY <1>2, <1>3, XdpCases DEF Next, vars, ConnectionInv

\* For any number of frames, flows and entries: outside IP options, an entry counts all
\* the segments, header bytes and ends of one connection and no others.
THEOREM FlowsAlwaysConnections == Spec => []FlowsAreConnections
  <1>1. ConnectionInv => FlowsAreConnections
    BY DEF ConnectionInv, FlowsAreConnections, IsConnection
  <1> QED
    BY <1>1, ConnectionInit, ConnectionStep, PTL DEF Spec

=============================================================================
