------------------------------ MODULE FlowTuple ------------------------------
(***************************************************************************)
(* Which frames NN-eBPF looks at and under which flow it files them:       *)
(* flow_tuple and the filter of xdp_prog in src/src/xdp.bpf.c, with the    *)
(* fields of the entry that come straight from the TCP header.             *)
(*                                                                         *)
(* The TCP header is read 20 bytes after the start of the IP header, where *)
(* it is unless there are IP options; where there are, other bytes are     *)
(* taken for it.  Frames are handled one at a time here (FlowFeatures has  *)
(* the interleavings, and the fields that depend on time and length).      *)
(***************************************************************************)
EXTENDS Integers, FiniteSets

CONSTANTS
  Addresses, Monitored,   \* IPv4 addresses, and the monitored host's: 33.33.33.73
  Ports,                  \* TCP ports as they stand in the header, in network byte order
  Doffs,                  \* TCP header lengths, in 32-bit words
  Ihls,                   \* IP header lengths, in 32-bit words: 5 without options
  MaxEntries,             \* max_entries of flow_map (MAX_PACKET_REACORD)
  MaxFrames               \* bound: frames received

u16 == {w \in Nat : w < 65536}

ASSUME FlowTupleAssumption ==
  /\ Monitored \in Addresses /\ Ports \subseteq u16
  /\ Doffs \subseteq Nat /\ Ihls \subseteq Nat
  /\ MaxEntries \in Nat /\ MaxFrames \in Nat

VARIABLES
  flow_map,   \* the entries, a function on the flows that have one
  started,    \* per flow: detections that xdp_prog has started
  received,   \* history, per connection: its TCP segments
  optioned,   \* history: connections with IP options, and flows they were taken for
  nframes     \* frames received

vars == <<flow_map, started, received, optioned, nframes>>

Flow == [saddr : Addresses, daddr : Addresses, sport : Ports, dport : Ports]

TCP == [source : Ports, dest : Ports, doff : Doffs, end : BOOLEAN]   \* end: fin or rst

\* bytes: how much of it there is; tcp: the TCP header, if it has one; at20: what a TCP
\* header 20 bytes into the IP packet would be.
Frame ==
  [bytes : {13, 33, 53, 74}, h_proto : {"IPv4", "other"}, protocol : {"TCP", "other"},
   saddr : Addresses, daddr : Addresses \ {Monitored}, ihl : Ihls, tcp : TCP, at20 : TCP]

\* p is a whole TCP segment that the monitored host sent.
Segment(p) ==
  /\ p.bytes = 74 /\ p.h_proto = "IPv4" /\ p.protocol = "TCP"
  /\ p.saddr = Monitored

\* Bounds: of the frames that are not such segments, those without options; no fragments.
Frames ==
  {p \in Frame : /\ p.ihl = 5 => p.at20 = p.tcp
                 /\ Segment(p) \/ p.ihl = 5}

Init ==
  /\ flow_map = [f \in {} |-> 0]
  /\ started = [f \in Flow |-> 0]
  /\ received = [f \in Flow |-> [segments |-> 0, header_bytes |-> 0, ends |-> 0]]
  /\ optioned = {}
  /\ nframes = 0

Tuple(p, tcp) ==
  [saddr |-> p.saddr, daddr |-> p.daddr, sport |-> tcp.source, dport |-> tcp.dest]

\* flow_tuple returns 0: a TCP segment over IPv4, and as far as the checks go all there.
Parsed(p) ==
  /\ p.bytes >= 14 /\ p.h_proto = "IPv4"
  /\ p.bytes >= 34 /\ p.protocol = "TCP"
  /\ p.bytes >= 54

\* Mutant: the destination address is not part of the flow.
flow_tuple_NoDaddr(p) == [Tuple(p, p.at20) EXCEPT !.daddr = Monitored]

flow_tuple(p) == Tuple(p, p.at20)

\* A 16-bit word with its two bytes swapped.
bpf_ntohs(w) == (w % 256) * 256 + w \div 256

\* Mutant: a full table takes one more entry.
update_flow_attribute_OneMore(f, tcp) ==
  LET old == IF f \in DOMAIN flow_map THEN flow_map[f]
             ELSE [num_packet |-> 0, header_length |-> 0, dst_port |-> bpf_ntohs(tcp.dest)]
      new == [num_packet |-> old.num_packet + 1, header_length |-> old.header_length + 4 * tcp.doff,
              dst_port |-> old.dst_port]
  IN  flow_map' = IF f \in DOMAIN flow_map \/ Cardinality(DOMAIN flow_map) <= MaxEntries
                  THEN [g \in DOMAIN flow_map \cup {f} |-> IF g = f THEN new ELSE flow_map[g]]
                  ELSE flow_map

\* update_flow_attribute, for the fields it takes from the TCP header.
update_flow_attribute(f, tcp) ==
  LET old == IF f \in DOMAIN flow_map THEN flow_map[f]
             ELSE [num_packet |-> 0, header_length |-> 0, dst_port |-> bpf_ntohs(tcp.dest)]
      new == [num_packet |-> old.num_packet + 1, header_length |-> old.header_length + 4 * tcp.doff,
              dst_port |-> old.dst_port]
  IN  flow_map' = IF f \in DOMAIN flow_map \/ Cardinality(DOMAIN flow_map) < MaxEntries
                  THEN [g \in DOMAIN flow_map \cup {f} |-> IF g = f THEN new ELSE flow_map[g]]
                  ELSE flow_map

\* xdp_prog.  A frame that is not parsed, or not from the monitored host, passes.
xdp_prog(p) ==
  IF Parsed(p) /\ p.saddr = Monitored
  THEN LET f == flow_tuple(p)
       IN  /\ update_flow_attribute(f, p.at20)
           /\ started' = IF p.at20.end /\ f \in DOMAIN flow_map'
                         THEN [started EXCEPT ![f] = @ + 1] ELSE started
  ELSE UNCHANGED <<flow_map, started>>

Receive(p) ==
  /\ nframes' = nframes + 1
  /\ xdp_prog(p)
  /\ IF Segment(p)
       THEN /\ received' = [received EXCEPT ![Tuple(p, p.tcp)] =
                 [segments |-> @.segments + 1, header_bytes |-> @.header_bytes + 4 * p.tcp.doff,
                  ends |-> @.ends + IF p.tcp.end THEN 1 ELSE 0]]
            /\ optioned' = IF p.ihl = 5 THEN optioned
                           ELSE optioned \cup {Tuple(p, p.tcp), Tuple(p, p.at20)}
       ELSE UNCHANGED <<received, optioned>>

Next == nframes < MaxFrames /\ \E p \in Frames : Receive(p)

Spec == Init /\ [][Next]_vars

-----------------------------------------------------------------------------

\* Type invariant: xdp_prog never holds more entries than flow_map has room for.
TypeOK ==
  /\ DOMAIN flow_map \subseteq Flow /\ Cardinality(DOMAIN flow_map) <= MaxEntries
  /\ \A f \in DOMAIN flow_map :
       flow_map[f] \in [num_packet : Nat, header_length : Nat, dst_port : u16]
  /\ started \in [Flow -> Nat]
  /\ received \in [Flow -> [segments : Nat, header_bytes : Nat, ends : Nat]]
  /\ optioned \subseteq Flow /\ nframes \in 0 .. MaxFrames

\* Unless IP options are involved, flows are the connections of the monitored host: an
\* entry counts the segments, header bytes and destination port of one connection, all of
\* them and no others, and every FIN or RST starts a detection; without an entry nothing
\* was received, or the table was full, and then no detection was started.
FlowsAreConnections ==
  \A f \in Flow \ optioned :
    LET r == received[f]
    IN  IF f \in DOMAIN flow_map
        THEN /\ flow_map[f] = [num_packet |-> r.segments, header_length |-> r.header_bytes,
                               dst_port |-> bpf_ntohs(f.dport)]
             /\ started[f] = r.ends
        ELSE /\ r.segments = 0 \/ Cardinality(DOMAIN flow_map) = MaxEntries
             /\ started[f] = 0

\* common.h:11, header_length is the "TCP total header length" of the flow.
HeaderLength ==
  \A f \in DOMAIN flow_map : flow_map[f].header_length = received[f].header_bytes

=============================================================================
