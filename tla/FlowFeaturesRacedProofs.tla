----------------------- MODULE FlowFeaturesRacedProofs -----------------------
(***************************************************************************)
(* Proofs about FlowFeatures when CPUs overlap on a flow: updates are lost *)
(* then, but for any number of CPUs, flows and packets no count or sum is  *)
(* ever too high, no length is one that was not seen, and no count is zero *)
(* once one packet of the flow has been handled.                           *)
(***************************************************************************)
EXTENDS FlowFeaturesProofs

\* A CPU at this point has a packet that num_packet does not account for.
ToCount(r) == r.pc # "idle" /\ r.field = 1

\* CPUs that have a packet of f which num_packet does not account for.
Counting(f) == {c \in Busy(f) : ToCount(cpu[c])}
Counted(f)  == IF f \in Tracked THEN flow_map[f].num_packet ELSE 0

\* No packet of f has been counted: its entry has count 0, or is not there although the
\* table has room for it.
Uncounted(f) ==
  IF f \in Tracked THEN flow_map[f].num_packet = 0 ELSE Cardinality(Tracked) < MaxEntries

\* The packets counted and those still to be counted are not more than there were; a CPU
\* about to store has counted its own.  If none is counted, all are still to be.
CountInv(f) ==
  /\ IsFiniteSet(Counting(f))
  /\ Counted(f) + Cardinality(Counting(f)) <= Len(hist[f])
  /\ \A c \in Counting(f) : cpu[c].pc = "store" =>
       cpu[c].value >= 1 /\ cpu[c].value - 1 + Cardinality(Counting(f)) <= Len(hist[f])
  /\ Uncounted(f) => Cardinality(Counting(f)) = Len(hist[f])

-----------------------------------------------------------------------------
(* What the steps have in common. *)

\* Who is busy with f, and who of those is to count, once CPU c has gone on as r.
LEMMA BusyNow ==
  ASSUME TypeInv, NEW c \in CPUs, NEW f \in Flows, NEW r,
         cpu' = [cpu EXCEPT ![c] = r], r.pc = "idle" \/ r.flow = f
  PROVE  /\ cpu'[c] = r /\ \A d \in CPUs \ {c} : cpu'[d] = cpu[d]
         /\ r.pc = "idle" => Busy(f)' = Busy(f) \ {c}
         /\ r.pc # "idle" => Busy(f)' = Busy(f) \cup {c}
         /\ ToCount(r) => Counting(f)' = Counting(f) \cup {c}
         /\ ~ToCount(r) => Counting(f)' = Counting(f) \ {c}
  <1>1. cpu'[c] = r /\ \A d \in CPUs \ {c} : cpu'[d] = cpu[d]
    BY DEF TypeInv, TypeOK
  <1>2. Busy(f)' = IF r.pc = "idle" THEN Busy(f) \ {c} ELSE Busy(f) \cup {c}
    BY <1>1 DEF Busy
  <1>3. Counting(f)' = {d \in Busy(f)' : ToCount(cpu'[d])}
    BY DEF Counting, ToCount
  <1>4. Busy(f) \subseteq CPUs
    BY DEF Busy
  <1>5. ASSUME NEW d \in Busy(f), d # c PROVE d \in Counting(f)' <=> d \in Counting(f)
    BY <1>1, <1>2, <1>3, <1>4, <1>5 DEF Counting
  <1>6. c \in Counting(f)' <=> ToCount(r)
    BY <1>1, <1>2, <1>3 DEF ToCount
  <1>7. \A d : d \in Counting(f)' \/ d \in Counting(f) => d \in Busy(f) \/ d = c
    BY <1>2, <1>3 DEF Counting
  <1> QED
    BY <1>1, <1>2, <1>5, <1>6, <1>7

\* The history of f, of any flow.
LEMMA HistoryBounded ==
  ASSUME TypeInv, NEW f \in Flows
  PROVE  /\ hist[f] \in Seq(Packets) /\ Len(hist[f]) \in Nat /\ Len(hist[f]) < Word
         /\ sent[f] \in 0 .. Word - 1
  <1>1. /\ hist[f] \in Seq(Packets) /\ sent[f] \in 0 .. Word - 1
        /\ Len(hist[f]) <= MaxPackets
    BY DEF TypeInv, TypeOK, HistoryOK
  <1>2. Len(hist[f]) \in Nat
    BY <1>1
  <1> QED
    BY <1>1, <1>2, Bounds

\* A packet is one more that was received and one more to count.
LEMMA ReceiveCount ==
  ASSUME TypeInv, NEW c \in CPUs, NEW f \in Flows, Receive(c, f), CountInv(f)
  PROVE  CountInv(f)'
  <1>1. PICK p \in Packets, r \in CPUState :
          /\ r.pc = "lookup" /\ r.flow = f /\ r.field = 1 /\ r.pkt = p
          /\ cpu' = [cpu EXCEPT ![c] = r]
          /\ hist' = [hist EXCEPT ![f] = Append(@, p)]
          /\ flow_map' = flow_map
    BY ReceiveIs
  <1>2. cpu[c].pc = "idle" /\ c \notin Counting(f)
    BY DEF Receive, Counting, Busy
  <1>3. /\ cpu'[c] = r /\ \A d \in CPUs \ {c} : cpu'[d] = cpu[d]
        /\ Counting(f)' = Counting(f) \cup {c}
    <2>1. ToCount(r) /\ r.flow = f /\ cpu' = [cpu EXCEPT ![c] = r]
      BY <1>1 DEF ToCount
    <2> QED
      BY <2>1, BusyNow
  <1> DEFINE n == Cardinality(Counting(f))
  <1>4. n \in Nat /\ IsFiniteSet(Counting(f)') /\ Cardinality(Counting(f)') = n + 1
    BY <1>2, <1>3, FS_CardinalityType, FS_AddElement DEF CountInv
  <1>5. PICK k \in Nat : k = Len(hist[f])
    BY HistoryBounded
  <1>6. Len(hist'[f]) = k + 1
    BY <1>1, <1>5, HistoryBounded DEF TypeInv, TypeOK
  <1>7. Counted(f)' = Counted(f) /\ Counted(f) \in Int /\ Tracked' = Tracked
    <2>1. Counted(f)' = Counted(f) /\ Tracked' = Tracked
      BY <1>1 DEF Counted, Tracked
    <2>2. Counted(f) \in Int
      BY EntryTyped, Names, Bounds DEF Counted
    <2> QED
      BY <2>1, <2>2
  <1>8. \A d \in Counting(f) : cpu'[d] = cpu[d] /\ cpu[d].value \in Int
    <2>1. \A d \in Counting(f) : d \in CPUs /\ d # c
      BY <1>2 DEF Counting, Busy
    <2>2. \A d \in CPUs : cpu[d].value \in Int
      BY CPUTyped, Bounds DEF CPUState
    <2> QED
      BY <1>3, <2>1, <2>2
  <1>9. Counted(f)' + (n + 1) <= k + 1
    BY <1>4, <1>5, <1>7 DEF CountInv
  <1>10. ASSUME NEW d \in Counting(f)', cpu'[d].pc = "store"
         PROVE  cpu'[d].value >= 1 /\ cpu'[d].value - 1 + (n + 1) <= k + 1
    <2>1. d \in Counting(f)
      BY <1>1, <1>3, <1>10
    <2>2. cpu[d].value >= 1 /\ cpu[d].value - 1 + n <= k /\ cpu'[d] = cpu[d]
      BY <1>5, <1>8, <1>10, <2>1 DEF CountInv
    <2> QED
      BY <1>4, <1>8, <2>1, <2>2
  <1>11. Uncounted(f)' => n + 1 = k + 1
    <2>1. Uncounted(f)' => Uncounted(f)
      BY <1>1 DEF Uncounted, Tracked
    <2> QED
      BY <1>4, <1>5, <2>1 DEF CountInv
  <1> HIDE DEF n
  <1> QED
    BY <1>4, <1>6, <1>9, <1>10, <1>11 DEF CountInv

\* What is loaded and computed for the count of f.
LEMMA CountTyped ==
  ASSUME TypeInv, NEW f \in Flows
  PROVE  /\ Counted(f) \in Nat /\ \A d \in CPUs : cpu[d].value \in Int
         /\ Counting(f) \subseteq CPUs
  <1>1. Counted(f) \in Nat
    BY EntryTyped, Names, Bounds DEF Counted
  <1>2. \A d \in CPUs : cpu[d].value \in Int
    BY CPUTyped, Bounds DEF CPUState
  <1> QED
    BY <1>1, <1>2 DEF Counting, Busy, ToCount

\* CPU c goes on as r, and neither the count nor who is to count changes.
LEMMA CountKept ==
  ASSUME TypeInv, NEW c \in CPUs, NEW f \in Flows, CountInv(f),
         NEW r \in CPUState, cpu' = [cpu EXCEPT ![c] = r], r.flow = f, r.pc # "idle",
         cpu[c].pc # "idle", cpu[c].flow = f, (r.field = 1) <=> (cpu[c].field = 1),
         hist' = hist, Tracked' = Tracked, Counted(f)' = Counted(f),
         r.pc = "store" /\ r.field = 1 =>
           r.value >= 1 /\ r.value - 1 + Cardinality(Counting(f)) <= Len(hist[f])
  PROVE  CountInv(f)'
  <1>1. cpu'[c] = r
    BY DEF TypeInv, TypeOK
  <1>2. /\ \A d \in CPUs \ {c} : cpu'[d] = cpu[d]
        /\ ToCount(r) => Counting(f)' = Counting(f) \cup {c}
        /\ ~ToCount(r) => Counting(f)' = Counting(f) \ {c}
    BY BusyNow
  <1>3. c \in Counting(f) <=> ToCount(r)
    BY DEF Counting, Busy, ToCount
  <1>4. Counting(f)' = Counting(f)
    BY <1>2, <1>3
  <1>5. ASSUME NEW d \in Counting(f), cpu'[d].pc = "store"
        PROVE  /\ cpu'[d].value >= 1
               /\ cpu'[d].value - 1 + Cardinality(Counting(f)) <= Len(hist[f])
    <2>1. CASE d = c
      BY <1>1, <1>3, <1>5, <2>1 DEF ToCount
    <2>2. CASE d # c
      BY <1>2, <1>5, <2>2, CountTyped DEF CountInv
    <2> QED
      BY <2>1, <2>2
  <1>6. Uncounted(f)' => Uncounted(f)
    BY DEF Uncounted, Counted
  <1> QED
    BY <1>4, <1>5, <1>6 DEF CountInv

LEMMA LookupCount ==
  ASSUME TypeInv, NEW c \in CPUs, NEW f \in Flows, f = cpu[c].flow, Lookup(c), CountInv(f)
  PROVE  CountInv(f)'
  <1> DEFINE r == [cpu[c] EXCEPT !.pc = IF f \in Tracked THEN "load" ELSE "insert"]
  <1>1. /\ cpu[c].pc = "lookup" /\ cpu' = [cpu EXCEPT ![c] = r]
        /\ hist' = hist /\ Tracked' = Tracked /\ flow_map' = flow_map
    BY DEF Lookup, Tracked
  <1>2. /\ r \in CPUState /\ r.flow = f /\ r.field = cpu[c].field /\ r.pc \in {"load", "insert"}
    BY CPUTyped DEF CPUState
  <1> HIDE DEF r
  <1>3. Counted(f)' = Counted(f)
    BY <1>1 DEF Counted
  <1> QED
    BY <1>1, <1>2, <1>3, CountKept

\* A new entry counts nobody, but the CPU that made it is about to; without an entry the
\* packet is dropped.
LEMMA InsertCount ==
  ASSUME TypeInv, NEW c \in CPUs, NEW f \in Flows, f = cpu[c].flow, Insert(c), CountInv(f)
  PROVE  CountInv(f)'
  <1> DEFINE made == f \notin Tracked /\ Cardinality(Tracked) < MaxEntries
             s == [cpu[c] EXCEPT !.pc = "load"]
  <1>1. /\ cpu[c].pc = "insert" /\ hist' = hist
        /\ IF made THEN /\ Tracked' = Tracked \cup {f}
                        /\ flow_map'[f] = InitialAttribute(cpu[c].pkt.time)
                   ELSE flow_map' = flow_map /\ Tracked' = Tracked
        /\ IF f \in Tracked' THEN cpu' = [cpu EXCEPT ![c] = s]
                             ELSE cpu' = [cpu EXCEPT ![c] = NoPacket]
    BY InsertIs
  <1>2. s \in CPUState /\ s.flow = f /\ s.field = 1 /\ s.pc = "load" /\ cpu[c].field = 1
    BY <1>1, CPUTyped DEF CPUState, TypeInv, FoundEntry
  <1> HIDE DEF s
  <1>3. c \in Counting(f)
    BY <1>1, <1>2 DEF Counting, Busy, ToCount
  <1> DEFINE n == Cardinality(Counting(f))
  <1>4. PICK k \in Nat : k = Len(hist[f])
    BY HistoryBounded
  <1>5. n \in Nat /\ Counted(f) \in Nat /\ Counted(f) + n <= k
    BY <1>4, CountTyped, FS_CardinalityType DEF CountInv
  <1>6. CASE f \in Tracked
    <2>1. cpu' = [cpu EXCEPT ![c] = s] /\ Tracked' = Tracked /\ flow_map' = flow_map
      BY <1>1, <1>6
    <2>2. Counted(f)' = Counted(f)
      BY <2>1 DEF Counted
    <2> QED
      BY <1>1, <1>2, <2>1, <2>2, CountKept
  <1>7. CASE made
    <2>1. /\ cpu' = [cpu EXCEPT ![c] = s] /\ f \in Tracked'
          /\ flow_map'[f] = InitialAttribute(cpu[c].pkt.time)
      BY <1>1, <1>7
    <2>2. cpu'[c] = s
      BY <2>1 DEF TypeInv, TypeOK
    <2>3. ToCount(s) /\ s.flow = f
      BY <1>2 DEF ToCount
    <2>4. /\ \A d \in CPUs \ {c} : cpu'[d] = cpu[d]
          /\ Counting(f)' = Counting(f) \cup {c}
      BY <2>1, <2>3, BusyNow
    <2>5. Counting(f)' = Counting(f)
      BY <1>2, <1>3, <2>4
    <2>6. Counted(f)' = 0
      BY <2>1 DEF Counted, InitialAttribute
    <2>7. Counted(f)' + n <= k
      BY <1>5, <2>6
    <2>8. ASSUME NEW d \in Counting(f), cpu'[d].pc = "store"
          PROVE  cpu'[d].value >= 1 /\ cpu'[d].value - 1 + n <= k
      BY <1>2, <1>4, <2>2, <2>4, <2>8, CountTyped DEF CountInv
    <2>9. Uncounted(f)
      BY <1>7 DEF Uncounted
    <2> QED
      BY <1>1, <1>3, <1>4, <2>5, <2>7, <2>8, <2>9 DEF CountInv
  <1>8. CASE f \notin Tracked /\ ~made
    <2>1. cpu' = [cpu EXCEPT ![c] = NoPacket] /\ f \notin Tracked'
      BY <1>1, <1>8
    <2>2. NoPacket.pc = "idle" /\ ~ToCount(NoPacket)
      BY NoPacketTyped DEF ToCount
    <2>3. /\ \A d \in CPUs \ {c} : cpu'[d] = cpu[d]
          /\ Counting(f)' = Counting(f) \ {c}
      BY <2>1, <2>2, BusyNow
    <2>4. IsFiniteSet(Counting(f)') /\ Cardinality(Counting(f)') = n - 1
      BY <1>3, <2>3, FS_RemoveElement DEF CountInv
    <2>5. Counted(f)' = 0
      BY <2>1 DEF Counted
    <2>6. Counted(f)' + (n - 1) <= k
      BY <1>5, <2>5
    <2>7. ASSUME NEW d \in Counting(f)', cpu'[d].pc = "store"
          PROVE  cpu'[d].value >= 1 /\ cpu'[d].value - 1 + (n - 1) <= k
      <3>1. d \in Counting(f) /\ cpu'[d] = cpu[d] /\ cpu[d].value \in Int
        BY <2>3, <2>7, CountTyped
      <3>2. cpu[d].value >= 1 /\ cpu[d].value - 1 + n <= k
        BY <1>4, <2>7, <3>1 DEF CountInv
      <3> QED
        BY <1>5, <3>1, <3>2
    <2>8. ~Uncounted(f)'
      <3>1. Tracked' = Tracked /\ ~(Cardinality(Tracked) < MaxEntries)
        BY <1>1, <1>8
      <3> QED
        BY <2>1, <3>1 DEF Uncounted
    <2> HIDE DEF n
    <2> QED
      BY <1>1, <1>4, <2>1, <2>4, <2>6, <2>7, <2>8 DEF CountInv
  <1> QED
    BY <1>6, <1>7, <1>8

\* CPU c goes on with its packet of f as r, after a load.
GoesOn(c, f, r) ==
  /\ f = cpu[c].flow /\ f \in Tracked /\ f \in Flows /\ cpu[c].pkt \in Packets
  /\ cpu[c].pc \in {"load", "compare"} /\ r.pc \in Updating
  /\ r.flow = f /\ r.pkt = cpu[c].pkt
  /\ r.field = 1 <=> cpu[c].field = 1
  /\ r.field = 1 => r.pc = "store"
  /\ r.pc = "store" /\ r.field # 4 =>
       r.value = NewValue(Fields[r.field], flow_map[f], cpu[c].pkt)
  /\ cpu' = [cpu EXCEPT ![c] = r]
  /\ UNCHANGED <<flow_map, now, hist, sent, raced>>

LEMMA ChooseGoesOn ==
  ASSUME NEW c, NEW f, NEW n, NEW new, Chooses(c, f, n, new),
         n = 1 => cpu' = [cpu EXCEPT ![c] = ToStore(cpu[c], new)],
         n # 4 => new = NewValue(Fields[n], flow_map[f], cpu[c].pkt)
  PROVE  \E r \in CPUState : GoesOn(c, f, r)
  <1> DEFINE s == ToStore(cpu[c], new)
             t == NextField(cpu[c])
  <1>1. /\ cpu[c] \in CPUState /\ new \in 0 .. Word - 1
        /\ f = cpu[c].flow /\ n = cpu[c].field /\ n \in 1 .. 6
        /\ f \in Tracked /\ f \in Flows /\ cpu[c].pkt \in Packets
        /\ cpu[c].pc \in {"load", "compare"}
        /\ UNCHANGED <<flow_map, now, hist, sent, raced>>
    BY DEF Chooses
  <1>2. /\ s \in CPUState /\ s.pc = "store" /\ s.flow = f /\ s.field = n /\ s.value = new
        /\ s.pkt = cpu[c].pkt
        /\ t.pc = "load" /\ t.flow = f /\ t.field = n + 1 /\ t.pkt = cpu[c].pkt
        /\ n # 6 => t \in CPUState
    BY <1>1, Goes
  <1>3. \/ cpu' = [cpu EXCEPT ![c] = s]
        \/ n # 6 /\ n # 1 /\ cpu' = [cpu EXCEPT ![c] = t]
    BY DEF Chooses
  <1> HIDE DEF s, t
  <1>4. CASE cpu' = [cpu EXCEPT ![c] = s]
    <2>1. GoesOn(c, f, s)
      BY <1>1, <1>2, <1>4 DEF GoesOn, Updating
    <2> QED
      BY <1>2, <2>1
  <1>5. CASE n # 6 /\ n # 1 /\ cpu' = [cpu EXCEPT ![c] = t]
    <2>1. t.field # 1
      BY <1>1, <1>2, <1>5
    <2>2. GoesOn(c, f, t)
      BY <1>1, <1>2, <1>5, <2>1 DEF GoesOn, Updating
    <2> QED
      BY <1>2, <1>5, <2>2
  <1> QED
    BY <1>3, <1>4, <1>5

\* A load, of whatever field, leaves the entries alone; num_packet is always stored.
LEMMA LoadGoesOn ==
  ASSUME TypeInv, NEW c \in CPUs, NEW f \in Flows, f = cpu[c].flow,
         Load(c) \/ LoadTime(c) \/ Compare(c)
  PROVE  \E r \in CPUState : GoesOn(c, f, r)
  <1>1. CASE Load(c)
    <2> DEFINE n == cpu[c].field
               new == NewValue(Fields[n], flow_map[f], cpu[c].pkt)
    <2>1. Chooses(c, f, n, new)
      BY <1>1, LoadIs
    <2>2. n = 1 => cpu' = [cpu EXCEPT ![c] = ToStore(cpu[c], new)]
      BY <1>1 DEF Load, Fields
    <2> HIDE DEF new, n
    <2>3. new = NewValue(Fields[n], flow_map[f], cpu[c].pkt)
      BY DEF new
    <2> QED
      BY <2>1, <2>2, <2>3, ChooseGoesOn
  <1>2. CASE LoadTime(c)
    <2> DEFINE r == [cpu[c] EXCEPT !.pc = "compare",
                                   !.value = Duration(flow_map[cpu[c].flow], cpu[c].pkt)]
    <2>1. /\ cpu[c].pc = "load" /\ f \in Tracked /\ cpu[c].field = 4 /\ cpu[c].pkt \in Packets
          /\ cpu' = [cpu EXCEPT ![c] = r] /\ r \in CPUState
          /\ r.pc = "compare" /\ r.flow = f /\ r.field = 4 /\ r.pkt = cpu[c].pkt
          /\ UNCHANGED <<flow_map, now, hist, sent, raced>>
      BY <1>2, LoadTimeIs
    <2> HIDE DEF r
    <2>2. GoesOn(c, f, r)
      BY <2>1 DEF GoesOn, Updating
    <2> QED
      BY <2>1, <2>2
  <1>3. CASE Compare(c)
    <2> DEFINE new == Greater(cpu[c].value, flow_map[f].max_duration)
    <2>1. Chooses(c, f, 4, new)
      BY <1>3, CompareIs
    <2> HIDE DEF new
    <2> QED
      BY <2>1, ChooseGoesOn
  <1> QED
    BY <1>1, <1>2, <1>3

\* The count that is computed is the one loaded and this packet: it does not wrap.
LEMMA LoadCount ==
  ASSUME TypeInv, NEW c \in CPUs, NEW f \in Flows, f = cpu[c].flow,
         Load(c) \/ LoadTime(c) \/ Compare(c), CountInv(f)
  PROVE  CountInv(f)'
  <1>0. PICK r \in CPUState : GoesOn(c, f, r)
    BY LoadGoesOn
  <1>1. /\ cpu[c].pc \in {"load", "compare"} /\ r.pc # "idle" /\ f \in Tracked
        /\ r.flow = f /\ cpu[c].flow = f /\ (r.field = 1 <=> cpu[c].field = 1)
        /\ cpu' = [cpu EXCEPT ![c] = r]
        /\ UNCHANGED <<flow_map, hist>>
    BY <1>0 DEF GoesOn, Updating
  <1>2. Tracked' = Tracked /\ Counted(f)' = Counted(f)
    BY <1>1 DEF Tracked, Counted
  <1>3. PICK k \in Nat : k = Len(hist[f]) /\ k < Word
    BY HistoryBounded
  <1>4. PICK m \in Nat : m = Cardinality(Counting(f)) /\ Counted(f) + m <= k
    BY <1>3, FS_CardinalityType DEF CountInv
  <1>5. PICK x \in Nat : x = Counted(f)
    BY CountTyped
  <1>6. ASSUME r.pc = "store", r.field = 1 PROVE r.value = x + 1 /\ x + m <= k
    <2>1. c \in Counting(f)
      BY <1>1, <1>6 DEF Counting, Busy, ToCount
    <2>2. m # 0
      BY <1>4, <2>1, FS_EmptySet DEF CountInv
    <2>3. x + 1 \in 0 .. Word - 1 /\ x + m <= k
      BY <1>3, <1>4, <1>5, <2>2, Bounds
    <2>4. Fields[1] = "num_packet" /\ x = flow_map[f].num_packet
      BY <1>1, <1>5 DEF Fields, Counted
    <2>5. r.value = NewValue(Fields[1], flow_map[f], cpu[c].pkt)
      BY <1>0, <1>6 DEF GoesOn
    <2>6. r.value = (x + 1) % Word
      BY <2>4, <2>5 DEF NewValue
    <2>7. (x + 1) % Word = x + 1
      BY <2>3, Fits
    <2> QED
      BY <2>3, <2>6, <2>7
  <1>7. r.pc = "store" /\ r.field = 1 => r.value >= 1 /\ r.value - 1 + m <= k
    BY <1>4, <1>5, <1>6
  <1> QED
    BY <1>1, <1>2, <1>3, <1>4, <1>7, CountKept

\* With the store the packet is counted; that others are forgotten by it only makes the
\* count lower.
LEMMA StoreCount ==
  ASSUME TypeInv, NEW c \in CPUs, NEW f \in Flows, f = cpu[c].flow, Store(c), CountInv(f)
  PROVE  CountInv(f)'
  <1>n. PICK n \in 1 .. 6 : n = cpu[c].field
    BY CPUTyped DEF CPUState
  <1> DEFINE r == IF n = 6 THEN NoPacket ELSE NextField(cpu[c])
  <1>1. /\ cpu[c].pc = "store" /\ f \in Tracked /\ Fields[n] \in FieldNames
        /\ Tracked' = Tracked
        /\ flow_map'[f] = [flow_map[f] EXCEPT ![Fields[n]] = cpu[c].value]
        /\ cpu' = [cpu EXCEPT ![c] = r]
        /\ hist' = hist
    BY <1>n, StoreIs
  <1>2. IF n = 6 THEN r.pc = "idle" ELSE r.pc = "load" /\ r.flow = f /\ r.field = n + 1
    BY <1>n, CPUTyped, NoPacketTyped DEF NextField, CPUState
  <1> HIDE DEF r
  <1>3. ~ToCount(r) /\ (r.pc = "idle" \/ r.flow = f)
    BY <1>2 DEF ToCount
  <1>4. /\ \A d \in CPUs \ {c} : cpu'[d] = cpu[d]
        /\ Counting(f)' = Counting(f) \ {c}
    BY <1>1, <1>3, BusyNow
  <1>5. PICK k \in Nat : k = Len(hist[f])
    BY HistoryBounded
  <1>6. PICK m \in Nat : m = Cardinality(Counting(f)) /\ Counted(f) + m <= k
    BY <1>5, FS_CardinalityType DEF CountInv
  <1>7. PICK x \in Nat : x = Counted(f) /\ x = flow_map[f].num_packet
    BY <1>1, CountTyped DEF Counted
  <1>8. CASE n = 1
    <2>1. c \in Counting(f)
      BY <1>1, <1>n, <1>8 DEF Counting, Busy, ToCount
    <2>2. PICK v \in Int : v = cpu[c].value /\ v >= 1 /\ v - 1 + m <= k
      BY <1>1, <1>5, <1>6, <2>1, CountTyped DEF CountInv
    <2>3. IsFiniteSet(Counting(f)') /\ Cardinality(Counting(f)') = m - 1
      BY <1>4, <1>6, <2>1, FS_RemoveElement DEF CountInv
    <2>4. flow_map'[f].num_packet = v /\ Counted(f)' = v
      <3>1. Fields[n] = "num_packet"
        BY <1>8 DEF Fields
      <3>2. flow_map'[f].num_packet = v
        BY <1>1, <2>2, <3>1, EntryTyped, Names
      <3> QED
        BY <1>1, <3>2 DEF Counted
    <2>5. Counted(f)' + (m - 1) <= k
      BY <1>6, <2>2, <2>4
    <2>6. ASSUME NEW d \in Counting(f)', cpu'[d].pc = "store"
          PROVE  cpu'[d].value >= 1 /\ cpu'[d].value - 1 + (m - 1) <= k
      <3>1. d \in Counting(f) /\ cpu'[d] = cpu[d] /\ cpu[d].value \in Int
        BY <1>4, <2>6, CountTyped
      <3>2. cpu[d].value >= 1 /\ cpu[d].value - 1 + m <= k
        BY <1>5, <1>6, <2>6, <3>1 DEF CountInv
      <3> QED
        BY <1>6, <3>1, <3>2
    <2>7. ~Uncounted(f)'
      BY <1>1, <2>2, <2>4 DEF Uncounted
    <2> QED
      BY <1>1, <1>5, <2>3, <2>5, <2>6, <2>7 DEF CountInv
  <1>9. CASE n # 1
    <2>1. c \notin Counting(f)
      BY <1>n, <1>9 DEF Counting, ToCount
    <2>2. Counting(f)' = Counting(f)
      BY <1>4, <2>1
    <2>3. flow_map'[f].num_packet = x /\ Counted(f)' = x
      <3>1. Fields[n] # "num_packet"
        BY <1>9 DEF Fields
      <3>2. flow_map'[f].num_packet = x
        BY <1>1, <1>7, <3>1, EntryTyped, Names
      <3> QED
        BY <1>1, <3>2 DEF Counted
    <2>4. \A d \in Counting(f) : cpu'[d] = cpu[d]
      BY <1>4, <2>1, CountTyped
    <2>5. Uncounted(f)' => Uncounted(f)
      BY <1>1, <1>7, <2>3 DEF Uncounted
    <2> QED
      BY <1>1, <1>5, <1>6, <1>7, <2>2, <2>3, <2>4, <2>5 DEF CountInv
  <1> QED
    BY <1>8, <1>9

-----------------------------------------------------------------------------
(* Sums over the CPUs that are busy. *)

\* s gives for every part of Q the sum of w over it.
Additive(s, Q, w) ==
  /\ \A c \in Q : w[c] \in Nat
  /\ s \in [SUBSET Q -> Nat]
  /\ s[{}] = 0
  /\ \A T \in SUBSET Q : \A c \in T : s[T] = s[T \ {c}] + w[c]

\* R has one element more than Q, c, and weights z where Q has w.
OneMore(R, z, Q, w, c) ==
  /\ c \notin Q /\ R = Q \cup {c}
  /\ z[c] \in Nat /\ \A d \in Q : z[d] = w[d]

\* The sum over one more element, and over one less.
LEMMA OneMoreSummand ==
  ASSUME NEW Q, NEW w, NEW s, Additive(s, Q, w),
         NEW c, NEW R, NEW z, OneMore(R, z, Q, w, c)
  PROVE  \E t : Additive(t, R, z) /\ t[R] = s[Q] + z[c]
  <1>0. /\ c \notin Q /\ R = Q \cup {c}
        /\ z[c] \in Nat /\ \A d \in Q : z[d] = w[d]
    BY DEF OneMore
  <1> DEFINE t == [T \in SUBSET (Q \cup {c}) |-> IF c \in T THEN s[T \ {c}] + z[c] ELSE s[T]]
  <1>1. s \in [SUBSET Q -> Nat] /\ s[{}] = 0
    BY DEF Additive
  <1>2. ASSUME NEW T \in SUBSET (Q \cup {c}) PROVE T \ {c} \in SUBSET Q
    OBVIOUS
  <1>3. ASSUME NEW T \in SUBSET (Q \cup {c}), c \notin T PROVE T \in SUBSET Q /\ t[T] = s[T]
    BY <1>0, <1>3
  <1>4. ASSUME NEW T \in SUBSET (Q \cup {c}), c \in T PROVE t[T] = s[T \ {c}] + z[c]
    BY <1>4
  <1>5. t \in [SUBSET (Q \cup {c}) -> Nat]
    <2>1. ASSUME NEW T \in SUBSET (Q \cup {c}) PROVE t[T] \in Nat
      <3>1. CASE c \in T
        <4>1. s[T \ {c}] \in Nat
          BY <1>1, <1>2
        <4> QED
          BY <1>0, <1>4, <3>1, <4>1
      <3>2. CASE c \notin T
        BY <1>1, <1>3, <3>2
      <3> QED
        BY <3>1, <3>2
    <2> QED
      BY <2>1
  <1>6. t[{}] = 0
    BY <1>1
  <1>7. t[Q \cup {c}] = s[Q] + z[c]
    <2>1. (Q \cup {c}) \ {c} = Q
      BY <1>0
    <2> QED
      BY <2>1
  <1>8. ASSUME NEW T \in SUBSET (Q \cup {c}), NEW d \in T PROVE t[T] = t[T \ {d}] + z[d]
    <2>1. T \ {d} \in SUBSET (Q \cup {c})
      OBVIOUS
    <2>2. CASE d = c
      <3>1. t[T] = s[T \ {c}] + z[c]
        BY <1>4, <2>2
      <3>2. t[T \ {d}] = s[T \ {c}]
        BY <1>3, <2>1, <2>2
      <3> QED
        BY <2>2, <3>1, <3>2
    <2>3. CASE d # c /\ c \notin T
      <3>1. t[T] = s[T] /\ t[T \ {d}] = s[T \ {d}] /\ T \in SUBSET Q
        BY <1>3, <2>1, <2>3
      <3> QED
        BY <1>0, <3>1 DEF Additive
    <2>4. CASE d # c /\ c \in T
      <3>1. d \in Q /\ T \ {c} \in SUBSET Q /\ d \in T \ {c}
        BY <1>2, <2>4
      <3>2. t[T] = s[T \ {c}] + z[c] /\ t[T \ {d}] = s[(T \ {d}) \ {c}] + z[c]
        BY <1>4, <2>1, <2>4
      <3>3. (T \ {d}) \ {c} = (T \ {c}) \ {d}
        OBVIOUS
      <3>4. s[T \ {c}] = s[(T \ {c}) \ {d}] + w[d] /\ w[d] = z[d]
        BY <1>0, <3>1 DEF Additive
      <3>5. s[(T \ {c}) \ {d}] \in Nat /\ s[T \ {c}] \in Nat
        BY <1>1, <3>1
      <3>6. \A x, y, v, u \in Int : x = y + v => x + u = (y + u) + v
        OBVIOUS
      <3>7. w[d] \in Int
        BY <1>0, <3>1 DEF Additive
      <3>8. s[T \ {c}] + z[c] = (s[(T \ {c}) \ {d}] + z[c]) + w[d]
        BY <1>0, <3>4, <3>5, <3>6, <3>7
      <3> HIDE DEF t
      <3> QED
        BY <3>2, <3>3, <3>4, <3>8
    <2> QED
      BY <2>2, <2>3, <2>4
  <1> HIDE DEF t
  <1>9. \A d \in Q \cup {c} : z[d] \in Nat
    BY <1>0 DEF Additive
  <1> QED
    BY <1>0, <1>5, <1>6, <1>7, <1>8, <1>9 DEF Additive

LEMMA OneSummandLess ==
  ASSUME NEW Q, NEW w, NEW s, Additive(s, Q, w), NEW c \in Q,
         NEW z, \A d \in Q \ {c} : z[d] = w[d]
  PROVE  \E t : Additive(t, Q \ {c}, z) /\ s[Q] = t[Q \ {c}] + w[c]
  <1> DEFINE t == [T \in SUBSET (Q \ {c}) |-> s[T]]
  <1>1. SUBSET (Q \ {c}) \subseteq SUBSET Q
    OBVIOUS
  <1>2. t \in [SUBSET (Q \ {c}) -> Nat] /\ t[{}] = 0
    BY <1>1 DEF Additive
  <1>3. ASSUME NEW T \in SUBSET (Q \ {c}), NEW d \in T PROVE t[T] = t[T \ {d}] + z[d]
    <2>1. T \in SUBSET Q /\ T \ {d} \in SUBSET (Q \ {c}) /\ d \in Q \ {c}
      OBVIOUS
    <2>2. s[T] = s[T \ {d}] + w[d] /\ w[d] = z[d]
      BY <2>1 DEF Additive
    <2> QED
      BY <2>1, <2>2
  <1>4. Q \in SUBSET Q /\ Q \ {c} \in SUBSET (Q \ {c})
    OBVIOUS
  <1>5. s[Q] = t[Q \ {c}] + w[c]
    <2>1. s[Q] = s[Q \ {c}] + w[c]
      BY <1>4 DEF Additive
    <2> QED
      BY <1>4, <2>1
  <1>6. \A d \in Q \ {c} : z[d] \in Nat
    BY DEF Additive
  <1> HIDE DEF t
  <1> QED
    BY <1>2, <1>3, <1>5, <1>6 DEF Additive

LEMMA SameSummands ==
  ASSUME NEW Q, NEW w, NEW s, Additive(s, Q, w), NEW z, \A d \in Q : z[d] = w[d]
  PROVE  Additive(s, Q, z)
  <1>1. ASSUME NEW T \in SUBSET Q, NEW c \in T PROVE s[T] = s[T \ {c}] + z[c]
    BY DEF Additive
  <1> QED
    BY <1>1 DEF Additive

\* A summand is a number, not above the sum.
LEMMA SummandBounded ==
  ASSUME NEW Q, NEW w, NEW s, Additive(s, Q, w)
  PROVE  s[Q] \in Nat /\ \A c \in Q : w[c] \in Nat /\ w[c] <= s[Q]
  <1>1. s[Q] \in Nat
    BY DEF Additive
  <1>2. ASSUME NEW c \in Q PROVE w[c] \in Nat /\ w[c] <= s[Q]
    <2>1. s[Q] = s[Q \ {c}] + w[c] /\ s[Q \ {c}] \in Nat /\ w[c] \in Nat
      BY DEF Additive
    <2> QED
      BY <2>1
  <1> QED
    BY <1>1, <1>2

-----------------------------------------------------------------------------
(* The header bytes. *)

HeaderBytes(f) == IF f \in Tracked THEN flow_map[f].header_length ELSE 0

\* The bytes of the packet of a CPU.
Due == [c \in CPUs |-> 4 * cpu[c].pkt.doff]

\* The bytes summed up and those of the packets still at work are not more than came in; a
\* CPU about to store the sum has put its own in.
BytesInv(f) ==
  \E s :
    /\ Additive(s, Busy(f), Due)
    /\ HeaderBytes(f) + s[Busy(f)] <= sent[f]
    /\ \A c \in Busy(f) : cpu[c].pc = "store" /\ cpu[c].field = 6 =>
         cpu[c].value - Due[c] + s[Busy(f)] <= sent[f]

LEMMA BytesTyped ==
  ASSUME TypeInv, NEW f \in Flows
  PROVE  /\ HeaderBytes(f) \in Nat /\ sent[f] \in Nat /\ sent[f] < Word /\ Busy(f) \subseteq CPUs
         /\ \A d \in CPUs : cpu[d].value \in Int
         /\ \A d \in Busy(f) : Due[d] = 4 * cpu[d].pkt.doff /\ Due[d] \in Nat
  <1>1. HeaderBytes(f) \in Nat
    BY EntryTyped, Names, Bounds DEF HeaderBytes
  <1>2. \A d \in CPUs : cpu[d].value \in Int
    BY CPUTyped, Bounds DEF CPUState
  <1>3. sent[f] \in Nat /\ sent[f] < Word
    BY HistoryBounded, Bounds
  <1>4. Busy(f) \subseteq CPUs
    BY DEF Busy
  <1>5. ASSUME NEW d \in Busy(f) PROVE Due[d] = 4 * cpu[d].pkt.doff /\ Due[d] \in Nat
    <2>1. d \in CPUs /\ cpu[d].pkt \in Packets
      BY DEF Busy, TypeInv, FoundEntry
    <2>2. cpu[d].pkt.doff \in 0 .. 15
      BY <2>1, PacketTyped
    <2>3. Due[d] = 4 * cpu[d].pkt.doff
      BY <2>1 DEF Due
    <2> QED
      BY <2>2, <2>3
  <1> QED
    BY <1>1, <1>2, <1>3, <1>4, <1>5

\* CPU c goes on as r with its packet, and the sum stays; or it has just computed the next.
LEMMA BytesKept ==
  ASSUME TypeInv, NEW c \in CPUs, NEW f \in Flows, BytesInv(f),
         NEW r, cpu' = [cpu EXCEPT ![c] = r], r.flow = f, r.pc # "idle",
         cpu[c].pc # "idle", cpu[c].flow = f, r.pkt = cpu[c].pkt,
         sent' = sent, HeaderBytes(f)' = HeaderBytes(f),
         r.pc = "store" /\ r.field = 6 => r.value = HeaderBytes(f) + Due[c]
  PROVE  BytesInv(f)'
  <1>1. cpu'[c] = r /\ \A d \in CPUs \ {c} : cpu'[d] = cpu[d]
    BY DEF TypeInv, TypeOK
  <1>2. Busy(f)' = Busy(f) /\ c \in Busy(f) /\ Busy(f) \subseteq CPUs
    BY <1>1 DEF Busy
  <1>3. \A d \in Busy(f) : Due'[d] = Due[d]
    BY <1>1, <1>2 DEF Due
  <1>4. PICK s : /\ Additive(s, Busy(f), Due)
                 /\ HeaderBytes(f) + s[Busy(f)] <= sent[f]
                 /\ \A d \in Busy(f) : cpu[d].pc = "store" /\ cpu[d].field = 6 =>
                      cpu[d].value - Due[d] + s[Busy(f)] <= sent[f]
    BY DEF BytesInv
  <1>5. Additive(s, Busy(f)', Due')
    BY <1>2, <1>3, <1>4, SameSummands
  <1>6. ASSUME NEW d \in Busy(f), cpu'[d].pc = "store", cpu'[d].field = 6
        PROVE  cpu'[d].value - Due'[d] + s[Busy(f)] <= sent[f]
    <2>1. CASE d = c
      <3>1. cpu'[d].value = HeaderBytes(f) + Due'[d]
        BY <1>1, <1>3, <1>6, <2>1
      <3>2. HeaderBytes(f) \in Int /\ Due'[d] \in Int
        BY <1>3, BytesTyped
      <3>3. cpu'[d].value - Due'[d] = HeaderBytes(f)
        BY <3>1, <3>2
      <3> QED
        BY <1>4, <3>3
    <2>2. CASE d # c
      BY <1>1, <1>2, <1>3, <1>4, <1>6, <2>2
    <2> QED
      BY <2>1, <2>2
  <1> QED
    BY <1>2, <1>4, <1>5, <1>6 DEF BytesInv

\* CPU c is done with its packet: the sum has it now, or it goes without.
LEMMA BytesLess ==
  ASSUME TypeInv, NEW c \in CPUs, NEW f \in Flows, BytesInv(f),
         cpu' = [cpu EXCEPT ![c] = NoPacket], cpu[c].pc # "idle", cpu[c].flow = f,
         sent' = sent,
         \/ HeaderBytes(f)' = HeaderBytes(f)
         \/ /\ HeaderBytes(f)' = cpu[c].value
            /\ cpu[c].pc = "store" /\ cpu[c].field = 6
  PROVE  BytesInv(f)'
  <1>1. cpu'[c].pc = "idle" /\ \A d \in CPUs \ {c} : cpu'[d] = cpu[d]
    BY NoPacketTyped DEF TypeInv, TypeOK
  <1>2. Busy(f)' = Busy(f) \ {c} /\ c \in Busy(f) /\ Busy(f) \subseteq CPUs
    BY <1>1 DEF Busy
  <1>3. \A d \in Busy(f) \ {c} : Due'[d] = Due[d]
    BY <1>1, <1>2 DEF Due
  <1>4. PICK s : /\ Additive(s, Busy(f), Due)
                 /\ HeaderBytes(f) + s[Busy(f)] <= sent[f]
                 /\ \A d \in Busy(f) : cpu[d].pc = "store" /\ cpu[d].field = 6 =>
                      cpu[d].value - Due[d] + s[Busy(f)] <= sent[f]
    BY DEF BytesInv
  <1>5. PICK t : Additive(t, Busy(f) \ {c}, Due') /\ s[Busy(f)] = t[Busy(f) \ {c}] + Due[c]
    <2>1. PICK Q, w, z : Q = Busy(f) /\ w = Due /\ z = Due'
      OBVIOUS
    <2>2. c \in Q /\ Additive(s, Q, w) /\ \A d \in Q \ {c} : z[d] = w[d]
      BY <1>2, <1>3, <1>4, <2>1
    <2>3. \E t : Additive(t, Q \ {c}, z) /\ s[Q] = t[Q \ {c}] + w[c]
      BY <2>2, OneSummandLess
    <2> QED
      BY <2>1, <2>3
  <1> DEFINE b == t[Busy(f) \ {c}]
             w == Due[c]
             n == sent[f]
  <1>6. b \in Nat /\ w \in Nat /\ n \in Nat
    BY <1>2, <1>5, SummandBounded, BytesTyped
  <1>7. s[Busy(f)] = b + w
    BY <1>5
  <1> HIDE DEF b, w, n
  <1>8. HeaderBytes(f)' + b <= n
    <2>1. CASE HeaderBytes(f)' = HeaderBytes(f)
      <3>1. HeaderBytes(f) + (b + w) <= n /\ HeaderBytes(f) \in Int
        BY <1>4, <1>7, BytesTyped DEF n
      <3> QED
        BY <1>6, <2>1, <3>1
    <2>2. CASE HeaderBytes(f)' = cpu[c].value /\ cpu[c].pc = "store" /\ cpu[c].field = 6
      <3>1. cpu[c].value - w + (b + w) <= n /\ cpu[c].value \in Int
        BY <1>2, <1>4, <1>7, <2>2, BytesTyped DEF n, w
      <3> QED
        BY <1>6, <2>2, <3>1
    <2> QED
      BY <2>1, <2>2
  <1>9. ASSUME NEW d \in Busy(f) \ {c}, cpu'[d].pc = "store", cpu'[d].field = 6
        PROVE  cpu'[d].value - Due'[d] + b <= n
    <2>1. cpu[d].value - Due[d] + (b + w) <= n
      BY <1>1, <1>2, <1>4, <1>7, <1>9 DEF n
    <2>2. cpu[d].value \in Int /\ Due[d] \in Int /\ cpu'[d] = cpu[d] /\ Due'[d] = Due[d]
      BY <1>1, <1>2, <1>3, BytesTyped
    <2> QED
      BY <1>6, <2>1, <2>2
  <1> QED
    BY <1>2, <1>5, <1>8, <1>9 DEF BytesInv, b, n

LEMMA ReceiveBytes ==
  ASSUME TypeInv, NEW c \in CPUs, NEW f \in Flows, Receive(c, f), BytesInv(f)
  PROVE  BytesInv(f)'
  <1>1. PICK p \in Packets, r \in CPUState :
          /\ r.pc = "lookup" /\ r.flow = f /\ r.field = 1 /\ r.pkt = p
          /\ cpu' = [cpu EXCEPT ![c] = r]
          /\ sent' = [sent EXCEPT ![f] = @ + 4 * p.doff]
          /\ flow_map' = flow_map
    BY ReceiveIs
  <1>2. c \notin Busy(f)
    BY DEF Receive, Busy
  <1>3. cpu'[c] = r /\ \A d \in CPUs \ {c} : cpu'[d] = cpu[d]
    BY <1>1 DEF TypeInv, TypeOK
  <1>4. Busy(f)' = Busy(f) \cup {c} /\ Busy(f) \subseteq CPUs
    BY <1>1, <1>3 DEF Busy
  <1>5. Due'[c] = 4 * p.doff /\ Due'[c] \in Nat
    <2>1. Due'[c] = 4 * p.doff
      BY <1>1, <1>3 DEF Due
    <2>2. p.doff \in 0 .. 15
      BY PacketTyped
    <2> QED
      BY <2>1, <2>2
  <1>6. \A d \in Busy(f) : Due'[d] = Due[d]
    BY <1>2, <1>3, <1>4 DEF Due
  <1>7. HeaderBytes(f)' = HeaderBytes(f) /\ sent'[f] = sent[f] + Due'[c]
    <2>1. HeaderBytes(f)' = HeaderBytes(f)
      BY <1>1 DEF HeaderBytes, Tracked
    <2>2. sent'[f] = sent[f] + 4 * p.doff
      BY <1>1 DEF TypeInv, TypeOK
    <2> QED
      BY <1>5, <2>1, <2>2
  <1>8. PICK s : /\ Additive(s, Busy(f), Due)
                 /\ HeaderBytes(f) + s[Busy(f)] <= sent[f]
                 /\ \A d \in Busy(f) : cpu[d].pc = "store" /\ cpu[d].field = 6 =>
                      cpu[d].value - Due[d] + s[Busy(f)] <= sent[f]
    BY DEF BytesInv
  <1>9. PICK t : Additive(t, Busy(f)', Due') /\ t[Busy(f)'] = s[Busy(f)] + Due'[c]
    <2>1. PICK Q, w, z : Q = Busy(f) /\ w = Due /\ z = Due'
      OBVIOUS
    <2>2. PICK R : R = Q \cup {c} /\ R = Busy(f)'
      BY <1>4, <2>1
    <2>3. OneMore(R, z, Q, w, c) /\ Additive(s, Q, w)
      BY <1>2, <1>5, <1>6, <1>8, <2>1, <2>2 DEF OneMore
    <2>4. \E t : Additive(t, R, z) /\ t[R] = s[Q] + z[c]
      BY <2>3, OneMoreSummand
    <2> QED
      BY <2>1, <2>2, <2>4
  <1> DEFINE b == s[Busy(f)]
             w == Due'[c]
             n == sent[f]
  <1>10. b \in Nat /\ w \in Nat /\ n \in Nat
    BY <1>5, <1>8, SummandBounded, BytesTyped
  <1>11. t[Busy(f)'] = b + w /\ sent'[f] = n + w
    BY <1>7, <1>9
  <1> HIDE DEF b, w, n
  <1>12. HeaderBytes(f)' + (b + w) <= n + w
    <2>1. HeaderBytes(f) + b <= n /\ HeaderBytes(f) \in Int
      BY <1>8, BytesTyped DEF b, n
    <2> QED
      BY <1>7, <1>10, <2>1
  <1>13. ASSUME NEW d \in Busy(f)', cpu'[d].pc = "store", cpu'[d].field = 6
         PROVE  cpu'[d].value - Due'[d] + (b + w) <= n + w
    <2>1. d # c /\ d \in Busy(f)
      BY <1>1, <1>3, <1>4, <1>13
    <2>2. cpu'[d] = cpu[d] /\ Due'[d] = Due[d] /\ cpu[d].value \in Int /\ Due[d] \in Int
      BY <1>3, <1>4, <1>6, <2>1, BytesTyped
    <2>3. cpu[d].value - Due[d] + b <= n
      BY <1>8, <1>13, <2>1, <2>2 DEF b, n
    <2> QED
      BY <1>10, <2>2, <2>3
  <1> QED
    BY <1>9, <1>11, <1>12, <1>13 DEF BytesInv

LEMMA LookupBytes ==
  ASSUME TypeInv, NEW c \in CPUs, NEW f \in Flows, f = cpu[c].flow, Lookup(c), BytesInv(f)
  PROVE  BytesInv(f)'
  <1> DEFINE r == [cpu[c] EXCEPT !.pc = IF f \in Tracked THEN "load" ELSE "insert"]
  <1>1. /\ cpu[c].pc = "lookup" /\ cpu' = [cpu EXCEPT ![c] = r]
        /\ sent' = sent /\ flow_map' = flow_map
    BY DEF Lookup
  <1>2. r.flow = f /\ r.pkt = cpu[c].pkt /\ r.pc \in {"load", "insert"}
    BY CPUTyped DEF CPUState
  <1> HIDE DEF r
  <1>3. HeaderBytes(f)' = HeaderBytes(f)
    BY <1>1 DEF HeaderBytes, Tracked
  <1> QED
    BY <1>1, <1>2, <1>3, BytesKept

LEMMA InsertBytes ==
  ASSUME TypeInv, NEW c \in CPUs, NEW f \in Flows, f = cpu[c].flow, Insert(c), BytesInv(f)
  PROVE  BytesInv(f)'
  <1> DEFINE made == f \notin Tracked /\ Cardinality(Tracked) < MaxEntries
             s == [cpu[c] EXCEPT !.pc = "load"]
  <1>1. /\ cpu[c].pc = "insert" /\ sent' = sent
        /\ IF made THEN /\ Tracked' = Tracked \cup {f}
                        /\ flow_map'[f] = InitialAttribute(cpu[c].pkt.time)
                   ELSE flow_map' = flow_map /\ Tracked' = Tracked
        /\ IF f \in Tracked' THEN cpu' = [cpu EXCEPT ![c] = s]
                             ELSE cpu' = [cpu EXCEPT ![c] = NoPacket]
    BY InsertIs
  <1>2. s.flow = f /\ s.pc = "load" /\ s.pkt = cpu[c].pkt
    BY CPUTyped DEF CPUState
  <1> HIDE DEF s
  <1>3. HeaderBytes(f)' = HeaderBytes(f)
    BY <1>1 DEF HeaderBytes, InitialAttribute
  <1>4. CASE cpu' = [cpu EXCEPT ![c] = s]
    BY <1>1, <1>2, <1>3, <1>4, BytesKept
  <1>5. CASE cpu' = [cpu EXCEPT ![c] = NoPacket]
    BY <1>1, <1>3, <1>5, BytesLess
  <1> QED
    BY <1>1, <1>4, <1>5

\* The sum that is computed is the one loaded and this packet's bytes: it does not wrap.
LEMMA LoadBytes ==
  ASSUME TypeInv, NEW c \in CPUs, NEW f \in Flows, f = cpu[c].flow,
         Load(c) \/ LoadTime(c) \/ Compare(c), BytesInv(f)
  PROVE  BytesInv(f)'
  <1>0. PICK r \in CPUState : GoesOn(c, f, r)
    BY LoadGoesOn
  <1>1. /\ cpu[c].pc \in {"load", "compare"} /\ r.pc # "idle" /\ f \in Tracked
        /\ r.flow = f /\ cpu[c].flow = f /\ r.pkt = cpu[c].pkt /\ cpu[c].pkt \in Packets
        /\ cpu' = [cpu EXCEPT ![c] = r]
        /\ UNCHANGED <<flow_map, sent>>
    BY <1>0 DEF GoesOn, Updating
  <1>2. HeaderBytes(f)' = HeaderBytes(f)
    BY <1>1 DEF Tracked, HeaderBytes
  <1>3. ASSUME r.pc = "store", r.field = 6 PROVE r.value = HeaderBytes(f) + Due[c]
    <2>1. c \in Busy(f)
      BY <1>1 DEF Busy
    <2>2. PICK x \in Nat : x = HeaderBytes(f) /\ x = flow_map[f].header_length
      BY <1>1, BytesTyped DEF HeaderBytes
    <2>3. PICK d \in Nat : d = Due[c] /\ d = 4 * cpu[c].pkt.doff
      BY <2>1, BytesTyped
    <2>4. x + d \in 0 .. Word - 1
      <3>1. PICK a : Additive(a, Busy(f), Due) /\ x + a[Busy(f)] <= sent[f]
        BY <2>2 DEF BytesInv
      <3>2. d <= a[Busy(f)] /\ a[Busy(f)] \in Nat
        BY <2>1, <2>3, <3>1, SummandBounded
      <3>3. sent[f] \in Nat /\ sent[f] < Word
        BY BytesTyped
      <3> QED
        BY <3>1, <3>2, <3>3, Bounds
    <2>5. cpu[c].pkt.doff * 4 = d
      <3>1. cpu[c].pkt.doff \in 0 .. 15
        BY <1>1, PacketTyped
      <3> QED
        BY <2>3, <3>1
    <2>6. r.value = (x + d) % Word
      <3>1. Fields[6] = "header_length"
        BY DEF Fields
      <3>2. r.value = NewValue(Fields[6], flow_map[f], cpu[c].pkt)
        BY <1>0, <1>3 DEF GoesOn
      <3> QED
        BY <2>2, <2>5, <3>1, <3>2 DEF NewValue
    <2> QED
      BY <2>2, <2>3, <2>4, <2>6, Fits
  <1> QED
    BY <1>1, <1>2, <1>3, BytesKept

LEMMA StoreBytes ==
  ASSUME TypeInv, NEW c \in CPUs, NEW f \in Flows, f = cpu[c].flow, Store(c), BytesInv(f)
  PROVE  BytesInv(f)'
  <1>n. PICK n \in 1 .. 6 : n = cpu[c].field
    BY CPUTyped DEF CPUState
  <1> DEFINE s == NextField(cpu[c])
  <1>1. /\ cpu[c].pc = "store" /\ f \in Tracked /\ Fields[n] \in FieldNames
        /\ Tracked' = Tracked
        /\ flow_map'[f] = [flow_map[f] EXCEPT ![Fields[n]] = cpu[c].value]
        /\ n = 6 => cpu' = [cpu EXCEPT ![c] = NoPacket]
        /\ n # 6 => cpu' = [cpu EXCEPT ![c] = s]
        /\ sent' = sent
    BY <1>n, StoreIs
  <1>2. s.flow = f /\ s.pc = "load" /\ s.pkt = cpu[c].pkt
    BY <1>1, CPUTyped DEF NextField, CPUState
  <1> HIDE DEF s
  <1>3. CASE n = 6
    <2>1. Fields[n] = "header_length"
      BY <1>3 DEF Fields
    <2>2. HeaderBytes(f)' = cpu[c].value
      BY <1>1, <2>1, EntryTyped, Names DEF HeaderBytes
    <2> QED
      BY <1>n, <1>1, <1>3, <2>2, BytesLess
  <1>4. CASE n # 6
    <2>1. Fields[n] # "header_length"
      BY <1>4 DEF Fields
    <2>2. HeaderBytes(f)' = HeaderBytes(f)
      BY <1>1, <2>1, EntryTyped, Names DEF HeaderBytes
    <2> QED
      BY <1>1, <1>2, <1>4, <2>2, BytesKept
  <1> QED
    BY <1>3, <1>4

-----------------------------------------------------------------------------
(* The lengths. *)

\* What the minimum (field 2) and the maximum (field 3) of f may be.
Seen(f, n) == Lens(hist[f]) \cup {IF n = 2 THEN Word \div 4 - 1 ELSE 0}

\* The packets at work are of the history, and what is stored or about to be was seen.
LengthInv(f) ==
  /\ \A c \in Busy(f) : cpu[c].pkt.len \in Lens(hist[f])
  /\ \A c \in Busy(f), n \in {2, 3} :
       cpu[c].pc = "store" /\ cpu[c].field = n => cpu[c].value \in Seen(f, n)
  /\ f \in Tracked => \A n \in {2, 3} : flow_map[f][Fields[n]] \in Seen(f, n)

\* What is computed is the length of the packet or the one loaded.
LEMMA NewLength ==
  ASSUME NEW a, NEW p, NEW n \in {2, 3}
  PROVE  NewValue(Fields[n], a, p) \in {p.len, a[Fields[n]]}
  <1>1. CASE n = 2
    <2>1. Fields[n] = "min_packet_length"
      BY <1>1 DEF Fields
    <2> QED
      BY <2>1 DEF NewValue
  <1>2. CASE n = 3
    <2>1. Fields[n] = "max_packet_length"
      BY <1>2 DEF Fields
    <2> QED
      BY <2>1 DEF NewValue, Greater
  <1> QED
    BY <1>1, <1>2

LEMMA LengthGoesOn ==
  ASSUME TypeInv, NEW c \in CPUs, NEW f \in Flows, LengthInv(f),
         NEW r, cpu' = [cpu EXCEPT ![c] = r], r.pc = "idle" \/ r.flow = f,
         Lens(hist[f]) \subseteq Lens(hist'[f]),
         r.pc # "idle" => r.pkt.len \in Lens(hist'[f]),
         \A n \in {2, 3} : r.pc = "store" /\ r.field = n => r.value \in Seen(f, n)',
         f \in Tracked' => \A n \in {2, 3} : flow_map'[f][Fields[n]] \in Seen(f, n)'
  PROVE  LengthInv(f)'
  <1>1. cpu'[c] = r /\ \A d \in CPUs \ {c} : cpu'[d] = cpu[d]
    BY DEF TypeInv, TypeOK
  <1>2. \A n : Seen(f, n) \subseteq Seen(f, n)'
    BY DEF Seen
  <1>3. \A d \in Busy(f)' : d = c \/ (d \in Busy(f) /\ cpu'[d] = cpu[d])
    BY <1>1 DEF Busy
  <1>4. c \in Busy(f)' => r.pc # "idle"
    BY <1>1 DEF Busy
  <1>5. ASSUME NEW d \in Busy(f)' PROVE cpu'[d].pkt.len \in Lens(hist'[f])
    BY <1>1, <1>3, <1>4 DEF LengthInv
  <1>6. ASSUME NEW d \in Busy(f)', NEW n \in {2, 3}, cpu'[d].pc = "store", cpu'[d].field = n
        PROVE  cpu'[d].value \in Seen(f, n)'
    <2>1. CASE d = c
      BY <1>1, <1>6, <2>1
    <2>2. CASE d # c
      BY <1>2, <1>3, <1>6, <2>2 DEF LengthInv
    <2> QED
      BY <2>1, <2>2
  <1> QED
    BY <1>5, <1>6 DEF LengthInv

LEMMA ReceiveLength ==
  ASSUME TypeInv, NEW c \in CPUs, NEW f \in Flows, Receive(c, f), LengthInv(f)
  PROVE  LengthInv(f)'
  <1>1. PICK p \in Packets, r \in CPUState :
          /\ r.pc = "lookup" /\ r.flow = f /\ r.field = 1 /\ r.pkt = p
          /\ cpu' = [cpu EXCEPT ![c] = r]
          /\ hist' = [hist EXCEPT ![f] = Append(@, p)]
          /\ flow_map' = flow_map
    BY ReceiveIs
  <1>2. PICK h \in Seq(Packets) : h = hist[f]
    BY HistoryBounded
  <1>3. hist'[f] = Append(h, p)
    BY <1>1, <1>2 DEF TypeInv, TypeOK
  <1>4. Lens(h) \subseteq Lens(Append(h, p)) /\ p.len \in Lens(Append(h, p))
    <2>1. /\ Len(Append(h, p)) = Len(h) + 1 /\ Append(h, p)[Len(h) + 1] = p /\ Len(h) \in Nat
          /\ \A i \in 1 .. Len(h) : Append(h, p)[i] = h[i]
      OBVIOUS
    <2>2. 1 .. Len(h) \subseteq 1 .. Len(h) + 1 /\ Len(h) + 1 \in 1 .. Len(h) + 1
      BY <2>1
    <2> QED
      BY <2>1, <2>2 DEF Lens
  <1>5. \A n : Seen(f, n) \subseteq Seen(f, n)'
    BY <1>2, <1>3, <1>4 DEF Seen
  <1>6. f \in Tracked' => \A n \in {2, 3} : flow_map'[f][Fields[n]] \in Seen(f, n)'
    BY <1>1, <1>5 DEF LengthInv, Tracked
  <1>7. r.pc # "store" /\ r.pkt.len \in Lens(hist'[f]) /\ Lens(hist[f]) \subseteq Lens(hist'[f])
    BY <1>1, <1>2, <1>3, <1>4
  <1> QED
    BY <1>1, <1>6, <1>7, LengthGoesOn

LEMMA StepLength ==
  ASSUME TypeInv, NEW c \in CPUs, NEW f \in Flows, f = cpu[c].flow, Step(c), LengthInv(f)
  PROVE  LengthInv(f)'
  <1>n. PICK n \in 1 .. 6 : n = cpu[c].field
    BY CPUTyped DEF CPUState
  <1>0. hist' = hist /\ cpu[c].pc # "idle"
    BY DEF Step, Lookup, Insert, Load, LoadTime, Compare, Store
  <1>1. /\ \A i : Seen(f, i)' = Seen(f, i)
        /\ Lens(hist'[f]) = Lens(hist[f])
        /\ cpu[c].pkt.len \in Lens(hist[f])
    BY <1>0 DEF Seen, LengthInv, Busy
  <1>2. CASE Lookup(c)
    <2> DEFINE r == [cpu[c] EXCEPT !.pc = IF f \in Tracked THEN "load" ELSE "insert"]
    <2>1. cpu' = [cpu EXCEPT ![c] = r] /\ flow_map' = flow_map
      BY <1>2 DEF Lookup
    <2>2. r.flow = f /\ r.pkt = cpu[c].pkt /\ r.pc \in {"load", "insert"}
      BY CPUTyped DEF CPUState
    <2> HIDE DEF r
    <2>3. f \in Tracked' => \A i \in {2, 3} : flow_map'[f][Fields[i]] \in Seen(f, i)'
      BY <1>1, <2>1 DEF LengthInv, Tracked
    <2>4. r.pc # "store" /\ r.pkt.len \in Lens(hist'[f])
      BY <1>1, <2>2
    <2> QED
      BY <1>1, <2>1, <2>2, <2>3, <2>4, LengthGoesOn
  <1>3. CASE Insert(c)
    <2> DEFINE r == IF f \in Tracked' THEN [cpu[c] EXCEPT !.pc = "load"] ELSE NoPacket
               made == f \notin Tracked /\ Cardinality(Tracked) < MaxEntries
    <2>1. /\ cpu' = [cpu EXCEPT ![c] = r]
          /\ IF made THEN flow_map'[f] = InitialAttribute(cpu[c].pkt.time)
                     ELSE flow_map' = flow_map /\ Tracked' = Tracked
      BY <1>3, InsertIs
    <2>2. IF f \in Tracked' THEN r.flow = f /\ r.pkt = cpu[c].pkt /\ r.pc = "load"
                            ELSE r.pc = "idle"
      BY CPUTyped, NoPacketTyped DEF CPUState
    <2> HIDE DEF r
    <2>3. \A time : \A i \in {2, 3} : InitialAttribute(time)[Fields[i]] \in Seen(f, i)
      BY DEF InitialAttribute, Fields, Seen
    <2>4. f \in Tracked' => \A i \in {2, 3} : flow_map'[f][Fields[i]] \in Seen(f, i)'
      <3>1. CASE made
        BY <1>1, <2>1, <2>3, <3>1
      <3>2. CASE ~made
        BY <1>1, <2>1, <3>2 DEF LengthInv
      <3> QED
        BY <3>1, <3>2
    <2>5. r.pc # "store" /\ (r.pc # "idle" => r.pkt.len \in Lens(hist'[f]))
      BY <1>1, <2>2
    <2>6. r.pc = "idle" \/ r.flow = f
      BY <2>2
    <2> QED
      BY <1>1, <2>1, <2>4, <2>5, <2>6, LengthGoesOn
  <1>4. CASE Load(c) \/ LoadTime(c) \/ Compare(c)
    <2>0. PICK r \in CPUState : GoesOn(c, f, r)
      BY <1>4, LoadGoesOn
    <2>1. /\ f \in Tracked /\ flow_map' = flow_map /\ r.flow = f /\ r.pkt = cpu[c].pkt
          /\ cpu' = [cpu EXCEPT ![c] = r]
      BY <2>0 DEF GoesOn
    <2>2. ASSUME NEW i \in {2, 3}, r.pc = "store", r.field = i PROVE r.value \in Seen(f, i)'
      <3>1. r.value = NewValue(Fields[i], flow_map[f], cpu[c].pkt)
        BY <2>0, <2>2 DEF GoesOn
      <3>2. flow_map[f][Fields[i]] \in Seen(f, i) /\ cpu[c].pkt.len \in Seen(f, i)
        BY <1>1, <2>1 DEF LengthInv, Seen
      <3> QED
        BY <1>1, <3>1, <3>2, NewLength
    <2>3. f \in Tracked' => \A i \in {2, 3} : flow_map'[f][Fields[i]] \in Seen(f, i)'
      BY <1>1, <2>1 DEF LengthInv
    <2>4. r.pkt.len \in Lens(hist'[f])
      BY <1>1, <2>1
    <2> QED
      BY <1>1, <2>1, <2>2, <2>3, <2>4, LengthGoesOn
  <1>5. CASE Store(c)
    <2> DEFINE r == IF n = 6 THEN NoPacket ELSE NextField(cpu[c])
    <2>1. /\ cpu[c].pc = "store" /\ f \in Tracked /\ Fields[n] \in FieldNames
          /\ flow_map'[f] = [flow_map[f] EXCEPT ![Fields[n]] = cpu[c].value]
          /\ cpu' = [cpu EXCEPT ![c] = r]
      BY <1>n, <1>5, StoreIs
    <2>2. IF n = 6 THEN r.pc = "idle"
                   ELSE r.pc = "load" /\ r.flow = f /\ r.pkt = cpu[c].pkt
      BY <1>n, CPUTyped, NoPacketTyped DEF NextField, CPUState
    <2> HIDE DEF r
    <2>3. ASSUME NEW i \in {2, 3} PROVE flow_map'[f][Fields[i]] \in Seen(f, i)'
      <3>1. CASE i = n
        <4>1. flow_map'[f][Fields[i]] = cpu[c].value
          BY <2>1, <3>1, EntryTyped
        <4>2. cpu[c].value \in Seen(f, i)
          BY <1>n, <2>1, <3>1 DEF LengthInv, Busy
        <4> QED
          BY <1>1, <4>1, <4>2
      <3>2. CASE i # n
        <4>1. Fields[i] # Fields[n] /\ Fields[i] \in FieldNames
          BY <3>2, Names
        <4>2. flow_map'[f][Fields[i]] = flow_map[f][Fields[i]]
          BY <2>1, <4>1, EntryTyped
        <4> QED
          BY <1>1, <2>1, <4>2 DEF LengthInv
      <3> QED
        BY <3>1, <3>2
    <2>4. r.pc # "store" /\ (r.pc # "idle" => r.pkt.len \in Lens(hist'[f]))
      BY <1>1, <2>2
    <2>5. r.pc = "idle" \/ r.flow = f
      BY <2>2
    <2> QED
      BY <1>1, <2>1, <2>3, <2>4, <2>5, LengthGoesOn
  <1> QED
    BY <1>2, <1>3, <1>4, <1>5 DEF Step

-----------------------------------------------------------------------------
(* The invariant. *)

SharedInv(f) == CountInv(f) /\ BytesInv(f) /\ LengthInv(f)

\* The inductive invariant.
RacedInv == TypeInv /\ \A f \in Flows : SharedInv(f)

\* A step of CPU c for flow f leaves alone what is said of the other flows.
LEMMA OtherShared ==
  ASSUME RacedInv, NEW c \in CPUs, NEW f \in Flows, NEW r, cpu' = [cpu EXCEPT ![c] = r],
         cpu[c].pc = "idle" \/ cpu[c].flow = f, r.pc = "idle" \/ r.flow = f,
         NEW g \in Flows \ {f},
         hist'[g] = hist[g], sent'[g] = sent[g], g \in Tracked' <=> g \in Tracked,
         Tracked' = Tracked \/ Cardinality(Tracked) < MaxEntries,
         g \in Tracked => flow_map'[g] = flow_map[g]
  PROVE  SharedInv(g)'
  <1>1. cpu'[c] = r /\ \A d \in CPUs \ {c} : cpu'[d] = cpu[d]
    BY DEF RacedInv, TypeInv, TypeOK
  <1>2. Busy(g)' = Busy(g) /\ \A d \in Busy(g) : cpu'[d] = cpu[d] /\ d \in CPUs
    BY <1>1 DEF Busy
  <1>3. SharedInv(g)
    BY DEF RacedInv
  <1>4. Counting(g)' = Counting(g) /\ Counted(g)' = Counted(g)
    BY <1>2 DEF Counting, Counted
  <1>5. CountInv(g)'
    <2>1. CountInv(g) /\ Counting(g) \subseteq Busy(g)
      BY <1>3 DEF SharedInv, Counting
    <2>2. Uncounted(g)' => Uncounted(g)
      BY DEF Uncounted
    <2> QED
      BY <1>2, <1>4, <2>1, <2>2 DEF CountInv
  <1>6. BytesInv(g)'
    <2>1. HeaderBytes(g)' = HeaderBytes(g) /\ \A d \in Busy(g) : Due'[d] = Due[d]
      BY <1>2 DEF HeaderBytes, Due
    <2>2. PICK s : /\ Additive(s, Busy(g), Due)
                   /\ HeaderBytes(g) + s[Busy(g)] <= sent[g]
                   /\ \A d \in Busy(g) : cpu[d].pc = "store" /\ cpu[d].field = 6 =>
                        cpu[d].value - Due[d] + s[Busy(g)] <= sent[g]
      BY <1>3 DEF SharedInv, BytesInv
    <2>3. Additive(s, Busy(g)', Due')
      BY <1>2, <2>1, <2>2, SameSummands
    <2> QED
      BY <1>2, <2>1, <2>2, <2>3 DEF BytesInv
  <1>7. LengthInv(g)'
    <2>1. \A n : Seen(g, n)' = Seen(g, n)
      BY DEF Seen
    <2> QED
      BY <1>2, <1>3, <2>1 DEF SharedInv, LengthInv
  <1> QED
    BY <1>5, <1>6, <1>7 DEF SharedInv

LEMMA RacedInit == Init => RacedInv
  <1> SUFFICES ASSUME Init, NEW f \in Flows PROVE SharedInv(f)
    BY TypeInit DEF RacedInv
  <1>1. Busy(f) = {} /\ f \notin Tracked /\ Len(hist[f]) = 0 /\ sent[f] = 0
    BY NoPacketTyped DEF Init, Busy, Tracked
  <1>2. Counting(f) = {} /\ Counted(f) = 0 /\ HeaderBytes(f) = 0
    BY <1>1 DEF Counting, Counted, HeaderBytes
  <1>3. CountInv(f)
    BY <1>1, <1>2, FS_EmptySet DEF CountInv
  <1>4. BytesInv(f)
    <2> DEFINE s == [T \in SUBSET {} |-> 0]
    <2>1. Additive(s, {}, Due) /\ s[{}] = 0
      BY DEF Additive
    <2> HIDE DEF s
    <2> QED
      BY <1>1, <1>2, <2>1 DEF BytesInv
  <1>5. LengthInv(f)
    BY <1>1 DEF LengthInv
  <1> QED
    BY <1>3, <1>4, <1>5 DEF SharedInv

LEMMA ReceiveShared ==
  ASSUME RacedInv, NEW c \in CPUs, NEW f \in Flows, Receive(c, f)
  PROVE  \A g \in Flows : SharedInv(g)'
  <1>0. TypeInv /\ SharedInv(f)
    BY DEF RacedInv
  <1>1. SharedInv(f)'
    BY <1>0, ReceiveCount, ReceiveBytes, ReceiveLength DEF SharedInv
  <1>2. PICK p \in Packets, r \in CPUState :
          /\ r.flow = f /\ cpu' = [cpu EXCEPT ![c] = r]
          /\ hist' = [hist EXCEPT ![f] = Append(@, p)]
          /\ sent' = [sent EXCEPT ![f] = @ + 4 * p.doff]
          /\ flow_map' = flow_map
    BY <1>0, ReceiveIs
  <1>3. cpu[c].pc = "idle" /\ Tracked' = Tracked
    BY <1>2 DEF Receive, Tracked
  <1>4. \A g \in Flows \ {f} : hist'[g] = hist[g] /\ sent'[g] = sent[g]
    BY <1>0, <1>2 DEF TypeInv, TypeOK
  <1>5. ASSUME NEW g \in Flows \ {f} PROVE SharedInv(g)'
    BY <1>2, <1>3, <1>4, OtherShared
  <1> QED
    BY <1>1, <1>5

LEMMA StepShared ==
  ASSUME RacedInv, NEW c \in CPUs, Step(c)
  PROVE  \A g \in Flows : SharedInv(g)'
  <1>f. PICK f \in Flows : f = cpu[c].flow
    BY CPUTyped DEF RacedInv, CPUState
  <1>0. TypeInv /\ SharedInv(f) /\ cpu[c] \in CPUState
    BY CPUTyped DEF RacedInv
  <1>1. SharedInv(f)'
    <2>1. LengthInv(f)'
      BY <1>0, <1>f, StepLength DEF SharedInv
    <2>2. CountInv(f)' /\ BytesInv(f)'
      BY <1>0, <1>f, LookupCount, InsertCount, LoadCount, StoreCount,
         LookupBytes, InsertBytes, LoadBytes, StoreBytes DEF SharedInv, Step
    <2> QED
      BY <2>1, <2>2 DEF SharedInv
  <1>2. UNCHANGED <<hist, sent>>
    BY DEF Step, Lookup, Insert, Load, LoadTime, Compare, Store
  <1>3. \E r : cpu' = [cpu EXCEPT ![c] = r] /\ (r.pc = "idle" \/ r.flow = f)
    <2>1. CASE Lookup(c)
      <3> DEFINE r == [cpu[c] EXCEPT !.pc = IF f \in Tracked THEN "load" ELSE "insert"]
      <3>1. cpu' = [cpu EXCEPT ![c] = r] /\ r.flow = f
        BY <1>f, <1>0, <2>1 DEF Lookup, CPUState
      <3> QED
        BY <3>1
    <2>2. CASE Insert(c)
      <3> DEFINE r == [cpu[c] EXCEPT !.pc = "load"]
      <3>1. r.flow = f /\ NoPacket.pc = "idle"
        BY <1>f, <1>0, NoPacketTyped DEF CPUState
      <3>2. cpu' = [cpu EXCEPT ![c] = r] \/ cpu' = [cpu EXCEPT ![c] = NoPacket]
        BY <1>0, <2>2, InsertIs
      <3> QED
        BY <3>1, <3>2
    <2>3. CASE Load(c) \/ LoadTime(c) \/ Compare(c)
      <3>1. PICK r \in CPUState : GoesOn(c, f, r)
        BY <1>f, <1>0, <2>3, LoadGoesOn
      <3> QED
        BY <3>1 DEF GoesOn
    <2>4. CASE Store(c)
      <3> DEFINE s == NextField(cpu[c])
      <3>1. cpu' = [cpu EXCEPT ![c] = s] \/ cpu' = [cpu EXCEPT ![c] = NoPacket]
        BY <1>0, <2>4, StoreIs
      <3>2. s.flow = f /\ NoPacket.pc = "idle"
        BY <1>f, <1>0, NoPacketTyped DEF NextField, CPUState
      <3> HIDE DEF s
      <3> QED
        BY <3>1, <3>2
    <2> QED
      BY <2>1, <2>2, <2>3, <2>4 DEF Step
  <1>4. PICK r : cpu' = [cpu EXCEPT ![c] = r] /\ (r.pc = "idle" \/ r.flow = f)
    BY <1>3
  <1>5. ASSUME NEW g \in Flows \ {f}
        PROVE  /\ (g \in Tracked' <=> g \in Tracked) /\ (g \in Tracked => flow_map'[g] = flow_map[g])
               /\ Tracked' = Tracked \/ Cardinality(Tracked) < MaxEntries
    <2>1. CASE Lookup(c) \/ Load(c) \/ LoadTime(c) \/ Compare(c)
      BY <2>1 DEF Lookup, Load, LoadTime, Compare, Tracked
    <2>2. CASE Insert(c)
      BY <1>f, <1>0, <2>2, InsertIs
    <2>3. CASE Store(c)
      BY <1>f, <1>0, <2>3, StoreIs
    <2> QED
      BY <2>1, <2>2, <2>3 DEF Step
  <1>6. ASSUME NEW g \in Flows \ {f} PROVE SharedInv(g)'
    BY <1>f, <1>2, <1>4, <1>5, OtherShared
  <1> QED
    BY <1>1, <1>6

LEMMA RacedStep == RacedInv /\ [Next]_vars => RacedInv'
  <1> SUFFICES ASSUME RacedInv, [Next]_vars PROVE RacedInv'
    OBVIOUS
  <1>1. TypeInv'
    BY TypeStep DEF RacedInv
  <1>2. CASE Next
    <2>1. \A g \in Flows : SharedInv(g)'
      BY <1>2, ReceiveShared, StepShared DEF Next
    <2> QED
      BY <1>1, <2>1 DEF RacedInv
  <1>3. CASE UNCHANGED vars
    <2>1. ASSUME NEW f \in Flows PROVE SharedInv(f)'
      <3>1. SharedInv(f)
        BY DEF RacedInv
      <3> QED
        BY <1>3, <3>1 DEF SharedInv, CountInv, BytesInv, LengthInv, Counting, Counted, Busy,
           Uncounted, HeaderBytes, Due, Seen, Tracked, vars
    <2> QED
      BY <1>1, <2>1 DEF RacedInv
  <1> QED
    BY <1>2, <1>3

LEMMA RacedFollows == RacedInv => NothingInvented
  <1> SUFFICES ASSUME RacedInv, NEW f \in Tracked
               PROVE  LET a == flow_map[f]
                      IN  /\ a.num_packet <= Len(hist[f])
                          /\ a.header_length <= sent[f]
                          /\ a.min_packet_length \in Lens(hist[f]) \cup {Word \div 4 - 1}
                          /\ a.max_packet_length \in Lens(hist[f]) \cup {0}
                          /\ Cardinality(Busy(f)) < Len(hist[f]) => a.num_packet > 0
    BY DEF NothingInvented
  <1>0. TypeInv /\ f \in Flows /\ SharedInv(f)
    BY DEF RacedInv, TypeInv, TypeOK
  <1>1. PICK x \in Nat : x = Counted(f) /\ x = flow_map[f].num_packet
    BY <1>0, CountTyped DEF Counted
  <1>2. x <= Len(hist[f])
    <2>1. Cardinality(Counting(f)) \in Nat /\ x + Cardinality(Counting(f)) <= Len(hist[f])
      BY <1>0, <1>1, FS_CardinalityType DEF SharedInv, CountInv
    <2> QED
      BY <1>0, <2>1, HistoryBounded
  <1>3. Cardinality(Busy(f)) < Len(hist[f]) => x > 0
    <2>1. Counting(f) \subseteq Busy(f) /\ IsFiniteSet(Busy(f))
      <3>1. Busy(f) \subseteq CPUs /\ IsFiniteSet(CPUs) /\ Counting(f) \subseteq Busy(f)
        BY FeaturesAssumption DEF Busy, Counting
      <3> QED
        BY <3>1, FS_Subset
    <2>2. /\ Cardinality(Counting(f)) <= Cardinality(Busy(f))
          /\ Cardinality(Counting(f)) \in Nat /\ Cardinality(Busy(f)) \in Nat
      BY <2>1, FS_Subset, FS_CardinalityType
    <2>3. x = 0 => Cardinality(Counting(f)) = Len(hist[f])
      BY <1>0, <1>1 DEF SharedInv, CountInv, Uncounted
    <2> QED
      BY <1>1, <2>2, <2>3
  <1>4. flow_map[f].header_length <= sent[f]
    <2>1. PICK s : Additive(s, Busy(f), Due) /\ HeaderBytes(f) + s[Busy(f)] <= sent[f]
      BY <1>0 DEF SharedInv, BytesInv
    <2>2. s[Busy(f)] \in Nat /\ HeaderBytes(f) \in Nat /\ sent[f] \in Nat
      BY <1>0, <2>1, SummandBounded, BytesTyped
    <2>3. HeaderBytes(f) <= sent[f]
      BY <2>1, <2>2
    <2> QED
      BY <2>3 DEF HeaderBytes
  <1>5. \A n \in {2, 3} : flow_map[f][Fields[n]] \in Seen(f, n)
    BY <1>0 DEF SharedInv, LengthInv
  <1>6. /\ flow_map[f].min_packet_length \in Lens(hist[f]) \cup {Word \div 4 - 1}
        /\ flow_map[f].max_packet_length \in Lens(hist[f]) \cup {0}
    BY <1>5 DEF Seen, Fields
  <1> QED
    BY <1>1, <1>2, <1>3, <1>4, <1>6

\* However many CPUs work on however many flows: counts and sums are never too high and do
\* not wrap, a recorded length is one that was seen, and the count by which the programs
\* divide is not zero once one packet has been handled, whoever is still updating the entry.
THEOREM NothingEverInvented == Spec => []NothingInvented
  BY RacedInit, RacedStep, RacedFollows, PTL DEF Spec
==============================================================================
