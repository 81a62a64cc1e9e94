-------------------------- MODULE FlowFeaturesProofs --------------------------
(***************************************************************************)
(* Proofs about FlowFeatures: for any number of CPUs, flows and packets    *)
(* the features of a flow whose packets are handled one at a time are      *)
(* exact, no entry is ever reset, and the field-by-field update implements *)
(* the table of FeatureTable, which every packet changes in one step.      *)
(***************************************************************************)
EXTENDS FlowFeatures, FiniteSetTheorems, TLAPS

\* v is the value of a field after the first k packets of h, whose TCP headers have
\* total bytes.
ExactAs(name, v, h, k, total) ==
  /\ name = "num_packet" => v = k
  /\ name = "min_packet_length" =>
       /\ v <= Word \div 4 - 1 /\ \A i \in 1 .. k : v <= h[i].len
       /\ v = Word \div 4 - 1 \/ \E i \in 1 .. k : v = h[i].len
  /\ name = "max_packet_length" =>
       /\ \A i \in 1 .. k : h[i].len <= v
       /\ v = 0 \/ \E i \in 1 .. k : v = h[i].len
  /\ name = "max_duration" =>
       /\ \A i \in 1 .. k - 1 : h[i + 1].time - h[i].time <= v
       /\ v = 0 \/ \E i \in 1 .. k - 1 : v = h[i + 1].time - h[i].time
  /\ name = "last_packet_time" => v = IF k = 0 THEN h[1].time ELSE h[k].time
  /\ name = "header_length" => v = total

\* Packets in the order of their times.
Ordered(h) == \A i, j \in 1 .. Len(h) : i <= j => h[i].time <= h[j].time

-----------------------------------------------------------------------------
(* Numbers and fields. *)

LEMMA Names ==
  /\ FieldNames = {"num_packet", "min_packet_length", "max_packet_length",
                   "max_duration", "last_packet_time", "header_length"}
  /\ \A i \in 1 .. 6 : Fields[i] \in FieldNames
  /\ \A i, j \in 1 .. 6 : Fields[i] = Fields[j] => i = j
  BY DEF FieldNames, Fields

\* Arithmetic modulo Word of a number that fits, and of one that does not.
LEMMA Fits ==
  ASSUME NEW x \in Int
  PROVE  x % Word \in 0 .. Word - 1 /\ (x \in 0 .. Word - 1 => x % Word = x)
  BY FeaturesAssumption

\* A length is a word.  One that common.h's s64 can hold is not above the initial minimum:
\* it does not come from a difference below 0, which is not lower than -60.
LEMMA LengthsFit ==
  ASSUME NEW len \in Lengths
  PROVE  len \in 0 .. Word - 1 /\ (s64(len) >= 0 <=> len <= Word \div 4 - 1)
  <1>1. PICK tot_len \in TotLens, ihl \in Ihls : len = packet_length(tot_len, ihl)
    BY DEF Lengths
  <1>2. PICK t, i \in Int : t = tot_len /\ i = ihl /\ 0 <= t /\ t <= Word \div 4 - 1 /\ 0 <= i /\ i <= 15
    BY FeaturesAssumption
  <1>3. PICK x \in Int : x = t - 4 * i /\ -60 <= x /\ x <= Word \div 4 - 1
    BY <1>2, FeaturesAssumption
  <1>4. len = x % Word
    BY <1>1, <1>2, <1>3 DEF packet_length
  <1>5. len \in 0 .. Word - 1
    BY <1>4, Fits
  <1>6. PICK h, q \in Int : h = Word \div 2 /\ q = Word \div 4 /\ 60 <= h /\ h <= Word - 60 /\ q <= h
    BY FeaturesAssumption
  <1>7. CASE 0 <= x
    <2>1. len = x
      BY <1>3, <1>4, <1>6, <1>7, Fits, FeaturesAssumption
    <2> QED
      BY <1>3, <1>5, <1>6, <2>1, FeaturesAssumption DEF s64
  <1>8. CASE x < 0
    <2>1. len = x + Word
      BY <1>3, <1>4, <1>8, FeaturesAssumption
    <2>2. h <= len /\ ~(len < h) /\ len - Word < 0 /\ ~(len <= q - 1)
      BY <1>3, <1>6, <1>8, <2>1, FeaturesAssumption
    <2> QED
      BY <1>5, <1>6, <2>2, FeaturesAssumption DEF s64
  <1> QED
    BY <1>3, <1>5, <1>7, <1>8

LEMMA Bounds ==
  /\ Word \in Nat /\ MaxPackets \in Nat /\ 60 * MaxPackets < Word
  /\ Doffs \subseteq 0 .. 15 /\ Gaps \subseteq Nat
  BY FeaturesAssumption

LEMMA PacketTyped ==
  ASSUME NEW p \in Packets
  PROVE  /\ p.len \in Lengths /\ p.len \in 0 .. Word - 1
         /\ p.time \in 0 .. Word - 1 /\ p.time \in Int
         /\ p.doff \in 0 .. 15
  <1>1. p.len \in Lengths /\ p.time \in 0 .. Word - 1 /\ p.doff \in Doffs
    BY DEF Packets
  <1>2. p.len \in 0 .. Word - 1
    BY <1>1, LengthsFit
  <1>3. p.time \in Int
    BY <1>1, Bounds
  <1>4. p.doff \in 0 .. 15
    BY <1>1, Bounds
  <1> QED
    BY <1>1, <1>2, <1>3, <1>4

\* A new entry is exact for no packets at all.
LEMMA FreshExact ==
  ASSUME NEW h \in Seq(Packets), NEW name \in FieldNames
  PROVE  ExactAs(name, InitialAttribute(h[1].time)[name], h, 0, 0)
  BY Names, FeaturesAssumption DEF ExactAs, InitialAttribute

LEMMA FreshTyped ==
  ASSUME NEW time \in 0 .. Word - 1
  PROVE  InitialAttribute(time) \in [FieldNames -> 0 .. Word - 1]
  <1> DEFINE w == Word \div 4 - 1
  <1>1. 0 \in 0 .. Word - 1 /\ w \in 0 .. Word - 1
    BY FeaturesAssumption
  <1> HIDE DEF w
  <1>2. InitialAttribute(time) = [num_packet |-> 0, min_packet_length |-> w,
          max_packet_length |-> 0, max_duration |-> 0, last_packet_time |-> time,
          header_length |-> 0]
    BY DEF InitialAttribute, w
  <1> QED
    BY <1>1, <1>2, Names

\* A packet that arrives changes nothing about the ones before it.
LEMMA StillExact ==
  ASSUME NEW h \in Seq(Packets), Len(h) >= 1, NEW p \in Packets, NEW name \in FieldNames,
         NEW v \in Int, NEW total \in Int, ExactAs(name, v, h, Len(h), total)
  PROVE  ExactAs(name, v, Append(h, p), Len(h), total)
  <1>1. \A i \in 1 .. Len(h) : Append(h, p)[i] = h[i]
    OBVIOUS
  <1>2. Len(h) \in Nat
    OBVIOUS
  <1>3. CASE name = "max_duration"
    <2>1. \A i \in 1 .. Len(h) - 1 : i \in 1 .. Len(h) /\ i + 1 \in 1 .. Len(h)
      BY <1>2
    <2> QED
      BY <1>1, <1>3, <2>1 DEF ExactAs
  <1>4. CASE name # "max_duration"
    BY <1>1, <1>2, <1>4, Names DEF ExactAs
  <1> QED
    BY <1>3, <1>4

\* The heart: what update_flow_attribute computes for a field is exact with the packet,
\* if it was exact without; for the duration, if the time of the packet before is.
LEMMA NewExact ==
  ASSUME NEW h \in Seq(Packets), Ordered(h), NEW k \in Nat, k = Len(h), k >= 1, k < Word,
         NEW a \in [FieldNames -> 0 .. Word - 1], NEW name \in FieldNames,
         NEW total \in 0 .. Word - 1,
         ExactAs(name, a[name], h, k - 1, total - 4 * h[k].doff),
         name = "max_duration" =>
           ExactAs("last_packet_time", a.last_packet_time, h, k - 1, 0)
  PROVE  ExactAs(name, NewValue(name, a, h[k]), h, k, total)
  <1> DEFINE p == h[k]
  <1>0. \A i \in 1 .. k : h[i] \in Packets
    OBVIOUS
  <1>p. p \in Packets /\ p.len \in Lengths /\ p.doff \in 0 .. 15 /\ p.time \in 0 .. Word - 1
    <2>1. p \in Packets
      BY <1>0
    <2> HIDE DEF p
    <2>2. p.len \in Lengths /\ p.doff \in Doffs /\ p.time \in 0 .. Word - 1
      BY <2>1 DEF Packets
    <2> QED
      BY <2>1, <2>2, FeaturesAssumption
  <1>l. p.len \in 0 .. Word - 1
    BY <1>p, LengthsFit
  <1>n. a[name] \in 0 .. Word - 1
    OBVIOUS
  <1>h. \A i \in 1 .. k : h[i].len \in 0 .. Word - 1 /\ h[i].time \in 0 .. Word - 1
    BY <1>0, LengthsFit DEF Packets
  <1> DEFINE new == NewValue(name, a, p)
  <1>1. CASE name = "num_packet"
    <2>1. new = (a[name] + 1) % Word
      BY <1>1 DEF NewValue
    <2>2. a[name] = k - 1
      BY <1>1 DEF ExactAs
    <2>3. new = k
      <3>1. a[name] + 1 = k /\ k \in 0 .. Word - 1
        BY <2>2, FeaturesAssumption
      <3> QED
        BY <2>1, <3>1, Fits
    <2> QED
      BY <1>1, <2>3 DEF ExactAs
  <1>2. CASE name = "min_packet_length"
    <2>1. new = IF p.len < a[name] THEN p.len ELSE a[name]
      BY <1>2 DEF NewValue
    <2>2. a[name] <= Word \div 4 - 1 /\ \A i \in 1 .. k - 1 : a[name] <= h[i].len
      BY <1>2 DEF ExactAs
    <2>3. a[name] = Word \div 4 - 1 \/ \E i \in 1 .. k - 1 : a[name] = h[i].len
      BY <1>2 DEF ExactAs
    <2>4. \A i \in 1 .. k : new <= h[i].len
      <3>1. \A i \in 1 .. k - 1 : a[name] <= h[i].len
        BY <2>2
      <3> QED
        BY <1>l, <1>n, <1>h, <2>1, <3>1
    <2>5. new <= Word \div 4 - 1
      BY <1>l, <1>n, <2>1, <2>2, FeaturesAssumption
    <2>6. new = Word \div 4 - 1 \/ \E i \in 1 .. k : new = h[i].len
      BY <1>l, <1>n, <1>h, <2>1, <2>3
    <2> QED
      BY <1>2, <2>4, <2>5, <2>6 DEF ExactAs
  <1>3. CASE name = "max_packet_length"
    <2>1. new = IF p.len > a[name] THEN p.len ELSE a[name]
      BY <1>3 DEF NewValue, Greater
    <2>2. \A i \in 1 .. k - 1 : h[i].len <= a[name]
      BY <1>3 DEF ExactAs
    <2>3. a[name] = 0 \/ \E i \in 1 .. k - 1 : a[name] = h[i].len
      BY <1>3 DEF ExactAs
    <2>4. \A i \in 1 .. k : h[i].len <= new
      BY <1>l, <1>n, <1>h, <2>1, <2>2
    <2>5. new = 0 \/ \E i \in 1 .. k : new = h[i].len
      BY <1>l, <1>n, <1>h, <2>1, <2>3
    <2> QED
      BY <1>3, <2>4, <2>5 DEF ExactAs
  <1>4. CASE name = "max_duration"
    <2> DEFINE last == a.last_packet_time
    <2>1. last = IF k = 1 THEN p.time ELSE h[k - 1].time
      BY <1>4 DEF ExactAs
    <2>2. p.time - last \in 0 .. Word - 1
      <3>1. CASE k = 1
        BY <1>p, <2>1, <3>1, FeaturesAssumption
      <3>2. CASE k # 1
        <4>1. k - 1 \in 1 .. Len(h) /\ k \in 1 .. Len(h) /\ k - 1 <= k
          BY <3>2
        <4>2. h[k - 1].time <= p.time /\ last = h[k - 1].time
          BY <2>1, <3>2, <4>1 DEF Ordered
        <4> QED
          BY <1>p, <1>h, <4>1, <4>2, FeaturesAssumption
      <3> QED
        BY <3>1, <3>2
    <2>3. (p.time - last) % Word = p.time - last
      BY <2>2, Fits
    <2>4. new = IF p.time - last > a[name] THEN p.time - last ELSE a[name]
      BY <1>4, <2>3 DEF NewValue, Greater, Duration
    <2>5. /\ \A i \in 1 .. k - 2 : h[i + 1].time - h[i].time <= a[name]
          /\ a[name] = 0 \/ \E i \in 1 .. k - 2 : a[name] = h[i + 1].time - h[i].time
      BY <1>4 DEF ExactAs
    <2> HIDE DEF last
    <2>6. \A i \in 1 .. k - 1 : h[i + 1].time - h[i].time <= new
      <3> SUFFICES ASSUME NEW i \in 1 .. k - 1 PROVE h[i + 1].time - h[i].time <= new
        OBVIOUS
      <3>1. h[i + 1].time \in Int /\ h[i].time \in Int
        BY <1>h
      <3>2. CASE i = k - 1
        BY <1>p, <1>n, <2>1, <2>2, <2>4, <3>1, <3>2
      <3>3. CASE i # k - 1
        <4>1. i \in 1 .. k - 2
          BY <3>3
        <4>2. h[i + 1].time - h[i].time <= a[name]
          BY <2>5, <4>1
        <4>3. a[name] <= new
          BY <1>n, <2>2, <2>4
        <4>4. new \in Int
          BY <1>n, <2>2, <2>4
        <4> QED
          BY <1>n, <3>1, <4>2, <4>3, <4>4
      <3> QED
        BY <3>2, <3>3
    <2>7. new = 0 \/ \E i \in 1 .. k - 1 : new = h[i + 1].time - h[i].time
      <3>1. CASE p.time - last > a[name]
        <4>1. k # 1
          BY <1>p, <1>n, <2>1, <3>1
        <4>2. new = h[k].time - h[k - 1].time /\ k - 1 \in 1 .. k - 1 /\ (k - 1) + 1 = k
          BY <2>1, <2>4, <3>1, <4>1
        <4> QED
          BY <4>2
      <3>2. CASE ~(p.time - last > a[name])
        BY <2>4, <2>5, <3>2
      <3> QED
        BY <3>1, <3>2
    <2> QED
      BY <1>4, <2>6, <2>7 DEF ExactAs
  <1>5. CASE name = "last_packet_time"
    <2>1. new = p.time
      BY <1>5, <1>p, Fits DEF NewValue
    <2> QED
      BY <1>5, <2>1 DEF ExactAs
  <1>6. CASE name = "header_length"
    <2>1. new = (a[name] + p.doff * 4) % Word
      BY <1>6 DEF NewValue
    <2>2. a[name] = total - 4 * p.doff
      BY <1>6 DEF ExactAs
    <2>3. new = total
      <3> DEFINE d == p.doff
      <3>1. a[name] = total - 4 * d
        BY <2>2
      <3>2. d \in Int
        BY <1>p
      <3> HIDE DEF d
      <3>3. total \in Int
        BY FeaturesAssumption
      <3>4. a[name] + d * 4 = total
        BY <3>1, <3>2, <3>3
      <3> QED
        BY <2>1, <3>4, Fits DEF d
    <2> QED
      BY <1>6, <2>3 DEF ExactAs
  <1> QED
    BY <1>1, <1>2, <1>3, <1>4, <1>5, <1>6, Names


-----------------------------------------------------------------------------
(* Types. *)

CPUState == [pc : {"idle", "lookup", "insert", "load", "compare", "store"}, flow : Flows,
             field : 1 .. 6, value : 0 .. Word - 1,
             pkt : [time : 0 .. Word - 1, len : Lengths \cup {0}, doff : Doffs \cup {0}]]

\* A CPU past its lookups has found or made the entry; before, it is at the first field.
FoundEntry(c) ==
  /\ cpu[c].pc \in Updating => cpu[c].flow \in Tracked
  /\ cpu[c].pc = "compare" => Fields[cpu[c].field] = "max_duration"
  /\ cpu[c].pc \in {"lookup", "insert"} => cpu[c].field = 1
  /\ cpu[c].pc # "idle" => cpu[c].pkt \in Packets

\* What has come in: in the order of the clock, and no more than fits the word.
HistoryOK(f) ==
  LET h == hist[f]
  IN  /\ Ordered(h) /\ \A i \in 1 .. Len(h) : h[i].time <= now
      /\ Len(h) <= MaxPackets /\ sent[f] <= 60 * Len(h)
      /\ Len(h) = 0 => sent[f] = 0
      /\ Len(h) = 1 => sent[f] = 4 * h[1].doff

TypeInv ==
  /\ TypeOK
  /\ \A c \in CPUs : FoundEntry(c)
  /\ \A f \in Flows : HistoryOK(f)

LEMMA NoPacketTyped == NoPacket \in CPUState /\ NoPacket.pc = "idle"
  BY FeaturesAssumption DEF NoPacket, CPUState

LEMMA TypeInit == Init => TypeInv
  <1> SUFFICES ASSUME Init PROVE TypeInv
    OBVIOUS
  <1>1. DOMAIN flow_map = {}
    BY DEF Init
  <1>2. 0 \in 0 .. Word - 1 /\ 0 <= MaxPackets
    BY FeaturesAssumption
  <1>3. cpu \in [CPUs -> CPUState]
    BY NoPacketTyped DEF Init
  <1>4. TypeOK
    BY <1>1, <1>2, <1>3 DEF Init, TypeOK, Tracked, CPUState
  <1>5. \A c \in CPUs : FoundEntry(c)
    BY NoPacketTyped DEF Init, FoundEntry, Updating
  <1>6. \A f \in Flows : HistoryOK(f)
    BY <1>2 DEF Init, HistoryOK, Ordered
  <1> QED
    BY <1>4, <1>5, <1>6 DEF TypeInv

\* Where the entries do not change and CPU c goes on as r, only r has to be right.
LEMMA CPUGoesOn ==
  ASSUME TypeInv, NEW c \in CPUs, NEW r \in CPUState, cpu' = [cpu EXCEPT ![c] = r],
         UNCHANGED <<now, hist, sent, raced>>,
         Tracked \subseteq Tracked', Tracked' \subseteq Flows,
         \A f \in Tracked' : flow_map'[f] \in [FieldNames -> 0 .. Word - 1],
         r.pc \in Updating => r.flow \in Tracked',
         r.pc = "compare" => Fields[r.field] = "max_duration",
         r.pc \in {"lookup", "insert"} => r.field = 1,
         r.pc # "idle" => r.pkt \in Packets
  PROVE  TypeInv'
  <1>1. TypeOK'
    BY DEF TypeInv, TypeOK, CPUState
  <1>2. ASSUME NEW d \in CPUs PROVE FoundEntry(d)'
    <2>1. cpu'[d] = IF d = c THEN r ELSE cpu[d]
      BY DEF TypeInv, TypeOK
    <2> QED
      BY <2>1 DEF TypeInv, FoundEntry
  <1>3. \A f \in Flows : HistoryOK(f)'
    BY DEF TypeInv, HistoryOK
  <1> QED
    BY <1>1, <1>2, <1>3 DEF TypeInv

\* Whatever is loaded, the value computed is a word.
LEMMA NewTyped ==
  ASSUME NEW a \in [FieldNames -> 0 .. Word - 1], NEW p \in Packets, NEW name \in FieldNames
  PROVE  NewValue(name, a, p) \in 0 .. Word - 1
  <1>1. p.len \in 0 .. Word - 1 /\ p.time \in Int /\ p.doff \in Int /\ a[name] \in 0 .. Word - 1
    BY PacketTyped
  <1>2. a.last_packet_time \in Int
    BY Names, Bounds
  <1>3. (a[name] + 1) % Word \in 0 .. Word - 1 /\ p.time % Word \in 0 .. Word - 1
    BY <1>1, Fits
  <1>4. (a[name] + p.doff * 4) % Word \in 0 .. Word - 1
    BY <1>1, Fits
  <1>5. Duration(a, p) \in 0 .. Word - 1
    BY <1>1, <1>2, Fits DEF Duration
  <1>6. CASE name = "num_packet"
    BY <1>3, <1>6 DEF NewValue
  <1>7. CASE name = "min_packet_length"
    BY <1>1, <1>7 DEF NewValue
  <1>8. CASE name = "max_packet_length"
    BY <1>1, <1>8 DEF NewValue, Greater
  <1>9. CASE name = "max_duration"
    BY <1>1, <1>5, <1>9 DEF NewValue, Greater
  <1>10. CASE name = "last_packet_time"
    BY <1>3, <1>10 DEF NewValue
  <1>11. CASE name = "header_length"
    BY <1>4, <1>11 DEF NewValue
  <1> QED
    BY <1>6, <1>7, <1>8, <1>9, <1>10, <1>11, Names

\* The effect of a packet's arrival.
LEMMA ReceiveIs ==
  ASSUME TypeInv, NEW c \in CPUs, NEW f \in Flows, Receive(c, f)
  PROVE  \E p \in Packets : \E r \in CPUState :
           /\ r.pc = "lookup" /\ r.flow = f /\ r.field = 1 /\ r.pkt = p
           /\ cpu' = [cpu EXCEPT ![c] = r]
           /\ now <= p.time /\ now' = p.time
           /\ hist' = [hist EXCEPT ![f] = Append(@, p)]
           /\ sent' = [sent EXCEPT ![f] = @ + 4 * p.doff]
           /\ raced' = IF Busy(f) = {} THEN raced ELSE raced \cup {f}
           /\ flow_map' = flow_map
  <1> DEFINE Pkt(tot_len, ihl, doff, gap) ==
               [time |-> now + gap, len |-> packet_length(tot_len, ihl), doff |-> doff]
             Arrives(q, gap, doff) ==
               /\ now + gap < Word
               /\ now' = q.time
               /\ cpu' = [cpu EXCEPT ![c] = [NoPacket EXCEPT !.pc = "lookup", !.flow = f,
                                                             !.pkt = q]]
               /\ hist' = [hist EXCEPT ![f] = Append(@, q)]
               /\ sent' = [sent EXCEPT ![f] = @ + 4 * doff]
  <1>0. \E tot_len \in TotLens, ihl \in Ihls, doff \in Doffs, gap \in Gaps :
          Arrives(Pkt(tot_len, ihl, doff, gap), gap, doff)
    <2>1. Receive(c, f) => \E tot_len \in TotLens, ihl \in Ihls, doff \in Doffs, gap \in Gaps :
             Arrives(Pkt(tot_len, ihl, doff, gap), gap, doff)
      BY DEF Receive
    <2> QED
      BY <2>1
  <1> HIDE DEF Arrives, Pkt
  <1>1. PICK tot_len \in TotLens, ihl \in Ihls, doff \in Doffs, gap \in Gaps :
          Arrives(Pkt(tot_len, ihl, doff, gap), gap, doff)
    BY <1>0
  <1> USE DEF Arrives, Pkt
  <1> DEFINE len == packet_length(tot_len, ihl)
             p == [time |-> now + gap, len |-> len, doff |-> doff]
             r == [NoPacket EXCEPT !.pc = "lookup", !.flow = f, !.pkt = p]
  <1>l. len \in Lengths
    BY DEF Lengths
  <1> HIDE DEF len
  <1>2. now + gap \in 0 .. Word - 1 /\ now <= now + gap
    <2>1. now \in 0 .. Word - 1 /\ gap \in Nat /\ now + gap < Word
      BY <1>1, Bounds DEF TypeInv, TypeOK
    <2> QED
      BY <2>1, Bounds
  <1>3. p \in Packets /\ p.time = now + gap /\ p.doff = doff
    BY <1>2, <1>l DEF Packets
  <1>4. p \in [time : 0 .. Word - 1, len : Lengths \cup {0}, doff : Doffs \cup {0}]
    BY <1>2, <1>l
  <1>5. cpu' = [cpu EXCEPT ![c] = r] /\ hist' = [hist EXCEPT ![f] = Append(@, p)]
    BY <1>1 DEF len
  <1> HIDE DEF p
  <1>6. /\ r \in CPUState
        /\ r.pc = "lookup" /\ r.flow = f /\ r.field = 1 /\ r.pkt = p
    BY <1>4, NoPacketTyped DEF CPUState, NoPacket
  <1>7. sent' = [sent EXCEPT ![f] = @ + 4 * p.doff]
    BY <1>1, <1>3
  <1>8. /\ raced' = IF Busy(f) = {} THEN raced ELSE raced \cup {f}
        /\ flow_map' = flow_map
    BY DEF Receive
  <1>9. now <= p.time /\ now' = p.time
    BY <1>1, <1>2, <1>3
  <1> HIDE DEF r
  <1> QED
    BY <1>3, <1>5, <1>6, <1>7, <1>8, <1>9

LEMMA ReceiveTyped ==
  ASSUME TypeInv, NEW c \in CPUs, NEW f \in Flows, Receive(c, f)
  PROVE  TypeInv'
  <1>1. PICK p \in Packets, r \in CPUState :
          /\ r.pc = "lookup" /\ r.flow = f /\ r.field = 1 /\ r.pkt = p
          /\ cpu' = [cpu EXCEPT ![c] = r]
          /\ now <= p.time /\ now' = p.time
          /\ hist' = [hist EXCEPT ![f] = Append(@, p)]
          /\ sent' = [sent EXCEPT ![f] = @ + 4 * p.doff]
          /\ raced' = IF Busy(f) = {} THEN raced ELSE raced \cup {f}
          /\ flow_map' = flow_map
    BY ReceiveIs
  <1> DEFINE h == hist[f]
  <1>2. Len(h) < MaxPackets /\ h \in Seq(Packets) /\ Len(h) \in Nat
    BY DEF Receive, TypeInv, TypeOK
  <1>3. p.time \in 0 .. Word - 1 /\ p.doff \in 0 .. 15
    BY PacketTyped
  <1>4. /\ hist'[f] = Append(h, p) /\ sent'[f] = sent[f] + 4 * p.doff
        /\ \A g \in Flows \ {f} : hist'[g] = hist[g] /\ sent'[g] = sent[g]
    BY <1>1 DEF TypeInv, TypeOK
  <1>5. Len(Append(h, p)) = Len(h) + 1 /\ Append(h, p)[Len(h) + 1] = p
        /\ \A i \in 1 .. Len(h) : Append(h, p)[i] = h[i]
    BY <1>2
  <1>6. sent[f] \in 0 .. Word - 1 /\ sent[f] <= 60 * Len(h)
    BY DEF TypeInv, TypeOK, HistoryOK
  <1>7. sent'[f] <= 60 * (Len(h) + 1) /\ sent'[f] \in 0 .. Word - 1
    <2> DEFINE n == Len(h)  d == p.doff  b == sent[f]
    <2>1. n \in Nat /\ n < MaxPackets /\ d \in 0 .. 15 /\ b \in Nat /\ b <= 60 * n
      BY <1>2, <1>3, <1>6
    <2> HIDE DEF n, d, b
    <2>2. b + 4 * d \in Nat /\ b + 4 * d <= 60 * (n + 1) /\ 60 * (n + 1) <= 60 * MaxPackets
      BY <2>1, Bounds
    <2>3. b + 4 * d \in 0 .. Word - 1
      BY <2>1, <2>2, Bounds
    <2> QED
      BY <1>4, <2>2, <2>3 DEF n, d, b
  <1>8. TypeOK'
    <2>1. hist' \in [Flows -> Seq(Packets)]
      BY <1>1, <1>2 DEF TypeInv, TypeOK
    <2>2. sent' \in [Flows -> 0 .. Word - 1]
      BY <1>1, <1>4, <1>7 DEF TypeInv, TypeOK
    <2>3. cpu' \in [CPUs -> CPUState]
      BY <1>1 DEF TypeInv, TypeOK, CPUState
    <2> QED
      BY <1>1, <1>3, <2>1, <2>2, <2>3 DEF TypeInv, TypeOK, Tracked, CPUState
  <1>9. ASSUME NEW d \in CPUs PROVE FoundEntry(d)'
    <2>1. cpu'[d] = IF d = c THEN r ELSE cpu[d]
      BY <1>1 DEF TypeInv, TypeOK
    <2> QED
      BY <1>1, <2>1 DEF TypeInv, FoundEntry, Tracked, Updating
  <1>10. HistoryOK(f)'
    <2>1. Ordered(h) /\ \A i \in 1 .. Len(h) : h[i].time <= p.time
      <3>1. \A i \in 1 .. Len(h) : h[i].time <= now /\ h[i].time \in Int
        BY <1>2, PacketTyped DEF TypeInv, HistoryOK
      <3>2. Ordered(h) /\ now \in Int
        BY Bounds DEF TypeInv, HistoryOK, TypeOK
      <3> QED
        BY <1>1, <1>3, <3>1, <3>2
    <2>2. Ordered(Append(h, p))
      BY <1>2, <1>3, <1>5, <2>1 DEF Ordered
    <2>3. \A i \in 1 .. Len(Append(h, p)) : Append(h, p)[i].time <= p.time
      BY <1>2, <1>3, <1>5, <2>1
    <2>4. Len(h) = 0 => sent'[f] = 4 * p.doff
      BY <1>3, <1>4 DEF TypeInv, HistoryOK
    <2>5. \A i \in 1 .. Len(hist'[f]) : hist'[f][i].time <= now'
      BY <1>1, <1>4, <2>3
    <2>6. Len(hist'[f]) = Len(h) + 1 /\ Len(hist'[f]) <= MaxPackets
      BY <1>2, <1>4, <1>5, Bounds
    <2>7. Len(hist'[f]) = 1 => sent'[f] = 4 * hist'[f][1].doff
      BY <1>2, <1>4, <1>5, <2>4, <2>6
    <2>8. Ordered(hist'[f]) /\ sent'[f] <= 60 * Len(hist'[f]) /\ Len(hist'[f]) # 0
      BY <1>2, <1>4, <1>7, <2>2, <2>6
    <2> QED
      BY <2>5, <2>6, <2>7, <2>8 DEF HistoryOK
  <1>11. ASSUME NEW g \in Flows \ {f} PROVE HistoryOK(g)'
    <2>1. \A i \in 1 .. Len(hist[g]) : hist[g][i].time <= now /\ hist[g][i].time \in Int
      <3>1. hist[g] \in Seq(Packets)
        BY DEF TypeInv, TypeOK
      <3> QED
        BY <3>1, PacketTyped DEF TypeInv, HistoryOK
    <2>2. \A i \in 1 .. Len(hist[g]) : hist[g][i].time <= now'
      BY <1>1, <1>3, <2>1, Bounds DEF TypeInv, TypeOK
    <2> QED
      BY <1>4, <2>2 DEF TypeInv, HistoryOK
  <1> QED
    BY <1>8, <1>9, <1>10, <1>11 DEF TypeInv

\* An attempt to insert an entry: it is made if there is room and none yet.
LEMMA InsertIs ==
  ASSUME TypeInv, NEW c \in CPUs, Insert(c)
  PROVE  LET f == cpu[c].flow
             made == f \notin Tracked /\ Cardinality(Tracked) < MaxEntries
         IN  /\ cpu[c].pc = "insert" /\ f \in Flows /\ cpu[c].pkt \in Packets
             /\ IF made THEN /\ Tracked' = Tracked \cup {f}
                             /\ flow_map'[f] = InitialAttribute(cpu[c].pkt.time)
                             /\ \A g \in Tracked : flow_map'[g] = flow_map[g]
                        ELSE flow_map' = flow_map /\ Tracked' = Tracked
             /\ IF f \in Tracked' THEN cpu' = [cpu EXCEPT ![c] = [cpu[c] EXCEPT !.pc = "load"]]
                                  ELSE cpu' = [cpu EXCEPT ![c] = NoPacket]
             /\ UNCHANGED <<now, hist, sent, raced>>
  <1> DEFINE f == cpu[c].flow
             made == f \notin Tracked /\ Cardinality(Tracked) < MaxEntries
  <1>1. cpu[c].pc = "insert" /\ UNCHANGED <<now, hist, sent, raced>>
    BY DEF Insert
  <1>2. f \in Flows /\ cpu[c].pkt \in Packets
    BY <1>1 DEF TypeInv, TypeOK, FoundEntry
  <1>3. CASE made
    <2>1. flow_map' = [g \in Tracked \cup {f} |->
             IF g = f THEN InitialAttribute(cpu[c].pkt.time) ELSE flow_map[g]]
      BY <1>3 DEF Insert
    <2>2. /\ Tracked' = Tracked \cup {f}
          /\ flow_map'[f] = InitialAttribute(cpu[c].pkt.time)
          /\ \A g \in Tracked : flow_map'[g] = flow_map[g]
      BY <1>3, <2>1 DEF Tracked
    <2>3. cpu' = [cpu EXCEPT ![c] = [cpu[c] EXCEPT !.pc = "load"]]
      BY <2>2 DEF Insert, Tracked
    <2> QED
      BY <1>1, <1>2, <1>3, <2>2, <2>3
  <1>4. CASE ~made
    <2>1. flow_map' = flow_map /\ Tracked' = Tracked
      BY <1>4 DEF Insert, Tracked
    <2>2. cpu' = [cpu EXCEPT ![c] = IF f \in Tracked' THEN [cpu[c] EXCEPT !.pc = "load"]
                                                       ELSE NoPacket]
      BY DEF Insert, Tracked
    <2> QED
      BY <1>1, <1>2, <1>4, <2>1, <2>2
  <1> QED
    BY <1>3, <1>4

\* CPU c, which works on the field n of f, is about to store new in it, or leaves it.
Chooses(c, f, n, new) ==
  /\ f = cpu[c].flow /\ f \in Tracked /\ f \in Flows
  /\ n = cpu[c].field /\ n \in 1 .. 6 /\ cpu[c].pkt \in Packets
  /\ cpu[c].pc \in {"load", "compare"} /\ cpu[c] \in CPUState
  /\ new \in 0 .. Word - 1
  /\ \/ cpu' = [cpu EXCEPT ![c] = ToStore(cpu[c], new)]
     \/ /\ new = flow_map[f][Fields[n]] /\ n # 6
        /\ cpu' = [cpu EXCEPT ![c] = NextField(cpu[c])]
  /\ UNCHANGED <<flow_map, now, hist, sent, raced>>

LEMMA Goes ==
  ASSUME NEW r \in CPUState, NEW new \in 0 .. Word - 1
  PROVE  /\ ToStore(r, new) \in CPUState /\ ToStore(r, new).pc = "store"
         /\ ToStore(r, new).flow = r.flow /\ ToStore(r, new).field = r.field
         /\ ToStore(r, new).value = new /\ ToStore(r, new).pkt = r.pkt
         /\ NextField(r).pc = "load" /\ NextField(r).flow = r.flow
         /\ NextField(r).field = r.field + 1 /\ NextField(r).pkt = r.pkt
         /\ r.field # 6 => NextField(r) \in CPUState
  <1>1. r.field # 6 => r.field + 1 \in 1 .. 6
    BY DEF CPUState
  <1>2. 0 \in 0 .. Word - 1
    BY Bounds
  <1> QED
    BY <1>1, <1>2 DEF CPUState, ToStore, NextField

\* A load: what the field is to become, or the next field if it stays.
LEMMA LoadIs ==
  ASSUME TypeInv, NEW c \in CPUs, Load(c)
  PROVE  LET f == cpu[c].flow
             n == cpu[c].field
         IN  Chooses(c, f, n, NewValue(Fields[n], flow_map[f], cpu[c].pkt)) /\ cpu[c].pc = "load"
  <1> DEFINE f == cpu[c].flow
             n == cpu[c].field
             new == NewValue(Fields[n], flow_map[f], cpu[c].pkt)
  <1>1. /\ cpu[c].pc = "load" /\ UNCHANGED <<flow_map, now, hist, sent, raced>>
        /\ cpu[c] \in CPUState /\ cpu \in [CPUs -> CPUState]
    BY DEF Load, TypeInv, TypeOK, CPUState
  <1>2. f \in Tracked /\ f \in Flows /\ n \in 1 .. 6 /\ cpu[c].pkt \in Packets
    BY <1>1 DEF TypeInv, FoundEntry, CPUState, Updating
  <1>3. new \in 0 .. Word - 1
    <2>1. flow_map[f] \in [FieldNames -> 0 .. Word - 1] /\ Fields[n] \in FieldNames
      BY <1>2, Names DEF TypeInv, TypeOK
    <2> QED
      BY <1>2, <2>1, NewTyped
  <1>4. CASE new # flow_map[f][Fields[n]]
               \/ Fields[n] \in {"num_packet", "last_packet_time", "header_length"}
    <2>1. cpu' = [cpu EXCEPT ![c] = ToStore(cpu[c], new)]
      BY <1>4 DEF Load
    <2> QED
      BY <1>1, <1>2, <1>3, <2>1 DEF Chooses
  <1>5. CASE ~(new # flow_map[f][Fields[n]]
               \/ Fields[n] \in {"num_packet", "last_packet_time", "header_length"})
    <2>1. cpu' = [cpu EXCEPT ![c] = NextField(cpu[c])]
      BY <1>5 DEF Load
    <2>2. n # 6
      BY <1>5 DEF Fields
    <2> QED
      BY <1>1, <1>2, <1>3, <1>5, <2>1, <2>2 DEF Chooses
  <1> QED
    BY <1>4, <1>5

\* The load of last_packet_time.
LEMMA LoadTimeIs ==
  ASSUME TypeInv, NEW c \in CPUs, LoadTime(c)
  PROVE  LET r == [cpu[c] EXCEPT !.pc = "compare",
                                 !.value = Duration(flow_map[cpu[c].flow], cpu[c].pkt)]
         IN  /\ cpu[c].pc = "load" /\ cpu[c].flow \in Tracked /\ cpu[c].flow \in Flows
             /\ cpu[c].field = 4 /\ cpu[c].pkt \in Packets
             /\ cpu' = [cpu EXCEPT ![c] = r] /\ r \in CPUState
             /\ r.pc = "compare" /\ r.flow = cpu[c].flow /\ r.field = 4 /\ r.pkt = cpu[c].pkt
             /\ r.value = Duration(flow_map[cpu[c].flow], cpu[c].pkt)
             /\ UNCHANGED <<flow_map, now, hist, sent, raced>>
  <1> DEFINE d == Duration(flow_map[cpu[c].flow], cpu[c].pkt)
             r == [cpu[c] EXCEPT !.pc = "compare", !.value = d]
  <1>1. /\ cpu[c].pc = "load" /\ Fields[cpu[c].field] = "max_duration"
        /\ UNCHANGED <<flow_map, now, hist, sent, raced>>
        /\ cpu' = [cpu EXCEPT ![c] = r] /\ cpu[c] \in CPUState
    BY DEF LoadTime, TypeInv, TypeOK, CPUState
  <1>2. /\ cpu[c].flow \in Tracked /\ cpu[c].flow \in Flows /\ cpu[c].pkt \in Packets
        /\ cpu[c].field \in 1 .. 6
    BY <1>1 DEF TypeInv, FoundEntry, CPUState, Updating
  <1>3. cpu[c].field = 4
    BY <1>1, <1>2 DEF Fields
  <1>4. d \in 0 .. Word - 1
    <2>1. flow_map[cpu[c].flow].last_packet_time \in Int /\ cpu[c].pkt.time \in Int
      BY <1>2, Names, Bounds, PacketTyped DEF TypeInv, TypeOK
    <2> QED
      BY <2>1, Fits DEF Duration
  <1> HIDE DEF d
  <1>5. r \in CPUState
    BY <1>1, <1>4 DEF CPUState
  <1>6. r.pc = "compare" /\ r.flow = cpu[c].flow /\ r.field = 4 /\ r.pkt = cpu[c].pkt /\ r.value = d
    BY <1>1, <1>3 DEF CPUState
  <1> QED
    BY <1>1, <1>2, <1>3, <1>5, <1>6 DEF d

\* The load of max_duration, and the comparison.
LEMMA CompareIs ==
  ASSUME TypeInv, NEW c \in CPUs, Compare(c)
  PROVE  LET f == cpu[c].flow
         IN  /\ Chooses(c, f, 4, Greater(cpu[c].value, flow_map[f].max_duration))
             /\ cpu[c].pc = "compare"
  <1> DEFINE f == cpu[c].flow
             old == flow_map[f].max_duration
             new == Greater(cpu[c].value, old)
  <1>1. /\ cpu[c].pc = "compare" /\ UNCHANGED <<flow_map, now, hist, sent, raced>>
        /\ cpu[c] \in CPUState /\ cpu[c].value \in 0 .. Word - 1
    BY DEF Compare, TypeInv, TypeOK, CPUState
  <1>2. /\ f \in Tracked /\ f \in Flows /\ cpu[c].pkt \in Packets
        /\ cpu[c].field = 4 /\ Fields[4] = "max_duration"
    BY <1>1 DEF TypeInv, FoundEntry, CPUState, Updating, Fields
  <1>3. old \in 0 .. Word - 1
    BY <1>2, Names DEF TypeInv, TypeOK
  <1>4. new \in 0 .. Word - 1
    BY <1>1, <1>3 DEF Greater
  <1>5. CASE cpu[c].value > old
    <2>1. cpu' = [cpu EXCEPT ![c] = ToStore(cpu[c], new)]
      BY <1>5 DEF Compare, Greater
    <2> QED
      BY <1>1, <1>2, <1>4, <2>1 DEF Chooses
  <1>6. CASE ~(cpu[c].value > old)
    <2>1. cpu' = [cpu EXCEPT ![c] = NextField(cpu[c])] /\ new = flow_map[f][Fields[4]]
      BY <1>2, <1>6 DEF Compare, Greater
    <2> QED
      BY <1>1, <1>2, <1>4, <2>1 DEF Chooses
  <1> QED
    BY <1>5, <1>6

LEMMA StoreIs ==
  ASSUME TypeInv, NEW c \in CPUs, Store(c)
  PROVE  LET f == cpu[c].flow
             field == Fields[cpu[c].field]
         IN  /\ cpu[c].pc = "store" /\ f \in Tracked /\ f \in Flows
             /\ cpu[c].field \in 1 .. 6 /\ cpu[c].pkt \in Packets
             /\ field \in FieldNames /\ cpu[c].value \in 0 .. Word - 1
             /\ Tracked' = Tracked
             /\ flow_map'[f] = [flow_map[f] EXCEPT ![field] = cpu[c].value]
             /\ \A g \in Tracked \ {f} : flow_map'[g] = flow_map[g]
             /\ IF cpu[c].field = 6
                  THEN cpu' = [cpu EXCEPT ![c] = NoPacket]
                  ELSE cpu' = [cpu EXCEPT ![c] = NextField(cpu[c])]
             /\ UNCHANGED <<now, hist, sent, raced>>
  <1> DEFINE f == cpu[c].flow
             field == Fields[cpu[c].field]
  <1>1. /\ cpu[c].pc = "store" /\ UNCHANGED <<now, hist, sent, raced>>
        /\ cpu[c] \in CPUState /\ cpu \in [CPUs -> CPUState]
    BY DEF Store, TypeInv, TypeOK, CPUState
  <1>2. /\ f \in Tracked /\ f \in Flows /\ cpu[c].field \in 1 .. 6 /\ cpu[c].pkt \in Packets
        /\ cpu[c].value \in 0 .. Word - 1
    BY <1>1 DEF TypeInv, FoundEntry, CPUState, Updating
  <1>3. field \in FieldNames
    BY <1>2, Names
  <1>4. flow_map' = [flow_map EXCEPT ![f][field] = cpu[c].value]
    BY DEF Store
  <1>5. /\ Tracked' = Tracked
        /\ flow_map'[f] = [flow_map[f] EXCEPT ![field] = cpu[c].value]
        /\ \A g \in Tracked \ {f} : flow_map'[g] = flow_map[g]
    BY <1>2, <1>4 DEF Tracked
  <1>6. IF cpu[c].field = 6
          THEN cpu' = [cpu EXCEPT ![c] = NoPacket]
          ELSE cpu' = [cpu EXCEPT ![c] = NextField(cpu[c])]
    BY DEF Store
  <1> QED
    BY <1>1, <1>2, <1>3, <1>5, <1>6

LEMMA CPUTyped == ASSUME TypeInv, NEW c \in CPUs PROVE cpu[c] \in CPUState
  BY DEF TypeInv, TypeOK, CPUState

LEMMA EntryTyped ==
  ASSUME TypeInv, NEW f \in Tracked
  PROVE  flow_map[f] \in [FieldNames -> 0 .. Word - 1]
  BY DEF TypeInv, TypeOK

\* What a CPU does with a packet keeps the types.
LEMMA StepTyped ==
  ASSUME TypeInv, NEW c \in CPUs, Step(c)
  PROVE  TypeInv'
  <1> DEFINE r == cpu[c]
             f == cpu[c].flow
  <1>r. r \in CPUState
    BY CPUTyped
  <1>f. FoundEntry(c) /\ Tracked \subseteq Flows
    BY DEF TypeInv, TypeOK
  <1>e. \A g \in Tracked : flow_map[g] \in [FieldNames -> 0 .. Word - 1]
    BY EntryTyped
  <1>1. CASE Lookup(c)
    <2> DEFINE s == [r EXCEPT !.pc = IF f \in Tracked THEN "load" ELSE "insert"]
    <2>1. r.pc = "lookup" /\ cpu' = [cpu EXCEPT ![c] = s]
      BY <1>1 DEF Lookup
    <2>2. /\ s \in CPUState /\ s.flow = f /\ s.field = 1 /\ s.pkt \in Packets
          /\ (s.pc \in Updating => f \in Tracked) /\ s.pc # "compare"
      BY <1>r, <1>f, <2>1 DEF CPUState, FoundEntry, Updating
    <2>3. UNCHANGED <<flow_map, now, hist, sent, raced>> /\ Tracked' = Tracked
      BY <1>1 DEF Lookup, Tracked
    <2> HIDE DEF s
    <2> QED
      BY <1>e, <1>f, <2>1, <2>2, <2>3, CPUGoesOn
  <1>2. CASE Insert(c)
    <2> DEFINE s == [r EXCEPT !.pc = "load"]
    <2>1. /\ r.pc = "insert" /\ f \in Flows /\ r.pkt \in Packets
          /\ UNCHANGED <<now, hist, sent, raced>>
          /\ \/ cpu' = [cpu EXCEPT ![c] = s] /\ f \in Tracked'
             \/ cpu' = [cpu EXCEPT ![c] = NoPacket]
      BY <1>2, InsertIs
    <2>2. /\ Tracked \subseteq Tracked' /\ Tracked' \subseteq Flows
          /\ \A g \in Tracked' : flow_map'[g] \in [FieldNames -> 0 .. Word - 1]
      <3>1. InitialAttribute(r.pkt.time) \in [FieldNames -> 0 .. Word - 1]
        BY <2>1, PacketTyped, FreshTyped
      <3> QED
        BY <1>2, <1>f, <1>e, <3>1, InsertIs
    <2>3. s \in CPUState /\ s.flow = f /\ s.pkt \in Packets /\ s.pc = "load"
      BY <1>r, <2>1 DEF CPUState
    <2> HIDE DEF s
    <2> QED
      BY <2>1, <2>2, <2>3, NoPacketTyped, CPUGoesOn DEF Updating
  <1>3. ASSUME NEW n, NEW new, Chooses(c, f, n, new) PROVE TypeInv'
    <2>1. /\ f \in Tracked /\ r.pkt \in Packets /\ new \in 0 .. Word - 1
          /\ \/ cpu' = [cpu EXCEPT ![c] = ToStore(r, new)]
             \/ r.field # 6 /\ cpu' = [cpu EXCEPT ![c] = NextField(r)]
          /\ UNCHANGED <<flow_map, now, hist, sent, raced>> /\ Tracked' = Tracked
      BY <1>3 DEF Chooses, Tracked
    <2>2. CASE cpu' = [cpu EXCEPT ![c] = ToStore(r, new)]
      <3> DEFINE s == ToStore(r, new)
      <3>1. s \in CPUState /\ s.pc = "store" /\ s.flow = f /\ s.pkt \in Packets
        BY <1>r, <2>1, Goes
      <3> HIDE DEF s
      <3> QED
        BY <1>e, <1>f, <2>1, <2>2, <3>1, CPUGoesOn DEF s
    <2>3. CASE r.field # 6 /\ cpu' = [cpu EXCEPT ![c] = NextField(r)]
      <3> DEFINE s == NextField(r)
      <3>1. s \in CPUState /\ s.pc = "load" /\ s.flow = f /\ s.pkt \in Packets
        BY <1>r, <2>1, <2>3, Goes
      <3> HIDE DEF s
      <3> QED
        BY <1>e, <1>f, <2>1, <2>3, <3>1, CPUGoesOn DEF s
    <2> QED
      BY <2>1, <2>2, <2>3
  <1>5. CASE LoadTime(c)
    <2> DEFINE s == [r EXCEPT !.pc = "compare", !.value = Duration(flow_map[f], r.pkt)]
    <2>1. /\ f \in Tracked /\ cpu' = [cpu EXCEPT ![c] = s] /\ s \in CPUState
          /\ s.pc = "compare" /\ s.flow = f /\ s.field = 4 /\ s.pkt \in Packets
          /\ UNCHANGED <<flow_map, now, hist, sent, raced>>
      BY <1>5, LoadTimeIs
    <2>2. Tracked' = Tracked /\ Fields[4] = "max_duration"
      BY <2>1 DEF Tracked, Fields
    <2> HIDE DEF s
    <2> QED
      BY <1>e, <1>f, <2>1, <2>2, CPUGoesOn
  <1>4. CASE Store(c)
    <2> DEFINE field == Fields[r.field]
               s == NextField(r)
    <2>1. /\ f \in Tracked /\ r.field \in 1 .. 6 /\ r.pkt \in Packets /\ field \in FieldNames
          /\ r.value \in 0 .. Word - 1
          /\ Tracked' = Tracked
          /\ flow_map'[f] = [flow_map[f] EXCEPT ![field] = r.value]
          /\ \A g \in Tracked \ {f} : flow_map'[g] = flow_map[g]
          /\ UNCHANGED <<now, hist, sent, raced>>
      BY <1>4, StoreIs
    <2>2. \/ r.field = 6 /\ cpu' = [cpu EXCEPT ![c] = NoPacket]
          \/ r.field # 6 /\ cpu' = [cpu EXCEPT ![c] = s]
      BY <1>4, StoreIs
    <2>4. r.field # 6 => s \in CPUState /\ s.pc = "load" /\ s.flow = f /\ s.pkt \in Packets
      BY <1>r, <2>1, Goes
    <2>5. \A g \in Tracked' : flow_map'[g] \in [FieldNames -> 0 .. Word - 1]
      BY <1>e, <2>1
    <2> HIDE DEF s
    <2> QED
      BY <1>f, <2>1, <2>2, <2>4, <2>5, NoPacketTyped, CPUGoesOn DEF Updating
  <1> QED
    BY <1>1, <1>2, <1>3, <1>4, <1>5, LoadIs, CompareIs DEF Step

LEMMA TypeStep == TypeInv /\ [Next]_vars => TypeInv'
  <1>1. ASSUME TypeInv, UNCHANGED vars PROVE TypeInv'
    BY <1>1 DEF TypeInv, TypeOK, FoundEntry, HistoryOK, Tracked, vars
  <1> QED
    BY <1>1, ReceiveTyped, StepTyped DEF Next

\* Entries, locals of the CPUs and histories have their types: no CPU works on an entry
\* that is not there, and every number fits its word.
THEOREM FeaturesTypeCorrect == Spec => []TypeOK
  <1>1. TypeInv => TypeOK
    BY DEF TypeInv
  <1> QED
    BY <1>1, TypeInit, TypeStep, PTL DEF Spec

-----------------------------------------------------------------------------
(* Entries are never reset. *)

\* Two CPUs that both find no entry, and both insert one: the second insert fails, and
\* the entry of the first stays, for any number of CPUs.
THEOREM FeaturesNoReset == Spec => NoReset
  <1> DEFINE Changed(f) == {n \in FieldNames : flow_map'[f][n] # flow_map[f][n]}
             OneField(f) == f \in Tracked' /\ Cardinality(Changed(f)) <= 1
  <1>1. ASSUME NEW f \in Tracked, f \in Tracked', flow_map'[f] = flow_map[f]
        PROVE  OneField(f)
    <2>1. Changed(f) = {}
      BY <1>1
    <2> QED
      BY <1>1, <2>1, FS_EmptySet
  <1>2. ASSUME TypeInv, NEW c \in CPUs, Store(c), NEW f \in Tracked
        PROVE  OneField(f)
    <2>1. CASE f # cpu[c].flow
      BY <1>1, <1>2, <2>1, StoreIs
    <2>2. CASE f = cpu[c].flow
      <3> DEFINE field == Fields[cpu[c].field]
      <3>1. f \in Tracked' /\ flow_map'[f] = [flow_map[f] EXCEPT ![field] = cpu[c].value]
        BY <1>2, <2>2, StoreIs
      <3>2. Changed(f) \subseteq {field}
        BY <1>2, <3>1, EntryTyped
      <3>3. IsFiniteSet({field}) /\ Cardinality({field}) = 1
        BY FS_Singleton
      <3>4. Cardinality(Changed(f)) <= 1
        BY <3>2, <3>3, FS_Subset
      <3> QED
        BY <3>1, <3>4
    <2> QED
      BY <2>1, <2>2
  <1>3. ASSUME TypeInv, NEW c \in CPUs, Insert(c), NEW f \in Tracked
        PROVE  OneField(f)
    BY <1>1, <1>3, InsertIs
  <1>4. ASSUME UNCHANGED flow_map, NEW f \in Tracked
        PROVE  OneField(f)
    BY <1>1, <1>4 DEF Tracked
  <1>5. ASSUME TypeInv, [Next]_vars, NEW f \in Tracked
        PROVE  OneField(f)
    BY <1>2, <1>3, <1>4, <1>5 DEF Next, Step, Receive, Lookup, Load, LoadTime, Compare, vars
  <1>6. TypeInv /\ [Next]_vars =>
          [\A f \in Tracked :
             /\ f \in Tracked'
             /\ Cardinality({n \in FieldNames : flow_map'[f][n] # flow_map[f][n]}) <= 1]_vars
    BY <1>5
  <1> QED
    BY <1>6, TypeInit, TypeStep, PTL DEF Spec, NoReset

-----------------------------------------------------------------------------
(* The features of flows whose packets are handled one at a time. *)

\* CPU c has dealt with field i of its packet's flow.
Passed(c, i) == cpu[c].pc \in Updating /\ i < cpu[c].field

\* The packets that field i of the entry of f accounts for: all of them, or all but the
\* last, and the bytes of the headers of the first k packets, for these k.
Included(f, i) ==
  IF \A c \in Busy(f) : Passed(c, i) THEN Len(hist[f]) ELSE Len(hist[f]) - 1
Bytes(f, k) ==
  IF k = Len(hist[f]) THEN sent[f] ELSE sent[f] - 4 * hist[f][Len(hist[f])].doff

OneAtATime(f) == \A c, d \in Busy(f) : c = d

\* It is the last packet that is handled, and a CPU that is to insert finds no entry.
OnLastPacket(f) ==
  \A c \in Busy(f) :
    /\ Len(hist[f]) >= 1 /\ cpu[c].pkt = hist[f][Len(hist[f])]
    /\ cpu[c].pc = "insert" => f \notin Tracked

EntryExact(f) ==
  f \in Tracked =>
    /\ Len(hist[f]) >= 1
    /\ \A i \in 1 .. 6 :
         ExactAs(Fields[i], flow_map[f][Fields[i]], hist[f], Included(f, i),
                 Bytes(f, Included(f, i)))

\* What a CPU is about to store is exact, and last_packet_time stands while it compares.
ValueExact(f) ==
  \A c \in Busy(f) :
    /\ cpu[c].pc = "store" =>
         ExactAs(Fields[cpu[c].field], cpu[c].value, hist[f], Len(hist[f]), sent[f])
    /\ cpu[c].pc = "compare" => cpu[c].value = Duration(flow_map[f], cpu[c].pkt)

\* A flow without an entry has had no packet, unless the table is full or its first
\* packet is being handled.
NoneMissed(f) ==
  f \notin Tracked /\ Cardinality(Tracked) < MaxEntries =>
    Len(hist[f]) = 0 \/ (Len(hist[f]) = 1 /\ Busy(f) # {})

Sequential(f) ==
  OneAtATime(f) /\ OnLastPacket(f) /\ EntryExact(f) /\ ValueExact(f) /\ NoneMissed(f)

\* The inductive invariant.
FeaturesInv == TypeInv /\ \A f \in Flows \ raced : Sequential(f)

LEMMA FeaturesInit == Init => FeaturesInv
  <1> SUFFICES ASSUME Init, NEW f \in Flows PROVE Sequential(f)
    BY TypeInit DEF FeaturesInv
  <1>1. Busy(f) = {} /\ f \notin Tracked /\ Len(hist[f]) = 0
    BY NoPacketTyped DEF Init, Busy, Tracked
  <1> QED
    BY <1>1 DEF Sequential, OneAtATime, OnLastPacket, EntryExact, ValueExact, NoneMissed

\* A step of CPU c for flow f leaves alone what is said of the other flows.
LEMMA OtherFlows ==
  ASSUME FeaturesInv, NEW c \in CPUs, NEW f \in Flows, NEW r, cpu' = [cpu EXCEPT ![c] = r],
         cpu[c].pc = "idle" \/ cpu[c].flow = f, r.pc = "idle" \/ r.flow = f,
         NEW g \in Flows \ {f}, g \notin raced,
         hist'[g] = hist[g], sent'[g] = sent[g], g \in Tracked' <=> g \in Tracked,
         g \in Tracked => flow_map'[g] = flow_map[g],
         Tracked' = Tracked \/ Cardinality(Tracked) < MaxEntries
  PROVE  Sequential(g)'
  <1>1. cpu'[c] = r /\ \A d \in CPUs \ {c} : cpu'[d] = cpu[d]
    BY DEF FeaturesInv, TypeInv, TypeOK
  <1>2. Busy(g)' = Busy(g) /\ \A d \in Busy(g) : cpu'[d] = cpu[d] /\ d \in CPUs
    BY <1>1 DEF Busy
  <1>3. Sequential(g)
    BY DEF FeaturesInv
  <1>4. \A i \in 1 .. 6 : Included(g, i)' = Included(g, i)
    BY <1>2 DEF Included, Passed, Updating
  <1>5. \A k : Bytes(g, k)' = Bytes(g, k)
    BY DEF Bytes
  <1>6. OneAtATime(g)' /\ OnLastPacket(g)' /\ ValueExact(g)'
    <2>1. \A d \in Busy(g) : cpu[d].pc = "compare" => g \in Tracked
      BY <1>2 DEF Busy, FeaturesInv, TypeInv, FoundEntry, Updating
    <2> QED
      BY <1>2, <1>3, <2>1 DEF Sequential, OneAtATime, OnLastPacket, ValueExact
  <1>7. EntryExact(g)'
    BY <1>3, <1>4, <1>5 DEF Sequential, EntryExact
  <1>8. NoneMissed(g)'
    BY <1>2, <1>3 DEF Sequential, NoneMissed
  <1> QED
    BY <1>6, <1>7, <1>8 DEF Sequential

\* Who is busy with f once c, and nobody else, has been or could be.
LEMMA BusyAfter ==
  ASSUME FeaturesInv, NEW c \in CPUs, NEW f \in Flows, Busy(f) \subseteq {c},
         NEW r, cpu' = [cpu EXCEPT ![c] = r], r.pc = "idle" \/ r.flow = f
  PROVE  /\ cpu'[c] = r
         /\ Busy(f)' = IF r.pc = "idle" THEN {} ELSE {c}
  <1>1. cpu'[c] = r /\ \A d \in CPUs \ {c} : cpu'[d] = cpu[d]
    BY DEF FeaturesInv, TypeInv, TypeOK
  <1> QED
    BY <1>1 DEF Busy

\* The only CPU that handles the flow f of its packet.
LEMMA Alone ==
  ASSUME FeaturesInv, NEW c \in CPUs, cpu[c].pc # "idle", cpu[c].flow \notin raced
  PROVE  LET f == cpu[c].flow
         IN  /\ f \in Flows /\ Sequential(f) /\ Busy(f) = {c}
             /\ Len(hist[f]) >= 1 /\ cpu[c].pkt = hist[f][Len(hist[f])]
             /\ \A i : Included(f, i) = IF Passed(c, i) THEN Len(hist[f]) ELSE Len(hist[f]) - 1
  <1> DEFINE f == cpu[c].flow
  <1>1. f \in Flows
    BY CPUTyped DEF FeaturesInv, CPUState
  <1>2. Sequential(f)
    BY <1>1 DEF FeaturesInv
  <1>3. Busy(f) = {c}
    BY <1>2 DEF Sequential, OneAtATime, Busy
  <1> QED
    BY <1>1, <1>2, <1>3 DEF Sequential, OnLastPacket, Included

\* Of the history of f: a sequence of packets that fits.
LEMMA HistoryTyped ==
  ASSUME FeaturesInv, NEW f \in Flows
  PROVE  /\ hist[f] \in Seq(Packets) /\ Len(hist[f]) \in Nat /\ Ordered(hist[f])
         /\ Len(hist[f]) < Word /\ sent[f] \in 0 .. Word - 1
         /\ \A i \in 1 .. Len(hist[f]) : hist[f][i] \in Packets
  <1>1. hist[f] \in Seq(Packets) /\ sent[f] \in 0 .. Word - 1
    BY DEF FeaturesInv, TypeInv, TypeOK
  <1>2. Ordered(hist[f]) /\ Len(hist[f]) <= MaxPackets
    BY DEF FeaturesInv, TypeInv, HistoryOK
  <1>3. Len(hist[f]) \in Nat
    BY <1>1
  <1>4. Len(hist[f]) < Word
    BY <1>2, <1>3, Bounds
  <1> QED
    BY <1>1, <1>2, <1>3, <1>4

\* A packet arrives.
LEMMA ReceiveSequential ==
  ASSUME FeaturesInv, NEW c \in CPUs, NEW f \in Flows, Receive(c, f)
  PROVE  \A g \in Flows \ raced' : Sequential(g)'
  <1>1. PICK p \in Packets, r \in CPUState :
          /\ r.pc = "lookup" /\ r.flow = f /\ r.field = 1 /\ r.pkt = p
          /\ cpu' = [cpu EXCEPT ![c] = r]
          /\ now <= p.time /\ now' = p.time
          /\ hist' = [hist EXCEPT ![f] = Append(@, p)]
          /\ sent' = [sent EXCEPT ![f] = @ + 4 * p.doff]
          /\ raced' = IF Busy(f) = {} THEN raced ELSE raced \cup {f}
          /\ flow_map' = flow_map
    BY ReceiveIs DEF FeaturesInv
  <1>k. PICK k \in Nat : k = Len(hist[f])
    BY HistoryTyped
  <1> DEFINE h == hist[f]
  <1>2. /\ hist'[f] = Append(h, p) /\ sent'[f] = sent[f] + 4 * p.doff
        /\ \A g \in Flows \ {f} : hist'[g] = hist[g] /\ sent'[g] = sent[g]
    BY <1>1 DEF FeaturesInv, TypeInv, TypeOK
  <1>3. Tracked' = Tracked /\ cpu[c].pc = "idle"
    BY <1>1 DEF Tracked, Receive
  <1>4. ASSUME NEW g \in Flows \ {f}, g \notin raced' PROVE Sequential(g)'
    BY <1>1, <1>2, <1>3, <1>4, OtherFlows
  <1>5. ASSUME f \notin raced' PROVE Sequential(f)'
    <2>1. f \notin raced /\ Busy(f) = {} /\ Sequential(f)
      BY <1>1, <1>5 DEF FeaturesInv
    <2>2. cpu'[c] = r /\ Busy(f)' = {c}
      BY <1>1, <2>1, BusyAfter
    <2>3. /\ h \in Seq(Packets) /\ k \in Nat /\ Len(Append(h, p)) = k + 1
          /\ Append(h, p)[k + 1] = p /\ sent[f] \in Int /\ p.doff \in Int
      <3>1. h \in Seq(Packets) /\ sent[f] \in 0 .. Word - 1
        BY HistoryTyped
      <3>2. sent[f] \in Int
        BY <3>1, Bounds
      <3>3. p.doff \in Int
        BY PacketTyped
      <3> QED
        BY <1>k, <3>1, <3>2, <3>3
    <2>4. /\ Len(hist'[f]) = k + 1 /\ hist'[f][k + 1] = p
          /\ \A i : Included(f, i)' = k
      BY <1>1, <1>2, <2>2, <2>3 DEF Included, Passed, Updating
    <2>5. Bytes(f, k)' = sent[f]
      BY <1>2, <2>3, <2>4 DEF Bytes
    <2>6. OneAtATime(f)' /\ OnLastPacket(f)' /\ ValueExact(f)'
      BY <1>1, <2>2, <2>3, <2>4 DEF OneAtATime, OnLastPacket, ValueExact
    <2>7. NoneMissed(f)'
      BY <1>k, <1>3, <2>1, <2>2, <2>4 DEF Sequential, NoneMissed
    <2>8. ASSUME f \in Tracked PROVE EntryExact(f)'
      <3>1. k >= 1 /\ \A i \in 1 .. 6 : ExactAs(Fields[i], flow_map[f][Fields[i]], h, k, sent[f])
        BY <1>k, <2>1, <2>8 DEF Sequential, EntryExact, Included, Bytes
      <3>2. \A i \in 1 .. 6 : Fields[i] \in FieldNames /\ flow_map[f][Fields[i]] \in Int
        BY <2>8, Names, EntryTyped, Bounds DEF FeaturesInv
      <3>3. \A i \in 1 .. 6 : ExactAs(Fields[i], flow_map[f][Fields[i]], Append(h, p), k, sent[f])
        BY <1>k, <2>3, <3>1, <3>2, StillExact
      <3>4. \A i \in 1 .. 6 : Included(f, i)' = k /\ Bytes(f, Included(f, i))' = sent[f]
        BY <2>4, <2>5 DEF Bytes
      <3> QED
        BY <1>1, <1>2, <2>3, <2>4, <3>3, <3>4 DEF EntryExact
    <2>9. f \notin Tracked => EntryExact(f)'
      BY <1>3 DEF EntryExact
    <2> QED
      BY <2>6, <2>7, <2>8, <2>9 DEF Sequential
  <1> QED
    BY <1>4, <1>5

\* The first lookup.
LEMMA LookupSequential ==
  ASSUME FeaturesInv, NEW c \in CPUs, Lookup(c)
  PROVE  \A g \in Flows \ raced' : Sequential(g)'
  <1>f. PICK f \in Flows : f = cpu[c].flow
    BY CPUTyped DEF FeaturesInv, CPUState
  <1> DEFINE r == [cpu[c] EXCEPT !.pc = IF f \in Tracked THEN "load" ELSE "insert"]
  <1>1. /\ cpu[c].pc = "lookup" /\ cpu' = [cpu EXCEPT ![c] = r]
        /\ UNCHANGED <<flow_map, now, hist, sent, raced>> /\ Tracked' = Tracked
    BY <1>f DEF Lookup, Tracked
  <1>2. /\ r.flow = f /\ r.field = 1 /\ r.pkt = cpu[c].pkt
        /\ r.pc = IF f \in Tracked THEN "load" ELSE "insert"
    BY <1>f, <1>1, CPUTyped DEF FeaturesInv, TypeInv, FoundEntry, CPUState
  <1> HIDE DEF r
  <1>3. ASSUME NEW g \in Flows \ {f}, g \notin raced PROVE Sequential(g)'
    BY <1>f, <1>1, <1>2, <1>3, OtherFlows
  <1>4. ASSUME f \notin raced PROVE Sequential(f)'
    <2>1. /\ Sequential(f) /\ Busy(f) = {c}
          /\ Len(hist[f]) >= 1 /\ cpu[c].pkt = hist[f][Len(hist[f])]
          /\ \A i : Included(f, i) = IF Passed(c, i) THEN Len(hist[f]) ELSE Len(hist[f]) - 1
      BY <1>f, <1>1, <1>4, Alone
    <2>2. cpu'[c] = r /\ Busy(f)' = {c}
      BY <1>f, <1>1, <1>2, <2>1, BusyAfter
    <2>3. \A i \in 1 .. 6 : Included(f, i)' = Included(f, i)
      BY <1>1, <1>2, <2>1, <2>2 DEF Included, Passed, Updating
    <2>4. \A k : Bytes(f, k)' = Bytes(f, k)
      BY <1>1 DEF Bytes
    <2>5. EntryExact(f)'
      BY <1>1, <2>1, <2>3, <2>4 DEF Sequential, EntryExact
    <2>6. OneAtATime(f)' /\ OnLastPacket(f)' /\ ValueExact(f)'
      BY <1>1, <1>2, <2>1, <2>2 DEF OneAtATime, OnLastPacket, ValueExact
    <2>7. NoneMissed(f)'
      BY <1>1, <2>1, <2>2 DEF Sequential, NoneMissed
    <2> QED
      BY <2>5, <2>6, <2>7 DEF Sequential
  <1> QED
    BY <1>1, <1>3, <1>4

\* The insert: it is the first packet of the flow, or the table is full.
LEMMA InsertSequential ==
  ASSUME FeaturesInv, NEW c \in CPUs, Insert(c)
  PROVE  \A g \in Flows \ raced' : Sequential(g)'
  <1>f. PICK f \in Flows : f = cpu[c].flow
    BY CPUTyped DEF FeaturesInv, CPUState
  <1> DEFINE made == f \notin Tracked /\ Cardinality(Tracked) < MaxEntries
             r == IF f \in Tracked' THEN [cpu[c] EXCEPT !.pc = "load"] ELSE NoPacket
  <1>1. /\ cpu[c].pc = "insert" /\ cpu[c].pkt \in Packets
        /\ IF made THEN /\ Tracked' = Tracked \cup {f}
                        /\ flow_map'[f] = InitialAttribute(cpu[c].pkt.time)
                        /\ \A g \in Tracked : flow_map'[g] = flow_map[g]
                   ELSE flow_map' = flow_map /\ Tracked' = Tracked
        /\ cpu' = [cpu EXCEPT ![c] = r]
        /\ UNCHANGED <<now, hist, sent, raced>>
    BY <1>f, InsertIs DEF FeaturesInv
  <1>2. IF f \in Tracked' THEN /\ r.pc = "load" /\ r.flow = f /\ r.field = 1
                               /\ r.pkt = cpu[c].pkt
                          ELSE r.pc = "idle"
    BY <1>f, <1>1, CPUTyped, NoPacketTyped DEF FeaturesInv, TypeInv, FoundEntry, CPUState
  <1> HIDE DEF r
  <1>3. ASSUME NEW g \in Flows \ {f}, g \notin raced PROVE Sequential(g)'
    BY <1>f, <1>1, <1>2, <1>3, OtherFlows
  <1>4. ASSUME f \notin raced PROVE Sequential(f)'
    <2>1. /\ Sequential(f) /\ Busy(f) = {c}
          /\ Len(hist[f]) >= 1 /\ cpu[c].pkt = hist[f][Len(hist[f])]
      BY <1>f, <1>1, <1>4, Alone
    <2>2. f \notin Tracked
      BY <1>1, <2>1 DEF Sequential, OnLastPacket
    <2>3. cpu'[c] = r /\ Busy(f)' = IF r.pc = "idle" THEN {} ELSE {c}
      BY <1>1, <1>2, <2>1, BusyAfter
    <2>4. CASE made
      <3>1. f \in Tracked' /\ Busy(f)' = {c} /\ r.pc = "load" /\ r.field = 1
        BY <1>1, <1>2, <2>3, <2>4
      <3>2. Len(hist[f]) = 1
        BY <2>1, <2>4 DEF Sequential, NoneMissed
      <3>3. /\ hist[f] \in Seq(Packets) /\ hist[f][1].doff \in Int
            /\ sent[f] = 4 * hist[f][1].doff
        <4>1. hist[f] \in Seq(Packets) /\ hist[f][1] \in Packets
          BY <3>2, HistoryTyped
        <4>2. sent[f] = 4 * hist[f][1].doff
          BY <3>2 DEF FeaturesInv, TypeInv, HistoryOK
        <4>3. hist[f][1].doff \in 0 .. 15
          BY <4>1, PacketTyped
        <4> QED
          BY <4>1, <4>2, <4>3
      <3>4. \A i \in 1 .. 6 : Included(f, i)' = 0
        BY <1>1, <2>3, <3>1, <3>2 DEF Included, Passed, Updating
      <3>5. Bytes(f, 0)' = 0
        BY <1>1, <3>2, <3>3 DEF Bytes
      <3>6. flow_map'[f] = InitialAttribute(hist[f][1].time)
        BY <1>1, <2>1, <2>4, <3>2
      <3>7. \A i \in 1 .. 6 : ExactAs(Fields[i], flow_map'[f][Fields[i]], hist[f], 0, 0)
        BY <3>3, <3>6, FreshExact, Names
      <3>8. EntryExact(f)'
        BY <1>1, <3>2, <3>4, <3>5, <3>7 DEF EntryExact
      <3>9. OneAtATime(f)' /\ OnLastPacket(f)' /\ ValueExact(f)' /\ NoneMissed(f)'
        BY <1>1, <1>2, <2>1, <2>3, <3>1 DEF OneAtATime, OnLastPacket, ValueExact, NoneMissed
      <3> QED
        BY <3>8, <3>9 DEF Sequential
    <2>5. CASE ~made
      <3>1. Tracked' = Tracked /\ Busy(f)' = {} /\ ~(Cardinality(Tracked) < MaxEntries)
        BY <1>1, <1>2, <2>2, <2>3, <2>5
      <3> QED
        BY <2>2, <3>1 DEF Sequential, OneAtATime, OnLastPacket, EntryExact, ValueExact,
                          NoneMissed
    <2> QED
      BY <2>4, <2>5
  <1> QED
    BY <1>1, <1>3, <1>4

\* By NewExact the value computed is exact with the packet.
LEMMA ChooseSequential ==
  ASSUME FeaturesInv, NEW c \in CPUs, NEW f \in Flows, NEW n \in 1 .. 6, NEW new,
         Chooses(c, f, n, new),
         f \notin raced => new = NewValue(Fields[n], flow_map[f], cpu[c].pkt)
  PROVE  \A g \in Flows \ raced' : Sequential(g)'
  <1> DEFINE s == ToStore(cpu[c], new)
             t == NextField(cpu[c])
  <1>f. f = cpu[c].flow /\ n = cpu[c].field
    BY DEF Chooses
  <1>1. /\ cpu[c].pc \in {"load", "compare"} /\ f \in Tracked /\ new \in 0 .. Word - 1
        /\ \/ cpu' = [cpu EXCEPT ![c] = s]
           \/ new = flow_map[f][Fields[n]] /\ n # 6 /\ cpu' = [cpu EXCEPT ![c] = t]
        /\ UNCHANGED <<flow_map, now, hist, sent, raced>>
        /\ cpu[c] \in CPUState
    BY DEF Chooses
  <1>2. /\ s.pc = "store" /\ s.flow = f /\ s.field = n /\ s.value = new /\ s.pkt = cpu[c].pkt
        /\ t.pc = "load" /\ t.flow = f /\ t.field = n + 1 /\ t.pkt = cpu[c].pkt
    BY <1>f, <1>1, Goes
  <1> HIDE DEF s, t
  <1>3. Tracked' = Tracked
    BY <1>1 DEF Tracked
  <1>4. ASSUME NEW g \in Flows \ {f}, g \notin raced PROVE Sequential(g)'
    <2>1. cpu' = [cpu EXCEPT ![c] = s] => Sequential(g)'
      BY <1>f, <1>1, <1>2, <1>3, <1>4, OtherFlows
    <2>2. cpu' = [cpu EXCEPT ![c] = t] => Sequential(g)'
      BY <1>f, <1>1, <1>2, <1>3, <1>4, OtherFlows
    <2> QED
      BY <1>1, <2>1, <2>2
  <1>5. ASSUME f \notin raced PROVE Sequential(f)'
    <2>k. PICK k \in Nat : k = Len(hist[f])
      BY HistoryTyped
    <2>1. /\ Sequential(f) /\ Busy(f) = {c}
          /\ k >= 1 /\ cpu[c].pkt = hist[f][k]
          /\ \A i : Included(f, i) = IF Passed(c, i) THEN k ELSE k - 1
      <3>1. cpu[c].pc # "idle" /\ cpu[c].flow \notin raced
        BY <1>f, <1>1, <1>5
      <3> QED
        BY <1>f, <2>k, <3>1, Alone
    <2>2. \A i \in 1 .. 6 : Passed(c, i) <=> i < n
      BY <1>f, <1>1 DEF Passed, Updating
    <2>3. Bytes(f, k) = sent[f] /\ Bytes(f, k - 1) = sent[f] - 4 * hist[f][k].doff
      BY <2>k DEF Bytes
    <2>4. \A i \in 1 .. 6 : i >= n =>
            ExactAs(Fields[i], flow_map[f][Fields[i]], hist[f], k - 1,
                    sent[f] - 4 * hist[f][k].doff)
      BY <1>1, <2>1, <2>2, <2>3 DEF Sequential, EntryExact
    <2>5. ExactAs(Fields[n], new, hist[f], k, sent[f])
      <3>1. Fields[n] = "max_duration" =>
              ExactAs("last_packet_time", flow_map[f].last_packet_time, hist[f], k - 1, 0)
        <4>1. Fields[n] = "max_duration" => n = 4
          BY DEF Fields
        <4>2. Fields[5] = "last_packet_time"
          BY DEF Fields
        <4>3. n = 4 => ExactAs("last_packet_time", flow_map[f].last_packet_time, hist[f], k - 1,
                               sent[f] - 4 * hist[f][k].doff)
          BY <2>4, <4>2
        <4> QED
          BY <4>1, <4>3 DEF ExactAs
      <3>2. flow_map[f] \in [FieldNames -> 0 .. Word - 1] /\ Fields[n] \in FieldNames
        BY <1>1, EntryTyped, Names DEF FeaturesInv
      <3>3. /\ hist[f] \in Seq(Packets) /\ Ordered(hist[f]) /\ k < Word
            /\ sent[f] \in 0 .. Word - 1
        BY <2>k, HistoryTyped
      <3>4. ExactAs(Fields[n], flow_map[f][Fields[n]], hist[f], k - 1,
                    sent[f] - 4 * hist[f][k].doff)
        BY <2>4
      <3>5. ExactAs(Fields[n], NewValue(Fields[n], flow_map[f], hist[f][k]), hist[f], k, sent[f])
        BY <2>k, <2>1, <3>1, <3>2, <3>3, <3>4, NewExact
      <3> QED
        BY <1>5, <2>1, <3>5
    <2>6. \A i : Bytes(f, i)' = Bytes(f, i)
      BY <1>1 DEF Bytes
    <2>7. CASE cpu' = [cpu EXCEPT ![c] = s]
      <3>1. cpu'[c] = s /\ Busy(f)' = {c}
        BY <1>2, <2>1, <2>7, BusyAfter
      <3>2. \A i \in 1 .. 6 : Included(f, i)' = Included(f, i)
        BY <1>1, <1>2, <2>k, <2>1, <2>2, <3>1 DEF Included, Passed, Updating
      <3>3. EntryExact(f)'
        BY <1>1, <1>3, <2>1, <2>6, <3>2 DEF Sequential, EntryExact
      <3>4. ValueExact(f)'
        BY <1>1, <1>2, <2>k, <2>5, <3>1 DEF ValueExact
      <3>5. OneAtATime(f)' /\ OnLastPacket(f)' /\ NoneMissed(f)'
        BY <1>1, <1>2, <1>3, <2>k, <2>1, <3>1 DEF OneAtATime, OnLastPacket, NoneMissed
      <3> QED
        BY <3>3, <3>4, <3>5 DEF Sequential
    <2>8. CASE new = flow_map[f][Fields[n]] /\ cpu' = [cpu EXCEPT ![c] = t]
      <3>1. cpu'[c] = t /\ Busy(f)' = {c}
        BY <1>2, <2>1, <2>8, BusyAfter
      <3>2. \A i \in 1 .. 6 : Included(f, i)' = IF i = n THEN k ELSE Included(f, i)
        BY <1>1, <1>2, <2>k, <2>1, <2>2, <3>1 DEF Included, Passed, Updating
      <3>3. EntryExact(f)'
        <4>1. ASSUME NEW i \in 1 .. 6
              PROVE ExactAs(Fields[i], flow_map[f][Fields[i]], hist[f], Included(f, i)',
                            Bytes(f, Included(f, i)'))
          <5>1. CASE i = n
            BY <2>3, <2>5, <2>8, <3>2, <5>1
          <5>2. CASE i # n
            BY <1>1, <2>1, <3>2, <5>2 DEF Sequential, EntryExact
          <5> QED
            BY <5>1, <5>2
        <4> QED
          BY <1>1, <2>k, <2>1, <2>6, <4>1 DEF EntryExact
      <3>4. OneAtATime(f)' /\ OnLastPacket(f)' /\ ValueExact(f)' /\ NoneMissed(f)'
        BY <1>1, <1>2, <1>3, <2>k, <2>1, <3>1
           DEF OneAtATime, OnLastPacket, ValueExact, NoneMissed
      <3> QED
        BY <3>3, <3>4 DEF Sequential
    <2> QED
      BY <1>1, <2>7, <2>8
  <1> QED
    BY <1>1, <1>4, <1>5

LEMMA LoadSequential ==
  ASSUME FeaturesInv, NEW c \in CPUs, Load(c)
  PROVE  \A g \in Flows \ raced' : Sequential(g)'
  <1>1. Chooses(c, cpu[c].flow, cpu[c].field,
                NewValue(Fields[cpu[c].field], flow_map[cpu[c].flow], cpu[c].pkt))
    BY LoadIs DEF FeaturesInv
  <1>2. cpu[c].flow \in Flows /\ cpu[c].field \in 1 .. 6
    BY <1>1 DEF Chooses
  <1> QED
    BY <1>1, <1>2, ChooseSequential

\* The comparison is with the time loaded before: nobody else has stored one since.
LEMMA CompareChooses ==
  ASSUME FeaturesInv, NEW c \in CPUs, Compare(c), cpu[c].flow \notin raced
  PROVE  Greater(cpu[c].value, flow_map[cpu[c].flow].max_duration)
         = NewValue(Fields[4], flow_map[cpu[c].flow], cpu[c].pkt)
  <1>1. cpu[c].pc = "compare"
    BY DEF Compare
  <1>2. cpu[c].value = Duration(flow_map[cpu[c].flow], cpu[c].pkt)
    BY <1>1, Alone DEF Sequential, ValueExact
  <1>3. Fields[4] = "max_duration"
    BY DEF Fields
  <1> QED
    BY <1>2, <1>3 DEF NewValue

LEMMA CompareSequential ==
  ASSUME FeaturesInv, NEW c \in CPUs, Compare(c)
  PROVE  \A g \in Flows \ raced' : Sequential(g)'
  <1>1. Chooses(c, cpu[c].flow, 4, Greater(cpu[c].value, flow_map[cpu[c].flow].max_duration))
    BY CompareIs DEF FeaturesInv
  <1>2. cpu[c].flow \in Flows /\ 4 \in 1 .. 6
    BY <1>1 DEF Chooses
  <1> QED
    BY <1>1, <1>2, CompareChooses, ChooseSequential

\* The load of last_packet_time.
LEMMA LoadTimeSequential ==
  ASSUME FeaturesInv, NEW c \in CPUs, LoadTime(c)
  PROVE  \A g \in Flows \ raced' : Sequential(g)'
  <1>f. PICK f \in Flows : f = cpu[c].flow
    BY CPUTyped DEF FeaturesInv, CPUState
  <1> DEFINE r == [cpu[c] EXCEPT !.pc = "compare", !.value = Duration(flow_map[f], cpu[c].pkt)]
  <1>1. /\ cpu[c].pc = "load" /\ f \in Tracked /\ cpu[c].field = 4
        /\ cpu' = [cpu EXCEPT ![c] = r]
        /\ r.pc = "compare" /\ r.flow = f /\ r.field = 4 /\ r.pkt = cpu[c].pkt
        /\ r.value = Duration(flow_map[f], cpu[c].pkt)
        /\ UNCHANGED <<flow_map, now, hist, sent, raced>>
    BY <1>f, LoadTimeIs DEF FeaturesInv
  <1> HIDE DEF r
  <1>2. Tracked' = Tracked
    BY <1>1 DEF Tracked
  <1>3. ASSUME NEW g \in Flows \ {f}, g \notin raced PROVE Sequential(g)'
    BY <1>f, <1>1, <1>2, <1>3, OtherFlows
  <1>4. ASSUME f \notin raced PROVE Sequential(f)'
    <2>1. /\ Sequential(f) /\ Busy(f) = {c}
          /\ Len(hist[f]) >= 1 /\ cpu[c].pkt = hist[f][Len(hist[f])]
          /\ \A i : Included(f, i) = IF Passed(c, i) THEN Len(hist[f]) ELSE Len(hist[f]) - 1
      BY <1>f, <1>1, <1>4, Alone
    <2>2. cpu'[c] = r /\ Busy(f)' = {c}
      BY <1>f, <1>1, <2>1, BusyAfter
    <2>3. \A i \in 1 .. 6 : Included(f, i)' = Included(f, i)
      BY <1>1, <2>1, <2>2 DEF Included, Passed, Updating
    <2>4. \A k : Bytes(f, k)' = Bytes(f, k)
      BY <1>1 DEF Bytes
    <2>5. EntryExact(f)'
      BY <1>1, <1>2, <2>1, <2>3, <2>4 DEF Sequential, EntryExact
    <2>6. OneAtATime(f)' /\ OnLastPacket(f)' /\ ValueExact(f)'
      BY <1>1, <1>2, <2>1, <2>2 DEF OneAtATime, OnLastPacket, ValueExact
    <2>7. NoneMissed(f)'
      BY <1>1, <1>2, <2>1, <2>2 DEF Sequential, NoneMissed
    <2> QED
      BY <2>5, <2>6, <2>7 DEF Sequential
  <1> QED
    BY <1>1, <1>3, <1>4

\* A store: the field now accounts for the packet, and after the last one the entry does.
LEMMA StoreSequential ==
  ASSUME FeaturesInv, NEW c \in CPUs, Store(c)
  PROVE  \A g \in Flows \ raced' : Sequential(g)'
  <1>f. PICK f \in Flows, n \in 1 .. 6 : f = cpu[c].flow /\ n = cpu[c].field
    BY CPUTyped DEF FeaturesInv, CPUState
  <1> DEFINE r == IF n = 6 THEN NoPacket ELSE NextField(cpu[c])
  <1>1. /\ cpu[c].pc = "store" /\ f \in Tracked /\ Fields[n] \in FieldNames
        /\ Tracked' = Tracked
        /\ flow_map'[f] = [flow_map[f] EXCEPT ![Fields[n]] = cpu[c].value]
        /\ \A g \in Tracked \ {f} : flow_map'[g] = flow_map[g]
        /\ cpu' = [cpu EXCEPT ![c] = r]
        /\ UNCHANGED <<now, hist, sent, raced>>
    BY <1>f, StoreIs DEF FeaturesInv
  <1>2. IF n = 6 THEN r.pc = "idle"
                 ELSE r.pc = "load" /\ r.flow = f /\ r.field = n + 1 /\ r.pkt = cpu[c].pkt
    BY <1>f, CPUTyped, NoPacketTyped DEF FeaturesInv, CPUState, NextField
  <1> HIDE DEF r
  <1>3. ASSUME NEW g \in Flows \ {f}, g \notin raced PROVE Sequential(g)'
    BY <1>f, <1>1, <1>2, <1>3, OtherFlows
  <1>4. ASSUME f \notin raced PROVE Sequential(f)'
    <2>k. PICK k \in Nat : k = Len(hist[f])
      BY HistoryTyped
    <2>1. /\ Sequential(f) /\ Busy(f) = {c}
          /\ k >= 1 /\ cpu[c].pkt = hist[f][k]
          /\ \A i : Included(f, i) = IF Passed(c, i) THEN k ELSE k - 1
      BY <1>f, <1>1, <1>4, <2>k, Alone
    <2>2. \A i \in 1 .. 6 : Passed(c, i) <=> i < n
      BY <1>f, <1>1 DEF Passed, Updating
    <2>3. cpu'[c] = r /\ Busy(f)' = IF n = 6 THEN {} ELSE {c}
      <3>1. r.pc = "idle" \/ r.flow = f
        BY <1>2
      <3>2. cpu'[c] = r /\ Busy(f)' = IF r.pc = "idle" THEN {} ELSE {c}
        BY <1>1, <2>1, <3>1, BusyAfter
      <3>3. r.pc = "idle" <=> n = 6
        BY <1>2
      <3> QED
        BY <3>2, <3>3
    <2>4. \A i \in 1 .. 6 : Included(f, i)' = IF i = n THEN k ELSE Included(f, i)
      <3>1. CASE n = 6
        BY <1>1, <2>k, <2>1, <2>2, <2>3, <3>1 DEF Included
      <3>2. CASE n # 6
        BY <1>1, <1>2, <2>k, <2>1, <2>2, <2>3, <3>2 DEF Included, Passed, Updating
      <3> QED
        BY <3>1, <3>2
    <2>5. \A i : Bytes(f, i)' = Bytes(f, i)
      BY <1>1 DEF Bytes
    <2>6. Bytes(f, k) = sent[f]
      BY <2>k DEF Bytes
    <2>7. ExactAs(Fields[n], cpu[c].value, hist[f], k, sent[f])
      BY <1>f, <1>1, <2>k, <2>1 DEF Sequential, ValueExact
    <2>8. /\ flow_map'[f][Fields[n]] = cpu[c].value
          /\ \A i \in 1 .. 6 : i # n => flow_map'[f][Fields[i]] = flow_map[f][Fields[i]]
      BY <1>1, EntryTyped, Names DEF FeaturesInv
    <2>9. EntryExact(f)'
      <3>1. ASSUME NEW i \in 1 .. 6
            PROVE ExactAs(Fields[i], flow_map'[f][Fields[i]], hist[f], Included(f, i)',
                          Bytes(f, Included(f, i)'))
        <4>1. CASE i = n
          BY <2>4, <2>6, <2>7, <2>8, <4>1
        <4>2. CASE i # n
          BY <1>1, <2>1, <2>4, <2>8, <4>2 DEF Sequential, EntryExact
        <4> QED
          BY <4>1, <4>2
      <3> QED
        BY <1>1, <2>k, <2>1, <2>5, <3>1 DEF EntryExact
    <2>10. OneAtATime(f)' /\ OnLastPacket(f)' /\ ValueExact(f)' /\ NoneMissed(f)'
      BY <1>1, <1>2, <2>k, <2>1, <2>3
         DEF OneAtATime, OnLastPacket, ValueExact, NoneMissed
    <2> QED
      BY <2>9, <2>10 DEF Sequential
  <1> QED
    BY <1>1, <1>3, <1>4

LEMMA FeaturesStep == FeaturesInv /\ [Next]_vars => FeaturesInv'
  <1> SUFFICES ASSUME FeaturesInv, [Next]_vars PROVE FeaturesInv'
    OBVIOUS
  <1>1. TypeInv'
    BY TypeStep DEF FeaturesInv
  <1>2. ASSUME UNCHANGED vars, NEW f \in Flows \ raced PROVE Sequential(f)'
    <2>1. Sequential(f) /\ Tracked' = Tracked /\ Busy(f)' = Busy(f)
      BY <1>2 DEF FeaturesInv, Tracked, Busy, vars
    <2>2. /\ \A i : Included(f, i)' = Included(f, i)
          /\ \A k : Bytes(f, k)' = Bytes(f, k)
      BY <1>2, <2>1 DEF Included, Passed, Bytes, vars
    <2>3. EntryExact(f)'
      BY <1>2, <2>1, <2>2 DEF Sequential, EntryExact, vars
    <2>4. OneAtATime(f)' /\ OnLastPacket(f)' /\ ValueExact(f)' /\ NoneMissed(f)'
      BY <1>2, <2>1 DEF Sequential, OneAtATime, OnLastPacket, ValueExact, NoneMissed, vars
    <2> QED
      BY <2>3, <2>4 DEF Sequential
  <1>3. UNCHANGED vars => FeaturesInv'
    BY <1>1, <1>2 DEF FeaturesInv, vars
  <1>4. ASSUME Next PROVE \A f \in Flows \ raced' : Sequential(f)'
    BY <1>4, ReceiveSequential, LookupSequential, InsertSequential, LoadSequential,
       LoadTimeSequential, CompareSequential, StoreSequential DEF Next, Step
  <1> QED
    BY <1>1, <1>3, <1>4 DEF FeaturesInv

\* Between packets the fields of an exact entry are what common.h documents.
LEMMA ExactFollows == FeaturesInv => FeaturesExact
  <1> SUFFICES ASSUME FeaturesInv, NEW f \in Tracked \ raced, Busy(f) = {}
               PROVE  ExactCount(f) /\ ExactLengths(f) /\ ExactDuration(f) /\ ExactHeaders(f)
    BY DEF FeaturesExact
  <1> DEFINE h == hist[f]
             k == Len(hist[f])
             a == flow_map[f]
  <1>1. f \in Flows
    BY DEF FeaturesInv, TypeInv, TypeOK
  <1>2. k >= 1 /\ \A i \in 1 .. 6 : ExactAs(Fields[i], a[Fields[i]], h, k, sent[f])
    BY <1>1 DEF FeaturesInv, Sequential, EntryExact, Included, Bytes
  <1>3. h \in Seq(Packets) /\ k \in Nat /\ \A i \in 1 .. k : h[i] \in Packets
    BY <1>1, HistoryTyped
  <1>4. /\ ExactAs("num_packet", a.num_packet, h, k, sent[f])
        /\ ExactAs("min_packet_length", a.min_packet_length, h, k, sent[f])
        /\ ExactAs("max_packet_length", a.max_packet_length, h, k, sent[f])
        /\ ExactAs("max_duration", a.max_duration, h, k, sent[f])
        /\ ExactAs("header_length", a.header_length, h, k, sent[f])
    <2>1. /\ Fields[1] = "num_packet" /\ Fields[2] = "min_packet_length"
          /\ Fields[3] = "max_packet_length" /\ Fields[4] = "max_duration"
          /\ Fields[6] = "header_length"
      BY DEF Fields
    <2> HIDE DEF a, h, k
    <2> QED
      BY <1>2, <2>1
  <1>5. ExactCount(f) /\ ExactHeaders(f)
    BY <1>4 DEF ExactAs, ExactCount, ExactHeaders
  <1>6. ExactLengths(f)
    <2> DEFINE P == Payloads(h)  lo == a.min_packet_length  hi == a.max_packet_length
    <2>1. /\ lo <= Word \div 4 - 1 /\ \A i \in 1 .. k : lo <= h[i].len
          /\ lo = Word \div 4 - 1 \/ \E i \in 1 .. k : lo = h[i].len
          /\ \A i \in 1 .. k : h[i].len <= hi
          /\ hi = 0 \/ \E i \in 1 .. k : hi = h[i].len
      BY <1>4 DEF ExactAs
    <2>2. /\ \A len \in Lens(h) : /\ len \in 0 .. Word - 1 /\ lo <= len /\ len <= hi
                                  /\ s64(len) >= 0 <=> len <= Word \div 4 - 1
          /\ lo = Word \div 4 - 1 \/ lo \in Lens(h)
          /\ hi = 0 \/ hi \in Lens(h)
      <3>1. \A i \in 1 .. k : /\ h[i].len \in 0 .. Word - 1
                              /\ s64(h[i].len) >= 0 <=> h[i].len <= Word \div 4 - 1
        BY <1>3, LengthsFit DEF Packets
      <3> QED
        BY <2>1, <3>1 DEF Lens
    <2>3. lo \in Int /\ hi \in Int /\ Word \div 4 - 1 \in Int
      BY EntryTyped, Names, Bounds, FeaturesAssumption DEF FeaturesInv
    <2>4. P = {len \in Lens(h) : len <= Word \div 4 - 1}
      BY <2>2 DEF Payloads
    <2>5. ASSUME P # {} PROVE IsMin(lo, P)
      <3>1. PICK len \in P : TRUE
        BY <2>5
      <3>2. lo \in Lens(h)
        BY <2>1, <2>2, <2>3, <2>4, <3>1, Bounds
      <3> HIDE DEF lo, P
      <3> QED
        BY <2>1, <2>2, <2>4, <3>2 DEF IsMin
    <2>6. IsMax(hi, Lens(h))
      <3>1. h[1].len \in Lens(h) /\ h[1].len \in Int /\ 0 <= h[1].len
        <4>1. h[1].len \in Lens(h)
          BY <1>2, <1>3 DEF Lens
        <4> QED
          BY <2>2, <4>1, Bounds
      <3>2. hi \in Lens(h)
        BY <2>2, <2>3, <3>1
      <3> HIDE DEF hi
      <3> QED
        BY <2>2, <3>2 DEF IsMax
    <2> QED
      BY <2>5, <2>6 DEF ExactLengths
  <1>7. ExactDuration(f)
    <2>1. /\ \A i \in 1 .. k - 1 : h[i + 1].time - h[i].time <= a.max_duration
          /\ a.max_duration = 0 \/ \E i \in 1 .. k - 1 : a.max_duration = h[i + 1].time - h[i].time
      BY <1>4 DEF ExactAs
    <2>2. 0 <= a.max_duration
      BY EntryTyped, Names DEF FeaturesInv
    <2> QED
      BY <2>1, <2>2 DEF ExactDuration, IsMax, Durations
  <1> QED
    BY <1>5, <1>6, <1>7

\* For any number of CPUs, flows, entries and packets, and any total and header lengths:
\* the entry of a flow whose packets are handled one at a time holds exactly the features
\* common.h documents, whatever other CPUs do to other flows and however full the table
\* is; a total length that does not cover its IP header wraps, leaves the minimum of the
\* others exact, and counts in the maximum as the word it has become.
THEOREM FeaturesAlwaysExact == Spec => []FeaturesExact
  BY FeaturesInit, FeaturesStep, ExactFollows, PTL DEF Spec

-----------------------------------------------------------------------------
(* The table of features, one packet at a time. *)

\* The features of the flows whose packets do not overlap.
Promised == [f \in Tracked \ raced |-> Settled(f)]

\* A flow is settled unless a CPU is past its lookups; then it is what that CPU makes it.
LEMMA SettledIdle ==
  ASSUME NEW f, \A c \in Busy(f) : cpu[c].pc \notin Updating
  PROVE  Settled(f) = flow_map[f]
  BY DEF Settled

LEMMA SettledBusy ==
  ASSUME NEW f, NEW c \in CPUs, Busy(f) = {c}, cpu[c].pc \in Updating
  PROVE  Settled(f) = Completed(cpu[c], flow_map[f])
  <1> DEFINE at == {d \in Busy(f) : cpu[d].pc \in Updating}
  <1>1. at = {c} /\ cpu[c].flow = f
    BY DEF Busy
  <1>2. (CHOOSE d \in at : TRUE) = c
    BY <1>1
  <1> QED
    BY <1>1, <1>2 DEF Settled

LEMMA SettledAfter ==
  ASSUME NEW f, NEW c \in CPUs, Busy(f)' = {c}, cpu'[c].pc \in Updating
  PROVE  Settled(f)' = Completed(cpu'[c], flow_map'[f])
  <1> DEFINE at == {d \in Busy(f) : cpu[d].pc \in Updating}
  <1>1. at' = {c} /\ cpu'[c].flow = f
    BY DEF Busy
  <1>2. (CHOOSE d \in at' : TRUE) = c
    BY <1>1
  <1> QED
    BY <1>1, <1>2 DEF Settled

\* Work on f settles nothing about the other flows.
LEMMA OthersSettled ==
  ASSUME TypeInv, NEW c \in CPUs, NEW f \in Flows, NEW r, cpu' = [cpu EXCEPT ![c] = r],
         cpu[c].pc = "idle" \/ cpu[c].flow = f, r.pc = "idle" \/ r.flow = f,
         NEW g \in Tracked \ {f}, flow_map'[g] = flow_map[g]
  PROVE  Settled(g)' = Settled(g)
  <1> DEFINE at == {d \in Busy(g) : cpu[d].pc \in Updating}
  <1>1. cpu'[c] = r /\ \A d \in CPUs \ {c} : cpu'[d] = cpu[d]
    BY DEF TypeInv, TypeOK
  <1>2. Busy(g)' = Busy(g) /\ \A d \in Busy(g) : cpu'[d] = cpu[d] /\ cpu[d].flow = g
    BY <1>1 DEF Busy
  <1>3. at' = at
    BY <1>2
  <1>4. CASE at = {}
    BY <1>3, <1>4 DEF Settled
  <1>5. CASE at # {}
    <2> DEFINE e == CHOOSE d \in at : TRUE
    <2>1. e \in at
      BY <1>5
    <2>2. PICK d : d = e
      OBVIOUS
    <2>3. Settled(g) = Completed(cpu[d], flow_map[g])
      BY <1>5, <2>2 DEF Settled
    <2>4. Settled(g)' = Completed(cpu'[d], flow_map'[g])
      BY <1>3, <1>5, <2>2 DEF Settled
    <2>5. cpu'[d] = cpu[d]
      BY <1>2, <2>1, <2>2
    <2> QED
      BY <2>3, <2>4, <2>5
  <1> QED
    BY <1>4, <1>5

\* A CPU that goes on with the same field towards the same value completes the same entry.
LEMMA SameCompletes ==
  ASSUME NEW r, NEW s, NEW a, s.field = r.field, s.pkt = r.pkt, Coming(s, a) = Coming(r, a)
  PROVE  Completed(s, a) = Completed(r, a)
  BY DEF Completed

\* The order of the fields: a field that stays is as good as stored.
LEMMA NextCompletes ==
  ASSUME NEW r \in CPUState, NEW a \in [FieldNames -> 0 .. Word - 1],
         r.field # 6, Coming(r, a) = a[Fields[r.field]]
  PROVE  Completed(NextField(r), a) = Completed(r, a)
  <1> DEFINE t == NextField(r)
             n == r.field
  <1>1. n \in 1 .. 6 /\ n + 1 \in 1 .. 6
    BY DEF CPUState
  <1>2. t.pc = "load" /\ t.field = n + 1 /\ t.pkt = r.pkt
    BY DEF CPUState, NextField
  <1>3. {Fields[i] : i \in n + 1 .. 6} = {Fields[i] : i \in n + 2 .. 6} \cup {Fields[n + 1]}
    BY <1>1
  <1>4. Fields[n] \notin {Fields[i] : i \in n + 1 .. 6}
    BY <1>1, Names
  <1> HIDE DEF t
  <1>5. Coming(t, a) = NewValue(Fields[n + 1], a, r.pkt)
    BY <1>2 DEF Coming
  <1>6. \A m \in FieldNames :
          (IF m = Fields[n + 1] THEN NewValue(Fields[n + 1], a, r.pkt)
           ELSE IF m \in {Fields[i] : i \in n + 2 .. 6} THEN NewValue(m, a, r.pkt) ELSE a[m])
          = (IF m = Fields[n] THEN a[Fields[n]]
             ELSE IF m \in {Fields[i] : i \in n + 1 .. 6} THEN NewValue(m, a, r.pkt) ELSE a[m])
    BY <1>3, <1>4
  <1>7. t.field + 1 = n + 2
    BY <1>1, <1>2
  <1>8. Completed(t, a) =
          [m \in FieldNames |->
             IF m = Fields[n + 1] THEN NewValue(Fields[n + 1], a, r.pkt)
             ELSE IF m \in {Fields[i] : i \in n + 2 .. 6} THEN NewValue(m, a, r.pkt) ELSE a[m]]
    BY <1>2, <1>5, <1>7, Zenon DEF Completed
  <1>9. Completed(r, a) =
          [m \in FieldNames |->
             IF m = Fields[n] THEN a[Fields[n]]
             ELSE IF m \in {Fields[i] : i \in n + 1 .. 6} THEN NewValue(m, a, r.pkt) ELSE a[m]]
    BY Zenon DEF Completed
  <1> HIDE DEF n
  <1> QED
    BY <1>6, <1>8, <1>9, Zenon DEF t

\* No field is computed from one that is stored before it.
LEMMA StoreCompletes ==
  ASSUME NEW r \in CPUState, NEW a \in [FieldNames -> 0 .. Word - 1], r.pc = "store"
  PROVE  LET n == r.field
             b == [a EXCEPT ![Fields[n]] = r.value]
         IN  /\ n = 6 => b = Completed(r, a)
             /\ n # 6 => Completed(NextField(r), b) = Completed(r, a)
  <1> DEFINE n == r.field
             b == [a EXCEPT ![Fields[n]] = r.value]
             s == NextField(r)
  <1>1. n \in 1 .. 6
    BY DEF CPUState
  <1>2. s.pc = "load" /\ s.field = n + 1 /\ s.pkt = r.pkt
    BY DEF CPUState, NextField
  <1>3. /\ b \in [FieldNames -> {r.value} \cup (0 .. Word - 1)]
        /\ b[Fields[n]] = r.value
        /\ \A m \in FieldNames : m # Fields[n] => b[m] = a[m]
    BY <1>1, Names
  <1>4. \A m \in FieldNames : m \in {Fields[i] : i \in n + 1 .. 6} =>
          m # Fields[n] /\ NewValue(m, b, r.pkt) = NewValue(m, a, r.pkt)
    <2> SUFFICES ASSUME NEW i \in n + 1 .. 6
                 PROVE  /\ Fields[i] # Fields[n]
                        /\ NewValue(Fields[i], b, r.pkt) = NewValue(Fields[i], a, r.pkt)
      OBVIOUS
    <2>1. i \in 1 .. 6 /\ i # n
      BY <1>1
    <2>2. Fields[i] # Fields[n] /\ b[Fields[i]] = a[Fields[i]]
      BY <1>1, <1>3, <2>1, Names
    <2>3. Fields[i] = "max_duration" => b["last_packet_time"] = a["last_packet_time"]
      <3>1. Fields[i] = "max_duration" => i = 4
        BY <2>1 DEF Fields
      <3>2. i = 4 => Fields[n] # "last_packet_time"
        BY <1>1 DEF Fields
      <3> QED
        BY <1>3, <3>1, <3>2, Names
    <2>4. \A m \in FieldNames : b[m] = a[m] /\ (m = "max_duration" =>
            b["last_packet_time"] = a["last_packet_time"]) =>
            NewValue(m, b, r.pkt) = NewValue(m, a, r.pkt)
      BY Names DEF NewValue, Duration
    <2> QED
      BY <2>1, <2>2, <2>3, <2>4, Names
  <1> HIDE DEF s, b
  <1>c. Coming(r, a) = r.value
    BY DEF Coming
  <1>5. ASSUME n # 6 PROVE Completed(s, b) = Completed(r, a)
    <2>1. {Fields[i] : i \in n + 1 .. 6} = {Fields[i] : i \in n + 2 .. 6} \cup {Fields[n + 1]}
      BY <1>1, <1>5
    <2>2. Coming(s, b) = NewValue(Fields[n + 1], b, r.pkt) /\ s.field + 1 = n + 2
      BY <1>1, <1>2 DEF Coming
    <2>3. \A m \in FieldNames :
            (IF m = Fields[n + 1] THEN NewValue(Fields[n + 1], b, r.pkt)
             ELSE IF m \in {Fields[i] : i \in n + 2 .. 6} THEN NewValue(m, b, r.pkt) ELSE b[m])
            = (IF m = Fields[n] THEN r.value
               ELSE IF m \in {Fields[i] : i \in n + 1 .. 6} THEN NewValue(m, a, r.pkt) ELSE a[m])
      BY <1>3, <1>4, <2>1
    <2> QED
      BY <1>2, <1>c, <2>2, <2>3 DEF Completed
  <1>6. ASSUME n = 6 PROVE b = Completed(r, a)
    <2>1. {Fields[i] : i \in n + 1 .. 6} = {}
      BY <1>6
    <2>2. \A m \in FieldNames : b[m] = IF m = Fields[n] THEN r.value
              ELSE IF m \in {Fields[i] : i \in n + 1 .. 6} THEN NewValue(m, a, r.pkt) ELSE a[m]
      BY <1>3, <2>1
    <2> QED
      BY <1>3, <1>c, <2>2 DEF Completed
  <1> QED
    BY <1>5, <1>6 DEF s, b

\* From the first field on, every field gets its new value: that is one packet in the
\* table, where no number wraps around.
LEMMA PacketIs ==
  ASSUME NEW r \in CPUState, NEW a \in [FieldNames -> 0 .. Word - 1],
         r.pc = "load", r.field = 1, r.pkt \in Packets,
         a.num_packet + 1 < Word, a.header_length + 4 * r.pkt.doff < Word,
         a.last_packet_time <= r.pkt.time
  PROVE  Completed(r, a) = Table!After(a, r.pkt)
  <1> DEFINE p == r.pkt
  <1>1. /\ p.len \in 0 .. Word - 1 /\ p.time \in 0 .. Word - 1 /\ p.doff \in 0 .. 15
    BY PacketTyped
  <1> HIDE DEF p
  <1>2. \A m \in FieldNames : a[m] \in 0 .. Word - 1
    OBVIOUS
  <1>3. NewValue("num_packet", a, p) = a.num_packet + 1
    <2>1. a.num_packet \in 0 .. Word - 1
      BY <1>2, Names
    <2>2. a.num_packet + 1 \in 0 .. Word - 1
      BY <2>1, Bounds
    <2> QED
      BY <2>2, Fits DEF NewValue
  <1>4. NewValue("header_length", a, p) = a.header_length + 4 * p.doff
    <2> DEFINE x == a.header_length  d == p.doff
    <2>1. x \in 0 .. Word - 1 /\ d \in 0 .. 15 /\ x + 4 * d < Word
      BY <1>1, <1>2, Names DEF p
    <2>2. NewValue("header_length", a, p) = (x + d * 4) % Word
      BY DEF NewValue
    <2> HIDE DEF x, d
    <2>3. x + d * 4 = x + 4 * d /\ x + 4 * d \in 0 .. Word - 1
      BY <2>1, Bounds
    <2> QED
      BY <2>2, <2>3, Fits DEF x, d
  <1>5. NewValue("max_duration", a, p)
        = Table!Greater(a.max_duration, p.time - a.last_packet_time)
    <2> DEFINE l == a.last_packet_time  t == p.time  x == a.max_duration
    <2>1. l \in 0 .. Word - 1 /\ t \in 0 .. Word - 1 /\ l <= t /\ x \in 0 .. Word - 1
      BY <1>1, <1>2, Names DEF p
    <2>2. NewValue("max_duration", a, p)
          = IF (t - l) % Word > x THEN (t - l) % Word ELSE x
      BY DEF NewValue, Greater, Duration
    <2> HIDE DEF l, t, x
    <2>3. t - l \in 0 .. Word - 1
      BY <2>1, Bounds
    <2>4. (t - l) % Word = t - l
      BY <2>3, Fits
    <2>5. Table!Greater(x, t - l) = IF x > t - l THEN x ELSE t - l
      BY DEF Table!Greater
    <2> QED
      BY <2>1, <2>2, <2>3, <2>4, <2>5, Bounds DEF l, t, x
  <1>6. NewValue("min_packet_length", a, p) = Table!Lesser(a.min_packet_length, p.len)
    <2>1. a.min_packet_length \in 0 .. Word - 1
      BY <1>2, Names
    <2> QED
      BY <1>1, <2>1, Bounds DEF NewValue, Table!Lesser
  <1>7. NewValue("max_packet_length", a, p) = Table!Greater(a.max_packet_length, p.len)
    <2>1. a.max_packet_length \in 0 .. Word - 1
      BY <1>2, Names
    <2> QED
      BY <1>1, <2>1, Bounds DEF NewValue, Greater, Table!Greater
  <1>8. NewValue("last_packet_time", a, p) = p.time
    BY <1>1, Fits DEF NewValue
  <1>9. {Fields[i] : i \in 2 .. 6} = FieldNames \ {Fields[1]} /\ Fields[1] = "num_packet"
    BY Names DEF FieldNames, Fields
  <1>10. Completed(r, a) = [n \in FieldNames |-> NewValue(n, a, p)]
    BY <1>9 DEF Completed, Coming, p
  <1>11. Table!After(a, p) =
           [num_packet |-> NewValue("num_packet", a, p),
            min_packet_length |-> NewValue("min_packet_length", a, p),
            max_packet_length |-> NewValue("max_packet_length", a, p),
            max_duration |-> NewValue("max_duration", a, p),
            last_packet_time |-> NewValue("last_packet_time", a, p),
            header_length |-> NewValue("header_length", a, p)]
    BY <1>3, <1>4, <1>5, <1>6, <1>7, <1>8 DEF Table!After
  <1> QED
    BY <1>10, <1>11, Names DEF p

\* A packet of f that is settled in one step, on the entry it found or on a fresh one.
LEMMA PacketTaken ==
  ASSUME NEW f \in Flows \ raced, NEW r \in CPUState, NEW old \in [FieldNames -> 0 .. Word - 1],
         r.pc = "load", r.field = 1, r.pkt \in Packets,
         old.num_packet + 1 < Word, old.header_length + 4 * r.pkt.doff < Word,
         old.last_packet_time <= r.pkt.time,
         old = IF f \in Tracked THEN Settled(f) ELSE InitialAttribute(r.pkt.time),
         raced' = raced, Tracked' = Tracked \cup {f},
         Settled(f)' = Completed(r, old),
         \A g \in Tracked \ {f} : g \notin raced => Settled(g)' = Settled(g)
  PROVE  Table!Packet(f)
  <1> DEFINE p == r.pkt
  <1>1. Settled(f)' = Table!After(old, p)
    BY PacketIs
  <1>2. p.len \in Lengths /\ p.doff \in Doffs /\ p = [time |-> p.time, len |-> p.len, doff |-> p.doff]
    BY DEF Packets
  <1>3. /\ DOMAIN Promised' = DOMAIN Promised \cup {f}
        /\ DOMAIN Promised = Tracked \ raced
        /\ Promised'[f] = Settled(f)'
    BY DEF Promised
  <1>4. Promised'[f].last_packet_time = p.time
    BY <1>1, <1>3 DEF Table!After
  <1>5. old = IF f \in DOMAIN Promised THEN Promised[f] ELSE Table!NoFeatures(p.time)
    BY DEF Promised, Table!NoFeatures, InitialAttribute
  <1>6. Promised' = [g \in DOMAIN Promised \cup {f} |->
                       IF g = f THEN Table!After(old, p) ELSE Promised[g]]
    <2>1. \A g \in DOMAIN Promised' : g # f => Promised'[g] = Promised[g]
      BY <1>3 DEF Promised
    <2>2. Promised' = [g \in DOMAIN Promised' |-> Promised'[g]]
      BY DEF Promised
    <2> HIDE DEF p
    <2> QED
      BY <1>1, <1>3, <2>1, <2>2
  <1> HIDE DEF p
  <1>7. \E len \in Lengths, doff \in Doffs :
          LET time == Promised'[f].last_packet_time
              before == IF f \in DOMAIN Promised THEN Promised[f] ELSE Table!NoFeatures(time)
          IN  /\ before.last_packet_time <= time
              /\ Promised' = [g \in DOMAIN Promised \cup {f} |->
                    IF g = f THEN Table!After(before, [time |-> time, len |-> len, doff |-> doff])
                             ELSE Promised[g]]
    <2>1. old.last_packet_time <= p.time
      BY DEF p
    <2> p.len \in Lengths /\ p.doff \in Doffs
      BY <1>2
    <2> WITNESS p.len \in Lengths, p.doff \in Doffs
    <2> QED
      BY <1>2, <1>4, <1>5, <1>6, <2>1
  <1>8. f \in (Flows \ raced) \cap DOMAIN Promised'
    BY <1>3
  <1> QED
    BY <1>7, <1>8 DEF Table!Packet, Promised

\* What is settled for every flow stays.
LEMMA NothingSettled ==
  ASSUME raced' = raced, Tracked' = Tracked,
         \A g \in Tracked \ raced : Settled(g)' = Settled(g)
  PROVE  UNCHANGED <<Promised, raced>>
  BY DEF Promised

\* An arrival settles nothing, but ends the promise where a packet is being handled.
LEMMA ReceiveIsRace ==
  ASSUME FeaturesInv, NEW c \in CPUs, NEW f \in Flows, Receive(c, f)
  PROVE  Table!Race(f) \/ UNCHANGED <<Promised, raced>>
  <1>1. PICK p \in Packets, r \in CPUState :
          /\ r.pc = "lookup" /\ r.flow = f /\ r.field = 1 /\ r.pkt = p
          /\ cpu' = [cpu EXCEPT ![c] = r]
          /\ now <= p.time /\ now' = p.time
          /\ hist' = [hist EXCEPT ![f] = Append(@, p)]
          /\ sent' = [sent EXCEPT ![f] = @ + 4 * p.doff]
          /\ raced' = IF Busy(f) = {} THEN raced ELSE raced \cup {f}
          /\ flow_map' = flow_map
    BY ReceiveIs DEF FeaturesInv
  <1>2. Tracked' = Tracked /\ cpu[c].pc = "idle"
    BY <1>1 DEF Tracked, Receive
  <1>3. \A g \in Tracked \ {f} : Settled(g)' = Settled(g)
    BY <1>1, <1>2, OthersSettled DEF FeaturesInv
  <1>4. CASE Busy(f) = {}
    <2>1. cpu'[c] = r /\ Busy(f)' = {c}
      BY <1>1, <1>4, BusyAfter
    <2>2. Settled(f) = flow_map[f]
      BY <1>4, SettledIdle DEF Updating
    <2>3. Settled(f)' = flow_map'[f]
      BY <1>1, <2>1 DEF Settled, Updating
    <2> QED
      BY <1>1, <1>2, <1>3, <1>4, <2>2, <2>3, NothingSettled
  <1>5. CASE Busy(f) # {}
    <2>1. raced' = raced \cup {f} /\ Tracked' \ raced' = (Tracked \ raced) \ {f}
      BY <1>1, <1>2, <1>5
    <2>2. Promised' = [g \in DOMAIN Promised \ {f} |-> Promised[g]]
      BY <1>3, <2>1 DEF Promised
    <2> QED
      BY <2>1, <2>2 DEF Table!Race, Promised
  <1> QED
    BY <1>4, <1>5

\* The packet of a flow that is found is handled from here on.
LEMMA LookupIsPacket ==
  ASSUME FeaturesInv, NEW c \in CPUs, Lookup(c)
  PROVE  (\E f \in Flows : Table!Packet(f)) \/ UNCHANGED <<Promised, raced>>
  <1>f. PICK f \in Flows : f = cpu[c].flow
    BY CPUTyped DEF FeaturesInv, CPUState
  <1> DEFINE r == [cpu[c] EXCEPT !.pc = IF f \in Tracked THEN "load" ELSE "insert"]
  <1>1. /\ cpu[c].pc = "lookup" /\ cpu' = [cpu EXCEPT ![c] = r]
        /\ UNCHANGED <<flow_map, now, hist, sent, raced>> /\ Tracked' = Tracked
    BY <1>f DEF Lookup, Tracked
  <1>2. /\ r \in CPUState /\ r.flow = f /\ r.field = 1 /\ r.pkt = cpu[c].pkt /\ r.pkt \in Packets
        /\ r.pc = IF f \in Tracked THEN "load" ELSE "insert"
    BY <1>f, <1>1, CPUTyped DEF FeaturesInv, TypeInv, FoundEntry, CPUState
  <1> HIDE DEF r
  <1>3. \A g \in Tracked \ {f} : Settled(g)' = Settled(g)
    BY <1>f, <1>1, <1>2, OthersSettled DEF FeaturesInv
  <1>4. CASE f \in Tracked \ raced
    <2> DEFINE a == flow_map[f]
    <2>k. PICK k \in Nat : k = Len(hist[f])
      BY HistoryTyped
    <2>1. /\ Sequential(f) /\ Busy(f) = {c}
          /\ k >= 1 /\ cpu[c].pkt = hist[f][k]
          /\ \A i : Included(f, i) = IF Passed(c, i) THEN k ELSE k - 1
      BY <1>f, <1>1, <1>4, <2>k, Alone
    <2>2. cpu'[c] = r /\ Busy(f)' = {c} /\ r.pc = "load"
      BY <1>f, <1>1, <1>2, <1>4, <2>1, BusyAfter
    <2>3. Settled(f) = a
      BY <1>1, <2>1, SettledIdle DEF Updating
    <2>4. Settled(f)' = Completed(r, a)
      <3>1. Settled(f)' = Completed(cpu'[c], flow_map'[f])
        BY <1>1, <2>2, SettledAfter DEF Updating
      <3> QED
        BY <1>1, <2>2, <3>1
    <2>5. /\ hist[f] \in Seq(Packets) /\ Ordered(hist[f]) /\ k < Word
          /\ sent[f] \in 0 .. Word - 1 /\ a \in [FieldNames -> 0 .. Word - 1]
      BY <1>4, <2>k, HistoryTyped, EntryTyped DEF FeaturesInv
    <2>6. \A i \in 1 .. 6 : ExactAs(Fields[i], a[Fields[i]], hist[f], k - 1,
                                    sent[f] - 4 * hist[f][k].doff)
      <3>1. \A i \in 1 .. 6 : Included(f, i) = k - 1
        BY <1>1, <2>1 DEF Passed, Updating
      <3>2. Bytes(f, k - 1) = sent[f] - 4 * hist[f][k].doff
        BY <2>k DEF Bytes
      <3> QED
        BY <1>4, <2>1, <3>1, <3>2 DEF Sequential, EntryExact
    <2>7. /\ a.num_packet = k - 1 /\ a.header_length = sent[f] - 4 * hist[f][k].doff
          /\ a.last_packet_time = IF k = 1 THEN hist[f][1].time ELSE hist[f][k - 1].time
      <3>1. Fields[1] = "num_packet" /\ Fields[5] = "last_packet_time" /\ Fields[6] = "header_length"
        BY DEF Fields
      <3>2. /\ ExactAs("num_packet", a.num_packet, hist[f], k - 1, sent[f] - 4 * hist[f][k].doff)
            /\ ExactAs("last_packet_time", a.last_packet_time, hist[f], k - 1,
                       sent[f] - 4 * hist[f][k].doff)
            /\ ExactAs("header_length", a.header_length, hist[f], k - 1,
                       sent[f] - 4 * hist[f][k].doff)
        BY <2>6, <3>1
      <3> QED
        BY <3>2 DEF ExactAs
    <2>8. a.num_packet + 1 < Word
      BY <2>5, <2>7
    <2>9. a.header_length + 4 * r.pkt.doff < Word
      <3> DEFINE d == r.pkt.doff  b == sent[f]
      <3>1. d \in 0 .. 15 /\ a.header_length = b - 4 * d /\ b \in 0 .. Word - 1
        BY <1>2, <2>1, <2>5, <2>7, PacketTyped
      <3> HIDE DEF d, b
      <3>2. a.header_length + 4 * d = b /\ b < Word
        BY <3>1, Bounds
      <3> QED
        BY <3>2 DEF d
    <2>10. a.last_packet_time <= r.pkt.time
      <3>1. k \in 1 .. k /\ 1 \in 1 .. k /\ (k # 1 => k - 1 \in 1 .. k)
        BY <2>1
      <3>2. \A i \in 1 .. k : hist[f][i].time <= hist[f][k].time
        BY <2>k, <2>5, <3>1 DEF Ordered
      <3> QED
        BY <1>2, <2>1, <2>7, <3>1, <3>2
    <2> HIDE DEF a
    <2>11. Table!Packet(f)
      BY <1>1, <1>2, <1>3, <1>4, <2>2, <2>3, <2>4, <2>5, <2>8, <2>9, <2>10, PacketTaken
    <2> QED
      BY <2>11
  <1>5. CASE f \notin Tracked \ raced
    BY <1>1, <1>3, <1>5, NothingSettled
  <1> QED
    BY <1>4, <1>5

\* The first packet of a flow is handled from when its entry has been made.
LEMMA InsertIsPacket ==
  ASSUME FeaturesInv, NEW c \in CPUs, Insert(c)
  PROVE  (\E f \in Flows : Table!Packet(f)) \/ UNCHANGED <<Promised, raced>>
  <1>f. PICK f \in Flows : f = cpu[c].flow
    BY CPUTyped DEF FeaturesInv, CPUState
  <1> DEFINE made == f \notin Tracked /\ Cardinality(Tracked) < MaxEntries
             p == cpu[c].pkt
             r == IF f \in Tracked' THEN [cpu[c] EXCEPT !.pc = "load"] ELSE NoPacket
  <1>1. /\ cpu[c].pc = "insert" /\ p \in Packets
        /\ IF made THEN /\ Tracked' = Tracked \cup {f}
                        /\ flow_map'[f] = InitialAttribute(p.time)
                        /\ \A g \in Tracked : flow_map'[g] = flow_map[g]
                   ELSE flow_map' = flow_map /\ Tracked' = Tracked
        /\ cpu' = [cpu EXCEPT ![c] = r]
        /\ UNCHANGED <<now, hist, sent, raced>>
    BY <1>f, InsertIs DEF FeaturesInv
  <1>2. IF f \in Tracked' THEN /\ r \in CPUState /\ r.pc = "load" /\ r.flow = f /\ r.field = 1
                               /\ r.pkt = p
                          ELSE r.pc = "idle"
    BY <1>f, <1>1, CPUTyped, NoPacketTyped DEF FeaturesInv, TypeInv, FoundEntry, CPUState
  <1> HIDE DEF r
  <1>3. \A g \in Tracked \ {f} : Settled(g)' = Settled(g)
    <2>1. \A g \in Tracked \ {f} : flow_map'[g] = flow_map[g]
      BY <1>1
    <2>2. (cpu[c].pc = "idle" \/ cpu[c].flow = f) /\ (r.pc = "idle" \/ r.flow = f)
      BY <1>f, <1>2
    <2> QED
      BY <1>1, <2>1, <2>2, OthersSettled DEF FeaturesInv
  <1>4. CASE made /\ f \notin raced
    <2> DEFINE a == InitialAttribute(p.time)
    <2>1. /\ Busy(f) = {c} /\ f \in Tracked'
          /\ Len(hist[f]) >= 1 /\ p = hist[f][Len(hist[f])]
      BY <1>f, <1>1, <1>4, Alone
    <2>2. cpu'[c] = r /\ Busy(f)' = {c} /\ r.pc = "load"
      BY <1>1, <1>2, <2>1, BusyAfter
    <2>3. Settled(f)' = Completed(r, a)
      BY <1>1, <1>4, <2>2, SettledAfter DEF Updating
    <2>4. p.time \in 0 .. Word - 1 /\ p.doff \in 0 .. 15
      BY <1>1, PacketTyped
    <2>5. a \in [FieldNames -> 0 .. Word - 1]
      BY <2>4, FreshTyped
    <2>6. a.num_packet = 0 /\ a.header_length = 0 /\ a.last_packet_time = p.time
      BY DEF InitialAttribute
    <2>7. a.last_packet_time <= p.time
      <3>1. p.time \in Int
        BY <2>4, Bounds
      <3> QED
        BY <2>6, <3>1
    <2>8. a.num_packet + 1 < Word
      <3>1. 1 < Word
        BY FeaturesAssumption
      <3> QED
        BY <2>6, <3>1
    <2>9. a.header_length + 4 * p.doff < Word
      <3> DEFINE d == p.doff
      <3>1. sent[f] <= 60 * Len(hist[f]) /\ Len(hist[f]) <= MaxPackets /\ Len(hist[f]) \in Nat
        BY HistoryTyped DEF FeaturesInv, TypeInv, HistoryOK
      <3>2. 60 * 1 <= 60 * MaxPackets
        BY <2>1, <3>1, Bounds
      <3>3. d \in 0 .. 15
        BY <2>4
      <3> HIDE DEF d
      <3>4. 0 + 4 * d < Word
        BY <3>2, <3>3, Bounds
      <3> QED
        BY <2>6, <3>4 DEF d
    <2> HIDE DEF a, p
    <2>10. Table!Packet(f)
      <3>1. a = IF f \in Tracked THEN Settled(f) ELSE InitialAttribute(r.pkt.time)
        BY <1>2, <1>4, <2>1 DEF a
      <3>2. f \in Flows \ raced /\ Tracked' = Tracked \cup {f} /\ raced' = raced
        BY <1>1, <1>4
      <3>3. /\ r \in CPUState /\ r.pc = "load" /\ r.field = 1 /\ r.pkt = p /\ r.pkt \in Packets
        BY <1>1, <1>2, <2>1
      <3> QED
        BY <1>3, <2>3, <2>5, <2>7, <2>8, <2>9, <3>1, <3>2, <3>3, PacketTaken
    <2> QED
      BY <2>10
  <1>5. CASE made /\ f \in raced
    <2>1. Tracked' \ raced' = Tracked \ raced /\ raced' = raced
      BY <1>1, <1>5
    <2>2. \A g \in Tracked \ raced : Settled(g)' = Settled(g)
      BY <1>3, <1>5
    <2> QED
      BY <2>1, <2>2 DEF Promised
  <1>6. CASE ~made
    <2>1. flow_map' = flow_map /\ Tracked' = Tracked /\ raced' = raced
      BY <1>1, <1>6
    <2>2. ASSUME f \in Tracked \ raced PROVE Settled(f)' = Settled(f)
      <3>1. Sequential(f) /\ Busy(f) = {c}
        BY <1>f, <1>1, <2>2, Alone
      <3> QED
        BY <1>1, <2>2, <3>1 DEF Sequential, OnLastPacket
    <2> QED
      BY <1>3, <2>1, <2>2, NothingSettled
  <1> QED
    BY <1>4, <1>5, <1>6

\* A CPU that goes on so that it completes the same entry settles nothing.
LEMMA GoingOnStutters ==
  ASSUME FeaturesInv, NEW c \in CPUs, NEW f \in Tracked, f = cpu[c].flow, cpu[c].pc \in Updating,
         NEW r, cpu' = [cpu EXCEPT ![c] = r], r.pc \in Updating, r.flow = f,
         f \notin raced => Completed(r, flow_map[f]) = Completed(cpu[c], flow_map[f]),
         flow_map' = flow_map, raced' = raced
  PROVE  UNCHANGED <<Promised, raced>>
  <1>1. f \in Flows /\ cpu[c].pc # "idle" /\ r.pc # "idle" /\ Tracked' = Tracked
    BY DEF FeaturesInv, TypeInv, TypeOK, Updating, Tracked
  <1>2. \A g \in Tracked \ {f} : Settled(g)' = Settled(g)
    BY <1>1, OthersSettled DEF FeaturesInv
  <1>3. ASSUME f \notin raced PROVE Settled(f)' = Settled(f)
    <2>1. Busy(f) = {c}
      BY <1>1, <1>3, Alone
    <2>2. cpu'[c] = r /\ Busy(f)' = {c}
      BY <1>1, <2>1, BusyAfter
    <2>3. Settled(f)' = Completed(r, flow_map[f])
      BY <2>2, SettledAfter DEF Updating
    <2>4. Settled(f) = Completed(cpu[c], flow_map[f])
      BY <2>1, SettledBusy
    <2> QED
      BY <1>3, <2>3, <2>4
  <1> QED
    BY <1>1, <1>2, <1>3, NothingSettled

\* What a CPU decides to store is what its field was to become.
LEMMA ChooseStutters ==
  ASSUME FeaturesInv, NEW c \in CPUs, NEW f, NEW n, NEW new, Chooses(c, f, n, new),
         f \notin raced => new = Coming(cpu[c], flow_map[f])
  PROVE  UNCHANGED <<Promised, raced>>
  <1>1. /\ f = cpu[c].flow /\ f \in Tracked /\ n = cpu[c].field
        /\ cpu[c].pc \in Updating /\ cpu[c] \in CPUState /\ new \in 0 .. Word - 1
        /\ flow_map' = flow_map /\ raced' = raced
    BY DEF Chooses, Updating
  <1>2. CASE cpu' = [cpu EXCEPT ![c] = ToStore(cpu[c], new)]
    <2> DEFINE s == ToStore(cpu[c], new)
    <2>1. s.pc = "store" /\ s.flow = f /\ s.field = n /\ s.value = new /\ s.pkt = cpu[c].pkt
      BY <1>1, Goes
    <2> HIDE DEF s
    <2>2. Coming(s, flow_map[f]) = new /\ s.pc \in Updating
      BY <2>1 DEF Coming, Updating
    <2>3. f \notin raced => Completed(s, flow_map[f]) = Completed(cpu[c], flow_map[f])
      BY <1>1, <2>1, <2>2, SameCompletes
    <2> QED
      BY <1>1, <1>2, <2>1, <2>2, <2>3, GoingOnStutters DEF s
  <1>3. CASE /\ new = flow_map[f][Fields[n]] /\ n # 6
             /\ cpu' = [cpu EXCEPT ![c] = NextField(cpu[c])]
    <2> DEFINE s == NextField(cpu[c])
    <2>1. s.pc \in Updating /\ s.flow = f
      BY <1>1, Goes DEF Updating
    <2>2. f \notin raced => Completed(s, flow_map[f]) = Completed(cpu[c], flow_map[f])
      BY <1>1, <1>3, EntryTyped, NextCompletes DEF FeaturesInv
    <2> HIDE DEF s
    <2> QED
      BY <1>1, <1>3, <2>1, <2>2, GoingOnStutters DEF s
  <1> QED
    BY <1>2, <1>3 DEF Chooses

\* Loads settle nothing.
LEMMA LoadStutters ==
  ASSUME FeaturesInv, NEW c \in CPUs, Load(c)
  PROVE  UNCHANGED <<Promised, raced>>
  <1> DEFINE f == cpu[c].flow
             n == cpu[c].field
             new == NewValue(Fields[n], flow_map[f], cpu[c].pkt)
  <1>1. Chooses(c, f, n, new) /\ cpu[c].pc = "load"
    BY LoadIs DEF FeaturesInv
  <1>2. new = Coming(cpu[c], flow_map[f])
    BY <1>1 DEF Coming
  <1> HIDE DEF f, n, new
  <1> QED
    BY <1>1, <1>2, ChooseStutters

LEMMA LoadTimeStutters ==
  ASSUME FeaturesInv, NEW c \in CPUs, LoadTime(c)
  PROVE  UNCHANGED <<Promised, raced>>
  <1>f. PICK f \in Flows : f = cpu[c].flow
    BY CPUTyped DEF FeaturesInv, CPUState
  <1> DEFINE r == [cpu[c] EXCEPT !.pc = "compare", !.value = Duration(flow_map[f], cpu[c].pkt)]
  <1>1. /\ cpu[c].pc = "load" /\ f \in Tracked /\ cpu[c].field = 4
        /\ cpu' = [cpu EXCEPT ![c] = r]
        /\ r.pc = "compare" /\ r.flow = f /\ r.field = 4 /\ r.pkt = cpu[c].pkt
        /\ r.value = Duration(flow_map[f], cpu[c].pkt)
        /\ UNCHANGED <<flow_map, now, hist, sent, raced>>
    BY <1>f, LoadTimeIs DEF FeaturesInv
  <1> HIDE DEF r
  <1>2. Fields[4] = "max_duration"
    BY DEF Fields
  <1>3. Coming(r, flow_map[f]) = Coming(cpu[c], flow_map[f])
    BY <1>1, <1>2 DEF Coming, NewValue
  <1>4. Completed(r, flow_map[f]) = Completed(cpu[c], flow_map[f])
    BY <1>1, <1>3, SameCompletes
  <1> QED
    BY <1>f, <1>1, <1>4, GoingOnStutters DEF Updating

LEMMA CompareStutters ==
  ASSUME FeaturesInv, NEW c \in CPUs, Compare(c)
  PROVE  UNCHANGED <<Promised, raced>>
  <1> DEFINE f == cpu[c].flow
             new == Greater(cpu[c].value, flow_map[f].max_duration)
  <1>1. Chooses(c, f, 4, new) /\ cpu[c].pc = "compare"
    BY CompareIs DEF FeaturesInv
  <1>2. Fields[cpu[c].field] = "max_duration"
    BY <1>1 DEF Chooses, Fields
  <1>3. new = Coming(cpu[c], flow_map[f])
    BY <1>1, <1>2 DEF Coming
  <1> HIDE DEF f, new
  <1> QED
    BY <1>1, <1>3, ChooseStutters

\* Stores settle nothing either: each leaves the entry on its way to the same end.
LEMMA StoreStutters ==
  ASSUME FeaturesInv, NEW c \in CPUs, Store(c)
  PROVE  UNCHANGED <<Promised, raced>>
  <1>f. PICK f \in Flows, n \in 1 .. 6 : f = cpu[c].flow /\ n = cpu[c].field
    BY CPUTyped DEF FeaturesInv, CPUState
  <1> DEFINE s == NextField(cpu[c])
             r == IF n = 6 THEN NoPacket ELSE s
             b == [flow_map[f] EXCEPT ![Fields[n]] = cpu[c].value]
  <1>1. /\ cpu[c].pc = "store" /\ f \in Tracked /\ Tracked' = Tracked
        /\ flow_map'[f] = b
        /\ \A g \in Tracked \ {f} : flow_map'[g] = flow_map[g]
        /\ cpu' = [cpu EXCEPT ![c] = r]
        /\ UNCHANGED <<now, hist, sent, raced>>
    BY <1>f, StoreIs DEF FeaturesInv
  <1>2. IF n = 6 THEN r.pc = "idle" ELSE r = s /\ r.pc = "load" /\ r.flow = f
    BY <1>f, CPUTyped, NoPacketTyped DEF FeaturesInv, CPUState, NextField
  <1>3. /\ n = 6 => b = Completed(cpu[c], flow_map[f])
        /\ n # 6 => Completed(s, b) = Completed(cpu[c], flow_map[f])
    <2>1. /\ cpu[c] \in CPUState /\ flow_map[f] \in [FieldNames -> 0 .. Word - 1]
          /\ n = cpu[c].field
      BY <1>f, <1>1, CPUTyped, EntryTyped DEF FeaturesInv
    <2> QED
      BY <1>1, <2>1, StoreCompletes
  <1> HIDE DEF r, s, b
  <1>4. \A g \in Tracked \ {f} : Settled(g)' = Settled(g)
    <2>1. (cpu[c].pc = "idle" \/ cpu[c].flow = f) /\ (r.pc = "idle" \/ r.flow = f)
      BY <1>f, <1>2
    <2> QED
      BY <1>1, <2>1, OthersSettled DEF FeaturesInv
  <1>5. ASSUME f \notin raced PROVE Settled(f)' = Settled(f)
    <2>1. Busy(f) = {c}
      BY <1>f, <1>1, <1>5, Alone
    <2>2. cpu'[c] = r /\ Busy(f)' = IF r.pc = "idle" THEN {} ELSE {c}
      BY <1>1, <1>2, <2>1, BusyAfter
    <2>3. Settled(f) = Completed(cpu[c], flow_map[f])
      BY <1>1, <2>1, SettledBusy DEF Updating
    <2>4. CASE n = 6
      <3>1. Busy(f)' = {}
        BY <1>2, <2>2, <2>4
      <3>2. Settled(f)' = flow_map'[f]
        BY <3>1 DEF Settled
      <3> QED
        BY <1>1, <1>3, <2>3, <2>4, <3>2
    <2>5. CASE n # 6
      <3>1. cpu'[c] = s /\ Busy(f)' = {c} /\ cpu'[c].pc = "load"
        BY <1>2, <2>2, <2>5
      <3>2. Settled(f)' = Completed(s, b)
        BY <1>1, <3>1, SettledAfter DEF Updating
      <3> QED
        BY <1>3, <2>3, <2>5, <3>2
    <2> QED
      BY <2>4, <2>5
  <1> QED
    BY <1>1, <1>4, <1>5, NothingSettled

\* The lookups, the insert and the field-by-field update implement a table of features
\* that every packet changes in one step, for every flow whose packets do not overlap,
\* and for any number of CPUs, flows, entries and packets.
THEOREM FeaturesImplementTable == Spec => UpdatesAreAtomic
  <1>1. Init => Table!Init
    <2> SUFFICES ASSUME Init PROVE Table!Init
      OBVIOUS
    <2>1. Tracked = {} /\ raced = {}
      BY DEF Init, Tracked
    <2> QED
      BY <2>1 DEF Table!Init
  <1>2. FeaturesInv /\ [Next]_vars => [Table!Next]_<<Promised, raced>>
    <2> SUFFICES ASSUME FeaturesInv, [Next]_vars PROVE [Table!Next]_<<Promised, raced>>
      OBVIOUS
    <2>1. CASE UNCHANGED vars
      <3>1. Tracked' = Tracked /\ raced' = raced
        BY <2>1 DEF vars, Tracked
      <3>2. \A g \in Tracked \ raced : Settled(g)' = Settled(g)
        BY <2>1 DEF vars, Settled, Busy
      <3> QED
        BY <3>1, <3>2, NothingSettled
    <2>2. ASSUME NEW c \in CPUs, NEW f \in Flows, Receive(c, f)
          PROVE  Table!Next \/ UNCHANGED <<Promised, raced>>
      BY <2>2, ReceiveIsRace DEF Table!Next
    <2>3. ASSUME NEW c \in CPUs, Step(c)
          PROVE  Table!Next \/ UNCHANGED <<Promised, raced>>
      BY <2>3, LookupIsPacket, InsertIsPacket, LoadStutters, LoadTimeStutters, CompareStutters,
         StoreStutters
         DEF Step, Table!Next
    <2> QED
      BY <2>1, <2>2, <2>3 DEF Next
  <1>3. Spec => []FeaturesInv
    BY FeaturesInit, FeaturesStep, PTL DEF Spec
  <1> QED
    BY <1>1, <1>2, <1>3, PTL DEF Spec, UpdatesAreAtomic, Table!Spec, Promised
==============================================================================
