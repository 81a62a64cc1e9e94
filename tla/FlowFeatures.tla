---------------------------- MODULE FlowFeatures ----------------------------
(***************************************************************************)
(* The feature extraction of NN-eBPF: update_flow_attribute in             *)
(* src/src/handler.bpf.h, called by xdp_prog for every TCP packet of the   *)
(* monitored host, on the entry of the packet's flow in flow_map           *)
(* (src/src/common.h).                                                     *)
(*                                                                         *)
(* xdp_prog runs on every CPU that receives packets, and all of them share *)
(* flow_map.  The function takes no lock: it looks the entry up, inserts   *)
(* one if there is none, and then loads, changes and stores field after    *)
(* field.  Here a load and the store that follows it are two steps.        *)
(*                                                                         *)
(* Numbers are 64-bit words.  The s64 fields are compared with u64 values, *)
(* so C compares them unsigned, and they are kept unsigned here.           *)
(***************************************************************************)
EXTENDS Integers, Sequences, FiniteSets

CONSTANTS
  CPUs,          \* CPUs that run xdp_prog
  Flows,         \* 4-tuples of the monitored host's connections
  TotLens,       \* ip->tot_len of a packet, in host order: the IP total length
  Ihls,          \* ip->ihl of a packet, the IP header length in 32-bit words
  Doffs,         \* tcp->doff of a packet, the TCP header length in 32-bit words
  Gaps,          \* by how much the clock may have moved since it was last read
  Word,          \* 2^64; the clock, in nanoseconds since boot, stays below it
  MaxEntries,    \* max_entries of flow_map (MAX_PACKET_REACORD)
  MaxPackets     \* bound: packets received of one flow

\* tot_len has 16 bits, ihl and doff have 4; what a flow can add up to fits the word.
ASSUME FeaturesAssumption ==
  /\ IsFiniteSet(CPUs)
  /\ Word \in Nat /\ 120 <= Word
  /\ TotLens \subseteq 0 .. Word \div 4 - 1 /\ Ihls \subseteq 0 .. 15
  /\ Doffs \subseteq 0 .. 15 /\ Gaps \subseteq Nat
  /\ MaxEntries \in Nat /\ MaxPackets \in Nat /\ 60 * MaxPackets < Word
  /\ Flows # {}

VARIABLES
  flow_map,   \* the entries, a function on the flows that have one
  cpu,        \* per CPU: where it is in update_flow_attribute, and its locals
  now,        \* what bpf_ktime_get_ns returned last
  hist,       \* history, per flow: the packets received, in the order of packet_time
  sent,       \* history, per flow: the bytes of those packets' TCP headers
  raced       \* history: flows of which two CPUs handled packets at the same time

vars == <<flow_map, cpu, now, hist, sent, raced>>

Tracked == DOMAIN flow_map

\* Mutant: the length stays the int that is computed, and below 0.
packet_length_Int(tot_len, ihl) == tot_len - 4 * ihl

\* The int bpf_ntohs(ip->tot_len) - ip->ihl * 4, stored in a u64.  Nothing checks that
\* it is not below 0: the length of a packet whose tot_len does not cover its IP header
\* is almost 2^64.
packet_length(tot_len, ihl) == (tot_len - 4 * ihl) % Word

Lengths == {packet_length(tot_len, ihl) : tot_len \in TotLens, ihl \in Ihls}

\* Mutant: last_packet_time is updated before the duration is computed.
Fields_TimeFirst == <<"num_packet", "min_packet_length", "max_packet_length",
                      "last_packet_time", "max_duration", "header_length">>

\* The fields, in the order in which update_flow_attribute changes them.
Fields == <<"num_packet", "min_packet_length", "max_packet_length",
            "max_duration", "last_packet_time", "header_length">>
FieldNames == {Fields[i] : i \in 1 .. 6}

\* Mutant: last_packet_time is left at 0.
InitialAttribute_NoTime(time) ==
  [num_packet |-> 0, min_packet_length |-> Word \div 4 - 1, max_packet_length |-> 0,
   max_duration |-> 0, last_packet_time |-> 0, header_length |-> 0]

\* Mutant: the minimum starts at 0.
InitialAttribute_ZeroMin(time) ==
  [num_packet |-> 0, min_packet_length |-> 0, max_packet_length |-> 0,
   max_duration |-> 0, last_packet_time |-> time, header_length |-> 0]

\* init_flow_attribute, and last_packet_time set to the time of the first packet.
InitialAttribute(time) ==
  [num_packet |-> 0, min_packet_length |-> Word \div 4 - 1, max_packet_length |-> 0,
   max_duration |-> 0, last_packet_time |-> time, header_length |-> 0]

Packets == [time : 0 .. Word - 1, len : Lengths, doff : Doffs]

\* pc "lookup", then perhaps "insert", then "load" and "store" for each field in turn; the
\* duration is computed with a load of its own, and "compare" loads what it is to exceed.
NoPacket == [pc |-> "idle", flow |-> CHOOSE f \in Flows : TRUE, field |-> 1, value |-> 0,
             pkt |-> [time |-> 0, len |-> 0, doff |-> 0]]

Init ==
  /\ flow_map = <<>>
  /\ cpu = [c \in CPUs |-> NoPacket]
  /\ now = 0
  /\ hist = [f \in Flows |-> <<>>]
  /\ sent = [f \in Flows |-> 0]
  /\ raced = {}

Busy(f) == {c \in CPUs : cpu[c].pc # "idle" /\ cpu[c].flow = f}

\* xdp_prog on CPU c has a packet of flow f and its length; update_flow_attribute reads
\* the clock.
Receive(c, f) ==
  /\ cpu[c].pc = "idle"
  /\ Len(hist[f]) < MaxPackets
  /\ \E tot_len \in TotLens, ihl \in Ihls, doff \in Doffs, gap \in Gaps :
       LET pkt == [time |-> now + gap, len |-> packet_length(tot_len, ihl), doff |-> doff]
       IN  /\ now + gap < Word
           /\ now' = pkt.time
           /\ cpu' = [cpu EXCEPT ![c] = [NoPacket EXCEPT !.pc = "lookup", !.flow = f,
                                                         !.pkt = pkt]]
           /\ hist' = [hist EXCEPT ![f] = Append(@, pkt)]
           /\ sent' = [sent EXCEPT ![f] = @ + 4 * doff]
  /\ raced' = IF Busy(f) = {} THEN raced ELSE raced \cup {f}
  /\ UNCHANGED flow_map

\* The first bpf_map_lookup_elem.
Lookup(c) ==
  /\ cpu[c].pc = "lookup"
  /\ cpu' = [cpu EXCEPT ![c].pc = IF cpu[c].flow \in Tracked THEN "load" ELSE "insert"]
  /\ UNCHANGED <<flow_map, now, hist, sent, raced>>

\* Mutant: BPF_ANY instead of BPF_NOEXIST.
Insert_Any(c) ==
  LET f == cpu[c].flow
  IN  /\ cpu[c].pc = "insert"
      /\ IF f \in Tracked \/ Cardinality(Tracked) < MaxEntries
           THEN /\ flow_map' = [g \in Tracked \cup {f} |->
                     IF g = f THEN InitialAttribute(cpu[c].pkt.time) ELSE flow_map[g]]
                /\ cpu' = [cpu EXCEPT ![c].pc = "load"]
           ELSE UNCHANGED flow_map /\ cpu' = [cpu EXCEPT ![c] = NoPacket]
      /\ UNCHANGED <<now, hist, sent, raced>>

\* bpf_map_update_elem with BPF_NOEXIST, which fails if another CPU was faster or the
\* table is full, and the second lookup, which decides: no entry, no update.
Insert(c) ==
  LET f == cpu[c].flow
  IN  /\ cpu[c].pc = "insert"
      /\ IF f \notin Tracked /\ Cardinality(Tracked) < MaxEntries
           THEN flow_map' = [g \in Tracked \cup {f} |->
                   IF g = f THEN InitialAttribute(cpu[c].pkt.time) ELSE flow_map[g]]
           ELSE UNCHANGED flow_map
      /\ cpu' = [cpu EXCEPT ![c] = IF f \in DOMAIN flow_map' THEN [@ EXCEPT !.pc = "load"]
                                                             ELSE NoPacket]
      /\ UNCHANGED <<now, hist, sent, raced>>

Greater(x, y) == IF x > y THEN x ELSE y

\* packet_time - attr_ptr->last_packet_time.
Duration(attr, pkt) == (pkt.time - attr.last_packet_time) % Word

\* The value update_flow_attribute gives a field, computed from the entry it loads.
NewValue(field, attr, pkt) ==
  LET old == attr[field]
  IN  CASE field = "num_packet"        -> (old + 1) % Word
        [] field = "min_packet_length" -> IF pkt.len < old THEN pkt.len ELSE old
        [] field = "max_packet_length" -> Greater(pkt.len, old)
        [] field = "max_duration"      -> Greater(Duration(attr, pkt), old)
        [] field = "last_packet_time"  -> pkt.time % Word
        [] field = "header_length"     -> (old + pkt.doff * 4) % Word

\* What a CPU with locals r does when its field stays as it is, and when it is stored.
NextField(r)    == [r EXCEPT !.pc = "load", !.field = @ + 1, !.value = 0]
ToStore(r, new) == [r EXCEPT !.pc = "store", !.value = new]

\* Load what the next field is computed from.  A minimum or maximum that stands needs
\* no store.
Load(c) ==
  LET field == Fields[cpu[c].field]
      attr  == flow_map[cpu[c].flow]
      new   == NewValue(field, attr, cpu[c].pkt)
      store == new # attr[field] \/ field \in {"num_packet", "last_packet_time", "header_length"}
  IN  /\ cpu[c].pc = "load" /\ field # "max_duration"
      /\ cpu' = [cpu EXCEPT ![c] = IF store THEN ToStore(@, new) ELSE NextField(@)]
      /\ UNCHANGED <<flow_map, now, hist, sent, raced>>

\* Load last_packet_time, and compute the duration.
LoadTime(c) ==
  /\ cpu[c].pc = "load" /\ Fields[cpu[c].field] = "max_duration"
  /\ cpu' = [cpu EXCEPT ![c] =
       [@ EXCEPT !.pc = "compare", !.value = Duration(flow_map[cpu[c].flow], cpu[c].pkt)]]
  /\ UNCHANGED <<flow_map, now, hist, sent, raced>>

\* Load max_duration, which may have changed since, and compare.
Compare(c) ==
  LET longer == cpu[c].value > flow_map[cpu[c].flow].max_duration
  IN  /\ cpu[c].pc = "compare"
      /\ cpu' = [cpu EXCEPT ![c] =
           IF longer THEN ToStore(@, cpu[c].value) ELSE NextField(@)]
      /\ UNCHANGED <<flow_map, now, hist, sent, raced>>

\* Store the field; after the last one the packet is done.
Store(c) ==
  /\ cpu[c].pc = "store"
  /\ flow_map' = [flow_map EXCEPT ![cpu[c].flow][Fields[cpu[c].field]] = cpu[c].value]
  /\ cpu' = [cpu EXCEPT ![c] = IF cpu[c].field = 6 THEN NoPacket ELSE NextField(@)]
  /\ UNCHANGED <<now, hist, sent, raced>>

Step(c) == Lookup(c) \/ Insert(c) \/ Load(c) \/ LoadTime(c) \/ Compare(c) \/ Store(c)

Next ==
  \E c \in CPUs : (\E f \in Flows : Receive(c, f)) \/ Step(c)

Spec == Init /\ [][Next]_vars

-----------------------------------------------------------------------------

\* Type invariant.
TypeOK ==
  /\ Tracked \subseteq Flows
  /\ \A f \in Tracked : flow_map[f] \in [FieldNames -> 0 .. Word - 1]
  /\ cpu \in [CPUs -> [pc : {"idle", "lookup", "insert", "load", "compare", "store"}, flow : Flows,
                       field : 1 .. 6, value : 0 .. Word - 1,
                       pkt : [time : 0 .. Word - 1, len : Lengths \cup {0},
                              doff : Doffs \cup {0}]]]
  /\ now \in 0 .. Word - 1
  /\ hist \in [Flows -> Seq(Packets)]
  /\ sent \in [Flows -> 0 .. Word - 1]
  /\ raced \subseteq Flows

\* What common.h says of the fields, as a function of the packets received.
Lens(h) == {h[i].len : i \in 1 .. Len(h)}
Durations(h) == {0} \cup {h[i + 1].time - h[i].time : i \in 1 .. Len(h) - 1}

\* A word as common.h declares it, s64, and the lengths that are one: of the packets
\* whose total length covers their IP header.
s64(word)   == IF word < Word \div 2 THEN word ELSE word - Word
Payloads(h) == {len \in Lens(h) : s64(len) >= 0}

IsMin(x, S) == x \in S /\ \A y \in S : x <= y
IsMax(x, S) == x \in S /\ \A y \in S : y <= x

ExactCount(f)    == flow_map[f].num_packet = Len(hist[f])
ExactLengths(f)  ==
  /\ Payloads(hist[f]) # {} => IsMin(flow_map[f].min_packet_length, Payloads(hist[f]))
  /\ IsMax(flow_map[f].max_packet_length, Lens(hist[f]))
ExactDuration(f) == IsMax(flow_map[f].max_duration, Durations(hist[f]))
ExactHeaders(f)  == flow_map[f].header_length = sent[f]

\* Between packets, the entry of every flow whose packets were handled one at a time
\* holds exactly the features common.h documents, of all the packets received: none
\* is lost to a failed insert, to the table being full or to other flows' packets.  A
\* packet whose total length does not cover its IP header leaves the minimum of the
\* others right, and spoils the maximum alone: that is of the lengths as unsigned words,
\* among which the wrapped one is a number that the s64 field shows as negative.
FeaturesExact ==
  \A f \in Tracked \ raced : Busy(f) = {} =>
    ExactCount(f) /\ ExactLengths(f) /\ ExactDuration(f) /\ ExactHeaders(f)

\* However many CPUs work on a flow, at any moment: counts and sums are never too high,
\* a recorded length is one that was seen, and once a packet has been handled the count
\* by which xdp_output_linear divides is not zero, whoever is still updating the entry.
NothingInvented ==
  \A f \in Tracked :
    LET a == flow_map[f]
    IN  /\ a.num_packet <= Len(hist[f])
        /\ a.header_length <= sent[f]
        /\ a.min_packet_length \in Lens(hist[f]) \cup {Word \div 4 - 1}
        /\ a.max_packet_length \in Lens(hist[f]) \cup {0}
        /\ Cardinality(Busy(f)) < Len(hist[f]) => a.num_packet > 0

\* An entry stays, and changes one field at a time: an insert that comes too late does
\* not reset it (BPF_NOEXIST).
NoReset ==
  [][\A f \in Tracked :
       /\ f \in Tracked'
       /\ Cardinality({n \in FieldNames : flow_map'[f][n] # flow_map[f][n]}) <= 1]_vars

\* common.h:6, "Number of packets", for every flow.
NumberOfPackets == \A f \in Tracked : Busy(f) = {} => ExactCount(f)

\* common.h:9, "Maximum time between two packets sent in the forward direction".
MaximumTime == \A f \in Tracked : Busy(f) = {} => ExactDuration(f)

\* What the field that a CPU with locals r works on becomes in the entry attr.
Coming(r, attr) ==
  CASE r.pc = "load"    -> NewValue(Fields[r.field], attr, r.pkt)
    [] r.pc = "compare" -> Greater(r.value, attr[Fields[r.field]])
    [] r.pc = "store"   -> r.value

\* The entry of a flow once the packet of a CPU with locals r is done.  No field is
\* computed from one that is stored before it.
Completed(r, attr) ==
  [n \in FieldNames |->
     IF n = Fields[r.field] THEN Coming(r, attr)
     ELSE IF n \in {Fields[i] : i \in r.field + 1 .. 6} THEN NewValue(n, attr, r.pkt)
     ELSE attr[n]]

\* A packet counts as handled from when its entry has been found or made.
Updating == {"load", "compare", "store"}
Settled(f) ==
  LET at == {c \in Busy(f) : cpu[c].pc \in Updating}
  IN  IF at = {} THEN flow_map[f] ELSE Completed(cpu[CHOOSE c \in at : TRUE], flow_map[f])

\* The field-by-field update, the insert and the second lookup implement one step per
\* packet for every flow whose packets do not overlap, whatever happens to other flows.
Table ==
  INSTANCE FeatureTable WITH
    features <- [f \in Tracked \ raced |-> Settled(f)], NoLength <- Word \div 4 - 1

UpdatesAreAtomic == Table!Spec

=============================================================================
