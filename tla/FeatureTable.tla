---------------------------- MODULE FeatureTable ----------------------------
(***************************************************************************)
(* What update_flow_attribute (src/src/handler.bpf.h) promises for a flow  *)
(* whose packets are handled one at a time: every packet changes all the   *)
(* features of its flow in one step, as src/src/common.h describes them,   *)
(* and nothing else changes them.  Packets of a flow that overlap end the  *)
(* promise for that flow, and for no other.                                *)
(***************************************************************************)
EXTENDS Integers

CONSTANTS
  Flows,
  Lengths, Doffs,   \* length, as the program's u64, and header length (in words) of a packet
  NoLength          \* minimum length of no packets at all

VARIABLES
  features,   \* of the flows that have had a packet
  raced       \* the flows for which nothing is promised any more

Lesser(x, y)  == IF x < y THEN x ELSE y
Greater(x, y) == IF x > y THEN x ELSE y

NoFeatures(time) ==
  [num_packet |-> 0, min_packet_length |-> NoLength, max_packet_length |-> 0,
   max_duration |-> 0, last_packet_time |-> time, header_length |-> 0]

\* The features after one more packet.
After(a, pkt) ==
  [num_packet        |-> a.num_packet + 1,
   min_packet_length |-> Lesser(a.min_packet_length, pkt.len),
   max_packet_length |-> Greater(a.max_packet_length, pkt.len),
   max_duration      |-> Greater(a.max_duration, pkt.time - a.last_packet_time),
   last_packet_time  |-> pkt.time,
   header_length     |-> a.header_length + 4 * pkt.doff]

Init ==
  /\ features = [f \in {} |-> NoFeatures(0)]
  /\ raced = {}

\* A packet that is not older than the one before it.  Its time is any that
\* last_packet_time can be given.
Packet(f) ==
  /\ f \in (Flows \ raced) \cap DOMAIN features'
  /\ \E len \in Lengths, doff \in Doffs :
       LET time == features'[f].last_packet_time
           old  == IF f \in DOMAIN features THEN features[f] ELSE NoFeatures(time)
       IN  /\ old.last_packet_time <= time
           /\ features' = [g \in DOMAIN features \cup {f} |->
                             IF g = f THEN After(old, [time |-> time, len |-> len, doff |-> doff])
                                      ELSE features[g]]
  /\ UNCHANGED raced

\* Packets of f overlap.
Race(f) ==
  /\ raced' = raced \cup {f}
  /\ features' = [g \in DOMAIN features \ {f} |-> features[g]]

Next == \E f \in Flows : Packet(f) \/ Race(f)

Spec == Init /\ [][Next]_<<features, raced>>

=============================================================================
