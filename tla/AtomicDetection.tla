--------------------------- MODULE AtomicDetection ---------------------------
(***************************************************************************)
(* What the chain of XDP programs promises: a detection is one operation.  *)
(* It takes effect at the FIN or RST of a flow, with the features of the   *)
(* flow and the network in use at that moment, and later prints the        *)
(* verdict fixed then.  A detection that meets something the code does not *)
(* provide for (Undisturbed in Detection) may print anything; once the     *)
(* loader has begun to empty the tail-call table it may print nothing.     *)
(***************************************************************************)
CONSTANTS
  CPUs,
  Verdict(_, _),   \* of the features after so many packets, by which network
  Counts,          \* numbers of packets
  Nothing          \* what was printed by a CPU that has not printed

VARIABLES
  network,   \* the network deployed last
  pending,   \* per CPU: the detection it has begun
  printed,   \* per CPU: the verdict it printed last
  serving    \* the tail-call table is intact

None    == [state |-> "none"]
Spoilt  == [state |-> "spoilt"]
Owed(v) == [state |-> "owed", verdict |-> v]

Init ==
  /\ network = 0
  /\ pending = [c \in CPUs |-> None]
  /\ printed = [c \in CPUs |-> Nothing]
  /\ serving = TRUE

\* A packet that does not end its flow, or that cannot be handed on.
Pass(c) ==
  /\ pending[c] = None /\ pending'[c] = None
  /\ printed'[c] = Nothing

\* A packet that ends its flow.
Begin(c) ==
  /\ pending[c] = None
  /\ \E n \in Counts : pending'[c] \in {Owed(Verdict(n, network)), Spoilt}
  /\ printed'[c] = Nothing

Report(c) ==
  /\ pending'[c] = None
  /\ pending[c] \in {Owed(printed'[c]), Spoilt}

Drop(c) ==
  /\ ~serving
  /\ pending[c] # None /\ pending'[c] = None
  /\ printed'[c] = printed[c]

\* What other processes and CPUs may do to the detection on c.
Wait(c) ==
  /\ \/ pending'[c] = pending[c]
     \/ pending[c] # None /\ pending'[c] = Spoilt
  /\ printed'[c] = printed[c]

\* At most one CPU takes a step of its own at a time; the table is emptied for good, and
\* networks are replaced, while all wait.
Step ==
  /\ \E c \in CPUs :
       /\ Pass(c) \/ Begin(c) \/ Report(c) \/ Drop(c)
       /\ \A d \in CPUs \ {c} : Wait(d)
  /\ UNCHANGED <<network, serving>>

Environment ==
  /\ \A c \in CPUs : Wait(c)
  /\ serving' => serving

Spec == Init /\ [][Step \/ Environment]_<<network, pending, printed, serving>>

=============================================================================
