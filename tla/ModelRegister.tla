---------------------------- MODULE ModelRegister ----------------------------
(***************************************************************************)
(* What hot updates promise to the XDP programs: the network they read is  *)
(* a single register.  A deployment replaces the whole of it by a newer    *)
(* network in one step.  Where nothing is promised (deployments that       *)
(* overlap, a loader that is cleaning up) the register is not trusted, and *)
(* holds anything until the next proper deployment.                        *)
(***************************************************************************)
EXTENDS Naturals

CONSTANTS
  Arrays,   \* what a network consists of
  Models    \* the networks, numbered from 0

VARIABLES
  net,      \* which network each array of the one in use comes from
  trusted   \* nothing has gone wrong since the last deployment

Init ==
  /\ net = [a \in Arrays |-> 0]
  /\ trusted = TRUE

\* A newer network takes the place of the one in use, as a whole.
Deploy ==
  \E m \in Models :
    /\ \A a \in Arrays : net[a] < m
    /\ net' = [a \in Arrays |-> m]
    /\ trusted' = TRUE

\* The register is, or ceases to be, out of order.
Disturb == trusted' = FALSE

Next == Deploy \/ Disturb

Spec == Init /\ [][Next]_<<net, trusted>>

=============================================================================
