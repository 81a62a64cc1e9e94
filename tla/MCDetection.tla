---------------------------- MODULE MCDetection ----------------------------
(* Detection for TLC: the CPUs are interchangeable. *)
EXTENDS Detection, TLC

CPUSymmetry == Permutations(CPUs)

=============================================================================
