----------------------------- MODULE ModelSlots -----------------------------
(***************************************************************************)
(* The two model slots of NN-eBPF and the hot_updating program.            *)
(*                                                                         *)
(* src/src/params.bpf.h declares two pinned array maps: nn_parameters, two *)
(* slots holding a quantised network each, and nn_idx, the index of the    *)
(* slot the XDP programs use.  src/src/hot_updating.c is run by hand to    *)
(* deploy a new network: it opens both maps by their pin paths, reads      *)
(* nn_idx, writes the OTHER slot and then points nn_idx at it.  No lock is *)
(* taken, no error is acted upon, and nothing stops two executions from    *)
(* running at once.  On its way out the loader, src/src/xdp.c, removes the *)
(* two pins one after the other while the XDP programs are still attached. *)
(*                                                                         *)
(* Every execution is numbered and the network compiled into it is known   *)
(* by that number; the zero-filled slots of a fresh map hold network 0.    *)
(* The kernel copies a slot with a plain memcpy, which concurrent XDP      *)
(* programs can observe half way: the copy is one step per array of        *)
(* struct Net, in any order.                                               *)
(***************************************************************************)
EXTENDS Integers, FiniteSets

CONSTANTS
  Updaters,   \* processes that execute hot_updating
  MaxRuns     \* bound: how many executions are started in all

ASSUME MaxRunsAssumption == MaxRuns \in Nat

Maps   == {"nn_parameters", "nn_idx"}
Slots  == {0, 1}
Arrays == {"layer_0_weight", "layer_1_weight", "layer_2_weight", "mean", "scale"}
Models == 0 .. MaxRuns

VARIABLES
  nn_parameters,   \* the slots: which network each array of each slot comes from
  nn_idx,          \* the slot in use
  pins,            \* the maps whose pin path exists
  upd,             \* one record per hot_updating process
  nruns,           \* executions started so far
  solo,            \* history: running executions that overlapped no other
  published        \* history: the execution that set nn_idx last, and was it solo

slotVars == <<nn_parameters, nn_idx, pins, upd, nruns, solo, published>>

UpdaterState ==
  [pc : {"idle", "open_idx", "lookup", "copy"},
   fds : SUBSET Maps, run : Models, new_nn_idx : Slots, copied : SUBSET Arrays]

IdleUpdater ==
  [pc |-> "idle", fds |-> {}, run |-> 0, new_nn_idx |-> 0, copied |-> {}]

Running == {u \in Updaters : upd[u].pc # "idle"}

\* The state in which xdp.c attaches: fresh zero-filled maps, both pinned, nn_idx = 1.
SlotsInit ==
  /\ nn_parameters = [s \in Slots |-> [a \in Arrays |-> 0]]
  /\ nn_idx = 1
  /\ pins = Maps
  /\ upd = [u \in Updaters |-> IdleUpdater]
  /\ nruns = 0
  /\ solo = {}
  /\ published = [run |-> 0, solo |-> TRUE]

\* bpf_obj_get of one pin path: the descriptor is valid only if the pin exists,
\* and an invalid one is carried along.
ObjGet(map) == IF map \in pins THEN {map} ELSE {}

\* hot_updating starts and opens nn_parameters.
Launch(u) ==
  /\ upd[u].pc = "idle"
  /\ nruns < MaxRuns
  /\ nruns' = nruns + 1
  /\ upd' = [upd EXCEPT ![u] = [pc |-> "open_idx", fds |-> ObjGet("nn_parameters"),
                                run |-> nruns + 1, new_nn_idx |-> 0, copied |-> {}]]
  /\ solo' = IF Running = {} THEN {u} ELSE {}
  /\ UNCHANGED <<nn_parameters, nn_idx, pins, published>>

\* ... opens nn_idx.
OpenIdx(u) ==
  /\ upd[u].pc = "open_idx"
  /\ upd' = [upd EXCEPT ![u].pc = "lookup", ![u].fds = @ \cup ObjGet("nn_idx")]
  /\ UNCHANGED <<nn_parameters, nn_idx, pins, nruns, solo, published>>

\* Mutant: the index is not taken modulo 2.
LookupIdx_NoWrap(u) ==
  /\ upd[u].pc = "lookup"
  /\ upd' = [upd EXCEPT ![u].pc = "copy",
       ![u].new_nn_idx = (IF "nn_idx" \in upd[u].fds THEN nn_idx ELSE 0) + 1]
  /\ UNCHANGED <<nn_parameters, nn_idx, pins, nruns, solo, published>>

\* ... looks the current index up; on failure its own nn_idx keeps the 0 it was
\* initialised with.
LookupIdx(u) ==
  LET cur == IF "nn_idx" \in upd[u].fds THEN nn_idx ELSE 0
  IN  /\ upd[u].pc = "lookup"
      /\ upd' = [upd EXCEPT ![u].pc = "copy", ![u].new_nn_idx = (cur + 1) % 2]
      /\ UNCHANGED <<nn_parameters, nn_idx, pins, nruns, solo, published>>

\* ... bpf_map_update_elem(nn_parameters): the kernel copies the new network over
\* the other slot, one array at a time.
CopyArray(u, a) ==
  /\ upd[u].pc = "copy"
  /\ "nn_parameters" \in upd[u].fds
  /\ a \notin upd[u].copied
  /\ nn_parameters' = [nn_parameters EXCEPT ![upd[u].new_nn_idx][a] = upd[u].run]
  /\ upd' = [upd EXCEPT ![u].copied = @ \cup {a}]
  /\ UNCHANGED <<nn_idx, pins, nruns, solo, published>>

\* Mutant: the index is set before the slot is written.
SlotWritten_Early(u) == upd[u].pc = "copy"

\* The bpf() system call that copies the slot has returned, or failed at once.
SlotWritten(u) ==
  /\ upd[u].pc = "copy"
  /\ "nn_parameters" \in upd[u].fds => upd[u].copied = Arrays

\* ... bpf_map_update_elem(nn_idx), whatever the first update returned; then the
\* process exits.
Publish(u) ==
  /\ SlotWritten(u)
  /\ upd' = [upd EXCEPT ![u] = IdleUpdater]
  /\ IF "nn_idx" \in upd[u].fds
       THEN /\ nn_idx' = upd[u].new_nn_idx
            /\ published' = [run |-> upd[u].run, solo |-> u \in solo]
       ELSE UNCHANGED <<nn_idx, published>>
  /\ solo' = solo \ {u}
  /\ UNCHANGED <<nn_parameters, pins, nruns>>

\* The process is killed between two of its system calls.
Kill(u) ==
  /\ \/ upd[u].pc \in {"open_idx", "lookup"}
     \/ upd[u].pc = "copy" /\ upd[u].copied \in {{}, Arrays}
  /\ upd' = [upd EXCEPT ![u] = IdleUpdater]
  /\ solo' = solo \ {u}
  /\ UNCHANGED <<nn_parameters, nn_idx, pins, nruns, published>>

\* The loader's cleanup: remove(nn_parameters), then remove(nn_idx).
RemovePin ==
  /\ \/ pins = Maps     /\ pins' = {"nn_idx"}
     \/ pins = {"nn_idx"} /\ pins' = {}
  /\ UNCHANGED <<nn_parameters, nn_idx, upd, nruns, solo, published>>

UpdaterNext(u) ==
  \/ Launch(u)
  \/ OpenIdx(u)
  \/ LookupIdx(u)
  \/ \E a \in Arrays : CopyArray(u, a)
  \/ Publish(u)
  \/ Kill(u)

SlotsNext ==
  \/ \E u \in Updaters : UpdaterNext(u)
  \/ RemovePin

SlotsSpec == SlotsInit /\ [][SlotsNext]_slotVars

-----------------------------------------------------------------------------

\* Type invariant: the slots, the index and the updaters' locals stay in range.
SlotsTypeOK ==
  /\ nn_parameters \in [Slots -> [Arrays -> Models]]
  /\ nn_idx \in Slots
  /\ pins \in SUBSET Maps
  /\ upd \in [Updaters -> UpdaterState]
  /\ nruns \in Nat /\ nruns <= MaxRuns
  /\ solo \in SUBSET Updaters
  /\ published \in [run : Models, solo : BOOLEAN]

\* The loader has not begun its cleanup, and the last execution to set nn_idx
\* overlapped no other.
Orderly == pins = Maps /\ published.solo

\* While the slots are used in an orderly way, the slot the XDP programs read is
\* whole and holds the network published last: executions in progress, killed ones
\* and the overlapping ones of the past have left no trace in it
\* (hot_updating.c writes the slot nn_idx does not point at, all of it, first).
ActiveWhole ==
  Orderly => \A a \in Arrays : nn_parameters[nn_idx][a] = published.run

\* No array of the slot in use ever goes back to an older network.
NoRollback ==
  [][Orderly /\ Orderly' =>
       \A a \in Arrays : nn_parameters'[nn_idx'][a] >= nn_parameters[nn_idx][a]]_slotVars

\* To the XDP programs, which read the slot that nn_idx names, the two slots, the index
\* and all of hot_updating's steps are one register that a deployment replaces at once:
\* writing the other slot before nn_idx makes the copy of five arrays atomic for them.
Register ==
  INSTANCE ModelRegister WITH net <- nn_parameters[nn_idx], trusted <- Orderly

SlotsAreARegister == Register!Spec

=============================================================================
