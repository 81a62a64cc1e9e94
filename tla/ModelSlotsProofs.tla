-------------------------- MODULE ModelSlotsProofs --------------------------
(***************************************************************************)
(* Proofs about ModelSlots: for any set of hot_updating processes and any  *)
(* number of executions, the slot in use is whole and never rolls back     *)
(* while the slots are used in an orderly way.                             *)
(***************************************************************************)
EXTENDS ModelSlots, TLAPS

\* An execution that overlapped no other is the only one running.
SoloAlone ==
  \A u \in solo : upd[u].pc # "idle" /\ \A v \in Updaters \ {u} : upd[v].pc = "idle"

\* Until the loader starts removing pins, both maps open.
HandlesOpen ==
  pins = Maps =>
    \A u \in Updaters :
      /\ upd[u].pc = "open_idx" => "nn_parameters" \in upd[u].fds
      /\ upd[u].pc \in {"lookup", "copy"} => upd[u].fds = Maps

\* After an orderly publication nobody writes the slot in use.
OffActive ==
  Orderly => \A u \in Updaters : upd[u].pc = "copy" => upd[u].new_nn_idx # nn_idx

\* Nothing is copied before the index has been looked up.
CopiedLast ==
  \A u \in Updaters : upd[u].pc # "copy" => upd[u].copied = {}

\* What an execution on its own has copied is still there.
SoloCopied ==
  \A u \in solo : upd[u].pc = "copy" =>
    \A a \in upd[u].copied : nn_parameters[upd[u].new_nn_idx][a] = upd[u].run

\* Executions are numbered in the order they start.
RunsBounded ==
  /\ published.run <= nruns
  /\ \A u \in Updaters : upd[u].run <= nruns
  /\ \A u \in solo : published.run < upd[u].run

\* The inductive invariant.
SlotsInv ==
  /\ SlotsTypeOK
  /\ SoloAlone
  /\ HandlesOpen
  /\ OffActive
  /\ CopiedLast
  /\ SoloCopied
  /\ RunsBounded
  /\ ActiveWhole

-----------------------------------------------------------------------------

\* The state in which the loader attaches satisfies the invariant.
LEMMA SlotsInvInit == SlotsInit => SlotsInv
  BY MaxRunsAssumption
     DEF SlotsInit, SlotsInv, SlotsTypeOK, SoloAlone, HandlesOpen, OffActive, CopiedLast,
         SoloCopied, RunsBounded, ActiveWhole, Orderly, Maps, Slots, Arrays, Models, UpdaterState,
         IdleUpdater

\* A new hot_updating process keeps the invariant: it ends the solitude of the others.
LEMMA LaunchKeeps ==
  ASSUME SlotsInv, NEW u \in Updaters, Launch(u)
  PROVE  SlotsInv'
  <1> USE MaxRunsAssumption
          DEF SlotsInv, Launch, ObjGet, Maps, Slots, Arrays, Models, Orderly
  <1>1. SlotsTypeOK'
    BY DEF SlotsTypeOK, UpdaterState
  <1>2. SoloAlone'
    BY DEF SoloAlone, SlotsTypeOK, UpdaterState, Running
  <1>3. HandlesOpen' /\ CopiedLast'
    BY DEF HandlesOpen, CopiedLast, SlotsTypeOK, UpdaterState
  <1>4. OffActive'
    BY DEF OffActive, SlotsTypeOK, UpdaterState
  <1>5. SoloCopied'
    BY DEF SoloCopied, SlotsTypeOK, UpdaterState
  <1>6. RunsBounded'
    BY DEF RunsBounded, SlotsTypeOK, UpdaterState
  <1>7. ActiveWhole'
    BY DEF ActiveWhole
  <1> QED
    BY <1>1, <1>2, <1>3, <1>4, <1>5, <1>6, <1>7

\* Opening nn_idx keeps it.
LEMMA OpenIdxKeeps ==
  ASSUME SlotsInv, NEW u \in Updaters, OpenIdx(u)
  PROVE  SlotsInv'
  <1> USE DEF SlotsInv, Orderly
  <1> DEFINE fds == upd[u].fds \cup ObjGet("nn_idx")
  <1>a. /\ upd[u].pc = "open_idx"
        /\ upd' = [upd EXCEPT ![u].pc = "lookup", ![u].fds = fds]
        /\ fds \in SUBSET Maps
        /\ pins = Maps => fds = Maps
        /\ UNCHANGED <<nn_parameters, nn_idx, pins, nruns, solo, published>>
    BY DEF OpenIdx, ObjGet, SlotsTypeOK, UpdaterState, HandlesOpen, Maps
  <1> HIDE DEF fds
  <1>1. SlotsTypeOK'
    <2> DEFINE r == [upd[u] EXCEPT !.pc = "lookup", !.fds = fds]
    <2>1. r \in UpdaterState
      BY <1>a DEF SlotsTypeOK, UpdaterState
    <2>2. upd' = [upd EXCEPT ![u] = r]
      BY <1>a
    <2> QED
      BY <1>a, <2>1, <2>2 DEF SlotsTypeOK
  <1>2. SoloAlone'
    BY <1>a DEF SoloAlone, SlotsTypeOK, UpdaterState
  <1>3. HandlesOpen' /\ CopiedLast'
    BY <1>a DEF HandlesOpen, CopiedLast, SlotsTypeOK, UpdaterState
  <1>4. OffActive'
    BY <1>a DEF OffActive, SlotsTypeOK, UpdaterState
  <1>5. SoloCopied'
    BY <1>a DEF SoloCopied, SlotsTypeOK, UpdaterState
  <1>6. RunsBounded'
    BY <1>a DEF RunsBounded, SlotsTypeOK, UpdaterState
  <1>7. ActiveWhole'
    BY <1>a DEF ActiveWhole
  <1> QED
    BY <1>1, <1>2, <1>3, <1>4, <1>5, <1>6, <1>7

\* Looking the index up keeps it: the other slot is chosen.
LEMMA LookupIdxKeeps ==
  ASSUME SlotsInv, NEW u \in Updaters, LookupIdx(u)
  PROVE  SlotsInv'
  <1> USE DEF SlotsInv, Orderly
  <1> DEFINE new == ((IF "nn_idx" \in upd[u].fds THEN nn_idx ELSE 0) + 1) % 2
  <1>a. /\ upd[u].pc = "lookup"
        /\ upd' = [upd EXCEPT ![u].pc = "copy", ![u].new_nn_idx = new]
        /\ UNCHANGED <<nn_parameters, nn_idx, pins, nruns, solo, published>>
    BY DEF LookupIdx
  <1>b. new \in Slots /\ (pins = Maps => new # nn_idx)
    BY <1>a DEF SlotsTypeOK, HandlesOpen, Maps, Slots
  <1>c. upd[u].copied = {}
    BY <1>a DEF CopiedLast
  <1> HIDE DEF new
  <1>1. SlotsTypeOK'
    <2> DEFINE r == [upd[u] EXCEPT !.pc = "copy", !.new_nn_idx = new]
    <2>1. r \in UpdaterState
      BY <1>a, <1>b DEF SlotsTypeOK, UpdaterState
    <2>2. upd' = [upd EXCEPT ![u] = r]
      BY <1>a
    <2> QED
      BY <1>a, <2>1, <2>2 DEF SlotsTypeOK
  <1>2. SoloAlone'
    BY <1>a DEF SoloAlone, SlotsTypeOK, UpdaterState
  <1>3. HandlesOpen' /\ CopiedLast'
    BY <1>a DEF HandlesOpen, CopiedLast, SlotsTypeOK, UpdaterState
  <1>4. OffActive'
    BY <1>a, <1>b DEF OffActive, SlotsTypeOK, UpdaterState
  <1>5. SoloCopied'
    BY <1>a, <1>c DEF SoloCopied, SlotsTypeOK, UpdaterState
  <1>6. RunsBounded'
    BY <1>a DEF RunsBounded, SlotsTypeOK, UpdaterState
  <1>7. ActiveWhole'
    BY <1>a DEF ActiveWhole
  <1> QED
    BY <1>1, <1>2, <1>3, <1>4, <1>5, <1>6, <1>7

\* Copying an array keeps it: the slot in use is not touched.
LEMMA CopyArrayKeeps ==
  ASSUME SlotsInv, NEW u \in Updaters, NEW a \in Arrays, CopyArray(u, a)
  PROVE  SlotsInv'
  <1> USE DEF SlotsInv, Slots, Models, Orderly
  <1> DEFINE s == upd[u].new_nn_idx
  <1>a. /\ upd[u].pc = "copy"
        /\ nn_parameters' = [nn_parameters EXCEPT ![s][a] = upd[u].run]
        /\ upd' = [upd EXCEPT ![u].copied = upd[u].copied \cup {a}]
        /\ upd[u].copied \cup {a} \in SUBSET Arrays
        /\ s \in Slots /\ upd[u].run \in Models
        /\ UNCHANGED <<nn_idx, pins, nruns, solo, published>>
    BY DEF CopyArray, SlotsTypeOK, UpdaterState
  <1>b. Orderly => s # nn_idx
    BY <1>a DEF OffActive
  <1>1. SlotsTypeOK'
    <2>1. upd' \in [Updaters -> UpdaterState]
      BY <1>a DEF SlotsTypeOK, UpdaterState
    <2> QED
      BY <1>a, <2>1 DEF SlotsTypeOK
  <1>2. SoloAlone'
    BY <1>a DEF SoloAlone, SlotsTypeOK, UpdaterState
  <1>3. HandlesOpen' /\ CopiedLast'
    BY <1>a DEF HandlesOpen, CopiedLast, SlotsTypeOK, UpdaterState
  <1>4. OffActive'
    BY <1>a DEF OffActive, SlotsTypeOK, UpdaterState
  <1>5. SoloCopied'
    BY <1>a DEF SoloCopied, SoloAlone, SlotsTypeOK, UpdaterState
  <1>6. RunsBounded'
    BY <1>a DEF RunsBounded, SlotsTypeOK, UpdaterState
  <1>7. ActiveWhole'
    BY <1>a, <1>b DEF ActiveWhole, SlotsTypeOK
  <1> QED
    BY <1>1, <1>2, <1>3, <1>4, <1>5, <1>6, <1>7

\* Setting nn_idx keeps it: the slot that becomes current has been written in full.
LEMMA PublishKeeps ==
  ASSUME SlotsInv, NEW u \in Updaters, Publish(u)
  PROVE  SlotsInv'
  <1> USE DEF SlotsInv, Orderly
  <1>a. /\ upd[u].pc = "copy"
        /\ upd' = [upd EXCEPT ![u] = IdleUpdater]
        /\ solo' = solo \ {u}
        /\ UNCHANGED <<nn_parameters, pins, nruns>>
    BY DEF Publish, SlotWritten
  <1>b. pins = Maps =>
          /\ nn_idx' = upd[u].new_nn_idx
          /\ published'.run = upd[u].run
          /\ published'.solo => u \in solo
          /\ upd[u].copied = Arrays
    <2> SUFFICES ASSUME pins = Maps
                 PROVE  /\ nn_idx' = upd[u].new_nn_idx
                        /\ published'.run = upd[u].run
                        /\ published'.solo => u \in solo
                        /\ upd[u].copied = Arrays
      OBVIOUS
    <2>1. upd[u].fds = Maps
      BY <1>a DEF HandlesOpen
    <2>2. "nn_idx" \in upd[u].fds /\ "nn_parameters" \in upd[u].fds
      BY <2>1 DEF Maps
    <2>3. nn_idx' = upd[u].new_nn_idx /\ published' = [run |-> upd[u].run, solo |-> u \in solo]
      BY <2>2 DEF Publish
    <2>4. published'.run = upd[u].run /\ published'.solo = (u \in solo)
      BY <2>3, Zenon
    <2> QED
      BY <1>a, <2>2, <2>3, <2>4 DEF Publish, SlotWritten
  <1>c. /\ nn_idx' \in Slots
        /\ published' \in [run : Models, solo : BOOLEAN]
        /\ published'.run = published.run \/ published'.run = upd[u].run
    <2>1. upd[u] \in UpdaterState
      BY DEF SlotsTypeOK
    <2>2. CASE "nn_idx" \in upd[u].fds
      <3>1. nn_idx' = upd[u].new_nn_idx /\ published' = [run |-> upd[u].run, solo |-> u \in solo]
        BY <2>2 DEF Publish
      <3>2. (u \in solo) \in BOOLEAN
        OBVIOUS
      <3> QED
        BY <2>1, <3>1, <3>2 DEF UpdaterState
    <2>3. CASE "nn_idx" \notin upd[u].fds
      BY <2>3 DEF Publish, SlotsTypeOK
    <2> QED
      BY <2>2, <2>3
  <1>d. solo' = {}
    BY <1>a DEF SoloAlone, SlotsTypeOK
  <1>1. SlotsTypeOK'
    <2>1. IdleUpdater \in UpdaterState
      BY MaxRunsAssumption DEF IdleUpdater, UpdaterState, Slots, Models
    <2> QED
      BY <1>a, <1>c, <1>d, <2>1 DEF SlotsTypeOK
  <1>2. SoloAlone'
    BY <1>d DEF SoloAlone
  <1>3. HandlesOpen' /\ CopiedLast'
    BY <1>a DEF HandlesOpen, CopiedLast, SlotsTypeOK, IdleUpdater
  <1>4. OffActive'
    BY <1>a, <1>b DEF OffActive, SoloAlone, SlotsTypeOK, IdleUpdater
  <1>5. SoloCopied'
    BY <1>d DEF SoloCopied
  <1>6. RunsBounded'
    <2>1. \A v \in Updaters : upd'[v].run <= nruns
      BY <1>a DEF RunsBounded, SlotsTypeOK, IdleUpdater
    <2> QED
      BY <1>a, <1>c, <1>d, <2>1 DEF RunsBounded
  <1>7. ActiveWhole'
    BY <1>a, <1>b DEF ActiveWhole, SoloCopied
  <1> QED
    BY <1>1, <1>2, <1>3, <1>4, <1>5, <1>6, <1>7

\* A killed process leaves nothing that breaks it.
LEMMA KillKeeps ==
  ASSUME SlotsInv, NEW u \in Updaters, Kill(u)
  PROVE  SlotsInv'
  <1> USE DEF SlotsInv, Kill, Slots, Models, Orderly
  <1>1. SlotsTypeOK'
    BY MaxRunsAssumption DEF SlotsTypeOK, UpdaterState, IdleUpdater, Maps
  <1>2. SoloAlone'
    BY DEF SoloAlone, SlotsTypeOK
  <1>3. HandlesOpen' /\ CopiedLast'
    BY DEF HandlesOpen, CopiedLast, SlotsTypeOK, IdleUpdater
  <1>4. OffActive'
    BY DEF OffActive, SlotsTypeOK, IdleUpdater
  <1>5. SoloCopied'
    BY DEF SoloCopied, SlotsTypeOK, IdleUpdater
  <1>6. RunsBounded'
    BY MaxRunsAssumption DEF RunsBounded, SlotsTypeOK, IdleUpdater
  <1>7. ActiveWhole'
    BY DEF ActiveWhole
  <1> QED
    BY <1>1, <1>2, <1>3, <1>4, <1>5, <1>6, <1>7

\* The loader's cleanup ends the orderly use.
LEMMA RemovePinKeeps ==
  ASSUME SlotsInv, RemovePin
  PROVE  SlotsInv'
  <1>1. pins' # Maps /\ pins' \in SUBSET Maps
    BY DEF RemovePin, Maps
  <1>2. UNCHANGED <<nn_parameters, nn_idx, upd, nruns, solo, published>>
    BY DEF RemovePin
  <1> QED
    BY <1>1, <1>2
       DEF SlotsInv, SlotsTypeOK, SoloAlone, HandlesOpen, OffActive, CopiedLast,
           SoloCopied, RunsBounded, ActiveWhole, Orderly

\* Every step of SlotsSpec keeps the invariant.
LEMMA SlotsInvStep == SlotsInv /\ [SlotsNext]_slotVars => SlotsInv'
  <1> SUFFICES ASSUME SlotsInv, [SlotsNext]_slotVars
               PROVE  SlotsInv'
    OBVIOUS
  <1>1. ASSUME NEW u \in Updaters, UpdaterNext(u)
        PROVE  SlotsInv'
    BY <1>1, LaunchKeeps, OpenIdxKeeps, LookupIdxKeeps, CopyArrayKeeps, PublishKeeps,
       KillKeeps
       DEF UpdaterNext
  <1>2. CASE RemovePin
    BY <1>2, RemovePinKeeps
  <1>3. CASE UNCHANGED slotVars
    BY <1>3
       DEF slotVars, SlotsInv, SlotsTypeOK, SoloAlone, HandlesOpen, OffActive, CopiedLast,
           SoloCopied, RunsBounded, ActiveWhole, Orderly
  <1> QED
    BY <1>1, <1>2, <1>3 DEF SlotsNext

\* Hence it always holds.
LEMMA SlotsInvAlways == SlotsSpec => []SlotsInv
  BY SlotsInvInit, SlotsInvStep, PTL DEF SlotsSpec

-----------------------------------------------------------------------------

\* Type correctness of the slots, the index and hot_updating's locals.
THEOREM SlotsTypeCorrect == SlotsSpec => []SlotsTypeOK
  <1>1. SlotsInv => SlotsTypeOK
    BY DEF SlotsInv
  <1> QED
    BY <1>1, SlotsInvAlways, PTL

\* The network the XDP programs read is whole and is the one published last, for any
\* set of hot_updating processes and any number of executions of them.
THEOREM SlotsActiveWhole == SlotsSpec => []ActiveWhole
  <1>1. SlotsInv => ActiveWhole
    BY DEF SlotsInv
  <1> QED
    BY <1>1, SlotsInvAlways, PTL

\* The slot in use never goes back to an older network.
THEOREM SlotsNoRollback == SlotsSpec => NoRollback
  <1> DEFINE Newer == Orderly /\ Orderly' =>
                        \A a \in Arrays : nn_parameters'[nn_idx'][a] >= nn_parameters[nn_idx][a]
  <1>1. ASSUME SlotsInv, SlotsInv', [SlotsNext]_slotVars
        PROVE  [Newer]_slotVars
    <2> SUFFICES ASSUME Orderly, Orderly', NEW a \in Arrays
                 PROVE  nn_parameters'[nn_idx'][a] >= nn_parameters[nn_idx][a]
      OBVIOUS
    <2>1. /\ nn_parameters[nn_idx][a] = published.run
          /\ nn_parameters'[nn_idx'][a] = published'.run
      BY <1>1 DEF SlotsInv, ActiveWhole
    <2>2. published.run \in Int /\ published'.run \in Int
      BY <1>1 DEF SlotsInv, SlotsTypeOK, Models
    <2>3. published'.run >= published.run
      <3>1. ASSUME NEW u \in Updaters, Publish(u)
            PROVE  published'.run >= published.run
        <4>1. CASE "nn_idx" \notin upd[u].fds
          BY <2>2, <3>1, <4>1 DEF Publish
        <4>2. CASE "nn_idx" \in upd[u].fds
          <5>1. published' = [run |-> upd[u].run, solo |-> u \in solo]
            BY <3>1, <4>2 DEF Publish
          <5>2. published'.run = upd[u].run /\ published'.solo = (u \in solo)
            BY <5>1, Zenon
          <5>3. u \in solo
            BY <5>2 DEF Orderly
          <5> QED
            BY <1>1, <2>2, <5>2, <5>3 DEF SlotsInv, RunsBounded
        <4> QED
          BY <4>1, <4>2
      <3>2. CASE \A u \in Updaters : ~Publish(u)
        <4>1. ASSUME NEW u \in Updaters, UpdaterNext(u)
              PROVE  published' = published
          BY <3>2, <4>1 DEF UpdaterNext, Launch, OpenIdx, LookupIdx, CopyArray, Kill
        <4>2. RemovePin \/ UNCHANGED slotVars => published' = published
          BY DEF RemovePin, slotVars
        <4>3. published' = published
          BY <1>1, <4>1, <4>2 DEF SlotsNext
        <4> QED
          BY <2>2, <4>3
      <3> QED
        BY <3>1, <3>2
    <2> QED
      BY <2>1, <2>2, <2>3
  <1> QED
    BY <1>1, SlotsInvAlways, PTL DEF SlotsSpec, NoRollback

-----------------------------------------------------------------------------
(* The refinement of ModelRegister. *)

\* No slot holds anything newer than the execution started last.
WrittenBounded ==
  \A s \in Slots, a \in Arrays : nn_parameters[s][a] <= nruns

\* An execution on its own is newer than the network in use, and keeps off its slot,
\* even if earlier ones have overlapped.
SoloAhead ==
  pins = Maps =>
    \A u \in solo :
      /\ upd[u].pc = "copy" => upd[u].new_nn_idx # nn_idx
      /\ \A a \in Arrays : nn_parameters[nn_idx][a] < upd[u].run

RegisterInv == SlotsInv /\ WrittenBounded /\ SoloAhead

\* It holds in fresh maps.
LEMMA RegisterInvInit == SlotsInit => RegisterInv
  BY SlotsInvInit, MaxRunsAssumption
     DEF RegisterInv, WrittenBounded, SoloAhead, SlotsInit, Slots

\* Every step keeps the bound on what has been written.
LEMMA WrittenBoundedStep ==
  ASSUME RegisterInv, [SlotsNext]_slotVars
  PROVE  WrittenBounded'
  <1> USE DEF RegisterInv, WrittenBounded
  <1>1. ASSUME NEW u \in Updaters, NEW a \in Arrays, CopyArray(u, a)
        PROVE  WrittenBounded'
    <2>1. upd[u].run <= nruns
      BY DEF SlotsInv, RunsBounded
    <2>2. /\ nn_parameters' = [nn_parameters EXCEPT ![upd[u].new_nn_idx][a] = upd[u].run]
          /\ nruns' = nruns
      BY <1>1 DEF CopyArray
    <2> QED
      BY <2>1, <2>2 DEF SlotsInv, SlotsTypeOK
  <1>2. ASSUME NEW u \in Updaters, Launch(u)
        PROVE  WrittenBounded'
    BY <1>2 DEF Launch, SlotsInv, SlotsTypeOK, Models
  <1>3. ASSUME NEW u \in Updaters, UpdaterNext(u)
        PROVE  WrittenBounded'
    BY <1>1, <1>2, <1>3 DEF UpdaterNext, OpenIdx, LookupIdx, Publish, Kill
  <1> QED
    BY <1>3 DEF SlotsNext, RemovePin, slotVars

\* Every step keeps an execution on its own ahead.
LEMMA SoloAheadStep ==
  ASSUME RegisterInv, [SlotsNext]_slotVars
  PROVE  SoloAhead'
  <1> USE DEF RegisterInv, SlotsInv, SoloAhead
  <1>1. ASSUME NEW u \in Updaters, Launch(u)
        PROVE  SoloAhead'
    <2>1. /\ upd' = [upd EXCEPT ![u] =
               [pc |-> "open_idx", fds |-> ObjGet("nn_parameters"), run |-> nruns + 1,
                new_nn_idx |-> 0, copied |-> {}]]
          /\ solo' \subseteq {u}
          /\ UNCHANGED <<nn_parameters, nn_idx, pins>>
      BY <1>1 DEF Launch
    <2>2. upd'[u].pc = "open_idx" /\ upd'[u].run = nruns + 1
      BY <2>1 DEF SlotsTypeOK
    <2>3. \A a \in Arrays : nn_parameters[nn_idx][a] < nruns + 1
      BY DEF WrittenBounded, SlotsTypeOK, Models
    <2> QED
      BY <2>1, <2>2, <2>3
  <1>2. ASSUME NEW u \in Updaters, OpenIdx(u)
        PROVE  SoloAhead'
    BY <1>2 DEF OpenIdx, SlotsTypeOK, UpdaterState
  <1>3. ASSUME NEW u \in Updaters, LookupIdx(u)
        PROVE  SoloAhead'
    <2> DEFINE new == ((IF "nn_idx" \in upd[u].fds THEN nn_idx ELSE 0) + 1) % 2
    <2>1. /\ upd[u].pc = "lookup"
          /\ upd' = [upd EXCEPT ![u].pc = "copy", ![u].new_nn_idx = new]
          /\ UNCHANGED <<nn_parameters, nn_idx, pins, solo>>
      BY <1>3 DEF LookupIdx
    <2>2. pins = Maps => new # nn_idx
      BY <2>1 DEF SlotsTypeOK, HandlesOpen, Maps, Slots
    <2> HIDE DEF new
    <2> QED
      BY <2>1, <2>2 DEF SlotsTypeOK, UpdaterState
  <1>4. ASSUME NEW u \in Updaters, NEW a \in Arrays, CopyArray(u, a)
        PROVE  SoloAhead'
    <2>1. /\ upd[u].pc = "copy"
          /\ nn_parameters' = [nn_parameters EXCEPT ![upd[u].new_nn_idx][a] = upd[u].run]
          /\ upd' = [upd EXCEPT ![u].copied = upd[u].copied \cup {a}]
          /\ UNCHANGED <<nn_idx, pins, solo>>
      BY <1>4 DEF CopyArray
    <2>2. \A v \in solo : v = u
      BY <2>1 DEF SoloAlone, SlotsTypeOK
    <2> QED
      BY <2>1, <2>2 DEF SlotsTypeOK, UpdaterState
  <1>5. ASSUME NEW u \in Updaters, Publish(u)
        PROVE  SoloAhead'
    <2>1. upd[u].pc = "copy" /\ solo' = solo \ {u}
      BY <1>5 DEF Publish, SlotWritten
    <2>2. solo' = {}
      BY <2>1 DEF SoloAlone, SlotsTypeOK
    <2> QED
      BY <2>2
  <1>6. ASSUME NEW u \in Updaters, Kill(u)
        PROVE  SoloAhead'
    BY <1>6 DEF Kill, SlotsTypeOK
  <1>7. CASE RemovePin
    BY <1>7 DEF RemovePin, Maps
  <1>8. CASE UNCHANGED slotVars
    BY <1>8 DEF slotVars
  <1> QED
    BY <1>1, <1>2, <1>3, <1>4, <1>5, <1>6, <1>7, <1>8 DEF SlotsNext, UpdaterNext

\* The invariant of the refinement always holds.
LEMMA RegisterInvAlways == SlotsSpec => []RegisterInv
  <1>1. RegisterInv /\ [SlotsNext]_slotVars => RegisterInv'
    BY SlotsInvStep, WrittenBoundedStep, SoloAheadStep DEF RegisterInv
  <1> QED
    BY <1>1, RegisterInvInit, PTL DEF SlotsSpec

\* A step of the slots is a deployment of the register, a disturbance, or nothing to it.
LEMMA RegisterStep ==
  ASSUME RegisterInv, RegisterInv', [SlotsNext]_slotVars
  PROVE  [Register!Next]_<<nn_parameters[nn_idx], Orderly>>
  <1> USE DEF RegisterInv
  <1>1. CASE ~Orderly'
    <2>1. Orderly' = FALSE
      BY <1>1 DEF Orderly, SlotsInv, SlotsTypeOK
    <2> QED
      BY <2>1 DEF Register!Next, Register!Disturb
  <1>2. ASSUME Orderly', NEW u \in Updaters, Publish(u)
        PROVE  Register!Deploy
    <2>1. pins = Maps /\ pins' = Maps
      BY <1>2 DEF Orderly, Publish
    <2>2. upd[u].pc = "copy" /\ upd[u].fds = Maps
      BY <1>2, <2>1 DEF Publish, SlotWritten, SlotsInv, HandlesOpen
    <2>3. published' = [run |-> upd[u].run, solo |-> u \in solo]
      BY <1>2, <2>2 DEF Publish, Maps
    <2>4. published'.run = upd[u].run /\ published'.solo = (u \in solo)
      BY <2>3, Zenon
    <2>5. u \in solo /\ upd[u].run \in Models
      BY <1>2, <2>4 DEF Orderly, SlotsInv, SlotsTypeOK, UpdaterState
    <2>6. \A a \in Arrays : nn_parameters[nn_idx][a] < upd[u].run
      BY <2>1, <2>5 DEF SoloAhead
    <2>7. \A a \in Arrays : nn_parameters'[nn_idx'][a] = upd[u].run
      BY <1>2, <2>4 DEF SlotsInv, ActiveWhole
    <2>8. nn_parameters'[nn_idx'] = [a \in Arrays |-> upd[u].run]
      BY <2>7 DEF SlotsInv, SlotsTypeOK
    <2>9. Orderly' = TRUE
      BY <1>2 DEF Orderly, SlotsInv, SlotsTypeOK
    <2> QED
      BY <2>5, <2>6, <2>8, <2>9 DEF Register!Deploy
  <1>3. ASSUME Orderly', \A u \in Updaters : ~Publish(u)
        PROVE  UNCHANGED <<nn_parameters[nn_idx], Orderly>>
    <2>1. pins = Maps
      BY <1>3 DEF Orderly, SlotsNext, UpdaterNext, Launch, OpenIdx, LookupIdx, CopyArray, Kill,
                  RemovePin, slotVars, Maps
    <2>2. nn_idx' = nn_idx /\ published' = published /\ pins' = pins
      BY <1>3, <2>1 DEF Orderly, SlotsNext, UpdaterNext, Launch, OpenIdx, LookupIdx, CopyArray,
                  Kill, RemovePin, slotVars, Maps
    <2>3. Orderly' = Orderly /\ Orderly
      BY <1>3, <2>2 DEF Orderly
    <2>4. \A a \in Arrays : nn_parameters'[nn_idx'][a] = nn_parameters[nn_idx][a]
      BY <1>3, <2>2, <2>3 DEF SlotsInv, ActiveWhole
    <2>5. nn_parameters'[nn_idx'] = nn_parameters[nn_idx]
      BY <2>4 DEF SlotsInv, SlotsTypeOK
    <2> QED
      BY <2>3, <2>5
  <1> QED
    BY <1>1, <1>2, <1>3 DEF Register!Next

\* The slots, the index and hot_updating implement a register that deployments replace
\* in one step, for any set of hot_updating processes and any number of executions.
THEOREM SlotsImplementRegister == SlotsSpec => SlotsAreARegister
  <1>1. SlotsInit => Register!Init
    BY DEF SlotsInit, Register!Init, Orderly, Slots
  <1> QED
    BY <1>1, RegisterInvAlways, RegisterStep, PTL DEF SlotsSpec, SlotsAreARegister, Register!Spec

=============================================================================
