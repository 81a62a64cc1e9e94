--------------------------- MODULE DeploymentProofs ---------------------------
(***************************************************************************)
(* Proofs about Deployment: for any number of loader and hot_updating      *)
(* processes and of executions, the pins follow the loader that serves.    *)
(***************************************************************************)
EXTENDS Deployment, TLAPS

USE DEF MainLoop

\* From the load to the main loop.
Upward == {"maps", "pin", "fill", "set_idx", "attach", "check", "loop", "sleep"}

\* What a loader has reused or pinned is still pinned, unless somebody has removed a pin.
ReadyPinned(l) ==
  ldr[l].kept /\ ldr[l].pc \in Upward =>
    \A m \in ldr[l].ready : pins[m] = ldr[l].map[m] /\ ldr[l].map[m] # NoMap

\* Where a loader is tells what it has done.
InOrder(l) ==
  /\ ldr[l].pc \in {"fill", "set_idx", "attach", "check", "loop", "sleep"} => ldr[l].ready = Maps
  /\ ldr[l].pc = "pin" => ldr[l].ready # Maps /\ ldr[l].map[Current(l)] = ldr[l].load
  /\ ldr[l].pc # "off" => ldr[l].load \in Loads

\* A loader that has overlapped no other is the only one.
SoleAlone(l) ==
  ldr[l].sole => /\ ldr[l].pc # "off"
                 /\ \A k \in Loaders \ {l} : ldr[k].pc = "off"

\* Such a loader has removed the pins that its cleanup has passed.
Cleaned(l) ==
  ldr[l].sole =>
    /\ ldr[l].pc \in {"rm_nn_idx", "destroy", "exit"} => pins["nn_parameters"] = NoMap
    /\ ldr[l].pc \in {"destroy", "exit"} => pins["nn_idx"] = NoMap

\* The inductive invariant.
PinsInv ==
  /\ TypeOK
  /\ \A l \in Loaders : ReadyPinned(l) /\ InOrder(l) /\ SoleAlone(l) /\ Cleaned(l)

-----------------------------------------------------------------------------

\* The records of processes that do not run.
LEMMA IdleTyped == NoLoader \in LoaderState /\ NoUpdater \in UpdaterState
  <1>1. NoRefs \in MapRefs
    BY DEF NoRefs, MapRefs, Loads
  <1>2. 0 \in Models
    BY DeploymentAssumption DEF Models
  <1> QED
    BY <1>1, <1>2
       DEF NoLoader, LoaderState, LoaderPCs, NoUpdater, UpdaterState, Slots

\* Initial types.
LEMMA TypeInit == Init => TypeOK
  <1> SUFFICES ASSUME Init PROVE TypeOK
    OBVIOUS
  <1>1. NoRefs \in MapRefs
    BY DEF NoRefs, MapRefs, Loads
  <1>2. 0 \in Models /\ 0 \in 0 .. MaxLoads /\ 0 \in 0 .. MaxRuns
    BY DeploymentAssumption DEF Models
  <1> QED
    BY <1>1, <1>2, IdleTyped DEF Init, TypeOK, Slots

\* A process that starts disturbs the others without spoiling their types.
LEMMA DisturbedTyped ==
  ASSUME TypeOK
  PROVE  /\ Disturbed(ldr) \in [Loaders -> LoaderState]
         /\ Disturbed(upd) \in [Updaters -> UpdaterState]
  <1>1. \A l \in Loaders : [ldr[l] EXCEPT !.sole = FALSE] \in LoaderState
    BY DEF TypeOK, LoaderState
  <1>2. \A u \in Updaters : [upd[u] EXCEPT !.sole = FALSE] \in UpdaterState
    BY DEF TypeOK, UpdaterState
  <1> QED
    BY <1>1, <1>2 DEF TypeOK, Disturbed

\* Loader l goes on as r, and the other variables keep their types.
LEMMA LoaderGoesOn ==
  ASSUME TypeOK, NEW l \in Loaders, NEW r \in LoaderState, ldr' = [ldr EXCEPT ![l] = r],
         UNCHANGED <<nn_parameters, upd, nloads, nruns>>,
         nn_idx' \in [Loads -> Slots], pins' \in MapRefs, attached' \subseteq Loaders
  PROVE  TypeOK'
  BY DEF TypeOK

\* So does an updater.
LEMMA UpdaterGoesOn ==
  ASSUME TypeOK, NEW u \in Updaters, NEW r \in UpdaterState, upd' = [upd EXCEPT ![u] = r],
         UNCHANGED <<pins, attached, ldr, nloads, nruns>>,
         nn_idx' \in [Loads -> Slots], nn_parameters' \in [Loads -> [Slots -> Models]]
  PROVE  TypeOK'
  BY DEF TypeOK

\* What a loader does of itself keeps the types.
LEMMA LoaderTyped ==
  ASSUME TypeOK, NEW l \in Loaders,
         LoaderStep(l) \/ LoadFails(l) \/ ReturnEarly(l) \/ Sigint(l) \/ Kill(l)
  PROVE  TypeOK'
  <1> DEFINE r == ldr[l]
  <1>a. r \in LoaderState
    BY DEF TypeOK
  <1>b. /\ pins \in MapRefs /\ nn_idx \in [Loads -> Slots] /\ attached \subseteq Loaders
        /\ ldr \in [Loaders -> LoaderState]
    BY DEF TypeOK
  <1>m. Current(l) \in Maps
    BY DEF Current, Maps
  <1>l. r.load \in Loads \cup {NoMap}
    BY <1>a DEF LoaderState, NoMap
  <1>pc. \A pc \in LoaderPCs : [r EXCEPT !.pc = pc] \in LoaderState
    BY <1>a DEF LoaderState
  <1>g. Gone(l) => TypeOK'
    BY <1>b, LoaderGoesOn, IdleTyped DEF Gone
  <1>1. CASE ReuseMap(l)
    <2> DEFINE m == Current(l)
               reused  == [r EXCEPT !.map[m] = pins[m], !.ready = @ \cup {m}, !.retried = FALSE]
               created == [r EXCEPT !.map[m] = r.load, !.pc = "pin"]
               failed  == [r EXCEPT !.pc = "unpin"]
    <2>1. reused \in LoaderState
      BY <1>a, <1>b, <1>m DEF LoaderState, MapRefs
    <2>2. created \in LoaderState
      BY <1>a, <1>m, <1>l DEF LoaderState, MapRefs, LoaderPCs
    <2>3. failed \in LoaderState
      BY <1>pc DEF LoaderPCs
    <2>4. /\ ldr' = [ldr EXCEPT ![l] = reused] \/ ldr' = [ldr EXCEPT ![l] = created]
             \/ ldr' = [ldr EXCEPT ![l] = failed]
          /\ UNCHANGED <<kernel, upd, nloads, nruns>>
      <3>1. CASE pins[m] # NoMap
        BY <1>1, <3>1 DEF ReuseMap
      <3>2. CASE pins[m] = NoMap /\ r.retried
        BY <1>1, <3>2 DEF ReuseMap
      <3>3. CASE pins[m] = NoMap /\ ~r.retried
        BY <1>1, <3>3 DEF ReuseMap
      <3> QED
        BY <3>1, <3>2, <3>3
    <2> HIDE DEF reused, created, failed
    <2> QED
      BY <1>b, <2>1, <2>2, <2>3, <2>4, LoaderGoesOn DEF kernel
  <1>2. CASE PinMap(l)
    <2> DEFINE m == Current(l)
               pinned  == [r EXCEPT !.pc = "maps", !.ready = @ \cup {m}, !.own = @ \cup {m}]
               retried == [r EXCEPT !.pc = "maps", !.retried = TRUE, !.map[m] = NoMap]
    <2>1. pinned \in LoaderState
      BY <1>a, <1>m DEF LoaderState, LoaderPCs
    <2>2. retried \in LoaderState
      BY <1>a, <1>m DEF LoaderState, MapRefs, LoaderPCs
    <2>3. [pins EXCEPT ![m] = r.load] \in MapRefs
      BY <1>b, <1>l DEF MapRefs
    <2>4. /\ \/ ldr' = [ldr EXCEPT ![l] = pinned] /\ pins' = [pins EXCEPT ![m] = r.load]
             \/ ldr' = [ldr EXCEPT ![l] = retried] /\ pins' = pins
          /\ UNCHANGED <<nn_parameters, nn_idx, attached, upd, nloads, nruns>>
      BY <1>2, <1>b DEF PinMap
    <2> HIDE DEF pinned, retried
    <2> QED
      BY <1>b, <2>1, <2>2, <2>3, <2>4, LoaderGoesOn
  <1>u. ASSUME NEW m \in Maps, NEW s \in LoaderState, Unlink(l, m, s),
               UNCHANGED <<nn_parameters, nn_idx, attached, upd, nloads, nruns>>
        PROVE  TypeOK'
    <2>1. pins' \in MapRefs
      BY <1>b, <1>u DEF Unlink, MapRefs
    <2>2. \A k \in Loaders : [ldr[k] EXCEPT !.kept = @ /\ pins[m] = NoMap] \in LoaderState
      BY <1>b DEF LoaderState
    <2>3. ldr' \in [Loaders -> LoaderState]
      BY <1>u, <2>2 DEF Unlink
    <2> QED
      BY <1>u, <2>1, <2>3 DEF TypeOK
  <1>3. CASE Unpin(l)
    <2> DEFINE m == IF "nn_parameters" \in r.own THEN "nn_parameters" ELSE "nn_idx"
               less == [r EXCEPT !.own = @ \ {m}]
    <2>1. m \in Maps /\ less \in LoaderState
      BY <1>a DEF LoaderState, Maps
    <2>2. [r EXCEPT !.pc = "rm_nn_parameters"] \in LoaderState
      BY <1>pc DEF LoaderPCs
    <2>3. /\ \/ ldr' = [ldr EXCEPT ![l] = [r EXCEPT !.pc = "rm_nn_parameters"]] /\ pins' = pins
             \/ Unlink(l, m, less)
          /\ UNCHANGED <<nn_parameters, nn_idx, attached, upd, nloads, nruns>>
      BY <1>3 DEF Unpin
    <2> HIDE DEF m, less
    <2> QED
      BY <1>b, <1>u, <2>1, <2>2, <2>3, LoaderGoesOn
  <1>4. CASE RemovePin(l)
    <2>1. /\ [r EXCEPT !.pc = "rm_nn_idx"] \in LoaderState
          /\ [r EXCEPT !.pc = "destroy"] \in LoaderState
          /\ "nn_parameters" \in Maps /\ "nn_idx" \in Maps
      BY <1>pc DEF LoaderPCs, Maps
    <2> QED
      BY <1>4, <1>u, <2>1 DEF RemovePin
  <1>5. CASE FillTable(l)
    <2>1. [r EXCEPT !.pc = "set_idx", !.table = TRUE] \in LoaderState
      BY <1>a DEF LoaderState, LoaderPCs
    <2>2. ldr' = [ldr EXCEPT ![l] = [r EXCEPT !.pc = "set_idx", !.table = TRUE]]
      BY <1>5, <1>b DEF FillTable
    <2> QED
      BY <1>5, <1>b, <2>1, <2>2, LoaderGoesOn DEF FillTable, kernel
  <1>6. CASE SetIdx(l)
    <2>1. nn_idx' \in [Loads -> Slots]
      BY <1>6, <1>b DEF SetIdx, Slots
    <2>2. [r EXCEPT !.pc = "attach"] \in LoaderState
      BY <1>pc DEF LoaderPCs
    <2> QED
      BY <1>6, <1>b, <2>1, <2>2, LoaderGoesOn DEF SetIdx
  <1>7. CASE Attach(l)
    <2>1. [r EXCEPT !.pc = "check"] \in LoaderState
      BY <1>pc DEF LoaderPCs
    <2> QED
      BY <1>7, <1>b, <1>g, <2>1, LoaderGoesOn DEF Attach
  <1>8. CASE Destroy(l)
    <2>1. [r EXCEPT !.pc = "exit", !.table = FALSE] \in LoaderState
      BY <1>a DEF LoaderState, LoaderPCs
    <2>2. ldr' = [ldr EXCEPT ![l] = [r EXCEPT !.pc = "exit", !.table = FALSE]]
      BY <1>8, <1>b DEF Destroy
    <2> QED
      BY <1>8, <1>b, <2>1, <2>2, LoaderGoesOn DEF Destroy, kernel
  <1>9. CASE Sigint(l)
    <2> DEFINE pc == IF r.pc = "sleep" THEN "check" ELSE r.pc
    <2>1. pc \in LoaderPCs
      BY <1>a DEF LoaderState, LoaderPCs
    <2> HIDE DEF pc
    <2>2. [r EXCEPT !.exiting = TRUE, !.pc = pc] \in LoaderState
      BY <1>a, <2>1 DEF LoaderState
    <2>3. ldr' = [ldr EXCEPT ![l] = [r EXCEPT !.exiting = TRUE, !.pc = pc]]
      BY <1>9, <1>a, <1>b DEF Sigint, pc, LoaderState
    <2> QED
      BY <1>9, <1>b, <2>2, <2>3, LoaderGoesOn DEF Sigint, kernel
  <1>10. CASE Loaded(l) \/ LoadFails(l) \/ Check(l) \/ FallAsleep(l) \/ Wake(l)
    <2>1. PICK pc \in LoaderPCs : ldr' = [ldr EXCEPT ![l] = [r EXCEPT !.pc = pc]]
      BY <1>10 DEF Loaded, LoadFails, Check, FallAsleep, Wake, LoaderPCs
    <2>2. UNCHANGED <<kernel, upd, nloads, nruns>>
      BY <1>10 DEF Loaded, LoadFails, Check, FallAsleep, Wake
    <2> QED
      BY <1>b, <1>pc, <2>1, <2>2, LoaderGoesOn DEF kernel
  <1>11. CASE ReturnEarly(l) \/ Exit(l) \/ Kill(l)
    BY <1>11, <1>g DEF ReturnEarly, Exit, Kill
  <1> QED
    BY <1>1, <1>2, <1>3, <1>4, <1>5, <1>6, <1>7, <1>8, <1>9, <1>10, <1>11 DEF LoaderStep


\* What hot_updating does keeps the types: it never writes a slot that is not there.
LEMMA UpdaterTyped ==
  ASSUME TypeOK, NEW u \in Updaters, UpdaterStep(u) \/ KillUpdater(u)
  PROVE  TypeOK'
  <1> DEFINE r == upd[u]
  <1>a. r \in UpdaterState
    BY DEF TypeOK
  <1>b. /\ pins \in MapRefs /\ nn_idx \in [Loads -> Slots]
        /\ nn_parameters \in [Loads -> [Slots -> Models]]
        /\ upd \in [Updaters -> UpdaterState]
    BY DEF TypeOK
  <1>1. CASE OpenIdx(u)
    <2> DEFINE alike == r.fd["nn_parameters"] = NoMap <=> pins["nn_idx"] = NoMap
               sole  == r.sole /\ alike
               s == [r EXCEPT !.pc = "lookup", !.fd["nn_idx"] = pins["nn_idx"],
                              !.sole = sole]
    <2>0. sole \in BOOLEAN
      OBVIOUS
    <2>2. upd' = [upd EXCEPT ![u] = s]
      BY <1>1, <1>b DEF OpenIdx
    <2> HIDE DEF sole
    <2>1. s \in UpdaterState
      BY <1>a, <1>b, <2>0 DEF UpdaterState, MapRefs, Maps
    <2> HIDE DEF s
    <2> QED
      BY <1>1, <1>b, <2>1, <2>2, UpdaterGoesOn DEF OpenIdx, kernel
  <1>2. CASE LookupIdx(u)
    <2> DEFINE fd  == r.fd["nn_idx"]
               new == ((IF fd = NoMap THEN 0 ELSE nn_idx[fd]) + 1) % 2
               s   == [r EXCEPT !.pc = "write", !.new_nn_idx = new]
    <2>0. fd \in Loads \cup {NoMap}
      BY <1>a DEF UpdaterState, MapRefs, Maps
    <2>1. new \in Slots
      BY <1>b, <2>0 DEF Slots
    <2> HIDE DEF new
    <2>2. s \in UpdaterState
      BY <1>a, <2>1 DEF UpdaterState
    <2>3. upd' = [upd EXCEPT ![u] = s]
      BY <1>2, <1>b DEF LookupIdx, new
    <2> HIDE DEF s
    <2> QED
      BY <1>2, <1>b, <2>2, <2>3, UpdaterGoesOn DEF LookupIdx, kernel
  <1>3. CASE WriteSlot(u)
    <2>1. nn_parameters' \in [Loads -> [Slots -> Models]]
      BY <1>a, <1>b, <1>3 DEF WriteSlot, UpdaterState, MapRefs
    <2>2. [r EXCEPT !.pc = "publish"] \in UpdaterState
      BY <1>a DEF UpdaterState
    <2> QED
      BY <1>3, <1>b, <2>1, <2>2, UpdaterGoesOn DEF WriteSlot
  <1>4. CASE Publish(u)
    <2>1. nn_idx' \in [Loads -> Slots]
      BY <1>a, <1>b, <1>4 DEF Publish, UpdaterState
    <2> QED
      BY <1>4, <1>b, <2>1, IdleTyped, UpdaterGoesOn DEF Publish
  <1>5. CASE KillUpdater(u)
    BY <1>5, <1>b, IdleTyped, UpdaterGoesOn DEF KillUpdater, kernel
  <1> QED
    BY <1>1, <1>2, <1>3, <1>4, <1>5 DEF UpdaterStep

\* Every step keeps the types.
LEMMA TypeStep == TypeOK /\ [Next]_vars => TypeOK'
  <1> SUFFICES ASSUME TypeOK, [Next]_vars PROVE TypeOK'
    OBVIOUS
  <1>1. ASSUME NEW l \in Loaders, Start(l) PROVE TypeOK'
    <2> DEFINE sole == Loading = {}
               s == [NoLoader EXCEPT !.pc = "maps", !.load = nloads + 1, !.sole = sole,
                                     !.kept = TRUE]
    <2>1. nloads + 1 \in Loads /\ nloads' \in 0 .. MaxLoads
      BY <1>1, DeploymentAssumption DEF Start, TypeOK, Loads
    <2>s. sole \in BOOLEAN
      OBVIOUS
    <2> HIDE DEF sole
    <2>2. s \in LoaderState
      BY <2>1, <2>s, IdleTyped DEF LoaderState, LoaderPCs
    <2>3. /\ ldr' = [Disturbed(ldr) EXCEPT ![l] = s] /\ upd' = Disturbed(upd)
          /\ UNCHANGED <<kernel, nruns>>
      BY <1>1 DEF Start, sole
    <2> HIDE DEF s
    <2> QED
      BY <2>1, <2>2, <2>3, DisturbedTyped DEF TypeOK, kernel
  <1>2. ASSUME NEW u \in Updaters, Launch(u) PROVE TypeOK'
    <2> DEFINE sole == Running = {} /\ Serving # {}
               s == [NoUpdater EXCEPT !.pc = "open_idx", !.run = nruns + 1,
                       !.fd["nn_parameters"] = pins["nn_parameters"], !.sole = sole]
    <2>1. nruns + 1 \in Models /\ nruns' \in 0 .. MaxRuns
      BY <1>2, DeploymentAssumption DEF Launch, TypeOK, Models
    <2>s. sole \in BOOLEAN
      OBVIOUS
    <2> HIDE DEF sole
    <2>2. s \in UpdaterState
      BY <2>1, <2>s, IdleTyped DEF TypeOK, UpdaterState, MapRefs, Maps
    <2>3. /\ upd' = [Disturbed(upd) EXCEPT ![u] = s]
          /\ UNCHANGED <<kernel, ldr, nloads>>
      BY <1>2 DEF Launch, sole
    <2> HIDE DEF s
    <2> QED
      BY <2>1, <2>2, <2>3, DisturbedTyped DEF TypeOK, kernel
  <1>3. CASE UNCHANGED vars
    BY <1>3 DEF TypeOK, vars
  <1> QED
    BY <1>1, <1>2, <1>3, LoaderTyped, UpdaterTyped DEF Next

\* Every program counter, descriptor, index and network number is one there is.
THEOREM DeploymentTypeCorrect == Spec => []TypeOK
  BY TypeInit, TypeStep, PTL DEF Spec

-----------------------------------------------------------------------------

\* The parts of the invariant that speak of one loader.
Orderly(l) == ReadyPinned(l) /\ InOrder(l) /\ SoleAlone(l) /\ Cleaned(l)

\* A map that the load has yet to get is not among those that are ready.
LEMMA CurrentMissing ==
  ASSUME TypeOK, NEW l \in Loaders, ldr[l].ready # Maps
  PROVE  Current(l) \in Maps /\ Current(l) \notin ldr[l].ready
  BY DEF TypeOK, LoaderState, Current, Maps

\* A loader that runs beside another one has not overlapped nobody.
LEMMA OthersNotSole ==
  ASSUME PinsInv, NEW l \in Loaders, ldr[l].pc # "off", NEW k \in Loaders \ {l}
  PROVE  ~ldr[k].sole
  BY DEF PinsInv, SoleAlone

\* A step of loader l to s that leaves the pins alone concerns no other loader.
LEMMA OwnStep ==
  ASSUME PinsInv, NEW l \in Loaders, ldr[l].pc # "off", NEW s \in LoaderState,
         ldr' = [ldr EXCEPT ![l] = s], pins' = pins,
         s.sole => ldr[l].sole /\ s.pc # "off",
         ReadyPinned(l)', InOrder(l)', Cleaned(l)'
  PROVE  \A k \in Loaders : Orderly(k)'
  <1>1. ASSUME NEW k \in Loaders \ {l} PROVE Orderly(k)'
    <2>1. ldr'[k] = ldr[k] /\ ~ldr[k].sole
      BY OthersNotSole DEF PinsInv, TypeOK
    <2>2. ReadyPinned(k)'
      BY <2>1 DEF PinsInv, ReadyPinned
    <2>3. InOrder(k)'
      BY <2>1 DEF PinsInv, InOrder, Current
    <2>4. SoleAlone(k)' /\ Cleaned(k)'
      BY <2>1 DEF SoleAlone, Cleaned
    <2> QED
      BY <2>2, <2>3, <2>4 DEF Orderly
  <1>2. SoleAlone(l)'
    <2>1. ldr'[l] = s /\ \A k \in Loaders \ {l} : ldr'[k] = ldr[k]
      BY DEF PinsInv, TypeOK
    <2> QED
      BY <2>1 DEF PinsInv, SoleAlone
  <1> QED
    BY <1>1, <1>2 DEF Orderly

\* A loader that is past its load, or gone, has only its cleanup to answer for.
LEMMA GoneOrderly ==
  ASSUME PinsInv, NEW l \in Loaders, ldr[l].pc # "off", Gone(l)
  PROVE  \A k \in Loaders : Orderly(k)'
  <1>1. ldr'[l] = NoLoader
    BY DEF Gone, PinsInv, TypeOK
  <1>2. ReadyPinned(l)' /\ InOrder(l)' /\ Cleaned(l)'
    BY <1>1 DEF NoLoader, ReadyPinned, InOrder, Cleaned, Upward
  <1> QED
    BY <1>2, OwnStep, IdleTyped DEF Gone, NoLoader

\* Reusing or creating a map: only one that was not ready before is touched.
LEMMA ReuseOrderly ==
  ASSUME PinsInv, NEW l \in Loaders, ReuseMap(l)
  PROVE  \A k \in Loaders : Orderly(k)'
  <1> DEFINE m == Current(l)
             r == ldr[l]
             s == ldr'[l]
  <1>t. TypeOK /\ TypeOK'
    BY LoaderTyped DEF PinsInv, LoaderStep
  <1>1. s \in LoaderState /\ r \in LoaderState /\ ldr' = [ldr EXCEPT ![l] = s]
    BY <1>t DEF ReuseMap, TypeOK
  <1>2. r.pc = "maps" /\ r.ready # Maps /\ pins' = pins
    BY DEF ReuseMap, kernel
  <1>3. m \in Maps /\ m \notin r.ready
    BY <1>t, <1>2, CurrentMissing
  <1>4. ReadyPinned(l) /\ InOrder(l)
    BY DEF PinsInv
  <1>5. CASE pins[m] # NoMap
    <2>1. /\ s.pc = "maps" /\ s.ready = r.ready \cup {m} /\ s.load = r.load
          /\ s.sole = r.sole /\ s.kept = r.kept
          /\ s.map = [r.map EXCEPT ![m] = pins[m]]
      BY <1>t, <1>1, <1>5 DEF ReuseMap, TypeOK, LoaderState
    <2>2. s.map[m] = pins[m] /\ \A n \in r.ready : s.map[n] = r.map[n]
      BY <1>1, <1>3, <2>1 DEF LoaderState, MapRefs
    <2>3. ReadyPinned(l)'
      BY <1>2, <1>4, <1>5, <2>1, <2>2 DEF ReadyPinned, Upward
    <2>4. InOrder(l)' /\ Cleaned(l)'
      BY <1>2, <1>4, <2>1 DEF InOrder, Cleaned
    <2> QED
      BY <1>1, <1>2, <2>1, <2>3, <2>4, OwnStep
  <1>6. CASE pins[m] = NoMap /\ r.retried
    <2>1. s.pc = "unpin" /\ s.load = r.load /\ s.sole = r.sole
      BY <1>t, <1>1, <1>6 DEF ReuseMap, TypeOK, LoaderState
    <2>2. ReadyPinned(l)' /\ InOrder(l)' /\ Cleaned(l)'
      BY <1>2, <1>4, <2>1 DEF ReadyPinned, InOrder, Cleaned, Upward
    <2> QED
      BY <1>1, <1>2, <2>1, <2>2, OwnStep
  <1>7. CASE pins[m] = NoMap /\ ~r.retried
    <2>1. /\ s.pc = "pin" /\ s.ready = r.ready /\ s.load = r.load
          /\ s.sole = r.sole /\ s.kept = r.kept
          /\ s.map = [r.map EXCEPT ![m] = r.load]
      BY <1>t, <1>1, <1>7 DEF ReuseMap, TypeOK, LoaderState
    <2>2. s.map[m] = r.load /\ \A n \in r.ready : s.map[n] = r.map[n]
      BY <1>1, <1>3, <2>1 DEF LoaderState, MapRefs
    <2>3. ReadyPinned(l)'
      BY <1>2, <1>4, <2>1, <2>2 DEF ReadyPinned, Upward
    <2>4. InOrder(l)' /\ Cleaned(l)'
      BY <1>2, <1>4, <2>1, <2>2 DEF InOrder, Cleaned, Current
    <2> QED
      BY <1>1, <1>2, <2>1, <2>3, <2>4, OwnStep
  <1> QED
    BY <1>5, <1>6, <1>7

\* Pinning a map: only where no pin is, so that no other loader's map loses its path.
LEMMA PinOrderly ==
  ASSUME PinsInv, NEW l \in Loaders, PinMap(l)
  PROVE  \A k \in Loaders : Orderly(k)'
  <1> DEFINE m == Current(l)
             r == ldr[l]
             s == ldr'[l]
  <1>t. TypeOK /\ TypeOK'
    BY LoaderTyped DEF PinsInv, LoaderStep
  <1>1. s \in LoaderState /\ r \in LoaderState /\ ldr' = [ldr EXCEPT ![l] = s]
    BY <1>t DEF PinMap, TypeOK
  <1>2. ReadyPinned(l) /\ InOrder(l) /\ r.pc = "pin"
    BY DEF PinsInv, PinMap
  <1>3. /\ m \in Maps /\ m \notin r.ready
        /\ r.map[m] = r.load /\ r.load \in Loads /\ r.load # NoMap
    BY <1>t, <1>2, CurrentMissing DEF InOrder, Loads, NoMap
  <1>4. CASE pins[m] # NoMap
    <2>1. /\ s.pc = "maps" /\ s.ready = r.ready /\ s.load = r.load
          /\ s.sole = r.sole /\ s.kept = r.kept /\ pins' = pins
          /\ s.map = [r.map EXCEPT ![m] = NoMap]
      BY <1>t, <1>1, <1>4 DEF PinMap, TypeOK, LoaderState
    <2>2. \A n \in r.ready : s.map[n] = r.map[n]
      BY <1>1, <1>3, <2>1 DEF LoaderState, MapRefs
    <2>3. ReadyPinned(l)'
      BY <1>2, <2>1, <2>2 DEF ReadyPinned, Upward
    <2>4. InOrder(l)' /\ Cleaned(l)'
      BY <1>2, <2>1 DEF InOrder, Cleaned
    <2> QED
      BY <1>1, <1>2, <2>1, <2>3, <2>4, OwnStep
  <1>5. CASE pins[m] = NoMap
    <2>1. /\ s.pc = "maps" /\ s.ready = r.ready \cup {m} /\ s.load = r.load
          /\ s.sole = r.sole /\ s.kept = r.kept /\ s.map = r.map
          /\ pins' = [pins EXCEPT ![m] = r.load]
      BY <1>t, <1>1, <1>5 DEF PinMap, TypeOK, LoaderState
    <2>2. pins'[m] = r.load /\ \A n \in Maps \ {m} : pins'[n] = pins[n]
      BY <1>t, <1>3, <2>1 DEF TypeOK, MapRefs
    <2>3. ReadyPinned(l)'
      BY <1>1, <1>2, <1>3, <2>1, <2>2 DEF ReadyPinned, Upward, LoaderState
    <2>4. InOrder(l)' /\ Cleaned(l)'
      BY <1>2, <2>1 DEF InOrder, Cleaned
    <2>5. ASSUME NEW k \in Loaders \ {l} PROVE Orderly(k)'
      <3>1. ldr'[k] = ldr[k] /\ ~ldr[k].sole
        BY <1>1, <1>2, OthersNotSole DEF PinsInv, TypeOK
      <3>2. ldr[k].ready \subseteq Maps
        BY <1>t DEF TypeOK, LoaderState
      <3>3. ReadyPinned(k)'
        BY <1>5, <2>2, <3>1, <3>2 DEF PinsInv, ReadyPinned
      <3>4. InOrder(k)'
        BY <3>1 DEF PinsInv, InOrder, Current
      <3>5. SoleAlone(k)' /\ Cleaned(k)'
        BY <3>1 DEF SoleAlone, Cleaned
      <3> QED
        BY <3>3, <3>4, <3>5 DEF Orderly
    <2>6. SoleAlone(l)'
      <3>1. \A k \in Loaders \ {l} : ldr'[k] = ldr[k]
        BY <1>1, <1>t DEF TypeOK
      <3> QED
        BY <1>2, <2>1, <3>1 DEF PinsInv, SoleAlone
    <2> QED
      BY <2>3, <2>4, <2>5, <2>6 DEF Orderly
  <1> QED
    BY <1>4, <1>5

\* Removing a pin: whoever used it is told by its history variable.
LEMMA UnlinkOrderly ==
  ASSUME PinsInv, NEW l \in Loaders, ldr[l].pc # "off", NEW m \in Maps,
         NEW s \in LoaderState, Unlink(l, m, s),
         s.sole = ldr[l].sole, s.load = ldr[l].load,
         s.pc \in {"unpin", "rm_nn_idx", "destroy"},
         s.pc = "rm_nn_idx" => m = "nn_parameters",
         s.pc = "destroy" => ldr[l].pc = "rm_nn_idx" /\ m = "nn_idx"
  PROVE  \A k \in Loaders : Orderly(k)'
  <1>1. /\ pins' \in [Maps -> Loads \cup {NoMap}] /\ pins'[m] = NoMap
        /\ \A n \in Maps \ {m} : pins'[n] = pins[n]
        /\ "nn_parameters" \in Maps /\ "nn_idx" \in Maps
    BY DEF Unlink, PinsInv, TypeOK, MapRefs, Maps
  <1>2. ldr'[l] = s
    BY DEF Unlink
  <1>3. ASSUME NEW k \in Loaders \ {l} PROVE Orderly(k)'
    <2> DEFINE t == ldr'[k]
    <2>1. ldr[k] \in LoaderState /\ t = [ldr[k] EXCEPT !.kept = @ /\ pins[m] = NoMap]
      BY DEF Unlink, PinsInv, TypeOK
    <2>2. /\ t.pc = ldr[k].pc /\ t.load = ldr[k].load /\ t.map = ldr[k].map
          /\ t.ready = ldr[k].ready /\ t.sole = ldr[k].sole
      BY <2>1 DEF LoaderState
    <2>3. t.kept => ldr[k].kept /\ pins[m] = NoMap
      BY <2>1 DEF LoaderState
    <2>4. ~t.sole
      BY <2>2, OthersNotSole
    <2>5. ReadyPinned(k) /\ InOrder(k) /\ ldr[k].ready \subseteq Maps
      BY <2>1 DEF PinsInv, LoaderState
    <2>6. ReadyPinned(k)'
      BY <1>1, <2>2, <2>3, <2>5 DEF ReadyPinned
    <2>7. InOrder(k)'
      BY <2>2, <2>5 DEF InOrder, Current
    <2>8. SoleAlone(k)' /\ Cleaned(k)'
      BY <2>4 DEF SoleAlone, Cleaned
    <2> QED
      BY <2>6, <2>7, <2>8 DEF Orderly
  <1>4. ReadyPinned(l)' /\ InOrder(l)'
    BY <1>2 DEF PinsInv, ReadyPinned, InOrder, Upward
  <1>5. Cleaned(l)'
    BY <1>1, <1>2 DEF PinsInv, Cleaned
  <1>6. SoleAlone(l)'
    <2>1. \A k \in Loaders \ {l} : ldr'[k].pc = ldr[k].pc
      BY DEF Unlink, PinsInv, TypeOK, LoaderState
    <2> QED
      BY <1>2, <2>1 DEF PinsInv, SoleAlone
  <1> QED
    BY <1>3, <1>4, <1>5, <1>6 DEF Orderly

\* The steps that neither change a pin nor the maps in use.
LEMMA PlainOrderly ==
  ASSUME PinsInv, NEW l \in Loaders,
         \/ Loaded(l) \/ LoadFails(l) \/ FillTable(l) \/ SetIdx(l)
         \/ Check(l) \/ FallAsleep(l) \/ Wake(l) \/ Sigint(l) \/ Destroy(l)
         \/ ldr[l].own = {} /\ Unpin(l)
         \/ attached = {} /\ Attach(l)
  PROVE  \A k \in Loaders : Orderly(k)'
  <1> DEFINE r == ldr[l]
             s == ldr'[l]
  <1>t. TypeOK /\ TypeOK'
    BY LoaderTyped DEF PinsInv, LoaderStep
  <1>1. s \in LoaderState /\ r \in LoaderState
    BY <1>t DEF TypeOK
  <1>2. ldr' = [ldr EXCEPT ![l] = s] /\ pins' = pins /\ r.pc # "off"
    BY <1>t DEF Loaded, LoadFails, FillTable, SetIdx, Check, FallAsleep, Wake, Sigint, Destroy, Unpin,
                Attach, kernel, TypeOK, Gone
  <1>3. /\ s.ready = r.ready /\ s.map = r.map /\ s.load = r.load
        /\ s.sole = r.sole /\ s.kept = r.kept
    BY <1>t, <1>1 DEF Loaded, LoadFails, FillTable, SetIdx, Check, FallAsleep, Wake, Sigint, Destroy,
                      Unpin, Attach, TypeOK, Gone, LoaderState
  <1>4. /\ s.pc \in LoaderPCs \ {"off", "maps", "pin", "rm_nn_idx", "destroy"} \/ s.pc = r.pc
        /\ s.pc \in Upward \ {"maps", "pin"} => r.pc \in Upward
        /\ s.pc \in {"fill", "set_idx", "attach", "check", "loop", "sleep"} => r.ready = Maps
        /\ s.pc = "exit" => r.pc \in {"destroy", "exit"}
    BY <1>t, <1>1 DEF Loaded, LoadFails, FillTable, SetIdx, Check, FallAsleep, Wake, Sigint, Destroy,
                      Unpin, Attach, TypeOK, Gone, LoaderState, LoaderPCs, Upward,
                      PinsInv, InOrder
  <1>5. ReadyPinned(l) /\ InOrder(l) /\ Cleaned(l)
    BY DEF PinsInv
  <1>6. ReadyPinned(l)'
    BY <1>2, <1>3, <1>4, <1>5 DEF ReadyPinned, Upward
  <1>7. InOrder(l)'
    BY <1>2, <1>3, <1>4, <1>5 DEF InOrder, Current
  <1>8. Cleaned(l)'
    BY <1>2, <1>3, <1>4, <1>5 DEF Cleaned
  <1>9. s.pc # "off"
    BY <1>2, <1>4
  <1> QED
    BY <1>1, <1>2, <1>3, <1>6, <1>7, <1>8, <1>9, OwnStep

\* The steps of a loader once it runs.
LEMMA LoaderOrderly ==
  ASSUME PinsInv, NEW l \in Loaders,
         LoaderStep(l) \/ LoadFails(l) \/ ReturnEarly(l) \/ Sigint(l) \/ Kill(l)
  PROVE  \A k \in Loaders : Orderly(k)'
  <1> DEFINE r == ldr[l]
  <1>a. r \in LoaderState
    BY DEF PinsInv, TypeOK
  <1>1. CASE ReuseMap(l) \/ PinMap(l)
    BY <1>1, ReuseOrderly, PinOrderly
  <1>2. CASE Unpin(l) /\ r.own # {}
    <2> DEFINE m == IF "nn_parameters" \in r.own THEN "nn_parameters" ELSE "nn_idx"
               s == [r EXCEPT !.own = @ \ {m}]
    <2>1. m \in Maps /\ s \in LoaderState /\ r.pc = "unpin" /\ Unlink(l, m, s)
      BY <1>a, <1>2 DEF LoaderState, Maps, Unpin
    <2>2. s.sole = r.sole /\ s.load = r.load /\ s.pc = "unpin"
      BY <1>a, <2>1 DEF LoaderState
    <2> HIDE DEF m, s
    <2> QED
      BY <2>1, <2>2, UnlinkOrderly
  <1>3. CASE RemovePin(l) /\ r.pc = "rm_nn_parameters"
    <2> DEFINE s == [r EXCEPT !.pc = "rm_nn_idx"]
    <2>1. /\ "nn_parameters" \in Maps /\ s \in LoaderState
          /\ s.sole = r.sole /\ s.load = r.load /\ s.pc = "rm_nn_idx"
          /\ Unlink(l, "nn_parameters", s)
      BY <1>a, <1>3 DEF LoaderState, LoaderPCs, Maps, RemovePin
    <2> HIDE DEF s
    <2> QED
      BY <1>3, <2>1, UnlinkOrderly
  <1>4. CASE RemovePin(l) /\ r.pc # "rm_nn_parameters"
    <2> DEFINE s == [r EXCEPT !.pc = "destroy"]
    <2>1. /\ "nn_idx" \in Maps /\ s \in LoaderState /\ r.pc = "rm_nn_idx"
          /\ s.sole = r.sole /\ s.load = r.load /\ s.pc = "destroy"
          /\ Unlink(l, "nn_idx", s)
      BY <1>a, <1>4 DEF LoaderState, LoaderPCs, Maps, RemovePin
    <2> HIDE DEF s
    <2> QED
      BY <2>1, UnlinkOrderly
  <1>5. CASE (Attach(l) /\ attached # {}) \/ ReturnEarly(l) \/ Exit(l) \/ Kill(l)
    BY <1>5, GoneOrderly DEF Attach, ReturnEarly, Exit, Kill
  <1>6. CASE \/ Loaded(l) \/ LoadFails(l) \/ FillTable(l) \/ SetIdx(l)
             \/ Check(l) \/ FallAsleep(l) \/ Wake(l) \/ Sigint(l) \/ Destroy(l)
             \/ r.own = {} /\ Unpin(l)
             \/ attached = {} /\ Attach(l)
    BY <1>6, PlainOrderly
  <1>7. CASE Unpin(l) \/ RemovePin(l) \/ Attach(l)
    BY <1>2, <1>3, <1>4, <1>5, <1>6, <1>7
  <1> QED
    BY <1>1, <1>5, <1>6, <1>7 DEF LoaderStep

\* A loader that starts marks those that run as no longer alone, and itself beside them.
LEMMA StartOrderly ==
  ASSUME PinsInv, NEW l \in Loaders, Start(l)
  PROVE  \A k \in Loaders : Orderly(k)'
  <1> DEFINE sole == Loading = {}
             s == [NoLoader EXCEPT !.pc = "maps", !.load = nloads + 1, !.sole = sole,
                                   !.kept = TRUE]
  <1>0. TypeOK
    BY DEF PinsInv
  <1>s. sole \in BOOLEAN
    OBVIOUS
  <1>p. sole => \A k \in Loaders : ldr[k].pc = "off"
    BY DEF Loading
  <1>1. ldr' = [Disturbed(ldr) EXCEPT ![l] = s] /\ pins' = pins
    BY DEF Start, kernel
  <1> HIDE DEF sole
  <1>2. /\ s.pc = "maps" /\ s.load = nloads + 1 /\ s.ready = {} /\ s.sole = sole
        /\ nloads + 1 \in Loads
    BY <1>0, <1>s, DeploymentAssumption DEF NoLoader, Start, TypeOK, Loads
  <1> HIDE DEF s
  <1>3. ldr'[l] = s
    BY <1>0, <1>1 DEF Disturbed, TypeOK
  <1>4. ASSUME NEW k \in Loaders \ {l}
        PROVE  ldr'[k] = [ldr[k] EXCEPT !.sole = FALSE] /\ ldr[k] \in LoaderState
    BY <1>0, <1>1 DEF Disturbed, TypeOK
  <1>5. ASSUME NEW k \in Loaders \ {l} PROVE Orderly(k)'
    <2> DEFINE t == ldr'[k]
    <2>1. /\ t.pc = ldr[k].pc /\ t.load = ldr[k].load /\ t.map = ldr[k].map
          /\ t.ready = ldr[k].ready /\ t.kept = ldr[k].kept /\ ~t.sole
      BY <1>4 DEF LoaderState
    <2>2. ReadyPinned(k)' /\ InOrder(k)'
      BY <1>1, <2>1 DEF PinsInv, ReadyPinned, InOrder, Current
    <2>3. SoleAlone(k)' /\ Cleaned(k)'
      BY <2>1 DEF SoleAlone, Cleaned
    <2> QED
      BY <2>2, <2>3 DEF Orderly
  <1>6. ReadyPinned(l)' /\ InOrder(l)' /\ Cleaned(l)'
    BY <1>2, <1>3 DEF ReadyPinned, InOrder, Cleaned
  <1>7. SoleAlone(l)'
    <2>1. \A k \in Loaders \ {l} : ldr'[k].pc = ldr[k].pc
      BY <1>4 DEF LoaderState
    <2> QED
      BY <1>2, <1>3, <1>p, <2>1 DEF SoleAlone
  <1> QED
    BY <1>5, <1>6, <1>7 DEF Orderly

\* The invariant holds at first and is kept.
LEMMA PinsInit == Init => PinsInv
  <1> SUFFICES ASSUME Init PROVE PinsInv
    OBVIOUS
  <1>1. ASSUME NEW l \in Loaders PROVE Orderly(l)
    <2>1. ldr[l].pc = "off" /\ ~ldr[l].sole
      BY DEF Init, NoLoader
    <2> QED
      BY <2>1 DEF Orderly, ReadyPinned, InOrder, SoleAlone, Cleaned, Upward
  <1> QED
    BY <1>1, TypeInit DEF PinsInv, Orderly

LEMMA PinsStep == PinsInv /\ [Next]_vars => PinsInv'
  <1> SUFFICES ASSUME PinsInv, [Next]_vars PROVE PinsInv'
    OBVIOUS
  <1>t. TypeOK'
    BY TypeStep DEF PinsInv
  <1>1. CASE UNCHANGED <<ldr, pins>>
    BY <1>1, <1>t DEF PinsInv, ReadyPinned, InOrder, Current, SoleAlone, Cleaned
  <1>2. ASSUME NEW u \in Updaters, Launch(u) \/ UpdaterStep(u) \/ KillUpdater(u)
        PROVE  UNCHANGED <<ldr, pins>>
    BY <1>2 DEF Launch, UpdaterStep, OpenIdx, LookupIdx, WriteSlot, Publish, KillUpdater,
                kernel
  <1>3. CASE \E l \in Loaders : Start(l) \/ LoaderStep(l) \/ LoadFails(l)
                                  \/ ReturnEarly(l) \/ Sigint(l) \/ Kill(l)
    <2>1. \A k \in Loaders : Orderly(k)'
      BY <1>3, StartOrderly, LoaderOrderly
    <2> QED
      BY <1>t, <2>1 DEF PinsInv, Orderly
  <1>4. UNCHANGED vars => UNCHANGED <<ldr, pins>>
    BY DEF vars
  <1> QED
    BY <1>1, <1>2, <1>3, <1>4 DEF Next

\* What the invariant says of a loader that serves, and of one that has cleaned up.
LEMMA PinsInvFollows == PinsInv => PinsFollowLoader
  <1> SUFFICES ASSUME PinsInv, NEW l \in Loaders
               PROVE  /\ ldr[l].kept /\ ldr[l].pc \in {"check", "loop", "sleep"} =>
                           pins = ldr[l].map
                      /\ ldr[l].sole /\ ldr[l].pc \in {"destroy", "exit"} =>
                           pins = NoRefs
    BY DEF PinsFollowLoader
  <1>1. pins \in MapRefs /\ ldr[l].map \in MapRefs
    BY DEF PinsInv, TypeOK, LoaderState
  <1>2. ASSUME ldr[l].kept, ldr[l].pc \in {"check", "loop", "sleep"} PROVE pins = ldr[l].map
    <2>1. \A m \in Maps : pins[m] = ldr[l].map[m]
      BY <1>2 DEF PinsInv, ReadyPinned, InOrder, Upward
    <2> QED
      BY <1>1, <2>1 DEF MapRefs
  <1>3. ASSUME ldr[l].sole, ldr[l].pc \in {"destroy", "exit"} PROVE pins = NoRefs
    <2>1. \A m \in Maps : pins[m] = NoMap
      BY <1>3 DEF PinsInv, Cleaned, Maps
    <2> QED
      BY <1>1, <2>1 DEF MapRefs, NoRefs
  <1> QED
    BY <1>2, <1>3

\* For any number of processes and executions, however loads fail, crash or overlap: while
\* the programs are served the pin paths name the maps they use, unless another loader has
\* removed one, and a loader that ran alone leaves no pin to the next.
THEOREM PinsAlwaysFollow == Spec => []PinsFollowLoader
  BY PinsInit, PinsStep, PinsInvFollows, PTL DEF Spec

-----------------------------------------------------------------------------
(* The network that is served. *)

\* Where a loader can be while a hot_updating runs that started beside it, undisturbed.
Past == {"off", "check", "loop", "sleep", "rm_nn_parameters", "rm_nn_idx", "destroy", "exit"}

\* How far the execution of u has come, in the maps of loader l, if it has opened them.
Beside(u, l) ==
  LET g == ldr[l].map
      r == upd[u]
  IN  /\ \A m \in Maps : r.fd[m] \in {g[m], NoMap}
      /\ r.pc \in {"lookup", "write", "publish"} =>
           (r.fd["nn_parameters"] = NoMap <=> r.fd["nn_idx"] = NoMap)
      /\ r.pc \in {"write", "publish"} /\ r.fd["nn_idx"] # NoMap =>
           r.new_nn_idx = (nn_idx[g["nn_idx"]] + 1) % 2
      /\ r.pc = "publish" /\ r.fd["nn_idx"] # NoMap =>
           nn_parameters[g["nn_parameters"]][r.new_nn_idx] = r.run

\* An undisturbed execution is the only one, no loader is on its way up, and what the
\* execution has opened, read and written is in the maps of the one that serves.
SoleUpdate(u) ==
  upd[u].sole =>
    /\ upd[u].pc # "idle"
    /\ \A v \in Updaters \ {u} : upd[v].pc = "idle"
    /\ \A l \in Loaders : ldr[l].pc \in Past
    /\ \A l \in Serving : Beside(u, l)

\* Nobody has removed a pin of a loader that overlapped no other.
SoleKept(l) == ldr[l].sole => ldr[l].kept

\* An attached loader is past its load; while it overlaps no other, the pins name its maps
\* until it removes them.
Attached(l) ==
  l \in attached =>
    /\ ldr[l].pc \in Past \ {"off"}
    /\ ldr[l].sole => \A m \in Maps : /\ ldr[l].map[m] \in Loads
                                       /\ pins[m] \in {ldr[l].map[m], NoMap}

\* The inductive invariant.
SteadyInv ==
  /\ PinsInv
  /\ \A l \in Loaders : SoleKept(l) /\ Attached(l)
  /\ \A u \in Updaters : SoleUpdate(u)

\* A loader that serves undisturbed is the only one, and a pin that is there names its map.
LEMMA ServingPinned ==
  ASSUME SteadyInv, NEW l \in Serving
  PROVE  /\ l \in Loaders /\ ldr[l].pc \in Past \ {"off"}
         /\ \A m \in Maps : ldr[l].map[m] \in Loads /\ pins[m] \in {ldr[l].map[m], NoMap}
         /\ \A k \in Loaders \ {l} : ldr[k].pc = "off"
  <1>1. l \in Loaders /\ l \in attached /\ ldr[l].sole
    BY DEF Serving, SteadyInv, PinsInv, TypeOK
  <1>2. Attached(l) /\ SoleAlone(l)
    BY <1>1 DEF SteadyInv, PinsInv
  <1> QED
    BY <1>1, <1>2 DEF Attached, SoleAlone

\* What loader l does to itself once it is attached.
LEMMA OwnEffect ==
  ASSUME PinsInv, NEW l \in Loaders, ldr[l].pc \in Past,
         LoaderStep(l) \/ LoadFails(l) \/ ReturnEarly(l) \/ Sigint(l) \/ Kill(l)
  PROVE  /\ UNCHANGED <<nn_parameters, nn_idx, upd>> /\ attached' \subseteq attached
         /\ ldr'[l].pc \in Past
         /\ l \in attached' => ldr'[l].pc # "off" /\ ldr'[l].map = ldr[l].map
         /\ \A m \in Maps : pins'[m] \in {pins[m], NoMap}
  <1> DEFINE r == ldr[l]
  <1>1. r \in LoaderState /\ ldr \in [Loaders -> LoaderState] /\ pins \in MapRefs
    BY DEF PinsInv, TypeOK
  <1>2. CASE Gone(l)
    BY <1>1, <1>2 DEF Gone, NoLoader, Past
  <1>3. CASE Check(l) \/ FallAsleep(l) \/ Wake(l) \/ Sigint(l) \/ Destroy(l)
    BY <1>1, <1>3 DEF Check, FallAsleep, Wake, Sigint, Destroy, kernel, Past, LoaderState
  <1>4. CASE RemovePin(l)
    BY <1>1, <1>4 DEF RemovePin, Unlink, Past, LoaderState, MapRefs
  <1> QED
    BY <1>2, <1>3, <1>4 DEF LoaderStep, LoadFails, ReturnEarly, Kill, Exit, Past,
       ReuseMap, PinMap, Loaded, Unpin, FillTable, SetIdx, Attach

\* Only a loader that was started takes a step.
LEMMA AtWork ==
  ASSUME NEW l \in Loaders,
         LoaderStep(l) \/ LoadFails(l) \/ ReturnEarly(l) \/ Sigint(l) \/ Kill(l)
  PROVE  ldr[l].pc # "off"
  BY DEF LoaderStep, LoadFails, ReturnEarly, Sigint, Kill, ReuseMap, PinMap, Loaded, Unpin,
         FillTable, SetIdx, Attach, Check, FallAsleep, Wake, RemovePin, Destroy, Exit

\* What loader l does to another one.
LEMMA OtherEffect ==
  ASSUME PinsInv, NEW l \in Loaders,
         LoaderStep(l) \/ LoadFails(l) \/ ReturnEarly(l) \/ Sigint(l) \/ Kill(l)
  PROVE  /\ ldr'[l].sole => ldr[l].sole /\ ldr'[l].kept = ldr[l].kept
         /\ \A k \in Loaders \ {l} : /\ ldr'[k].pc = ldr[k].pc /\ ldr'[k].map = ldr[k].map
                                     /\ ldr'[k].sole = ldr[k].sole
  <1> DEFINE r == ldr[l]
             Others ==
               /\ ldr'[l].sole => ldr[l].sole /\ ldr'[l].kept = ldr[l].kept
               /\ \A k \in Loaders \ {l} : /\ ldr'[k].pc = ldr[k].pc /\ ldr'[k].map = ldr[k].map
                                           /\ ldr'[k].sole = ldr[k].sole
  <1> SUFFICES Others
    OBVIOUS
  <1>1. r \in LoaderState /\ ldr \in [Loaders -> LoaderState]
    BY DEF PinsInv, TypeOK
  <1>2. CASE Gone(l)
    BY <1>1, <1>2 DEF Gone, NoLoader
  <1>3. CASE ReuseMap(l)
    BY <1>1, <1>3 DEF ReuseMap, LoaderState
  <1>4. CASE PinMap(l)
    BY <1>1, <1>4 DEF PinMap, LoaderState
  <1>5. ASSUME NEW m, NEW s, Unlink(l, m, s), s.sole = r.sole, s.kept = r.kept PROVE Others
    BY <1>1, <1>5 DEF Unlink, LoaderState
  <1>6. CASE Unpin(l)
    <2>1. CASE r.own = {}
      BY <1>1, <1>6, <2>1 DEF Unpin, LoaderState
    <2>2. CASE r.own # {}
      <3>1. PICK m : Unlink(l, m, [r EXCEPT !.own = @ \ {m}])
        BY <1>6, <2>2 DEF Unpin
      <3>2. LET s == [r EXCEPT !.own = @ \ {m}] IN s.sole = r.sole /\ s.kept = r.kept
        BY <1>1 DEF LoaderState
      <3> QED
        BY <1>5, <3>1, <3>2
    <2> QED
      BY <2>1, <2>2
  <1>7. CASE RemovePin(l)
    <2>1. \A pc : LET s == [r EXCEPT !.pc = pc] IN s.sole = r.sole /\ s.kept = r.kept
      BY <1>1 DEF LoaderState
    <2> QED
      BY <1>5, <1>7, <2>1 DEF RemovePin
  <1>8. CASE Loaded(l) \/ FillTable(l) \/ SetIdx(l) \/ Check(l) \/ FallAsleep(l) \/ Wake(l) \/ Destroy(l)
    BY <1>1, <1>8 DEF Loaded, FillTable, SetIdx, Check, FallAsleep, Wake, Destroy, LoaderState
  <1>11. CASE LoadFails(l) \/ Sigint(l) \/ (attached = {} /\ Attach(l))
    BY <1>1, <1>11 DEF LoadFails, Sigint, Attach, LoaderState
  <1>9. ReturnEarly(l) \/ Kill(l) \/ Exit(l) => Gone(l)
    BY DEF ReturnEarly, Kill, Exit
  <1>10. Attach(l) => Gone(l) \/ (attached = {} /\ Attach(l))
    BY DEF Attach
  <1> HIDE DEF Others
  <1> QED
    BY <1>2, <1>3, <1>4, <1>6, <1>7, <1>8, <1>9, <1>10, <1>11 DEF LoaderStep

LEMMA SteadyInit == Init => SteadyInv
  <1> SUFFICES ASSUME Init PROVE SteadyInv
    OBVIOUS
  <1>1. \A l \in Loaders : SoleKept(l) /\ Attached(l)
    BY DEF Init, SoleKept, Attached, NoLoader
  <1>2. \A u \in Updaters : SoleUpdate(u)
    BY DEF Init, SoleUpdate, NoUpdater
  <1> QED
    BY <1>1, <1>2, PinsInit DEF SteadyInv

\* A loader that starts puts an end to every undisturbed execution.
LEMMA StartSteady ==
  ASSUME SteadyInv, NEW l \in Loaders, Start(l)
  PROVE  /\ \A k \in Loaders : SoleKept(k)' /\ Attached(k)'
         /\ \A u \in Updaters : SoleUpdate(u)'
  <1>0. TypeOK
    BY DEF SteadyInv, PinsInv
  <1> DEFINE sole == Loading = {}
             s == [NoLoader EXCEPT !.pc = "maps", !.load = nloads + 1, !.sole = sole,
                                   !.kept = TRUE]
  <1>1. /\ ldr' = [Disturbed(ldr) EXCEPT ![l] = s] /\ upd' = Disturbed(upd)
        /\ attached' = attached
    BY DEF Start, kernel
  <1>2. s.kept
    BY DEF NoLoader
  <1> HIDE DEF s
  <1>3. ASSUME NEW k \in Loaders PROVE SoleKept(k)' /\ Attached(k)'
    <2>1. CASE k = l
      <3>1. ldr'[k] = s
        BY <1>0, <1>1, <2>1 DEF Disturbed, TypeOK
      <3>2. k \notin attached
        BY <2>1 DEF SteadyInv, Attached, Start
      <3> QED
        BY <1>1, <1>2, <3>1, <3>2 DEF SoleKept, Attached
    <2>2. CASE k # l
      <3>1. ldr'[k] = [ldr[k] EXCEPT !.sole = FALSE] /\ ldr[k] \in LoaderState
        BY <1>0, <1>1, <2>2 DEF Disturbed, TypeOK
      <3>2. ~ldr'[k].sole /\ ldr'[k].pc = ldr[k].pc
        BY <3>1 DEF LoaderState
      <3> QED
        BY <1>1, <3>2 DEF SoleKept, SteadyInv, Attached
    <2> QED
      BY <2>1, <2>2
  <1>4. ASSUME NEW u \in Updaters PROVE SoleUpdate(u)'
    <2>1. upd'[u] = [upd[u] EXCEPT !.sole = FALSE] /\ upd[u] \in UpdaterState
      BY <1>0, <1>1 DEF Disturbed, TypeOK
    <2>2. ~upd'[u].sole
      BY <2>1 DEF UpdaterState
    <2> QED
      BY <2>2 DEF SoleUpdate
  <1> QED
    BY <1>3, <1>4

\* A loader is attached when its load is complete, and removes pins without setting any.
LEMMA LoaderAttached ==
  ASSUME SteadyInv, PinsInv', NEW l \in Loaders,
         LoaderStep(l) \/ LoadFails(l) \/ ReturnEarly(l) \/ Sigint(l) \/ Kill(l),
         NEW k \in Loaders, SoleKept(k)'
  PROVE  Attached(k)'
  <1>0. PinsInv /\ ldr[l].pc # "off" /\ Attached(k)
    BY AtWork DEF SteadyInv
  <1>1. /\ ldr'[l].sole => ldr[l].sole
        /\ \A i \in Loaders \ {l} : ldr'[i].pc = ldr[i].pc /\ ldr'[i].sole = ldr[i].sole
    BY <1>0, OtherEffect
  <1>2. attached' \subseteq attached \/ (Attach(l) /\ attached' = {l} /\ ldr'[l].pc = "check")
    <2>1. CASE Attach(l)
      BY <1>0, <2>1 DEF Attach, Gone, PinsInv, TypeOK, LoaderState
    <2>2. CASE ~Attach(l)
      BY <2>2 DEF LoaderStep, LoadFails, ReturnEarly, Sigint, Kill, ReuseMap, PinMap, Loaded,
         Unpin, FillTable, SetIdx, Check, FallAsleep, Wake, RemovePin, Destroy, Exit, Gone,
         kernel
    <2> QED
      BY <2>1, <2>2
  <1>3. CASE k # l
    <2>1. ~ldr[k].sole
      BY <1>0, <1>3 DEF PinsInv, SoleAlone
    <2> QED
      BY <1>0, <1>1, <1>2, <1>3, <2>1 DEF Attached
  <1>4. CASE k = l /\ ldr[l].pc \in Past
    <2>1. /\ attached' \subseteq attached /\ ldr'[l].pc \in Past
          /\ l \in attached' => ldr'[l].pc # "off" /\ ldr'[l].map = ldr[l].map
          /\ \A m \in Maps : pins'[m] \in {pins[m], NoMap}
      BY <1>0, <1>4, OwnEffect
    <2> QED
      BY <1>0, <1>1, <1>4, <2>1 DEF Attached
  <1>5. CASE k = l /\ ldr[l].pc \notin Past
    <2>1. l \notin attached
      BY <1>0, <1>5 DEF Attached
    <2> SUFFICES ASSUME l \in attached' PROVE Attached(l)'
      BY <1>5 DEF Attached
    <2>2. ldr'[l].pc = "check"
      BY <1>2, <2>1
    <2>3. ASSUME ldr'[l].sole, NEW m \in Maps
          PROVE  ldr'[l].map[m] \in Loads /\ pins'[m] = ldr'[l].map[m]
      <3>1. pins'[m] = ldr'[l].map[m] /\ ldr'[l].map[m] # NoMap
        BY <1>5, <2>2, <2>3 DEF PinsInv, ReadyPinned, InOrder, SoleKept, Upward
      <3>2. ldr'[l].map \in MapRefs
        BY DEF PinsInv, TypeOK, LoaderState
      <3> QED
        BY <3>1, <3>2 DEF MapRefs
    <2> QED
      BY <2>2, <2>3 DEF Attached, Past
  <1> QED
    BY <1>3, <1>4, <1>5

\* A loader at work beside an undisturbed execution changes neither maps nor who serves,
\* unless it stops serving.
LEMMA LoaderSteady ==
  ASSUME SteadyInv, NEW l \in Loaders,
         LoaderStep(l) \/ LoadFails(l) \/ ReturnEarly(l) \/ Sigint(l) \/ Kill(l)
  PROVE  (\A k \in Loaders : SoleKept(k)') /\ (\A u \in Updaters : SoleUpdate(u)')
  <1>0. PinsInv /\ ldr[l].pc # "off"
    BY AtWork DEF SteadyInv
  <1>1. /\ ldr'[l].sole => ldr[l].sole /\ ldr'[l].kept = ldr[l].kept
        /\ \A k \in Loaders \ {l} : /\ ldr'[k].pc = ldr[k].pc /\ ldr'[k].map = ldr[k].map
                                    /\ ldr'[k].sole = ldr[k].sole
    BY <1>0, OtherEffect
  <1>2. ASSUME NEW k \in Loaders PROVE SoleKept(k)'
    <2>1. CASE k = l
      BY <1>1, <2>1 DEF SteadyInv, SoleKept
    <2>2. CASE k # l
      <3>1. ldr[k].sole => ldr[l].pc = "off"
        BY <1>0, <2>2 DEF PinsInv, SoleAlone
      <3> QED
        BY <1>0, <1>1, <2>2, <3>1 DEF SoleKept
    <2> QED
      BY <2>1, <2>2
  <1>3. ASSUME NEW u \in Updaters PROVE SoleUpdate(u)'
    <2> SUFFICES ASSUME upd'[u].sole, ldr[l].pc \in Past PROVE SoleUpdate(u)'
      <3>1. CASE ~upd'[u].sole
        BY <3>1 DEF SoleUpdate
      <3>2. CASE ldr[l].pc \notin Past
        <4>1. UNCHANGED upd
          BY DEF LoaderStep, LoadFails, ReturnEarly, Sigint, Kill, ReuseMap, PinMap, Loaded,
             Unpin, FillTable, SetIdx, Attach, Check, FallAsleep, Wake, RemovePin, Destroy, Exit, Gone
        <4>2. ~upd[u].sole
          BY <3>2 DEF SteadyInv, SoleUpdate
        <4> QED
          BY <4>1, <4>2 DEF SoleUpdate
      <3> QED
        BY <3>1, <3>2
    <2>1. /\ UNCHANGED <<nn_parameters, nn_idx, upd>> /\ attached' \subseteq attached
          /\ ldr'[l].pc \in Past
          /\ l \in attached' => ldr'[l].map = ldr[l].map
      BY <1>0, OwnEffect
    <2>2. /\ upd[u].sole /\ upd[u].pc # "idle"
          /\ \A v \in Updaters \ {u} : upd[v].pc = "idle"
          /\ \A k \in Loaders : ldr[k].pc \in Past
          /\ \A k \in Serving : Beside(u, k)
      BY <2>1 DEF SteadyInv, SoleUpdate
    <2>3. \A k \in Loaders : ldr'[k].pc \in Past
      BY <1>1, <2>1, <2>2
    <2>4. ASSUME NEW k \in Serving' PROVE k \in Serving /\ ldr'[k].map = ldr[k].map
      <3>1. k \in attached' /\ ldr'[k].sole
        BY DEF Serving
      <3>2. k \in attached /\ k \in Loaders
        BY <1>0, <2>1, <3>1 DEF PinsInv, TypeOK
      <3>3. CASE k = l
        BY <1>1, <2>1, <3>1, <3>2, <3>3 DEF Serving
      <3>4. CASE k # l
        BY <1>1, <3>1, <3>2, <3>4 DEF Serving
      <3> QED
        BY <3>3, <3>4
    <2>5. \A k \in Serving' : Beside(u, k)'
      BY <2>1, <2>2, <2>4 DEF Beside
    <2> QED
      BY <2>1, <2>2, <2>3, <2>5 DEF SoleUpdate
  <1> QED
    BY <1>2, <1>3

\* An execution of hot_updating that starts alone beside a loader that serves.
LEMMA LaunchSteady ==
  ASSUME SteadyInv, NEW v \in Updaters, Launch(v)
  PROVE  \A u \in Updaters : SoleUpdate(u)'
  <1>0. TypeOK
    BY DEF SteadyInv, PinsInv
  <1> DEFINE s == [NoUpdater EXCEPT !.pc = "open_idx", !.run = nruns + 1,
                                    !.fd["nn_parameters"] = pins["nn_parameters"],
                                    !.sole = (Running = {} /\ Serving # {})]
  <1>1. upd' = [Disturbed(upd) EXCEPT ![v] = s] /\ UNCHANGED <<kernel, ldr>>
    BY DEF Launch
  <1>2. /\ s.pc = "open_idx" /\ s.sole = (Running = {} /\ Serving # {})
        /\ s.fd["nn_parameters"] = pins["nn_parameters"] /\ s.fd["nn_idx"] = NoMap
    BY DEF NoUpdater, NoRefs, Maps
  <1> HIDE DEF s
  <1>3. upd'[v] = s /\ \A u \in Updaters \ {v} :
                         upd'[u] = [upd[u] EXCEPT !.sole = FALSE] /\ upd[u] \in UpdaterState
    BY <1>0, <1>1 DEF Disturbed, TypeOK
  <1>4. \A u \in Updaters \ {v} : upd'[u].pc = upd[u].pc /\ ~upd'[u].sole
    BY <1>3 DEF UpdaterState
  <1>5. Serving' = Serving
    BY <1>1 DEF Serving, kernel
  <1>6. ASSUME s.sole PROVE SoleUpdate(v)'
    <2>1. \A u \in Updaters \ {v} : upd'[u].pc = "idle"
      BY <1>2, <1>4, <1>6 DEF Running
    <2>2. PICK l \in Serving : TRUE
      BY <1>2, <1>6
    <2>3. \A k \in Loaders : ldr[k].pc \in Past
      BY <2>2, ServingPinned DEF Past
    <2>4. ASSUME NEW k \in Serving PROVE Beside(v, k)'
      <3>1. pins["nn_parameters"] \in {ldr[k].map["nn_parameters"], NoMap}
        BY ServingPinned DEF Maps
      <3> QED
        BY <1>1, <1>2, <1>3, <3>1 DEF Beside, Maps
    <2> QED
      BY <1>1, <1>2, <1>3, <1>5, <2>1, <2>3, <2>4 DEF SoleUpdate
  <1> QED
    BY <1>3, <1>4, <1>6 DEF SoleUpdate

\* Each step of an undisturbed execution, in the maps of the loader that serves.
LEMMA UpdaterSteady ==
  ASSUME SteadyInv, NEW v \in Updaters, UpdaterStep(v) \/ KillUpdater(v)
  PROVE  \A u \in Updaters : SoleUpdate(u)'
  <1>0. TypeOK /\ upd[v].pc # "idle"
    BY DEF SteadyInv, PinsInv, UpdaterStep, OpenIdx, LookupIdx, WriteSlot, Publish, KillUpdater
  <1>1. ldr' = ldr /\ attached' = attached /\ Serving' = Serving
    BY DEF UpdaterStep, OpenIdx, LookupIdx, WriteSlot, Publish, KillUpdater, kernel, Serving
  <1>2. \A u \in Updaters \ {v} : upd'[u] = upd[u] /\ ~upd[u].sole
    <2>1. \A u \in Updaters \ {v} : upd'[u] = upd[u]
      BY <1>0 DEF UpdaterStep, OpenIdx, LookupIdx, WriteSlot, Publish, KillUpdater, TypeOK
    <2> QED
      BY <1>0, <2>1 DEF SteadyInv, SoleUpdate
  <1>3. \A u \in Updaters \ {v} : SoleUpdate(u)'
    BY <1>2 DEF SoleUpdate
  <1>4. upd[v] \in UpdaterState /\ upd \in [Updaters -> UpdaterState]
    BY <1>0 DEF TypeOK
  <1>5. ASSUME ~upd'[v].sole PROVE SoleUpdate(v)'
    BY <1>5 DEF SoleUpdate
  <1>6. ASSUME upd[v].sole, upd'[v].sole, OpenIdx(v) \/ LookupIdx(v) \/ WriteSlot(v)
        PROVE  SoleUpdate(v)'
    <2>1. /\ \A u \in Updaters \ {v} : upd[u].pc = "idle"
          /\ \A k \in Loaders : ldr[k].pc \in Past
          /\ \A k \in Serving : Beside(v, k)
      BY <1>6 DEF SteadyInv, SoleUpdate
    <2>2. upd'[v].pc # "idle"
      <3>1. OpenIdx(v) => upd'[v].pc = "lookup"
        BY <1>4 DEF OpenIdx, UpdaterState
      <3>2. LookupIdx(v) => upd'[v].pc = "write"
        BY <1>4 DEF LookupIdx, UpdaterState
      <3>3. WriteSlot(v) => upd'[v].pc = "publish"
        BY <1>4 DEF WriteSlot, UpdaterState
      <3> QED
        BY <1>6, <3>1, <3>2, <3>3
    <2>3. ASSUME NEW k \in Serving PROVE Beside(v, k)'
      <3> DEFINE g == ldr[k].map
      <3>1. /\ k \in Loaders /\ g["nn_idx"] \in Loads /\ g["nn_parameters"] \in Loads
            /\ \A m \in Maps : pins[m] \in {g[m], NoMap}
        BY ServingPinned DEF Maps
      <3>2. NoMap \notin Loads
        BY DeploymentAssumption DEF NoMap, Loads
      <3>b. Beside(v, k) /\ ldr'[k].map = g
        BY <1>1, <2>1
      <3>3. CASE OpenIdx(v)
        <4>1. /\ upd'[v].pc = "lookup" /\ upd'[v].fd["nn_idx"] = pins["nn_idx"]
              /\ upd'[v].fd["nn_parameters"] = upd[v].fd["nn_parameters"]
          BY <1>4, <3>3 DEF OpenIdx, UpdaterState, MapRefs, Maps
        <4>2. upd[v].fd["nn_parameters"] = NoMap <=> pins["nn_idx"] = NoMap
          BY <1>4, <1>6, <3>3 DEF OpenIdx, UpdaterState
        <4> QED
          BY <3>1, <3>b, <4>1, <4>2 DEF Beside, Maps
      <3>4. CASE LookupIdx(v)
        <4> DEFINE fd  == upd[v].fd["nn_idx"]
                   new == ((IF fd = NoMap THEN 0 ELSE nn_idx[fd]) + 1) % 2
        <4>0. upd[v].pc = "lookup" /\ fd \in {g["nn_idx"], NoMap}
          BY <3>4, <3>b DEF LookupIdx, Beside, Maps
        <4>2. upd' = [upd EXCEPT ![v].pc = "write", ![v].new_nn_idx = new]
          BY <3>4 DEF LookupIdx
        <4>1. fd # NoMap => new = (nn_idx[g["nn_idx"]] + 1) % 2
          BY <4>0
        <4> HIDE DEF new
        <4>3. upd'[v].pc = "write" /\ upd'[v].fd = upd[v].fd /\ upd'[v].new_nn_idx = new
          BY <1>4, <4>2 DEF UpdaterState
        <4>4. UNCHANGED <<nn_idx, nn_parameters>>
          BY <3>4 DEF LookupIdx, kernel
        <4> QED
          BY <3>b, <4>0, <4>1, <4>3, <4>4 DEF Beside
      <3>5. CASE WriteSlot(v)
        <4> DEFINE w  == upd[v].new_nn_idx
                   fd == upd[v].fd["nn_parameters"]
        <4>0. upd[v].pc = "write" /\ w \in Slots
          BY <1>4, <3>5 DEF WriteSlot, UpdaterState
        <4>1. upd[v].fd["nn_idx"] # NoMap => fd = g["nn_parameters"] /\ fd # NoMap
          BY <3>b, <4>0 DEF Beside, Maps
        <4>2. fd # NoMap => nn_parameters' = [nn_parameters EXCEPT ![fd][w] = upd[v].run]
          BY <3>5 DEF WriteSlot
        <4>3. upd[v].fd["nn_idx"] # NoMap => nn_parameters'[g["nn_parameters"]][w] = upd[v].run
          BY <1>0, <3>1, <4>0, <4>1, <4>2 DEF TypeOK
        <4>4. /\ upd'[v].pc = "publish" /\ upd'[v].fd = upd[v].fd
              /\ upd'[v].new_nn_idx = w /\ upd'[v].run = upd[v].run /\ nn_idx' = nn_idx
          BY <1>4, <3>5 DEF WriteSlot, UpdaterState
        <4> QED
          BY <3>b, <4>0, <4>3, <4>4 DEF Beside
      <3> QED
        BY <1>6, <3>3, <3>4, <3>5
    <2> QED
      BY <1>1, <1>2, <2>1, <2>2, <2>3 DEF SoleUpdate
  <1>7. upd'[v].sole => upd[v].sole /\ (OpenIdx(v) \/ LookupIdx(v) \/ WriteSlot(v))
    <2>1. Publish(v) \/ KillUpdater(v) => ~upd'[v].sole
      BY <1>4 DEF Publish, KillUpdater, NoUpdater
    <2>2. OpenIdx(v) \/ LookupIdx(v) \/ WriteSlot(v) => (upd'[v].sole => upd[v].sole)
      BY <1>4 DEF OpenIdx, LookupIdx, WriteSlot, UpdaterState
    <2> QED
      BY <2>1, <2>2 DEF UpdaterStep
  <1> QED
    BY <1>3, <1>5, <1>6, <1>7

LEMMA SteadyStep == SteadyInv /\ [Next]_vars => SteadyInv'
  <1> SUFFICES ASSUME SteadyInv, [Next]_vars PROVE SteadyInv'
    OBVIOUS
  <1>0. PinsInv'
    BY PinsStep DEF SteadyInv
  <1>1. CASE \E l \in Loaders : \/ Start(l) \/ LoaderStep(l) \/ LoadFails(l)
                                \/ ReturnEarly(l) \/ Sigint(l) \/ Kill(l)
    BY <1>0, <1>1, StartSteady, LoaderSteady, LoaderAttached DEF SteadyInv
  <1>2. CASE \E u \in Updaters : Launch(u) \/ UpdaterStep(u) \/ KillUpdater(u)
    <2>1. UNCHANGED <<ldr, attached, pins>>
      BY <1>2 DEF Launch, UpdaterStep, OpenIdx, LookupIdx, WriteSlot, Publish, KillUpdater,
                  kernel
    <2>2. \A l \in Loaders : SoleKept(l)' /\ Attached(l)'
      BY <2>1 DEF SteadyInv, SoleKept, Attached
    <2> QED
      BY <1>0, <1>2, <2>2, LaunchSteady, UpdaterSteady DEF SteadyInv
  <1>3. CASE UNCHANGED vars
    BY <1>0, <1>3 DEF vars, SteadyInv, SoleKept, Attached, SoleUpdate, Beside, Serving
  <1> QED
    BY <1>1, <1>2, <1>3 DEF Next

\* A step from a state of the invariant, beside executions that are all undisturbed, either
\* publishes the network just written or leaves the one that is served.
LEMMA SteadyFollows ==
  ASSUME SteadyInv, Next, NEW l \in Serving, l \in attached', \A u \in Running : upd[u].sole
  PROVE  IF \E u \in Running : Publish(u) /\ upd[u].fd["nn_idx"] # NoMap
         THEN \E u \in Running : Publish(u) /\ Active(l)' = upd[u].run
         ELSE Active(l)' = Active(l)
  <1> DEFINE g == ldr[l].map
  <1>0. TypeOK /\ PinsInv
    BY DEF SteadyInv, PinsInv
  <1>1. /\ l \in Loaders /\ g["nn_idx"] \in Loads /\ g["nn_parameters"] \in Loads
        /\ \A k \in Loaders \ {l} : ldr[k].pc = "off"
    BY ServingPinned DEF Maps
  <1>2. NoMap \notin Loads
    BY DeploymentAssumption DEF NoMap, Loads
  <1>3. \A u \in Running : Beside(u, l) /\ u \in Updaters
    BY DEF SteadyInv, SoleUpdate, Running
  <1>4. ASSUME NEW u \in Running, Publish(u), upd[u].fd["nn_idx"] # NoMap
        PROVE  Active(l)' = upd[u].run
    <2> DEFINE w == upd[u].new_nn_idx
    <2>1. /\ upd[u].pc = "publish" /\ UNCHANGED <<nn_parameters, ldr>>
          /\ nn_idx' = IF upd[u].fd["nn_idx"] = NoMap THEN nn_idx
                       ELSE [nn_idx EXCEPT ![upd[u].fd["nn_idx"]] = w]
      BY <1>4 DEF Publish
    <2>2. /\ upd[u].fd["nn_idx"] = g["nn_idx"]
          /\ nn_parameters[g["nn_parameters"]][w] = upd[u].run
      BY <1>3, <1>4, <2>1 DEF Beside, Maps
    <2>3. nn_idx'[g["nn_idx"]] = w
      BY <1>0, <1>1, <1>2, <2>1, <2>2 DEF TypeOK
    <2> QED
      BY <2>1, <2>2, <2>3 DEF Active
  <1>5. ASSUME ~\E u \in Running : Publish(u) /\ upd[u].fd["nn_idx"] # NoMap
        PROVE  Active(l)' = Active(l)
    <2>1. ASSUME UNCHANGED <<nn_parameters, nn_idx>>, ldr'[l].map = g
          PROVE  Active(l)' = Active(l)
      BY <2>1 DEF Active
    <2>2. ASSUME NEW k \in Loaders, Start(k) PROVE Active(l)' = Active(l)
      <3>1. k # l
        BY <2>2, ServingPinned DEF Start
      <3>2. ldr'[l] = [ldr[l] EXCEPT !.sole = FALSE] /\ ldr[l] \in LoaderState
        BY <1>0, <1>1, <2>2, <3>1 DEF Start, Disturbed, TypeOK
      <3>3. ldr'[l].map = g
        BY <3>2 DEF LoaderState
      <3> QED
        BY <2>1, <2>2, <3>3 DEF Start, kernel
    <2>3. ASSUME NEW k \in Loaders, LoaderStep(k) \/ LoadFails(k) \/ ReturnEarly(k)
                                      \/ Sigint(k) \/ Kill(k)
          PROVE  Active(l)' = Active(l)
      <3>1. k = l
        BY <1>1, <2>3, AtWork
      <3>2. ldr[l].pc \in Past
        BY ServingPinned
      <3>3. UNCHANGED <<nn_parameters, nn_idx>> /\ ldr'[l].map = g
        BY <1>0, <1>1, <2>3, <3>1, <3>2, OwnEffect
      <3> QED
        BY <2>1, <3>3
    <2>4. ASSUME NEW v \in Updaters, Launch(v) \/ OpenIdx(v) \/ LookupIdx(v) \/ KillUpdater(v)
          PROVE  Active(l)' = Active(l)
      BY <2>1, <2>4 DEF Launch, OpenIdx, LookupIdx, KillUpdater, kernel
    <2>5. ASSUME NEW v \in Updaters, WriteSlot(v) PROVE Active(l)' = Active(l)
      <3> DEFINE w == upd[v].new_nn_idx
                 x == nn_idx[g["nn_idx"]]
      <3>1. /\ upd[v].pc = "write" /\ UNCHANGED <<nn_idx, ldr>>
            /\ nn_parameters' = IF upd[v].fd["nn_parameters"] = NoMap THEN nn_parameters
                 ELSE [nn_parameters EXCEPT ![upd[v].fd["nn_parameters"]][w] = upd[v].run]
        BY <2>5 DEF WriteSlot
      <3>0. CASE upd[v].fd["nn_parameters"] = NoMap
        BY <2>1, <3>0, <3>1
      <3>2. CASE upd[v].fd["nn_parameters"] # NoMap
        <4>2. upd[v].fd["nn_parameters"] = g["nn_parameters"] /\ w = (x + 1) % 2
          BY <1>3, <3>1, <3>2 DEF Beside, Running, Maps
        <4>3. x \in Slots
          BY <1>0, <1>1 DEF TypeOK
        <4>4. w # x
          BY <4>2, <4>3 DEF Slots
        <4>5. nn_parameters'[g["nn_parameters"]][x] = nn_parameters[g["nn_parameters"]][x]
          BY <1>0, <1>1, <1>2, <3>1, <4>2, <4>3, <4>4 DEF TypeOK
        <4> QED
          BY <3>1, <4>5 DEF Active
      <3> QED
        BY <3>0, <3>2
    <2>6. ASSUME NEW v \in Updaters, Publish(v) PROVE Active(l)' = Active(l)
      <3>1. upd[v].fd["nn_idx"] = NoMap
        BY <1>5, <2>6 DEF Publish, Running
      <3> QED
        BY <2>1, <2>6, <3>1 DEF Publish
    <2> QED
      BY <2>2, <2>3, <2>4, <2>5, <2>6 DEF Next, UpdaterStep
  <1> QED
    BY <1>4, <1>5

\* For any number of processes and executions: from the attach to the end of the cleanup of
\* an undisturbed loader, while every hot_updating at work was started beside it, alone, and
\* opened both maps or neither, the network in use changes only when such an execution sets
\* nn_idx, and then to the one it has written; what earlier executions left half done, what
\* is killed meanwhile, and the removal of the pins do not show.
THEOREM ServedAlwaysSteady == Spec => ServedModelSteady
  <1>1. ASSUME SteadyInv, [Next]_vars
        PROVE  [\A l \in Serving :
                  l \in attached' /\ (\A u \in Running : upd[u].sole) =>
                    IF \E u \in Running : Publish(u) /\ upd[u].fd["nn_idx"] # NoMap
                    THEN \E u \in Running : Publish(u) /\ Active(l)' = upd[u].run
                    ELSE Active(l)' = Active(l)]_vars
    BY <1>1, SteadyFollows
  <1> QED
    BY <1>1, SteadyInit, SteadyStep, PTL DEF Spec, ServedModelSteady
=============================================================================
