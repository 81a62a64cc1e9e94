----------------------------- MODULE Deployment -----------------------------
(***************************************************************************)
(* The life of an NN-eBPF deployment: executions of the loader             *)
(* (src/src/xdp.c) and of hot_updating (src/src/hot_updating.c), which     *)
(* share nothing but the maps pinned under /sys/fs/bpf and the interface   *)
(* that only one XDP program at a time can be attached to.                 *)
(*                                                                         *)
(* The loader loads the BPF object: libbpf reuses a map whose pin exists   *)
(* and else creates and pins one, in two system calls.  It then fills the  *)
(* tail-call table, sets nn_idx to 1, attaches and sleeps until SIGINT,    *)
(* after which it removes the pins.  It can be killed anywhere, and on     *)
(* most errors it returns without cleaning up: the next execution finds    *)
(* the maps of the last one.                                               *)
(*                                                                         *)
(* A map outlives its creator while it is pinned or open.  It is known by  *)
(* the number of the loader execution that created it, a network by the    *)
(* number of the hot_updating execution that deployed it (0: the zeroes of *)
(* a fresh map).  How a slot is written bit by bit is in ModelSlots; here  *)
(* each system call is one step.                                           *)
(***************************************************************************)
EXTENDS Integers, FiniteSets

CONSTANTS
  Loaders,    \* processes that execute xdp
  Updaters,   \* processes that execute hot_updating
  MaxLoads,   \* bound: executions of the loader
  MaxRuns     \* bound: executions of hot_updating

ASSUME DeploymentAssumption == MaxLoads \in Nat /\ MaxRuns \in Nat

Maps   == {"nn_parameters", "nn_idx"}
Slots  == {0, 1}
Models == 0 .. MaxRuns
Loads  == 1 .. MaxLoads
NoMap  == 0

VARIABLES
  nn_parameters,   \* per nn_parameters map: the network in each slot
  nn_idx,          \* per nn_idx map: the index it holds
  pins,            \* per pin path: the map it names, or NoMap
  attached,        \* the loaders whose xdp_prog is attached: none or one
  ldr,             \* one record per loader process
  upd,             \* one record per hot_updating process
  nloads, nruns    \* executions started so far

vars == <<nn_parameters, nn_idx, pins, attached, ldr, upd, nloads, nruns>>
kernel == <<nn_parameters, nn_idx, pins, attached>>

\* The maps a process, or a pin path, refers to.
MapRefs == [Maps -> Loads \cup {NoMap}]
NoRefs  == [m \in Maps |-> NoMap]

\* load: number of the execution; map: the maps its object uses; ready: those that are
\* reused or pinned; own: those it pinned; table: its tail-call table is filled;
\* sole: history, no other loader has run at the same time; kept: history, no other
\* loader has removed a pin in the meantime.
MainLoop  == {"check", "loop", "sleep"}
LoaderPCs == {"off", "maps", "pin", "unpin", "fill", "set_idx", "attach"} \cup MainLoop
               \cup {"rm_nn_parameters", "rm_nn_idx", "destroy", "exit"}
LoaderState ==
  [pc : LoaderPCs, load : Loads \cup {0}, map : MapRefs, ready : SUBSET Maps,
   own : SUBSET Maps, retried : BOOLEAN, table : BOOLEAN, exiting : BOOLEAN,
   sole : BOOLEAN, kept : BOOLEAN]
NoLoader ==
  [pc |-> "off", load |-> 0, map |-> NoRefs, ready |-> {}, own |-> {},
   retried |-> FALSE, table |-> FALSE, exiting |-> FALSE, sole |-> FALSE, kept |-> FALSE]

\* sole: history, started beside a loader at work, no process has started since, and the
\* maps it has opened are both or neither.
UpdaterState ==
  [pc : {"idle", "open_idx", "lookup", "write", "publish"},
   fd : MapRefs, run : Models, new_nn_idx : Slots, sole : BOOLEAN]
NoUpdater ==
  [pc |-> "idle", fd |-> NoRefs, run |-> 0, new_nn_idx |-> 0, sole |-> FALSE]

Loading == {l \in Loaders : ldr[l].pc # "off"}
Running == {u \in Updaters : upd[u].pc # "idle"}

\* Loaders that no other loader has disturbed, from the attach to the end of the cleanup.
Serving == {l \in attached : ldr[l].sole}

\* The network that the attached programs of loader l use.
Active(l) == nn_parameters[ldr[l].map["nn_parameters"]][nn_idx[ldr[l].map["nn_idx"]]]

Init ==
  /\ nn_parameters = [g \in Loads |-> [s \in Slots |-> 0]]
  /\ nn_idx = [g \in Loads |-> 0]
  /\ pins = NoRefs
  /\ attached = {}
  /\ ldr = [l \in Loaders |-> NoLoader]
  /\ upd = [u \in Updaters |-> NoUpdater]
  /\ nloads = 0 /\ nruns = 0

-----------------------------------------------------------------------------
(* The loader. *)

\* A process starts: those that run are no longer undisturbed.
Disturbed(procs) == [p \in DOMAIN procs |-> [procs[p] EXCEPT !.sole = FALSE]]

\* main: the signal handler is installed and the object opened.
Start(l) ==
  /\ ldr[l].pc = "off"
  /\ nloads < MaxLoads
  /\ nloads' = nloads + 1
  /\ ldr' = [Disturbed(ldr) EXCEPT ![l] =
       [NoLoader EXCEPT !.pc = "maps", !.load = nloads + 1, !.sole = (Loading = {}),
                        !.kept = TRUE]]
  /\ upd' = Disturbed(upd)
  /\ UNCHANGED <<kernel, nruns>>

\* The pinned map that bpf_object__create_maps is at, in the order of the object.
Current(l) == IF "nn_parameters" \notin ldr[l].ready THEN "nn_parameters" ELSE "nn_idx"

\* Mutant: a fresh map is used, and the pin left to what it names.
ReuseMap_Fresh(l) ==
  LET m == Current(l)
  IN  /\ ldr[l].pc = "maps" /\ ldr[l].ready # Maps
      /\ ldr' = [ldr EXCEPT ![l].map[m] = ldr[l].load,
           ![l].pc = IF pins[m] # NoMap THEN "maps" ELSE "pin",
           ![l].ready = IF pins[m] # NoMap THEN @ \cup {m} ELSE @]
      /\ UNCHANGED <<kernel, upd, nloads, nruns>>

\* bpf_object__reuse_map; without a pin the map is created, unless this is the second try.
ReuseMap(l) ==
  LET m == Current(l)
  IN  /\ ldr[l].pc = "maps" /\ ldr[l].ready # Maps
      /\ ldr' = [ldr EXCEPT ![l] =
           IF pins[m] # NoMap
           THEN [@ EXCEPT !.map[m] = pins[m], !.ready = ldr[l].ready \cup {m}, !.retried = FALSE]
           ELSE IF ldr[l].retried THEN [@ EXCEPT !.pc = "unpin"]
           ELSE [@ EXCEPT !.map[m] = ldr[l].load, !.pc = "pin"]]
      /\ UNCHANGED <<kernel, upd, nloads, nruns>>

\* bpf_map__pin of the map just created; if another loader has pinned one in between,
\* the new one is dropped and the pin is looked up again.
PinMap(l) ==
  LET m == Current(l)
  IN  /\ ldr[l].pc = "pin"
      /\ IF pins[m] = NoMap
           THEN /\ pins' = [pins EXCEPT ![m] = ldr[l].load]
                /\ ldr' = [ldr EXCEPT ![l].pc = "maps", ![l].ready = @ \cup {m},
                                      ![l].own = @ \cup {m}]
           ELSE /\ ldr' = [ldr EXCEPT ![l].pc = "maps", ![l].retried = TRUE,
                                      ![l].map[m] = NoMap]
                /\ UNCHANGED pins
      /\ UNCHANGED <<nn_parameters, nn_idx, attached, upd, nloads, nruns>>

\* The maps are there and the verifier accepts the programs.
Loaded(l) ==
  /\ ldr[l].pc = "maps" /\ ldr[l].ready = Maps
  /\ ldr' = [ldr EXCEPT ![l].pc = "fill"]
  /\ UNCHANGED <<kernel, upd, nloads, nruns>>

\* Creating a map, pinning it or loading a program fails.
LoadFails(l) ==
  /\ ldr[l].pc \in {"maps", "pin"}
  /\ ldr' = [ldr EXCEPT ![l].pc = "unpin"]
  /\ UNCHANGED <<kernel, upd, nloads, nruns>>

\* Loader l removes the pin path of m, whatever it names by now, and goes on as r.
Unlink(l, m, r) ==
  /\ pins' = [pins EXCEPT ![m] = NoMap]
  /\ ldr' = [k \in Loaders |->
       IF k = l THEN r ELSE [ldr[k] EXCEPT !.kept = @ /\ pins[m] = NoMap]]

\* The error path of bpf_object_load unlinks the paths that this load pinned; then
\* main goes to its cleanup.
Unpin(l) ==
  LET m == IF "nn_parameters" \in ldr[l].own THEN "nn_parameters" ELSE "nn_idx"
  IN  /\ ldr[l].pc = "unpin"
      /\ IF ldr[l].own = {}
           THEN /\ ldr' = [ldr EXCEPT ![l].pc = "rm_nn_parameters"]
                /\ UNCHANGED pins
           ELSE Unlink(l, m, [ldr[l] EXCEPT !.own = @ \ {m}])
      /\ UNCHANGED <<nn_parameters, nn_idx, attached, upd, nloads, nruns>>

\* The six programs are entered in this object's tail-call table.
FillTable(l) ==
  /\ ldr[l].pc = "fill"
  /\ ldr' = [ldr EXCEPT ![l].pc = "set_idx", ![l].table = TRUE]
  /\ UNCHANGED <<kernel, upd, nloads, nruns>>

\* nn_idx is set to 1, in a map that may be an old one.
SetIdx(l) ==
  /\ ldr[l].pc = "set_idx"
  /\ nn_idx' = [nn_idx EXCEPT ![ldr[l].map["nn_idx"]] = 1]
  /\ ldr' = [ldr EXCEPT ![l].pc = "attach"]
  /\ UNCHANGED <<nn_parameters, pins, attached, upd, nloads, nruns>>

\* The process is gone, and with it its link to the interface.  Pins stay.
Gone(l) ==
  /\ ldr' = [ldr EXCEPT ![l] = NoLoader]
  /\ attached' = attached \ {l}
  /\ UNCHANGED <<nn_parameters, nn_idx, pins, upd, nloads, nruns>>

\* bpf_program__attach_xdp, refused if a program is attached: main then returns at once.
Attach(l) ==
  /\ ldr[l].pc = "attach"
  /\ \/ /\ attached = {}
        /\ attached' = {l}
        /\ ldr' = [ldr EXCEPT ![l].pc = "check"]
        /\ UNCHANGED <<nn_parameters, nn_idx, pins, upd, nloads, nruns>>
     \/ attached # {} /\ Gone(l)

\* An error while the table is filled, nn_idx set or the program attached: return 1.
ReturnEarly(l) == ldr[l].pc \in {"fill", "set_idx", "attach"} /\ Gone(l)

\* while (!exiting) ...
Check(l) ==
  /\ ldr[l].pc = "check"
  /\ ldr' = [ldr EXCEPT ![l].pc = IF ldr[l].exiting THEN "rm_nn_parameters" ELSE "loop"]
  /\ UNCHANGED <<kernel, upd, nloads, nruns>>

\* ... the dot is printed, and sleep(60) begins, whatever has become of exiting ...
FallAsleep(l) ==
  /\ ldr[l].pc = "loop"
  /\ ldr' = [ldr EXCEPT ![l].pc = "sleep"]
  /\ UNCHANGED <<kernel, upd, nloads, nruns>>

\* Mutant: pause() instead of sleep(60): only a signal ends it.
Wake_Pause(l) == ldr[l].pc = "sleep" /\ UNCHANGED vars

\* ... and is over.
Wake(l) ==
  /\ ldr[l].pc = "sleep"
  /\ ldr' = [ldr EXCEPT ![l].pc = "check"]
  /\ UNCHANGED <<kernel, upd, nloads, nruns>>

\* SIGINT, also a second one: sig_handler, after which a sleep that has begun is over.
Sigint(l) ==
  /\ ldr[l].pc # "off"
  /\ ldr' = [ldr EXCEPT ![l].exiting = TRUE,
                        ![l].pc = IF @ = "sleep" THEN "check" ELSE @]
  /\ UNCHANGED <<kernel, upd, nloads, nruns>>

\* The cleanup removes the two pin paths.
RemovePin(l) ==
  /\ \/ /\ ldr[l].pc = "rm_nn_parameters"
        /\ Unlink(l, "nn_parameters", [ldr[l] EXCEPT !.pc = "rm_nn_idx"])
     \/ /\ ldr[l].pc = "rm_nn_idx"
        /\ Unlink(l, "nn_idx", [ldr[l] EXCEPT !.pc = "destroy"])
  /\ UNCHANGED <<nn_parameters, nn_idx, attached, upd, nloads, nruns>>

\* xdp_bpf__destroy closes the maps; the kernel empties a table nobody has open.
Destroy(l) ==
  /\ ldr[l].pc = "destroy"
  /\ ldr' = [ldr EXCEPT ![l].pc = "exit", ![l].table = FALSE]
  /\ UNCHANGED <<kernel, upd, nloads, nruns>>

Exit(l) == ldr[l].pc = "exit" /\ Gone(l)

\* Any signal but SIGINT, or a crash.
Kill(l) == ldr[l].pc # "off" /\ Gone(l)

-----------------------------------------------------------------------------
(* hot_updating. *)

\* It starts and opens nn_parameters.
Launch(u) ==
  /\ upd[u].pc = "idle"
  /\ nruns < MaxRuns
  /\ nruns' = nruns + 1
  /\ upd' = [Disturbed(upd) EXCEPT ![u] =
       [NoUpdater EXCEPT !.pc = "open_idx", !.run = nruns + 1,
                         !.fd["nn_parameters"] = pins["nn_parameters"],
                         !.sole = (Running = {} /\ Serving # {})]]
  /\ UNCHANGED <<kernel, ldr, nloads>>

OpenIdx(u) ==
  /\ upd[u].pc = "open_idx"
  /\ upd' = [upd EXCEPT ![u].pc = "lookup", ![u].fd["nn_idx"] = pins["nn_idx"],
       ![u].sole = @ /\ (upd[u].fd["nn_parameters"] = NoMap <=> pins["nn_idx"] = NoMap)]
  /\ UNCHANGED <<kernel, ldr, nloads, nruns>>

\* Mutant: the index is not taken modulo 2.
LookupIdx_NoWrap(u) ==
  LET fd  == upd[u].fd["nn_idx"]
      cur == IF fd = NoMap THEN 0 ELSE nn_idx[fd]
  IN  /\ upd[u].pc = "lookup"
      /\ upd' = [upd EXCEPT ![u].pc = "write", ![u].new_nn_idx = cur + 1]
      /\ UNCHANGED <<kernel, ldr, nloads, nruns>>

\* Mutant: the slot in use is the one that is written.
LookupIdx_NoFlip(u) ==
  LET fd  == upd[u].fd["nn_idx"]
      cur == IF fd = NoMap THEN 0 ELSE nn_idx[fd]
  IN  /\ upd[u].pc = "lookup"
      /\ upd' = [upd EXCEPT ![u].pc = "write", ![u].new_nn_idx = cur]
      /\ UNCHANGED <<kernel, ldr, nloads, nruns>>

\* A lookup that fails leaves the 0 the local was initialised with.
LookupIdx(u) ==
  LET fd  == upd[u].fd["nn_idx"]
      cur == IF fd = NoMap THEN 0 ELSE nn_idx[fd]
  IN  /\ upd[u].pc = "lookup"
      /\ upd' = [upd EXCEPT ![u].pc = "write", ![u].new_nn_idx = (cur + 1) % 2]
      /\ UNCHANGED <<kernel, ldr, nloads, nruns>>

\* The two bpf_map_update_elem: the slot, then the index, each alone if the other fails.
WriteSlot(u) ==
  LET fd == upd[u].fd["nn_parameters"]
  IN  /\ upd[u].pc = "write"
      /\ nn_parameters' = IF fd = NoMap THEN nn_parameters
           ELSE [nn_parameters EXCEPT ![fd][upd[u].new_nn_idx] = upd[u].run]
      /\ upd' = [upd EXCEPT ![u].pc = "publish"]
      /\ UNCHANGED <<nn_idx, pins, attached, ldr, nloads, nruns>>

Publish(u) ==
  LET fd == upd[u].fd["nn_idx"]
  IN  /\ upd[u].pc = "publish"
      /\ nn_idx' = IF fd = NoMap THEN nn_idx ELSE [nn_idx EXCEPT ![fd] = upd[u].new_nn_idx]
      /\ upd' = [upd EXCEPT ![u] = NoUpdater]
      /\ UNCHANGED <<nn_parameters, pins, attached, ldr, nloads, nruns>>

KillUpdater(u) ==
  /\ upd[u].pc # "idle"
  /\ upd' = [upd EXCEPT ![u] = NoUpdater]
  /\ UNCHANGED <<kernel, ldr, nloads, nruns>>

-----------------------------------------------------------------------------

\* What the loader does of itself, once started, when no call fails.
LoaderStep(l) ==
  \/ ReuseMap(l) \/ PinMap(l) \/ Loaded(l) \/ Unpin(l)
  \/ FillTable(l) \/ SetIdx(l) \/ Attach(l)
  \/ Check(l) \/ FallAsleep(l) \/ Wake(l)
  \/ RemovePin(l) \/ Destroy(l) \/ Exit(l)

UpdaterStep(u) ==
  OpenIdx(u) \/ LookupIdx(u) \/ WriteSlot(u) \/ Publish(u)

Next ==
  \/ \E l \in Loaders :
       \/ Start(l) \/ LoaderStep(l)
       \/ LoadFails(l) \/ ReturnEarly(l) \/ Sigint(l) \/ Kill(l)
  \/ \E u \in Updaters : Launch(u) \/ UpdaterStep(u) \/ KillUpdater(u)

\* A loader that is running is scheduled, and its sleep(60) comes to an end.
Spec == Init /\ [][Next]_vars /\ \A l \in Loaders : WF_vars(LoaderStep(l))

-----------------------------------------------------------------------------

\* Type invariant.
TypeOK ==
  /\ nn_parameters \in [Loads -> [Slots -> Models]]
  /\ nn_idx \in [Loads -> Slots]
  /\ pins \in MapRefs
  /\ attached \subseteq Loaders
  /\ ldr \in [Loaders -> LoaderState]
  /\ upd \in [Updaters -> UpdaterState]
  /\ nloads \in 0 .. MaxLoads /\ nruns \in 0 .. MaxRuns

\* Whatever earlier executions left behind when they crashed or returned early: while the
\* programs are served the pin paths name exactly the maps they use, also beside loaders
\* that are started a second time, as long as none of those gets to removing a pin.  When
\* a loader that overlapped no other ends by itself (also after a failed load) no pin is
\* left for the next one to inherit.
PinsFollowLoader ==
  \A l \in Loaders :
    /\ ldr[l].kept /\ ldr[l].pc \in MainLoop => pins = ldr[l].map
    /\ ldr[l].sole /\ ldr[l].pc \in {"destroy", "exit"} => pins = NoRefs

\* Between the attach and the end of the cleanup of an undisturbed loader, beside
\* executions of hot_updating that started in that time, one at a time, and that opened
\* both maps or neither: the network its programs use changes only when an execution with
\* a map sets nn_idx, and then to the network deployed.  Killed executions, crashes of
\* earlier loaders, SIGINT and the removal of the pins do not change it.
ServedModelSteady ==
  [][\A l \in Serving :
       l \in attached' /\ (\A u \in Running : upd[u].sole) =>
         IF \E u \in Running : Publish(u) /\ upd[u].fd["nn_idx"] # NoMap
         THEN \E u \in Running : Publish(u) /\ Active(l)' = upd[u].run
         ELSE Active(l)' = Active(l)]_vars

\* SIGINT ends the loader, whenever it arrives ("Cleaner handling of Ctrl-C"), also
\* between the test of exiting and the sleep that it does not shorten then.
SigintEnds == \A l \in Loaders : ldr[l].exiting ~> ldr[l].pc = "off"

=============================================================================
