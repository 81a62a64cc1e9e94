------------------------------ MODULE Detection ------------------------------
(***************************************************************************)
(* The in-kernel detection pipeline of NN-eBPF (src/src/xdp.bpf.c) beside  *)
(* hot updates of the network (ModelSlots).                                *)
(*                                                                         *)
(* Every packet of the monitored host updates the entry of its flow in     *)
(* flow_map; a FIN or RST also starts a detection: xdp_prog stores the     *)
(* current slot index in the entry and six programs, chained by tail       *)
(* calls, scale the features and run the three layers.  All they share     *)
(* across tail calls is that entry: the slot index nn_idx and the scratch  *)
(* vectors hidden1 and hidden2.  Programs run to completion on one CPU,    *)
(* concurrently with the other CPUs and with hot_updating; no lock is used.*)
(*                                                                         *)
(* The features are known by how many packets they sum up, a vector by the *)
(* layers, features and network it was computed from.                      *)
(***************************************************************************)
EXTENDS ModelSlots

CONSTANTS
  CPUs,          \* CPUs that run the XDP programs
  Flows,         \* 4-tuples of the monitored host's connections
  MaxEntries,    \* max_entries of flow_map (MAX_PACKET_REACORD)
  MaxPackets     \* bound: packets handled of one flow

ASSUME DetectionAssumption ==
  MaxEntries \in Nat /\ MaxPackets \in Nat /\ Flows # {}

VARIABLES
  flow_map,   \* per flow: its struct flow_attribute; num_packet = 0: no entry
  progs,      \* indices of the tail-call table that hold a program
  cpu,        \* per CPU: the chained program it is in and the packet's flow, or Idle
  trace,      \* per CPU: what xdp_output_linear printed last
  base        \* history, per CPU: the situation its detection started in

detVars == <<flow_map, progs, cpu, trace, base>>
vars == <<slotVars, detVars>>

\* The tail-call table as the loader fills it (progs[] of xdp.c), from index 0.
Programs ==
  <<"xdp_preprocessing", "xdp_input_linear", "xdp_input_relu",
    "xdp_hidden_linear", "xdp_hidden_relu", "xdp_output_linear">>
ProgIdx == 0 .. 5

\* A vector: after which layer, from the features of how many packets, by which network.
Vector == [layer : 0 .. 6, pkts : Nat, model : Nat]
Junk   == [layer |-> 0, pkts |-> 0, model |-> 0]

\* The logits a detection of a flow after n packets owes, with network m.
Logits(n, m) == [layer |-> 6, pkts |-> n, model |-> m]

FlowAttribute == [num_packet : Nat, nn_idx : Slots, hidden1 : Vector, hidden2 : Vector]
NoEntry == [num_packet |-> 0, nn_idx |-> 0, hidden1 |-> Junk, hidden2 |-> Junk]

Tracked == {f \in Flows : flow_map[f].num_packet > 0}

Base == [pkts : Nat, model : Models, orderly : BOOLEAN, alone : BOOLEAN,
         running : SUBSET Models, nruns : Nat]
NoBase == [pkts |-> 0, model |-> 0, orderly |-> FALSE, alone |-> FALSE,
           running |-> {}, nruns |-> 0]

\* A CPU between packets; its flow means nothing.
Idle == [prog |-> "idle", flow |-> CHOOSE f \in Flows : TRUE]

Trace == [result : Vector, due : Vector, undisturbed : BOOLEAN]
NoTrace == [result |-> Junk, due |-> Junk, undisturbed |-> FALSE]

\* hot_updating executions that were running at some time during c's detection.
Overlapping(c) == base[c].running \cup {r \in Models : base[c].nruns < r /\ r <= nruns}

\* The detection on c met: orderly slots at its start and no cleanup since, no other
\* CPU working on its flow, and at most one execution of hot_updating.
Undisturbed(c) ==
  /\ base[c].orderly /\ pins = Maps
  /\ base[c].alone
  /\ \A r, s \in Overlapping(c) : r = s

-----------------------------------------------------------------------------

DetInit ==
  /\ SlotsInit
  /\ flow_map = [f \in Flows |-> NoEntry]
  /\ progs = ProgIdx
  /\ cpu = [c \in CPUs |-> Idle]
  /\ trace = [c \in CPUs |-> NoTrace]
  /\ base = [c \in CPUs |-> NoBase]

\* bpf_tail_call(ctx, &progs, i) for a packet of flow f: falls through, and the packet
\* passes, if the table has no program there.
TailCall(f, i) == IF i \in progs THEN [prog |-> Programs[i + 1], flow |-> f] ELSE Idle

\* flow f has an entry, or there is room for one.
CanTrack(f) == f \in Tracked \/ Cardinality(Tracked) < MaxEntries

\* CPUs other than c in the middle of a detection of flow f.
Others(c, f) == {x \in CPUs \ {c} : cpu[x].prog # "idle" /\ cpu[x].flow = f}

\* xdp_prog on a packet of flow f that does not end it: the features only.
xdp_prog_Data(c, f) ==
  /\ cpu[c].prog = "idle"
  /\ flow_map[f].num_packet < MaxPackets
  /\ CanTrack(f)
  /\ flow_map' = [flow_map EXCEPT ![f].num_packet = @ + 1]
  /\ base' = [x \in CPUs |-> [base[x] EXCEPT !.alone = @ /\ x \notin Others(c, f)]]
  /\ trace' = [trace EXCEPT ![c] = NoTrace]
  /\ UNCHANGED <<progs, cpu, slotVars>>

\* xdp_prog on a FIN or RST of flow f: the features, the slot index and the first tail
\* call.  Without an entry the packet just passes.
xdp_prog_End(c, f) ==
  /\ cpu[c].prog = "idle"
  /\ flow_map[f].num_packet < MaxPackets
  /\ CanTrack(f)
  /\ flow_map' = [flow_map EXCEPT ![f].num_packet = @ + 1, ![f].nn_idx = nn_idx]
  /\ cpu' = [cpu EXCEPT ![c] = TailCall(f, 0)]
  /\ base' = [x \in CPUs |->
       IF x = c /\ 0 \in progs
       THEN [pkts |-> flow_map[f].num_packet + 1, model |-> published.run,
             orderly |-> Orderly, alone |-> Others(c, f) = {},
             running |-> {upd[u].run : u \in Running}, nruns |-> nruns]
       ELSE [base[x] EXCEPT !.alone = @ /\ x \notin Others(c, f)]]
  /\ trace' = [trace EXCEPT ![c] = NoTrace]
  /\ UNCHANGED <<progs, slotVars>>

\* Mutant: every stage uses the slot that is current when it runs.
Net_Current(c) == nn_parameters[nn_idx]

\* The entry found by flow_tuple and the flow_map lookup of a chained program: the
\* packet is the same, entries are never deleted, and its nn_idx is a valid index of
\* nn_parameters, so neither lookup can fail.
Entry(c) == flow_map[cpu[c].flow]
Net(c)   == nn_parameters[Entry(c).nn_idx]

\* standard_scaler of the features with one network's mean and scale.
Scaled(pkts, mean, scale) ==
  IF mean = scale THEN [layer |-> 1, pkts |-> pkts, model |-> mean] ELSE Junk

\* linear_layer k of the network that weight array w comes from.
Linear(x, k, w) ==
  IF x.layer = k /\ x.model = w THEN [x EXCEPT !.layer = k + 1] ELSE Junk

\* relu in place, which a vector it was already applied to does not notice.
ReLU(x, k) ==
  IF x.layer \in {k, k + 1} THEN [x EXCEPT !.layer = k + 1] ELSE Junk

\* One chained program on CPU c: it leaves its entry as attr and tail-calls index next.
Chained(c, name, attr, next) ==
  /\ cpu[c].prog = name
  /\ flow_map' = [flow_map EXCEPT ![cpu[c].flow] = attr]
  /\ cpu' = [cpu EXCEPT ![c] = TailCall(cpu[c].flow, next)]
  /\ base' = IF next \in progs THEN base ELSE [base EXCEPT ![c] = NoBase]
  /\ UNCHANGED <<progs, trace, slotVars>>

xdp_preprocessing(c) ==
  Chained(c, "xdp_preprocessing",
    [Entry(c) EXCEPT !.hidden2 = Scaled(Entry(c).num_packet, Net(c)["mean"], Net(c)["scale"])],
    1)

xdp_input_linear(c) ==
  Chained(c, "xdp_input_linear",
    [Entry(c) EXCEPT !.hidden1 = Linear(Entry(c).hidden2, 1, Net(c)["layer_0_weight"])], 2)

xdp_input_relu(c) ==
  Chained(c, "xdp_input_relu", [Entry(c) EXCEPT !.hidden1 = ReLU(@, 2)], 3)

xdp_hidden_linear(c) ==
  Chained(c, "xdp_hidden_linear",
    [Entry(c) EXCEPT !.hidden2 = Linear(Entry(c).hidden1, 3, Net(c)["layer_1_weight"])], 4)

\* Mutant: the wrong vector is rectified.
xdp_hidden_relu_Hidden1(c) ==
  Chained(c, "xdp_hidden_relu", [Entry(c) EXCEPT !.hidden1 = ReLU(@, 4)], 5)

\* Mutant: the tail call goes to an index without a program.
xdp_hidden_relu_NextSix(c) ==
  Chained(c, "xdp_hidden_relu", [Entry(c) EXCEPT !.hidden2 = ReLU(@, 4)], 6)

xdp_hidden_relu(c) ==
  Chained(c, "xdp_hidden_relu", [Entry(c) EXCEPT !.hidden2 = ReLU(@, 4)], 5)

\* The last layer, and the trace line with the label.
xdp_output_linear(c) ==
  LET logits == Linear(Entry(c).hidden2, 5, Net(c)["layer_2_weight"])
  IN  /\ cpu[c].prog = "xdp_output_linear"
      /\ flow_map' = [flow_map EXCEPT ![cpu[c].flow].hidden1 = logits]
      /\ cpu' = [cpu EXCEPT ![c] = Idle]
      /\ base' = [base EXCEPT ![c] = NoBase]
      /\ trace' = [trace EXCEPT ![c] =
           [result |-> logits, due |-> Logits(base[c].pkts, base[c].model),
            undisturbed |-> Undisturbed(c)]]
      /\ UNCHANGED <<progs, slotVars>>

\* The loader's last descriptor of the tail-call table is closed, by xdp_bpf__destroy or,
\* with the pins still there, because the loader is killed: the kernel empties the table,
\* entry by entry, while xdp_prog may still be attached.
ClearProgs ==
  /\ \E i \in progs : (\A j \in progs : i <= j) /\ progs' = progs \ {i}
  /\ UNCHANGED <<flow_map, cpu, trace, base, slotVars>>

ChainStep(c) ==
  \/ xdp_preprocessing(c)
  \/ xdp_input_linear(c)
  \/ xdp_input_relu(c)
  \/ xdp_hidden_linear(c)
  \/ xdp_hidden_relu(c)
  \/ xdp_output_linear(c)

DetNext ==
  \/ \E c \in CPUs, f \in Flows : xdp_prog_Data(c, f) \/ xdp_prog_End(c, f)
  \/ \E c \in CPUs : ChainStep(c)
  \/ ClearProgs
  \/ SlotsNext /\ UNCHANGED detVars

\* A CPU in softirq context runs its chain to the end.
DetSpec == DetInit /\ [][DetNext]_vars /\ \A c \in CPUs : WF_vars(ChainStep(c))

-----------------------------------------------------------------------------

\* Type invariant of the pipeline.
DetTypeOK ==
  /\ SlotsTypeOK
  /\ flow_map \in [Flows -> FlowAttribute]
  /\ progs \in SUBSET ProgIdx
  /\ cpu \in [CPUs -> [prog : {Programs[i] : i \in 1 .. 6} \cup {"idle"}, flow : Flows]]
  /\ trace \in [CPUs -> Trace]
  /\ base \in [CPUs -> Base]

\* The label a detection prints is computed from the features its flow had at the
\* FIN or RST, through all six stages, with the one network that was in use then:
\* neither the index flip nor the slot copy of a single hot update, nor detections
\* of other flows on other CPUs, show in it.
VerdictExact ==
  \A c \in CPUs : trace[c].undisturbed => trace[c].result = trace[c].due

\* A detection that has started comes to an end, also when the tail-call table is emptied
\* under it, at whatever stage; and with its label, if the table is still full by then:
\* every stage hands on to the next.
DetectionCompletes ==
  \A c \in CPUs :
    cpu[c].prog # "idle" ~>
      cpu[c].prog = "idle" /\ (trace[c] # NoTrace \/ progs # ProgIdx)

\* The pipeline as one operation per detection: the six programs, their shared entry and
\* the hot updates beside them implement a detection that takes effect at once.
Owed(c) ==
  IF cpu[c].prog = "idle" THEN [state |-> "none"]
  ELSE IF Undisturbed(c)
       THEN [state |-> "owed", verdict |-> Logits(base[c].pkts, base[c].model)]
       ELSE [state |-> "spoilt"]

Atomic ==
  INSTANCE AtomicDetection WITH
    Verdict <- Logits, Counts <- 1 .. MaxPackets, Nothing <- Junk,
    network <- published.run,
    pending <- [c \in CPUs |-> Owed(c)],
    printed <- [c \in CPUs |-> trace[c].result],
    serving <- progs = ProgIdx

DetectionIsAtomic == Atomic!Spec

=============================================================================
