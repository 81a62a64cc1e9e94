-------------------------- MODULE DetectionProofs --------------------------
(***************************************************************************)
(* Proofs about Detection: for any number of CPUs, flows and hot updates,  *)
(* an undisturbed detection prints the verdict of one network on the       *)
(* features its flow had when it ended.                                    *)
(***************************************************************************)
EXTENDS Detection, ModelSlotsProofs

Detecting(c) == cpu[c].prog # "idle"

\* Executions of hot_updating that run at the same time are different ones.
RunsDiffer ==
  \A u, v \in Running : upd[u].run = upd[v].run => u = v

\* What the detection on c remembers of its start lies in the past.
BasePast(c) ==
  /\ base[c].nruns <= nruns
  /\ \A r \in base[c].running : r <= nruns

\* No other CPU is at work on the flow of a detection that is still alone.
KeepsAlone(c) ==
  base[c].alone => \A d \in CPUs \ {c} : Detecting(d) => cpu[d].flow # cpu[c].flow

\* The slot the detection on c uses holds its network, nobody writes that slot, and
\* the one execution it may overlap has not published, or is over.
SlotHeld(c) ==
  LET s == Entry(c).nn_idx
  IN  /\ \A a \in Arrays : nn_parameters[s][a] = base[c].model
      /\ \A u \in Updaters : upd[u].pc = "copy" => upd[u].new_nn_idx # s
      /\ \A u \in Running : upd[u].run \in Overlapping(c)
      /\ nn_idx = s \/ (Running = {} /\ Overlapping(c) # {})

\* The vector that the next program of the chain on c starts from.
VectorDue(c) ==
  LET attr == Entry(c)
      After(k) == [layer |-> k, pkts |-> base[c].pkts, model |-> base[c].model]
  IN  /\ cpu[c].prog = "xdp_preprocessing" => attr.num_packet = base[c].pkts
      /\ cpu[c].prog = "xdp_input_linear"  => attr.hidden2 = After(1)
      /\ cpu[c].prog = "xdp_input_relu"    => attr.hidden1 = After(2)
      /\ cpu[c].prog = "xdp_hidden_linear" => attr.hidden1 = After(3)
      /\ cpu[c].prog = "xdp_hidden_relu"   => attr.hidden2 = After(4)
      /\ cpu[c].prog = "xdp_output_linear" => attr.hidden2 = After(5)

OnCourse(c) ==
  Detecting(c) =>
    /\ BasePast(c)
    /\ KeepsAlone(c)
    /\ Undisturbed(c) => SlotHeld(c) /\ VectorDue(c)

\* The inductive invariant.
DetInv ==
  /\ SlotsInv
  /\ DetTypeOK
  /\ RunsDiffer
  /\ \A c \in CPUs : OnCourse(c)
  /\ VerdictExact

-----------------------------------------------------------------------------

\* Whatever the pipeline does, the slots see a step of SlotsSpec or none.
LEMMA PipelineRespectsSlots ==
  [DetNext]_vars => [SlotsNext]_slotVars
  BY DEF DetNext, vars, slotVars, xdp_prog_Data, xdp_prog_End, ChainStep, Chained,
         xdp_preprocessing, xdp_input_linear, xdp_input_relu, xdp_hidden_linear,
         xdp_hidden_relu, xdp_output_linear, ClearProgs

\* The tail-call table leads to a program of the chain, or the packet passes.
LEMMA TailCallTyped ==
  ASSUME NEW f \in Flows, NEW i \in Nat, progs \in SUBSET ProgIdx
  PROVE  TailCall(f, i) \in
           [prog : {Programs[j] : j \in 1 .. 6} \cup {"idle"}, flow : Flows]
  <1>1. CASE i \in progs
    <2>1. i + 1 \in 1 .. 6
      BY <1>1 DEF ProgIdx
    <2>2. Programs[i + 1] \in {Programs[j] : j \in 1 .. 6}
      BY <2>1
    <2> QED
      BY <1>1, <2>2 DEF TailCall
  <1>2. CASE i \notin progs
    <2>1. (CHOOSE g \in Flows : TRUE) \in Flows
      BY DetectionAssumption
    <2> QED
      BY <1>2, <2>1 DEF TailCall, Idle
  <1> QED
    BY <1>1, <1>2

\* The operators on vectors yield vectors.
LEMMA JunkTyped == Junk \in Vector
  BY DEF Junk, Vector

\* The verdict that is due is a vector.
LEMMA LogitsTyped ==
  ASSUME NEW n \in Nat, NEW m \in Nat
  PROVE  Logits(n, m) \in Vector
  BY DEF Vector, Logits

\* Scaling yields a vector.
LEMMA ScaledTyped ==
  ASSUME NEW n \in Nat, NEW p \in Nat, NEW q \in Nat
  PROVE  Scaled(n, p, q) \in Vector
  BY JunkTyped DEF Scaled, Vector

\* So does a linear layer.
LEMMA LinearTyped ==
  ASSUME NEW x \in Vector, NEW k \in 0 .. 5, NEW w \in Nat
  PROVE  Linear(x, k, w) \in Vector
  BY JunkTyped DEF Linear, Vector

\* And so does relu.
LEMMA ReLUTyped ==
  ASSUME NEW x \in Vector, NEW k \in 0 .. 5
  PROVE  ReLU(x, k) \in Vector
  BY JunkTyped DEF ReLU, Vector

\* The entry and the network that a program on a busy CPU works with.
LEMMA EntryTyped ==
  ASSUME DetTypeOK, NEW c \in CPUs
  PROVE  /\ cpu[c].flow \in Flows
         /\ Entry(c) \in FlowAttribute
         /\ Entry(c).num_packet \in Nat
         /\ Entry(c).hidden1 \in Vector /\ Entry(c).hidden2 \in Vector
         /\ \A a \in Arrays : Net(c)[a] \in Nat
  <1>1. cpu[c].flow \in Flows
    BY DEF DetTypeOK
  <1>2. Entry(c) \in FlowAttribute
    BY <1>1 DEF DetTypeOK, Entry
  <1>3. \A a \in Arrays : Net(c)[a] \in Models
    BY <1>2 DEF DetTypeOK, SlotsTypeOK, Net, FlowAttribute
  <1> QED
    BY <1>1, <1>2, <1>3, MaxRunsAssumption DEF FlowAttribute, Models

\* Initial types.
LEMMA DetTypeInit == DetInit => DetTypeOK
  <1> SUFFICES ASSUME DetInit PROVE DetTypeOK
    OBVIOUS
  <1>1. SlotsTypeOK
    BY SlotsInvInit DEF DetInit, SlotsInv
  <1>2. NoEntry \in FlowAttribute
    BY JunkTyped DEF NoEntry, FlowAttribute, Slots
  <1>3. Idle \in [prog : {Programs[i] : i \in 1 .. 6} \cup {"idle"}, flow : Flows]
    BY DetectionAssumption DEF Idle
  <1>4. NoTrace \in Trace
    BY JunkTyped DEF NoTrace, Trace
  <1>5. NoBase \in Base
    BY MaxRunsAssumption DEF NoBase, Base, Models
  <1> QED
    BY <1>1, <1>2, <1>3, <1>4, <1>5 DEF DetInit, DetTypeOK

\* A chained program that leaves a well-typed entry keeps the types.
LEMMA ChainedTyped ==
  ASSUME DetTypeOK, NEW c \in CPUs, NEW name, NEW attr \in FlowAttribute, NEW next \in Nat,
         Chained(c, name, attr, next)
  PROVE  DetTypeOK'
  <1>1. SlotsTypeOK'
    BY DEF DetTypeOK, Chained, slotVars, SlotsTypeOK
  <1>2. flow_map' \in [Flows -> FlowAttribute]
    BY DEF DetTypeOK, Chained
  <1>3. TailCall(cpu[c].flow, next) \in
          [prog : {Programs[i] : i \in 1 .. 6} \cup {"idle"}, flow : Flows]
    BY TailCallTyped, EntryTyped DEF DetTypeOK
  <1>4. cpu' \in [CPUs -> [prog : {Programs[i] : i \in 1 .. 6} \cup {"idle"}, flow : Flows]]
    BY <1>3 DEF DetTypeOK, Chained
  <1>5. NoBase \in Base
    BY MaxRunsAssumption DEF NoBase, Base, Models
  <1>6. base' \in [CPUs -> Base]
    BY <1>5 DEF DetTypeOK, Chained
  <1> QED
    BY <1>1, <1>2, <1>4, <1>6 DEF DetTypeOK, Chained

\* The programs of the chain keep the types.
LEMMA ChainStepTyped ==
  ASSUME DetTypeOK, NEW c \in CPUs, ChainStep(c)
  PROVE  DetTypeOK'
  <1> DEFINE e == Entry(c)
  <1>a. /\ e \in FlowAttribute /\ e.num_packet \in Nat
        /\ e.hidden1 \in Vector /\ e.hidden2 \in Vector
    BY EntryTyped
  <1>b. /\ Net(c)["layer_0_weight"] \in Nat /\ Net(c)["layer_1_weight"] \in Nat
        /\ Net(c)["layer_2_weight"] \in Nat
        /\ Net(c)["mean"] \in Nat /\ Net(c)["scale"] \in Nat
    BY EntryTyped DEF Arrays
  <1>k. 1 \in 0 .. 5 /\ 3 \in 0 .. 5 /\ 5 \in 0 .. 5
    OBVIOUS
  <1>c. \A v \in Vector : /\ [e EXCEPT !.hidden1 = v] \in FlowAttribute
                          /\ [e EXCEPT !.hidden2 = v] \in FlowAttribute
    BY <1>a DEF FlowAttribute
  <1>1. CASE xdp_preprocessing(c)
    <2> DEFINE attr == [e EXCEPT !.hidden2 = Scaled(e.num_packet, Net(c)["mean"], Net(c)["scale"])]
    <2>1. Scaled(e.num_packet, Net(c)["mean"], Net(c)["scale"]) \in Vector
      BY <1>a, <1>b, ScaledTyped
    <2>2. attr \in FlowAttribute
      BY <1>c, <2>1
    <2>3. Chained(c, "xdp_preprocessing", attr, 1)
      BY <1>1 DEF xdp_preprocessing
    <2> HIDE DEF attr
    <2> QED
      BY <2>2, <2>3, ChainedTyped
  <1>2. CASE xdp_input_linear(c)
    <2> DEFINE attr == [e EXCEPT !.hidden1 = Linear(e.hidden2, 1, Net(c)["layer_0_weight"])]
    <2>1. Linear(e.hidden2, 1, Net(c)["layer_0_weight"]) \in Vector
      BY <1>a, <1>b, <1>k, LinearTyped, Zenon
    <2>2. attr \in FlowAttribute
      BY <1>c, <2>1
    <2>3. Chained(c, "xdp_input_linear", attr, 2)
      BY <1>2 DEF xdp_input_linear
    <2> HIDE DEF attr
    <2> QED
      BY <2>2, <2>3, ChainedTyped
  <1>3. CASE xdp_input_relu(c)
    <2> DEFINE attr == [e EXCEPT !.hidden1 = ReLU(e.hidden1, 2)]
    <2>1. ReLU(e.hidden1, 2) \in Vector
      BY <1>a, ReLUTyped
    <2>2. attr \in FlowAttribute
      BY <1>c, <2>1
    <2>3. Chained(c, "xdp_input_relu", attr, 3)
      BY <1>3 DEF xdp_input_relu
    <2> HIDE DEF attr
    <2> QED
      BY <2>2, <2>3, ChainedTyped
  <1>4. CASE xdp_hidden_linear(c)
    <2> DEFINE attr == [e EXCEPT !.hidden2 = Linear(e.hidden1, 3, Net(c)["layer_1_weight"])]
    <2>1. Linear(e.hidden1, 3, Net(c)["layer_1_weight"]) \in Vector
      BY <1>a, <1>b, <1>k, LinearTyped, Zenon
    <2>2. attr \in FlowAttribute
      BY <1>c, <2>1
    <2>3. Chained(c, "xdp_hidden_linear", attr, 4)
      BY <1>4 DEF xdp_hidden_linear
    <2> HIDE DEF attr
    <2> QED
      BY <2>2, <2>3, ChainedTyped
  <1>5. CASE xdp_hidden_relu(c)
    <2> DEFINE attr == [e EXCEPT !.hidden2 = ReLU(e.hidden2, 4)]
    <2>1. ReLU(e.hidden2, 4) \in Vector
      BY <1>a, ReLUTyped
    <2>2. attr \in FlowAttribute
      BY <1>c, <2>1
    <2>3. Chained(c, "xdp_hidden_relu", attr, 5)
      BY <1>5 DEF xdp_hidden_relu
    <2> HIDE DEF attr
    <2> QED
      BY <2>2, <2>3, ChainedTyped
  <1>6. CASE xdp_output_linear(c)
    <2>1. SlotsTypeOK'
      BY <1>6 DEF DetTypeOK, xdp_output_linear, slotVars, SlotsTypeOK
    <2> DEFINE logits == Linear(e.hidden2, 5, Net(c)["layer_2_weight"])
               due == Logits(base[c].pkts, base[c].model)
    <2>2. logits \in Vector
      BY <1>a, <1>b, <1>k, LinearTyped, Zenon
    <2>3. due \in Vector
      <3>1. base[c].pkts \in Nat /\ base[c].model \in Nat
        BY MaxRunsAssumption DEF DetTypeOK, Base, Models
      <3> QED
        BY <3>1, LogitsTyped
    <2>4. flow_map' = [flow_map EXCEPT ![cpu[c].flow] = [e EXCEPT !.hidden1 = logits]]
      BY <1>6 DEF xdp_output_linear, Entry
    <2>5. [result |-> logits, due |-> due, undisturbed |-> Undisturbed(c)] \in Trace
      <3>1. Undisturbed(c) \in BOOLEAN
        BY DEF Undisturbed, DetTypeOK, Base
      <3> QED
        BY <2>2, <2>3, <3>1 DEF Trace
    <2>6. trace' = [trace EXCEPT ![c] =
                      [result |-> logits, due |-> due, undisturbed |-> Undisturbed(c)]]
      BY <1>6 DEF xdp_output_linear
    <2> HIDE DEF logits, due
    <2>7. flow_map' \in [Flows -> FlowAttribute]
      BY <1>c, <2>2, <2>4 DEF DetTypeOK
    <2>8. trace' \in [CPUs -> Trace]
      BY <2>5, <2>6 DEF DetTypeOK
    <2>9. Idle \in [prog : {Programs[i] : i \in 1 .. 6} \cup {"idle"}, flow : Flows]
      BY DetectionAssumption DEF Idle
    <2>10. NoBase \in Base
      BY MaxRunsAssumption DEF NoBase, Base, Models
    <2> QED
      BY <1>6, <2>1, <2>7, <2>8, <2>9, <2>10 DEF DetTypeOK, xdp_output_linear
  <1> QED
    BY <1>1, <1>2, <1>3, <1>4, <1>5, <1>6 DEF ChainStep

\* Every step keeps the types.
LEMMA DetTypeStep ==
  ASSUME DetTypeOK, SlotsTypeOK', [DetNext]_vars
  PROVE  DetTypeOK'
  <1>1. ASSUME NEW c \in CPUs, NEW f \in Flows, xdp_prog_Data(c, f) \/ xdp_prog_End(c, f)
        PROVE  DetTypeOK'
    <2>a. NoTrace \in Trace
      BY JunkTyped DEF NoTrace, Trace
    <2>1. trace' \in [CPUs -> Trace]
      BY <1>1, <2>a DEF DetTypeOK, xdp_prog_Data, xdp_prog_End
    <2>2. flow_map' \in [Flows -> FlowAttribute]
      <3>1. nn_idx \in Slots
        BY DEF DetTypeOK, SlotsTypeOK
      <3>2. /\ [flow_map[f] EXCEPT !.num_packet = @ + 1] \in FlowAttribute
            /\ [flow_map[f] EXCEPT !.num_packet = @ + 1, !.nn_idx = nn_idx] \in FlowAttribute
        <4>1. flow_map[f] \in FlowAttribute
          BY DEF DetTypeOK
        <4>2. flow_map[f].num_packet + 1 \in Nat
          BY <4>1 DEF FlowAttribute
        <4> DEFINE n == flow_map[f].num_packet + 1
        <4> HIDE DEF n
        <4>3. \A g \in FlowAttribute : /\ [g EXCEPT !.num_packet = n] \in FlowAttribute
                                      /\ [g EXCEPT !.nn_idx = nn_idx] \in FlowAttribute
          BY <3>1, <4>2 DEF FlowAttribute, n
        <4>4. [[flow_map[f] EXCEPT !.num_packet = n] EXCEPT !.nn_idx = nn_idx] \in FlowAttribute
          BY <4>1, <4>3
        <4> QED
          BY <4>1, <4>3, <4>4 DEF n
      <3>3. \/ flow_map' = [flow_map EXCEPT ![f] = [flow_map[f] EXCEPT !.num_packet = @ + 1]]
            \/ flow_map' = [flow_map EXCEPT ![f] =
                              [flow_map[f] EXCEPT !.num_packet = @ + 1, !.nn_idx = nn_idx]]
        BY <1>1 DEF xdp_prog_Data, xdp_prog_End
      <3> QED
        BY <3>2, <3>3 DEF DetTypeOK
    <2>3. cpu' \in [CPUs -> [prog : {Programs[i] : i \in 1 .. 6} \cup {"idle"}, flow : Flows]]
      <3>1. TailCall(f, 0) \in [prog : {Programs[i] : i \in 1 .. 6} \cup {"idle"}, flow : Flows]
        BY TailCallTyped DEF DetTypeOK
      <3> QED
        BY <1>1, <3>1 DEF DetTypeOK, xdp_prog_Data, xdp_prog_End
    <2>4. base' \in [CPUs -> Base]
      <3>1. \A x \in CPUs, b \in BOOLEAN : [base[x] EXCEPT !.alone = b] \in Base
        BY DEF DetTypeOK, Base
      <3>2. \A x \in CPUs : (base[x].alone /\ x \notin Others(c, f)) \in BOOLEAN
        OBVIOUS
      <3>3. CASE xdp_prog_Data(c, f)
        BY <3>1, <3>2, <3>3 DEF xdp_prog_Data
      <3>4. CASE xdp_prog_End(c, f)
        <4> DEFINE new == [pkts |-> flow_map[f].num_packet + 1, model |-> published.run,
                           orderly |-> Orderly, alone |-> Others(c, f) = {},
                           running |-> {upd[u].run : u \in Running}, nruns |-> nruns]
        <4>1. flow_map[f].num_packet + 1 \in Nat /\ published.run \in Models /\ nruns \in Nat
          BY DEF DetTypeOK, FlowAttribute, SlotsTypeOK
        <4>2. {upd[u].run : u \in Running} \in SUBSET Models
          BY DEF DetTypeOK, SlotsTypeOK, UpdaterState, Running
        <4>3. Orderly \in BOOLEAN /\ (Others(c, f) = {}) \in BOOLEAN
          BY DEF Orderly, DetTypeOK, SlotsTypeOK
        <4>4. new \in Base
          BY <4>1, <4>2, <4>3 DEF Base
        <4>5. base' = [x \in CPUs |->
                IF x = c /\ 0 \in progs THEN new
                ELSE [base[x] EXCEPT !.alone = @ /\ x \notin Others(c, f)]]
          BY <3>4 DEF xdp_prog_End
        <4> HIDE DEF new
        <4> QED
          BY <3>1, <3>2, <4>4, <4>5
      <3> QED
        BY <1>1, <3>3, <3>4
    <2> QED
      BY <1>1, <2>1, <2>2, <2>3, <2>4 DEF DetTypeOK, xdp_prog_Data, xdp_prog_End
  <1>2. ASSUME NEW c \in CPUs, ChainStep(c)
        PROVE  DetTypeOK'
    BY <1>2, ChainStepTyped
  <1>3. CASE ClearProgs
    BY <1>3 DEF DetTypeOK, ClearProgs
  <1>4. CASE UNCHANGED detVars
    BY <1>4 DEF DetTypeOK, detVars
  <1> QED
    BY <1>1, <1>2, <1>3, <1>4 DEF DetNext, vars

-----------------------------------------------------------------------------
(* Steps of hot_updating and of the loader beside a detection. *)

\* What a hot_updating process does after its start touches only its own record, and
\* neither its number nor the count of executions.
LEMMA RunsKept ==
  ASSUME SlotsTypeOK, NEW u \in Updaters, UpdaterNext(u), ~Launch(u)
  PROVE  /\ nruns' = nruns
         /\ Running' \subseteq Running
         /\ \A v \in Running' : upd'[v].run = upd[v].run
  <1>a. upd \in [Updaters -> UpdaterState]
    BY DEF SlotsTypeOK
  <1>1. CASE OpenIdx(u)
    BY <1>a, <1>1 DEF OpenIdx, Running, UpdaterState
  <1>2. CASE LookupIdx(u)
    BY <1>a, <1>2 DEF LookupIdx, Running, UpdaterState
  <1>3. ASSUME NEW a \in Arrays, CopyArray(u, a)
        PROVE  /\ nruns' = nruns
               /\ Running' \subseteq Running
               /\ \A v \in Running' : upd'[v].run = upd[v].run
    BY <1>a, <1>3 DEF CopyArray, Running, UpdaterState
  <1>4. CASE Publish(u)
    BY <1>a, <1>4 DEF Publish, Running, IdleUpdater
  <1>5. CASE Kill(u)
    BY <1>a, <1>5 DEF Kill, Running, IdleUpdater
  <1> QED
    BY <1>1, <1>2, <1>3, <1>4, <1>5 DEF UpdaterNext

\* Executions of hot_updating that run at the same time stay different ones.
LEMMA RunsStayDifferent ==
  ASSUME SlotsInv, RunsDiffer, [SlotsNext]_slotVars
  PROVE  RunsDiffer'
  <1>1. ASSUME NEW u \in Updaters, Launch(u)
        PROVE  RunsDiffer'
    <2>1. upd'[u].run = nruns + 1 /\ \A v \in Updaters \ {u} : upd'[v] = upd[v]
      BY <1>1 DEF SlotsInv, SlotsTypeOK, Launch
    <2>2. \A v \in Updaters : upd[v].run <= nruns /\ upd[v].run \in Nat /\ nruns \in Nat
      BY MaxRunsAssumption DEF SlotsInv, SlotsTypeOK, RunsBounded, UpdaterState, Models
    <2> QED
      BY <2>1, <2>2 DEF RunsDiffer, Running
  <1>2. ASSUME NEW u \in Updaters, ~Launch(u), UpdaterNext(u)
        PROVE  RunsDiffer'
    BY <1>2, RunsKept DEF RunsDiffer, SlotsInv
  <1>3. CASE RemovePin \/ UNCHANGED slotVars
    BY <1>3 DEF RunsDiffer, Running, RemovePin, slotVars
  <1> QED
    BY <1>1, <1>2, <1>3 DEF SlotsNext

\* What one detection may overlap only grows, and the pins never come back.
LEMMA OverlappingGrows ==
  ASSUME SlotsTypeOK, SlotsTypeOK', NEW c \in CPUs, base' = base, nruns' >= nruns,
         pins' = Maps => pins = Maps
  PROVE  /\ Overlapping(c) \subseteq Overlapping(c)'
         /\ Undisturbed(c)' => Undisturbed(c)
  <1>1. nruns \in Int /\ nruns' \in Int
    BY DEF SlotsTypeOK
  <1>2. Overlapping(c) \subseteq Overlapping(c)'
    <2> SUFFICES ASSUME NEW r \in Models, base[c].nruns < r, r <= nruns
                 PROVE  r <= nruns'
      BY DEF Overlapping
    <2> QED
      BY <1>1, MaxRunsAssumption DEF Models
  <1> QED
    BY <1>2 DEF Undisturbed

\* A slot step of hot_updating that the detection on c survives undisturbed leaves its
\* slot alone.
LEMMA HeldBesideUpdater ==
  ASSUME SlotsInv, RunsDiffer, NEW c \in CPUs, base[c].nruns \in Nat, BasePast(c),
         SlotHeld(c), Undisturbed(c), Undisturbed(c)', UNCHANGED detVars,
         NEW u \in Updaters, UpdaterNext(u)
  PROVE  SlotHeld(c)'
  <1> DEFINE s == Entry(c).nn_idx
             Held == /\ \A a \in Arrays : nn_parameters'[s][a] = base[c].model
                     /\ \A v \in Updaters : upd'[v].pc = "copy" => upd'[v].new_nn_idx # s
                     /\ \A v \in Running' : upd'[v].run \in Overlapping(c)'
                     /\ nn_idx' = s \/ (Running' = {} /\ Overlapping(c)' # {})
  <1>a. Entry(c)' = Entry(c) /\ base' = base
    BY DEF detVars, Entry
  <1>b. /\ \A a \in Arrays : nn_parameters[s][a] = base[c].model
        /\ \A v \in Updaters : upd[v].pc = "copy" => upd[v].new_nn_idx # s
        /\ \A v \in Running : upd[v].run \in Overlapping(c)
        /\ nn_idx = s \/ (Running = {} /\ Overlapping(c) # {})
    BY DEF SlotHeld
  <1>c. pins = Maps /\ \A r, q \in Overlapping(c) : r = q
    BY DEF Undisturbed
  <1>d. upd \in [Updaters -> UpdaterState] /\ nn_idx \in Slots /\ nruns \in Nat
        /\ nn_parameters \in [Slots -> [Arrays -> Models]]
    BY DEF SlotsInv, SlotsTypeOK
  <1>e. nruns' = nruns => Overlapping(c)' = Overlapping(c)
    BY <1>a DEF Overlapping
  <1>f. Held => SlotHeld(c)'
    BY <1>a DEF SlotHeld
  <1> HIDE DEF s
  <1>1. CASE Launch(u)
    <2>1. /\ nruns' = nruns + 1 /\ nruns + 1 \in Models
          /\ upd'[u].pc = "open_idx" /\ upd'[u].run = nruns + 1
          /\ \A v \in Updaters \ {u} : upd'[v] = upd[v]
          /\ nn_parameters' = nn_parameters /\ nn_idx' = nn_idx
      BY <1>1, <1>d, MaxRunsAssumption DEF Launch, Models
    <2>2. nruns + 1 \in Overlapping(c)'
      BY <1>a, <1>d, <2>1 DEF Overlapping, BasePast
    <2>3. \A r \in Overlapping(c) : r <= nruns /\ r \in Overlapping(c)'
      BY <1>a, <1>d, <2>1, MaxRunsAssumption DEF Overlapping, BasePast, Models
    <2>4. \A r \in Overlapping(c)' : r = nruns + 1
      BY <2>2 DEF Undisturbed
    <2>5. Overlapping(c) = {}
      BY <1>d, <2>3, <2>4
    <2>6. Running = {} /\ nn_idx = s
      BY <1>b, <2>5
    <2>7. \A v \in Updaters : v # u => upd'[v].pc = "idle"
      BY <2>1, <2>6 DEF Running
    <2>8. Running' = {u}
      BY <2>1, <2>7 DEF Running
    <2> QED
      BY <1>b, <1>f, <2>1, <2>2, <2>6, <2>7, <2>8
  <1>2. CASE ~Launch(u)
    <2>1. nruns' = nruns /\ Running' \subseteq Running
          /\ \A v \in Running' : upd'[v].run = upd[v].run
      BY <1>2, RunsKept DEF SlotsInv
    <2>2. upd[u].pc # "idle"
      BY <1>2 DEF UpdaterNext, OpenIdx, LookupIdx, CopyArray, Publish, SlotWritten, Kill
    <2>3. u \in Running /\ nn_idx = s
      BY <1>b, <2>2 DEF Running
    <2>4. \A v \in Running' : upd'[v].run \in Overlapping(c)'
      BY <1>b, <1>e, <2>1
    <2>5. CASE OpenIdx(u)
      BY <1>b, <1>d, <1>f, <2>3, <2>4, <2>5 DEF OpenIdx, UpdaterState
    <2>6. CASE LookupIdx(u)
      <3>1. "nn_idx" \in upd[u].fds
        BY <1>c, <2>6 DEF LookupIdx, SlotsInv, HandlesOpen, Maps
      <3>2. upd' = [upd EXCEPT ![u].pc = "copy", ![u].new_nn_idx = (nn_idx + 1) % 2]
            /\ nn_parameters' = nn_parameters /\ nn_idx' = nn_idx
        BY <2>6, <3>1 DEF LookupIdx
      <3>3. (nn_idx + 1) % 2 # s
        BY <1>d, <2>3 DEF Slots
      <3> DEFINE new == (nn_idx + 1) % 2
      <3> HIDE DEF new
      <3>4. \A v \in Updaters : upd'[v].pc = "copy" => upd'[v].new_nn_idx # s
        BY <1>b, <1>d, <3>2, <3>3 DEF new, UpdaterState
      <3> QED
        BY <1>b, <1>f, <2>3, <2>4, <3>2, <3>4
    <2>7. ASSUME NEW a \in Arrays, CopyArray(u, a)
          PROVE  SlotHeld(c)'
      <3>1. upd[u].new_nn_idx # s
        BY <1>b, <2>7 DEF CopyArray
      <3>2. nn_parameters'[s] = nn_parameters[s] /\ nn_idx' = nn_idx
        BY <1>d, <2>3, <2>7, <3>1 DEF CopyArray
      <3>3. \A v \in Updaters : upd'[v].pc = "copy" => upd'[v].new_nn_idx # s
        BY <1>b, <1>d, <2>7 DEF CopyArray, UpdaterState
      <3> QED
        BY <1>b, <1>f, <2>3, <2>4, <3>2, <3>3
    <2>8. CASE Publish(u)
      <3>1. nn_parameters' = nn_parameters /\ upd' = [upd EXCEPT ![u] = IdleUpdater]
        BY <2>8 DEF Publish
      <3>2. \A v \in Running : v = u
        BY <1>b, <1>c, <2>3 DEF RunsDiffer
      <3>3. Running' = {}
        BY <1>d, <2>1, <3>1, <3>2 DEF Running, IdleUpdater
      <3>4. Overlapping(c)' # {}
        BY <1>b, <1>e, <2>1, <2>3
      <3>5. \A v \in Updaters : upd'[v].pc = "copy" => upd'[v].new_nn_idx # s
        BY <3>3 DEF Running
      <3> QED
        BY <1>b, <1>f, <2>4, <3>1, <3>3, <3>4, <3>5
    <2>9. CASE Kill(u)
      <3>1. /\ nn_parameters' = nn_parameters /\ nn_idx' = nn_idx
            /\ upd' = [upd EXCEPT ![u] = IdleUpdater]
        BY <2>9 DEF Kill
      <3>2. \A v \in Updaters : upd'[v].pc = "copy" => upd'[v].new_nn_idx # s
        BY <1>b, <1>d, <3>1 DEF IdleUpdater
      <3> QED
        BY <1>b, <1>f, <2>3, <2>4, <3>1, <3>2
    <2> QED
      BY <1>2, <2>5, <2>6, <2>7, <2>8, <2>9 DEF UpdaterNext
  <1> QED
    BY <1>1, <1>2

\* Slot steps count executions up and never restore a pin.
LEMMA SlotsForward ==
  ASSUME SlotsTypeOK, [SlotsNext]_slotVars
  PROVE  /\ nruns' >= nruns
         /\ pins' = Maps => pins = Maps
  <1>a. nruns \in Nat
    BY DEF SlotsTypeOK
  <1>1. ASSUME NEW u \in Updaters, UpdaterNext(u)
        PROVE  nruns' >= nruns /\ pins' = pins
    <2>1. CASE Launch(u)
      BY <1>a, <2>1 DEF Launch
    <2>2. CASE ~Launch(u)
      <3>1. nruns' = nruns
        BY <1>1, <2>2, RunsKept
      <3>2. pins' = pins
        BY <1>1, <2>2, Zenon DEF UpdaterNext, OpenIdx, LookupIdx, CopyArray, Publish, Kill
      <3> QED
        BY <1>a, <3>1, <3>2
    <2> QED
      BY <2>1, <2>2
  <1>2. CASE RemovePin
    BY <1>a, <1>2 DEF RemovePin, Maps
  <1>3. CASE UNCHANGED slotVars
    BY <1>a, <1>3 DEF slotVars
  <1> QED
    BY <1>1, <1>2, <1>3 DEF SlotsNext

\* A detection stays on course beside any slot step.
LEMMA OnCourseBesideSlots ==
  ASSUME DetInv, DetTypeOK', NEW c \in CPUs, [SlotsNext]_slotVars, UNCHANGED detVars
  PROVE  OnCourse(c)'
  <1>a. Entry(c)' = Entry(c) /\ base' = base /\ cpu' = cpu
    BY DEF detVars, Entry
  <1>b. /\ base[c].nruns \in Nat /\ nruns \in Nat /\ nruns' \in Nat
        /\ base[c].running \in SUBSET Models
    BY DEF DetInv, DetTypeOK, SlotsTypeOK, Base
  <1>c. SlotsTypeOK /\ SlotsTypeOK'
    BY DEF DetInv, DetTypeOK
  <1>d. nruns' >= nruns /\ (pins' = Maps => pins = Maps)
    BY <1>c, SlotsForward
  <1> SUFFICES ASSUME Detecting(c)
               PROVE  /\ BasePast(c)'
                      /\ KeepsAlone(c)'
                      /\ Undisturbed(c)' => SlotHeld(c)' /\ VectorDue(c)'
    BY <1>a DEF OnCourse, Detecting
  <1>e. /\ BasePast(c)
        /\ KeepsAlone(c)
        /\ Undisturbed(c) => SlotHeld(c) /\ VectorDue(c)
    BY DEF DetInv, OnCourse
  <1>1. BasePast(c)'
    <2>1. \A r \in Models : r \in Int
      BY MaxRunsAssumption DEF Models
    <2> QED
      BY <1>a, <1>b, <1>d, <1>e, <2>1 DEF BasePast
  <1>2. KeepsAlone(c)'
    BY <1>a, <1>e DEF KeepsAlone, Detecting
  <1>3. ASSUME Undisturbed(c)'
        PROVE  SlotHeld(c)' /\ VectorDue(c)'
    <2>1. Undisturbed(c) /\ SlotHeld(c) /\ VectorDue(c)
      BY <1>a, <1>c, <1>d, <1>e, <1>3, OverlappingGrows
    <2>2. VectorDue(c)'
      BY <1>a, <2>1 DEF VectorDue
    <2>3. ASSUME NEW u \in Updaters, UpdaterNext(u)
          PROVE  SlotHeld(c)'
      BY <1>b, <1>e, <1>3, <2>1, <2>3, HeldBesideUpdater DEF DetInv
    <2>4. CASE RemovePin
      <3>1. pins' # Maps
        BY <2>4 DEF RemovePin, Maps
      <3> QED
        BY <1>3, <3>1 DEF Undisturbed
    <2>5. CASE UNCHANGED slotVars
      <3>1. Overlapping(c)' = Overlapping(c)
        BY <1>a, <2>5 DEF Overlapping, slotVars
      <3> QED
        BY <1>a, <2>1, <2>2, <2>5, <3>1 DEF SlotHeld, slotVars, Running
    <2> QED
      BY <2>2, <2>3, <2>4, <2>5 DEF SlotsNext
  <1> QED
    BY <1>1, <1>2, <1>3

-----------------------------------------------------------------------------
(* Steps of the CPUs. *)

\* A detection is not set off course by what leaves its own CPU alone and, while it is
\* alone with its flow, also its entry.
LEMMA OnCourseBesideCPU ==
  ASSUME NEW x \in CPUs, OnCourse(x), UNCHANGED slotVars, cpu'[x] = cpu[x],
         base[x].alone \in BOOLEAN,
         NEW b \in BOOLEAN, base'[x] = [base[x] EXCEPT !.alone = b],
         base[x] \in Base, b => base[x].alone,
         Detecting(x) /\ b => /\ Entry(x)' = Entry(x)
                              /\ KeepsAlone(x)'
  PROVE  OnCourse(x)'
  <1>a. /\ base'[x].alone = b
        /\ base'[x].pkts = base[x].pkts /\ base'[x].model = base[x].model
        /\ base'[x].orderly = base[x].orderly /\ base'[x].running = base[x].running
        /\ base'[x].nruns = base[x].nruns
    BY DEF Base
  <1>b. /\ nn_parameters' = nn_parameters /\ nn_idx' = nn_idx /\ pins' = pins
        /\ upd' = upd /\ nruns' = nruns
    BY DEF slotVars
  <1> SUFFICES ASSUME Detecting(x)
               PROVE  /\ BasePast(x)'
                      /\ KeepsAlone(x)'
                      /\ Undisturbed(x)' => SlotHeld(x)' /\ VectorDue(x)'
    BY DEF OnCourse, Detecting
  <1>c. Overlapping(x)' = Overlapping(x)
    BY <1>a, <1>b DEF Overlapping
  <1>1. BasePast(x)'
    BY <1>a, <1>b DEF OnCourse, BasePast
  <1>2. KeepsAlone(x)'
    BY <1>a DEF KeepsAlone
  <1>3. ASSUME Undisturbed(x)'
        PROVE  SlotHeld(x)' /\ VectorDue(x)'
    <2>1. b /\ Undisturbed(x)
      BY <1>a, <1>b, <1>c, <1>3 DEF Undisturbed
    <2>2. Entry(x)' = Entry(x) /\ SlotHeld(x) /\ VectorDue(x)
      BY <2>1 DEF OnCourse
    <2>3. SlotHeld(x)'
      BY <1>a, <1>b, <1>c, <2>2 DEF SlotHeld, Running
    <2>4. VectorDue(x)'
      BY <1>a, <2>2 DEF VectorDue
    <2> QED
      BY <2>3, <2>4
  <1> QED
    BY <1>1, <1>2, <1>3

\* A tail call that does not fall through leads to the program at its index, with the
\* same packet.
LEMMA TailCallLeads ==
  ASSUME NEW f, NEW i, TailCall(f, i).prog # "idle"
  PROVE  /\ i \in progs
         /\ TailCall(f, i).prog = Programs[i + 1]
         /\ TailCall(f, i).flow = f
  BY DEF TailCall, Idle

\* A packet that only updates the features of its flow.
LEMMA DataOnCourse ==
  ASSUME DetInv, NEW c \in CPUs, NEW f \in Flows, xdp_prog_Data(c, f), NEW x \in CPUs
  PROVE  OnCourse(x)'
  <1> DEFINE b == base[x].alone /\ x \notin Others(c, f)
  <1>1. base[x] \in Base /\ base[x].alone \in BOOLEAN /\ flow_map \in [Flows -> FlowAttribute]
    BY DEF DetInv, DetTypeOK, Base
  <1>2. base'[x] = [base[x] EXCEPT !.alone = b] /\ cpu' = cpu /\ UNCHANGED slotVars
    BY DEF xdp_prog_Data
  <1>3. ASSUME Detecting(x), b
        PROVE  Entry(x)' = Entry(x) /\ KeepsAlone(x)'
    <2>1. x # c
      BY <1>3 DEF xdp_prog_Data, Detecting
    <2>2. cpu[x].flow # f
      BY <1>3, <2>1 DEF Others, Detecting
    <2>3. Entry(x)' = Entry(x)
      BY <1>1, <1>2, <2>2 DEF xdp_prog_Data, Entry
    <2>4. KeepsAlone(x)'
      BY <1>2, <1>3 DEF DetInv, OnCourse, KeepsAlone, Detecting
    <2> QED
      BY <2>3, <2>4
  <1>4. OnCourse(x) /\ cpu'[x] = cpu[x]
    BY <1>2 DEF DetInv
  <1>5. b \in BOOLEAN /\ (b => base[x].alone)
    OBVIOUS
  <1> HIDE DEF b
  <1> QED
    BY <1>1, <1>2, <1>3, <1>4, <1>5, OnCourseBesideCPU

\* A FIN or RST on CPU c does not disturb the detections of other flows ...
LEMMA EndBesideOnCourse ==
  ASSUME DetInv, NEW c \in CPUs, NEW f \in Flows, xdp_prog_End(c, f),
         NEW x \in CPUs, x # c
  PROVE  OnCourse(x)'
  <1> DEFINE b == base[x].alone /\ x \notin Others(c, f)
  <1>1. base[x] \in Base /\ base[x].alone \in BOOLEAN
        /\ flow_map \in [Flows -> FlowAttribute] /\ c \in DOMAIN cpu
    BY DEF DetInv, DetTypeOK, Base
  <1>2. base'[x] = [base[x] EXCEPT !.alone = b] /\ cpu' = [cpu EXCEPT ![c] = TailCall(f, 0)]
        /\ UNCHANGED slotVars
    BY DEF xdp_prog_End
  <1>3. ASSUME Detecting(x), b
        PROVE  Entry(x)' = Entry(x) /\ KeepsAlone(x)'
    <2>2. cpu[x].flow # f
      BY <1>3 DEF Others, Detecting
    <2>3. Entry(x)' = Entry(x)
      <3>1. cpu'[x].flow = cpu[x].flow
        BY <1>2
      <3>2. flow_map'[cpu[x].flow] = flow_map[cpu[x].flow]
        <4>1. cpu[x].flow \in Flows
          BY DEF DetInv, DetTypeOK
        <4> QED
          BY <1>1, <2>2, <4>1 DEF xdp_prog_End
      <3> QED
        BY <3>1, <3>2 DEF Entry
    <2>4. KeepsAlone(x)'
      <3> SUFFICES ASSUME NEW d \in CPUs \ {x}, Detecting(d)'
                   PROVE  cpu'[d].flow # cpu'[x].flow
        BY DEF KeepsAlone
      <3>1. CASE d = c
        <4>1. cpu'[c].flow = f
          BY <1>1, <1>2, <3>1, TailCallLeads DEF Detecting
        <4> QED
          BY <1>2, <2>2, <3>1, <4>1
      <3>2. CASE d # c
        BY <1>2, <1>3, <3>2 DEF DetInv, OnCourse, KeepsAlone, Detecting
      <3> QED
        BY <3>1, <3>2
    <2> QED
      BY <2>3, <2>4
  <1>4. OnCourse(x) /\ cpu'[x] = cpu[x]
    BY <1>2 DEF DetInv
  <1>5. b \in BOOLEAN /\ (b => base[x].alone)
    OBVIOUS
  <1> HIDE DEF b
  <1> QED
    BY <1>1, <1>2, <1>3, <1>4, <1>5, OnCourseBesideCPU

\* ... and starts one that is on course.
LEMMA EndStartsOnCourse ==
  ASSUME DetInv, NEW c \in CPUs, NEW f \in Flows, xdp_prog_End(c, f)
  PROVE  OnCourse(c)'
  <1> SUFFICES ASSUME Detecting(c)'
               PROVE  /\ BasePast(c)'
                      /\ KeepsAlone(c)'
                      /\ Undisturbed(c)' => SlotHeld(c)' /\ VectorDue(c)'
    BY DEF OnCourse
  <1>a. /\ cpu \in [CPUs -> [prog : {Programs[i] : i \in 1 .. 6} \cup {"idle"}, flow : Flows]]
        /\ flow_map \in [Flows -> FlowAttribute]
        /\ nruns \in Nat
    BY DEF DetInv, DetTypeOK, SlotsTypeOK
  <1>b. /\ 0 \in progs
        /\ cpu'[c].prog = "xdp_preprocessing"
        /\ cpu'[c].flow = f
    <2>1. cpu'[c] = TailCall(f, 0)
      BY <1>a DEF xdp_prog_End
    <2>2. Programs[1] = "xdp_preprocessing"
      BY DEF Programs
    <2>3. 0 + 1 = 1
      OBVIOUS
    <2> QED
      BY <2>1, <2>2, <2>3, TailCallLeads DEF Detecting
  <1>c. base'[c] = [pkts |-> flow_map[f].num_packet + 1, model |-> published.run,
                    orderly |-> Orderly, alone |-> Others(c, f) = {},
                    running |-> {upd[u].run : u \in Running}, nruns |-> nruns]
    BY <1>b DEF xdp_prog_End
  <1>d. /\ base'[c].pkts = flow_map[f].num_packet + 1
        /\ base'[c].model = published.run
        /\ base'[c].orderly = Orderly
        /\ base'[c].alone = (Others(c, f) = {})
        /\ base'[c].running = {upd[u].run : u \in Running}
        /\ base'[c].nruns = nruns
    <2> DEFINE o == Orderly
               a == Others(c, f) = {}
               r == {upd[u].run : u \in Running}
               new == [pkts |-> flow_map[f].num_packet + 1, model |-> published.run,
                       orderly |-> o, alone |-> a, running |-> r, nruns |-> nruns]
    <2>1. base'[c] = new
      BY <1>c
    <2> HIDE DEF o, a, r
    <2>2. /\ new.pkts = flow_map[f].num_packet + 1 /\ new.model = published.run
          /\ new.orderly = o /\ new.alone = a /\ new.running = r /\ new.nruns = nruns
      BY Zenon
    <2> QED
      BY <2>1, <2>2, Zenon DEF o, a, r
  <1>e. /\ nn_parameters' = nn_parameters /\ nn_idx' = nn_idx /\ pins' = pins
        /\ upd' = upd /\ nruns' = nruns
    BY DEF xdp_prog_End, slotVars
  <1>f. Entry(c)'.num_packet = flow_map[f].num_packet + 1 /\ Entry(c)'.nn_idx = nn_idx
    <2>1. flow_map'[f] = [flow_map[f] EXCEPT !.num_packet = @ + 1, !.nn_idx = nn_idx]
      BY <1>a DEF xdp_prog_End
    <2>2. flow_map[f] \in FlowAttribute
      BY <1>a
    <2>3. Entry(c)' = flow_map'[f]
      BY <1>b DEF Entry
    <2> QED
      BY <2>1, <2>2, <2>3 DEF FlowAttribute
  <1>1. BasePast(c)'
    <2>1. \A u \in Running : upd[u].run <= nruns
      BY DEF DetInv, SlotsInv, RunsBounded, Running
    <2> QED
      BY <1>a, <1>d, <1>e, <2>1 DEF BasePast
  <1>2. KeepsAlone(c)'
    <2> SUFFICES ASSUME base'[c].alone, NEW d \in CPUs \ {c}, Detecting(d)'
                 PROVE  cpu'[d].flow # f
      BY <1>b DEF KeepsAlone
    <2>1. cpu'[d] = cpu[d]
      BY <1>a DEF xdp_prog_End
    <2>2. Others(c, f) = {}
      BY <1>d
    <2> QED
      BY <2>1, <2>2 DEF Detecting, Others
  <1>3. ASSUME Undisturbed(c)'
        PROVE  SlotHeld(c)' /\ VectorDue(c)'
    <2>1. Orderly
      BY <1>d, <1>3 DEF Undisturbed
    <2>2. \A a \in Arrays : nn_parameters[nn_idx][a] = published.run
      BY <2>1 DEF DetInv, SlotsInv, ActiveWhole
    <2>3. \A u \in Updaters : upd[u].pc = "copy" => upd[u].new_nn_idx # nn_idx
      BY <2>1 DEF DetInv, SlotsInv, OffActive
    <2>4. \A u \in Running : upd[u].run \in Overlapping(c)'
      BY <1>d DEF Overlapping
    <2>5. Running' = Running
      BY <1>e DEF Running
    <2>6. SlotHeld(c)'
      BY <1>d, <1>e, <1>f, <2>2, <2>3, <2>4, <2>5 DEF SlotHeld
    <2>7. VectorDue(c)'
      BY <1>b, <1>d, <1>f DEF VectorDue
    <2> QED
      BY <2>6, <2>7
  <1> QED
    BY <1>1, <1>2, <1>3

\* A program of the chain on CPU c writes the entry of its own flow and leaves every
\* other detection on course.
LEMMA ChainBesideOnCourse ==
  ASSUME DetInv, NEW c \in CPUs, NEW attr, NEW q, Detecting(c), UNCHANGED slotVars,
         flow_map' = [flow_map EXCEPT ![cpu[c].flow] = attr],
         cpu' = [cpu EXCEPT ![c] = q],
         q.prog # "idle" => q.flow = cpu[c].flow,
         NEW x \in CPUs, x # c, base'[x] = base[x]
  PROVE  OnCourse(x)'
  <1> DEFINE b == base[x].alone
  <1>1. base[x] \in Base /\ b \in BOOLEAN /\ flow_map \in [Flows -> FlowAttribute]
        /\ c \in DOMAIN cpu /\ cpu[x].flow \in Flows
    BY DEF DetInv, DetTypeOK, Base
  <1>2. base'[x] = [base[x] EXCEPT !.alone = b] /\ cpu'[x] = cpu[x] /\ OnCourse(x)
    BY <1>1 DEF DetInv, Base
  <1>3. ASSUME Detecting(x), b
        PROVE  Entry(x)' = Entry(x) /\ KeepsAlone(x)'
    <2>1. KeepsAlone(x) /\ cpu[c].flow # cpu[x].flow
      BY <1>3 DEF DetInv, OnCourse, KeepsAlone
    <2>2. Entry(x)' = Entry(x)
      BY <1>1, <1>2, <2>1 DEF Entry
    <2>3. KeepsAlone(x)'
      <3> SUFFICES ASSUME NEW d \in CPUs \ {x}, Detecting(d)'
                   PROVE  cpu'[d].flow # cpu'[x].flow
        BY DEF KeepsAlone
      <3>1. CASE d = c
        <4>1. cpu'[c] = q
          BY <1>1
        <4> QED
          BY <1>2, <2>1, <3>1, <4>1 DEF Detecting
      <3>2. CASE d # c
        BY <1>2, <1>3, <2>1, <3>2 DEF KeepsAlone, Detecting
      <3> QED
        BY <3>1, <3>2
    <2> QED
      BY <2>2, <2>3
  <1> HIDE DEF b
  <1> QED
    BY <1>1, <1>2, <1>3, OnCourseBesideCPU DEF b

\* A program of the chain keeps every detection on course if its own next vector is due.
LEMMA ChainedOnCourse ==
  ASSUME DetInv, NEW c \in CPUs, NEW name, name # "idle", NEW attr, NEW next,
         Chained(c, name, attr, next), attr.nn_idx = Entry(c).nn_idx,
         (/\ SlotHeld(c) /\ VectorDue(c)
          /\ base' = base /\ Entry(c)' = attr /\ cpu'[c].prog = Programs[next + 1])
           => VectorDue(c)',
         NEW x \in CPUs
  PROVE  OnCourse(x)'
  <1> DEFINE q == TailCall(cpu[c].flow, next)
  <1>a. /\ Detecting(c) /\ UNCHANGED slotVars
        /\ flow_map' = [flow_map EXCEPT ![cpu[c].flow] = attr]
        /\ cpu' = [cpu EXCEPT ![c] = q]
        /\ base' = IF next \in progs THEN base ELSE [base EXCEPT ![c] = NoBase]
    BY DEF Chained, Detecting
  <1>b. q.prog # "idle" => next \in progs /\ q.prog = Programs[next + 1] /\ q.flow = cpu[c].flow
    BY TailCallLeads
  <1>c. /\ flow_map \in [Flows -> FlowAttribute] /\ cpu[c].flow \in Flows
        /\ c \in DOMAIN cpu /\ base \in [CPUs -> Base]
    BY DEF DetInv, DetTypeOK
  <1> HIDE DEF q
  <1>1. CASE x # c
    <2>1. base'[x] = base[x]
      BY <1>a, <1>c, <1>1
    <2> QED
      BY <1>a, <1>b, <1>1, <2>1, ChainBesideOnCourse
  <1>2. ASSUME Detecting(c)'
        PROVE  OnCourse(c)'
    <2>1. cpu'[c] = q /\ next \in progs /\ cpu'[c].prog = Programs[next + 1]
          /\ cpu'[c].flow = cpu[c].flow /\ base' = base
      BY <1>a, <1>b, <1>c, <1>2 DEF Detecting
    <2>2. Entry(c)' = attr
      BY <1>a, <1>c, <2>1 DEF Entry
    <2>3. /\ nn_parameters' = nn_parameters /\ nn_idx' = nn_idx /\ pins' = pins
          /\ upd' = upd /\ nruns' = nruns
      BY <1>a DEF slotVars
    <2>4. Overlapping(c)' = Overlapping(c)
      BY <2>1, <2>3 DEF Overlapping
    <2>5. /\ BasePast(c) /\ KeepsAlone(c)
          /\ Undisturbed(c) => SlotHeld(c) /\ VectorDue(c)
      BY <1>a DEF DetInv, OnCourse
    <2>6. BasePast(c)'
      BY <2>1, <2>3, <2>5 DEF BasePast
    <2>7. KeepsAlone(c)'
      <3>1. \A d \in CPUs \ {c} : cpu'[d] = cpu[d]
        BY <1>a
      <3> QED
        BY <2>1, <2>5, <3>1 DEF KeepsAlone, Detecting
    <2>8. Undisturbed(c)' => Undisturbed(c)
      BY <2>1, <2>3, <2>4 DEF Undisturbed
    <2>9. SlotHeld(c) => SlotHeld(c)'
      BY <2>1, <2>2, <2>3, <2>4 DEF SlotHeld, Running
    <2> QED
      BY <2>1, <2>2, <2>5, <2>6, <2>7, <2>8, <2>9 DEF OnCourse
  <1> QED
    BY <1>1, <1>2 DEF OnCourse

\* The scaler, the layers and the rectifier take a vector one layer further when they
\* read one network.
LEMMA LayersAdvance ==
  ASSUME NEW n, NEW m
  PROVE  LET After(k) == [layer |-> k, pkts |-> n, model |-> m]
         IN  /\ Scaled(n, m, m) = After(1)
             /\ Linear(After(1), 1, m) = After(2)
             /\ ReLU(After(2), 2) = After(3)
             /\ Linear(After(3), 3, m) = After(4)
             /\ ReLU(After(4), 4) = After(5)
             /\ Linear(After(5), 5, m) = Logits(n, m)
  BY DEF Scaled, Linear, ReLU, Logits

\* What the programs of the chain find when their detection is on course.
LEMMA NetHeld ==
  ASSUME NEW c \in CPUs, SlotHeld(c)
  PROVE  /\ Net(c)["mean"] = base[c].model /\ Net(c)["scale"] = base[c].model
         /\ Net(c)["layer_0_weight"] = base[c].model
         /\ Net(c)["layer_1_weight"] = base[c].model
         /\ Net(c)["layer_2_weight"] = base[c].model
  BY DEF SlotHeld, Net, Arrays

\* The five programs before the last keep every detection on course.
LEMMA ChainOnCourse ==
  ASSUME DetInv, NEW c \in CPUs, ChainStep(c), ~xdp_output_linear(c), NEW x \in CPUs
  PROVE  OnCourse(x)'
  <1> DEFINE e == Entry(c)
             n == base[c].pkts
             m == base[c].model
             After(k) == [layer |-> k, pkts |-> n, model |-> m]
  <1>a. e \in FlowAttribute
    BY EntryTyped DEF DetInv
  <1>b. \A v : /\ [e EXCEPT !.hidden1 = v].nn_idx = e.nn_idx
               /\ [e EXCEPT !.hidden2 = v].nn_idx = e.nn_idx
               /\ [e EXCEPT !.hidden1 = v].hidden1 = v
               /\ [e EXCEPT !.hidden2 = v].hidden2 = v
    BY <1>a DEF FlowAttribute
  <1>c. /\ Programs[1 + 1] = "xdp_input_linear" /\ Programs[2 + 1] = "xdp_input_relu"
        /\ Programs[3 + 1] = "xdp_hidden_linear" /\ Programs[4 + 1] = "xdp_hidden_relu"
        /\ Programs[5 + 1] = "xdp_output_linear"
    BY DEF Programs
  <1>d. /\ Scaled(n, m, m) = After(1) /\ Linear(After(1), 1, m) = After(2)
        /\ ReLU(After(2), 2) = After(3) /\ Linear(After(3), 3, m) = After(4)
        /\ ReLU(After(4), 4) = After(5)
    BY LayersAdvance
  <1>1. CASE xdp_preprocessing(c)
    <2> DEFINE v == Scaled(e.num_packet, Net(c)["mean"], Net(c)["scale"])
               attr == [e EXCEPT !.hidden2 = v]
    <2>1. Chained(c, "xdp_preprocessing", attr, 1) /\ cpu[c].prog = "xdp_preprocessing"
      BY <1>1 DEF xdp_preprocessing, Chained
    <2>2. SlotHeld(c) /\ VectorDue(c) => v = After(1)
      BY <1>d, <2>1, NetHeld, Zenon DEF VectorDue
    <2> HIDE DEF v
    <2>3. attr.nn_idx = e.nn_idx /\ attr.hidden2 = v
      BY <1>b
    <2> HIDE DEF attr
    <2>4. ASSUME SlotHeld(c) /\ VectorDue(c),
                 base' = base, Entry(c)' = attr, cpu'[c].prog = Programs[1 + 1]
          PROVE  VectorDue(c)'
      BY <1>c, <2>2, <2>3, <2>4 DEF VectorDue
    <2> QED
      BY <2>1, <2>3, <2>4, ChainedOnCourse
  <1>2. CASE xdp_input_linear(c)
    <2> DEFINE v == Linear(e.hidden2, 1, Net(c)["layer_0_weight"])
               attr == [e EXCEPT !.hidden1 = v]
    <2>1. Chained(c, "xdp_input_linear", attr, 2) /\ cpu[c].prog = "xdp_input_linear"
      BY <1>2 DEF xdp_input_linear, Chained
    <2>2. SlotHeld(c) /\ VectorDue(c) => v = After(2)
      BY <1>d, <2>1, NetHeld, Zenon DEF VectorDue
    <2> HIDE DEF v
    <2>3. attr.nn_idx = e.nn_idx /\ attr.hidden1 = v
      BY <1>b
    <2> HIDE DEF attr
    <2>4. ASSUME SlotHeld(c) /\ VectorDue(c),
                 base' = base, Entry(c)' = attr, cpu'[c].prog = Programs[2 + 1]
          PROVE  VectorDue(c)'
      BY <1>c, <2>2, <2>3, <2>4 DEF VectorDue
    <2> QED
      BY <2>1, <2>3, <2>4, ChainedOnCourse
  <1>3. CASE xdp_input_relu(c)
    <2> DEFINE v == ReLU(e.hidden1, 2)
               attr == [e EXCEPT !.hidden1 = v]
    <2>1. Chained(c, "xdp_input_relu", attr, 3) /\ cpu[c].prog = "xdp_input_relu"
      BY <1>3 DEF xdp_input_relu, Chained
    <2>2. SlotHeld(c) /\ VectorDue(c) => v = After(3)
      BY <1>d, <2>1, Zenon DEF VectorDue
    <2> HIDE DEF v
    <2>3. attr.nn_idx = e.nn_idx /\ attr.hidden1 = v
      BY <1>b
    <2> HIDE DEF attr
    <2>4. ASSUME SlotHeld(c) /\ VectorDue(c),
                 base' = base, Entry(c)' = attr, cpu'[c].prog = Programs[3 + 1]
          PROVE  VectorDue(c)'
      BY <1>c, <2>2, <2>3, <2>4 DEF VectorDue
    <2> QED
      BY <2>1, <2>3, <2>4, ChainedOnCourse
  <1>4. CASE xdp_hidden_linear(c)
    <2> DEFINE v == Linear(e.hidden1, 3, Net(c)["layer_1_weight"])
               attr == [e EXCEPT !.hidden2 = v]
    <2>1. Chained(c, "xdp_hidden_linear", attr, 4) /\ cpu[c].prog = "xdp_hidden_linear"
      BY <1>4 DEF xdp_hidden_linear, Chained
    <2>2. SlotHeld(c) /\ VectorDue(c) => v = After(4)
      BY <1>d, <2>1, NetHeld, Zenon DEF VectorDue
    <2> HIDE DEF v
    <2>3. attr.nn_idx = e.nn_idx /\ attr.hidden2 = v
      BY <1>b
    <2> HIDE DEF attr
    <2>4. ASSUME SlotHeld(c) /\ VectorDue(c),
                 base' = base, Entry(c)' = attr, cpu'[c].prog = Programs[4 + 1]
          PROVE  VectorDue(c)'
      BY <1>c, <2>2, <2>3, <2>4 DEF VectorDue
    <2> QED
      BY <2>1, <2>3, <2>4, ChainedOnCourse
  <1>5. CASE xdp_hidden_relu(c)
    <2> DEFINE v == ReLU(e.hidden2, 4)
               attr == [e EXCEPT !.hidden2 = v]
    <2>1. Chained(c, "xdp_hidden_relu", attr, 5) /\ cpu[c].prog = "xdp_hidden_relu"
      BY <1>5 DEF xdp_hidden_relu, Chained
    <2>2. SlotHeld(c) /\ VectorDue(c) => v = After(5)
      BY <1>d, <2>1, Zenon DEF VectorDue
    <2> HIDE DEF v
    <2>3. attr.nn_idx = e.nn_idx /\ attr.hidden2 = v
      BY <1>b
    <2> HIDE DEF attr
    <2>4. ASSUME SlotHeld(c) /\ VectorDue(c),
                 base' = base, Entry(c)' = attr, cpu'[c].prog = Programs[5 + 1]
          PROVE  VectorDue(c)'
      BY <1>c, <2>2, <2>3, <2>4 DEF VectorDue
    <2> QED
      BY <2>1, <2>3, <2>4, ChainedOnCourse
  <1> QED
    BY <1>1, <1>2, <1>3, <1>4, <1>5 DEF ChainStep

\* The last program leaves the other detections on course and ends its own ...
LEMMA OutputOnCourse ==
  ASSUME DetInv, NEW c \in CPUs, xdp_output_linear(c), NEW x \in CPUs
  PROVE  OnCourse(x)'
  <1> DEFINE attr == [Entry(c) EXCEPT !.hidden1 = Linear(Entry(c).hidden2, 5, Net(c)["layer_2_weight"])]
  <1>1. /\ Detecting(c) /\ UNCHANGED slotVars
        /\ flow_map' = [flow_map EXCEPT ![cpu[c].flow] = attr]
        /\ cpu' = [cpu EXCEPT ![c] = Idle]
        /\ base' = [base EXCEPT ![c] = NoBase]
    BY DEF xdp_output_linear, Detecting, Entry
  <1>2. Idle.prog = "idle" /\ c \in DOMAIN cpu /\ base \in [CPUs -> Base]
    BY DEF Idle, DetInv, DetTypeOK
  <1> HIDE DEF attr
  <1>3. CASE x # c
    <2>1. base'[x] = base[x]
      BY <1>1, <1>2, <1>3
    <2> QED
      BY <1>1, <1>2, <1>3, <2>1, ChainBesideOnCourse
  <1>4. CASE x = c
    BY <1>1, <1>2, <1>4 DEF OnCourse, Detecting
  <1> QED
    BY <1>3, <1>4

\* ... with the verdict that was due.
LEMMA OutputExact ==
  ASSUME DetInv, NEW c \in CPUs, xdp_output_linear(c)
  PROVE  VerdictExact'
  <1> DEFINE logits == Linear(Entry(c).hidden2, 5, Net(c)["layer_2_weight"])
             due == Logits(base[c].pkts, base[c].model)
             undisturbed == Undisturbed(c)
  <1>1. trace' = [trace EXCEPT ![c] =
                    [result |-> logits, due |-> due, undisturbed |-> undisturbed]]
    BY DEF xdp_output_linear
  <1>2. undisturbed => logits = due
    <2>1. undisturbed => SlotHeld(c) /\ VectorDue(c)
      BY DEF DetInv, OnCourse, Detecting, xdp_output_linear
    <2>2. cpu[c].prog = "xdp_output_linear"
      BY DEF xdp_output_linear
    <2>3. ASSUME SlotHeld(c), VectorDue(c)
          PROVE  logits = due
      <3> DEFINE n == base[c].pkts
                 m == base[c].model
      <3>1. Entry(c).hidden2 = [layer |-> 5, pkts |-> n, model |-> m]
        BY <2>2, <2>3 DEF VectorDue
      <3>2. Net(c)["layer_2_weight"] = m
        BY <2>3, NetHeld
      <3>3. Linear([layer |-> 5, pkts |-> n, model |-> m], 5, m) = Logits(n, m)
        BY LayersAdvance
      <3> QED
        BY <3>1, <3>2, <3>3
    <2> QED
      BY <2>1, <2>3
  <1>3. trace \in [CPUs -> Trace]
    BY DEF DetInv, DetTypeOK
  <1> HIDE DEF logits, due, undisturbed
  <1> SUFFICES ASSUME NEW x \in CPUs, trace'[x].undisturbed
               PROVE  trace'[x].result = trace'[x].due
    BY DEF VerdictExact
  <1>4. CASE x = c
    BY <1>1, <1>2, <1>3, <1>4
  <1>5. CASE x # c
    BY <1>1, <1>3, <1>5 DEF DetInv, VerdictExact
  <1> QED
    BY <1>4, <1>5

-----------------------------------------------------------------------------

\* The state in which the loader attaches satisfies the invariant.
LEMMA DetInvInit == DetInit => DetInv
  <1> SUFFICES ASSUME DetInit PROVE DetInv
    OBVIOUS
  <1>1. SlotsInv /\ DetTypeOK
    BY SlotsInvInit, DetTypeInit DEF DetInit
  <1>2. RunsDiffer
    BY DEF DetInit, SlotsInit, RunsDiffer, Running, IdleUpdater
  <1>3. \A c \in CPUs : OnCourse(c)
    BY DEF DetInit, OnCourse, Detecting, Idle
  <1>4. VerdictExact
    BY DEF DetInit, VerdictExact, NoTrace
  <1> QED
    BY <1>1, <1>2, <1>3, <1>4 DEF DetInv

\* What the pipeline does before the last program prints nothing.
LEMMA NothingPrinted ==
  ASSUME DetInv, [DetNext]_vars, \A c \in CPUs : ~xdp_output_linear(c)
  PROVE  VerdictExact'
  <1>a. trace \in [CPUs -> Trace] /\ VerdictExact
    BY DEF DetInv, DetTypeOK
  <1>1. ASSUME NEW c \in CPUs, NEW f \in Flows, xdp_prog_Data(c, f) \/ xdp_prog_End(c, f)
        PROVE  VerdictExact'
    <2>1. trace' = [trace EXCEPT ![c] = NoTrace]
      BY <1>1 DEF xdp_prog_Data, xdp_prog_End
    <2> QED
      BY <1>a, <2>1 DEF VerdictExact, NoTrace
  <1>2. ASSUME NEW c \in CPUs, ChainStep(c)
        PROVE  VerdictExact'
    <2>1. trace' = trace
      BY <1>2 DEF ChainStep, Chained, xdp_preprocessing, xdp_input_linear, xdp_input_relu,
                  xdp_hidden_linear, xdp_hidden_relu
    <2> QED
      BY <1>a, <2>1 DEF VerdictExact
  <1>3. CASE ClearProgs \/ UNCHANGED detVars
    BY <1>a, <1>3 DEF VerdictExact, ClearProgs, detVars
  <1> QED
    BY <1>1, <1>2, <1>3 DEF DetNext, vars

\* Every step of the pipeline or the slots keeps the invariant.
LEMMA DetInvStep == DetInv /\ [DetNext]_vars => DetInv'
  <1> SUFFICES ASSUME DetInv, [DetNext]_vars
               PROVE  DetInv'
    OBVIOUS
  <1>1. [SlotsNext]_slotVars
    BY PipelineRespectsSlots
  <1>2. SlotsInv'
    BY <1>1, SlotsInvStep DEF DetInv
  <1>3. DetTypeOK'
    BY <1>2, DetTypeStep DEF DetInv, SlotsInv
  <1>4. RunsDiffer'
    BY <1>1, RunsStayDifferent DEF DetInv
  <1>5. ASSUME NEW x \in CPUs
        PROVE  OnCourse(x)'
    <2>1. ASSUME NEW c \in CPUs, NEW f \in Flows, xdp_prog_Data(c, f)
          PROVE  OnCourse(x)'
      BY <2>1, DataOnCourse
    <2>2. ASSUME NEW c \in CPUs, NEW f \in Flows, xdp_prog_End(c, f)
          PROVE  OnCourse(x)'
      BY <2>2, EndBesideOnCourse, EndStartsOnCourse
    <2>3. ASSUME NEW c \in CPUs, ChainStep(c)
          PROVE  OnCourse(x)'
      BY <2>3, ChainOnCourse, OutputOnCourse
    <2>4. CASE ClearProgs
      <3>1. /\ cpu' = cpu /\ base' = base /\ flow_map' = flow_map
            /\ nn_parameters' = nn_parameters /\ nn_idx' = nn_idx /\ pins' = pins
            /\ upd' = upd /\ nruns' = nruns
        BY <2>4 DEF ClearProgs, slotVars
      <3> QED
        BY <3>1
           DEF DetInv, OnCourse, Detecting, BasePast, KeepsAlone, Undisturbed, Overlapping,
               SlotHeld, VectorDue, Entry, Running
    <2>5. CASE UNCHANGED detVars
      BY <1>1, <1>3, <2>5, OnCourseBesideSlots
    <2> QED
      BY <2>1, <2>2, <2>3, <2>4, <2>5 DEF DetNext, vars
  <1>6. VerdictExact'
    BY OutputExact, NothingPrinted
  <1> QED
    BY <1>2, <1>3, <1>4, <1>5, <1>6 DEF DetInv

\* Hence it always holds.
LEMMA DetInvAlways == DetSpec => []DetInv
  BY DetInvInit, DetInvStep, PTL DEF DetSpec

\* Type correctness of the pipeline beside hot updates.
THEOREM DetTypeCorrect == DetSpec => []DetTypeOK
  <1>1. DetInv => DetTypeOK
    BY DEF DetInv
  <1> QED
    BY <1>1, DetInvAlways, PTL

\* The label of an undisturbed detection is the verdict of the network in use at the FIN
\* or RST on the features of the flow at that moment, for any number of CPUs, flows,
\* packets, hot_updating processes and executions of them.
THEOREM VerdictAlwaysExact == DetSpec => []VerdictExact
  <1>1. DetInv => VerdictExact
    BY DEF DetInv
  <1> QED
    BY <1>1, DetInvAlways, PTL

=============================================================================
