------------------------ MODULE DetectionAtomicProofs ------------------------
(***************************************************************************)
(* Proof that the chain of XDP programs beside hot updates (Detection)     *)
(* implements a detection that is one operation (AtomicDetection), for any *)
(* number of CPUs, flows, packets and hot updates.                         *)
(***************************************************************************)
EXTENDS DetectionProofs

\* What another process or CPU does to the detection on d is to leave it alone, to
\* disturb it, or to let time pass.
Beside(d) ==
  /\ nruns' >= nruns
  /\ pins' = Maps => pins = Maps
  /\ trace'[d] = trace[d]
  /\ Detecting(d)' = Detecting(d)
  /\ base'[d].pkts = base[d].pkts /\ base'[d].model = base[d].model
  /\ base'[d].orderly = base[d].orderly
  /\ base'[d].alone => base[d].alone
  /\ base'[d].running = base[d].running /\ base'[d].nruns = base[d].nruns

\* Such a step makes the atomic detection on d wait.
LEMMA BesideWaits ==
  ASSUME DetTypeOK, DetTypeOK', NEW d \in CPUs, Beside(d)
  PROVE  Atomic!Wait(d)
  <1>1. Undisturbed(d)' => Undisturbed(d)
    <2>1. nruns \in Int /\ nruns' \in Int /\ nruns' >= nruns
      BY DEF DetTypeOK, SlotsTypeOK, Beside
    <2>2. \A r \in Models : r <= nruns => r <= nruns'
      BY <2>1, MaxRunsAssumption DEF Models
    <2>3. Overlapping(d) \subseteq Overlapping(d)'
      BY <2>2 DEF Overlapping, Beside
    <2> QED
      BY <2>3 DEF Undisturbed, Beside
  <1>2. CASE ~Detecting(d)
    BY <1>2 DEF Beside, Detecting, Owed, Atomic!Wait
  <1>3. CASE Detecting(d) /\ Undisturbed(d)'
    <2>1. Owed(d)' = Owed(d)
      BY <1>1, <1>3 DEF Beside, Detecting, Owed
    <2> QED
      BY <2>1 DEF Beside, Atomic!Wait
  <1>4. CASE Detecting(d) /\ ~Undisturbed(d)'
    <2>1. Owed(d)' = Atomic!Spoilt
      BY <1>4 DEF Beside, Detecting, Owed, Atomic!Spoilt
    <2>2. Owed(d) # Atomic!None
      BY <1>4 DEF Detecting, Owed, Atomic!None
    <2> QED
      BY <2>1, <2>2 DEF Beside, Atomic!Wait
  <1> QED
    BY <1>2, <1>3, <1>4

\* A packet handled by another CPU can at most take d its flow.
LEMMA PacketBeside ==
  ASSUME DetTypeOK, NEW d \in CPUs, NEW b \in BOOLEAN, UNCHANGED slotVars,
         cpu'[d] = cpu[d], trace'[d] = trace[d],
         base'[d] = [base[d] EXCEPT !.alone = base[d].alone /\ b]
  PROVE  Beside(d)
  <1>1. base[d] \in Base /\ base[d].alone \in BOOLEAN /\ nruns \in Nat
    BY DEF DetTypeOK, SlotsTypeOK, Base
  <1>2. base'[d].alone => base[d].alone
    BY <1>1 DEF Base
  <1>3. /\ base'[d].pkts = base[d].pkts /\ base'[d].model = base[d].model
        /\ base'[d].orderly = base[d].orderly
        /\ base'[d].running = base[d].running /\ base'[d].nruns = base[d].nruns
    BY <1>1 DEF Base
  <1>4. nruns' >= nruns /\ pins' = pins
    BY <1>1 DEF slotVars
  <1> QED
    BY <1>2, <1>3, <1>4 DEF Beside, Detecting

\* A step of CPU c that is one of its own in the atomic detection, and beside all others.
LEMMA CPUSteps ==
  ASSUME DetTypeOK, DetTypeOK', NEW c \in CPUs, UNCHANGED slotVars, progs' = progs,
         \A d \in CPUs \ {c} : Beside(d),
         Atomic!Pass(c) \/ Atomic!Begin(c) \/ Atomic!Report(c) \/ Atomic!Drop(c)
  PROVE  Atomic!Step
  <1>1. \A d \in CPUs \ {c} : Atomic!Wait(d)
    BY BesideWaits
  <1>2. UNCHANGED <<published.run, progs = ProgIdx>>
    BY DEF slotVars
  <1> QED
    BY <1>1, <1>2 DEF Atomic!Step

\* A packet that does not end its flow passes.
LEMMA DataPasses ==
  ASSUME DetTypeOK, DetTypeOK', NEW c \in CPUs, NEW f \in Flows, xdp_prog_Data(c, f)
  PROVE  Atomic!Step
  <1>1. /\ UNCHANGED slotVars /\ progs' = progs /\ cpu' = cpu
        /\ trace' = [trace EXCEPT ![c] = NoTrace] /\ cpu[c].prog = "idle"
        /\ base' = [x \in CPUs |-> [base[x] EXCEPT !.alone = @ /\ x \notin Others(c, f)]]
    BY DEF xdp_prog_Data
  <1>2. ASSUME NEW d \in CPUs \ {c}
        PROVE  Beside(d)
    <2>1. trace'[d] = trace[d]
      BY <1>1 DEF DetTypeOK
    <2> DEFINE b == d \notin Others(c, f)
    <2>2. base'[d] = [base[d] EXCEPT !.alone = base[d].alone /\ b]
      BY <1>1
    <2>3. b \in BOOLEAN
      OBVIOUS
    <2> HIDE DEF b
    <2> QED
      BY <1>1, <2>1, <2>2, <2>3, PacketBeside
  <1>3. trace'[c].result = Junk
    BY <1>1 DEF DetTypeOK, NoTrace
  <1>4. Atomic!Pass(c)
    BY <1>1, <1>3 DEF Atomic!Pass, Atomic!None, Owed
  <1> QED
    BY <1>1, <1>2, <1>4, CPUSteps

\* A FIN or RST begins a detection, which owes the verdict of the network in use on the
\* features with this packet; or it passes.
LEMMA EndBegins ==
  ASSUME DetTypeOK, DetTypeOK', NEW c \in CPUs, NEW f \in Flows, xdp_prog_End(c, f)
  PROVE  Atomic!Step
  <1>1. /\ UNCHANGED slotVars /\ progs' = progs
        /\ cpu' = [cpu EXCEPT ![c] = TailCall(f, 0)]
        /\ trace' = [trace EXCEPT ![c] = NoTrace] /\ cpu[c].prog = "idle"
        /\ flow_map[f].num_packet < MaxPackets
    BY DEF xdp_prog_End
  <1>2. ASSUME NEW d \in CPUs \ {c}
        PROVE  Beside(d)
    <2>1. trace'[d] = trace[d] /\ cpu'[d] = cpu[d]
      BY <1>1 DEF DetTypeOK
    <2> DEFINE b == d \notin Others(c, f)
    <2>2. base'[d] = [base[d] EXCEPT !.alone = base[d].alone /\ b]
      BY DEF xdp_prog_End
    <2>3. b \in BOOLEAN
      OBVIOUS
    <2> HIDE DEF b
    <2> QED
      BY <1>1, <2>1, <2>2, <2>3, PacketBeside
  <1>3. trace'[c].result = Junk /\ cpu'[c] = TailCall(f, 0)
    BY <1>1 DEF DetTypeOK, NoTrace
  <1>4. Owed(c) = Atomic!None
    BY <1>1 DEF Owed, Atomic!None
  <1>5. CASE 0 \notin progs
    <2>1. Owed(c)' = Atomic!None
      BY <1>3, <1>5 DEF TailCall, Idle, Owed, Atomic!None
    <2>2. Atomic!Pass(c)
      BY <1>3, <1>4, <2>1 DEF Atomic!Pass
    <2> QED
      BY <1>1, <1>2, <2>2, CPUSteps
  <1>6. CASE 0 \in progs
    <2> DEFINE n == flow_map[f].num_packet + 1
    <2>1. cpu'[c].prog # "idle"
      BY <1>3, <1>6 DEF TailCall, Programs
    <2>2. base'[c].pkts = n /\ base'[c].model = published.run
      BY <1>6 DEF xdp_prog_End
    <2>3. n \in 1 .. MaxPackets
      BY <1>1, DetectionAssumption DEF DetTypeOK, FlowAttribute
    <2> HIDE DEF n
    <2>4. Owed(c)' \in {Atomic!Owed(Logits(n, published.run)), Atomic!Spoilt}
      BY <2>1, <2>2 DEF Owed, Atomic!Owed, Atomic!Spoilt
    <2>5. Atomic!Begin(c)
      BY <1>3, <1>4, <2>3, <2>4 DEF Atomic!Begin
    <2> QED
      BY <1>1, <1>2, <2>5, CPUSteps
  <1> QED
    BY <1>5, <1>6

\* A program of the chain that hands on is not seen in the atomic detection; one that
\* cannot, the table being emptied, drops it.
LEMMA ChainedHidden ==
  ASSUME DetTypeOK, DetTypeOK', NEW c \in CPUs, NEW name, name # "idle",
         NEW attr, NEW next \in ProgIdx, Chained(c, name, attr, next)
  PROVE  Atomic!Step \/ Atomic!Environment
  <1>1. /\ UNCHANGED slotVars /\ progs' = progs /\ trace' = trace /\ Detecting(c)
        /\ cpu' = [cpu EXCEPT ![c] = TailCall(cpu[c].flow, next)]
        /\ base' = IF next \in progs THEN base ELSE [base EXCEPT ![c] = NoBase]
    BY DEF Chained, Detecting
  <1>2. nruns' >= nruns /\ pins' = pins
    BY <1>1 DEF slotVars, DetTypeOK, SlotsTypeOK
  <1>3. cpu'[c] = TailCall(cpu[c].flow, next)
    BY <1>1 DEF DetTypeOK
  <1>4. ASSUME NEW d \in CPUs \ {c}
        PROVE  Beside(d)
    <2>1. cpu'[d] = cpu[d] /\ base'[d] = base[d]
      BY <1>1 DEF DetTypeOK
    <2> QED
      BY <1>1, <1>2, <2>1 DEF Beside, Detecting
  <1>5. CASE next \in progs
    <2>1. cpu'[c].prog # "idle"
      BY <1>3, <1>5 DEF TailCall, Programs, ProgIdx
    <2>2. Beside(c)
      BY <1>1, <1>2, <1>5, <2>1 DEF Beside, Detecting
    <2>3. \A d \in CPUs : Atomic!Wait(d)
      BY <1>4, <2>2, BesideWaits
    <2> QED
      BY <1>1, <2>3 DEF Atomic!Environment
  <1>6. CASE next \notin progs
    <2>1. progs # ProgIdx
      BY <1>6
    <2>2. Owed(c)' = Atomic!None
      BY <1>3, <1>6 DEF TailCall, Idle, Owed, Atomic!None
    <2>3. Owed(c) # Atomic!None
      BY <1>1 DEF Detecting, Owed, Atomic!None
    <2>4. Atomic!Drop(c)
      BY <1>1, <2>1, <2>2, <2>3 DEF Atomic!Drop
    <2> QED
      BY <1>1, <1>4, <2>4, CPUSteps
  <1> QED
    BY <1>5, <1>6

\* The last program prints what is owed, or anything if it was disturbed.
LEMMA OutputPrints ==
  ASSUME DetInv, DetInv', NEW c \in CPUs, xdp_output_linear(c)
  PROVE  Atomic!Step
  <1> DEFINE logits == Linear(Entry(c).hidden2, 5, Net(c)["layer_2_weight"])
             due == Logits(base[c].pkts, base[c].model)
             undisturbed == Undisturbed(c)
  <1>1. /\ UNCHANGED slotVars /\ progs' = progs /\ Detecting(c)
        /\ cpu' = [cpu EXCEPT ![c] = Idle] /\ base' = [base EXCEPT ![c] = NoBase]
        /\ trace' = [trace EXCEPT ![c] =
             [result |-> logits, due |-> due, undisturbed |-> undisturbed]]
    BY DEF xdp_output_linear, Detecting
  <1>2. Owed(c) = IF undisturbed THEN Atomic!Owed(due) ELSE Atomic!Spoilt
    BY <1>1 DEF Owed, Detecting, Atomic!Owed, Atomic!Spoilt
  <1>n. undisturbed \in BOOLEAN
    BY DEF Undisturbed
  <1> HIDE DEF logits, due, undisturbed
  <1>t. DetTypeOK /\ DetTypeOK'
    BY DEF DetInv
  <1>3. ASSUME NEW d \in CPUs \ {c}
        PROVE  Beside(d)
    <2>1. cpu'[d] = cpu[d] /\ base'[d] = base[d] /\ trace'[d] = trace[d]
      BY <1>1, <1>t DEF DetTypeOK
    <2>2. nruns' >= nruns /\ pins' = pins
      BY <1>1, <1>t DEF slotVars, DetTypeOK, SlotsTypeOK
    <2> QED
      BY <2>1, <2>2 DEF Beside, Detecting
  <1>4. trace'[c] = [result |-> logits, due |-> due, undisturbed |-> undisturbed]
    BY <1>1, <1>t DEF DetTypeOK
  <1>5. trace'[c].due = due /\ trace'[c].undisturbed = undisturbed
    BY <1>4
  <1>6. undisturbed => trace'[c].result = due
    BY <1>5 DEF DetInv, VerdictExact
  <1>7. Owed(c)' = Atomic!None
    BY <1>1, <1>t DEF DetTypeOK, Idle, Owed, Atomic!None
  <1>8. Owed(c) \in {Atomic!Owed(trace'[c].result), Atomic!Spoilt}
    <2>1. CASE undisturbed
      BY <1>2, <1>6, <2>1
    <2>2. CASE ~undisturbed
      BY <1>2, <2>2
    <2> QED
      BY <2>1, <2>2
  <1>9. Atomic!Report(c)
    BY <1>7, <1>8 DEF Atomic!Report
  <1> QED
    BY <1>1, <1>t, <1>3, <1>9, CPUSteps

\* Every program of the chain is a step of the atomic detection.
LEMMA ChainSteps ==
  ASSUME DetInv, DetInv', NEW c \in CPUs, ChainStep(c)
  PROVE  Atomic!Step \/ Atomic!Environment
  <1>1. DetTypeOK /\ DetTypeOK'
    BY DEF DetInv
  <1>2. \A i \in 1 .. 5 : i \in ProgIdx
    BY DEF ProgIdx
  <1>3. CASE xdp_preprocessing(c)
    <2> DEFINE attr == [Entry(c) EXCEPT !.hidden2 =
                         Scaled(Entry(c).num_packet, Net(c)["mean"], Net(c)["scale"])]
    <2>1. Chained(c, "xdp_preprocessing", attr, 1)
      BY <1>3 DEF xdp_preprocessing
    <2> HIDE DEF attr
    <2> QED
      BY <1>1, <1>2, <2>1, ChainedHidden
  <1>4. CASE xdp_input_linear(c)
    <2> DEFINE attr == [Entry(c) EXCEPT !.hidden1 =
                         Linear(Entry(c).hidden2, 1, Net(c)["layer_0_weight"])]
    <2>1. Chained(c, "xdp_input_linear", attr, 2)
      BY <1>4 DEF xdp_input_linear
    <2> HIDE DEF attr
    <2> QED
      BY <1>1, <1>2, <2>1, ChainedHidden
  <1>5. CASE xdp_input_relu(c)
    <2> DEFINE attr == [Entry(c) EXCEPT !.hidden1 = ReLU(@, 2)]
    <2>1. Chained(c, "xdp_input_relu", attr, 3)
      BY <1>5 DEF xdp_input_relu
    <2> HIDE DEF attr
    <2> QED
      BY <1>1, <1>2, <2>1, ChainedHidden
  <1>6. CASE xdp_hidden_linear(c)
    <2> DEFINE attr == [Entry(c) EXCEPT !.hidden2 =
                         Linear(Entry(c).hidden1, 3, Net(c)["layer_1_weight"])]
    <2>1. Chained(c, "xdp_hidden_linear", attr, 4)
      BY <1>6 DEF xdp_hidden_linear
    <2> HIDE DEF attr
    <2> QED
      BY <1>1, <1>2, <2>1, ChainedHidden
  <1>7. CASE xdp_hidden_relu(c)
    <2> DEFINE attr == [Entry(c) EXCEPT !.hidden2 = ReLU(@, 4)]
    <2>1. Chained(c, "xdp_hidden_relu", attr, 5)
      BY <1>7 DEF xdp_hidden_relu
    <2> HIDE DEF attr
    <2> QED
      BY <1>1, <1>2, <2>1, ChainedHidden
  <1>8. CASE xdp_output_linear(c)
    BY <1>8, OutputPrints
  <1> QED
    BY <1>3, <1>4, <1>5, <1>6, <1>7, <1>8 DEF ChainStep

\* Hot updates, the loader's cleanup and the emptying of the table are the environment.
LEMMA OthersAreEnvironment ==
  ASSUME DetInv, DetInv',
         \/ ClearProgs
         \/ [SlotsNext]_slotVars /\ UNCHANGED detVars
  PROVE  Atomic!Environment
  <1>1. DetTypeOK /\ DetTypeOK' /\ SlotsTypeOK /\ SlotsTypeOK'
    BY DEF DetInv, DetTypeOK
  <1>2. cpu' = cpu /\ base' = base /\ trace' = trace
    BY DEF ClearProgs, detVars
  <1>3. nruns' >= nruns /\ (pins' = Maps => pins = Maps)
    <2>1. [SlotsNext]_slotVars
      BY DEF ClearProgs
    <2> QED
      BY <1>1, <2>1, SlotsForward
  <1>4. \A d \in CPUs : Atomic!Wait(d)
    BY <1>1, <1>2, <1>3, BesideWaits DEF Beside, Detecting
  <1>5. progs' = ProgIdx => progs = ProgIdx
    BY <1>1 DEF ClearProgs, detVars, DetTypeOK
  <1> QED
    BY <1>4, <1>5 DEF Atomic!Environment

\* The detection pipeline implements a detection that is one operation, for any number of
\* CPUs, flows, packets, hot_updating processes and executions of them.
THEOREM DetectionImplementsAtomic == DetSpec => DetectionIsAtomic
  <1>1. DetInit => Atomic!Init
    BY DEF DetInit, SlotsInit, Atomic!Init, Atomic!None, Owed, Idle, NoTrace
  <1>2. DetInv /\ DetInv' /\ [DetNext]_vars => Atomic!Step \/ Atomic!Environment
    <2> SUFFICES ASSUME DetInv, DetInv', [DetNext]_vars
                 PROVE  Atomic!Step \/ Atomic!Environment
      OBVIOUS
    <2>1. DetTypeOK /\ DetTypeOK'
      BY DEF DetInv
    <2>2. ASSUME NEW c \in CPUs, NEW f \in Flows, xdp_prog_Data(c, f) \/ xdp_prog_End(c, f)
          PROVE  Atomic!Step
      BY <2>1, <2>2, DataPasses, EndBegins
    <2>3. ASSUME NEW c \in CPUs, ChainStep(c)
          PROVE  Atomic!Step \/ Atomic!Environment
      BY <2>3, ChainSteps
    <2>4. CASE ClearProgs
      BY <2>4, OthersAreEnvironment
    <2>5. CASE SlotsNext /\ UNCHANGED detVars
      BY <2>5, OthersAreEnvironment
    <2>6. CASE UNCHANGED vars
      BY <2>6, OthersAreEnvironment DEF vars
    <2> QED
      BY <2>2, <2>3, <2>4, <2>5, <2>6 DEF DetNext
  <1> QED
    BY <1>1, <1>2, DetInvAlways, PTL DEF DetSpec, DetectionIsAtomic, Atomic!Spec

=============================================================================
