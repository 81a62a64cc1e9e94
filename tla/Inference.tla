----------------------------- MODULE Inference ------------------------------
(***************************************************************************)
(* What becomes of a trained network: mlp_quant.py rounds it to integers,  *)
(* hot_updating copies them into a slot, and the XDP programs of           *)
(* src/src/xdp.bpf.c compute with them, stage by stage, in the two scratch *)
(* vectors of the flow's entry, which keep what earlier detections left.   *)
(* src/src/mlp.py is the network that was trained: the reference.          *)
(*                                                                         *)
(* Slots, flows and CPUs are in ModelSlots and Detection: here one network *)
(* serves one flow, and what counts is the numbers.                        *)
(***************************************************************************)
EXTENDS FixedPoint

CONSTANTS
  N0, N1,     \* sizes of the input and of the two hidden layers: 6 and 32
  Networks,   \* the networks that are trained
  Factors,    \* 2^FIX_POINT, for the command-line arguments of mlp_quant.py
  Features    \* the feature vectors of flows that end

VARIABLES
  header,            \* mlp_params.bpf.h: the arrays, and history: of which network
  net,               \* the slot in use, copied from a header
  x,                 \* the features of the flow
  hidden1, hidden2,  \* the scratch vectors of its entry
  stage,             \* the program that runs next
  label              \* what a detection with this network and x has printed; 2: nothing

vars == <<header, net, x, hidden1, hidden2, stage, label>>

Vec(n, S) == [0 .. n - 1 -> S]
Zeros(n)  == [i \in 0 .. n - 1 |-> 0]

\* A standard deviation is not negative.
Trained == [layer_0 : Vec(N1, Vec(N0, Int)), layer_1 : Vec(N1, Vec(N1, Int)),
            layer_2 : Vec(2, Vec(N1, Int)), mean : Vec(N0, Int), scale : Vec(N0, Nat)]

ASSUME InferenceAssumption ==
  /\ N0 \in Nat \ {0} /\ N1 \in Nat \ {0, 1} /\ N0 <= N1
  /\ Networks \subseteq Trained /\ Factors \subseteq Nat \ {0}
  /\ Features \subseteq Vec(N0, Int)

\* The arrays of the header.  mean and scale of a trained network are multiples of 1/2,
\* which is enough to have them rounded either way.
Exported(t, factor) ==
  [layer_0_weight |-> Fixed(t.layer_0, N1, N0, factor),
   layer_1_weight |-> Fixed(t.layer_1, N1, N1, factor),
   layer_2_weight |-> Fixed(t.layer_2, 2, N1, factor),
   mean  |-> [i \in 0 .. N0 - 1 |-> Round(t.mean[i], 2)],
   scale |-> [i \in 0 .. N0 - 1 |-> Round(t.scale[i], 2)],
   trained |-> t, factor |-> factor]

\* A slot of a fresh map is zero, as if this network had been exported.
ZeroNetwork ==
  [layer_0 |-> [i \in 0 .. N1 - 1 |-> Zeros(N0)], layer_1 |-> [i \in 0 .. N1 - 1 |-> Zeros(N1)],
   layer_2 |-> [i \in 0 .. 1 |-> Zeros(N1)], mean |-> Zeros(N0), scale |-> Zeros(N0)]

Init ==
  /\ header = Exported(ZeroNetwork, 1)
  /\ net = header
  /\ x = Zeros(N0)
  /\ hidden1 = Zeros(N1) /\ hidden2 = Zeros(N1)
  /\ stage = "idle"
  /\ label = 2

\* mlp_quant.py is run on a trained network; bound: once.
Export(t, factor) ==
  /\ header.trained = ZeroNetwork
  /\ header' = Exported(t, factor)
  /\ UNCHANGED <<net, x, hidden1, hidden2, stage, label>>

\* hot_updating, built with the header, fills a struct Net array by array and makes it
\* the network in use; a detection that runs keeps its own (Detection).
hot_updating ==
  /\ stage = "idle"
  /\ net' = header
  /\ label' = 2
  /\ UNCHANGED <<header, x, hidden1, hidden2, stage>>

\* A flow with these features ends.
Detect(features) ==
  /\ stage = "idle"
  /\ x' = features
  /\ stage' = "xdp_preprocessing"
  /\ label' = 2
  /\ UNCHANGED <<header, net, hidden1, hidden2>>

\* The first elements of a scratch vector are overwritten.
Overwrite(hidden, y) == [i \in DOMAIN hidden |-> IF i \in DOMAIN y THEN y[i] ELSE hidden[i]]

Program(name, next) == stage = name /\ stage' = next /\ UNCHANGED <<header, net, x>>

xdp_preprocessing ==
  /\ Program("xdp_preprocessing", "xdp_input_linear")
  /\ hidden2' = Overwrite(hidden2, standard_scaler(x, net.mean, net.scale))
  /\ UNCHANGED <<hidden1, label>>

xdp_input_linear ==
  /\ Program("xdp_input_linear", "xdp_input_relu")
  /\ hidden1' = linear_layer(net.layer_0_weight, hidden2, N1, N0)
  /\ UNCHANGED <<hidden2, label>>

xdp_input_relu ==
  /\ Program("xdp_input_relu", "xdp_hidden_linear")
  /\ hidden1' = relu(hidden1)
  /\ UNCHANGED <<hidden2, label>>

xdp_hidden_linear ==
  /\ Program("xdp_hidden_linear", "xdp_hidden_relu")
  /\ hidden2' = linear_layer(net.layer_1_weight, hidden1, N1, N1)
  /\ UNCHANGED <<hidden1, label>>

xdp_hidden_relu ==
  /\ Program("xdp_hidden_relu", "xdp_output_linear")
  /\ hidden2' = relu(hidden2)
  /\ UNCHANGED <<hidden1, label>>

\* The label: 0 only if the first logit is the greater one.
xdp_output_linear ==
  /\ Program("xdp_output_linear", "idle")
  /\ hidden1' = Overwrite(hidden1, linear_layer(net.layer_2_weight, hidden2, 2, N1))
  /\ label' = IF hidden1'[0] > hidden1'[1] THEN 0 ELSE 1
  /\ UNCHANGED hidden2

Next ==
  \/ \E t \in Networks, factor \in Factors : Export(t, factor)
  \/ hot_updating
  \/ \E features \in Features : Detect(features)
  \/ xdp_preprocessing \/ xdp_input_linear \/ xdp_input_relu
  \/ xdp_hidden_linear \/ xdp_hidden_relu \/ xdp_output_linear

Spec == Init /\ [][Next]_vars

-----------------------------------------------------------------------------

Abs(z) == IF z < 0 THEN -z ELSE z
Sum(v, n) == LET sum[j \in 0 .. n] == IF j = 0 THEN 0 ELSE sum[j - 1] + v[j - 1] IN sum[n]

(***************************************************************************)
(* An estimate says of a vector y of the kernel what real numbers it       *)
(* stands for and how closely: y[i] / one differs from val[i] / den by no  *)
(* more than err[i] / (2 * one * den), provided that it fits: nothing on   *)
(* the way to y can have wrapped around.                                   *)
(***************************************************************************)
Close(e, y) == \A i \in DOMAIN e.val : 2 * Abs(y[i] * e.den - e.val[i] * e.one) <= e.err[i]

\* The greatest absolute value y[i] can have.
Bound(e, i) == ((2 * Abs(e.val[i]) * e.one + e.err[i]) \div (2 * e.den)) + 1

\* By how many halves a multiple of 1/2 is off once it is rounded.
Off(halves) == halves % 2

\* A denominator for the quotients by the scales that are used: a multiple of them all.
Denominator(n) ==
  LET used == {i \in 0 .. N0 - 1 : n.scale[i] # 0}
      most[i \in 0 .. N0] ==
        IF i = 0 THEN 1 ELSE most[i - 1] * (IF i - 1 \in used THEN n.trained.scale[i - 1] ELSE 1)
  IN  CHOOSE d \in 1 .. most[N0] : \A i \in used : d % n.trained.scale[i] = 0

\* The standardised features (x - mean) / scale of the network as trained; the exported
\* mean and scale are off by Off(..) / 2 at most, and the division cuts off less than
\* one.  A feature whose exported scale is 0 counts as if it had its mean.
Standardised(n, in) ==
  LET den == Denominator(n)
      val == [i \in 0 .. N0 - 1 |->
                IF n.scale[i] = 0 THEN 0
                ELSE (2 * in[i] - n.trained.mean[i]) * (den \div n.trained.scale[i])]
  IN  [val |-> val, den |-> den, one |-> One,
       err |-> [i \in 0 .. N0 - 1 |->
                  IF n.scale[i] = 0 THEN 0
                  ELSE (((Abs(val[i]) * Off(n.trained.scale[i]) + den * Off(n.trained.mean[i]))
                           * One) \div n.scale[i]) + 1 + 2 * den],
       fits |-> \A i \in 0 .. N0 - 1 :
                  LET d == Abs(in[i] - n.mean[i]) * One
                  IN  /\ Abs(n.mean[i]) < Half64 /\ n.scale[i] < Half64
                      /\ d < 2 * Half64 /\ udiv(d, n.scale[i]) < Half32]

\* A layer of the network as trained; the exported weights are off by half a unit of
\* 1 / factor at most, and the shift cuts off less than one.  The fraction of the scales
\* is cut by the shift where it can be.
Layer(e, w, W, M, N, factor) ==
  LET cut  == IF Unit % One = 0 /\ (e.one * factor) % One = 0 THEN One ELSE 1
      den  == e.den * Unit * (One \div cut)
      one  == (e.one * factor) \div cut
      val  == [i \in 0 .. M - 1 |-> Sum([j \in 0 .. N - 1 |-> w[i][j] * e.val[j]], N)]
      err  == [i \in 0 .. M - 1 |->
                 Sum([j \in 0 .. N - 1 |->
                        Abs(W[i * N + j]) * e.err[j] + Abs(e.val[j]) * e.one], N)
                   * (Unit \div cut) + 2 * den]
      est  == [val |-> val, err |-> err, den |-> den, one |-> one]
      fits == \A i \in 0 .. M - 1 :
                /\ Bound(est, i) < Half32
                /\ \A j \in 0 .. N - 1 : Abs(W[i * N + j]) < Half32
                /\ Sum([j \in 0 .. N - 1 |-> Abs(W[i * N + j]) * Bound(e, j)], N) < Half64
  IN  IF ~e.fits THEN e
      ELSE [val |-> val, err |-> err, den |-> den, one |-> one, fits |-> fits]

ReLU(e) == [e EXCEPT !.val = [i \in DOMAIN @ |-> IF @[i] < 0 THEN 0 ELSE @[i]]]

\* The forward pass of mlp.py, as far as the stage that comes next needs it.
Scaled  == Standardised(net, x)
Input   == Layer(Scaled, net.trained.layer_0, net.layer_0_weight, N1, N0, net.factor)
Hidden  == Layer(ReLU(Input), net.trained.layer_1, net.layer_1_weight, N1, N1, net.factor)
Output  == Layer(ReLU(Hidden), net.trained.layer_2, net.layer_2_weight, 2, N1, net.factor)

\* Type invariant: the scratch vectors hold int32_t values and keep their lengths.
TypeOK ==
  /\ stage \in {"idle", "xdp_preprocessing", "xdp_input_linear", "xdp_input_relu",
                "xdp_hidden_linear", "xdp_hidden_relu", "xdp_output_linear"}
  /\ x \in Vec(N0, Int)
  /\ hidden1 \in Vec(N1, -Half32 .. Half32 - 1)
  /\ hidden2 \in Vec(N1, -Half32 .. Half32 - 1)
  /\ label \in 0 .. 2

\* At every stage the scratch vector that comes next holds the activations of the
\* network that was trained, up to the rounding of the parameters and of the
\* operations so far, unless one of them can have left its range.
ActivationsClose ==
  /\ stage = "xdp_input_linear"  /\ Scaled.fits => Close(Scaled, hidden2)
  /\ stage = "xdp_input_relu"    /\ Input.fits => Close(Input, hidden1)
  /\ stage = "xdp_hidden_linear" /\ Input.fits => Close(ReLU(Input), hidden1)
  /\ stage = "xdp_hidden_relu"   /\ Hidden.fits => Close(Hidden, hidden2)
  /\ stage = "xdp_output_linear" /\ Hidden.fits => Close(ReLU(Hidden), hidden2)
  /\ label # 2                   /\ Output.fits => Close(Output, hidden1)

\* If the logits of the network that was trained are further apart than those errors,
\* the label is its prediction (the argmax of mlp.py), whatever the number of
\* fractional bits the network was exported with.
LabelRight ==
  LET e == Output
      margin == 2 * Abs(e.val[0] - e.val[1]) * e.one
  IN  label # 2 /\ e.fits /\ margin > e.err[0] + e.err[1] =>
        label = IF e.val[0] > e.val[1] THEN 0 ELSE 1

=============================================================================
