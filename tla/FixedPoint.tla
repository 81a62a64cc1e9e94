----------------------------- MODULE FixedPoint -----------------------------
(***************************************************************************)
(* The integer arithmetic of NN-eBPF: the three layer functions of         *)
(* src/src/mlp.bpf.h, which the XDP programs apply, and the exporter       *)
(* src/src/mlp_quant.py, which turns a trained network into the arrays     *)
(* they read.                                                              *)
(*                                                                         *)
(* C's int32_t, int64_t and uint64_t keep their wrap-around, at widths the *)
(* constants give.  Vectors and arrays are functions on 0 .. n - 1; a      *)
(* matrix of the trained network is a function to its rows.                *)
(***************************************************************************)
EXTENDS Integers

CONSTANTS
  One,      \* 2^16: the kernel shifts left and right by 16 bits
  Half32,   \* int32_t holds -Half32 .. Half32 - 1: 2^31
  Half64,   \* int64_t holds -Half64 .. Half64 - 1: 2^63
  Unit      \* trained weights are multiples of 1 / Unit

ASSUME FixedPointAssumption ==
  /\ One \in Nat \ {0} /\ Unit \in Nat \ {0}
  /\ Half32 \in Nat \ {0} /\ Half64 \in Nat \ {0}

int32(z) == ((z + Half32) % (2 * Half32)) - Half32
int64(z) == ((z + Half64) % (2 * Half64)) - Half64
uint64(z) == z % (2 * Half64)

\* Unsigned division as BPF defines it: by zero, it gives zero.
udiv(a, b) == IF b = 0 THEN 0 ELSE a \div b

\* Mutant: the numerator is converted to int32_t before the division.
Quotient_EarlyCast(d, scale) ==
  udiv(uint64(int32(uint64(uint64(d) * One))), uint64(scale))

\* The unsigned product and quotient, cut to 32 bits.
Quotient(d, scale) == int32(udiv(uint64(uint64(d) * One), uint64(scale)))

\* x, mean and scale are int64_t, the result int32_t.
standard_scaler(x, mean, scale) ==
  [i \in DOMAIN mean |->
     IF mean[i] > x[i] THEN int32(-Quotient(mean[i] - x[i], scale[i]))
                       ELSE Quotient(x[i] - mean[i], scale[i])]

\* Mutant: the array is read column by column.
linear_layer_Column(W, x, M, N) ==
  [i \in 0 .. M - 1 |->
     LET sum[j \in 0 .. N] ==
           IF j = 0 THEN 0 ELSE int64(sum[j - 1] + W[(j - 1) * M + i] * x[j - 1])
     IN  int32(sum[N] \div One)]

\* M rows of N weights, in one array: an int64_t sum of products, shifted right and cut
\* to 32 bits.
linear_layer(W, x, M, N) ==
  [i \in 0 .. M - 1 |->
     LET sum[j \in 0 .. N] ==
           IF j = 0 THEN 0 ELSE int64(sum[j - 1] + W[i * N + j - 1] * x[j - 1])
     IN  int32(sum[N] \div One)]

relu(tensor) == [i \in DOMAIN tensor |-> IF tensor[i] > 0 THEN tensor[i] ELSE 0]

\* round() of torch and numpy: to the nearest integer, a tie to the even one.
Round(num, den) ==
  LET floor == num \div den
      rest  == 2 * (num % den)
  IN  IF rest < den \/ (rest = den /\ floor % 2 = 0) THEN floor ELSE floor + 1

\* Mutant: int() in place of round().
Fixed_Truncated(w, M, N, factor) ==
  [k \in 0 .. M * N - 1 |-> (w[k \div N][k % N] * factor) \div Unit]

\* The M x N weights of one layer as the exporter writes them: flattened row by row,
\* times 2^FIX_POINT, rounded.
Fixed(w, M, N, factor) ==
  [k \in 0 .. M * N - 1 |-> Round(w[k \div N][k % N] * factor, Unit)]

=============================================================================
