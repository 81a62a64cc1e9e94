----------------------------- MODULE MCInference -----------------------------
(* Small networks and features for TLC. *)
EXTENDS Inference, Sequences

Matrix(rows) == [i \in 0 .. Len(rows) - 1 |-> [j \in 0 .. Len(rows[1]) - 1 |-> rows[i + 1][j + 1]]]
Vector(v)    == [i \in 0 .. Len(v) - 1 |-> v[i + 1]]

\* Weights are thirty-seconds, mean and scale halves.
MCNetworks ==
  [layer_0 : {Matrix(<<<<35, 6>>, <<-19, 43>>, <<10, -1>>>>),
              Matrix(<<<<-27, 49>>, <<41, 15>>, <<2, 23>>>>)},
   layer_1 : {Matrix(<<<<41, -9, 7>>, <<21, 33, -5>>, <<15, 18, 27>>>>),
              Matrix(<<<<-13, 39, 3>>, <<33, 2, 24>>, <<-7, 5, 31>>>>)},
   layer_2 : {Matrix(<<<<50, -5, 9>>, <<-43, 31, -15>>>>),
              Matrix(<<<<-39, -47, 19>>, <<55, 33, -13>>>>)},
   mean : {Vector(<<14, 4>>), Vector(<<11, 25>>)},
   scale : {Vector(<<12, 4>>), Vector(<<13, 1>>)}]

MCFeatures == {Vector(v) : v \in ({0, 8, 21} \X {1, 9}) \cup {<<80, 1>>, <<250, 1>>}}
=============================================================================
