-------------------------- MODULE MCTensorRtWorker --------------------------
(* TensorRtWorker with two calling threads, two images and two processes.   *)
EXTENDS TensorRtWorker, TLC

CONSTANTS c1, c2, i1, i2, r1, r2, r3, p1, p2

TwoCallers == {c1, c2}
TwoImages == {i1, i2}
ThreeIds == {r1, r2, r3}
TwoPids == {p1, p2}

Symmetric ==
  Permutations(TwoCallers) \cup Permutations(TwoImages)
    \cup Permutations(ThreeIds) \cup Permutations(TwoPids)
=============================================================================
