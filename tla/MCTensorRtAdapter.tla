------------------------- MODULE MCTensorRtAdapter -------------------------
(* TensorRtAdapter as the inspection thread uses it: one calling thread.   *)
EXTENDS TensorRtAdapter

CONSTANTS c1, i1, i2, r1, r2, r3, p1, p2

OneCaller == {c1}
TwoImages == {i1, i2}
ThreeIds == {r1, r2, r3}
TwoPids == {p1, p2}
=============================================================================
