----------------------------- MODULE MCVlmBatch -----------------------------
\* An instance of VlmBatch for TLC: the second and third of four images have
\* the same stem.
EXTENDS VlmBatch

MCStem == <<"a", "b", "b", "c">>
=============================================================================
