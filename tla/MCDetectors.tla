----------------------------- MODULE MCDetectors -----------------------------
(***************************************************************************)
(* An instance of Detectors for TLC.                                       *)
(***************************************************************************)
EXTENDS Detectors

\* All kinds of model.
MCModels ==
    [tensors : {"one", "two"}, type : {"float", "double"},
     input : {"fixed", "dynamic", "partly", "other"},
     channels : {"fixed", "dynamic"}, classes : BOOLEAN]

MCShapes == (1 .. 50) \X (1 .. 50)
MCShown == <<10, 20>>

Found(box, first, second) == [box |-> box, scores |-> <<first, second>>]

\* Boxes that overlap more and less, of both classes, with equal scores, scores
\* at and below the threshold and no score at all; one lies in the padding.
MCCandidates ==
    {Found(<<10, 8, 8, 4>>, 600, 200), Found(<<11, 8, 8, 4>>, 500, 200),
     Found(<<13, 8, 8, 4>>, 400, 100), Found(<<15, 8, 8, 4>>, 400, 300),
     Found(<<10, 8, 8, 4>>, 100, 600), Found(<<10, 2, 8, 2>>, 700, 100),
     Found(<<2, 8, 8, 4>>, 900, NotFinite), Found(<<2, 5, 8, 4>>, 150, 150),
     Found(<<2, 8, 8, 4>>, 149, 100)}

MCOutputs ==
    {<<>>} \cup {<<a, b>> : a, b \in MCCandidates}
        \cup {<<a, b, c>> : a, b, c \in MCCandidates}
=============================================================================
