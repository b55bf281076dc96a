----------------------------- MODULE Comparisons -----------------------------
(***************************************************************************)
(* The comparison programs: one of them is run, the variables of the       *)
(* others stay as they are.                                                *)
(***************************************************************************)
EXTENDS CompareImages, BackendRecommendation, AllBackends, PairedBatch

VARIABLE program

vars == <<program, imagesVars, recommendVars, allVars, pairedVars>>

Init ==
    /\ program \in {"images", "recommendation", "all_backends", "paired"}
    /\ ImagesInit /\ RecommendInit /\ AllInit
    /\ PairedInit /\ (program # "paired" => pair = "torch")

Next ==
    \/ /\ program = "images" /\ Judge
       /\ UNCHANGED <<program, recommendVars, allVars, pairedVars>>
    \/ /\ program = "recommendation" /\ BuildComparison
       /\ UNCHANGED <<program, imagesVars, allVars, pairedVars>>
    \/ /\ program = "all_backends" /\ AllNext
       /\ UNCHANGED <<program, imagesVars, recommendVars, pairedVars>>
    \/ /\ program = "paired" /\ PairedNext
       /\ UNCHANGED <<program, imagesVars, recommendVars, allVars>>

Spec == Init /\ [][Next]_vars
=============================================================================
