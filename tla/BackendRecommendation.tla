------------------------ MODULE BackendRecommendation ------------------------
(***************************************************************************)
(* scripts/compare_cpp_inference_backends.py: three directories of results *)
(* are read, compared in pairs, and the fastest backend is recommended.    *)
(*                                                                         *)
(* The images of a directory have different stems.                         *)
(***************************************************************************)
EXTENDS DetectionMatching

CONSTANTS
    Results,    \* what the directory of each of the three backends may hold
    Unmeasured  \* the latency of a summary without one

\* A directory as it was read: a list for each image, empty if a TensorRT run failed
\* on it, and the summary.
ASSUME ResultsAreRead ==
    \A b \in 1 .. 3 : \A result \in Results[b] :
        /\ result.lists \in Seq(Seq(Detections))
        /\ result.failed \subseteq DOMAIN result.lists
        /\ result.latency \in Nat \cup {Unmeasured}
        /\ b # 1 => \A i \in result.failed : result.lists[i] = <<>>

VARIABLES
    evidence,   \* the directories of the backends, in the order of Sources
    report

recommendVars == <<evidence, report>>

Sources == <<"onnx_cuda", "tensorrt_fp32", "tensorrt_fp16">>

\* The images read, the failed ones among them: those have no detections in a
\* TensorRT directory, and their status is not looked at again.
Loaded(result) == result.lists

ValidateImageSets(results) ==
    \A b \in 2 .. 3 : DOMAIN Loaded(results[b]) = DOMAIN Loaded(results[1])

PairSpecs == {<<1, 2>>, <<1, 3>>, <<2, 3>>}
PracticalTolerance(pair) == IF 3 \in {pair[1], pair[2]} THEN 5 ELSE 2

\* Mutated form of ComparePair: images that one of the two failed are left out.
ComparePairProcessed(results, pair) ==
    LET first == Loaded(results[pair[1]])
        second == Loaded(results[pair[2]])
    IN  {CompareImage(first[i], second[i], PracticalTolerance(pair)).status :
             i \in (DOMAIN first) \ (results[pair[1]].failed \cup results[pair[2]].failed)}

ComparePair(results, pair) ==
    LET first == Loaded(results[pair[1]])
        second == Loaded(results[pair[2]])
    IN  {CompareImage(first[i], second[i], PracticalTolerance(pair)).status :
             i \in DOMAIN first}

AggregatePair(statuses) ==
    IF "FAIL" \in statuses THEN "FAIL"
    ELSE IF "NUMERICAL_WARNING" \in statuses THEN "NUMERICAL_WARNING" ELSE "PASS"

Eligible(results) ==
    {b \in 1 .. 3 : /\ results[b].failed = {} /\ results[b].mismatches = 0
                    /\ results[b].latency # Unmeasured}

\* The first of the eligible backends with the least latency, 0 for none.
ChooseRecommendedBackend(results, pairs) ==
    LET eligible == Eligible(results)
        fastest == {b \in eligible : \A c \in eligible :
                        results[b].latency <= results[c].latency}
    IN  IF "FAIL" \in pairs THEN <<0, "withheld_structural_failures">>
        ELSE IF eligible = {} THEN <<0, "withheld_reliability">>
        ELSE IF "NUMERICAL_WARNING" \in pairs
        THEN <<Min(fastest), "recommended_with_numerical_warnings">>
        ELSE <<Min(fastest), "recommended">>

RecommendInit == evidence = <<>> /\ report = <<>>

\* Different sets of images raise, and nothing is written.
BuildComparison ==
    /\ evidence = <<>>
    /\ \E results \in Results[1] \X Results[2] \X Results[3] :
        LET pairs == {AggregatePair(ComparePair(results, p)) : p \in PairSpecs}
        IN  /\ evidence' = results
            /\ report' = IF ValidateImageSets(results)
                         THEN <<AggregatePair(pairs)>>
                              \o ChooseRecommendedBackend(results, pairs)
                         ELSE <<>>

-----------------------------------------------------------------------------
\* What the texts of a recommendation claim of every two backends: whatever one
\* detects, away from the threshold, the other detects at the same place, in
\* the same class and with practically the same confidence.
Agree(first, second) ==
    \A d \in Range(first) :
        \/ IsThresholdBoundary(d)
        \/ \E e \in Range(second) :
               /\ e.class = d.class
               /\ BboxIou(d.box, e.box) >= MatchIou
               /\ BboxMaxAbsDiff(d.box, e.box) <= BoxTolerance
               /\ Abs(d.confidence - e.confidence) <= 5

\* A recommended backend has failed no image, is the fastest of those, and all
\* backends agree on all images, in both directions.
RecommendationJustified ==
    report # <<>> /\ report[2] # 0 =>
        LET best == evidence[report[2]]
        IN  /\ best.failed = {} /\ best.mismatches = 0
            /\ \A b \in 1 .. 3 : b \in Eligible(evidence) =>
                   best.latency <= evidence[b].latency
            /\ \A b, c \in 1 .. 3 : \A i \in DOMAIN best.lists :
                   Agree(evidence[b].lists[i], evidence[c].lists[i])

\* An image that one backend failed and in which another detects something, away
\* from the threshold, withholds every recommendation.
FailedImagesWithhold ==
    report # <<>> =>
        \A b, c \in 2 .. 3 : \A i \in evidence[b].failed :
            (\E d \in Range(evidence[c].lists[i]) : ~IsThresholdBoundary(d)) =>
                report[2] = 0

\* A recommendation is only made on evidence that supports it.
RecommendationIsSound == RecommendationJustified /\ FailedImagesWithhold
=============================================================================
