--------------------------- MODULE CompareImages ---------------------------
(***************************************************************************)
(* The same two lists of detections of one image given to each of the      *)
(* comparison programs, or one of them as the labels of the image.         *)
(***************************************************************************)
EXTENDS DetectionMatching

CONSTANTS
    Lists,      \* the lists of detections the programs may be given
    Classes     \* the class names of the model, for compare_predictions.py

ASSUME ListsAreRead == Lists \subseteq Seq(Detections)
ASSUME ClassesAreListed == IsFiniteSet(Classes)

VARIABLES left, right, verdict

imagesVars == <<left, right, verdict>>

ImagesInit == left = <<>> /\ right = <<>> /\ verdict = <<>>

\* What each program makes of two lists.
Verdicts(first, second) ==
    [lists |-> CompareDetectionLists(first, second),
     sets |-> CompareDetectionSets(first, second),
     results |-> CompareResults(first, second),
     image |-> CompareImage(first, second, 2),
     benchmark |-> JudgeStatus(first, second, 2),
     analysis |-> AnalyseImage(first, second, Classes),
     records |-> ErrorRecords(first, second)]

Judge ==
    /\ verdict = <<>>
    /\ left' \in Lists /\ right' \in Lists
    /\ verdict' = Verdicts(left', right')

-----------------------------------------------------------------------------
Judged == verdict # <<>>

\* Lists that may be labels: the reader of the labels drops unknown classes.
Labelled == Judged /\ \A i \in DOMAIN left : left[i].class \in Classes

\* A matching is one-to-one and stable: a candidate is left out only for one
\* that overlaps as much and shares a detection with it.
Stable(matching, Candidate(_)) ==
    /\ \A p, q \in matching : p # q => p[1] # q[1] /\ p[2] # q[2]
    /\ \A p \in (DOMAIN left) \X (DOMAIN right) :
           Candidate(p) /\ Overlap(left, right, p) >= MatchIou =>
               \E q \in matching : /\ q[1] = p[1] \/ q[2] = p[2]
                                   /\ Overlap(left, right, q) >= Overlap(left, right, p)

\* No program pairs a detection twice or pairs worse than it could: in
\* particular a detection reported as missing has no free partner.
MatchingsAreStable ==
    Judged => \A matching \in {verdict.lists.matched, verdict.image.matched} :
                  Stable(matching, LAMBDA p : SameClass(left, right, p))

\* A pair reported as a mismatch of classes by compare_all_backends.py, which
\* does not look at them, is one: the first matching leaves no other pairs.
MismatchesDiffer ==
    Judged => \A p \in verdict.lists.mismatched : ~SameClass(left, right, p)

\* The programs agree on what is a failure of the detections themselves: what
\* the PyTorch and the all-backends comparison fail, the others never pass, and
\* they fail nothing else but differences of box and confidence.  Whatever the
\* comparison of the C++ backends fails or passes, so does the C++ benchmark; in
\* between, the benchmark fails what the comparison excuses at the threshold.
VerdictsAgree ==
    Judged =>
        /\ verdict.lists.status = verdict.sets.status
        /\ verdict.lists.status = "FAIL" => verdict.results.status = "FAIL"
        /\ verdict.results.status = "PASS" => verdict.lists.status = "PASS"
        /\ verdict.lists.status = "FAIL" <=>
               verdict.image.alone # {} \/ verdict.image.crossed # {}
        /\ verdict.image.status = "FAIL" => verdict.benchmark = "FAIL"
        /\ verdict.image.status = "PASS" <=> verdict.benchmark = "PASS"
        /\ verdict.benchmark = "FAIL" /\ verdict.image.status # "FAIL" =>
               verdict.image.alone # {}

\* The report of compare_cpp_inference_backends.py: unmatched detections are a
\* numerical warning only when every one of them is at the threshold.
BoundaryExcusesItself ==
    Judged /\ verdict.image.status # "FAIL" =>
        /\ verdict.image.crossed = {}
        /\ \A d \in verdict.image.alone : IsThresholdBoundary(d)
        /\ verdict.image.alone # {} => verdict.image.status = "NUMERICAL_WARNING"

Total(field) == FoldSet(LAMBDA c, sum : sum + verdict.analysis.classes[c][field], 0, Classes)

\* Whatever is confused with what, the counts by class add up to the totals,
\* every label is found or missed and every prediction right or false.
CountsAddUp ==
    LET analysis == verdict.analysis
        unknown == {j \in DOMAIN right : right[j].class \notin Classes}
    IN  Labelled /\ ~analysis.raises =>
            /\ Total("tp") = analysis.tp /\ analysis.tp + analysis.fn = Len(left)
            /\ Total("fn") = analysis.fn /\ analysis.tp + analysis.fp = Len(right)
            /\ Total("fp") = analysis.fp - Cardinality(unknown)
            /\ \A c \in Classes :
                   analysis.classes[c].tp + analysis.classes[c].fn
                       = Cardinality(OfClass(left, c))

\* The records mirror the counts, a confused pair as two of them; a label that
\* is listed as missed although a prediction of its class overlaps enough lost
\* that prediction to another label that overlaps it no less.
RecordsMirrorCounts ==
    LET Of(type) == {r \in verdict.records : r.type = type}
    IN  Labelled =>
            /\ Cardinality(Of("TP")) = verdict.analysis.tp
            /\ Cardinality(Of("FP")) = verdict.analysis.fp
            /\ Cardinality(Of("FN")) = verdict.analysis.fn
            /\ \A r \in Of("FN") : r.best >= MatchIou =>
                   \E t \in Of("TP") :
                       /\ t.best >= r.best
                       /\ Overlap(left, right, <<r.truth, t.prediction>>) = r.best

\* What the programs pair on an image.
MatchingsAreSound == MatchingsAreStable /\ MismatchesDiffer

\* What they conclude from it.
VerdictsAreSound == VerdictsAgree /\ BoundaryExcusesItself

\* What compare_predictions.py counts and lists.
CountsAreSound == CountsAddUp /\ RecordsMirrorCounts
=============================================================================
