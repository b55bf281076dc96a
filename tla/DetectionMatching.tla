-------------------------- MODULE DetectionMatching --------------------------
(***************************************************************************)
(* How the comparison programs, and the C++ benchmarks, pair the           *)
(* detections of two backends, or of a backend and the labels, on one      *)
(* image and judge the pair.                                               *)
(*                                                                         *)
(* Confidences and overlaps are counted in thousandths; a box is a tuple   *)
(* <<x1, y1, x2, y2>>.                                                     *)
(***************************************************************************)
EXTENDS Integers, Sequences, SequencesExt, FiniteSetsExt

CONSTANTS
    MatchIou,             \* --match-iou
    ConfidenceThreshold,  \* --confidence-threshold
    BoundaryMargin,       \* --threshold-boundary-margin
    StrictTolerance,      \* --strict-confidence-tolerance
    BoxTolerance          \* --bbox-tolerance

ASSUME MatchIouIsFraction == MatchIou \in 1 .. 1000
ASSUME TolerancesAreNatural ==
    {ConfidenceThreshold, BoundaryMargin, StrictTolerance, BoxTolerance} \subseteq Nat

\* A detection as it was read: a class, a box and a confidence.
Detections ==
    [class : STRING, box : Int \X Int \X Int \X Int, confidence : Nat]

Abs(n) == IF n < 0 THEN -n ELSE n
Larger(a, b) == IF a > b THEN a ELSE b
Smaller(a, b) == IF a < b THEN a ELSE b

Area(box) == Larger(0, box[3] - box[1]) * Larger(0, box[4] - box[2])

Intersection(first, second) ==
    <<Larger(first[1], second[1]), Larger(first[2], second[2]),
      Smaller(first[3], second[3]), Smaller(first[4], second[4])>>

Share(common, both) ==
    IF both <= common THEN 0 ELSE (1000 * common) \div (both - common)

BboxIou(first, second) ==
    Share(Area(Intersection(first, second)), Area(first) + Area(second))

BboxMaxAbsDiff(first, second) == Max({Abs(first[k] - second[k]) : k \in 1 .. 4})

-----------------------------------------------------------------------------
\* A matching of the sequences left and right is a set of pairs <<i, j>>.

Overlap(left, right, pair) == BboxIou(left[pair[1]].box, right[pair[2]].box)
SameClass(left, right, pair) == left[pair[1]].class = right[pair[2]].class
Delta(left, right, pair) == Abs(left[pair[1]].confidence - right[pair[2]].confidence)

Touches(matching, pair) ==
    \E other \in matching : other[1] = pair[1] \/ other[2] = pair[2]

Pairs(left, right) == (DOMAIN left) \X (DOMAIN right)

\* The order in which pairs are tried, by the keys (-overlap, i, j).
Before(left, right, p, q) ==
    LET x == Overlap(left, right, p)
        y == Overlap(left, right, q)
    IN  \/ x > y
        \/ x = y /\ p[1] < q[1]
        \/ x = y /\ p[1] = q[1] /\ p[2] < q[2]

\* What the loop makes of the candidates: each is taken exactly if no taken one
\* before it has one of its detections.
IsGreedy(left, right, candidates, matching) ==
    \A p \in candidates :
        p \in matching <=> ~Touches({q \in matching : Before(left, right, q, p)}, p)

Candidates(left, right, eligible) ==
    {p \in eligible : Overlap(left, right, p) >= MatchIou}

\* Mutated form of GreedyPairs: a detection may be used again on one side.
GreedyPairsReused(left, right, eligible) ==
    LET candidates == Candidates(left, right, eligible)
    IN  CHOOSE matching \in SUBSET candidates :
            \A p \in candidates :
                p \in matching <=>
                    ~\E q \in matching : Before(left, right, q, p) /\ q[1] = p[1]

\* One-to-one pairs of the eligible ones that overlap enough, the ones of larger
\* overlap first.
GreedyPairs(left, right, eligible) ==
    LET candidates == Candidates(left, right, eligible)
    IN  CHOOSE matching \in SUBSET candidates :
            IsGreedy(left, right, candidates, matching)

MatchDetections(left, right) ==
    GreedyPairs(left, right, {p \in Pairs(left, right) : SameClass(left, right, p)})

Unmatched(list, matching, side) == DOMAIN list \ {pair[side] : pair \in matching}

\* The largest difference of confidence and the least overlap of the pairs.
Worst(left, right, matching) ==
    [confidence |-> Max({Delta(left, right, p) : p \in matching} \cup {0}),
     iou |-> Min({Overlap(left, right, p) : p \in matching} \cup {1000}),
     box |-> Max({BboxMaxAbsDiff(left[p[1]].box, right[p[2]].box) : p \in matching}
                 \cup {0})]

-----------------------------------------------------------------------------
\* compare_all_backends.py: what the first matching leaves is matched again,
\* whatever the classes.

PairClassMismatches(left, right, matching) ==
    GreedyPairs(left, right, {p \in Pairs(left, right) : ~Touches(matching, p)})

CompareDetectionLists(left, right) ==
    LET matched == MatchDetections(left, right)
        mismatched == PairClassMismatches(left, right, matched)
        negative == Unmatched(left, matched \cup mismatched, 1)
        positive == Unmatched(right, matched \cup mismatched, 2)
        worst == Worst(left, right, matched)
        count == Cardinality(mismatched) + Cardinality(negative) + Cardinality(positive)
    IN  [matched |-> matched, mismatched |-> mismatched, count |-> count,
         status |-> IF count > 0 THEN "FAIL"
                    ELSE IF worst.confidence > 10 \/ worst.iou < 990 THEN "WARNING"
                    ELSE "PASS"]

\* compare_pytorch_onnx_batch.py.
CompareDetectionSets(left, right) ==
    LET matched == MatchDetections(left, right)
        worst == Worst(left, right, matched)
    IN  [matched |-> matched, worst |-> worst,
         status |-> IF left = <<>> /\ right = <<>> THEN "PASS"
                    ELSE IF \/ Unmatched(left, matched, 1) # {}
                            \/ Unmatched(right, matched, 2) # {} THEN "FAIL"
                    ELSE IF worst.confidence > 10 \/ worst.iou < 990 THEN "WARNING"
                    ELSE "PASS"]

\* compare_python_cpp_onnx_batch.py, whose limits are narrower.  A difference
\* of confidence below one thousandth is none here.
CompareResults(left, right) ==
    LET matched == MatchDetections(left, right)
        worst == Worst(left, right, matched)
    IN  [matched |-> matched, worst |-> worst,
         status |-> IF left = <<>> /\ right = <<>> THEN "PASS"
                    ELSE IF \/ Cardinality(matched) # Len(left)
                            \/ Cardinality(matched) # Len(right)
                            \/ worst.iou < 990 THEN "FAIL"
                    ELSE IF worst.iou >= 999 /\ worst.confidence = 0 THEN "PASS"
                    ELSE IF worst.confidence <= 1 THEN "WARNING"
                    ELSE "FAIL"]

-----------------------------------------------------------------------------
\* compare_cpp_inference_backends.py: an unmatched detection whose confidence
\* is at the threshold is a numerical difference.

MatchAcrossClasses(left, right, matched) ==
    GreedyPairs(left, right, {p \in Pairs(left, right) : /\ ~Touches(matched, p)
                                                         /\ ~SameClass(left, right, p)})

IsThresholdBoundary(detection) ==
    Abs(detection.confidence - ConfidenceThreshold) <= BoundaryMargin

\* Mutated form of CompareImage: one detection at the threshold excuses all.
CompareImageExcused(left, right, tolerance) ==
    LET matched == MatchDetections(left, right)
        crossed == MatchAcrossClasses(left, right, matched)
        worst == Worst(left, right, matched)
        alone == {left[i] : i \in Unmatched(left, matched \cup crossed, 1)}
                 \cup {right[j] : j \in Unmatched(right, matched \cup crossed, 2)}
        boundary == {d \in alone : IsThresholdBoundary(d)}
    IN  [matched |-> matched, crossed |-> crossed, alone |-> alone,
         status |-> IF \/ alone # {} /\ boundary = {}
                       \/ crossed # {}
                       \/ worst.confidence > tolerance
                       \/ worst.box > BoxTolerance THEN "FAIL"
                    ELSE IF worst.confidence > StrictTolerance \/ boundary # {}
                    THEN "NUMERICAL_WARNING" ELSE "PASS"]

CompareImage(left, right, tolerance) ==
    LET matched == MatchDetections(left, right)
        crossed == MatchAcrossClasses(left, right, matched)
        worst == Worst(left, right, matched)
        alone == {left[i] : i \in Unmatched(left, matched \cup crossed, 1)}
                 \cup {right[j] : j \in Unmatched(right, matched \cup crossed, 2)}
        boundary == {d \in alone : IsThresholdBoundary(d)}
    IN  [matched |-> matched, crossed |-> crossed, alone |-> alone,
         status |-> IF \/ alone # boundary
                       \/ crossed # {}
                       \/ worst.confidence > tolerance
                       \/ worst.box > BoxTolerance THEN "FAIL"
                    ELSE IF worst.confidence > StrictTolerance \/ boundary # {}
                    THEN "NUMERICAL_WARNING" ELSE "PASS"]

\* batch_benchmark.cpp: any unmatched detection is structural.
JudgeStatus(left, right, tolerance) ==
    LET matched == MatchDetections(left, right)
        worst == Worst(left, right, matched)
    IN  IF \/ Unmatched(left, matched, 1) # {} \/ Unmatched(right, matched, 2) # {}
           \/ worst.confidence > tolerance
           \/ worst.box > BoxTolerance THEN "FAIL"
        ELSE IF worst.confidence <= StrictTolerance THEN "PASS"
        ELSE "NUMERICAL_WARNING"

-----------------------------------------------------------------------------
\* compare_predictions.py: labels against predictions.  A label is missed, and
\* a prediction false, also when the two are paired with different classes.  A
\* prediction of a class the list of names lacks is counted in the totals only,
\* and raises if it is paired with a label.

MatchTruth(truth, predictions) ==
    LET right == MatchDetections(truth, predictions)
    IN  [tp |-> right, confused |-> MatchAcrossClasses(truth, predictions, right)]

OfClass(list, class) == {i \in DOMAIN list : list[i].class = class}

\* Mutated form of AnalyseImage: a label that was mistaken is not a missed one.
AnalyseImageFreed(truth, predictions, classes) ==
    LET match == MatchTruth(truth, predictions)
        used == match.tp \cup match.confused
    IN  [raises |-> \E p \in match.confused : predictions[p[2]].class \notin classes,
         tp |-> Cardinality(match.tp),
         fp |-> Len(predictions) - Cardinality(match.tp),
         fn |-> Len(truth) - Cardinality(match.tp),
         classes |-> [c \in classes |->
            [tp |-> Cardinality({p \in match.tp : truth[p[1]].class = c}),
             fn |-> Cardinality(Unmatched(truth, used, 1) \cap OfClass(truth, c)),
             fp |-> Cardinality(Unmatched(predictions, used, 2) \cap OfClass(predictions, c))]]]

AnalyseImage(truth, predictions, classes) ==
    LET match == MatchTruth(truth, predictions)
        used == match.tp \cup match.confused
        Confused(c, side, list) == {p \in match.confused : list[p[side]].class = c}
    IN  [raises |-> \E p \in match.confused : predictions[p[2]].class \notin classes,
         tp |-> Cardinality(match.tp),
         fp |-> Len(predictions) - Cardinality(match.tp),
         fn |-> Len(truth) - Cardinality(match.tp),
         classes |-> [c \in classes |->
            [tp |-> Cardinality({p \in match.tp : truth[p[1]].class = c}),
             fn |-> Cardinality(Unmatched(truth, used, 1) \cap OfClass(truth, c))
                    + Cardinality(Confused(c, 1, truth)),
             fp |-> Cardinality(Unmatched(predictions, used, 2) \cap OfClass(predictions, c))
                    + Cardinality(Confused(c, 2, predictions))]]]

IsThresholdSensitive(confidence) ==
    Abs(confidence - ConfidenceThreshold) <= Larger(20, ConfidenceThreshold \div 10)

BestSameClassIou(detection, others) ==
    Max({BboxIou(detection.box, others[j].box) : j \in OfClass(others, detection.class)}
        \cup {0})

Record(type, truth, prediction, best, hint) ==
    [type |-> type, truth |-> truth, prediction |-> prediction, best |-> best, hint |-> hint]

\* The records of one image; a side that a record lacks is 0.
ErrorRecords(truth, predictions) ==
    LET match == MatchTruth(truth, predictions)
        used == match.tp \cup match.confused
        Missed(i) == BestSameClassIou(truth[i], predictions)
        Wrong(j) == BestSameClassIou(predictions[j], truth)
        Hint(j) == IF IsThresholdSensitive(predictions[j].confidence)
                   THEN "threshold_sensitive" ELSE "background_or_unlabeled_object"
    IN  {Record("TP", p[1], p[2], Overlap(truth, predictions, p), "") : p \in match.tp}
        \cup {Record("FP", p[1], p[2], Wrong(p[2]), "class_confusion") : p \in match.confused}
        \cup {Record("FN", p[1], p[2], Missed(p[1]), "class_confusion") : p \in match.confused}
        \cup {Record("FP", 0, j, Wrong(j), Hint(j)) : j \in Unmatched(predictions, used, 2)}
        \cup {Record("FN", i, 0, Missed(i), "missed_detection") :
                   i \in Unmatched(truth, used, 1)}
=============================================================================
