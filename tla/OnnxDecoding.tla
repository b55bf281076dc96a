---------------------------- MODULE OnnxDecoding ----------------------------
(***************************************************************************)
(* What the Python detector (service/onnx_detector.py) and the C++         *)
(* detectors (image_preprocessor.cpp, postprocessor.cpp) do to an image    *)
(* before the network sees it, and to the network's output.                *)
(*                                                                         *)
(* Ratios are exact here: an image of longest side L is scaled by          *)
(* imgsz / L, and coordinates in the image are counted in units of         *)
(* 1 / imgsz of a pixel.  Overlaps and scores are in thousandths.          *)
(***************************************************************************)
EXTENDS Integers, Sequences, SequencesExt, FiniteSetsExt

CONSTANTS
    Shapes,     \* heights and widths of the images, for a letterbox
    ImageSize,  \* imgsz
    Outputs,    \* the lists of candidates the network may give
    Shown,      \* the shape of the image that they are decoded for
    ConfThreshold, IouThreshold,
    NotFinite   \* a score that is no number

ASSUME ImageSizeIsPositive == ImageSize \in Nat \ {0}
\* An image that was read has a height and a width.
ASSUME ShapesAreSizes == Shapes \subseteq (Nat \ {0}) \X (Nat \ {0})

\* A candidate has a box and a score for each class.
ASSUME OutputsAreRead ==
    /\ NotFinite \notin Nat
    /\ Outputs \subseteq Seq([box : Int \X Int \X Int \X Int,
                              scores : Seq(Nat \cup {NotFinite}) \ {<<>>}])

VARIABLES
    shape,      \* the image
    output,     \* the candidates: a box <<x, y, w, h>> and the class scores
    decoded     \* what both languages make of them

decodingVars == <<shape, output, decoded>>

Longest(s) == Max({s[1], s[2]})

-----------------------------------------------------------------------------
(* The letterbox. *)

\* round() of a / b, as the half that is even: Python's, and round_half_to_even.
RoundHalfEven(a, b) ==
    LET floor == a \div b
        twice == 2 * (a % b)
    IN  IF twice < b \/ (twice = b /\ floor % 2 = 0) THEN floor ELSE floor + 1

\* std::round of a / b, halves away from zero.
RoundHalfAway(a, b) ==
    IF a >= 0 THEN (2 * a + b) \div (2 * b) ELSE -((b - 2 * a) \div (2 * b))

Padded(top, bottom, left, right, unpad) ==
    [pad |-> <<left, top>>, unpad |-> unpad,
     size |-> <<unpad[1] + left + right, unpad[2] + top + bottom>>]

\* Mutated form of Letterbox: the sizes are cut off instead of rounded.
LetterboxCut(s) ==
    LET unpad == <<(s[2] * ImageSize) \div Longest(s), (s[1] * ImageSize) \div Longest(s)>>
        d(k) == ImageSize - unpad[k]
    IN  IF unpad[1] <= 0 \/ unpad[2] <= 0 THEN <<>>
        ELSE Padded(d(2) \div 2, d(2) - d(2) \div 2, d(1) \div 2, d(1) - d(1) \div 2, unpad)

\* letterbox as preprocess_image calls it; <<>> for an exception.
Letterbox(s) ==
    LET unpad == <<RoundHalfEven(s[2] * ImageSize, Longest(s)),
                   RoundHalfEven(s[1] * ImageSize, Longest(s))>>
        d(k) == ImageSize - unpad[k]
        before(k) == RoundHalfEven(5 * d(k) - 1, 10)
        after(k) == RoundHalfEven(5 * d(k) + 1, 10)
    IN  IF \/ s[1] <= 0 \/ s[2] <= 0
           \/ unpad[1] <= 0 \/ unpad[2] <= 0 \/ d(1) < 0 \/ d(2) < 0
        THEN <<>>
        ELSE Padded(before(2), after(2), before(1), after(1), unpad)

\* letterbox_resize
LetterboxResize(s) ==
    LET width == RoundHalfEven(s[2] * ImageSize, Longest(s))
        height == RoundHalfEven(s[1] * ImageSize, Longest(s))
        before(size) == RoundHalfAway(5 * (ImageSize - size) - 1, 10)
        after(size) == RoundHalfAway(5 * (ImageSize - size) + 1, 10)
    IN  IF s[1] <= 0 \/ s[2] <= 0 \/ width <= 0 \/ height <= 0
           \/ width > ImageSize \/ height > ImageSize
        THEN <<>>
        ELSE Padded(before(height), after(height), before(width), after(width),
                    <<width, height>>)

-----------------------------------------------------------------------------
(* The output. *)

\* It is that of a network whose input was letterboxed.
ASSUME ShownIsLetterboxed ==
    Shown \in (Nat \ {0}) \X (Nat \ {0}) /\ Letterbox(Shown) # <<>>

\* xywh_to_xyxy and restore_boxes_to_original; sizes of boxes are even here.
Restore(box, s) ==
    LET pad == Letterbox(s).pad
        at(v, k) == (v - pad[k]) * Longest(s)
        clip(v, limit) == Max({0, Min({v, limit * ImageSize})})
    IN  <<clip(at(box[1] - box[3] \div 2, 1), s[2]), clip(at(box[2] - box[4] \div 2, 2), s[1]),
          clip(at(box[1] + box[3] \div 2, 1), s[2]), clip(at(box[2] + box[4] \div 2, 2), s[1])>>

BoxArea(box) == Max({0, box[3] - box[1]}) * Max({0, box[4] - box[2]})

Common(a, b) ==
    <<Max({a[1], b[1]}), Max({a[2], b[2]}), Min({a[3], b[3]}), Min({a[4], b[4]})>>

Share(inter, both) == IF both <= inter THEN 0 ELSE (1000 * inter) \div (both - inter)

BoxIou(a, b) == Share(BoxArea(Common(a, b)), BoxArea(a) + BoxArea(b))

\* A candidate's index, class and score; the first class of the best ones.
Candidate(list, k, s) ==
    LET scores == list[k].scores
        best == Max(Range(scores))
    IN  [index |-> k, score |-> best, box |-> Restore(list[k].box, s),
         class |-> Min({c \in DOMAIN scores : scores[c] = best})]

\* The candidates with finite scores, one of them high enough, whose box keeps
\* an area inside the image.
Candidates(list, s) ==
    LET finite == {k \in DOMAIN list : NotFinite \notin Range(list[k].scores)}
    IN  {c \in {Candidate(list, k, s) : k \in finite} :
            c.score >= ConfThreshold /\ c.box[1] < c.box[3] /\ c.box[2] < c.box[4]}

\* score_desc_index_asc, when the ranks are the indices.
Before(rank, a, b) == a.score > b.score \/ (a.score = b.score /\ rank[a] < rank[b])

Overlapping(a, b) == a.class = b.class /\ BoxIou(a.box, b.box) > IouThreshold

\* What the loop of the suppression keeps: a candidate is dropped exactly if a kept
\* one before it, of its class, overlaps it.
Kept(candidates, rank) ==
    CHOOSE kept \in SUBSET candidates :
        \A c \in candidates :
            c \in kept <=> ~\E k \in kept : Before(rank, k, c) /\ Overlapping(k, c)

KeptByClass(candidates, rank) ==
    UNION {Kept({c \in candidates : c.class = class}, rank) :
               class \in {c.class : c \in candidates}}

\* A list of candidates is given by how many of them are before each.
Sorted(kept, rank) == [c \in kept |-> Cardinality({k \in kept : Before(rank, k, c)})]

\* argsort of NumPy does not say how equal scores are ordered.  What is left of each
\* class is put together class after class, and sorted by score again.
PythonRanks(candidates) ==
    {rank \in [candidates -> {c.index : c \in candidates}] :
        \A c, d \in candidates : c # d => rank[c] # rank[d]}

Ahead(rank, a, b) ==
    \/ a.score > b.score
    \/ a.score = b.score /\ a.class < b.class
    \/ a.score = b.score /\ a.class = b.class /\ rank[a] < rank[b]

SortedByScore(kept, rank) == [c \in kept |-> Cardinality({k \in kept : Ahead(rank, k, c)})]

ClassAwareNms(candidates) ==
    {SortedByScore(KeptByClass(candidates, rank), rank) : rank \in PythonRanks(candidates)}

ByIndex(candidates) == [c \in candidates |-> c.index]

\* Mutated form of DecodeYoloOutput: the classes do not matter.
DecodeYoloOutputAgnostic(candidates) ==
    LET rank == ByIndex(candidates)
        kept == CHOOSE kept \in SUBSET candidates :
                    \A c \in candidates :
                        c \in kept <=> ~\E k \in kept : /\ Before(rank, k, c)
                                                        /\ BoxIou(k.box, c.box) > IouThreshold
    IN  Sorted(kept, rank)

\* decode_yolo_output sorts and suppresses class by class; apply_nms does it
\* for all classes at once.
DecodeYoloOutput(candidates) ==
    Sorted(KeptByClass(candidates, ByIndex(candidates)), ByIndex(candidates))

ApplyNms(candidates) == Sorted(Kept(candidates, ByIndex(candidates)), ByIndex(candidates))

\* postprocess_output rounds the corners to pixels.
Pixels(c) == [k \in 1 .. 4 |-> RoundHalfEven(c.box[k], ImageSize)]

DecodingInit == shape = <<>> /\ output = <<>> /\ decoded = <<>>

LetterboxImage ==
    /\ shape = <<>>
    /\ shape' \in Shapes
    /\ decoded' = [python |-> Letterbox(shape'), cpp |-> LetterboxResize(shape')]
    /\ UNCHANGED output

PostprocessOutput ==
    /\ shape = <<>>
    /\ shape' = Shown /\ output' \in Outputs
    /\ LET candidates == Candidates(output', shape')
       IN  decoded' = [candidates |-> candidates,
                       results |-> ClassAwareNms(candidates),
                       cpp |-> DecodeYoloOutput(candidates),
                       nms |-> ApplyNms(candidates)]

DecodingNext == LetterboxImage \/ PostprocessOutput

-----------------------------------------------------------------------------
Letterboxed == shape # <<>> /\ "python" \in DOMAIN decoded
Postprocessed == shape # <<>> /\ "results" \in DOMAIN decoded

\* Both letterboxes make the same picture, of exactly the network's size, with
\* the image in the middle of it, or both refuse the image: then one side of it
\* would vanish.
LetterboxesAgree ==
    Letterboxed =>
        /\ decoded.python = decoded.cpp
        /\ LET p == decoded.python
           IN  IF p = <<>>
               THEN 2 * Min({shape[1], shape[2]}) * ImageSize <= Longest(shape)
               ELSE /\ p.size = <<ImageSize, ImageSize>>
                    /\ \A k \in 1 .. 2 :
                           LET rest == p.size[k] - p.unpad[k] - p.pad[k]
                           IN  rest - p.pad[k] \in 0 .. 1

\* The corners of the picture inside the letterbox are restored to the corners
\* of the image, to within half a pixel of the letterbox.
RestoreReachesCorners ==
    Letterboxed /\ decoded.python # <<>> =>
        \A k \in 1 .. 2 :
            LET side == shape[3 - k] * ImageSize
                far == decoded.python.unpad[k] * Longest(shape)
            IN  2 * far - 2 * side \in -Longest(shape) .. Longest(shape)

\* What the suppression keeps: no two that overlap, sorted by score; a candidate is
\* dropped only if a kept one overlaps it and has no lower score.  Every box of the
\* result lies in the image.
SuppressionIsSound ==
    Postprocessed =>
        \A result \in decoded.results \cup {decoded.cpp, decoded.nms} :
            /\ \A a, b \in DOMAIN result :
                   /\ result[a] < result[b] => a.score >= b.score
                   /\ a # b => ~Overlapping(a, b)
            /\ \A c \in decoded.candidates \ DOMAIN result :
                   \E k \in DOMAIN result : Overlapping(k, c) /\ k.score >= c.score
            /\ \A c \in DOMAIN result :
                   LET p == Pixels(c)
                   IN  /\ 0 <= p[1] /\ p[1] <= p[3] /\ p[3] <= Shown[2]
                       /\ 0 <= p[2] /\ p[2] <= p[4] /\ p[4] <= Shown[1]
                       /\ BoxArea(c.box) > 0

\* The C++ detectors give the result of the Python detector, in its order, unless
\* scores are equal: then they give the detections that Python may give, and the
\* order of equal scores may be another.
BackendsDecodeAlike ==
    Postprocessed =>
        /\ decoded.cpp = decoded.nms
        /\ \E result \in decoded.results : DOMAIN result = DOMAIN decoded.cpp
        /\ (\A c, d \in decoded.candidates : c # d => c.score # d.score) =>
               decoded.results = {decoded.cpp}

\* What goes into the network is the image, in every detector.
LetterboxIsFaithful == LetterboxesAgree /\ RestoreReachesCorners

\* What comes out of it is the same in every detector, and sound.
DecodingIsFaithful == SuppressionIsSound /\ BackendsDecodeAlike
=============================================================================
