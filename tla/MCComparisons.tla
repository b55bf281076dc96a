---------------------------- MODULE MCComparisons ----------------------------
(***************************************************************************)
(* An instance of Comparisons for TLC.  Boxes are equal, overlap by half,  *)
(* by more or not at all; the model's list lacks a class; confidences are  *)
(* at the threshold, equal, or differ a little or more.                    *)
(***************************************************************************)
EXTENDS Comparisons

Detection(class, box, confidence) ==
    [class |-> class, box |-> box, confidence |-> confidence]

a == <<0, 0, 30, 10>>
b == <<1, 0, 31, 10>>
c == <<10, 0, 40, 10>>
d == <<20, 0, 50, 10>>

MCDetections ==
    {Detection("x", a, 500), Detection("x", b, 502), Detection("x", c, 150),
     Detection("x", d, 520), Detection("y", a, 500), Detection("y", c, 501),
     Detection("z", b, 151)}

MCClasses == {"x", "y"}

\* Lists that the suppression of overlapping detections of one class leaves.
MCLists ==
    {s \in {<<>>} \cup {<<p>> : p \in MCDetections} \cup {<<p, q>> : p, q \in MCDetections} :
        \A i, j \in DOMAIN s :
            i # j /\ s[i].class = s[j].class => BboxIou(s[i].box, s[j].box) <= 500}

\* The lists of the batch programs: nothing, a detection, and one that differs
\* from it in the confidence, in the class or at the threshold.
plain == <<Detection("x", a, 500)>>
nearby == <<Detection("x", a, 503)>>
other == <<Detection("y", a, 500)>>
weak == <<Detection("x", a, 500), Detection("x", d, 150)>>

MCBackends == <<"pytorch", "tensorrt_fp32", "tensorrt_fp16">>
MCComparedPairs == <<<<"pytorch", "tensorrt_fp32">>, <<"pytorch", "tensorrt_fp16">>,
                     <<"tensorrt_fp32", "tensorrt_fp16">>>>
\* One name in two directories, one stem with two suffixes, or two stems.
Name(stem, suffix) == [stem |-> stem, suffix |-> suffix]
MCNamings ==
    {<<Name("a", 1), Name("a", 1)>>, <<Name("a", 1), Name("a", 2)>>,
     <<Name("a", 2), Name("a", 1)>>, <<Name("a", 1), Name("b", 1)>>}

Run(found, fallback) == [found |-> found, fallback |-> fallback]
MCMeasurements ==
    {<<>>, <<Run(plain, FALSE)>>, <<Run(plain, FALSE), Run(plain, FALSE)>>,
     <<Run(plain, FALSE), Run(other, TRUE)>>, <<Run(other, FALSE), Run(other, FALSE)>>}

MCPairedStem == <<"a", "b", "a">>
MCPairedLists == {<<>>, plain, <<Detection("x", a, 501)>>, <<Detection("x", a, 520)>>}

Result(lists, failed, mismatches, latency) ==
    [lists |-> lists, failed |-> failed, mismatches |-> mismatches, latency |-> latency]
MCFound == {<<>>, plain, nearby, other, weak}
MCTensorRt ==
    {Result(<<l>>, {}, m, t) : l \in MCFound, m \in 0 .. 1, t \in {10, 20, Unmeasured}}
    \cup {Result(<<<<>>>>, {1}, 0, t) : t \in {10, 20}}
    \cup {Result(<<plain, l>>, {}, 0, 10) : l \in MCFound}
    \cup {Result(<<plain, <<>>>>, {2}, 0, 20)}
MCOnnx ==
    {Result(<<l>>, f, 0, t) : l \in MCFound, f \in {{}, {1}}, t \in {10, 20}}
    \cup {Result(<<plain, l>>, {}, 0, 20) : l \in MCFound}
MCResults == <<MCOnnx, MCTensorRt, MCTensorRt>>
=============================================================================
