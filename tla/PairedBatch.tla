----------------------------- MODULE PairedBatch -----------------------------
(***************************************************************************)
(* scripts/compare_pytorch_onnx_batch.py ("torch") and                     *)
(* scripts/compare_python_cpp_onnx_batch.py ("cpp"): two backends on every *)
(* image of a directory, one image after the other.                        *)
(***************************************************************************)
EXTENDS DetectionMatching

CONSTANTS
    PairedStem,     \* the stem of the name of each image
    PairedLists,    \* what a backend may find on an image
    FailOnWarning,  \* --fail-on-warning, of the first program
    NoFile

ASSUME ShotsAreNamed == PairedStem \in Seq(STRING)
ASSUME PairedListsAreRead == PairedLists \subseteq Seq(Detections)

VARIABLES
    pair,           \* which of the two programs runs
    step,           \* where run_batch is
    at,             \* the image of this round
    answers,        \* what the two runners returned for it
    imageResults, timingRows,
    perImage,       \* the JSON of the comparison by stem
    copied,         \* the failure cases
    valid,          \* speed_comparison_validity: both backends used the GPU
    closing         \* summary and exit code

pairedVars == <<pair, step, at, answers, imageResults, timingRows, perImage,
                copied, valid, closing>>

Shots == DOMAIN PairedStem

PairedInit ==
    /\ pair \in {"torch", "cpp"}
    /\ step = "models" /\ at = 1
    /\ answers = <<>>
    /\ imageResults = <<>> /\ timingRows = <<>>
    /\ perImage = [s \in Range(PairedStem) |-> NoFile]
    /\ copied = {}
    /\ valid = FALSE
    /\ closing = NoFile

\* The models are loaded and, in the first program, warmed up: a failure is exit
\* code 2 there and an exception in the other.
BuildRunners ==
    /\ step = "models"
    /\ \/ /\ step' = "infer" /\ valid' \in BOOLEAN /\ UNCHANGED closing
       \/ /\ step' = "died" /\ closing' = [exit |-> IF pair = "torch" THEN 2 ELSE 1]
          /\ UNCHANGED valid
    /\ UNCHANGED <<pair, at, answers, imageResults, timingRows, perImage, copied>>

\* The runners, one after the other, each of which may raise.
RunBackends ==
    /\ step = "infer" /\ at \in Shots
    /\ \/ /\ answers' \in PairedLists \X PairedLists
          /\ step' = "compare"
       \/ /\ answers' = <<>>
          /\ step' = "rescue"
    /\ UNCHANGED <<pair, at, imageResults, timingRows, perImage, copied, valid, closing>>

Compared == IF pair = "torch" THEN CompareDetectionSets(answers[1], answers[2])
                              ELSE CompareResults(answers[1], answers[2])

\* The result of an image, and the images of its timing rows.
ResultRow(status, worst) ==
    [image |-> at, status |-> status, worst |-> worst,
     timed |-> IF status = "ERROR" THEN {} ELSE {at}]

Measured == ResultRow(Compared.status, Compared.worst)
Failed == ResultRow("ERROR", <<>>)

\* The first program counts the timings before it writes the files of the image:
\* if that fails the image is an error, and its timings stay.
CompareAndSave ==
    /\ step = "compare" /\ pair = "torch"
    /\ timingRows' = Append(timingRows, at)
    /\ \/ /\ perImage' = [perImage EXCEPT ![PairedStem[at]] = Measured]
          /\ imageResults' = Append(imageResults, Measured)
          /\ at' = at + 1 /\ step' = "infer"
       \/ step' = "rescue" /\ UNCHANGED <<at, imageResults, perImage>>
    /\ UNCHANGED <<pair, answers, copied, valid, closing>>

\* Mutated form of ErrorRow: a failed image is left out of the results.
ErrorRowSkipped(results) == results

\* The results with an error for this image.
ErrorRow(results) == Append(results, Failed)

\* The handler writes the JSON after it has noted the error; an exception of it
\* ends the program.
Rescued ==
    /\ step = "rescue" /\ pair = "torch"
    /\ imageResults' = ErrorRow(imageResults)
    /\ \/ /\ perImage' = [perImage EXCEPT ![PairedStem[at]] = Failed]
          /\ at' = at + 1 /\ step' = "infer" /\ UNCHANGED closing
       \/ /\ step' = "died" /\ closing' = [exit |-> 1]
          /\ UNCHANGED <<at, perImage>>
    /\ UNCHANGED <<pair, answers, timingRows, copied, valid>>

\* should_copy_failure_case
ShouldCopy(status) == status \in {"FAIL", "ERROR", "WARNING"}

\* The second program notes the result or the error of the image, then writes:
\* an exception of these writes ends the program.
NoteAndSave ==
    /\ step \in {"compare", "rescue"} /\ pair = "cpp"
    /\ \E row \in IF step = "rescue" THEN {Failed} ELSE {Failed, Measured} :
        /\ imageResults' = Append(imageResults, row)
        /\ timingRows' = IF row.timed = {} THEN timingRows ELSE Append(timingRows, at)
        /\ \/ /\ perImage' = [perImage EXCEPT ![PairedStem[at]] = row]
              /\ copied' = IF ShouldCopy(row.status) THEN copied \cup {at} ELSE copied
              /\ at' = at + 1 /\ step' = "infer" /\ UNCHANGED closing
           \/ /\ perImage' \in {perImage, [perImage EXCEPT ![PairedStem[at]] = row]}
              /\ step' = "died" /\ closing' = [exit |-> 1]
              /\ UNCHANGED <<at, copied>>
    /\ UNCHANGED <<pair, answers, valid>>

Statuses == {row.status : row \in Range(imageResults)}

WorstStatus ==
    IF "ERROR" \in Statuses THEN "ERROR"
    ELSE IF "FAIL" \in Statuses THEN "FAIL"
    ELSE IF "WARNING" \in Statuses THEN "WARNING" ELSE "PASS"

\* accuracy_comparison_valid, from the totals of the processed images.
AccuracyValid ==
    LET processed == {row \in Range(imageResults) : row.status # "ERROR"}
    IN  /\ \A row \in processed : row.status # "FAIL"
        /\ \A row \in processed : row.worst.confidence <= 10 /\ row.worst.iou >= 990
        /\ "ERROR" \notin Statuses

SpeedValid == valid /\ "ERROR" \notin Statuses

ExitCode(status) ==
    IF pair = "torch"
    THEN IF status = "PASS" \/ (status = "WARNING" /\ ~FailOnWarning) THEN 0 ELSE 1
    ELSE CASE status = "PASS" -> 0
           [] status = "WARNING" -> 1
           [] OTHER -> 2

\* The summary; the rows of the timing files are those of the results.
FinishBatch ==
    /\ step = "infer" /\ at \notin Shots
    /\ LET status == IF pair = "torch" /\ WorstStatus = "PASS" /\ ~SpeedValid
                     THEN "WARNING" ELSE WorstStatus
       IN  closing' = [status |-> status, exit |-> ExitCode(status),
                       accurate |-> AccuracyValid, speed |-> SpeedValid,
                       statistics |-> timingRows,
                       timed |-> UNION {row.timed : row \in Range(imageResults)}]
    /\ step' = "done"
    /\ UNCHANGED <<pair, at, answers, imageResults, timingRows, perImage, copied, valid>>

\* The summary or the CSV of the images cannot be written.
FinishFails ==
    /\ step = "infer" /\ at \notin Shots
    /\ step' = "died" /\ closing' = [exit |-> 1]
    /\ UNCHANGED <<pair, at, answers, imageResults, timingRows, perImage, copied, valid>>

PairedNext ==
    BuildRunners \/ RunBackends \/ CompareAndSave \/ Rescued \/ NoteAndSave \/ FinishBatch
        \/ FinishFails

-----------------------------------------------------------------------------
\* Whatever raises, an image that is through has exactly one result, in the order
\* of the images, and the JSON of its stem is that of the last such image.
EveryShotHasResult ==
    step \in {"infer", "done"} =>
        /\ [k \in DOMAIN imageResults |-> imageResults[k].image] = [k \in 1 .. at - 1 |-> k]
        /\ \A k \in 1 .. at - 1 :
               LET last == Max({j \in 1 .. at - 1 : PairedStem[j] = PairedStem[k]})
               IN  perImage[PairedStem[k]] = imageResults[last]

\* Exit code 0 means that no image failed or raised, and in the second program
\* that none differed at all.
SuccessMeansAgreement ==
    step = "done" /\ closing.exit = 0 =>
        /\ Statuses \cap {"FAIL", "ERROR"} = {}
        /\ pair = "cpp" \/ FailOnWarning => Statuses \subseteq {"PASS"}

\* accuracy_comparison_valid, computed from totals over all images, says what
\* the verdicts on the single images say; and a speed is only compared if every
\* image was measured.
AccuracyAgrees ==
    step = "done" /\ pair = "torch" =>
        /\ closing.accurate <=> Statuses \subseteq {"PASS"}
        /\ closing.speed => closing.timed = Range(closing.statistics)

\* The statistics are computed from the images in the timing file, each once and
\* in their order; in the first program also from images that became errors when
\* their files could not be written.
TimingsAreOfResults ==
    step = "done" =>
        /\ \A j, k \in DOMAIN closing.statistics :
               j < k => closing.statistics[j] < closing.statistics[k]
        /\ closing.timed \subseteq Range(closing.statistics)
        /\ \A i \in Range(closing.statistics) :
               imageResults[i].status # "ERROR" <=> i \in closing.timed
        /\ pair = "cpp" => closing.timed = Range(closing.statistics)

\* Every image that differed or failed is kept as a failure case.
FailureCasesKept ==
    step = "done" /\ pair = "cpp" =>
        copied = {row.image : row \in {r \in Range(imageResults) : r.status # "PASS"}}

\* What a batch leaves tells what was measured: the results, files, statistics
\* and failure cases of all images, and the exit code.
BatchTellsResults ==
    /\ EveryShotHasResult /\ SuccessMeansAgreement /\ AccuracyAgrees
    /\ TimingsAreOfResults /\ FailureCasesKept
=============================================================================
