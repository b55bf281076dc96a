------------------------------ MODULE VlmBatch ------------------------------
(***************************************************************************)
(* scripts/run_vlm_test_batch.py: detection, and for images with defects a *)
(* description, over the images of a directory, one after the other; each  *)
(* image is saved before the next one is begun.                            *)
(*                                                                         *)
(* The detector and the VLM service are asked here and modelled by what    *)
(* they tell; a file that is written may fail to be.  The options          *)
(* --continue-on-error and --save-raw-response-on-failure are always true. *)
(***************************************************************************)
EXTENDS Naturals, FiniteSets, Sequences, SequencesExt

CONSTANTS
    Stem,       \* _safe_json_stem of the image at each position
    Threshold,  \* --vlm-circuit-breaker-threshold
    Unwritten   \* the content of a file that does not exist

ASSUME StemsAreListed == Stem \in Seq(STRING)
ASSUME ThresholdIsCounted == Threshold \in Nat

VARIABLES
    pc,         \* where main() is
    index,      \* the image of this round of the loop
    found,      \* what the detector found in it, "none" before it answered
    told,       \* the locals copied from the service for this image
    service,    \* the attributes last_* of the service, and whose they are
    streak,     \* consecutive_zero_value_fallbacks
    breaker,    \* vlm_circuit_breaker_open
    rows, summaries, failures,
    json, raw,  \* the files in results/ and raw_responses/ by stem
    csv,        \* the rows the CSV file holds
    summary     \* batch_summary.json

vars == <<pc, index, found, told, service, streak, breaker, rows, summaries,
          failures, json, raw, csv, summary>>
image == <<index, found, told>>
model == <<service, streak, breaker>>

Images == DOMAIN Stem
Stems == {Stem[i] : i \in Images}

\* What a call of describe_defects leaves in last_*: the answer or, after the
\* last retry, the fallback text.
Told(of, status, fallback) == [of |-> of, vlm |-> status, fallback |-> fallback]
Answers ==
    {<<"success", FALSE>>, <<"retry_success", FALSE>>,
     <<"done_false", TRUE>>, <<"timeout", TRUE>>}
NotRun(of) == Told(of, "not_run", FALSE)
Tripped == Told(0, "circuit_breaker_open", TRUE)

ResultToRow(status, record) ==
    [image |-> index, status |-> status, yolo |-> found # "none",
     judgment |-> IF found = "NG" THEN "NG" ELSE "OK",
     of |-> record.of, vlm |-> record.vlm, fallback |-> record.fallback]

Init ==
    /\ pc = "detect"
    /\ index = 1
    /\ found = "none"
    /\ told = NotRun(0)
    /\ service = NotRun(0)
    /\ streak = 0
    /\ breaker = FALSE
    /\ rows = <<>> /\ summaries = <<>> /\ failures = <<>>
    /\ json = [s \in Stems |-> Unwritten]
    /\ raw = [s \in Stems |-> Unwritten]
    /\ csv = <<>>
    /\ summary = Unwritten

\* Mutated form of Asked: the breaker does not keep the service from being asked.
AskedAlways == TRUE

\* Whether an image with defects is described.
Asked == ~breaker

\* The detector finds defects or none, or raises.  Without defects, or with
\* the breaker open, the service is not asked.
Detect ==
    /\ pc = "detect" /\ index \in Images
    /\ \/ /\ found' = "OK" /\ told' = NotRun(0)
          /\ pc' = "save"
       \/ /\ found' = "NG"
          /\ told' = IF Asked THEN NotRun(0) ELSE Tripped
          /\ pc' = IF Asked THEN "describe" ELSE "save"
       \/ /\ found' = "none" /\ told' = NotRun(0)
          /\ pc' = "rescue"
    /\ UNCHANGED <<index, model, rows, summaries, failures, json, raw, csv, summary>>

\* consecutive_zero_value_fallbacks after this answer.
Streak(answer) == IF answer[1] = "done_false" THEN streak + 1 ELSE 0

\* Mutated form of DescribeRaises: the record is reset only by an answer.
DescribeRaisesOnRecord ==
    /\ pc = "describe" /\ pc' = "rescue"
    /\ UNCHANGED <<service, told, streak, breaker>>

\* The images of the request cannot be prepared.
DescribeRaises ==
    /\ pc = "describe" /\ pc' = "rescue"
    /\ service' = NotRun(index)
    /\ UNCHANGED <<told, streak, breaker>>

DescribeAnswers(answer) ==
    /\ pc = "describe" /\ pc' = "save"
    /\ service' = Told(index, answer[1], answer[2])
    /\ told' = service'
    /\ streak' = Streak(answer)
    /\ breaker' = (breaker \/ (Threshold > 0 /\ streak' >= Threshold))

Describe ==
    /\ DescribeRaises \/ \E answer \in Answers : DescribeAnswers(answer)
    /\ UNCHANGED <<index, found, rows, summaries, failures, json, raw, csv, summary>>

\* write_image_result_json
JsonWith(row) == [json EXCEPT ![Stem[index]] = row]

\* The files of a row in the order they are written, of which the first done
\* succeed: the result, with a fallback or a failure the diagnosis of the
\* service's last call, and the CSV, which is opened with "w".
Write(row, diagnosis, done) ==
    /\ rows' = Append(rows, row)
    /\ json' = IF done >= 1 THEN JsonWith(row) ELSE json
    /\ raw' = IF done >= 2 /\ diagnosis THEN [raw EXCEPT ![Stem[index]] = service.of]
                                        ELSE raw
    /\ IF done = 3
       THEN csv' = rows' /\ summaries' = Append(summaries, row)
       ELSE csv' \in {csv} \cup (IF done = 2 THEN {Unwritten} ELSE {})
            /\ UNCHANGED summaries

\* With all files written the next image begins; a failure is the image's.
Saved(done) ==
    IF done = 3 THEN index' = index + 1 /\ pc' = "detect"
                ELSE index' = index /\ pc' = "rescue"

Save ==
    /\ pc = "save"
    /\ \E done \in 0 .. 3 :
           Write(ResultToRow("success", told), told.fallback, done) /\ Saved(done)
    /\ UNCHANGED <<found, told, model, failures, summary>>

\* What the handler copies from the service, called for this image or not.
Left == IF found = "none" THEN [service EXCEPT !.vlm = "not_run"] ELSE service

\* An exception in the handler ends the program.
Rescued(done) ==
    IF done = 3 THEN pc' = "detect" /\ index' = index + 1
                ELSE pc' = "died" /\ index' = index

Rescue ==
    /\ pc = "rescue"
    /\ failures' = Append(failures, index)
    /\ \E done \in 0 .. 3 :
           Write(ResultToRow("error", Left), TRUE, done) /\ Rescued(done)
    /\ UNCHANGED <<found, told, model, summary>>

Failed(row) == row.status # "success"

\* _build_batch_summary and the exit code.
BuildBatchSummary ==
    LET Count(Test(_)) == Len(SelectSeq(rows, Test))
    IN  [total |-> Len(rows), failed |-> Count(Failed),
         ok |-> Count(LAMBDA row : row.judgment = "OK"),
         fallback |-> Count(LAMBDA row : row.fallback),
         images |-> summaries, failedImages |-> failures,
         exit |-> IF Count(Failed) = 0 THEN 0 ELSE 1]

Finish ==
    /\ pc = "detect" /\ index \notin Images
    /\ csv' = rows /\ summary' = BuildBatchSummary
    /\ pc' = "done"
    /\ UNCHANGED <<image, model, rows, summaries, failures, json, raw>>

\* One of the last three files cannot be written.
FinishFails ==
    /\ pc = "detect" /\ index \notin Images
    /\ csv' \in {csv, rows, Unwritten} /\ summary' \in {summary, BuildBatchSummary}
    /\ pc' = "died"
    /\ UNCHANGED <<image, model, rows, summaries, failures, json, raw>>

Next == Detect \/ Describe \/ Save \/ Rescue \/ Finish \/ FinishFails

Spec == Init /\ [][Next]_vars

-----------------------------------------------------------------------------
RowsOf(i) == {k \in DOMAIN rows : rows[k].image = i}

\* The row at k is the last one of image i.
EndsAt(i, k) == k \in RowsOf(i) /\ \A m \in RowsOf(i) : m <= k

\* The variables hold values of their types.
BatchTypeOK ==
    /\ pc \in {"detect", "describe", "save", "rescue", "died", "done"}
    /\ index \in 1 .. Len(Stem) + 1
    /\ found \in {"none", "OK", "NG"}
    /\ service.of \in 0 .. Len(Stem)
    /\ streak \in 0 .. Len(Stem) /\ (Threshold > 0 => streak <= Threshold)
    /\ Len(rows) \in 0 .. 2 * Len(Stem)
    /\ \A s \in Stems : json[s] = Unwritten \/ json[s] \in Range(rows)

\* Whatever fails, a batch that ends has one summary for every image, in their
\* order; an image has a second row only if saving its success failed, right
\* after that one, and it is listed as failed exactly when its last row says so.
EveryImageAccounted ==
    pc = "done" =>
        /\ Len(summaries) = Len(Stem)
        /\ \A i \in Images :
               /\ summaries[i].image = i
               /\ \E k \in RowsOf(i) : EndsAt(i, k) /\ (Contains(failures, i) <=> Failed(rows[k]))
               /\ \A k, m \in RowsOf(i) :
                      k < m => m = k + 1 /\ ~Failed(rows[k]) /\ Failed(rows[m])

\* The rows of all images that are through are in the CSV before the next one
\* begins, whatever happened to them: main() saves each image at once.
CsvHoldsAll == pc \in {"detect", "describe", "done"} => csv = rows

\* The result file of an image is its own last row.
HasLastRow(i) == \E k \in RowsOf(i) : EndsAt(i, k) /\ json[Stem[i]] = rows[k]

\* The result file of an image that is through is its own last row, unless a
\* later image has the same stem.
ResultKept ==
    pc = "detect" =>
        \A i \in 1 .. index - 1 :
            \E j \in i .. index - 1 : Stem[j] = Stem[i] /\ HasLastRow(j)

\* The rows of the answers that the service gave, and those among them from one
\* row to another.
Answered == {k \in DOMAIN rows : ~Failed(rows[k]) /\ rows[k].of # 0}
AnsweredIn(lo, hi) == {k \in Answered : lo <= k /\ k <= hi}

\* So many of them in a row were done_false fallbacks.
ZeroRun(lo, hi) ==
    /\ Cardinality(AnsweredIn(lo, hi)) >= Threshold
    /\ \A k \in AnsweredIn(lo, hi) : rows[k].vlm = "done_false"

\* Once the rows tell of the last answer, the breaker is open exactly when
\* that many answers in a row, of those the service gave, were done_false
\* fallbacks; images the service was not asked about, and exceptions, are
\* neither counted nor do they break the row.
BreakerJustified ==
    pc # "save" =>
        (breaker <=> Threshold > 0 /\ \E lo, hi \in DOMAIN rows : ZeroRun(lo, hi))

\* Once the breaker is open the service is never called again.
BreakerIsFinal == [][breaker => UNCHANGED service]_vars

\* A row tells of another image's call only if it is an error row and the
\* service was not called for its own image: that had no defects, or the breaker
\* was open.
StaleOnlyUncalled ==
    \A k \in DOMAIN rows :
        LET row == rows[k]
        IN  row.of \notin {0, row.image} =>
                /\ Failed(row)
                /\ row.judgment = "NG" => breaker
                /\ \A j \in DOMAIN rows : rows[j].image = row.image => rows[j].of # row.image

\* The accounts of the batch are complete and each row is of its own image.
AccountsAreComplete ==
    BatchTypeOK /\ EveryImageAccounted /\ CsvHoldsAll /\ ResultKept /\ StaleOnlyUncalled

\* The breaker opens when it should, and for good.
BreakerHolds == []BreakerJustified /\ BreakerIsFinal
=============================================================================
