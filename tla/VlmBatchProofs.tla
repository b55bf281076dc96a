--------------------------- MODULE VlmBatchProofs ---------------------------
(***************************************************************************)
(* Proofs about the batch of descriptions, for every list of images and    *)
(* every threshold of the breaker: the accounts are complete, and the      *)
(* breaker opens when it should and for good.                              *)
(***************************************************************************)
EXTENDS VlmBatch, FiniteSetTheorems, TLAPS

-----------------------------------------------------------------------------
(* The inductive invariant, in parts.                                      *)

Outcomes ==
  {"not_run", "circuit_breaker_open", "success", "retry_success", "done_false", "timeout"}
Record == [of : Nat, vlm : Outcomes, fallback : BOOLEAN]
Row ==
  [image : Nat, status : {"success", "error"}, yolo : BOOLEAN, judgment : {"OK", "NG"},
   of : Nat, vlm : Outcomes, fallback : BOOLEAN]

Working == {"describe", "save", "rescue"}

BatchTypes ==
  /\ pc \in {"detect", "died", "done"} \cup Working
  /\ index \in 1 .. Len(Stem) + 1
  /\ found \in {"none", "OK", "NG"}
  /\ told \in Record /\ service \in Record
  /\ breaker \in BOOLEAN /\ streak \in Nat
  /\ rows \in Seq(Row) /\ summaries \in Seq(Row) /\ failures \in Seq(Nat)
  /\ DOMAIN json = Stems

\* What main() holds while it works on an image: the record of this image's call or of
\* none, and of a call that was due it knows that it was made.
RoundInv ==
  /\ pc \in Working => index \in Images
  /\ pc = "done" => index \notin Images
  /\ service.of <= Len(Stem)
  /\ pc \in Working => told.of \in {0, index} /\ (told.of = index => service.of = index)
  /\ pc = "describe" => breaker = FALSE
  /\ pc \in {"save", "rescue"} /\ found = "NG" => breaker = TRUE \/ service.of = index

\* The rows are those of the images in turn, at most a success and an error for each.
RowsInv ==
  /\ \A k \in DOMAIN rows :
       /\ rows[k].image \in 1 .. index
       /\ rows[k].image = index => pc \in {"rescue", "died"}
       /\ rows[k].image = index /\ pc = "rescue" => k = Len(rows) /\ ~Failed(rows[k])
  /\ \A k, m \in DOMAIN rows :
       rows[k].image = rows[m].image /\ k < m =>
         m = k + 1 /\ ~Failed(rows[k]) /\ Failed(rows[m])
  /\ pc = "rescue" => Len(rows) < 2 * index
  /\ pc \notin {"rescue", "died"} => Len(rows) <= 2 * (index - 1)
  /\ pc = "died" => Len(rows) <= 2 * Len(Stem)

\* The summaries and the failures are those of the images that are through.
ListsInv ==
  /\ Len(summaries) = index - 1
  /\ \A i \in 1 .. index - 1 : summaries[i].image = i
  /\ \A k \in DOMAIN failures :
       failures[k] \in 1 .. index /\ (failures[k] = index => pc = "died")
  /\ \A i \in 1 .. index - 1 :
       \E k \in RowsOf(i) : EndsAt(i, k) /\ (Contains(failures, i) <=> Failed(rows[k]))

\* The files hold what the rows say; the result of an image that is not through may have
\* taken the place of another one's.
FilesInv ==
  /\ pc \in {"detect", "describe", "done"} => csv = rows
  /\ \A s \in Stems : json[s] = Unwritten \/ \E k \in DOMAIN rows : json[s] = rows[k]
  /\ \A i \in 1 .. index - 1 :
       \/ \E j \in i .. index - 1 : Stem[j] = Stem[i] /\ HasLastRow(j)
       \/ pc \in {"rescue", "died"} /\ index \in Images /\ Stem[i] = Stem[index]

\* A row of an image that is not through tells of its own call, if of any.
StaleInv ==
  /\ StaleOnlyUncalled
  /\ pc = "rescue" =>
       \A k \in DOMAIN rows :
         rows[k].image = index =>
           rows[k].of \in {0, index} /\ (rows[k].of = index => service.of = index)

\* The answer that no row tells of yet.
Pending == pc = "save" /\ told.of # 0

\* The answers since the row p, all of them done_false.
Since(p) == {k \in Answered : p < k}
StreakFrom(p) ==
  /\ p = 0 \/ (p \in Answered /\ rows[p].vlm # "done_false")
  /\ \A k \in Since(p) : rows[k].vlm = "done_false"
  /\ ~Pending => streak = Cardinality(Since(p))
  /\ Pending /\ told.vlm = "done_false" => streak = Cardinality(Since(p)) + 1
  /\ Pending /\ told.vlm # "done_false" => streak = 0

\* The streak counts the last answers, and the breaker knows of every run of them.
BreakerInv ==
  /\ \E p \in 0 .. Len(rows) : StreakFrom(p)
  /\ streak <= index /\ (streak = index => pc \in {"save", "rescue", "died"} /\ index \in Images)
  /\ Threshold > 0 => streak <= Threshold
  /\ breaker = FALSE /\ Threshold > 0 =>
       streak < Threshold /\ \A lo, hi \in DOMAIN rows : ~ZeroRun(lo, hi)
  /\ breaker = TRUE =>
       /\ Threshold > 0
       /\ \/ \E lo, hi \in DOMAIN rows : ZeroRun(lo, hi)
          \/ Pending /\ told.vlm = "done_false" /\ streak >= Threshold

BatchInv ==
  BatchTypes /\ RoundInv /\ RowsInv /\ ListsInv /\ FilesInv /\ StaleInv /\ BreakerInv

-----------------------------------------------------------------------------
(* What the steps do.                                                      *)

\* A row is of this image and tells what the record does.
LEMMA RowFacts ==
  ASSUME BatchTypes, NEW status \in {"success", "error"}, NEW r \in Record
  PROVE  LET row == ResultToRow(status, r)
         IN  /\ row \in Row /\ row.image = index /\ row.status = status
             /\ row.of = r.of /\ row.vlm = r.vlm
             /\ row.judgment = "NG" => found = "NG"
  <1>. DEFINE row == ResultToRow(status, r)
              yolo == found # "none"
              judgment == IF found = "NG" THEN "NG" ELSE "OK"
  <1>1. index \in Nat
    BY StemsAreListed DEF BatchTypes
  <1>2. yolo \in BOOLEAN /\ judgment \in {"OK", "NG"}
    OBVIOUS
  <1>3. r.of \in Nat /\ r.vlm \in Outcomes /\ r.fallback \in BOOLEAN
    BY DEF Record
  <1>4. row = [image |-> index, status |-> status, yolo |-> yolo, judgment |-> judgment,
               of |-> r.of, vlm |-> r.vlm, fallback |-> r.fallback]
    BY DEF ResultToRow
  <1>5. judgment = "NG" => found = "NG"
    OBVIOUS
  <1>. HIDE DEF row, yolo, judgment
  <1>6. row \in Row
    BY <1>1, <1>2, <1>3, <1>4 DEF Row
  <1>7. /\ row.image = index /\ row.status = status
        /\ row.of = r.of /\ row.vlm = r.vlm /\ row.judgment = judgment
    BY <1>4
  <1>. QED
    BY <1>5, <1>6, <1>7 DEF row

\* What a row more changes.
LEMMA RowAdded ==
  ASSUME BatchTypes, NEW row \in Row, rows' = Append(rows, row)
  PROVE  /\ rows' \in Seq(Row) /\ Len(rows) \in Nat /\ Len(rows') = Len(rows) + 1
         /\ DOMAIN rows = 1 .. Len(rows) /\ DOMAIN rows' = 1 .. Len(rows) + 1
         /\ \A k \in DOMAIN rows : rows'[k] = rows[k]
         /\ rows'[Len(rows) + 1] = row
  BY DEF BatchTypes

\* The image is through, and main() goes on to the next; or a file could not be written.
Through(row) ==
  /\ json' = JsonWith(row) /\ csv' = rows' /\ summaries' = Append(summaries, row)
  /\ index' = index + 1 /\ pc' = "detect"
Short(row, next) ==
  /\ json' = json \/ json' = JsonWith(row)
  /\ summaries' = summaries /\ index' = index /\ pc' = next

Saves(row) ==
  /\ pc = "save"
  /\ row \in Row /\ row.image = index /\ ~Failed(row)
  /\ row.of = told.of /\ row.vlm = told.vlm
  /\ rows' = Append(rows, row)
  /\ Through(row) \/ Short(row, "rescue")
  /\ UNCHANGED <<found, told, service, streak, breaker, failures>>

Rescues(row) ==
  /\ pc = "rescue"
  /\ row \in Row /\ row.image = index /\ Failed(row)
  /\ row.of = service.of /\ (row.judgment = "NG" => found = "NG")
  /\ rows' = Append(rows, row)
  /\ Through(row) \/ Short(row, "died")
  /\ failures' = Append(failures, index)
  /\ UNCHANGED <<found, told, service, streak, breaker>>

LEMMA SaveSteps == BatchTypes /\ Save => \E row : Saves(row)
  <1>. SUFFICES ASSUME BatchTypes, Save PROVE \E row : Saves(row)
    OBVIOUS
  <1>. DEFINE row == ResultToRow("success", told)
  <1>1. PICK done \in 0 .. 3 : Write(row, told.fallback, done) /\ Saved(done)
    BY DEF Save
  <1>2. /\ row \in Row /\ row.image = index /\ row.status = "success"
        /\ row.of = told.of /\ row.vlm = told.vlm
    <2>1. "success" \in {"success", "error"} /\ told \in Record
      BY DEF BatchTypes
    <2>. QED
      BY <2>1, RowFacts
  <1>3. ~Failed(row)
    BY <1>2 DEF Failed
  <1>4. pc = "save" /\ UNCHANGED <<found, told, service, streak, breaker, failures>>
    BY DEF Save, model
  <1>. HIDE DEF row
  <1>5. rows' = Append(rows, row)
    BY <1>1 DEF Write
  <1>6. Through(row) \/ Short(row, "rescue")
    <2>1. CASE done = 3
      BY <1>1, <2>1 DEF Write, Saved, Through
    <2>2. CASE done # 3
      BY <1>1, <2>2 DEF Write, Saved, Short
    <2>. QED
      BY <2>1, <2>2
  <1>. QED
    BY <1>2, <1>3, <1>4, <1>5, <1>6 DEF Saves

LEMMA RescueSteps == BatchTypes /\ Rescue => \E row : Rescues(row)
  <1>. SUFFICES ASSUME BatchTypes, Rescue PROVE \E row : Rescues(row)
    OBVIOUS
  <1>. DEFINE row == ResultToRow("error", Left)
  <1>1. PICK done \in 0 .. 3 : Write(row, TRUE, done) /\ Rescued(done)
    BY DEF Rescue
  <1>2. Left \in Record /\ Left.of = service.of
    <2>1. service \in Record
      BY DEF BatchTypes
    <2>2. [service EXCEPT !.vlm = "not_run"] \in Record
      BY <2>1 DEF Record, Outcomes
    <2>3. [service EXCEPT !.vlm = "not_run"].of = service.of
      BY <2>1 DEF Record
    <2>. QED
      BY <2>1, <2>2, <2>3 DEF Left
  <1>3. /\ row \in Row /\ row.image = index /\ row.status = "error"
        /\ row.of = service.of /\ (row.judgment = "NG" => found = "NG")
    <2>1. "error" \in {"success", "error"}
      OBVIOUS
    <2>. QED
      BY <1>2, <2>1, RowFacts
  <1>4. Failed(row)
    BY <1>3 DEF Failed
  <1>5. /\ pc = "rescue" /\ failures' = Append(failures, index)
        /\ UNCHANGED <<found, told, service, streak, breaker>>
    BY DEF Rescue, model
  <1>. HIDE DEF row
  <1>6. rows' = Append(rows, row)
    BY <1>1 DEF Write
  <1>7. Through(row) \/ Short(row, "died")
    <2>1. CASE done = 3
      BY <1>1, <2>1 DEF Write, Rescued, Through
    <2>2. CASE done # 3
      BY <1>1, <2>2 DEF Write, Rescued, Short
    <2>. QED
      BY <2>1, <2>2
  <1>. QED
    BY <1>3, <1>4, <1>5, <1>6, <1>7 DEF Rescues

\* The images are numbered.
LEMMA ImagesNumbered == Images = 1 .. Len(Stem) /\ Len(Stem) \in Nat
  BY StemsAreListed DEF Images

LEMMA RecordsAreRecords ==
  /\ NotRun(0) \in Record /\ NotRun(0).of = 0 /\ Tripped \in Record /\ Tripped.of = 0
  /\ \A i \in Nat : NotRun(i) \in Record /\ NotRun(i).of = i
  /\ \A i \in Nat : \A a \in Answers :
       /\ Told(i, a[1], a[2]) \in Record
       /\ Told(i, a[1], a[2]).of = i /\ Told(i, a[1], a[2]).vlm = a[1]
  <1>1. /\ NotRun(0) \in Record /\ NotRun(0).of = 0 /\ Tripped \in Record /\ Tripped.of = 0
    BY DEF NotRun, Tripped, Told, Record, Outcomes
  <1>2. \A i \in Nat : NotRun(i) \in Record /\ NotRun(i).of = i
    BY DEF NotRun, Told, Record, Outcomes
  <1>3. ASSUME NEW i \in Nat, NEW a \in Answers
        PROVE  /\ Told(i, a[1], a[2]) \in Record
               /\ Told(i, a[1], a[2]).of = i /\ Told(i, a[1], a[2]).vlm = a[1]
    <2>1. a[1] \in Outcomes /\ a[2] \in BOOLEAN
      <3>1. \/ a = <<"success", FALSE>> \/ a = <<"retry_success", FALSE>>
            \/ a = <<"done_false", TRUE>> \/ a = <<"timeout", TRUE>>
        BY DEF Answers
      <3>2. PICK v, f : a = <<v, f>> /\ v \in Outcomes /\ f \in BOOLEAN
        <4>1. CASE a = <<"success", FALSE>>
          <5>1. "success" \in Outcomes /\ FALSE \in BOOLEAN
            BY DEF Outcomes
          <5>. QED
            BY <4>1, <5>1, Zenon
        <4>2. CASE a = <<"retry_success", FALSE>>
          <5>1. "retry_success" \in Outcomes /\ FALSE \in BOOLEAN
            BY DEF Outcomes
          <5>. QED
            BY <4>2, <5>1, Zenon
        <4>3. CASE a = <<"done_false", TRUE>>
          <5>1. "done_false" \in Outcomes /\ TRUE \in BOOLEAN
            BY DEF Outcomes
          <5>. QED
            BY <4>3, <5>1, Zenon
        <4>4. CASE a = <<"timeout", TRUE>>
          <5>1. "timeout" \in Outcomes /\ TRUE \in BOOLEAN
            BY DEF Outcomes
          <5>. QED
            BY <4>4, <5>1, Zenon
        <4>. QED
          BY <3>1, <4>1, <4>2, <4>3, <4>4
      <3>. QED
        BY <3>2
    <2>. QED
      BY <2>1 DEF Told, Record
  <1>. QED
    BY <1>1, <1>2, <1>3

-----------------------------------------------------------------------------
(* Types, and the round of one image.                                      *)

LEMMA StepTypes == BatchTypes /\ RoundInv /\ [Next]_vars => BatchTypes'
  <1>. SUFFICES ASSUME BatchTypes, RoundInv, [Next]_vars PROVE BatchTypes'
    OBVIOUS
  <1>0. index \in Nat /\ Len(Stem) \in Nat
    BY ImagesNumbered DEF BatchTypes
  <1>1. CASE Detect
    <2>1. /\ pc' \in {"save", "describe", "rescue"} /\ found' \in {"none", "OK", "NG"}
          /\ told' = NotRun(0) \/ told' = Tripped
      BY <1>1 DEF Detect
    <2>2. UNCHANGED <<index, service, streak, breaker, rows, summaries, failures, json>>
      BY <1>1 DEF Detect, model
    <2>. QED
      BY <2>1, <2>2, RecordsAreRecords DEF BatchTypes, Working
  <1>2. CASE Describe
    <2>1. UNCHANGED <<index, found, rows, summaries, failures, json>>
      BY <1>2 DEF Describe
    <2>2. CASE DescribeRaises
      <3>1. /\ pc' = "rescue" /\ service' = NotRun(index)
            /\ UNCHANGED <<told, streak, breaker>>
        BY <2>2 DEF DescribeRaises
      <3>. QED
        BY <1>0, <2>1, <3>1, RecordsAreRecords DEF BatchTypes, Working
    <2>3. ASSUME NEW a \in Answers, DescribeAnswers(a) PROVE BatchTypes'
      <3>1. /\ pc' = "save" /\ service' \in Record /\ told' \in Record
        BY <1>0, <2>3, RecordsAreRecords DEF DescribeAnswers
      <3>2. streak' \in Nat
        BY <2>3 DEF DescribeAnswers, Streak, BatchTypes
      <3>3. breaker' \in BOOLEAN
        BY <2>3 DEF DescribeAnswers
      <3>. QED
        BY <2>1, <3>1, <3>2, <3>3 DEF BatchTypes, Working
    <2>. QED
      BY <1>2, <2>2, <2>3 DEF Describe
  <1>3. ASSUME NEW row, Saves(row) \/ Rescues(row) PROVE BatchTypes'
    <2>1. /\ row \in Row /\ rows' \in Seq(Row) /\ pc \in Working
          /\ UNCHANGED <<found, told, service, streak, breaker>>
      BY <1>3, RowAdded DEF Saves, Rescues, Working
    <2>2. failures' \in Seq(Nat)
      <3>1. failures \in Seq(Nat)
        BY DEF BatchTypes
      <3>2. Append(failures, index) \in Seq(Nat)
        BY <1>0, <3>1
      <3>. QED
        BY <1>3, <3>1, <3>2 DEF Saves, Rescues
    <2>3. Through(row) \/ Short(row, "rescue") \/ Short(row, "died")
      BY <1>3 DEF Saves, Rescues
    <2>4. DOMAIN json' = Stems
      BY <2>3 DEF Through, Short, JsonWith, BatchTypes
    <2>5. summaries' \in Seq(Row)
      <3>1. summaries \in Seq(Row)
        BY DEF BatchTypes
      <3>2. Append(summaries, row) \in Seq(Row)
        BY <2>1, <3>1
      <3>. QED
        BY <2>3, <3>1, <3>2 DEF Through, Short
    <2>6. index' \in 1 .. Len(Stem) + 1
      BY <1>0, <2>1, <2>3, ImagesNumbered DEF Through, Short, RoundInv, BatchTypes
    <2>7. pc' \in {"detect", "died", "rescue"}
      BY <2>3 DEF Through, Short
    <2>. QED
      BY <2>1, <2>2, <2>4, <2>5, <2>6, <2>7 DEF BatchTypes, Working
  <1>4. CASE Finish \/ FinishFails
    <2>1. /\ pc' \in {"done", "died"}
          /\ UNCHANGED <<index, found, told, service, streak, breaker, rows, summaries, failures,
                         json>>
      BY <1>4 DEF Finish, FinishFails, image, model
    <2>. QED
      BY <2>1 DEF BatchTypes
  <1>5. CASE UNCHANGED vars
    BY <1>5 DEF vars, BatchTypes
  <1>. QED
    BY <1>1, <1>2, <1>3, <1>4, <1>5, SaveSteps, RescueSteps DEF Next

LEMMA StepRound == BatchTypes /\ RoundInv /\ [Next]_vars => RoundInv'
  <1>. SUFFICES ASSUME BatchTypes, RoundInv, [Next]_vars PROVE RoundInv'
    OBVIOUS
  <1>0. index \in Nat /\ Len(Stem) \in Nat /\ Images' = Images
    BY ImagesNumbered DEF BatchTypes, Images
  <1>1. CASE Detect
    <2>1. /\ index \in Images /\ UNCHANGED <<index, service, breaker>>
      BY <1>1 DEF Detect, model
    <2>2. told'.of = 0 /\ pc' \in Working
      BY <1>1, RecordsAreRecords DEF Detect, Working
    <2>3. pc' = "describe" => breaker = FALSE
      BY <1>1 DEF Detect, Asked, BatchTypes
    <2>4. pc' \in {"save", "rescue"} /\ found' = "NG" => breaker = TRUE
      BY <1>1 DEF Detect, Asked, BatchTypes
    <2>. QED
      BY <1>0, <2>1, <2>2, <2>3, <2>4 DEF RoundInv, Working, BatchTypes, Record
  <1>2. CASE Describe
    <2>1. /\ pc = "describe" /\ UNCHANGED <<index, found>>
      BY <1>2 DEF Describe, DescribeRaises, DescribeAnswers
    <2>2. index \in Images /\ told.of \in {0, index}
      BY <2>1 DEF RoundInv, Working
    <2>3. /\ pc' \in {"save", "rescue"} /\ service'.of = index
          /\ told'.of \in {0, index}
      <3>1. CASE DescribeRaises
        BY <1>0, <2>2, <3>1, RecordsAreRecords DEF DescribeRaises
      <3>2. ASSUME NEW a \in Answers, DescribeAnswers(a)
            PROVE  pc' = "save" /\ service'.of = index /\ told'.of = index
        BY <1>0, <3>2, RecordsAreRecords DEF DescribeAnswers
      <3>. QED
        BY <1>2, <3>1, <3>2 DEF Describe
    <2>. QED
      BY <1>0, <2>1, <2>2, <2>3, ImagesNumbered DEF RoundInv, Working
  <1>3. ASSUME NEW row, Saves(row) \/ Rescues(row) PROVE RoundInv'
    <2>1. /\ pc \in {"save", "rescue"} /\ pc \in Working
          /\ UNCHANGED <<found, told, service, breaker>>
      BY <1>3 DEF Saves, Rescues, Working
    <2>2. pc' \in {"detect", "died"} \/ (pc' = "rescue" /\ index' = index)
      BY <1>3 DEF Saves, Rescues, Through, Short
    <2>. QED
      BY <1>0, <2>1, <2>2 DEF RoundInv, Working
  <1>4. CASE Finish \/ FinishFails
    <2>1. /\ pc' \in {"done", "died"} /\ index \notin Images
          /\ UNCHANGED <<index, found, told, service, breaker>>
      BY <1>4 DEF Finish, FinishFails, image, model
    <2>. QED
      BY <1>0, <2>1 DEF RoundInv, Working
  <1>5. CASE UNCHANGED vars
    BY <1>0, <1>5 DEF vars, RoundInv
  <1>. QED
    BY <1>1, <1>2, <1>3, <1>4, <1>5, SaveSteps, RescueSteps DEF Next

-----------------------------------------------------------------------------
(* The rows and the lists.                                                 *)

\* Every other step leaves the rows, the lists and the results alone.
Quiet ==
  /\ UNCHANGED <<index, rows, summaries, failures, json>>
  /\ \/ pc \in {"detect", "describe"} /\ pc' \in Working /\ index \in Images /\ csv' = csv
     \/ pc = "detect" /\ pc' = "died" /\ index \notin Images
     \/ pc = "detect" /\ pc' = "done" /\ index \notin Images /\ csv' = rows
     \/ UNCHANGED vars

LEMMA OtherSteps ==
  ASSUME BatchTypes, RoundInv, [Next]_vars, ~Save, ~Rescue
  PROVE  Quiet
  <1>1. CASE Detect
    BY <1>1 DEF Detect, Quiet, Working
  <1>2. CASE Describe
    <2>1. pc = "describe" /\ pc' \in {"save", "rescue"}
      BY <1>2 DEF Describe, DescribeRaises, DescribeAnswers
    <2>2. index \in Images
      BY <2>1 DEF RoundInv, Working
    <2>. QED
      BY <1>2, <2>1, <2>2 DEF Describe, Quiet, Working
  <1>3. CASE Finish \/ FinishFails
    BY <1>3 DEF Finish, FinishFails, image, Quiet
  <1>4. CASE UNCHANGED vars
    BY <1>4 DEF vars, Quiet
  <1>. QED
    BY <1>1, <1>2, <1>3, <1>4 DEF Next

LEMMA StepRows ==
  BatchTypes /\ RoundInv /\ RowsInv /\ [Next]_vars => RowsInv'
  <1>. SUFFICES ASSUME BatchTypes, RoundInv, RowsInv, [Next]_vars PROVE RowsInv'
    OBVIOUS
  <1>0. index \in Nat /\ Len(Stem) \in Nat /\ index <= Len(Stem) + 1 /\ Len(rows) \in Nat
    BY ImagesNumbered DEF BatchTypes
  <1>1. CASE Quiet
    <2>1. UNCHANGED <<index, rows>>
      BY <1>1 DEF Quiet
    <2>2. CASE UNCHANGED vars
      BY <2>1, <2>2 DEF RowsInv, vars
    <2>3. CASE pc \in {"detect", "describe"} /\ pc' \in Working
      BY <1>0, <2>1, <2>3 DEF RowsInv, Working
    <2>4. CASE pc = "detect" /\ pc' \in {"died", "done"} /\ index \notin Images
      BY <1>0, <2>1, <2>4, ImagesNumbered DEF RowsInv
    <2>. QED
      BY <1>1, <2>2, <2>3, <2>4 DEF Quiet
  <1>2. ASSUME NEW row, Saves(row) \/ Rescues(row) PROVE RowsInv'
    <2>. DEFINE n == Len(rows)
    <2>1. /\ rows' \in Seq(Row) /\ Len(rows') = n + 1
          /\ DOMAIN rows = 1 .. n /\ DOMAIN rows' = 1 .. n + 1
          /\ \A k \in DOMAIN rows : rows'[k] = rows[k]
          /\ rows'[n + 1] = row /\ row.image = index
      BY <1>2, RowAdded DEF Saves, Rescues
    <2>2. index \in 1 .. Len(Stem)
      BY <1>2, ImagesNumbered DEF Saves, Rescues, RoundInv, Working
    <2>3. \A k \in DOMAIN rows' : (k \in DOMAIN rows /\ rows'[k] = rows[k])
                                   \/ (k = n + 1 /\ rows'[k] = row)
      BY <1>0, <2>1
    <2>4. \/ index' = index + 1 /\ pc' = "detect"
          \/ index' = index /\ pc' = "died"
          \/ index' = index /\ pc' = "rescue" /\ Saves(row)
      BY <1>2 DEF Saves, Rescues, Through, Short
    <2>5. \A k \in DOMAIN rows : rows[k].image = index => Rescues(row) /\ k = n /\ ~Failed(rows[k])
      BY <1>2 DEF RowsInv, Saves, Rescues
    <2>6. \A k \in DOMAIN rows : rows[k].image \in 1 .. index
      BY DEF RowsInv
    <2>7. ASSUME NEW k \in DOMAIN rows'
          PROVE  /\ rows'[k].image \in 1 .. index'
                 /\ rows'[k].image = index' => pc' \in {"rescue", "died"}
                 /\ rows'[k].image = index' /\ pc' = "rescue" => k = Len(rows') /\ ~Failed(rows'[k])
      <3>1. rows'[k].image \in 1 .. index
        BY <1>0, <2>1, <2>2, <2>3, <2>6
      <3>2. ASSUME Saves(row), rows'[k].image = index PROVE k = n + 1 /\ rows'[k] = row
        BY <2>3, <2>5, <3>2 DEF Saves, Rescues
      <3>3. Saves(row) => ~Failed(row)
        BY DEF Saves
      <3>. QED
        BY <1>0, <2>1, <2>4, <3>1, <3>2, <3>3
    <2>8. ASSUME NEW k \in DOMAIN rows', NEW m \in DOMAIN rows',
                 rows'[k].image = rows'[m].image, k < m
          PROVE  m = k + 1 /\ ~Failed(rows'[k]) /\ Failed(rows'[m])
      <3>1. k \in DOMAIN rows /\ rows'[k] = rows[k]
        BY <1>0, <2>1, <2>3, <2>8
      <3>2. CASE m \in DOMAIN rows
        BY <2>1, <2>8, <3>1, <3>2 DEF RowsInv
      <3>3. CASE m = n + 1
        <4>1. rows[k].image = index
          BY <2>1, <2>8, <3>1, <3>3
        <4>2. Rescues(row) /\ k = n /\ ~Failed(rows[k])
          BY <2>5, <3>1, <4>1
        <4>3. Failed(row)
          BY <4>2 DEF Rescues
        <4>. QED
          BY <2>1, <3>1, <3>3, <4>2, <4>3
      <3>. QED
        BY <2>3, <3>2, <3>3
    <2>9. /\ Saves(row) => n <= 2 * (index - 1)
          /\ Rescues(row) => n < 2 * index
      BY DEF Saves, Rescues, RowsInv
    <2>10. /\ pc' = "rescue" => Len(rows') < 2 * index'
           /\ pc' \notin {"rescue", "died"} => Len(rows') <= 2 * (index' - 1)
           /\ pc' = "died" => Len(rows') <= 2 * Len(Stem)
      BY <1>0, <1>2, <2>1, <2>2, <2>4, <2>9
    <2>. QED
      BY <2>7, <2>8, <2>10 DEF RowsInv
  <1>. QED
    BY <1>1, <1>2, SaveSteps, RescueSteps, OtherSteps

\* The last row of an image that is through stays its last one.
LEMMA LastRowStays ==
  ASSUME BatchTypes, NEW row \in Row, row.image = index, rows' = Append(rows, row),
         NEW i \in 1 .. index - 1, NEW k, EndsAt(i, k)
  PROVE  EndsAt(i, k)' /\ rows'[k] = rows[k] /\ k \in RowsOf(i) /\ RowsOf(i)' = RowsOf(i)
  <1>1. /\ Len(rows) \in Nat
        /\ DOMAIN rows = 1 .. Len(rows) /\ DOMAIN rows' = 1 .. Len(rows) + 1
        /\ \A m \in DOMAIN rows : rows'[m] = rows[m]
        /\ rows'[Len(rows) + 1] = row
    BY RowAdded
  <1>2. i # index
    BY DEF BatchTypes
  <1>3. RowsOf(i)' = RowsOf(i)
    BY <1>1, <1>2 DEF RowsOf
  <1>4. k \in RowsOf(i) /\ k \in DOMAIN rows
    BY DEF EndsAt, RowsOf
  <1>. QED
    BY <1>1, <1>3, <1>4 DEF EndsAt

\* A new row is its image's last one.
LEMMA NewRowIsLast ==
  ASSUME BatchTypes, NEW row \in Row, row.image = index, rows' = Append(rows, row),
         NEW i, i = index, NEW n, n = Len(rows) + 1
  PROVE  EndsAt(i, n)' /\ rows'[n] = row /\ n \in RowsOf(i)'
  <1>1. /\ Len(rows) \in Nat /\ DOMAIN rows' = 1 .. n
        /\ rows'[n] = row
    BY RowAdded
  <1>2. n \in RowsOf(i)' /\ \A m \in RowsOf(i)' : m <= n
    BY <1>1 DEF RowsOf
  <1>. QED
    BY <1>1, <1>2 DEF EndsAt

\* What a failure more means for the images listed.
LEMMA FailureAdded ==
  ASSUME NEW x \in Nat, NEW i \in Nat, failures \in Seq(Nat), failures' = Append(failures, x)
  PROVE  /\ Contains(failures, i)' <=> Contains(failures, i) \/ i = x
         /\ \A k \in DOMAIN failures' : failures'[k] = x
              \/ (k \in DOMAIN failures /\ failures'[k] = failures[k])
  <1>1. /\ Len(failures) \in Nat /\ Len(failures') = Len(failures) + 1
        /\ DOMAIN failures = 1 .. Len(failures) /\ DOMAIN failures' = 1 .. Len(failures) + 1
        /\ \A k \in 1 .. Len(failures) : failures'[k] = failures[k]
        /\ failures'[Len(failures) + 1] = x
    OBVIOUS
  <1>2. ASSUME Contains(failures, i)' PROVE Contains(failures, i) \/ i = x
    BY <1>1, <1>2 DEF Contains
  <1>3. ASSUME Contains(failures, i) \/ i = x PROVE Contains(failures, i)'
    <2>1. CASE i = x
      BY <1>1, <2>1 DEF Contains
    <2>2. CASE Contains(failures, i)
      BY <1>1, <2>2 DEF Contains
    <2>. QED
      BY <1>3, <2>1, <2>2
  <1>. QED
    BY <1>1, <1>2, <1>3

LEMMA StepLists ==
  BatchTypes /\ RoundInv /\ RowsInv /\ ListsInv /\ [Next]_vars => ListsInv'
  <1>. SUFFICES ASSUME BatchTypes, RoundInv, RowsInv, ListsInv, [Next]_vars PROVE ListsInv'
    OBVIOUS
  <1>0. index \in Nat /\ Len(Stem) \in Nat /\ Len(rows) \in Nat
    BY ImagesNumbered DEF BatchTypes
  <1>1. CASE Quiet
    <2>1. UNCHANGED <<index, rows, summaries, failures>>
      BY <1>1 DEF Quiet
    <2>2. pc = "died" => pc' = "died"
      BY <1>1 DEF Quiet, vars
    <2>3. \A i \in 1 .. index' - 1 :
            \E k \in RowsOf(i)' :
              EndsAt(i, k)' /\ (Contains(failures, i)' <=> Failed(rows'[k]))
      <3>1. ASSUME NEW i \in 1 .. index - 1, NEW k \in RowsOf(i),
                   EndsAt(i, k), Contains(failures, i) <=> Failed(rows[k])
            PROVE  k \in RowsOf(i)' /\ EndsAt(i, k)' /\ (Contains(failures, i)' <=> Failed(rows'[k]))
        BY <2>1, <3>1 DEF EndsAt, RowsOf, Contains
      <3>. QED
        BY <2>1, <3>1 DEF ListsInv
    <2>. QED
      BY <2>1, <2>2, <2>3 DEF ListsInv
  <1>2. ASSUME NEW row, Saves(row) \/ Rescues(row), index' = index, summaries' = summaries,
               Saves(row) \/ pc' = "died"
        PROVE  ListsInv'
    <2>1. /\ row \in Row /\ row.image = index /\ rows' = Append(rows, row)
          /\ failures \in Seq(Nat)
      BY <1>2 DEF Saves, Rescues, BatchTypes
    <2>2. failures' = failures \/ (pc' = "died" /\ failures' = Append(failures, index))
      BY <1>2 DEF Saves, Rescues
    <2>3. pc \in {"save", "rescue"}
      BY <1>2 DEF Saves, Rescues
    <2>4. \A k \in DOMAIN failures :
            failures[k] \in 1 .. index /\ failures[k] # index
      BY <2>3 DEF ListsInv
    <2>5. index \in 1 .. index
      BY <1>0 DEF BatchTypes
    <2>6. \A k \in DOMAIN failures' :
            failures'[k] \in 1 .. index' /\ (failures'[k] = index' => pc' = "died")
      <3>1. CASE failures' = failures
        BY <1>2, <2>4, <3>1
      <3>2. CASE pc' = "died" /\ failures' = Append(failures, index)
        BY <1>0, <1>2, <2>1, <2>4, <2>5, <3>2, FailureAdded
      <3>. QED
        BY <2>2, <3>1, <3>2
    <2>7. ASSUME NEW i \in 1 .. index - 1
          PROVE  \E k \in RowsOf(i)' :
                   EndsAt(i, k)' /\ (Contains(failures, i)' <=> Failed(rows'[k]))
      <3>1. PICK k \in RowsOf(i) : EndsAt(i, k) /\ (Contains(failures, i) <=> Failed(rows[k]))
        BY DEF ListsInv
      <3>2. EndsAt(i, k)' /\ rows'[k] = rows[k] /\ k \in RowsOf(i)'
        BY <2>1, <3>1, LastRowStays
      <3>3. Contains(failures, i)' <=> Contains(failures, i)
        <4>1. i \in Nat /\ i # index
          BY <1>0
        <4>2. CASE failures' = failures
          BY <4>2 DEF Contains
        <4>3. CASE failures' = Append(failures, index)
          BY <1>0, <2>1, <4>1, <4>3, FailureAdded
        <4>. QED
          BY <2>2, <4>2, <4>3
      <3>. QED
        BY <3>1, <3>2, <3>3
    <2>. QED
      BY <1>2, <2>6, <2>7 DEF ListsInv
  <1>3. ASSUME NEW row, Saves(row) \/ Rescues(row), Through(row)
        PROVE  ListsInv'
    <2>1. /\ row \in Row /\ row.image = index /\ rows' = Append(rows, row)
          /\ failures \in Seq(Nat) /\ summaries \in Seq(Row)
          /\ index' = index + 1 /\ summaries' = Append(summaries, row)
      BY <1>3 DEF Saves, Rescues, BatchTypes, Through
    <2>2. \/ failures' = failures /\ ~Failed(row)
          \/ failures' = Append(failures, index) /\ Failed(row)
      BY <1>3 DEF Saves, Rescues
    <2>3. pc \in {"save", "rescue"}
      BY <1>3 DEF Saves, Rescues
    <2>4. \A k \in DOMAIN failures :
            failures[k] \in 1 .. index /\ failures[k] # index
      BY <2>3 DEF ListsInv
    <2>5. index \in 1 .. index /\ \A i \in 1 .. index : i \in 1 .. index + 1 /\ i # index + 1
      BY <1>0 DEF BatchTypes
    <2>6. \A k \in DOMAIN failures' :
            failures'[k] \in 1 .. index' /\ (failures'[k] = index' => pc' = "died")
      <3>1. CASE failures' = failures
        BY <2>1, <2>4, <2>5, <3>1
      <3>2. CASE failures' = Append(failures, index)
        <4>1. \A k \in DOMAIN failures' : failures'[k] = index
                \/ (k \in DOMAIN failures /\ failures'[k] = failures[k])
          BY <1>0, <2>1, <3>2, FailureAdded
        <4>. QED
          BY <2>1, <2>4, <2>5, <4>1
      <3>. QED
        BY <2>2, <3>1, <3>2
    <2>7. ASSUME NEW i \in 1 .. index' - 1
          PROVE  \E k \in RowsOf(i)' :
                   EndsAt(i, k)' /\ (Contains(failures, i)' <=> Failed(rows'[k]))
      <3>0. i \in Nat /\ (i = index \/ i \in 1 .. index - 1)
        BY <1>0, <2>1
      <3>1. CASE i \in 1 .. index - 1
        <4>1. PICK k \in RowsOf(i) : EndsAt(i, k) /\ (Contains(failures, i) <=> Failed(rows[k]))
          BY <3>1 DEF ListsInv
        <4>2. EndsAt(i, k)' /\ rows'[k] = rows[k] /\ k \in RowsOf(i)'
          BY <2>1, <3>1, <4>1, LastRowStays
        <4>3. Contains(failures, i)' <=> Contains(failures, i)
          <5>1. i # index
            BY <1>0, <3>1
          <5>2. CASE failures' = failures
            BY <5>2 DEF Contains
          <5>3. CASE failures' = Append(failures, index)
            BY <1>0, <2>1, <3>0, <5>1, <5>3, FailureAdded
          <5>. QED
            BY <2>2, <5>2, <5>3
        <4>. QED
          BY <4>1, <4>2, <4>3
      <3>2. CASE i = index
        <4>1. PICK n : n = Len(rows) + 1
          OBVIOUS
        <4>2. EndsAt(i, n)' /\ rows'[n] = row /\ n \in RowsOf(i)'
          BY <2>1, <3>2, <4>1, NewRowIsLast
        <4>3. ~Contains(failures, i)
          BY <2>4, <3>2, <2>1 DEF Contains
        <4>4. Contains(failures, i)' <=> Failed(row)
          <5>1. CASE failures' = failures /\ ~Failed(row)
            BY <4>3, <5>1 DEF Contains
          <5>2. CASE failures' = Append(failures, index) /\ Failed(row)
            BY <1>0, <2>1, <3>0, <3>2, <5>2, FailureAdded
          <5>. QED
            BY <2>2, <5>1, <5>2
        <4>. QED
          BY <4>2, <4>4
      <3>. QED
        BY <3>0, <3>1, <3>2
    <2>8. Len(summaries') = index' - 1
      BY <1>0, <2>1 DEF ListsInv
    <2>9. \A i \in 1 .. index' - 1 : summaries'[i].image = i
      <3>1. Len(summaries) = index - 1 /\ \A i \in 1 .. index - 1 : summaries[i].image = i
        BY DEF ListsInv
      <3>2. \A i \in 1 .. index - 1 : summaries'[i] = summaries[i]
        BY <2>1, <3>1
      <3>3. summaries'[index] = row
        BY <1>0, <2>1, <3>1
      <3>. QED
        BY <1>0, <2>1, <3>1, <3>2, <3>3
    <2>. QED
      BY <2>6, <2>7, <2>8, <2>9 DEF ListsInv
  <1>4. ASSUME NEW row, Saves(row) \/ Rescues(row) PROVE ListsInv'
    BY <1>2, <1>3, <1>4 DEF Saves, Rescues, Short
  <1>. QED
    BY <1>1, <1>4, SaveSteps, RescueSteps, OtherSteps

-----------------------------------------------------------------------------
(* The files.                                                              *)

\* The result of an image that is through stays, unless this one takes its place.
LEMMA ResultStays ==
  ASSUME BatchTypes, NEW row \in Row, row.image = index, rows' = Append(rows, row),
         json' = json \/ json' = JsonWith(row),
         index \in Images, NEW j \in 1 .. index - 1, HasLastRow(j),
         json' = json \/ Stem[j] # Stem[index]
  PROVE  HasLastRow(j)'
  <1>1. PICK k \in RowsOf(j) : EndsAt(j, k) /\ json[Stem[j]] = rows[k]
    BY DEF HasLastRow
  <1>2. EndsAt(j, k)' /\ rows'[k] = rows[k] /\ k \in RowsOf(j)'
    BY <1>1, LastRowStays
  <1>3. j \in Images /\ Stem[j] \in Stems
    BY ImagesNumbered DEF BatchTypes, Stems
  <1>4. json'[Stem[j]] = json[Stem[j]]
    BY <1>3 DEF BatchTypes, JsonWith
  <1>. QED
    BY <1>1, <1>2, <1>4 DEF HasLastRow

LEMMA StepFiles ==
  BatchTypes /\ RoundInv /\ FilesInv /\ [Next]_vars => FilesInv'
  <1>. SUFFICES ASSUME BatchTypes, RoundInv, FilesInv, [Next]_vars PROVE FilesInv'
    OBVIOUS
  <1>0. /\ index \in Nat /\ Len(Stem) \in Nat /\ Len(rows) \in Nat
        /\ Stems' = Stems /\ Images' = Images
    BY ImagesNumbered DEF BatchTypes, Stems, Images
  <1>1. CASE Quiet
    <2>1. /\ UNCHANGED <<index, rows, json>>
          /\ pc \in {"rescue", "died"} /\ index \in Images => pc' \in {"rescue", "died"}
      BY <1>1 DEF Quiet, vars
    <2>2. pc' \in {"detect", "describe", "done"} => csv' = rows'
      BY <1>1, <2>1 DEF Quiet, FilesInv, Working, vars
    <2>3. \A s \in Stems' : json'[s] = Unwritten \/ \E k \in DOMAIN rows' : json'[s] = rows'[k]
      BY <1>0, <2>1 DEF FilesInv
    <2>4. \A i \in 1 .. index' - 1 :
            \/ \E j \in i .. index' - 1 : Stem[j] = Stem[i] /\ HasLastRow(j)'
            \/ pc' \in {"rescue", "died"} /\ index' \in Images' /\ Stem[i] = Stem[index']
      <3>1. \A j : HasLastRow(j) => HasLastRow(j)'
        BY <2>1 DEF HasLastRow, EndsAt, RowsOf
      <3>. QED
        BY <1>0, <2>1, <3>1 DEF FilesInv
    <2>. QED
      BY <2>2, <2>3, <2>4 DEF FilesInv
  <1>2. ASSUME NEW row, Saves(row) \/ Rescues(row) PROVE FilesInv'
    <2>1. /\ row \in Row /\ row.image = index /\ rows' = Append(rows, row)
          /\ pc \in {"save", "rescue"} /\ index \in Images
          /\ Through(row) \/ (Short(row, pc') /\ pc' \in {"rescue", "died"})
      BY <1>2 DEF Saves, Rescues, RoundInv, Working, Short, Through
    <2>2. json' = json \/ json' = JsonWith(row)
      BY <2>1 DEF Through, Short
    <2>3. /\ DOMAIN rows = 1 .. Len(rows) /\ DOMAIN rows' = 1 .. Len(rows) + 1
          /\ \A k \in DOMAIN rows : rows'[k] = rows[k]
          /\ rows'[Len(rows) + 1] = row
      BY <2>1, RowAdded
    <2>4. Stem[index] \in Stems /\ DOMAIN json = Stems
      BY <2>1 DEF Stems, BatchTypes
    <2>5. \A s \in Stems' : json'[s] = Unwritten \/ \E k \in DOMAIN rows' : json'[s] = rows'[k]
      <3>1. ASSUME NEW s \in Stems
            PROVE  json'[s] = Unwritten \/ \E k \in DOMAIN rows' : json'[s] = rows'[k]
        <4>1. json'[s] = json[s] \/ json'[s] = row
          BY <2>2, <2>4 DEF JsonWith
        <4>2. json[s] = Unwritten \/ \E k \in DOMAIN rows : json[s] = rows[k]
          BY DEF FilesInv
        <4>3. Len(rows) + 1 \in DOMAIN rows' /\ \A k \in DOMAIN rows : k \in DOMAIN rows'
          BY <1>0, <2>3
        <4>. QED
          BY <2>3, <4>1, <4>2, <4>3
      <3>. QED
        BY <1>0, <3>1
    <2>6. ASSUME NEW i \in 1 .. index - 1,
                 NEW j \in i .. index - 1, Stem[j] = Stem[i], HasLastRow(j)
          PROVE  HasLastRow(j)' \/ Stem[i] = Stem[index]
      <3>1. j \in 1 .. index - 1
        BY <1>0
      <3>. QED
        BY <2>1, <2>2, <2>6, <3>1, ResultStays
    <2>7. \A i \in 1 .. index - 1 :
            \/ \E j \in i .. index - 1 : Stem[j] = Stem[i] /\ HasLastRow(j)'
            \/ Stem[i] = Stem[index]
      BY <2>6 DEF FilesInv
    <2>8. CASE Through(row)
      <3>1. index' = index + 1 /\ pc' = "detect" /\ csv' = rows' /\ json' = JsonWith(row)
        BY <2>8 DEF Through
      <3>2. PICK i0 : i0 = index
        OBVIOUS
      <3>3. HasLastRow(i0)'
        <4>1. PICK n : n = Len(rows) + 1
          OBVIOUS
        <4>2. EndsAt(i0, n)' /\ rows'[n] = row /\ n \in RowsOf(i0)'
          BY <2>1, <3>2, <4>1, NewRowIsLast
        <4>3. json'[Stem[i0]] = row
          BY <2>4, <3>1, <3>2 DEF JsonWith
        <4>. QED
          BY <4>2, <4>3 DEF HasLastRow
      <3>4. \A i \in 1 .. index' - 1 :
              \E j \in i .. index' - 1 : Stem[j] = Stem[i] /\ HasLastRow(j)'
        <4>1. ASSUME NEW i \in 1 .. index
              PROVE  \E j \in i .. index : Stem[j] = Stem[i] /\ HasLastRow(j)'
          <5>1. CASE Stem[i] = Stem[index]
            <6>1. i0 \in i .. index /\ Stem[i0] = Stem[i]
              BY <1>0, <3>2, <5>1
            <6>. QED
              BY <3>3, <6>1
          <5>2. CASE Stem[i] # Stem[index]
            <6>1. i \in 1 .. index - 1
              BY <1>0, <5>2
            <6>2. PICK j \in i .. index - 1 : Stem[j] = Stem[i] /\ HasLastRow(j)'
              BY <2>7, <5>2, <6>1
            <6>3. j \in i .. index
              BY <1>0
            <6>. QED
              BY <6>2, <6>3
          <5>. QED
            BY <5>1, <5>2
        <4>2. index' - 1 = index
          BY <1>0, <3>1
        <4>. QED
          BY <4>1, <4>2
      <3>. QED
        BY <2>5, <3>1, <3>4 DEF FilesInv
    <2>9. CASE Short(row, pc') /\ pc' \in {"rescue", "died"}
      <3>1. index' = index
        BY <2>9 DEF Short
      <3>. QED
        BY <1>0, <2>1, <2>5, <2>7, <2>9, <3>1 DEF FilesInv
    <2>. QED
      BY <2>1, <2>8, <2>9
  <1>. QED
    BY <1>1, <1>2, SaveSteps, RescueSteps, OtherSteps

-----------------------------------------------------------------------------
(* Whose call a row tells of.                                              *)

StaleRow(k) ==
  rows[k].of \notin {0, rows[k].image} =>
    /\ Failed(rows[k])
    /\ rows[k].judgment = "NG" => breaker = TRUE
    /\ \A j \in DOMAIN rows : rows[j].image = rows[k].image => rows[j].of # rows[k].image

LEMMA StaleRows == BatchTypes => (StaleOnlyUncalled <=> \A k \in DOMAIN rows : StaleRow(k))
  BY DEF BatchTypes, StaleOnlyUncalled, StaleRow

LEMMA BreakerStays == ASSUME BatchTypes, [Next]_vars, breaker = TRUE PROVE breaker' = TRUE
  BY DEF Next, Detect, Describe, DescribeRaises, DescribeAnswers, Save, Rescue, Finish,
         FinishFails, model, vars

LEMMA StepStale ==
  BatchTypes /\ BatchTypes' /\ RoundInv /\ RowsInv /\ StaleInv /\ [Next]_vars => StaleInv'
  <1>. SUFFICES ASSUME BatchTypes, BatchTypes', RoundInv, RowsInv, StaleInv, [Next]_vars
                PROVE  StaleInv'
    OBVIOUS
  <1>0. /\ index \in Nat /\ Len(rows) \in Nat
        /\ \A k \in DOMAIN rows : StaleRow(k)
    BY StaleRows DEF BatchTypes, StaleInv
  <1>1. CASE Quiet
    <2>1. UNCHANGED <<index, rows>>
      BY <1>1 DEF Quiet
    <2>2. \A k \in DOMAIN rows' : StaleRow(k)'
      BY <1>0, <2>1, BreakerStays DEF StaleRow
    <2>3. pc' = "rescue" =>
            \/ \A k \in DOMAIN rows : rows[k].image # index
            \/ pc = "rescue" /\ service' = service
      <3>1. CASE pc = "rescue"
        BY <1>1, <3>1 DEF Quiet, vars
      <3>2. CASE pc # "rescue" /\ pc' = "rescue"
        <4>1. pc \in {"detect", "describe"}
          BY <1>1, <3>2 DEF Quiet, vars
        <4>. QED
          BY <4>1 DEF RowsInv
      <3>. QED
        BY <3>1, <3>2
    <2>4. pc' = "rescue" =>
            \A k \in DOMAIN rows' :
              rows'[k].image = index' =>
                rows'[k].of \in {0, index'} /\ (rows'[k].of = index' => service'.of = index')
      BY <2>1, <2>3 DEF StaleInv
    <2>5. StaleOnlyUncalled'
      BY <2>2 DEF BatchTypes, StaleOnlyUncalled, StaleRow
    <2>. QED
      BY <2>4, <2>5 DEF StaleInv
  <1>2. ASSUME NEW row, Saves(row) \/ Rescues(row) PROVE StaleInv'
    <2>. DEFINE n == Len(rows)
    <2>1. /\ DOMAIN rows = 1 .. n /\ DOMAIN rows' = 1 .. n + 1
          /\ \A k \in DOMAIN rows : rows'[k] = rows[k]
          /\ rows'[n + 1] = row /\ row.image = index
      BY <1>2, RowAdded DEF Saves, Rescues
    <2>2. /\ service' = service /\ breaker' = breaker
      BY <1>2 DEF Saves, Rescues
    <2>3. \A k \in DOMAIN rows' : (k \in DOMAIN rows /\ rows'[k] = rows[k])
                                   \/ (k = n + 1 /\ rows'[k] = row)
      BY <1>0, <2>1
    <2>4. row.of \in {0, index}
            \/ /\ Failed(row) /\ row.of = service.of
               /\ row.judgment = "NG" => breaker = TRUE
               /\ \A j \in DOMAIN rows : rows[j].image = index => rows[j].of # index
      <3>1. CASE Saves(row)
        BY <3>1 DEF Saves, RoundInv, Working
      <3>2. CASE Rescues(row) /\ row.of \notin {0, index}
        <4>1. pc = "rescue" /\ Failed(row) /\ row.of = service.of /\ service.of # index
          BY <3>2 DEF Rescues
        <4>2. row.judgment = "NG" => breaker = TRUE
          BY <3>2, <4>1 DEF Rescues, RoundInv
        <4>3. \A j \in DOMAIN rows : rows[j].image = index => rows[j].of # index
          BY <4>1 DEF StaleInv
        <4>. QED
          BY <4>1, <4>2, <4>3
      <3>. QED
        BY <1>2, <3>1, <3>2
    <2>5. \A j \in DOMAIN rows : rows[j].image = index => pc = "rescue" /\ ~Failed(rows[j])
      BY <1>2 DEF RowsInv, Saves, Rescues
    <2>6. ASSUME NEW k \in DOMAIN rows' PROVE StaleRow(k)'
      <3>1. CASE k \in DOMAIN rows /\ rows'[k] = rows[k]
        <4>1. SUFFICES ASSUME rows[k].of \notin {0, rows[k].image}
                       PROVE  /\ Failed(rows[k])
                              /\ rows[k].judgment = "NG" => breaker' = TRUE
                              /\ \A j \in DOMAIN rows' :
                                   rows'[j].image = rows[k].image => rows'[j].of # rows[k].image
          BY <3>1 DEF StaleRow
        <4>2. /\ Failed(rows[k])
              /\ rows[k].judgment = "NG" => breaker = TRUE
              /\ \A j \in DOMAIN rows : rows[j].image = rows[k].image => rows[j].of # rows[k].image
          BY <1>0, <3>1, <4>1 DEF StaleRow
        <4>3. rows[k].image # index
          BY <2>5, <3>1, <4>2
        <4>. QED
          BY <2>1, <2>2, <2>3, <4>2, <4>3
      <3>2. CASE k = n + 1 /\ rows'[k] = row
        BY <2>1, <2>2, <2>3, <2>4, <3>2 DEF StaleRow
      <3>. QED
        BY <2>3, <3>1, <3>2
    <2>7. pc' = "rescue" =>
            \A k \in DOMAIN rows' :
              rows'[k].image = index' =>
                rows'[k].of \in {0, index'} /\ (rows'[k].of = index' => service'.of = index')
      <3>1. SUFFICES ASSUME pc' = "rescue", NEW k \in DOMAIN rows', rows'[k].image = index'
                     PROVE rows'[k].of \in {0, index'} /\ (rows'[k].of = index' => service'.of = index')
        OBVIOUS
      <3>2. Saves(row) /\ index' = index
        BY <1>2, <3>1 DEF Saves, Rescues, Through, Short
      <3>3. k = n + 1 /\ rows'[k] = row
        BY <2>3, <2>5, <3>1, <3>2 DEF Saves
      <3>4. row.of = told.of /\ told.of \in {0, index} /\ (told.of = index => service.of = index)
        BY <3>2 DEF Saves, RoundInv, Working
      <3>. QED
        BY <2>2, <3>2, <3>3, <3>4
    <2>8. StaleOnlyUncalled'
      BY <2>6 DEF BatchTypes, StaleOnlyUncalled, StaleRow
    <2>. QED
      BY <2>7, <2>8 DEF StaleInv
  <1>. QED
    BY <1>1, <1>2, SaveSteps, RescueSteps, OtherSteps

-----------------------------------------------------------------------------
(* The breaker.                                                            *)

\* The answers that the rows tell of, when there is a row more.
LEMMA AnsweredAdded ==
  ASSUME BatchTypes, NEW row \in Row, rows' = Append(rows, row), NEW n, n = Len(rows)
  PROVE  /\ n \in Nat /\ DOMAIN rows = 1 .. n /\ DOMAIN rows' = 1 .. n + 1
         /\ Answered \subseteq 1 .. n /\ Answered' \subseteq 1 .. n + 1
         /\ \A k \in 1 .. n : rows'[k] = rows[k] /\ (k \in Answered' <=> k \in Answered)
         /\ rows'[n + 1] = row
         /\ n + 1 \in Answered' <=> ~Failed(row) /\ row.of # 0
  <1>1. /\ n \in Nat /\ DOMAIN rows = 1 .. n /\ DOMAIN rows' = 1 .. n + 1
        /\ \A k \in 1 .. n : rows'[k] = rows[k]
        /\ rows'[n + 1] = row
    BY RowAdded
  <1>2. Answered \subseteq 1 .. n /\ Answered' \subseteq 1 .. n + 1
    BY <1>1 DEF Answered
  <1>3. \A k \in 1 .. n : k \in 1 .. n + 1
    BY <1>1
  <1>4. n + 1 \in 1 .. n + 1
    BY <1>1
  <1>5. \A k \in 1 .. n : k \in Answered' <=> k \in Answered
    BY <1>1, <1>3 DEF Answered
  <1>6. n + 1 \in Answered' <=> ~Failed(row) /\ row.of # 0
    BY <1>1, <1>4 DEF Answered
  <1>. QED
    BY <1>1, <1>2, <1>5, <1>6

\* Sets of answers can be counted.
LEMMA AnswersCounted ==
  ASSUME NEW n \in Nat, NEW S, S \subseteq 1 .. n
  PROVE  IsFiniteSet(S) /\ Cardinality(S) \in Nat
  <1>1. IsFiniteSet(1 .. n)
    BY FS_Interval
  <1>2. IsFiniteSet(S)
    BY <1>1, FS_Subset
  <1>. QED
    BY <1>2, FS_CardinalityType

\* Rows that were there make the same runs.
LEMMA OldRuns ==
  ASSUME BatchTypes, NEW row \in Row, rows' = Append(rows, row),
         NEW lo, NEW hi \in DOMAIN rows
  PROVE  /\ AnsweredIn(lo, hi)' = AnsweredIn(lo, hi)
         /\ ZeroRun(lo, hi)' <=> ZeroRun(lo, hi)
  <1>1. PICK n : n = Len(rows)
    OBVIOUS
  <1>2. /\ n \in Nat /\ DOMAIN rows = 1 .. n
        /\ Answered \subseteq 1 .. n /\ Answered' \subseteq 1 .. n + 1
        /\ \A k \in 1 .. n : rows'[k] = rows[k] /\ (k \in Answered' <=> k \in Answered)
    BY <1>1, AnsweredAdded
  <1>3. AnsweredIn(lo, hi)' = AnsweredIn(lo, hi) /\ AnsweredIn(lo, hi) \subseteq 1 .. n
    <2>1. \A k \in 1 .. n + 1 : k <= hi => k \in 1 .. n
      BY <1>2
    <2>2. \A k : k \in AnsweredIn(lo, hi)' <=> k \in AnsweredIn(lo, hi)
      BY <1>2, <2>1 DEF AnsweredIn
    <2>3. AnsweredIn(lo, hi) \subseteq Answered
      BY DEF AnsweredIn
    <2>. QED
      BY <1>2, <2>2, <2>3
  <1>. QED
    BY <1>2, <1>3 DEF ZeroRun

LEMMA StreakSame ==
  ASSUME NEW p \in 0 .. Len(rows), StreakFrom(p), ~Pending, ~Pending',
         UNCHANGED <<rows, streak>>
  PROVE  StreakFrom(p)'
  BY DEF StreakFrom, Since, Answered, Failed

\* A row that tells of no answer.
LEMMA StreakUntold ==
  ASSUME BatchTypes, NEW row \in Row, rows' = Append(rows, row), Failed(row) \/ row.of = 0,
         NEW p \in 0 .. Len(rows), StreakFrom(p), ~Pending, ~Pending', streak' = streak
  PROVE  StreakFrom(p)'
  <1>1. PICK n : n = Len(rows)
    OBVIOUS
  <1>2. /\ n \in Nat
        /\ Answered \subseteq 1 .. n /\ Answered' \subseteq 1 .. n + 1
        /\ \A k \in 1 .. n : rows'[k] = rows[k] /\ (k \in Answered' <=> k \in Answered)
        /\ n + 1 \notin Answered'
    BY <1>1, AnsweredAdded
  <1>3. Answered' = Answered
    <2>1. \A k \in 1 .. n + 1 : k = n + 1 \/ k \in 1 .. n
      BY <1>2
    <2>2. \A k : k \in Answered' <=> k \in Answered
      BY <1>2, <2>1
    <2>. QED
      BY <2>2
  <1>4. Since(p)' = Since(p) /\ Since(p) \subseteq 1 .. n
    BY <1>2, <1>3 DEF Since
  <1>. QED
    BY <1>2, <1>3, <1>4 DEF StreakFrom

\* A row that tells of the answer that was pending.
LEMMA StreakTold ==
  ASSUME BatchTypes, NEW row \in Row, rows' = Append(rows, row), ~Failed(row), row.of # 0,
         row.vlm = told.vlm, NEW n, n = Len(rows),
         NEW p \in 0 .. n, StreakFrom(p), Pending, ~Pending', streak' = streak
  PROVE  IF told.vlm = "done_false"
         THEN /\ StreakFrom(p)' /\ streak' = Cardinality(Since(p)')
              /\ IsFiniteSet(Since(p)')
         ELSE StreakFrom(n + 1)'
  <1>2. /\ n \in Nat
        /\ Answered \subseteq 1 .. n /\ Answered' \subseteq 1 .. n + 1
        /\ \A k \in 1 .. n : rows'[k] = rows[k] /\ (k \in Answered' <=> k \in Answered)
        /\ n + 1 \in Answered' /\ rows'[n + 1] = row
    BY AnsweredAdded
  <1>3. CASE told.vlm = "done_false"
    <2>1. Since(p)' = Since(p) \cup {n + 1} /\ Since(p) \subseteq 1 .. n /\ n + 1 \notin Since(p)
      <3>1. /\ \A k \in 1 .. n + 1 : k = n + 1 \/ k \in 1 .. n
            /\ p < n + 1 /\ n + 1 \notin 1 .. n
        BY <1>2
      <3>2. \A k : k \in Since(p)' <=> k \in Since(p) \cup {n + 1}
        BY <1>2, <3>1 DEF Since
      <3>3. Since(p) \subseteq Answered
        BY DEF Since
      <3>. QED
        BY <1>2, <3>1, <3>2, <3>3
    <2>2. IsFiniteSet(Since(p)) /\ Cardinality(Since(p)) \in Nat
      BY <1>2, <2>1, AnswersCounted
    <2>3. Cardinality(Since(p) \cup {n + 1}) = Cardinality(Since(p)) + 1
      BY <2>1, <2>2, FS_AddElement
    <2>4. streak = Cardinality(Since(p)) + 1
      BY <1>3 DEF StreakFrom
    <2>5. p = 0 \/ (p \in Answered' /\ rows'[p].vlm # "done_false")
      BY <1>2 DEF StreakFrom
    <2>6. \A k \in Since(p)' : rows'[k].vlm = "done_false"
      BY <1>2, <1>3, <2>1 DEF StreakFrom
    <2>7. IsFiniteSet(Since(p)')
      BY <2>1, <2>2, FS_AddElement
    <2>. QED
      BY <1>3, <2>1, <2>3, <2>4, <2>5, <2>6, <2>7 DEF StreakFrom
  <1>4. CASE told.vlm # "done_false"
    <2>1. PICK q : q = n + 1
      OBVIOUS
    <2>2. Since(q)' = {}
      <3>1. \A k \in 1 .. n + 1 : ~(q < k)
        BY <1>2, <2>1
      <3>2. \A k : k \notin Since(q)'
        BY <1>2, <3>1 DEF Since
      <3>. QED
        BY <3>2
    <2>3. Cardinality(Since(q)') = 0
      BY <2>2, FS_EmptySet
    <2>4. streak' = 0
      BY <1>4 DEF StreakFrom
    <2>5. StreakFrom(q)'
      BY <1>2, <1>4, <2>1, <2>2, <2>3, <2>4 DEF StreakFrom
    <2>. QED
      BY <1>4, <2>1, <2>5
  <1>. QED
    BY <1>3, <1>4

\* The parts of BreakerInv.
Streaked == \E p \in 0 .. Len(rows) : StreakFrom(p)
StreakBounds ==
  /\ streak <= index /\ (streak = index => pc \in {"save", "rescue", "died"} /\ index \in Images)
  /\ Threshold > 0 => streak <= Threshold
Found == \E lo, hi \in DOMAIN rows : ZeroRun(lo, hi)
BreakerKnows ==
  /\ breaker = FALSE /\ Threshold > 0 => streak < Threshold /\ ~Found
  /\ breaker = TRUE =>
       /\ Threshold > 0
       /\ Found \/ (Pending /\ told.vlm = "done_false" /\ streak >= Threshold)

LEMMA BreakerParts == BreakerInv <=> Streaked /\ StreakBounds /\ BreakerKnows
  BY DEF BreakerInv, Streaked, StreakBounds, BreakerKnows, Found

LEMMA BreakerPartsNext == BreakerInv' <=> Streaked' /\ StreakBounds' /\ BreakerKnows'
  BY DEF BreakerInv, Streaked, StreakBounds, BreakerKnows, Found

\* While the rows stay, so do the runs.
LEMMA FoundSame == rows' = rows => (Found' <=> Found)
  BY DEF Found, ZeroRun, AnsweredIn, Answered, Failed

\* The service is asked while the breaker is closed, and its answer counted.
LEMMA DescribeBreaker ==
  ASSUME BatchTypes, RoundInv, BreakerInv, Describe
  PROVE  BreakerInv'
  <1>0. /\ index \in Nat /\ Len(rows) \in Nat /\ streak \in Nat /\ Threshold \in Nat
        /\ Images' = Images
    BY ThresholdIsCounted DEF BatchTypes, Images
  <1>1. /\ pc = "describe" /\ UNCHANGED <<index, rows>>
        /\ ~Pending /\ breaker = FALSE /\ index \in Images
    BY DEF Describe, DescribeRaises, DescribeAnswers, RoundInv, Pending, Working
  <1>2. /\ Streaked /\ streak < index
        /\ Threshold > 0 => streak < Threshold /\ ~Found
    BY <1>0, <1>1, BreakerParts DEF StreakBounds, BreakerKnows
  <1>3. CASE DescribeRaises
    <2>1. /\ pc' = "rescue" /\ UNCHANGED <<told, streak, breaker>> /\ ~Pending'
      BY <1>3 DEF DescribeRaises, Pending
    <2>2. Streaked'
      <3>1. PICK p \in 0 .. Len(rows) : StreakFrom(p)
        BY <1>2 DEF Streaked
      <3>2. StreakFrom(p)'
        BY <1>1, <2>1, <3>1, StreakSame
      <3>. QED
        BY <1>1, <3>1, <3>2 DEF Streaked
    <2>3. StreakBounds'
      BY <1>0, <1>1, <1>2, <2>1 DEF StreakBounds
    <2>4. BreakerKnows'
      BY <1>1, <1>2, <2>1, FoundSame DEF BreakerKnows
    <2>. QED
      BY <2>2, <2>3, <2>4, BreakerPartsNext
  <1>4. ASSUME NEW a \in Answers, DescribeAnswers(a) PROVE BreakerInv'
    <2>1. /\ pc' = "save" /\ told'.of = index /\ told'.vlm = a[1]
          /\ streak' = IF a[1] = "done_false" THEN streak + 1 ELSE 0
      BY <1>0, <1>4, RecordsAreRecords DEF DescribeAnswers, Streak
    <2>2. /\ breaker' = TRUE => Threshold > 0 /\ streak' >= Threshold
          /\ breaker' = FALSE => ~(Threshold > 0 /\ streak' >= Threshold)
      BY <1>1, <1>4 DEF DescribeAnswers
    <2>3. Pending'
      BY <1>0, <1>1, <2>1, ImagesNumbered DEF Pending
    <2>4. Streaked'
      <3>1. PICK p \in 0 .. Len(rows) : StreakFrom(p)
        BY <1>2 DEF Streaked
      <3>2. streak = Cardinality(Since(p))
        BY <1>1, <3>1 DEF StreakFrom
      <3>3. Since(p)' = Since(p) /\ Answered' = Answered
        BY <1>1 DEF Since, Answered, Failed
      <3>4. StreakFrom(p)'
        BY <1>1, <2>1, <2>3, <3>1, <3>2, <3>3 DEF StreakFrom
      <3>. QED
        BY <1>1, <3>1, <3>4 DEF Streaked
    <2>5. StreakBounds'
      BY <1>0, <1>1, <1>2, <2>1 DEF StreakBounds
    <2>6. BreakerKnows'
      <3>1. streak' \in Nat
        BY <1>0, <2>1
      <3>2. breaker' = TRUE => a[1] = "done_false"
        BY <1>0, <2>1, <2>2
      <3>. QED
        BY <1>0, <1>1, <1>2, <2>1, <2>2, <2>3, <3>1, <3>2, FoundSame DEF BreakerKnows
    <2>. QED
      BY <2>4, <2>5, <2>6, BreakerPartsNext
  <1>. QED
    BY <1>3, <1>4 DEF Describe

\* A row that tells of no answer makes no run.
LEMMA UntoldRow ==
  ASSUME BatchTypes, NEW row \in Row, rows' = Append(rows, row), Failed(row) \/ row.of = 0,
         Threshold > 0
  PROVE  Found' <=> Found
  <1>1. PICK n : n = Len(rows)
    OBVIOUS
  <1>2. /\ n \in Nat /\ DOMAIN rows = 1 .. n /\ DOMAIN rows' = 1 .. n + 1
        /\ Answered \subseteq 1 .. n /\ Answered' \subseteq 1 .. n + 1
        /\ \A k \in 1 .. n : rows'[k] = rows[k] /\ (k \in Answered' <=> k \in Answered)
        /\ n + 1 \notin Answered'
    BY <1>1, AnsweredAdded
  <1>3. ASSUME NEW lo \in DOMAIN rows, NEW hi \in DOMAIN rows, ZeroRun(lo, hi)
        PROVE  ZeroRun(lo, hi)' /\ lo \in DOMAIN rows' /\ hi \in DOMAIN rows'
    BY <1>2, <1>3, OldRuns
  <1>4. ASSUME NEW lo \in DOMAIN rows', NEW hi \in DOMAIN rows', ZeroRun(lo, hi)'
        PROVE  Found
    <2>1. CASE hi \in DOMAIN rows /\ lo \in DOMAIN rows
      BY <1>4, <2>1, OldRuns DEF Found
    <2>2. CASE lo = n + 1
      <3>1. \A k \in 1 .. n : ~(lo <= k)
        BY <1>2, <2>2
      <3>2. \A k \in 1 .. n + 1 : k = n + 1 \/ k \in 1 .. n
        BY <1>2
      <3>3. AnsweredIn(lo, hi)' = {}
        <4>1. \A k : k \notin AnsweredIn(lo, hi)'
          BY <1>2, <3>1, <3>2 DEF AnsweredIn
        <4>. QED
          BY <4>1
      <3>4. Cardinality(AnsweredIn(lo, hi)') = 0
        BY <3>3, FS_EmptySet
      <3>. QED
        BY <1>4, <3>4, ThresholdIsCounted DEF ZeroRun
    <2>3. CASE hi = n + 1 /\ lo \in DOMAIN rows
      <3>1. n \in DOMAIN rows /\ \A k \in 1 .. n : k <= hi /\ k <= n
        BY <1>2, <2>3
      <3>2. \A k \in 1 .. n + 1 : k = n + 1 \/ k \in 1 .. n
        BY <1>2
      <3>3. AnsweredIn(lo, hi)' = AnsweredIn(lo, n)
        <4>1. \A k : k \in AnsweredIn(lo, hi)' <=> k \in AnsweredIn(lo, n)
          BY <1>2, <3>1, <3>2 DEF AnsweredIn
        <4>. QED
          BY <4>1
      <3>4. \A k \in AnsweredIn(lo, n) : rows'[k] = rows[k]
        BY <1>2 DEF AnsweredIn
      <3>5. ZeroRun(lo, n)
        BY <1>4, <3>3, <3>4 DEF ZeroRun
      <3>. QED
        BY <2>3, <3>1, <3>5 DEF Found
    <2>4. \A k \in 1 .. n + 1 : k = n + 1 \/ k \in 1 .. n
      BY <1>2
    <2>. QED
      BY <1>2, <2>1, <2>2, <2>3, <2>4
  <1>5. Found => Found'
    BY <1>3 DEF Found
  <1>6. Found' => Found
    BY <1>4 DEF Found
  <1>. QED
    BY <1>5, <1>6

\* A row that tells of an answer ends the runs that are new.
LEMMA ToldRow ==
  ASSUME BatchTypes, NEW row \in Row, rows' = Append(rows, row), ~Failed(row), row.of # 0,
         row.vlm = told.vlm, NEW n, n = Len(rows), Threshold > 0,
         NEW p \in 0 .. n, StreakFrom(p), Pending, ~Pending', streak' = streak
  PROVE  Found' <=> Found \/ (told.vlm = "done_false" /\ streak >= Threshold)
  <1>1. /\ n \in Nat /\ DOMAIN rows = 1 .. n /\ DOMAIN rows' = 1 .. n + 1
        /\ Answered \subseteq 1 .. n /\ Answered' \subseteq 1 .. n + 1
        /\ \A k \in 1 .. n : rows'[k] = rows[k] /\ (k \in Answered' <=> k \in Answered)
        /\ n + 1 \in Answered' /\ rows'[n + 1] = row
    BY AnsweredAdded
  <1>2. /\ told.vlm = "done_false" =>
             /\ StreakFrom(p)' /\ streak = Cardinality(Since(p)') /\ IsFiniteSet(Since(p)')
        /\ told.vlm # "done_false" => StreakFrom(n + 1)'
    BY StreakTold
  <1>3. ASSUME Found PROVE Found'
    <2>1. PICK lo \in DOMAIN rows, hi \in DOMAIN rows : ZeroRun(lo, hi)
      BY <1>3 DEF Found
    <2>2. ZeroRun(lo, hi)' /\ lo \in DOMAIN rows' /\ hi \in DOMAIN rows'
      BY <1>1, <2>1, OldRuns
    <2>. QED
      BY <2>2 DEF Found
  <1>4. ASSUME told.vlm = "done_false", streak >= Threshold PROVE Found'
    <2>1. PICK lo, hi : lo = p + 1 /\ hi = n + 1
      OBVIOUS
    <2>2. lo \in DOMAIN rows' /\ hi \in DOMAIN rows'
      BY <1>1, <2>1
    <2>3. AnsweredIn(lo, hi)' = Since(p)'
      <3>1. \A k \in 1 .. n + 1 : (lo <= k /\ k <= hi) <=> p < k
        BY <1>1, <2>1
      <3>2. \A k : k \in AnsweredIn(lo, hi)' <=> k \in Since(p)'
        BY <1>1, <3>1 DEF AnsweredIn, Since
      <3>. QED
        BY <3>2
    <2>4. ZeroRun(lo, hi)'
      BY <1>2, <1>4, <2>3 DEF ZeroRun, StreakFrom
    <2>. QED
      BY <2>2, <2>4 DEF Found
  <1>5. ASSUME NEW lo \in DOMAIN rows', NEW hi \in DOMAIN rows', ZeroRun(lo, hi)'
        PROVE  Found \/ (told.vlm = "done_false" /\ streak >= Threshold)
    <2>1. CASE hi \in DOMAIN rows /\ lo \in DOMAIN rows
      BY <1>5, <2>1, OldRuns DEF Found
    <2>2. CASE hi = n + 1
      <3>1. n + 1 \in AnsweredIn(lo, hi)'
        BY <1>1, <2>2 DEF AnsweredIn
      <3>2. told.vlm = "done_false"
        BY <1>1, <1>5, <3>1 DEF ZeroRun
      <3>3. p = 0 \/ (p \in Answered' /\ rows'[p].vlm # "done_false")
        BY <1>2, <3>2 DEF StreakFrom
      <3>4. p < lo
        <4>1. CASE p = 0
          BY <1>1, <4>1
        <4>2. CASE p # 0 /\ lo <= p
          <5>1. p \in AnsweredIn(lo, hi)'
            BY <1>1, <2>2, <3>3, <4>2 DEF AnsweredIn
          <5>. QED
            BY <1>5, <3>3, <4>2, <5>1 DEF ZeroRun
        <4>. QED
          BY <1>1, <4>1, <4>2
      <3>5. AnsweredIn(lo, hi)' \subseteq Since(p)'
        <4>1. \A k \in 1 .. n + 1 : lo <= k => p < k
          BY <1>1, <3>4
        <4>. QED
          BY <1>1, <4>1 DEF AnsweredIn, Since
      <3>6. IsFiniteSet(Since(p)') /\ streak = Cardinality(Since(p)')
        BY <1>2, <3>2
      <3>7. Cardinality(AnsweredIn(lo, hi)') <= Cardinality(Since(p)')
        BY <3>5, <3>6, FS_Subset
      <3>8. Cardinality(AnsweredIn(lo, hi)') \in Nat /\ Cardinality(Since(p)') \in Nat
        BY <3>5, <3>6, FS_Subset, FS_CardinalityType
      <3>. QED
        BY <1>5, <3>2, <3>6, <3>7, <3>8, ThresholdIsCounted DEF ZeroRun
    <2>3. CASE lo = n + 1 /\ hi \in DOMAIN rows
      <3>1. \A k \in 1 .. n + 1 : ~(lo <= k /\ k <= hi)
        BY <1>1, <2>3
      <3>2. AnsweredIn(lo, hi)' = {}
        <4>1. \A k : k \notin AnsweredIn(lo, hi)'
          BY <1>1, <3>1 DEF AnsweredIn
        <4>. QED
          BY <4>1
      <3>3. Cardinality(AnsweredIn(lo, hi)') = 0
        BY <3>2, FS_EmptySet
      <3>. QED
        BY <1>5, <3>3, ThresholdIsCounted DEF ZeroRun
    <2>4. \A k \in 1 .. n + 1 : k = n + 1 \/ k \in 1 .. n
      BY <1>1
    <2>. QED
      BY <1>1, <2>1, <2>2, <2>3, <2>4
  <1>6. Found' => Found \/ (told.vlm = "done_false" /\ streak >= Threshold)
    BY <1>5 DEF Found
  <1>. QED
    BY <1>3, <1>4, <1>6

LEMMA StepBreaker ==
  BatchTypes /\ RoundInv /\ BreakerInv /\ [Next]_vars => BreakerInv'
  <1>. SUFFICES ASSUME BatchTypes, RoundInv, BreakerInv, [Next]_vars PROVE BreakerInv'
    OBVIOUS
  <1>0. /\ index \in Nat /\ Len(rows) \in Nat /\ streak \in Nat /\ Threshold \in Nat
        /\ Images' = Images
        /\ Streaked /\ StreakBounds /\ BreakerKnows
    BY ThresholdIsCounted, BreakerParts DEF BatchTypes, Images
  <1>1. CASE Detect \/ Finish \/ FinishFails
    <2>1. /\ pc = "detect" /\ ~Pending
          /\ UNCHANGED <<index, rows, streak, breaker>>
          /\ pc' = "save" => told'.of = 0
      BY <1>1, RecordsAreRecords DEF Detect, Finish, FinishFails, image, model, Pending
    <2>2. ~Pending'
      BY <2>1 DEF Pending
    <2>3. PICK p \in 0 .. Len(rows) : StreakFrom(p)
      BY <1>0 DEF Streaked
    <2>4. StreakFrom(p)'
      BY <2>1, <2>2, <2>3, StreakSame
    <2>5. Streaked'
      BY <2>1, <2>3, <2>4 DEF Streaked
    <2>6. StreakBounds'
      BY <1>0, <2>1 DEF StreakBounds
    <2>7. BreakerKnows'
      BY <1>0, <2>1, <2>2, FoundSame DEF BreakerKnows
    <2>. QED
      BY <2>5, <2>6, <2>7, BreakerPartsNext
  <1>2. ASSUME NEW row, Saves(row) \/ Rescues(row) PROVE BreakerInv'
    <2>1. /\ row \in Row /\ rows' = Append(rows, row)
          /\ UNCHANGED <<told, streak, breaker>> /\ index \in Images
          /\ \/ index' = index /\ pc' \in {"rescue", "died"}
             \/ index' = index + 1 /\ pc' = "detect"
      BY <1>2 DEF Saves, Rescues, Through, Short, RoundInv, Working
    <2>2. ~Pending'
      BY <2>1 DEF Pending
    <2>3. StreakBounds'
      BY <1>0, <2>1 DEF StreakBounds
    <2>4. PICK n, p : n = Len(rows) /\ p \in 0 .. n /\ StreakFrom(p)
      BY <1>0 DEF Streaked
    <2>5. Len(rows') = n + 1
      BY <2>1, <2>4, RowAdded
    <2>6. \/ (Failed(row) \/ row.of = 0) /\ ~Pending
          \/ ~Failed(row) /\ row.of # 0 /\ row.vlm = told.vlm /\ Pending
      BY <1>2 DEF Saves, Rescues, Pending
    <2>7. CASE (Failed(row) \/ row.of = 0) /\ ~Pending
      <3>1. StreakFrom(p)'
        BY <2>1, <2>2, <2>4, <2>7, StreakUntold
      <3>2. Streaked'
        BY <1>0, <2>4, <2>5, <3>1 DEF Streaked
      <3>3. Threshold > 0 => (Found' <=> Found)
        BY <2>1, <2>7, UntoldRow
      <3>4. BreakerKnows'
        BY <1>0, <2>1, <2>2, <2>7, <3>3 DEF BreakerKnows
      <3>. QED
        BY <2>3, <3>2, <3>4, BreakerPartsNext
    <2>8. CASE ~Failed(row) /\ row.of # 0 /\ row.vlm = told.vlm /\ Pending
      <3>1. IF told.vlm = "done_false" THEN StreakFrom(p)' ELSE StreakFrom(n + 1)'
        BY <2>1, <2>2, <2>4, <2>8, StreakTold
      <3>2. Streaked'
        <4>1. p \in 0 .. n + 1 /\ n + 1 \in 0 .. n + 1
          BY <1>0, <2>4
        <4>. QED
          BY <2>5, <3>1, <4>1 DEF Streaked
      <3>3. Threshold > 0 =>
              (Found' <=> Found \/ (told.vlm = "done_false" /\ streak >= Threshold))
        BY <2>1, <2>2, <2>4, <2>8, ToldRow
      <3>4. BreakerKnows'
        BY <1>0, <2>1, <2>2, <2>8, <3>3 DEF BreakerKnows
      <3>. QED
        BY <2>3, <3>2, <3>4, BreakerPartsNext
    <2>. QED
      BY <2>6, <2>7, <2>8
  <1>3. CASE UNCHANGED vars
    <2>1. /\ UNCHANGED <<pc, index, told, streak, breaker, rows>> /\ (Pending' <=> Pending)
      BY <1>3 DEF vars, Pending
    <2>2. \A p : StreakFrom(p) => StreakFrom(p)'
      BY <2>1 DEF StreakFrom, Since, Answered, Failed
    <2>3. Streaked' /\ StreakBounds'
      BY <1>0, <2>1, <2>2 DEF Streaked, StreakBounds
    <2>4. BreakerKnows'
      BY <1>0, <2>1, FoundSame DEF BreakerKnows
    <2>. QED
      BY <2>3, <2>4, BreakerPartsNext
  <1>. QED
    BY <1>1, <1>2, <1>3, SaveSteps, RescueSteps, DescribeBreaker DEF Next

-----------------------------------------------------------------------------
(* The theorems.                                                           *)

LEMMA InitBatch == Init => BatchInv
  <1>. SUFFICES ASSUME Init PROVE BatchInv
    OBVIOUS
  <1>0. Len(Stem) \in Nat /\ Images = 1 .. Len(Stem)
    BY ImagesNumbered
  <1>1. /\ pc = "detect" /\ index = 1 /\ found = "none" /\ told = NotRun(0) /\ service = NotRun(0)
        /\ streak = 0 /\ breaker = FALSE /\ rows = <<>> /\ summaries = <<>> /\ failures = <<>>
        /\ json = [s \in Stems |-> Unwritten] /\ csv = <<>>
    BY DEF Init
  <1>2. Len(rows) = 0 /\ DOMAIN rows = {} /\ Answered = {}
    BY <1>1 DEF Answered
  <1>3. BatchTypes
    <2>1. breaker \in BOOLEAN
      BY <1>1
    <2>. QED
      BY <1>0, <1>1, <2>1, RecordsAreRecords DEF BatchTypes
  <1>4. RoundInv
    BY <1>0, <1>1, RecordsAreRecords DEF RoundInv, Working
  <1>5. RowsInv
    BY <1>1, <1>2 DEF RowsInv
  <1>6. ListsInv
    <2>1. ASSUME NEW i \in 1 .. index - 1 PROVE FALSE
      BY <1>1
    <2>2. DOMAIN failures = {} /\ Len(summaries) = index - 1
      BY <1>1
    <2>. QED
      BY <2>1, <2>2 DEF ListsInv
  <1>7. FilesInv
    <2>1. ASSUME NEW i \in 1 .. index - 1 PROVE FALSE
      BY <1>1
    <2>. QED
      BY <1>1, <2>1 DEF FilesInv
  <1>8. StaleInv
    BY <1>1, <1>2 DEF StaleInv, StaleOnlyUncalled
  <1>9. BreakerInv
    <2>1. Since(0) = {} /\ ~Pending
      BY <1>1, <1>2 DEF Since, Pending
    <2>2. StreakFrom(0)
      BY <1>1, <2>1, FS_EmptySet DEF StreakFrom
    <2>3. Streaked
      BY <1>2, <2>2 DEF Streaked
    <2>4. StreakBounds
      BY <1>1, ThresholdIsCounted DEF StreakBounds
    <2>5. BreakerKnows
      BY <1>1, <1>2, ThresholdIsCounted DEF BreakerKnows, Found
    <2>. QED
      BY <2>3, <2>4, <2>5, BreakerParts
  <1>. QED
    BY <1>3, <1>4, <1>5, <1>6, <1>7, <1>8, <1>9 DEF BatchInv

LEMMA StepBatch == BatchInv /\ [Next]_vars => BatchInv'
  BY StepTypes, StepRound, StepRows, StepLists, StepFiles, StepStale, StepBreaker DEF BatchInv

\* What the invariant says of the accounts.
LEMMA AccountsFollow == BatchInv => AccountsAreComplete
  <1>. SUFFICES ASSUME BatchTypes, RoundInv, RowsInv, ListsInv, FilesInv, StaleInv, BreakerInv
                PROVE  AccountsAreComplete
    BY DEF BatchInv
  <1>0. /\ index \in Nat /\ Len(Stem) \in Nat /\ Images = 1 .. Len(Stem) /\ Len(rows) \in Nat
        /\ index <= Len(Stem) + 1
    BY ImagesNumbered DEF BatchTypes
  <1>1. BatchTypeOK
    <2>1. Len(rows) <= 2 * Len(Stem)
      <3>1. pc = "rescue" => index <= Len(Stem)
        BY <1>0 DEF RoundInv, Working
      <3>. QED
        BY <1>0, <3>1 DEF RowsInv
    <2>2. streak <= Len(Stem) /\ (Threshold > 0 => streak <= Threshold)
      BY <1>0 DEF BreakerInv, BatchTypes
    <2>3. \A s \in Stems : json[s] = Unwritten \/ json[s] \in Range(rows)
      BY DEF FilesInv, Range
    <2>4. /\ pc \in {"detect", "describe", "save", "rescue", "died", "done"}
          /\ index \in 1 .. Len(Stem) + 1 /\ found \in {"none", "OK", "NG"}
      BY DEF BatchTypes, Working
    <2>5. service.of \in 0 .. Len(Stem) /\ streak \in 0 .. Len(Stem)
      BY <1>0, <2>2 DEF BatchTypes, RoundInv, Record
    <2>6. Len(rows) \in 0 .. 2 * Len(Stem)
      BY <1>0, <2>1
    <2>. QED
      BY <2>2, <2>3, <2>4, <2>5, <2>6 DEF BatchTypeOK
  <1>2. EveryImageAccounted
    <2>1. SUFFICES ASSUME pc = "done"
                   PROVE  /\ Len(summaries) = Len(Stem)
                          /\ \A i \in Images :
                               /\ summaries[i].image = i
                               /\ \E k \in RowsOf(i) :
                                    EndsAt(i, k) /\ (Contains(failures, i) <=> Failed(rows[k]))
                               /\ \A k, m \in RowsOf(i) :
                                    k < m => m = k + 1 /\ ~Failed(rows[k]) /\ Failed(rows[m])
      BY DEF EveryImageAccounted
    <2>2. index = Len(Stem) + 1 /\ index - 1 = Len(Stem)
      BY <1>0, <2>1 DEF RoundInv, BatchTypes
    <2>3. ASSUME NEW i \in Images
          PROVE  \A k, m \in RowsOf(i) :
                   k < m => m = k + 1 /\ ~Failed(rows[k]) /\ Failed(rows[m])
      BY DEF RowsInv, RowsOf
    <2>. QED
      BY <1>0, <2>2, <2>3 DEF ListsInv
  <1>3. CsvHoldsAll
    BY DEF FilesInv, CsvHoldsAll
  <1>4. ResultKept
    BY DEF FilesInv, ResultKept
  <1>. QED
    BY <1>1, <1>2, <1>3, <1>4 DEF AccountsAreComplete, StaleInv

\* Whatever the list of images and whatever fails, the accounts of run_vlm_test_batch.py
\* are complete: a batch that ends has one summary for each image, a row tells of another
\* image's call only if none was made for its own, and the CSV and the result files hold
\* what the rows say whenever an image is through.
THEOREM AccountsAlwaysComplete == Spec => []AccountsAreComplete
  BY InitBatch, StepBatch, AccountsFollow, PTL DEF Spec

\* Once the rows tell of the last answer, a run of them is what opened the breaker.
LEMMA BreakerFollows == BatchInv => BreakerJustified
  <1>. SUFFICES ASSUME BatchTypes, BreakerInv, pc # "save" PROVE
          breaker <=> Threshold > 0 /\ Found
    BY DEF BatchInv, BreakerJustified, Found
  <1>1. BreakerKnows /\ ~Pending /\ breaker \in BOOLEAN /\ Threshold \in Nat
    BY BreakerParts, ThresholdIsCounted DEF Pending, BatchTypes
  <1>. QED
    BY <1>1 DEF BreakerKnows

\* A service that is asked has its breaker closed.
LEMMA OpenIsFinal ==
  ASSUME BatchInv, [Next]_vars, breaker, service' # service
  PROVE  FALSE
  <1>1. Describe
    BY DEF Next, Detect, Save, Rescue, Finish, FinishFails, model, vars
  <1>2. pc = "describe"
    BY <1>1 DEF Describe, DescribeRaises, DescribeAnswers
  <1>. QED
    BY <1>2 DEF BatchInv, RoundInv

\* For every list of images and every threshold, the breaker opens exactly when that many
\* answers in a row were done_false fallbacks, and the service is not asked again.
THEOREM BreakerAlwaysHolds == Spec => BreakerHolds
  <1>1. BatchInv /\ [Next]_vars => [breaker => UNCHANGED service]_vars
    BY OpenIsFinal
  <1>. QED
    BY <1>1, InitBatch, StepBatch, BreakerFollows, PTL DEF Spec, BreakerHolds, BreakerIsFinal
=============================================================================
