----------------------------- MODULE AllBackends -----------------------------
(***************************************************************************)
(* scripts/compare_all_backends.py: every backend in turn is created,      *)
(* warmed up and measured on all images; the detections it gave first are  *)
(* compared with the other backends' when all are through.                 *)
(***************************************************************************)
EXTENDS DetectionMatching

CONSTANTS
    Backends,      \* the names of the runner factories, the baseline first
    ComparedPairs, \* COMPARISON_PAIRS
    ImageCount,    \* how many images there are
    Namings,       \* the names that the files of the images may have
    Repeat,        \* --repeat
    Measurements,  \* what the runs of one image may give before one raises
    Absent         \* a result that there is not

\* What a run of a backend on an image gives.
Runs == [found : Seq(Detections), fallback : BOOLEAN]

\* A name has a stem and a suffix, counted in the alphabetical order.
ImageNames == [stem : STRING, suffix : Nat]

\* What a file of mismatch_cases holds: the name, and whose detections.
Files == [image : ImageNames, of : Nat]

ASSUME BaselineIsFirst ==
    /\ Backends \in Seq(STRING) /\ Backends # <<>> /\ IsInjective(Backends)
    /\ Backends[1] = "pytorch"
ASSUME PairsAreOfBackends ==
    /\ ComparedPairs \in Seq(Range(Backends) \X Range(Backends))
    /\ IsInjective(ComparedPairs)
\* Images of different directories may have one name.
ASSUME ImagesAreNamed ==
    /\ ImageCount \in Nat \ {0}
    /\ Namings \subseteq [1 .. ImageCount -> ImageNames]
ASSUME RepeatIsPositive == Repeat \in Nat \ {0}
ASSUME RunsAreRead ==
    \A runs \in Measurements : runs \in Seq(Runs) /\ Len(runs) <= Repeat
ASSUME AbsentIsNone == Absent \notin Seq(Detections) \cup Files

VARIABLES
    stage,         \* where run_benchmark is
    turn,          \* the position of the backend in Backends
    shown,         \* the image that is measured
    runners,       \* the backends whose runner exists
    canonical,     \* the first detections by backend and image
    imageRows,
    timings,       \* timing_rows: the runs of each backend on each image
    errors,        \* backend_errors
    comparisons,
    outcome        \* the final status, the names of the images and the files of
                   \* the reports

allVars == <<stage, turn, shown, runners, canonical, imageRows, timings, errors,
             comparisons, outcome>>

Names == Range(Backends)
Pictures == 1 .. ImageCount
Backend == Backends[turn]
measured == <<canonical, imageRows>>

AllInit ==
    /\ stage = "create" /\ turn = 1 /\ shown = 1
    /\ runners = {}
    /\ canonical = [b \in Names |-> [i \in Pictures |-> Absent]]
    /\ imageRows = <<>>
    /\ timings = [b \in Names |-> [i \in Pictures |-> <<>>]]
    /\ errors = [b \in Names |-> "none"]
    /\ comparisons = <<>>
    /\ outcome = Absent

\* factory.create(); an exception leaves no runner to close.
CreateRunner ==
    /\ stage = "create"
    /\ \/ /\ runners' = runners \cup {Backend}
          /\ stage' = "warmup" /\ UNCHANGED errors
       \/ /\ errors' = [errors EXCEPT ![Backend] = "raised"]
          /\ stage' = "close" /\ UNCHANGED runners
    /\ UNCHANGED <<turn, shown, measured, timings, comparisons, outcome>>

\* The warm-up on the first image; an exception is the backend's.
WarmUp ==
    /\ stage = "warmup"
    /\ \/ stage' = "measure" /\ UNCHANGED errors
       \/ /\ errors' = [errors EXCEPT ![Backend] = "raised"]
          /\ stage' = "close"
    /\ shown' = 1
    /\ UNCHANGED <<turn, runners, measured, timings, comparisons, outcome>>

Unstable(runs) ==
    \E k \in 2 .. Len(runs) :
        CompareDetectionLists(runs[1].found, runs[k].found).status = "FAIL"

\* build_image_row: the runs differ, or one fell back to another provider.
ImageRow(runs) ==
    IF Unstable(runs) \/ \E k \in DOMAIN runs : runs[k].fallback THEN "WARNING" ELSE "PASS"

\* A run that raised fails the image.
StatusOf(runs) == IF Len(runs) < Repeat THEN "FAIL" ELSE ImageRow(runs)

\* The first run's detections, if no run raised.
Canonical(runs) == IF Len(runs) < Repeat THEN Absent ELSE runs[1].found

\* All runs on one image; an exception is the image's, and the timings of the
\* runs before it remain.
MeasureImage ==
    /\ stage = "measure"
    /\ \E runs \in Measurements :
        /\ canonical' = [canonical EXCEPT ![Backend][shown] = Canonical(runs)]
        /\ imageRows' = Append(imageRows,
               [backend |-> Backend, image |-> shown,
                status |-> StatusOf(runs)])
        /\ timings' = [timings EXCEPT ![Backend][shown] = runs]
    /\ IF shown + 1 \in Pictures
       THEN shown' = shown + 1 /\ stage' = "measure"
       ELSE shown' = shown /\ stage' = "close"
    /\ UNCHANGED <<turn, runners, errors, comparisons, outcome>>

\* A failed baseline ends the loop.
AfterBackend ==
    IF turn < Len(Backends) /\ errors["pytorch"] = "none" THEN "create" ELSE "compare"

\* The runner is closed in finally.
Closed == runners \ {Backend}

CloseRunner ==
    /\ stage = "close"
    /\ runners' = Closed
    /\ stage' = AfterBackend
    /\ turn' = IF stage' = "create" THEN turn + 1 ELSE turn
    /\ errors' = IF errors["pytorch"] = "none" THEN errors
                 ELSE [b \in Names |-> IF errors[b] = "none" THEN "not_run" ELSE errors[b]]
    /\ UNCHANGED <<shown, measured, timings, comparisons, outcome>>

\* An exception of close() ends the program: there are no reports.
CloseRaises ==
    /\ stage = "close" /\ runners # {}
    /\ stage' = "died"
    /\ UNCHANGED <<turn, shown, runners, measured, timings, errors, comparisons, outcome>>

\* One comparison; a result that is not there is a mismatch.
Compare(pair, i) ==
    LET reference == canonical[pair[1]][i]
        target == canonical[pair[2]][i]
        compared == IF Absent \in {reference, target}
                    THEN [count |-> 1, status |-> "FAIL"]
                    ELSE CompareDetectionLists(reference, target)
    IN  [pair |-> pair, image |-> i, count |-> compared.count, status |-> compared.status]

\* Pair after pair, and image after image of it.
AllComparisons ==
    [k \in 1 .. Len(ComparedPairs) * ImageCount |->
        Compare(ComparedPairs[((k - 1) \div ImageCount) + 1], ((k - 1) % ImageCount) + 1)]

ComparePairs ==
    /\ stage = "compare"
    /\ comparisons' = IF errors["pytorch"] # "none" THEN <<>> ELSE AllComparisons
    /\ stage' = "report"
    /\ UNCHANGED <<turn, shown, runners, measured, timings, errors, outcome>>

\* Mutated form of OverallStatus: a warning is looked for first.
OverallStatusLenient(statuses) ==
    IF "WARNING" \in statuses THEN "WARNING"
    ELSE IF "FAIL" \in statuses THEN "FAIL"
    ELSE IF statuses = {"BASELINE"} THEN "BASELINE" ELSE "PASS"

OverallStatus(statuses) ==
    IF "FAIL" \in statuses THEN "FAIL"
    ELSE IF "WARNING" \in statuses THEN "WARNING"
    ELSE IF statuses = {"BASELINE"} THEN "BASELINE" ELSE "PASS"

StatusesOf(rows) == {row.status : row \in rows}

\* build_backend_rows: the result of a backend.
BackendRow(b) ==
    LET images == StatusesOf({row \in Range(imageRows) : row.backend = b})
        compared == StatusesOf({c \in Range(comparisons) : c.pair[2] = b})
    IN  IF errors[b] # "none" \/ "FAIL" \in images THEN "FAIL"
        ELSE IF b = "pytorch" THEN "BASELINE"
        ELSE OverallStatus(images \cup compared)

FinalStatus ==
    OverallStatus({BackendRow(b) : b \in Names} \cup StatusesOf(Range(comparisons)))

Differing == {c.image : c \in {d \in Range(comparisons) : d.status # "PASS"}}

\* The images of a name for which backend b gave detections.
Found(names, name, b) == {i \in Pictures : names[i] = name /\ canonical[b][i] # Absent}

\* The file of backend b in the directory of a stem, Absent if there is none: the
\* names of that stem are written in their order, each with the detections of the
\* first image that has the name, whether it differs or not.
CaseFile(names, stem, b) ==
    LET written == {n \in {names[i] : i \in Differing} :
                        n.stem = stem /\ Found(names, n, b) # {}}
        last == CHOOSE n \in written : \A m \in written : m.suffix <= n.suffix
    IN  IF written = {} THEN Absent
        ELSE [image |-> last, of |-> Min(Found(names, last, b))]

\* write_mismatch_cases: a directory for the stem of every name that an image has
\* which a comparison did not pass.
MismatchCases(names) ==
    [s \in {names[i].stem : i \in Differing} |-> [b \in Names |-> CaseFile(names, s, b)]]

\* The names of the images are not asked for before.
WriteReports ==
    /\ stage = "report"
    /\ \/ /\ stage' = "done"
          /\ \E names \in Namings :
                 outcome' = [final |-> FinalStatus, names |-> names,
                             cases |-> MismatchCases(names)]
       \/ stage' = "died" /\ outcome' = Absent
    /\ UNCHANGED <<turn, shown, runners, measured, timings, errors, comparisons>>

AllNext ==
    CreateRunner \/ WarmUp \/ MeasureImage \/ CloseRunner \/ CloseRaises
        \/ ComparePairs \/ WriteReports

-----------------------------------------------------------------------------
\* Whatever raises, no two backends hold the GPU at once, and none does when
\* the comparison begins.
OneRunnerAtATime ==
    /\ Cardinality(runners) <= 1
    /\ stage \in {"create", "compare", "report", "done"} => runners = {}

\* If the baseline failed no other backend is created, all are failed, and
\* nothing is compared; any other failure leaves every pair compared on every
\* image exactly once.
BaselineGates ==
    stage \in {"report", "done"} =>
        IF errors["pytorch"] # "none"
        THEN /\ comparisons = <<>>
             /\ \A b \in Names \ {"pytorch"} :
                    errors[b] = "not_run" /\ \A i \in Pictures : canonical[b][i] = Absent
        ELSE \A pair \in Range(ComparedPairs), i \in Pictures :
                 Cardinality({k \in DOMAIN comparisons :
                     comparisons[k].pair = pair /\ comparisons[k].image = i}) = 1

\* A failed image has no detections to compare, a measured one has.
RowsTellResults ==
    \A row \in Range(imageRows) :
        row.status = "FAIL" <=> canonical[row.backend][row.image] = Absent

\* The final status is FAIL unless every backend gave detections for every image
\* and no two compared ones differ in them.
FinalTellsAll ==
    stage = "done" =>
        (outcome.final = "FAIL" <=>
             \/ \E b \in Names, i \in Pictures : canonical[b][i] = Absent
             \/ \E b \in Names : errors[b] # "none"
             \/ \E pair \in Range(ComparedPairs), i \in Pictures :
                    CompareDetectionLists(canonical[pair[1]][i],
                                          canonical[pair[2]][i]).status = "FAIL")

\* A final PASS means that no backend but the baseline, whose rows of images are
\* not looked at, gave different detections in two runs or fell back.
PassMeansStable ==
    stage = "done" /\ outcome.final = "PASS" =>
        \A b \in Names \ {"pytorch"}, i \in Pictures :
            /\ Len(timings[b][i]) = Repeat /\ ~Unstable(timings[b][i])
            /\ \A k \in 1 .. Repeat : ~timings[b][i][k].fallback

\* No other image has its name, and no other that differs has its stem.
Unmistakable(i) ==
    /\ \A j \in Pictures : outcome.names[j] = outcome.names[i] => j = i
    /\ \A j \in Differing : outcome.names[j].stem = outcome.names[i].stem => j = i

\* Every image that a comparison did not pass has a case, with a file of each backend
\* that gave detections for it.  The file is of that image if it is unmistakable.
\* If not, the file may name another that differs and has its stem, and hold the
\* detections of another image of the name, but only of the first one that has any.
CasesTell ==
    stage = "done" =>
        \A i \in Differing :
            LET named == outcome.names
                files == outcome.cases[named[i].stem]
            IN  /\ named[i].stem \in DOMAIN outcome.cases
                /\ \A b \in Names :
                       /\ canonical[b][i] # Absent => files[b] # Absent
                       /\ Unmistakable(i) =>
                              files[b] = IF canonical[b][i] = Absent THEN Absent
                                        ELSE [image |-> named[i], of |-> i]
                       /\ files[b] # Absent =>
                              /\ \E j \in Differing :
                                     named[j] = files[b].image /\ named[j].stem = named[i].stem
                              /\ files[b].of \in Pictures
                              /\ named[files[b].of] = files[b].image
                              /\ canonical[b][files[b].of] # Absent
                              /\ \A j \in Pictures :
                                     named[j] = files[b].image /\ j < files[b].of =>
                                         canonical[b][j] = Absent

\* The reports tell what was measured, on one backend at a time.
ReportsTellMeasurements ==
    /\ OneRunnerAtATime /\ BaselineGates /\ RowsTellResults
    /\ FinalTellsAll /\ PassMeansStable /\ CasesTell
=============================================================================
