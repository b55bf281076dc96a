# A TLA+ verification of V_VLM

V_VLM inspects photographs of printed circuit boards. A desktop application
(PySide6) runs a YOLO detector over the images of a folder, saves every result
in SQLite, and lets the user ask a local VLM (Ollama) to describe the defects of
a saved inspection. The detector is PyTorch, ONNX Runtime, or a C++ TensorRT
program that the application keeps running beside itself and talks to over
pipes.

This directory holds TLA+ modules translated from that code, TLC
configurations that check them on small instances, and theorems checked by
TLAPS. Paths below are relative to the repository.

## 1. The system

| component | code | state | operations | interacts with |
|---|---|---|---|---|
| Persistent TensorRT worker, Python side | `service/tensorrt_persistent_worker.py` | process handle, response queue, reader thread, lock | `start`, `infer`, `stop`, `restart`, `_terminate_process` | the C++ process over stdin and stdout; callers over one `RLock` |
| TensorRT worker process | `cpp_inference/src/tensorrt_worker.cpp` | engine, request loop | `ready`, `infer`, `shutdown`, fatal exit | one JSON line per request and per answer |
| Detector adapter | `service/tensorrt_detector_adapter.py` | its worker object | `infer`, `close` | the worker; a one-shot program as fallback |
| Inspection service | `service/inspection_service.py` | none of its own | `inspect_image`, `inspect_yolo_only`, `run_vlm_for_inspection` | detector, repository, VLM service |
| Repository and database | `repository/*.py`, `schema.sql` | table `inspections`, table `defects` | `save`, `find_by_id`, `search`, `count`, `try_mark_vlm_processing`, `update_vlm_result`, `delete_by_id`, `delete_all` | SQLite, one transaction each |
| History deletion | `service/inspection_history_service.py` | none | `delete_history`, `delete_all_history` | repository, image files |
| Inspection run | `viewmodel/inspection_viewmodel.py` | thread, worker, two flags | `start_auto_inspection`, `pause`, `resume`, `stop`, `shutdown` | Qt signals queued to the main thread |
| Inspection view, main window | `view/inspection_view.py`, `view/main_window.py` | paused, stop requested, failed, progress, buttons | the clicks, the handlers of the signals, `closeEvent` | the view model |
| History view | `view/history_view.py` | the running generation, the selected row | generate, search, delete | its thread, history view model |
| System status view | `view/status_view.py`, `service/ollama_status_service.py` | the checking thread | refresh, stop | an HTTP request to Ollama |
| VLM service | `service/vlm_service.py`, `vlm/*.py` | attempt counters of one call | describe with retries, recovery and unload | Ollama over HTTP |
| ONNX detector | `service/onnx_detector.py` | cached session | `detect` with letterbox and NMS | ONNX Runtime |
| Settings and backend factory | `config/detector_settings.py`, `service/detector_backend_factory.py`, `view/inference_settings_view.py`, `InspectionViewModel` | settings file, the service in use and what it was made of | load, save, create a detector, exchange the service, shut down | all detectors |
| Statistics | `service/statistics_service.py` | none | aggregation by period and type | repository |
| One-shot C++ programs, benchmarks | `cpp_inference/src/` | none that outlives a run | detect one image or a directory | inference libraries |
| Batch of descriptions | `scripts/run_vlm_test_batch.py` | rows, result files, CSV, a circuit breaker | detect, describe, save each image | ONNX detector, VLM service |
| Comparison programs | `scripts/compare_*.py`, `compare_predictions.py` | the results of every image and backend | measure, pair detections, judge, recommend | the detectors, each other's files |
| Tools, training, evaluation | `tools/`, `train.py`, `scripts/evaluate_onnx.py` | files they write | splits, training, metrics | libraries |

### What is hard here

- **Time-outs race late answers.** A request that timed out may still be
  answered. The worker process is therefore killed and its queue replaced, and
  every answer carries the id of its request. Both are needed: the reader thread
  of a killed process may still hold lines.
- **Everything may fail halfway.** The process may not start, print garbage,
  crash, ignore `terminate()`, even outlive `kill()`.
- **A database row has several writers.** Inspections go on while a generation
  describes a row that the user deletes. A second application may have the same
  database open. Every repository call is a transaction, the sequences of
  calls in the services are not.
- **Files and rows are two stores.** An inspection writes its image first and its row
  second; a deletion removes the row first and the files second.
- **Signals are late.** The worker thread's signals queue up behind the user's
  clicks; a modal box handles them in a nested loop.
- **References are cleared late.** The clean-up of a thread that has ended is queued, and
  clears whatever reference is there by then.
- **Objects are kept before they are checked.** An ONNX session that was refused is
  there for the next call.
- **Two languages, one promise.** Python and C++ decode the network's output in their own order.
- **Batches go on after exceptions.** Times, results and files of an image that raised half-way
  must not be counted for another.

`PROJECT.json` lists each of these at its line under "hazards".

### What makes each component correct

- *Worker*: an answer belongs to the request it is returned for; one process at
  a time; nothing is sent before `ready`; a failed call leaves no process; the
  lock is always given back.
- *Adapter*: every call ends with its own image's detections or an exception,
  whichever way it took; the one-shot program never meets a living worker.
- *Service, repository, deletion*: a description is stored in the row it was made for;
  a row says PROCESSING exactly while a generation will still resolve it;
  deletions never take a file that a remaining row shows, and leave none behind.
- *Run and view*: pause and stop take hold within one image; the view says
  "done" only when all is done; it returns to rest; the window closes only when
  nothing runs.
- *History view*: a late result is shown at its row and nowhere else; when a generation is
  over, table, detail and button say what the database says; its thread is given back.
- *VLM service and parser*: every exit unloads the model and leaves a record of that
  call; attempts are bounded; a text is accepted exactly if it conforms to the schema.
- *Status view*: one check runs at a time; the window closes over none that the view knows; each check
  is shown and ends.
- *Detectors and settings*: Python and C++ letterbox and decode alike; detections come only of a model
  that can be used; the service in use is the one of the saved settings, and it is open.
- *Batch of descriptions*: every image has its row, file and place in the totals, whatever raised; the
  circuit breaker opens exactly when it should and for good.
- *Comparisons*: no detection is paired twice, nothing that would pair is left; a pass or a
  recommendation is given only on evidence; a failed image is never read as an empty one.

## 2. Modules

| module | models | composed of |
|---|---|---|
| `TensorRtWorker` | the Python worker object and the C++ loop | |
| `DetectorCalls` | what any detector promises its caller (abstract) | |
| `TensorRtAdapter` | the adapter with worker and fallback; implements `DetectorCalls` | `TensorRtWorker` |
| `TensorRtProofs` | theorems about the worker and the adapter | `TensorRtAdapter` |
| `InspectionHistory` | inspection service, repository, files, deletions | |
| `InspectionHistoryProofs` | theorems about it | `InspectionHistory` |
| `InspectionRun` | worker thread, signal queue, view, closing | |
| `InspectionRunProofs` | theorems about it | `InspectionRun` |
| `HistoryView` | the history screen, its generation thread and signals, over an abridged table | |
| `HistoryViewProofs` | theorems about it | `HistoryView` |
| `ResponseParser` | the checks of `parse_vlm_response` as operators | |
| `VlmGeneration` | `describe_defects`: attempts, recovery, record, unloading | `ResponseParser` |
| `StatusCheck` | the status view, its checking threads and signals, closing | |
| `OllamaProofs` | theorems about the generation and the status check | `VlmGeneration`, `StatusCheck` |
| `OnnxSession` | the cached session and its checks, call after call | |
| `OnnxDecoding` | letterbox, decoding and suppression, in Python and in C++ | |
| `DetectorExchange` | the settings and the exchange of the inspection service | |
| `Detectors` | one of the three at a time | `OnnxSession`, `OnnxDecoding`, `DetectorExchange` |
| `DetectorsProofs` | theorems about the three | `Detectors` |
| `VlmBatch` | `run_vlm_test_batch.py` | |
| `VlmBatchProofs` | theorems about it | `VlmBatch` |
| `DetectionMatching` | greedy pairing, statuses and counts of the comparison programs | |
| `CompareImages` | two lists of detections given to each program | `DetectionMatching` |
| `BackendRecommendation` | `compare_cpp_inference_backends.py` | `DetectionMatching` |
| `AllBackends` | `compare_all_backends.py` | `DetectionMatching` |
| `PairedBatch` | `compare_pytorch_onnx_batch.py`, `compare_python_cpp_onnx_batch.py` | `DetectionMatching` |
| `Comparisons` | one of the four at a time | the four above |
| `ComparisonsProofs` | theorems about the four | `Comparisons` |
| `MC*` | constants for TLC | the module of that name |

Operators named as mutated forms in a comment are not part of a specification.
They are plausible bugs, one for each property, and TLC finds each of
them when it replaces the action it is a form of.

### `TensorRtWorker`

`handle`, `queue` and `reader` are `_process`, `_stdout_queue` and the daemon
threads; `holder`, `pc`, `reqId` and `err` are the thread inside the lock, where it
is in its method, the id of its request and the exception it carries;
`phase`, `stdin`, `stdout` are the operating system's and the C++ program's. A call
is `Call` (a thread arrives), `Acquire` (it gets the lock) and the steps of
`HolderStep`, one for each thing that can be waited for or fail: `Popen`, `ReadReady`,
`WriteRequest`, `ReadReply`, `Terminate`, ... . A time-out (`ReadTimeout`,
`ByeWaitTimeout`, `TerminateTimeout`, `KillTimeout`) may happen at any moment at
which the thing waited for is not there: durations are abstracted. A line of
JSON is a record of its kind, its id, the image its content was computed from
and the process that wrote it; the latter two are not in the text and serve the properties.
The drain of stderr, excerpts for messages and timings are left out.

### `DetectorCalls` and `TensorRtAdapter`

`DetectorCalls` is the contract of `detect`: a call is pending for an image until it
ends with the detections of that image or with an exception, and it does end.
`TensorRtAdapter` extends `TensorRtWorker` with the stages of a call (resolve the file,
ask the worker, fall back, one-shot run) and with `close`. `KeepsPromise`
is `DetectorCalls!Spec` under the mapping of a stage to a pending image.
`orphans` remembers processes whose object `close` has dropped although they
did not die; the properties on processes except them and say so.

### `InspectionHistory`

`rows` is the table, indexed by the id that SQLite issues (`AUTOINCREMENT`:
`nextId` never goes back); `results` and `sources` are the files. `shot[a]`, `gen[a]`
and `del[a]` are the three activities of an application: an inspection between detector and
`save`, a generation, a deletion. Each action is one transaction or one file
operation. `gen[a].row` is the copy of the row that the service read and acts on
later, which is where stale data comes from. A row knows the detection it was
saved from (`of`), and a description is given by the detection it describes: two
rows with one id would be told apart. `abandoned` holds the rows whose
generation was cut off by a crash or a database error. A result image is
numbered by the detection that wrote it, as its file name (stem of the
source and a uuid) is new each time. Filters of the search, columns
that no property tells apart and the table of defects are left out; defects are saved and
deleted in the transaction of their row.

### `InspectionRun`

`worker` is `InspectionWorker` with a place in `run`, split wherever a flag can
change between a look and the deed; `queue` holds the Qt events posted to the main thread; `view` is what
`InspectionView` remembers and shows; `boxes` is the stack of modal boxes:
clicks need it to be empty, events do not. `past` records what happened, for the
properties alone. `thread` goes from Starting to Ended as the events `quit` and
`cleanup` are handled, because `is_running` asks for the object and not for the
thread.

### `HistoryView`

`view` is what the screen shows: the table (a text for each listed id), the selected row,
the detail and the button. `worker` is `HistoryVlmWorker` by the transactions of
`run_vlm_for_inspection`; the database is `rows`, reduced to status and the
presence of a description (`InspectionHistory` has the rest). Signals wait in `queue`, and a
handler that opens a box lets the next ones in before it returns. `reload` is all one step (`Reloaded`), or it
stops at one of its queries (`ReloadRaises`). The ghost `unread` is set when a failed query hid a
result from the screen and cleared when the table is filled again. The range of dates is not a
variable: whether `reload` refuses is a choice.

### `ResponseParser` and `VlmGeneration`

A text of the model is a record of what the checks look at. `ParseVlmResponse` is the sequence of
checks, the first that is not passed giving the exception; `Conforms` says what the schema asks for, in
one formula. `VlmGeneration` is one object that makes call after call. `last` is the record `last_*`; a raw
response is given by the number of its request. `used` says that a request was sent after the last
attempt to unload, which may itself fail: `_unload_client_model` catches everything. The fallback
after the loop (line 343) cannot be reached, as every last attempt returns.

### `StatusCheck`

`phase[t]` is the life of each thread ever made, `ref` the view's `_thread`, `worker` the workers that live,
`events` the signals and clean-ups queued to the main thread. A worker lives in its thread, so that
`started` calls `run` before the thread's event loop begins; `quit` and the clean-up are queued. A clean-up clears
`ref` without a look at which thread it is for: `orphans` holds the threads that were forgotten so. Closing is
quit, a wait that succeeds or times out, and the refusal; while it waits no event is handled. `CheckStatus` gives
the card's state for every answer, malformed one or exception of the HTTP request.

### `OnnxSession`, `OnnxDecoding`, `DetectorExchange` and `Detectors`

A model file is a record of what `_validate` and the parsers ask: number and type of its tensors, its input size,
its channels, its class names. `OnnxSession` makes any calls with any settings; `validated` tells whether the session
at hand passed its checks. `OnnxDecoding` computes once, for a shape or for an output. Ratios are
exact integers (units of `1/imgsz` of a pixel) where the code has floats; the two letterboxes have operators of
their own, with Python's halves to even and C++'s explicit order. The loop of the suppression is given by what it
ends with (`Kept`): a candidate is dropped exactly if a kept one before it, of its class, overlaps it. A list of
detections is given by how many are before each. C++ orders equal scores by index. Python does not say how
(`PythonRanks`: any ranks, since `argsort` is not stable), puts what is left class after class and sorts it by score
again, so that the lists of both languages may differ in the order of equal scores, and only there. `DetectorExchange` goes from the inputs of the settings
view to the service that an inspection uses: `store` is the file (well-formed or not), `active` and `from` the
settings in force and the ones the service was made of, `open` the services not closed, `unclosed` those whose
`close` raised. `Detectors` runs one of the three and leaves the rest alone: one TLC run for three
independent state machines.

### `VlmBatch` and the comparison programs

`VlmBatch` is the loop of `main()`: detect, describe, save, and the rescue of an image that raised, whose own
writes may fail too. `told` is what was copied from the service for this image and `service` the attributes `last_*` of whichever image
was last described. Files are what they hold, by the stem of their name: two images may have one stem.

`DetectionMatching` has the pairing that the programs share. Their loop sorts the candidates by largest overlap,
then smaller indices, and takes each one whose detections are both free. `IsGreedy` says what that loop ends with: a
candidate is taken exactly if no taken one before it has one of its detections. `GreedyPairs` is the one matching
that is so (that there is one and only one is proved). On it rest the verdicts of each program and the counts
of `compare_predictions.py`. `BackendRecommendation` reads three directories, compares them in pairs and recommends.
`AllBackends` creates, warms up, measures and closes one runner after another; every step may raise. `PairedBatch` runs
two backends on every image, with an exception at any of its steps, and then the files, statistics and exit code.
The images of `AllBackends` get their names when the reports are written, which is when the code first goes by
them: `write_mismatch_cases` collects the names of the images that differ in a set, goes through them in order, and writes for each the detections
of the first image that has the name (`Found`, `CaseFile`) into the directory of its stem.
The timings of a result are the set of images they are of: one, or none for an error.
Confidences and overlaps are counted in thousandths; a box is a tuple of four integers. Printing is
taken not to raise.

## 3. Runs

| run | asks | bounds |
|---|---|---|
| `worker_safety` | two threads, all operations, all failures: `SafetyInv` (types, one process with its own queue, handshake first), `AnswerMatchesRequest`, `FailureLeavesNoProcess` | 2 threads, 2 images, 3 ids, 2 processes, one line of noise |
| `adapter_promise` | `KeepsPromise` (refinement: no call hangs or ends with another image's result), `AdapterInv` (a one-shot run never meets a living worker), `CloseLeavesNoProcess` | 1 thread (the inspection thread), no noise |
| `history` | one application: `HistoryInv` (types, live rows keep their images), `OwnDescription`, `ProcessingHasOwner`, `FailureKeepsDescription` | 3 inspections, 1 fault, the original inside the managed directory |
| `history_reservation` | two applications: `ReservationHeld`, `OneGenerator`, `ProcessingResolves` | 2 inspections, 1 fault, originals outside the managed directory |
| `history_delete_all_doc` | what the dialog promises: violated | 1 application that inspects and deletes, no fault |
| `inspection_run` | `ViewFitsRun`, `HaltTakesHold`, `OutcomesAreReal`, `RunsEnd` | folders of 0, 1 and 3 images |
| `history_view` | `ViewAgrees`, `OfferIsFree`, `ClosedAfterResult`, `GenerationSettles` | 2 rows, each NG or OK, 1 failed query |
| `vlm_generation` | `UnloadedAtRest`, `RecordsTellCall`, `AcceptsExactly` | 2 retries, texts that deviate in up to two places |
| `vlm_batch` | `AccountsAreComplete`, `BreakerHolds` | 4 images, two of one stem, a breaker at 2 |
| `status_check` | `ChecksAreOwned`, `ClosedIsQuiet`, `ChecksSettle` | 3 checks |
| `detectors` | `AnswersAreChecked`; `LetterboxIsFaithful`, `DecodingIsFaithful`; `ExchangeInv`, `SettingsTakeEffect` | 64 kinds of model; sides of 1 to 50 in a square of 16, outputs of up to 3 of 9 candidates; 2 engines, 2 hidden options, 3 services |
| `comparisons` | `MatchingsAreSound`, `VerdictsAreSound`, `CountsAreSound`; `RecommendationIsSound`; `ReportsTellMeasurements`; `BatchTellsResults` | every two of 50 lists of up to 2 detections; up to 2 images in three directories; 3 backends, 2 images with one name, one stem or two stems, 2 repeats; 3 images |

A property whose name is a plural sentence, such as `ViewAgrees`, is a conjunction of named parts, each with its comment in
the module.

Why the bounds are enough. Two processes are one that died and its successor, whose lines might mix;
an id is fresh if no line on its way and no request carries it, so three let two stale
answers meet a new request. Noise is bounded because a process could fill its pipe
with it; one line already breaks a protocol. Two images suffice to tell
an answer from a wrong one. Three inspections allow a row to be deleted, another to be
added and a third to remain; two applications are the fewest that
compete for a row. Folders of three images have a first, a middle and a last.
In the history view one row is described while the other, NG or OK, is selected, saved or deleted. Two
retries allow a recovery, a second unloading and an answer after it. Three checks are one that ends, one whose reference its
clean-up clears, and one that is started beside it. Four images let the breaker open and meet another image.
The shapes include sides that vanish, odd margins and both orientations. Three
candidates let one suppress a second that would have suppressed a third. Three services let one whose close raised
meet two exchanges. The overlaps of the comparison lists lie on, above and below every limit
of the programs, and so do the differences of confidence.
Except for the checks and services, which are counted, no run bounds the number of calls, starts, pauses or
generations. Deadlock is not checked where the system may come to rest: after the window has closed
(`inspection_run`, `history_view`, `status_check`) and when a program has ended (`detectors`, `comparisons`).

### What the violated run shows

`history_delete_all_doc`: `delete_all_history` reads the rows and deletes in a later transaction whatever is there
by then. The images of rows saved in between stay, although the dialog says that all result images are deleted.

### Other disagreements met while modelling

They follow from the modules and are stated there as parts or exceptions of the properties:

- The README (line 506) has every time-out of the worker fall back to the one-shot program. A worker that outlives
  `kill()` makes the second `process.wait` raise `subprocess.TimeoutExpired`, which is no worker error: there is
  no fallback, and the call raises (`TensorRtAdapter`).
- The README (line 160) has a failed check of the structure give a fallback text. A JSON array or object as
  `visibility` or `final_judgment` is looked up in a Python set, which raises `TypeError`; only `ValueError`
  and `RuntimeError` become a fallback, so the generation fails (`ResponseParser`, `VlmGeneration`).
- The README (line 212) numbers what remains after a deletion anew. A deletion ends with `reload()`, which
  refuses to run when the first day of the search is after the last. The deleted record then stays in the table
  (`HistoryView`: `reload` may refuse).
- `inspection_service.py:105` writes FAILED when the image is gone, outside the reservation. An original inside
  the managed directory is deleted with one of its rows; while a generation of another of its rows is
  under way, a second one overwrites the reservation. `ReservationHeld` is therefore checked, and proved, for
  originals outside that directory.
- The README (line 542) has `mismatch_cases/` hold the detections of each backend for a mismatch. With `--recursive`
  two images may have one name; the case of the one that differs then holds the detections of the first image of
  the name that has any, which may have passed. Images that share only a stem overwrite each other's files. `CasesTell` says
  what a case holds then, and that it is the image's own if nothing shares its name or stem (`AllBackends`).

### What the properties leave out, knowingly

`FailureKeepsDescription` is checked for one application, in which the view allows one
generation at a time. With two, a failed generation writes back the description it
read before a newer one was stored. `CompletedMeansAll` excepts runs during which
the user tried to close the window: `closeEvent` stops the worker without
telling the view, which then shows "완료" and a full bar for a run cut short. `RunCanBeStopped` excepts a folder chosen in the
moment a run starts, which makes the buttons idle. `AnswersAreChecked` allows the answers of a session that an
earlier call refused, which `OnnxDetector` keeps and uses. `TableAgrees` and `DetailAgrees` except the time from a failed
query of `_on_vlm_failed` or `_cleanup_vlm_thread` to the next search.

## 4. Fairness

- `TensorRtWorker`: weak fairness of `HolderStep` alone. The thread inside the lock is a
  Python thread that keeps running, and all its waits have time-outs. Nothing
  is assumed of the process.
- `TensorRtAdapter`: the same, weak fairness of the adapter's own steps (the one-shot
  program runs under `subprocess.run(timeout=...)`), and strong fairness of taking the
  lock, which is free again and again. One caller runs in the checked instance.
- `InspectionHistory`: weak fairness of the end of a description in each application
  (HTTP time-outs and a bounded number of attempts) and of nothing else: a user need not delete.
- `InspectionRun`: weak fairness of the worker's steps (the detector returns or raises)
  and of the main thread's event loop. The user owes nothing.
- `HistoryView`: the same for the generation's thread and the event loop; a modal box
  runs an event loop of its own, so that it does not stop the events.
- `StatusCheck`: weak fairness of each thread (the HTTP request has a time-out), of the event loop, and of the end of
  `wait(3000)`, which is one way or the other. Nobody need reload or close.
- `VlmGeneration`, `VlmBatch`, `Detectors`, `Comparisons`: none, only safety is asked. They are sequential programs
  whose steps end or raise.

## 5. Proofs

All theorems hold for every value of the constants that satisfies the named assumptions of the modules: any
number of threads, images, processes, applications, checks, retries and detections. Every safety property of a
passing run is a theorem. The assumptions are:

- counts are counts (`ShotsAreCounted`, `FoldersAreCounts`, `FaultsAreCounted`, `ChecksAreCounted`, `RetriesAreCounted`,
  `ThresholdIsCounted`, `ServicesAreCounted`, `RepeatIsPositive`, `SomeDescribed`), flags are flags (`FlagsAreBoolean`), and
  the value for "nothing" is no value of the kind (`NoneIsNoValue`, `NoneIsNoId`, `NoneIsNoDetail`, `NoneIsNoSettings`,
  `AbsentIsNone`);
- what is read from files and answers has the form the model gives it (`RepliesAreTexts`, `ModelsAreDescribed`,
  `ShapesAreSizes`, `ImageSizeIsPositive`, `OutputsAreRead`, `ShownIsLetterboxed`, `StemsAreListed`, `ListsAreRead`, `ResultsAreRead`, `RunsAreRead`, `ShotsAreNamed`,
  `PairedListsAreRead`, `ImagesAreNamed`, `ClassesAreListed`, `DefaultIsOption`);
- who does what (`RolesOfApps`, `ManagedAreSources`, `BaselineIsFirst`, `PairsAreOfBackends`);
- limits are natural numbers (`TolerancesAreNatural`), and `--match-iou` is positive (`MatchIouIsFraction`).

Four theorems have a hypothesis of their own, named where they are stated below.

`TensorRtProofs`, of the worker, from the parts of `SafetyInv`:

- `TypeCorrect`: types with `LockShape` (who is inside the lock, and when it must
  have a process), without which the indexing by `holder` and `handle` is not typed.
- `OneProcessOneQueue`: `SingleProcess` and `QueueIsOfHandle`. Neither is inductive: a line of an
  old process must not be in a pipe with an attached reader, which is `LinesTraced`.
- `HandshakeBeforeRequests`: `HandshakeFirst`, by `LoadingUnanswered`: while a process loads there is no
  ready line, neither in its pipe nor in the queue, and the lock's holder waits or kills.
- `AnswersMatch`: `AnswerMatchesRequest`, by `ReplyPending`: whatever in any pipe or in the queue carries
  the awaited id was computed from the image of the waiting call. It rests on ids being fresh
  when a request is written.
- `SafetyHolds`: the four together, `SafetyInv`.
- `FailedCallsLeaveNothing`: the action property `FailureLeavesNoProcess`. A call that ends with a worker error has
  been through the wait after the kill, and `SingleProcess` says that there was no other process.

Of the adapter on top of it. A close may leave a process that survived its kill, so that the worker
of the next call need not be the only process: `SafetyInv` itself does not carry over. What the worker's proofs
say of types and answers does, and of processes `Attended` takes the place of `SingleProcess`.

- `KeepsPromiseSafely`: the safety part of the refinement. Every initial state maps to an initial
  state of `DetectorCalls` and every step to one of its steps or a stutter; that calls end
  (`KeepsPromise` whole) is left to TLC.
- `CloseIsClean`: `CloseLeavesNoProcess`, by `StoppedIsQuiet`.
- `FallbackRunsAlone`: `AdapterInv` under `OneCallerOnly`, by `FallbackInv`: whenever the thread's worker has
  failed there is no process. In the program one thread inspects.

`InspectionHistoryProofs`, from `HistoryInv`:

- `TypeCorrect`.
- `DescriptionsAreOwn`: `OwnDescription`, by `IdsIssued` (no id is issued twice) and `SnapshotsHold`
  (the copy of a row a generation holds differs from the row only where others may write).
- `ResultsAreKept`: `LiveRowsKeepResult`, by `FilesInv`: a result image has one user, be it a row, a
  detection to be saved or a deletion whose row is gone or is the one to go.
- `ProcessingIsOwned`: `ProcessingHasOwner`, which needs nothing beyond the types and the reservation.
- `ReservationsAreHeld`, `GenerationsAreExclusive`: `ReservationHeld` and `OneGenerator` for any number of
  applications, under `Managed = {}`: no original image is inside the directory that deletions
  clear. The assumption is needed: see `inspection_service.py:105` in section 3.
- `DescriptionsSurviveFailure`: the action property `FailureKeepsDescription`, for one application, by `DescriptionsKnown`:
  the copy of a generation under way has the description that its row has. With two it is false, as section 3 says.

`InspectionRunProofs`, from `RunInv`, for runs of any length:

- `HaltsAtOnce`: `HaltTakesHold`. It is not inductive: after the one late image the worker must be kept from
  the next, which `HaltHolds` says (not at an announcement, and stopped, paused or over).
- `ViewAlwaysFits`: `ViewFitsRun`, by `QueueShape`: what the worker posts comes first, then `quit`, then `finished`, and
  the clean-up when the thread has ended. `ViewIsTold` follows the view along it: it is idle unless `finished` is
  still to come.
- `OutcomesAlwaysReal`: the action property `OutcomesAreReal`. The box at the end is shown long after the fact. `TellInv`
  says what is known meanwhile: why the run is over (`Accounts`), that images and results are announced in their
  order (`Announcements`), and that an exception or a stop is remembered by the view or is still in the queue
  (`FailureTold`, `StopTold`).

`HistoryViewProofs`, from `HistoryInv`, for any set of inspections and number of failed queries:

- `ScreenAgrees`: `ViewAgrees`. That table and detail agree with the database once a generation is over is not
  inductive: while it runs its row changes under the screen. `Awaited` names that row until its result has been
  handled, the queue tells when (`QueueShape`: the result, then `quit`, and the clean-up when the thread has ended),
  and `TableTells` says that the table is right about every other row. A result in the queue is still true of its row
  (`ResultOf`), since only the worker changes it; and `RowsStay` says what deletions and inspections do to the rows
  that the screen lists: an id is given out once.
- `OfferCanBeTaken`: `OfferIsFree`. `ClosesAfterResult`: `ClosedAfterResult`.

`OllamaProofs`, of `VlmGeneration` from `GenerationInv` and of `StatusCheck` from `CheckInv`:

- `EveryCallUnloads`: `UnloadedAtRest`.
- `RecordsAreTrue`: `RecordsTellCall`, by `AttemptsCounted` (every request but the one of this attempt has
  failed and has its reason), `Over` (the three ways to end) and `ImagesTold`.
- `AcceptsExactlyAlways`: `AcceptsExactly`. The parser answers with the first check that a text does not pass, the least
  element of a set; the set is empty exactly if the text conforms.
- `CheckInvariant`; `OneCheckRuns`: `ChecksAreOwned`, by `KnownOrForgotten`, since at most one thread is known.
- `CloseIsFinal`: `ClosedIsQuiet`.

`DetectorsProofs`:

- `OneServiceInUse`: `ExchangeInv`, which is inductive as it stands.
- `SavedSettingsTakeEffect`: `SettingsTakeEffect`, of every step from a state of `ExchangeInv`.
- `AnswersAlwaysChecked`: `AnswersAreChecked`, from `SessionInv`: what is known of the session that is kept
  (`KeptSession`) although a check may have refused it, and that the last answer came of that one (`AnswerOfKept`).
- `LetterboxAlwaysFaithful`: `LetterboxIsFaithful`, for every positive size of image and square: two roundings that agree up to
  their halves, and the bounds on margins and scales that follow.
- `DecodingAlwaysFaithful`: `DecodingIsFaithful`, for every output and both thresholds. There is one set that the loop can end with
  (`KernelExists`, `KernelIsOnly`): by induction on the number of candidates, taking the last in the order away, and by the
  first one where two such sets would differ. Class by class gives that set too, since only candidates of a class
  overlap (`ByClassIsAtOnce`), and without equal scores no rank matters (`ScoresDecide`).

`VlmBatchProofs`, from `BatchInv`, for any list of images and threshold:

- `AccountsAlwaysComplete`: `AccountsAreComplete`. Rows come in the order of images, at most a success and an error for
  each (`RowsInv`, `ListsInv`); a file holds the last row of its stem, unless an image of that stem is being saved
  (`FilesInv`).
- `BreakerAlwaysHolds`: `BreakerHolds`, an action property. `streak` counts answers that need not be in neighbouring rows: images
  without a defect lie between them. `StreakFrom(p)` names the row of the last answer that was another, and counts
  from there; an answer that has no row yet is `Pending`.

`ComparisonsProofs`, for all lists of detections and all limits:

- `MatchingsAlwaysSound`, `VerdictsAlwaysSound`: `MatchingsAreSound`, `VerdictsAreSound`. There is one matching that `IsGreedy`,
  by induction on the number of candidates: the first of them in the order is taken, and what shares no
  detection with it is matched in the same way. Being one-to-one and leaving nothing that would pair follows.
- `CountsAlwaysSound`: `CountsAreSound`. The totals are sums over classes and pairs, by induction on the set that is summed.
- `RecommendationAlwaysSound`: `RecommendationIsSound`, from `RecommendInv`.
- `ReportsAlwaysTell`: `ReportsTellMeasurements`, from `AllInv`: which backends are through with which images (`Through`), what has
  been measured of them, a row for each, and reports made of just that. The cases follow from the last name of a
  stem that has detections and the first image of that name; both exist since the images are finitely many.
- `BatchAlwaysTells`: `BatchTellsResults`, for both programs of `PairedBatch`, from `BatchInv`: a result for every image that is
  through, the file of the last image of each stem, timings in ascending order, and a summary made of these.

Induction on numbers is had from the well-foundedness of `<` (`WFMin` gives a least counterexample), of which
`LeastIsOne` and `Climb` of `ComparisonsProofs` and `DetectorsProofs` are the forms used.

Only model-checked: liveness (`RunsEnd`, `ProcessingResolves`, `GenerationSettles`, `ChecksSettle`), and the refinement
`KeepsPromise` with its fairness, which are out of the prover's reach.

## 6. Not modelled, and the plan

- Statistics: sums that SQL computes in one read, and their display. No state and no steps.
- Image processing, drawing, geometry of boxes on the screen: functions of pixels.
- The numerical libraries (PyTorch, ONNX Runtime, TensorRT, OpenCV) are what they answer: a result or an error.
  The C++ programs around them (loading engines, arguments, measuring) are modelled only in the worker's loop
  and in the letterbox, decoding and benchmark comparison.
- Training, metrics of evaluation, splitting of datasets: sequential programs over files, without a state that
  outlives a step.
- Prompts, quality hints and corrections of the VLM's text, the layout of reports and views, schema migrations,
  filters of the search.

What the plan has left:

1. `ReservationHeld` for originals inside the managed directory, with the exception the code makes.
2. The metrics of `compare_models.py` and `scripts/evaluate_onnx.py`.
