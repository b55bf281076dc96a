------------------------- MODULE InspectionHistory -------------------------
(***************************************************************************)
(* The inspection history: the rows of the SQLite table and the image      *)
(* files they name (repository/inspection_repository.py), the inspections  *)
(* that add rows and the VLM generations that describe them                *)
(* (service/inspection_service.py), and their deletion                     *)
(* (service/inspection_history_service.py).                                *)
(*                                                                         *)
(* A running application has an inspection thread, a VLM thread and the    *)
(* GUI thread that deletes; nothing keeps a second application from being  *)
(* started on the same database.  Every repository call is a transaction   *)
(* of its own, so whatever one thread does in several calls interleaves    *)
(* with what the others do.  An application may crash, a transaction or an *)
(* unlink may fail; MaxFaults bounds how often.                            *)
(***************************************************************************)
EXTENDS Integers, FiniteSets

CONSTANTS
  Apps,       \* running applications
  Inspecting, \* those that inspect images
  Deleting,   \* those that delete records
  Sources,    \* original images
  Managed,    \* those inside the input image directory
  None,       \* absence of a value
  MaxShots,   \* bound on the detections made
  MaxFaults   \* bound on crashes and failed operations

ASSUME RolesOfApps == Inspecting \subseteq Apps /\ Deleting \subseteq Apps
ASSUME ManagedAreSources == Managed \subseteq Sources
ASSUME ShotsAreCounted == MaxShots \in Nat

VARIABLES
  rows,       \* rows[i]: the inspection with id i, or None
  nextId,     \* what AUTOINCREMENT assigns next
  results,    \* annotated result images on disk
  originals,  \* original images on disk
  shots,      \* detections made so far
  shot,       \* shot[a]: what a's inspection thread has detected, not saved
  gen,        \* gen[a]: a's VLM thread
  del,        \* del[a]: a's deletion
  abandoned,  \* rows whose generation was cut off by a fault
  faults      \* faults so far

dbVars == <<rows, nextId>>
fileVars == <<results, originals>>
faultVars == <<abandoned, faults>>
vars == <<dbVars, fileVars, shots, shot, gen, del, faultVars>>

Shots == 1 .. MaxShots   \* ids, and names of result images

VlmStatuses == {"NOT_REQUESTED", "PROCESSING", "COMPLETED", "FAILED"}

\* A row is of the detection it was saved from; a description is given by the
\* detection it describes.
Rows == [of : Shots, ng : BOOLEAN, vlm : VlmStatuses, desc : Shots \cup {None},
         source : Sources, result : Shots \cup {None}]

\* An OK image, an NG image, or an NG image described before it is saved.
Findings == {"ok", "ng", "described"}

Detections == [of : Shots, kind : Findings, source : Sources, result : Shots \cup {None}]

Images == [source : Sources, result : Shots \cup {None}]

\* What a generation uses of the row it has read.
Snapshots == [of : Shots, ng : BOOLEAN, desc : Shots \cup {None},
              source : Sources, result : Shots \cup {None}]

Generations ==
  [pc : {"idle", "defects", "image", "missing", "reserve", "describe"},
   id : Shots \cup {None}, row : Snapshots \cup {None}]

Deletions ==
  [pc : {"idle", "search", "delete", "files"}, id : Shots \cup {None},
   count : Nat, found : SUBSET Images]

ASSUME NoneIsNoValue ==
  None \notin Sources /\ None \notin Shots /\ None \notin Rows /\ None \notin Detections

NoGeneration == [pc |-> "idle", id |-> None, row |-> None]
NoDeletion == [pc |-> "idle", id |-> None, count |-> 0, found |-> {}]

TypeOK ==
  /\ rows \in [Shots -> Rows \cup {None}]
  /\ nextId \in Nat \ {0}
  /\ results \subseteq Shots
  /\ originals \subseteq Sources
  /\ shots \in 0 .. MaxShots
  /\ shot \in [Apps -> Detections \cup {None}]
  /\ gen \in [Apps -> Generations]
  /\ del \in [Apps -> Deletions]
  /\ abandoned \subseteq Shots
  /\ faults \in Nat

Init ==
  /\ rows = [i \in Shots |-> None]
  /\ nextId = 1
  /\ results = {}
  /\ originals = Sources
  /\ shots = 0
  /\ shot = [a \in Apps |-> None]
  /\ gen = [a \in Apps |-> NoGeneration]
  /\ del = [a \in Apps |-> NoDeletion]
  /\ abandoned = {}
  /\ faults = 0

Live == {i \in Shots : rows[i] # None}

Fault == faults < MaxFaults /\ faults' = faults + 1

-----------------------------------------------------------------------------
(* Inspections: detect, then save one row.                                 *)

\* Mutated form: the result image is named after the source image only.
ResultNamedAfterSource == 1

\* Time stamp and uuid4: no two detections share a result image.
NewResult == shots + 1

Detect(a, s, kind) ==
  /\ shot[a] = None
  /\ shots < MaxShots
  /\ s \in originals
  /\ shots' = shots + 1
  /\ \E r \in {NewResult, None} :
       /\ results' = results \cup ({r} \ {None})
       /\ shot' = [shot EXCEPT ![a] =
                     [of |-> shots', kind |-> kind, source |-> s, result |-> r]]
  /\ UNCHANGED <<originals, dbVars, gen, del, faultVars>>

\* inspect() describes an NG image before it is saved, and saves the text of a
\* VLM error as a description; inspect_yolo_only() leaves both to the history.
NewRow(d) ==
  [of |-> d.of, ng |-> d.kind # "ok", source |-> d.source, result |-> d.result,
   vlm |-> IF d.kind = "described" THEN "COMPLETED" ELSE "NOT_REQUESTED",
   desc |-> IF d.kind = "described" THEN d.of ELSE None]

\* Mutated form: ids are rowids, one above the largest in use.
SaveReusingId(a) ==
  /\ shot[a] # None
  /\ LET i == CHOOSE k \in Shots : k - 1 \in Live \cup {0} /\ \A j \in Live : j < k
     IN rows' = [rows EXCEPT ![i] = NewRow(shot[a])]
  /\ nextId' = nextId + 1
  /\ shot' = [shot EXCEPT ![a] = None]
  /\ UNCHANGED <<fileVars, shots, gen, del, faultVars>>

Save(a) ==
  /\ shot[a] # None
  /\ rows' = [rows EXCEPT ![nextId] = NewRow(shot[a])]
  /\ nextId' = nextId + 1
  /\ shot' = [shot EXCEPT ![a] = None]
  /\ UNCHANGED <<fileVars, shots, gen, del, faultVars>>

SaveFails(a) ==
  /\ shot[a] # None
  /\ shot' = [shot EXCEPT ![a] = None]
  /\ Fault
  /\ UNCHANGED <<dbVars, fileVars, shots, gen, del, abandoned>>

-----------------------------------------------------------------------------
(* run_vlm_for_inspection                                                  *)

GenVarsOnly == UNCHANGED <<nextId, fileVars, shots, shot, del, faultVars>>

Goto(a, l) == gen' = [gen EXCEPT ![a].pc = l]

GenerationEnds(a) == gen' = [gen EXCEPT ![a] = NoGeneration]

\* update_vlm_result: no row, no effect.
UpdateVlmResult(i, status, d) ==
  rows' = IF rows[i] = None THEN rows
          ELSE [rows EXCEPT ![i] = [@ EXCEPT !.vlm = status, !.desc = d]]

SnapshotOf(i) == [of |-> rows[i].of, ng |-> rows[i].ng, desc |-> rows[i].desc,
                  source |-> rows[i].source, result |-> rows[i].result]

\* The row is read, and its defects by a query of their own.  The table that
\* offers the id may be out of date; a row that is gone ends the call at once.
FindInspection(a, i) ==
  /\ gen[a].pc = "idle"
  /\ rows[i] # None
  /\ gen' = [gen EXCEPT ![a] = [pc |-> "defects", id |-> i, row |-> SnapshotOf(i)]]
  /\ GenVarsOnly /\ UNCHANGED rows

FindDefects(a) ==
  /\ gen[a].pc = "defects"
  /\ IF gen[a].row.ng /\ rows[gen[a].id] # None
     THEN Goto(a, "image") ELSE GenerationEnds(a)
  /\ GenVarsOnly /\ UNCHANGED rows

ImageExists(img) ==
  IF img.result # None THEN img.result \in results ELSE img.source \in originals

CheckImage(a) ==
  /\ gen[a].pc = "image"
  /\ Goto(a, IF ImageExists(gen[a].row) THEN "reserve" ELSE "missing")
  /\ GenVarsOnly /\ UNCHANGED rows

FailMissing(a) ==
  /\ gen[a].pc = "missing"
  /\ UpdateVlmResult(gen[a].id, "FAILED", gen[a].row.desc)
  /\ GenerationEnds(a)
  /\ GenVarsOnly

\* Mutated form: the reservation does not look at the status.
ReserveAnyStatus(a) ==
  /\ gen[a].pc = "reserve"
  /\ LET i == gen[a].id IN
       \/ /\ rows[i] # None
          /\ rows' = [rows EXCEPT ![i].vlm = "PROCESSING"]
          /\ Goto(a, "describe")
       \/ rows[i] = None /\ GenerationEnds(a) /\ UNCHANGED rows
  /\ GenVarsOnly

Reserve(a) ==
  /\ gen[a].pc = "reserve"
  /\ LET i == gen[a].id
         free == rows[i] # None /\ rows[i].vlm # "PROCESSING"
     IN \/ /\ free
           /\ rows' = [rows EXCEPT ![i].vlm = "PROCESSING"]
           /\ Goto(a, "describe")
        \/ ~free /\ GenerationEnds(a) /\ UNCHANGED rows
  /\ GenVarsOnly

Described(a) ==
  /\ gen[a].pc = "describe"
  /\ UpdateVlmResult(gen[a].id, "COMPLETED", gen[a].row.of)
  /\ GenerationEnds(a)
  /\ GenVarsOnly

\* Mutated form: an exception of the VLM service is only raised.
DescribeRaises(a) ==
  /\ gen[a].pc = "describe"
  /\ GenerationEnds(a)
  /\ GenVarsOnly /\ UNCHANGED rows

\* Mutated form: the failure leaves no description.
DescribeFailsBlank(a) ==
  /\ gen[a].pc = "describe"
  /\ UpdateVlmResult(gen[a].id, "FAILED", None)
  /\ GenerationEnds(a)
  /\ GenVarsOnly

DescribeFails(a) ==
  /\ gen[a].pc = "describe"
  /\ UpdateVlmResult(gen[a].id, "FAILED", gen[a].row.desc)
  /\ GenerationEnds(a)
  /\ GenVarsOnly

CutOff(a) == abandoned' = abandoned \cup
  (IF gen[a].pc = "describe" THEN {gen[a].id} ELSE {})

\* A transaction of the call fails, that of the exception handler included.
GenerationDbFails(a) ==
  /\ gen[a].pc \in {"defects", "missing", "reserve", "describe"}
  /\ GenerationEnds(a)
  /\ CutOff(a)
  /\ Fault
  /\ UNCHANGED <<dbVars, fileVars, shots, shot, del>>

-----------------------------------------------------------------------------
(* delete_history and delete_all_history                                   *)

DelVarsOnly == UNCHANGED <<nextId, shots, shot, gen, faultVars>>

ImagesOf(i) == [source |-> rows[i].source, result |-> rows[i].result]

FindToDelete(a, i) ==
  /\ del[a].pc = "idle"
  /\ rows[i] # None
  /\ del' = [del EXCEPT ![a] =
               [pc |-> "delete", id |-> i, count |-> 0, found |-> {ImagesOf(i)}]]
  /\ DelVarsOnly /\ UNCHANGED <<rows, fileVars>>

CountRows(a) ==
  /\ del[a].pc = "idle"
  /\ del' = [del EXCEPT ![a] =
               [pc |-> "search", id |-> None, count |-> Cardinality(Live), found |-> {}]]
  /\ DelVarsOnly /\ UNCHANGED <<rows, fileVars>>

\* search(limit): the newest rows, at least one.
Newest(n) ==
  {i \in Live : LET newer == Cardinality({j \in Live : j > i}) IN newer = 0 \/ newer < n}

Search(a) ==
  /\ del[a].pc = "search"
  /\ del' = [del EXCEPT ![a] =
               [pc |-> "delete", id |-> None, count |-> 0,
                found |-> {ImagesOf(i) : i \in Newest(del[a].count)}]]
  /\ DelVarsOnly /\ UNCHANGED <<rows, fileVars>>

\* delete_by_id (an id) or delete_all (None); a row that is gone ends the call.
DeleteRows(a) ==
  /\ del[a].pc = "delete"
  /\ LET doomed == IF del[a].id = None THEN Shots ELSE {del[a].id} IN
       /\ rows' = [i \in Shots |-> IF i \in doomed THEN None ELSE rows[i]]
       /\ del' = [del EXCEPT ![a] =
                    IF del[a].id # None /\ rows[del[a].id] = None
                    THEN NoDeletion ELSE [@ EXCEPT !.pc = "files"]]
  /\ DelVarsOnly /\ UNCHANGED fileVars

\* The files of one deleted row; the order of the rows is abstracted.
DeleteFiles(a, img) ==
  /\ del[a].pc = "files"
  /\ img \in del[a].found
  /\ results' = results \ {img.result}
  /\ originals' = originals \ ({img.source} \cap Managed)
  /\ del' = [del EXCEPT ![a].found = @ \ {img}]
  /\ DelVarsOnly /\ UNCHANGED rows

UnlinkFails(a, img) ==
  /\ del[a].pc = "files"
  /\ img \in del[a].found
  /\ del' = [del EXCEPT ![a].found = @ \ {img}]
  /\ Fault
  /\ UNCHANGED <<dbVars, fileVars, shots, shot, gen, abandoned>>

DeletionEnds(a) ==
  /\ del[a].pc = "files"
  /\ del[a].found = {}
  /\ del' = [del EXCEPT ![a] = NoDeletion]
  /\ DelVarsOnly /\ UNCHANGED <<rows, fileVars>>

DeletionDbFails(a) ==
  /\ del[a].pc \in {"search", "delete"}
  /\ del' = [del EXCEPT ![a] = NoDeletion]
  /\ Fault
  /\ UNCHANGED <<dbVars, fileVars, shots, shot, gen, abandoned>>

-----------------------------------------------------------------------------
(* The application dies and is started again; nothing repairs the database. *)

Crash(a) ==
  /\ Fault
  /\ CutOff(a)
  /\ shot' = [shot EXCEPT ![a] = None]
  /\ gen' = [gen EXCEPT ![a] = NoGeneration]
  /\ del' = [del EXCEPT ![a] = NoDeletion]
  /\ UNCHANGED <<dbVars, fileVars, shots>>

Inspection(a) ==
  \/ \E s \in Sources, kind \in Findings : Detect(a, s, kind)
  \/ Save(a) \/ SaveFails(a)

DescribeEnds(a) == Described(a) \/ DescribeFails(a)

Generation(a) ==
  \/ \E i \in Shots : FindInspection(a, i)
  \/ FindDefects(a) \/ CheckImage(a) \/ FailMissing(a) \/ Reserve(a)
  \/ DescribeEnds(a) \/ GenerationDbFails(a)

Deletion(a) ==
  \/ \E i \in Shots : FindToDelete(a, i)
  \/ CountRows(a) \/ Search(a) \/ DeleteRows(a)
  \/ \E img \in del[a].found : DeleteFiles(a, img) \/ UnlinkFails(a, img)
  \/ DeletionEnds(a) \/ DeletionDbFails(a)

Next ==
  \/ \E a \in Inspecting : Inspection(a)
  \/ \E a \in Deleting : Deletion(a)
  \/ \E a \in Apps : Generation(a) \/ Crash(a)

\* describe_defects ends: its HTTP calls time out and its retries are bounded.
Spec == Init /\ [][Next]_vars /\ \A a \in Apps : WF_vars(DescribeEnds(a))

-----------------------------------------------------------------------------
(* Properties.                                                             *)

\* A description is of the row's own detections, and a row that is COMPLETED has
\* one, also when its row is deleted and new ones are added while it is written.
OwnDescription ==
  \A i \in Live :
    /\ rows[i].desc \in {None, rows[i].of}
    /\ rows[i].vlm = "COMPLETED" => rows[i].desc = rows[i].of

\* A row is PROCESSING only while a generation will still resolve it, unless a
\* crash or a failed transaction cut that generation off.
ProcessingHasOwner ==
  \A i \in Live : rows[i].vlm = "PROCESSING" =>
    i \in abandoned \/ \E a \in Apps : gen[a].pc = "describe" /\ gen[a].id = i

\* The deletion of other rows never removes the result image of a row that stays.
LiveRowsKeepResult ==
  \A i \in Live : rows[i].result # None => rows[i].result \in results

\* A failed generation does not take away a description the row had.
FailureKeepsDescription ==
  [][\A i \in Live : rows'[i] # None /\ rows'[i].vlm = "FAILED"
                       => rows'[i].desc = rows[i].desc]_vars

\* "Atomically reserve": while a row is described, its status says so.
ReservationHeld ==
  \A a \in Apps : gen[a].pc = "describe" /\ gen[a].id \in Live
                    => rows[gen[a].id].vlm = "PROCESSING"

\* No two generations describe the same row at once.
OneGenerator ==
  \A a, b \in Apps : gen[a].pc = "describe" /\ gen[b].pc = "describe"
                       /\ gen[a].id = gen[b].id /\ gen[a].id \in Live => a = b

\* A generation is eventually over, in the row as well, or was cut off.
ProcessingResolves ==
  \A i \in Shots :
    i \in Live /\ rows[i].vlm = "PROCESSING"
      ~> i \notin Live \/ rows[i].vlm # "PROCESSING" \/ i \in abandoned

\* When the deletion of all records is over and nothing failed, every result image
\* left on disk is of a row, of a detection to be saved or of another deletion.
DeleteAllRemovesImages ==
  [][\A a \in Apps :
       del[a].pc = "files" /\ del[a].id = None /\ del'[a].pc = "idle" /\ faults' = 0
         => \A r \in results :
              \/ \E i \in Live : rows[i].result = r
              \/ \E b \in Apps : shot[b] # None /\ shot[b].result = r
              \/ \E b \in Apps : \E img \in del[b].found : img.result = r]_vars

-----------------------------------------------------------------------------
(* The inductive invariant behind the safety properties.                   *)

\* No id is issued twice: rows and generations have ids already issued.
IdsIssued ==
  /\ \A i \in Live : i < nextId
  /\ \A a \in Apps : gen[a].pc # "idle" => gen[a].id \in Shots /\ gen[a].id < nextId

\* What a generation remembers of its row is still so in the row, while there is one.
SnapshotsHold ==
  \A a \in Apps : gen[a].pc # "idle" =>
    /\ gen[a].row \in Snapshots
    /\ gen[a].row.desc \in {None, gen[a].row.of}
    /\ gen[a].id \in Live =>
         /\ gen[a].row.of = rows[gen[a].id].of
         /\ gen[a].row.source = rows[gen[a].id].source
         /\ gen[a].row.result = rows[gen[a].id].result

\* A result image has one user: a row, a detection, or a deletion of that row.
ResultsCounted ==
  /\ \A i \in Live : rows[i].result # None => rows[i].result <= shots
  /\ \A a \in Apps : shot[a] # None /\ shot[a].result # None => shot[a].result <= shots
  /\ \A a \in Apps : \A img \in del[a].found : img.result # None => img.result <= shots

RowsShareNoResult ==
  \A i, j \in Live : rows[i].result # None /\ rows[i].result = rows[j].result => i = j

DetectionsShareNoResult ==
  \A a \in Apps : shot[a] # None /\ shot[a].result # None =>
    /\ shot[a].result \in results
    /\ \A i \in Live : rows[i].result # shot[a].result
    /\ \A b \in Apps : b # a /\ shot[b] # None => shot[b].result # shot[a].result
    /\ \A b \in Apps : \A img \in del[b].found : img.result # shot[a].result

DeletionsTakeDeletedRows ==
  \A a \in Apps : \A img \in del[a].found : img.result # None =>
    /\ del[a].pc = "files" => \A i \in Live : rows[i].result # img.result
    /\ del[a].pc = "delete" /\ del[a].id # None
         => \A i \in Live : rows[i].result = img.result => i = del[a].id

FilesInv ==
  /\ ResultsCounted /\ RowsShareNoResult /\ DetectionsShareNoResult
  /\ DeletionsTakeDeletedRows /\ LiveRowsKeepResult

HistoryInv == TypeOK /\ IdsIssued /\ SnapshotsHold /\ OwnDescription /\ FilesInv
=============================================================================
