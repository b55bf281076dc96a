---------------------- MODULE InspectionHistoryProofs ----------------------
(***************************************************************************)
(* Proofs about the inspection history, for any set of applications and    *)
(* images.                                                                 *)
(***************************************************************************)
EXTENDS InspectionHistory, FiniteSetTheorems, TLAPS

\* The number of rows is a number.
LEMMA LiveCounted == Cardinality(Live) \in Nat
<1>1. IsFiniteSet(Shots)
  BY ShotsAreCounted, FS_Interval DEF Shots
<1>2. IsFiniteSet(Live)
  BY <1>1, FS_Subset DEF Live
<1>. QED  BY <1>2, FS_CardinalityType

\* A row made of a detection is a row.
LEMMA NewRowType ==
  ASSUME NEW d \in Detections
  PROVE  NewRow(d) \in Rows
BY DEF NewRow, Detections, Findings, Rows, VlmStatuses

\* The initial state satisfies the type invariant.
LEMMA InitType == Init => TypeOK
BY ShotsAreCounted DEF Init, TypeOK, NoGeneration, NoDeletion, Generations, Deletions

\* What an inspection thread does keeps the types.
LEMMA InspectionType ==
  ASSUME TypeOK, NEW a \in Inspecting, Inspection(a)
  PROVE  TypeOK'
<1>. a \in Apps  BY RolesOfApps
<1>. USE NoneIsNoValue, ShotsAreCounted
<1>1. ASSUME NEW s \in Sources, NEW kind \in Findings, Detect(a, s, kind)  PROVE TypeOK'
  <2>1. NewResult \in Shots /\ shots' \in 0 .. MaxShots /\ shots' \in Shots
    BY <1>1 DEF Detect, NewResult, TypeOK, Shots
  <2>2. PICK r \in Shots \cup {None} :
          /\ results' = results \cup ({r} \ {None})
          /\ shot' = [shot EXCEPT ![a] =
                         [of |-> shots', kind |-> kind, source |-> s, result |-> r]]
    BY <1>1, <2>1 DEF Detect
  <2>3. [of |-> shots', kind |-> kind, source |-> s, result |-> r] \in Detections
    BY <1>1, <2>1 DEF Detections
  <2>4. shot' \in [Apps -> Detections \cup {None}] /\ results' \subseteq Shots
    BY <2>2, <2>3 DEF TypeOK
  <2>. QED  BY <1>1, <2>1, <2>4 DEF Detect, TypeOK, dbVars, faultVars
<1>2. CASE Save(a)
  <2>1. nextId \in Shots => NewRow(shot[a]) \in Rows
    BY <1>2, NewRowType DEF Save, TypeOK
  <2>2. rows' \in [Shots -> Rows \cup {None}]
    BY <1>2, <2>1 DEF Save, TypeOK
  <2>3. shot' \in [Apps -> Detections \cup {None}] /\ nextId' \in Nat \ {0}
    BY <1>2 DEF Save, TypeOK
  <2>. QED  BY <1>2, <2>2, <2>3 DEF Save, TypeOK, fileVars, faultVars
<1>3. CASE SaveFails(a)
  BY <1>3 DEF SaveFails, Fault, TypeOK, dbVars, fileVars
<1>. QED  BY <1>1, <1>2, <1>3 DEF Inspection

\* An update of the VLM fields keeps the type of the table.
LEMMA UpdateType ==
  ASSUME TypeOK, NEW i \in Shots, NEW v \in VlmStatuses, NEW d \in Shots \cup {None},
         UpdateVlmResult(i, v, d)
  PROVE  rows' \in [Shots -> Rows \cup {None}]
<1>1. CASE rows[i] = None
  BY <1>1 DEF UpdateVlmResult, TypeOK
<1>2. CASE rows[i] # None
  <2>1. rows[i] \in Rows  BY <1>2 DEF TypeOK
  <2>2. [rows[i] EXCEPT !.vlm = v, !.desc = d] \in Rows  BY <2>1 DEF Rows
  <2>. QED  BY <1>2, <2>2 DEF UpdateVlmResult, TypeOK
<1>. QED  BY <1>1, <1>2

\* What a VLM thread does keeps the types.
LEMMA GenerationType ==
  ASSUME TypeOK, IdsIssued, SnapshotsHold, NEW a \in Apps, Generation(a)
  PROVE  TypeOK'
<1>. USE NoneIsNoValue DEF GenVarsOnly, fileVars, faultVars
<1>0. NoGeneration \in Generations
  BY DEF NoGeneration, Generations
<1>g. gen[a] \in Generations /\ gen \in [Apps -> Generations]
  BY DEF TypeOK
<1>1. ASSUME NEW i \in Shots, FindInspection(a, i)  PROVE TypeOK'
  <2>1. rows[i] \in Rows  BY <1>1 DEF FindInspection, TypeOK
  <2>2. gen' \in [Apps -> Generations]
    BY <1>1, <1>g, <2>1 DEF FindInspection, SnapshotOf, Generations, Rows, Snapshots
  <2>. QED  BY <1>1, <2>2 DEF FindInspection, TypeOK
<1>2. CASE FindDefects(a)
  <2>1. gen' \in [Apps -> Generations]
    BY <1>2, <1>0, <1>g DEF FindDefects, Goto, GenerationEnds, Generations
  <2>. QED  BY <1>2, <2>1 DEF FindDefects, TypeOK
<1>3. CASE CheckImage(a)
  <2>1. gen' \in [Apps -> Generations]
    BY <1>3, <1>g DEF CheckImage, Goto, Generations
  <2>. QED  BY <1>3, <2>1 DEF CheckImage, TypeOK
<1>4. CASE FailMissing(a)
  <2>1. gen' \in [Apps -> Generations]  BY <1>4, <1>0, <1>g DEF FailMissing, GenerationEnds
  <2>2. gen[a].id \in Shots /\ gen[a].row.desc \in Shots \cup {None}
    BY <1>4, <1>g DEF FailMissing, IdsIssued, SnapshotsHold, Snapshots
  <2>3. rows' \in [Shots -> Rows \cup {None}]
    BY <1>4, <2>2, UpdateType DEF FailMissing, VlmStatuses
  <2>. QED  BY <1>4, <2>1, <2>3 DEF FailMissing, TypeOK
<1>5. CASE Reserve(a)
  <2>1. gen' \in [Apps -> Generations]
    BY <1>5, <1>0, <1>g DEF Reserve, Goto, GenerationEnds, Generations
  <2>2. gen[a].id \in Shots  BY <1>5 DEF Reserve, IdsIssued
  <2>3. rows' \in [Shots -> Rows \cup {None}]
    BY <1>5, <2>2 DEF Reserve, TypeOK, Rows, VlmStatuses
  <2>. QED  BY <1>5, <2>1, <2>3 DEF Reserve, TypeOK
<1>6. CASE DescribeEnds(a)
  <2>1. gen' \in [Apps -> Generations]
    BY <1>6, <1>0, <1>g DEF DescribeEnds, Described, DescribeFails, GenerationEnds
  <2>2. /\ gen[a].id \in Shots /\ gen[a].row.desc \in Shots \cup {None}
        /\ gen[a].row.of \in Shots
    BY <1>6, <1>g DEF DescribeEnds, Described, DescribeFails, IdsIssued, SnapshotsHold, Snapshots
  <2>3. rows' \in [Shots -> Rows \cup {None}]
    BY <1>6, <2>2, UpdateType DEF DescribeEnds, Described, DescribeFails, VlmStatuses
  <2>. QED  BY <1>6, <2>1, <2>3 DEF DescribeEnds, Described, DescribeFails, TypeOK
<1>7. CASE GenerationDbFails(a)
  <2>1. gen' \in [Apps -> Generations]
    BY <1>7, <1>0, <1>g DEF GenerationDbFails, GenerationEnds
  <2>2. abandoned' \subseteq Shots
    BY <1>7 DEF GenerationDbFails, CutOff, IdsIssued, TypeOK
  <2>. QED  BY <1>7, <2>1, <2>2 DEF GenerationDbFails, Fault, TypeOK, dbVars
<1>. QED
  BY <1>1, <1>2, <1>3, <1>4, <1>5, <1>6, <1>7 DEF Generation

\* What a deletion does keeps the types.
LEMMA DeletionType ==
  ASSUME TypeOK, NEW a \in Deleting, Deletion(a)
  PROVE  TypeOK'
<1>. a \in Apps  BY RolesOfApps
<1>. USE NoneIsNoValue DEF DelVarsOnly, fileVars, faultVars
<1>0. NoDeletion \in Deletions  BY DEF NoDeletion, Deletions
<1>d. del[a] \in Deletions /\ del \in [Apps -> Deletions]  BY DEF TypeOK
<1>i. ASSUME NEW i \in Live  PROVE ImagesOf(i) \in Images
  <2>1. rows[i] \in Rows  BY DEF Live, TypeOK
  <2>. QED  BY <2>1 DEF ImagesOf, Images, Rows
<1>1. ASSUME NEW i \in Shots, FindToDelete(a, i)  PROVE TypeOK'
  <2>1. ImagesOf(i) \in Images  BY <1>1, <1>i DEF FindToDelete, Live
  <2>2. del' \in [Apps -> Deletions]
    BY <1>1, <1>d, <2>1 DEF FindToDelete, Deletions
  <2>. QED  BY <1>1, <2>2 DEF FindToDelete, TypeOK
<1>2. CASE CountRows(a)
  <2>1. del' \in [Apps -> Deletions]
    BY <1>2, <1>d, LiveCounted DEF CountRows, Deletions
  <2>. QED  BY <1>2, <2>1 DEF CountRows, TypeOK
<1>3. CASE Search(a)
  <2>1. {ImagesOf(i) : i \in Newest(del[a].count)} \in SUBSET Images
    BY <1>i DEF Newest
  <2>2. del' \in [Apps -> Deletions]
    BY <1>3, <1>d, <2>1 DEF Search, Deletions
  <2>. QED  BY <1>3, <2>2 DEF Search, TypeOK
<1>4. CASE DeleteRows(a)
  <2>1. del' \in [Apps -> Deletions]
    BY <1>4, <1>d, <1>0 DEF DeleteRows, Deletions
  <2>2. rows' \in [Shots -> Rows \cup {None}]
    BY <1>4 DEF DeleteRows, TypeOK
  <2>. QED  BY <1>4, <2>1, <2>2 DEF DeleteRows, TypeOK
<1>5. ASSUME NEW img \in del[a].found, DeleteFiles(a, img)  PROVE TypeOK'
  <2>1. del' \in [Apps -> Deletions]  BY <1>5, <1>d DEF DeleteFiles, Deletions
  <2>. QED  BY <1>5, <2>1 DEF DeleteFiles, TypeOK
<1>6. ASSUME NEW img \in del[a].found, UnlinkFails(a, img)  PROVE TypeOK'
  <2>1. del' \in [Apps -> Deletions]  BY <1>6, <1>d DEF UnlinkFails, Deletions
  <2>. QED  BY <1>6, <2>1 DEF UnlinkFails, Fault, TypeOK, dbVars
<1>7. CASE DeletionEnds(a)
  BY <1>7, <1>0, <1>d DEF DeletionEnds, TypeOK
<1>8. CASE DeletionDbFails(a)
  BY <1>8, <1>0, <1>d DEF DeletionDbFails, Fault, TypeOK, dbVars
<1>. QED
  BY <1>1, <1>2, <1>3, <1>4, <1>5, <1>6, <1>7, <1>8 DEF Deletion

\* A crash keeps the types.
LEMMA CrashType ==
  ASSUME TypeOK, IdsIssued, NEW a \in Apps, Crash(a)
  PROVE  TypeOK'
<1>1. NoGeneration \in Generations /\ NoDeletion \in Deletions
  BY DEF NoGeneration, Generations, NoDeletion, Deletions
<1>2. abandoned' \subseteq Shots
  BY DEF Crash, CutOff, IdsIssued, TypeOK
<1>. QED  BY <1>1, <1>2 DEF Crash, Fault, TypeOK, dbVars, fileVars

\* A step keeps the types.
LEMMA StepType == TypeOK /\ IdsIssued /\ SnapshotsHold /\ [Next]_vars => TypeOK'
<1>. SUFFICES ASSUME TypeOK, IdsIssued, SnapshotsHold, [Next]_vars  PROVE TypeOK'
  OBVIOUS
<1>1. CASE UNCHANGED vars
  BY <1>1 DEF vars, dbVars, fileVars, faultVars, TypeOK
<1>2. CASE Next
  BY <1>2, InspectionType, GenerationType, DeletionType, CrashType DEF Next
<1>. QED  BY <1>1, <1>2

-----------------------------------------------------------------------------
(* What a step may do to the table and to what a VLM thread remembers.     *)

\* Rows are not added, and those that stay keep their images.
ImagesKept ==
  \A i \in Live' : /\ i \in Live
                    /\ rows'[i].of = rows[i].of
                    /\ rows'[i].source = rows[i].source
                    /\ rows'[i].result = rows[i].result

\* A VLM update neither adds nor removes rows and changes no image.
LEMMA UpdateKeepsImages ==
  ASSUME TypeOK, NEW i \in Shots, NEW v \in VlmStatuses, NEW d \in Shots \cup {None},
         UpdateVlmResult(i, v, d)
  PROVE  ImagesKept /\ Live' = Live
<1>. USE NoneIsNoValue DEF ImagesKept, Live
<1>1. CASE rows[i] = None
  BY <1>1 DEF UpdateVlmResult
<1>2. CASE rows[i] # None
  <2>1. rows[i] \in Rows  BY <1>2 DEF TypeOK
  <2>. DEFINE r == [rows[i] EXCEPT !.vlm = v, !.desc = d]
  <2>2. /\ r.of = rows[i].of /\ r.source = rows[i].source
        /\ r.result = rows[i].result /\ r.vlm = v
    BY <2>1 DEF Rows
  <2>3. rows' = [rows EXCEPT ![i] = r]  BY <1>2 DEF UpdateVlmResult
  <2>4. r # None
    <3>1. r \in Rows  BY <2>1 DEF Rows
    <3>. QED  BY <3>1
  <2>. HIDE DEF r
  <2>. QED  BY <2>2, <2>3, <2>4, <1>2 DEF TypeOK
<1>. QED  BY <1>1, <1>2

\* What a VLM update takes from the VLM thread's memory is of the right kind.
LEMMA MemoryType ==
  ASSUME IdsIssued, SnapshotsHold, NEW a \in Apps, gen[a].pc # "idle"
  PROVE  /\ gen[a].id \in Shots
         /\ gen[a].row.desc \in Shots \cup {None}
         /\ gen[a].row.desc \in {None, gen[a].row.of}
         /\ gen[a].row.of \in Shots
         /\ gen[a].id \in Live => gen[a].row.of = rows[gen[a].id].of
BY DEF IdsIssued, SnapshotsHold, Snapshots

\* A VLM thread neither adds nor removes rows and changes no image.
LEMMA GenerationKeepsImages ==
  ASSUME TypeOK, IdsIssued, SnapshotsHold, NEW a \in Apps, Generation(a)
  PROVE  ImagesKept /\ Live' = Live
<1>1. CASE UNCHANGED rows
  BY <1>1 DEF ImagesKept, Live
<1>2. CASE FailMissing(a)
  BY <1>2, MemoryType, UpdateKeepsImages DEF FailMissing, VlmStatuses
<1>3. CASE Reserve(a) /\ ~UNCHANGED rows
  <2>. DEFINE i == gen[a].id
  <2>1. rows[i] # None /\ rows' = [rows EXCEPT ![i].vlm = "PROCESSING"] /\ i \in Shots
    BY <1>3, MemoryType DEF Reserve
  <2>2. rows[i] \in Rows /\ rows'[i] \in Rows
    BY <2>1 DEF TypeOK, Rows, VlmStatuses
  <2>3. /\ rows'[i].of = rows[i].of
        /\ rows'[i].source = rows[i].source /\ rows'[i].result = rows[i].result
    BY <2>1, <2>2 DEF TypeOK, Rows
  <2>4. rows[i] # None /\ rows'[i] # None  BY <2>2, NoneIsNoValue
  <2>5. \A j \in Shots : j # i => rows'[j] = rows[j]  BY <2>1 DEF TypeOK
  <2>. HIDE DEF i
  <2>. QED  BY <2>3, <2>4, <2>5 DEF ImagesKept, Live
<1>4. CASE DescribeEnds(a)
  BY <1>4, MemoryType, UpdateKeepsImages
     DEF DescribeEnds, Described, DescribeFails, VlmStatuses
<1>. QED
  BY <1>1, <1>2, <1>3, <1>4
     DEF Generation, FindInspection, FindDefects, CheckImage, GenerationDbFails,
         GenVarsOnly, dbVars

\* A VLM thread remembers what it remembered, or has just read a row.
LEMMA GenerationMemory ==
  ASSUME TypeOK, NEW a \in Apps, Generation(a), NEW b \in Apps, gen'[b].pc # "idle"
  PROVE  \/ gen[b].pc # "idle" /\ gen'[b].id = gen[b].id /\ gen'[b].row = gen[b].row
         \/ /\ gen'[b].id \in Live /\ gen'[b].row = SnapshotOf(gen'[b].id)
            /\ UNCHANGED rows
<1>1. gen[a] \in Generations /\ gen \in [Apps -> Generations]
  BY DEF TypeOK
<1>2. CASE b # a
  BY <1>1, <1>2
     DEF Generation, FindInspection, FindDefects, CheckImage, FailMissing, Reserve,
         DescribeEnds, Described, DescribeFails, GenerationDbFails, Goto, GenerationEnds
<1>3. CASE b = a /\ (\E i \in Shots : FindInspection(a, i))
  BY <1>1, <1>3 DEF FindInspection, Live
<1>4. CASE b = a /\ (FindDefects(a) \/ CheckImage(a) \/ Reserve(a))
  BY <1>1, <1>4
     DEF FindDefects, CheckImage, Reserve, Goto, GenerationEnds, NoGeneration, Generations
<1>5. CASE b = a /\ (FailMissing(a) \/ DescribeEnds(a) \/ GenerationDbFails(a))
  BY <1>1, <1>5
     DEF FailMissing, DescribeEnds, Described, DescribeFails, GenerationDbFails,
         GenerationEnds, NoGeneration
<1>. QED  BY <1>2, <1>3, <1>4, <1>5 DEF Generation

\* A deletion only removes rows.
LEMMA DeletionOnlyRemoves ==
  ASSUME NEW a \in Apps, Deletion(a)
  PROVE  /\ \A i \in Live' : i \in Live /\ rows'[i] = rows[i]
         /\ UNCHANGED <<nextId, gen, shots, shot>>
BY DEF Deletion, FindToDelete, CountRows, Search, DeleteRows, DeleteFiles, UnlinkFails,
       DeletionEnds, DeletionDbFails, DelVarsOnly, fileVars, dbVars, Live

\* An inspection adds at most the row with the next id.
LEMMA InspectionOnlyAdds ==
  ASSUME TypeOK, NEW a \in Apps, Inspection(a)
  PROVE  /\ UNCHANGED gen
         /\ \/ UNCHANGED <<rows, nextId>>
            \/ /\ nextId' = nextId + 1
               /\ \A i \in Shots : i # nextId => rows'[i] = rows[i]
               /\ nextId \in Shots => rows'[nextId] = NewRow(shot[a])
BY DEF Inspection, Detect, Save, SaveFails, TypeOK, dbVars

-----------------------------------------------------------------------------
(* Ids and snapshots.                                                      *)

\* No id is issued twice.
LEMMA IdsStep ==
  ASSUME TypeOK, IdsIssued, SnapshotsHold, [Next]_vars
  PROVE  IdsIssued'
<1>1. CASE UNCHANGED vars
  BY <1>1 DEF vars, dbVars, IdsIssued, Live
<1>2. ASSUME NEW a \in Inspecting, Inspection(a)  PROVE IdsIssued'
  <2>1. a \in Apps  BY RolesOfApps
  <2>2. UNCHANGED gen  BY <1>2, <2>1, InspectionOnlyAdds
  <2>3. nextId \in Nat /\ Shots \subseteq Nat  BY DEF TypeOK, Shots
  <2>4. CASE UNCHANGED <<rows, nextId>>  BY <2>2, <2>4 DEF IdsIssued, Live
  <2>5. CASE nextId' = nextId + 1 /\ \A i \in Shots : i # nextId => rows'[i] = rows[i]
    <3>1. ASSUME NEW i \in Live'  PROVE i < nextId'
      <4>1. i \in Shots /\ rows'[i] # None /\ i \in Nat  BY <2>3 DEF Live
      <4>2. CASE i = nextId  BY <2>3, <2>5, <4>2
      <4>3. CASE i # nextId
        <5>1. i < nextId  BY <2>5, <4>1, <4>3 DEF IdsIssued, Live
        <5>. QED  BY <2>3, <2>5, <4>1, <5>1
      <4>. QED  BY <4>2, <4>3
    <3>2. ASSUME NEW b \in Apps, gen'[b].pc # "idle"
          PROVE  gen'[b].id \in Shots /\ gen'[b].id < nextId'
      <4>1. gen[b].id \in Shots /\ gen[b].id < nextId /\ gen'[b] = gen[b]
        BY <2>2, <3>2 DEF IdsIssued
      <4>2. gen[b].id \in Nat  BY <2>3, <4>1
      <4>. QED  BY <2>3, <2>5, <4>1, <4>2
    <3>. QED  BY <3>1, <3>2 DEF IdsIssued
  <2>. QED  BY <1>2, <2>1, <2>4, <2>5, InspectionOnlyAdds
<1>3. ASSUME NEW a \in Deleting, Deletion(a)  PROVE IdsIssued'
  <2>1. a \in Apps  BY RolesOfApps
  <2>. QED  BY <1>3, <2>1, DeletionOnlyRemoves DEF IdsIssued
<1>4. ASSUME NEW a \in Apps, Generation(a)  PROVE IdsIssued'
  <2>1. Live' = Live /\ UNCHANGED nextId
    BY <1>4, GenerationKeepsImages
       DEF Generation, FindInspection, FindDefects, CheckImage, FailMissing, Reserve,
           DescribeEnds, Described, DescribeFails, GenerationDbFails, GenVarsOnly, dbVars
  <2>2. ASSUME NEW b \in Apps, gen'[b].pc # "idle"
        PROVE  gen'[b].id \in Shots /\ gen'[b].id < nextId
    BY <1>4, <2>2, GenerationMemory DEF IdsIssued, Live
  <2>. QED  BY <2>1, <2>2 DEF IdsIssued
<1>5. ASSUME NEW a \in Apps, Crash(a)  PROVE IdsIssued'
  BY <1>5 DEF Crash, dbVars, IdsIssued, Live, TypeOK, NoGeneration
<1>. QED  BY <1>1, <1>2, <1>3, <1>4, <1>5 DEF Next

\* Snapshots stay true of the rows they were taken from.
LEMMA SnapshotsStep ==
  ASSUME TypeOK, IdsIssued, SnapshotsHold, OwnDescription, [Next]_vars
  PROVE  SnapshotsHold'
<1>1. CASE UNCHANGED vars
  BY <1>1 DEF vars, dbVars, SnapshotsHold, Live
<1>2. ASSUME NEW a \in Inspecting, Inspection(a)  PROVE SnapshotsHold'
  <2>1. a \in Apps  BY RolesOfApps
  <2>2. \A i \in Shots : i < nextId => rows'[i] = rows[i]
    <3>1. nextId \in Nat /\ Shots \subseteq Nat  BY DEF TypeOK, Shots
    <3>. QED  BY <1>2, <2>1, <3>1, InspectionOnlyAdds
  <2>3. UNCHANGED gen  BY <1>2, <2>1, InspectionOnlyAdds
  <2>. QED  BY <2>2, <2>3 DEF SnapshotsHold, IdsIssued, Live
<1>3. ASSUME NEW a \in Deleting, Deletion(a)  PROVE SnapshotsHold'
  <2>1. a \in Apps  BY RolesOfApps
  <2>. QED  BY <1>3, <2>1, DeletionOnlyRemoves DEF SnapshotsHold
<1>4. ASSUME NEW a \in Apps, Generation(a)  PROVE SnapshotsHold'
  <2>1. ImagesKept /\ Live' = Live  BY <1>4, GenerationKeepsImages
  <2>2. ASSUME NEW b \in Apps, gen'[b].pc # "idle"
        PROVE  /\ gen'[b].row \in Snapshots
               /\ gen'[b].row.desc \in {None, gen'[b].row.of}
               /\ gen'[b].id \in Live' =>
                    /\ gen'[b].row.of = rows'[gen'[b].id].of
                    /\ gen'[b].row.source = rows'[gen'[b].id].source
                    /\ gen'[b].row.result = rows'[gen'[b].id].result
    <3>1. CASE gen[b].pc # "idle" /\ gen'[b].id = gen[b].id /\ gen'[b].row = gen[b].row
      BY <3>1, <2>1 DEF SnapshotsHold, ImagesKept
    <3>2. CASE /\ gen'[b].id \in Live /\ gen'[b].row = SnapshotOf(gen'[b].id)
               /\ UNCHANGED rows
      <4>1. rows[gen'[b].id] \in Rows  BY <3>2 DEF Live, TypeOK
      <4>. QED  BY <3>2, <4>1 DEF SnapshotOf, Rows, Snapshots, OwnDescription
    <3>. QED  BY <1>4, <2>2, <3>1, <3>2, GenerationMemory
  <2>. QED  BY <2>2 DEF SnapshotsHold
<1>5. ASSUME NEW a \in Apps, Crash(a)  PROVE SnapshotsHold'
  BY <1>5 DEF Crash, dbVars, SnapshotsHold, Live, TypeOK, NoGeneration
<1>. QED  BY <1>1, <1>2, <1>3, <1>4, <1>5 DEF Next

\* A description is of the row's own detections.
LEMMA DescriptionsStep ==
  ASSUME TypeOK, IdsIssued, SnapshotsHold, OwnDescription, [Next]_vars
  PROVE  OwnDescription'
<1>. DEFINE Own(r) == /\ r.desc \in {None, r.of}
                      /\ r.vlm = "COMPLETED" => r.desc = r.of
<1>u. ASSUME NEW i \in Shots, NEW v \in VlmStatuses, NEW d, UpdateVlmResult(i, v, d),
             i \in Live => d \in {None, rows[i].of} /\ (v = "COMPLETED" => d = rows[i].of)
      PROVE  OwnDescription'
  <2>1. CASE rows[i] = None  BY <1>u, <2>1 DEF UpdateVlmResult, OwnDescription, Live
  <2>2. CASE rows[i] # None
    <3>1. rows[i] \in Rows  BY <2>2 DEF TypeOK
    <3>. DEFINE r == [rows[i] EXCEPT !.vlm = v, !.desc = d]
    <3>2. r.vlm = v /\ r.desc = d /\ r.of = rows[i].of  BY <3>1 DEF Rows
    <3>3. rows' = [rows EXCEPT ![i] = r]  BY <1>u, <2>2 DEF UpdateVlmResult
    <3>4. i \in Live  BY <2>2 DEF Live
    <3>5. Own(r)  BY <1>u, <3>2, <3>4
    <3>6. rows'[i] = r /\ \A j \in Shots : j # i => rows'[j] = rows[j]
      BY <3>3 DEF TypeOK
    <3>. HIDE DEF r
    <3>. QED  BY <3>4, <3>5, <3>6 DEF OwnDescription, Live
  <2>. QED  BY <2>1, <2>2
<1>1. CASE UNCHANGED rows
  BY <1>1 DEF OwnDescription, Live
<1>2. ASSUME NEW a \in Inspecting, Inspection(a)  PROVE OwnDescription'
  <2>1. a \in Apps  BY RolesOfApps
  <2>2. \A i \in Shots : rows'[i] = rows[i] \/ rows'[i] = NewRow(shot[a])
    BY <1>2, <2>1, InspectionOnlyAdds
  <2>3. Own(NewRow(shot[a]))  BY DEF NewRow
  <2>. QED  BY <2>2, <2>3 DEF OwnDescription, Live
<1>3. ASSUME NEW a \in Deleting, Deletion(a)  PROVE OwnDescription'
  <2>1. a \in Apps  BY RolesOfApps
  <2>. QED  BY <1>3, <2>1, DeletionOnlyRemoves DEF OwnDescription
<1>4. ASSUME NEW a \in Apps, Generation(a)  PROVE OwnDescription'
  <2>1. CASE FailMissing(a)
    BY <1>u, <2>1, MemoryType DEF FailMissing, VlmStatuses
  <2>2. CASE DescribeEnds(a)
    BY <1>u, <2>2, MemoryType DEF DescribeEnds, Described, DescribeFails, VlmStatuses
  <2>3. CASE Reserve(a) /\ ~UNCHANGED rows
    <3>. DEFINE i == gen[a].id
    <3>1. rows[i] # None /\ rows' = [rows EXCEPT ![i].vlm = "PROCESSING"] /\ i \in Shots
      BY <2>3, MemoryType DEF Reserve
    <3>2. rows[i] \in Rows  BY <3>1 DEF TypeOK
    <3>3. /\ rows'[i].vlm = "PROCESSING" /\ rows'[i].desc = rows[i].desc
          /\ rows'[i].of = rows[i].of
      BY <3>1, <3>2 DEF TypeOK, Rows
    <3>4. \A j \in Shots : j # i => rows'[j] = rows[j]  BY <3>1 DEF TypeOK
    <3>. HIDE DEF i
    <3>. QED  BY <3>1, <3>3, <3>4 DEF OwnDescription, Live
  <2>. QED
    BY <1>1, <1>4, <2>1, <2>2, <2>3
       DEF Generation, FindInspection, FindDefects, CheckImage, GenerationDbFails,
           GenVarsOnly, dbVars
<1>. QED
  BY <1>1, <1>2, <1>3, <1>4 DEF Next, Crash, dbVars, vars

-----------------------------------------------------------------------------
(* Files.                                                                  *)

\* A step that adds no row, no detection and nothing to delete, and removes no
\* file, keeps every result image in one hand.
LEMMA QuietFiles ==
  ASSUME FilesInv, ImagesKept, UNCHANGED <<results, shots>>,
         \A b \in Apps : shot'[b] # None => shot'[b] = shot[b],
         \A b \in Apps : \A img \in del'[b].found :
           img \in del[b].found /\ del'[b].pc = del[b].pc /\ del'[b].id = del[b].id
  PROVE  FilesInv'
<1>. USE DEF FilesInv, ImagesKept
<1>1. ResultsCounted'  BY DEF ResultsCounted
<1>2. RowsShareNoResult'  BY DEF RowsShareNoResult
<1>3. DetectionsShareNoResult'  BY DEF DetectionsShareNoResult
<1>4. DeletionsTakeDeletedRows'  BY DEF DeletionsTakeDeletedRows
<1>5. LiveRowsKeepResult'  BY DEF LiveRowsKeepResult
<1>. QED  BY <1>1, <1>2, <1>3, <1>4, <1>5

\* A new detection has a result image of its own.
LEMMA DetectFiles ==
  ASSUME TypeOK, FilesInv, NEW a \in Apps, NEW s \in Sources, NEW kind \in Findings,
         Detect(a, s, kind)
  PROVE  FilesInv'
<1>. USE DEF FilesInv
<1>1. PICK r \in {shots + 1, None} :
        /\ results' = results \cup ({r} \ {None})
        /\ shot' = [shot EXCEPT ![a] = [of |-> shots', kind |-> kind, source |-> s, result |-> r]]
  BY DEF Detect, NewResult
<1>2. UNCHANGED <<rows, del>> /\ Live' = Live  BY DEF Detect, dbVars, Live
<1>3. shots \in Nat /\ shots' = shots + 1 /\ shots + 1 \in Shots
  BY ShotsAreCounted DEF Detect, TypeOK, Shots
<1>4. shot'[a].result = r /\ \A b \in Apps : b # a => shot'[b] = shot[b]
  BY <1>1 DEF TypeOK
<1>5. ASSUME NEW k \in Shots \cup {None}, k # None, k <= shots  PROVE k # r /\ k <= shots'
  BY <1>1, <1>3, <1>5, NoneIsNoValue DEF Shots
<1>6. \A i \in Live : rows[i].result \in Shots \cup {None}
  BY DEF TypeOK, Live, Rows
<1>7. \A b \in Apps : shot[b] # None => shot[b].result \in Shots \cup {None}
  BY DEF TypeOK, Detections
<1>8. \A b \in Apps : \A img \in del[b].found : img.result \in Shots \cup {None}
  BY DEF TypeOK, Deletions, Images
<1>9. ResultsCounted'
  BY <1>1, <1>2, <1>3, <1>4, <1>5, <1>6, <1>7, <1>8 DEF ResultsCounted
<1>10. DetectionsShareNoResult'
  <2>1. ASSUME NEW b \in Apps, shot'[b] # None, shot'[b].result # None
        PROVE  /\ shot'[b].result \in results'
               /\ \A i \in Live : rows[i].result # shot'[b].result
               /\ \A c \in Apps : c # b /\ shot'[c] # None => shot'[c].result # shot'[b].result
               /\ \A c \in Apps : \A img \in del[c].found : img.result # shot'[b].result
    <3>1. CASE b = a
      BY <1>1, <1>4, <1>5, <1>6, <1>7, <1>8, <2>1, <3>1 DEF ResultsCounted
    <3>2. CASE b # a
      BY <1>1, <1>4, <1>5, <1>7, <2>1, <3>2 DEF DetectionsShareNoResult, ResultsCounted
    <3>. QED  BY <3>1, <3>2
  <2>. QED  BY <1>2, <2>1 DEF DetectionsShareNoResult
<1>11. RowsShareNoResult' /\ DeletionsTakeDeletedRows' /\ LiveRowsKeepResult'
  BY <1>1, <1>2 DEF RowsShareNoResult, DeletionsTakeDeletedRows, LiveRowsKeepResult
<1>. QED  BY <1>9, <1>10, <1>11

\* A saved row takes over the result image of its detection.
LEMMA SaveFiles ==
  ASSUME TypeOK, IdsIssued, FilesInv, NEW a \in Apps, Save(a)
  PROVE  FilesInv'
<1>. USE DEF FilesInv
<1>. DEFINE d == shot[a]
<1>1. d # None /\ UNCHANGED <<results, shots, del>>
  BY DEF Save, fileVars
<1>2. shot'[a] = None /\ \A b \in Apps : b # a => shot'[b] = shot[b]
  BY DEF Save, TypeOK
<1>3. \A i \in Shots : i # nextId => rows'[i] = rows[i]
  BY DEF Save, TypeOK
<1>4. nextId \in Shots => rows'[nextId].result = d.result /\ nextId \notin Live
  <2>1. nextId \in Shots => rows'[nextId] = NewRow(d)  BY DEF Save, TypeOK
  <2>2. nextId \notin Live  BY DEF IdsIssued, TypeOK
  <2>. QED  BY <2>1, <2>2 DEF NewRow
<1>5. ASSUME NEW i \in Live'
      PROVE  \/ i # nextId /\ i \in Live /\ rows'[i] = rows[i]
             \/ i = nextId /\ rows'[i].result = d.result
  BY <1>3, <1>4 DEF Live
<1>. HIDE DEF d
<1>d. d.result # None =>
        /\ d.result \in results /\ d.result <= shots
        /\ \A i \in Live : rows[i].result # d.result
        /\ \A b \in Apps : b # a /\ shot[b] # None => shot[b].result # d.result
        /\ \A b \in Apps : \A img \in del[b].found : img.result # d.result
  BY <1>1 DEF DetectionsShareNoResult, ResultsCounted, d
<1>6. ResultsCounted'  BY <1>1, <1>2, <1>5, <1>d DEF ResultsCounted
<1>7. RowsShareNoResult'  BY <1>5, <1>d DEF RowsShareNoResult
<1>8. DetectionsShareNoResult'
  <2>1. ASSUME NEW b \in Apps, shot'[b] # None, shot'[b].result # None
        PROVE  b # a /\ shot'[b] = shot[b] /\ shot[b].result # d.result
    BY <1>1, <1>2, <2>1, <1>d DEF DetectionsShareNoResult, d
  <2>. QED  BY <1>1, <1>2, <1>5, <2>1 DEF DetectionsShareNoResult
<1>9. DeletionsTakeDeletedRows'  BY <1>1, <1>5, <1>d DEF DeletionsTakeDeletedRows
<1>10. LiveRowsKeepResult'  BY <1>1, <1>5, <1>d DEF LiveRowsKeepResult
<1>. QED  BY <1>6, <1>7, <1>8, <1>9, <1>10

\* What is found to be deleted is of rows that are there.
LEMMA FoundFiles ==
  ASSUME TypeOK, FilesInv, NEW a \in Apps,
         (del'[a].id \in Shots /\ FindToDelete(a, del'[a].id)) \/ Search(a)
  PROVE  FilesInv'
<1>. USE DEF FilesInv
<1>1. /\ UNCHANGED <<rows, results, shots, shot>> /\ Live' = Live
      /\ \A b \in Apps : b # a => del'[b] = del[b]
  BY DEF FindToDelete, Search, DelVarsOnly, fileVars, Live, TypeOK
<1>2. \A img \in del'[a].found : \E i \in Live :
         /\ img.result = rows[i].result
         /\ del'[a].id # None => del'[a].id = i
  <2>1. CASE del'[a].id \in Shots /\ FindToDelete(a, del'[a].id)
    <3>. DEFINE i == del'[a].id
    <3>1. i \in Live /\ del'[a].found = {ImagesOf(i)}
      BY <2>1 DEF FindToDelete, TypeOK, Live
    <3>2. ImagesOf(i).result = rows[i].result  BY DEF ImagesOf
    <3>. HIDE DEF i
    <3>. QED  BY <3>1, <3>2 DEF i
  <2>2. CASE Search(a)
    <3>1. del'[a].id = None /\ del'[a].found = {ImagesOf(i) : i \in Newest(del[a].count)}
      BY <2>2 DEF Search, TypeOK
    <3>2. ASSUME NEW img \in del'[a].found  PROVE \E i \in Live : img.result = rows[i].result
      <4>1. PICK i \in Newest(del[a].count) : img = ImagesOf(i)  BY <3>1
      <4>2. i \in Live /\ img.result = rows[i].result  BY <4>1 DEF ImagesOf, Newest
      <4>. QED  BY <4>2
    <3>. QED  BY <3>1, <3>2
  <2>. QED  BY <2>1, <2>2
<1>3. del'[a].pc = "delete"
  BY DEF FindToDelete, Search, TypeOK
<1>4. ResultsCounted'  BY <1>1, <1>2 DEF ResultsCounted
<1>5. DetectionsShareNoResult'
  BY <1>1, <1>2 DEF DetectionsShareNoResult
<1>6. DeletionsTakeDeletedRows'
  BY <1>1, <1>2, <1>3 DEF DeletionsTakeDeletedRows, RowsShareNoResult
<1>7. RowsShareNoResult' /\ LiveRowsKeepResult'
  BY <1>1 DEF RowsShareNoResult, LiveRowsKeepResult
<1>. QED  BY <1>4, <1>5, <1>6, <1>7

\* Rows that are deleted let their images go; the other rows have none of them.
LEMMA DeleteRowsFiles ==
  ASSUME TypeOK, FilesInv, NEW a \in Apps, DeleteRows(a)
  PROVE  FilesInv'
<1>. USE DEF FilesInv
<1>1. /\ UNCHANGED <<results, shots, shot>>
      /\ \A b \in Apps : b # a => del'[b] = del[b]
  BY DEF DeleteRows, DelVarsOnly, fileVars, TypeOK
<1>2. \A i \in Live' : i \in Live /\ rows'[i] = rows[i]
  BY DEF DeleteRows, Live
<1>3. \/ del'[a].found = {}
      \/ /\ del'[a].found = del[a].found /\ del[a].pc = "delete"
         /\ \A i \in Live' : del[a].id # None /\ i # del[a].id
  <2>1. del[a] \in Deletions /\ del \in [Apps -> Deletions]  BY DEF TypeOK
  <2>2. CASE del[a].id = None
    BY <2>1, <2>2 DEF DeleteRows, Live, Deletions
  <2>3. CASE del[a].id # None
    BY <2>1, <2>3 DEF DeleteRows, Live, Deletions, NoDeletion
  <2>. QED  BY <2>2, <2>3
<1>4. ResultsCounted'  BY <1>1, <1>2, <1>3 DEF ResultsCounted
<1>5. DetectionsShareNoResult'  BY <1>1, <1>2, <1>3 DEF DetectionsShareNoResult
<1>6. DeletionsTakeDeletedRows'
  <2>1. ASSUME NEW b \in Apps, NEW img \in del'[b].found, img.result # None
        PROVE  /\ del'[b].pc = "files" => \A i \in Live' : rows'[i].result # img.result
               /\ del'[b].pc = "delete" /\ del'[b].id # None
                    => \A i \in Live' : rows'[i].result = img.result => i = del'[b].id
    <3>1. CASE b # a  BY <1>1, <1>2, <2>1, <3>1 DEF DeletionsTakeDeletedRows
    <3>2. CASE b = a  BY <1>2, <1>3, <2>1, <3>2 DEF DeletionsTakeDeletedRows
    <3>. QED  BY <3>1, <3>2
  <2>. QED  BY <2>1 DEF DeletionsTakeDeletedRows
<1>7. RowsShareNoResult' /\ LiveRowsKeepResult'
  BY <1>1, <1>2 DEF RowsShareNoResult, LiveRowsKeepResult
<1>. QED  BY <1>4, <1>5, <1>6, <1>7

\* A file that is deleted is nobody's any more.
LEMMA DeleteFilesFiles ==
  ASSUME TypeOK, FilesInv, NEW a \in Apps, NEW img \in del[a].found, DeleteFiles(a, img)
  PROVE  FilesInv'
<1>. USE DEF FilesInv
<1>1. /\ UNCHANGED <<rows, shots, shot>> /\ Live' = Live
      /\ results' = results \ {img.result}
      /\ del[a].pc = "files"
  BY DEF DeleteFiles, DelVarsOnly, Live
<1>2. \A b \in Apps : \A x \in del'[b].found :
         x \in del[b].found /\ del'[b].pc = del[b].pc /\ del'[b].id = del[b].id
  BY DEF DeleteFiles, TypeOK, Deletions
<1>3. ResultsCounted' /\ RowsShareNoResult'
  BY <1>1, <1>2 DEF ResultsCounted, RowsShareNoResult
<1>4. DetectionsShareNoResult'  BY <1>1, <1>2 DEF DetectionsShareNoResult
<1>5. DeletionsTakeDeletedRows'  BY <1>1, <1>2 DEF DeletionsTakeDeletedRows
<1>6. LiveRowsKeepResult'
  BY <1>1 DEF LiveRowsKeepResult, DeletionsTakeDeletedRows
<1>. QED  BY <1>3, <1>4, <1>5, <1>6

\* Every step keeps every result image in one hand.
LEMMA FilesStep ==
  ASSUME TypeOK, IdsIssued, SnapshotsHold, FilesInv, [Next]_vars
  PROVE  FilesInv'
<1>1. CASE UNCHANGED vars
  <2>1. ImagesKept  BY <1>1 DEF vars, dbVars, ImagesKept, Live
  <2>. QED  BY <1>1, <2>1, QuietFiles DEF vars, fileVars
<1>2. ASSUME NEW a \in Inspecting, Inspection(a)  PROVE FilesInv'
  <2>1. a \in Apps  BY RolesOfApps
  <2>2. CASE SaveFails(a)
    <3>1. ImagesKept  BY <2>2 DEF SaveFails, dbVars, ImagesKept, Live
    <3>. QED  BY <2>2, <3>1, <2>1, QuietFiles DEF SaveFails, fileVars, TypeOK
  <2>. QED  BY <1>2, <2>1, <2>2, DetectFiles, SaveFiles DEF Inspection
<1>3. ASSUME NEW a \in Deleting, Deletion(a)  PROVE FilesInv'
  <2>1. a \in Apps  BY RolesOfApps
  <2>2. ASSUME NEW i \in Shots, FindToDelete(a, i)  PROVE FilesInv'
    <3>1. del'[a].id = i  BY <2>1, <2>2 DEF FindToDelete, TypeOK
    <3>. QED  BY <2>1, <2>2, <3>1, FoundFiles
  <2>3. CASE \/ CountRows(a) \/ DeletionEnds(a) \/ DeletionDbFails(a)
             \/ \E img \in del[a].found : UnlinkFails(a, img)
    <3>1. ImagesKept /\ UNCHANGED <<results, shots, shot>>
      BY <2>3 DEF CountRows, DeletionEnds, DeletionDbFails, UnlinkFails, DelVarsOnly,
                  dbVars, fileVars, ImagesKept, Live
    <3>2. \A b \in Apps : \A x \in del'[b].found :
             x \in del[b].found /\ del'[b].pc = del[b].pc /\ del'[b].id = del[b].id
      BY <2>1, <2>3 DEF CountRows, DeletionEnds, DeletionDbFails, UnlinkFails, NoDeletion,
                  TypeOK, Deletions
    <3>. QED  BY <3>1, <3>2, QuietFiles
  <2>. QED
    BY <1>3, <2>1, <2>2, <2>3, FoundFiles, DeleteRowsFiles, DeleteFilesFiles DEF Deletion
<1>4. ASSUME NEW a \in Apps, Generation(a)  PROVE FilesInv'
  <2>1. UNCHANGED <<results, shots, shot, del>>
    BY <1>4
       DEF Generation, FindInspection, FindDefects, CheckImage, FailMissing, Reserve,
           DescribeEnds, Described, DescribeFails, GenerationDbFails, GenVarsOnly, fileVars
  <2>. QED  BY <1>4, <2>1, GenerationKeepsImages, QuietFiles
<1>5. ASSUME NEW a \in Apps, Crash(a)  PROVE FilesInv'
  <2>1. ImagesKept  BY <1>5 DEF Crash, dbVars, ImagesKept, Live
  <2>. QED  BY <1>5, <2>1, QuietFiles DEF Crash, fileVars, TypeOK, NoDeletion
<1>. QED  BY <1>1, <1>2, <1>3, <1>4, <1>5 DEF Next

-----------------------------------------------------------------------------
(* Theorems.                                                               *)

\* Initially there is nothing that could be shared.
LEMMA InitHistory == Init => HistoryInv
BY InitType
   DEF Init, HistoryInv, IdsIssued, SnapshotsHold, OwnDescription, FilesInv, ResultsCounted,
       RowsShareNoResult, DetectionsShareNoResult, DeletionsTakeDeletedRows,
       LiveRowsKeepResult, Live, NoGeneration, NoDeletion

\* However inspections, generations, deletions, crashes and faults interleave, the
\* inductive invariant of the history holds, and with it what follows below.
THEOREM HistoryInvariant == Spec => []HistoryInv
<1>1. HistoryInv /\ [Next]_vars => HistoryInv'
  BY StepType, IdsStep, SnapshotsStep, DescriptionsStep, FilesStep DEF HistoryInv
<1>. QED  BY InitHistory, <1>1, PTL DEF Spec

\* The table, the files and the threads keep their types.
THEOREM TypeCorrect == Spec => []TypeOK
BY HistoryInvariant, PTL DEF HistoryInv

\* However deletions, new inspections and generations interleave, a description
\* lands in the row of the inspection it was made for.
THEOREM DescriptionsAreOwn == Spec => []OwnDescription
BY HistoryInvariant, PTL DEF HistoryInv

\* No deletion removes the result image of an inspection that stays.
THEOREM ResultsAreKept == Spec => []LiveRowsKeepResult
BY HistoryInvariant, PTL DEF HistoryInv, FilesInv

-----------------------------------------------------------------------------
(* Generations.                                                            *)

\* The effect of an update on the table.
LEMMA UpdateEffect ==
  ASSUME TypeOK, NEW i \in Shots, NEW v \in VlmStatuses, NEW d \in Shots \cup {None},
         UpdateVlmResult(i, v, d)
  PROVE  /\ Live' = Live
         /\ \A j \in Shots : j # i => rows'[j] = rows[j]
         /\ i \in Live => rows'[i].vlm = v
         /\ i \notin Live => UNCHANGED rows
<1>1. Live' = Live  BY UpdateKeepsImages
<1>2. CASE rows[i] = None  BY <1>1, <1>2 DEF UpdateVlmResult, Live
<1>3. CASE rows[i] # None
  <2>1. rows[i] \in Rows  BY <1>3 DEF TypeOK
  <2>. DEFINE r == [rows[i] EXCEPT !.vlm = v, !.desc = d]
  <2>2. r.vlm = v  BY <2>1 DEF Rows
  <2>3. rows' = [rows EXCEPT ![i] = r]  BY <1>3 DEF UpdateVlmResult
  <2>. HIDE DEF r
  <2>. QED  BY <1>1, <1>3, <2>2, <2>3 DEF TypeOK, Live
<1>. QED  BY <1>2, <1>3

\* The effect of a granted reservation on the table.
LEMMA ReserveEffect ==
  ASSUME TypeOK, IdsIssued, SnapshotsHold, NEW a \in Apps, Reserve(a), ~UNCHANGED rows
  PROVE  /\ gen[a].pc = "reserve" /\ gen[a].id \in Live
         /\ rows[gen[a].id].vlm # "PROCESSING"
         /\ rows'[gen[a].id].vlm = "PROCESSING"
         /\ \A j \in Shots : j # gen[a].id => rows'[j] = rows[j]
         /\ gen' = [gen EXCEPT ![a].pc = "describe"]
         /\ Live' = Live
<1>. DEFINE i == gen[a].id
<1>1. /\ i \in Shots /\ rows[i] # None /\ rows[i].vlm # "PROCESSING"
      /\ rows' = [rows EXCEPT ![i].vlm = "PROCESSING"]
      /\ gen' = [gen EXCEPT ![a].pc = "describe"]
      /\ gen[a].pc = "reserve"
  BY MemoryType DEF Reserve, Goto
<1>2. rows[i] \in Rows  BY <1>1 DEF TypeOK
<1>3. rows'[i].vlm = "PROCESSING"  BY <1>1, <1>2 DEF TypeOK, Rows
<1>4. \A j \in Shots : j # i => rows'[j] = rows[j]  BY <1>1 DEF TypeOK
<1>5. Live' = Live
  BY GenerationKeepsImages DEF Generation
<1>. QED  BY <1>1, <1>3, <1>4, <1>5 DEF Live

\* A reservation that is granted changes the row.
LEMMA ReservedChanges ==
  ASSUME TypeOK, NEW i \in Shots, rows[i] # None, rows[i].vlm # "PROCESSING"
  PROVE  [rows EXCEPT ![i].vlm = "PROCESSING"] # rows
<1>1. rows[i] \in Rows  BY DEF TypeOK
<1>2. [rows EXCEPT ![i].vlm = "PROCESSING"][i].vlm = "PROCESSING"
  BY <1>1 DEF TypeOK, Rows
<1>. QED  BY <1>2

\* An inspection does not touch the rows generations have.
LEMMA InspectionSparesGenerations ==
  ASSUME TypeOK, IdsIssued, NEW a \in Apps, Inspection(a)
  PROVE  /\ UNCHANGED <<gen, abandoned>>
         /\ \A b \in Apps : gen[b].pc # "idle" =>
              /\ rows'[gen[b].id] = rows[gen[b].id]
              /\ gen[b].id \in Live' <=> gen[b].id \in Live
<1>1. UNCHANGED <<gen, abandoned>>
  BY DEF Inspection, Detect, Save, SaveFails, faultVars
<1>2. \A b \in Apps : gen[b].pc # "idle" => gen[b].id \in Shots /\ gen[b].id # nextId
  BY DEF IdsIssued, TypeOK, Shots
<1>. QED  BY <1>1, <1>2, InspectionOnlyAdds DEF Live

\* A row in PROCESSING has a generation that will resolve it, or was cut off.
LEMMA OwnerStep ==
  ASSUME TypeOK, IdsIssued, SnapshotsHold, ProcessingHasOwner, [Next]_vars
  PROVE  ProcessingHasOwner'
<1>. DEFINE Owner(i, b) == gen[b].pc = "describe" /\ gen[b].id = i
<1>1. CASE UNCHANGED vars
  BY <1>1 DEF vars, dbVars, faultVars, ProcessingHasOwner, Live
<1>2. ASSUME NEW a \in Inspecting, Inspection(a)  PROVE ProcessingHasOwner'
  <2>1. a \in Apps  BY RolesOfApps
  <2>2. \A i \in Live' : rows'[i] = rows[i] \/ rows'[i].vlm # "PROCESSING"
    <3>1. \A i \in Shots : rows'[i] = rows[i] \/ rows'[i] = NewRow(shot[a])
      BY <1>2, <2>1, InspectionOnlyAdds
    <3>2. \A i \in Shots : NewRow(shot[a]).vlm # "PROCESSING"  BY DEF NewRow
    <3>. QED  BY <3>1, <3>2 DEF Live
  <2>3. UNCHANGED <<gen, abandoned>>  BY <1>2, <2>1, InspectionSparesGenerations
  <2>. QED  BY <2>2, <2>3 DEF ProcessingHasOwner, Live
<1>3. ASSUME NEW a \in Deleting, Deletion(a)  PROVE ProcessingHasOwner'
  <2>1. a \in Apps  BY RolesOfApps
  <2>2. UNCHANGED abandoned
    BY <1>3 DEF Deletion, FindToDelete, CountRows, Search, DeleteRows, DeleteFiles,
                UnlinkFails, DeletionEnds, DeletionDbFails, DelVarsOnly, faultVars
  <2>. QED  BY <1>3, <2>1, <2>2, DeletionOnlyRemoves DEF ProcessingHasOwner
<1>4. ASSUME NEW a \in Apps, Generation(a)  PROVE ProcessingHasOwner'
  <2>g. gen \in [Apps -> Generations] /\ gen[a] \in Generations  BY DEF TypeOK
  <2>1. CASE \/ \E i \in Shots : FindInspection(a, i)
             \/ FindDefects(a) \/ CheckImage(a) \/ (Reserve(a) /\ UNCHANGED rows)
    <3>1. UNCHANGED <<rows, abandoned>> /\ gen[a].pc # "describe"
      BY <2>1 DEF FindInspection, FindDefects, CheckImage, Reserve, GenVarsOnly, faultVars
    <3>2. \A b \in Apps : b # a => gen'[b] = gen[b]
      BY <2>1, <2>g DEF FindInspection, FindDefects, CheckImage, Reserve, Goto, GenerationEnds
    <3>. QED  BY <3>1, <3>2 DEF ProcessingHasOwner, Live
  <2>2. CASE FailMissing(a) \/ DescribeEnds(a)
    <3>1. PICK v \in VlmStatuses \ {"PROCESSING"}, d \in Shots \cup {None} :
            UpdateVlmResult(gen[a].id, v, d)
      BY <2>2, MemoryType DEF FailMissing, DescribeEnds, Described, DescribeFails, VlmStatuses
    <3>2. gen[a].id \in Shots
      BY <2>2, MemoryType DEF FailMissing, DescribeEnds, Described, DescribeFails
    <3>3. UNCHANGED abandoned /\ \A b \in Apps : b # a => gen'[b] = gen[b]
      BY <2>2, <2>g DEF FailMissing, DescribeEnds, Described, DescribeFails, GenerationEnds,
                        GenVarsOnly, faultVars
    <3>4. /\ Live' = Live
          /\ \A j \in Shots : j # gen[a].id => rows'[j] = rows[j]
          /\ gen[a].id \in Live => rows'[gen[a].id].vlm # "PROCESSING"
      BY <3>1, <3>2, UpdateEffect
    <3>. QED  BY <3>3, <3>4 DEF ProcessingHasOwner, Live
  <2>3. CASE Reserve(a) /\ ~UNCHANGED rows
    <3>1. UNCHANGED abandoned  BY <2>3 DEF Reserve, GenVarsOnly, faultVars
    <3>2. /\ gen[a].pc = "reserve"
          /\ \A j \in Shots : j # gen[a].id => rows'[j] = rows[j]
          /\ gen' = [gen EXCEPT ![a].pc = "describe"]
          /\ Live' = Live
      BY <2>3, ReserveEffect
    <3>3. /\ gen'[a].pc = "describe" /\ gen'[a].id = gen[a].id
          /\ \A b \in Apps : b # a => gen'[b] = gen[b]
      BY <2>g, <3>2 DEF Generations
    <3>. QED  BY <3>1, <3>2, <3>3 DEF ProcessingHasOwner, Live
  <2>4. CASE GenerationDbFails(a)
    <3>1. UNCHANGED rows /\ \A b \in Apps : b # a => gen'[b] = gen[b]
      BY <2>4, <2>g DEF GenerationDbFails, GenerationEnds, dbVars
    <3>2. abandoned \subseteq abandoned' /\ (gen[a].pc = "describe" => gen[a].id \in abandoned')
      BY <2>4 DEF GenerationDbFails, CutOff
    <3>. QED  BY <3>1, <3>2 DEF ProcessingHasOwner, Live
  <2>. QED  BY <1>4, <2>1, <2>2, <2>3, <2>4 DEF Generation
<1>5. ASSUME NEW a \in Apps, Crash(a)  PROVE ProcessingHasOwner'
  <2>1. UNCHANGED rows /\ \A b \in Apps : b # a => gen'[b] = gen[b]
    BY <1>5 DEF Crash, dbVars, TypeOK
  <2>2. abandoned \subseteq abandoned' /\ (gen[a].pc = "describe" => gen[a].id \in abandoned')
    BY <1>5 DEF Crash, CutOff
  <2>. QED  BY <2>1, <2>2 DEF ProcessingHasOwner, Live
<1>. QED  BY <1>1, <1>2, <1>3, <1>4, <1>5 DEF Next

\* A row never stays PROCESSING without a generation that will resolve it, unless
\* that generation was cut off by a crash or a failed transaction.
THEOREM ProcessingIsOwned == Spec => []ProcessingHasOwner
<1>1. Init => ProcessingHasOwner  BY DEF Init, ProcessingHasOwner, Live
<1>2. HistoryInv /\ ProcessingHasOwner /\ [Next]_vars => ProcessingHasOwner'
  BY OwnerStep DEF HistoryInv
<1>. QED  BY <1>1, <1>2, HistoryInvariant, PTL DEF Spec

-----------------------------------------------------------------------------
(* Reservations, where no original image can be deleted.                   *)

\* A generation that is about to report a missing image has lost its row.
MissingIsGone == \A a \in Apps : gen[a].pc = "missing" => gen[a].id \notin Live

ReservationInv ==
  originals = Sources /\ MissingIsGone /\ ReservationHeld /\ OneGenerator

\* A step that leaves the rows of generations alone, or removes them, keeps their
\* reservations.
LEMMA QuietReservations ==
  ASSUME ReservationInv, IdsIssued, UNCHANGED originals,
         \A b \in Apps : gen'[b].pc \in {"missing", "describe"} => gen'[b] = gen[b],
         \A b \in Apps : gen[b].pc # "idle" /\ gen[b].id \in Live' =>
           gen[b].id \in Live /\ rows'[gen[b].id] = rows[gen[b].id]
  PROVE  ReservationInv'
<1>1. MissingIsGone'  BY DEF ReservationInv, MissingIsGone
<1>2. ReservationHeld'  BY DEF ReservationInv, ReservationHeld
<1>3. OneGenerator'  BY DEF ReservationInv, OneGenerator
<1>. QED  BY <1>1, <1>2, <1>3 DEF ReservationInv

\* An update that ends the generation of a row.
LEMMA UpdateReservations ==
  ASSUME TypeOK, IdsIssued, ReservationInv, NEW a \in Apps, UNCHANGED originals,
         GenerationEnds(a),
         NEW v \in VlmStatuses, NEW d \in Shots \cup {None}, UpdateVlmResult(gen[a].id, v, d),
         gen[a].pc = "describe" \/ gen[a].pc = "missing"
  PROVE  ReservationInv'
<1>1. gen'[a].pc = "idle" /\ \A b \in Apps : b # a => gen'[b] = gen[b]
  BY DEF GenerationEnds, NoGeneration, TypeOK
<1>2. gen[a].id \in Shots  BY DEF IdsIssued
<1>3. /\ Live' = Live
      /\ \A j \in Shots : j # gen[a].id => rows'[j] = rows[j]
      /\ gen[a].id \notin Live => UNCHANGED rows
  BY <1>2, UpdateEffect
<1>4. MissingIsGone'  BY <1>1, <1>3 DEF ReservationInv, MissingIsGone
<1>5. ReservationHeld'
  <2>1. ASSUME NEW b \in Apps, gen'[b].pc = "describe", gen'[b].id \in Live'
        PROVE  rows'[gen'[b].id].vlm = "PROCESSING"
    <3>1. b # a /\ gen'[b] = gen[b] /\ gen[b].id \in Live  BY <1>1, <1>3, <2>1
    <3>2. rows[gen[b].id].vlm = "PROCESSING"
      BY <2>1, <3>1 DEF ReservationInv, ReservationHeld
    <3>3. CASE gen[b].id # gen[a].id  BY <1>3, <3>1, <3>2, <3>3 DEF Live
    <3>4. CASE gen[b].id = gen[a].id
      <4>1. gen[a].pc # "describe"  BY <2>1, <3>1, <3>4 DEF ReservationInv, OneGenerator
      <4>2. gen[a].id \notin Live  BY <4>1 DEF ReservationInv, MissingIsGone
      <4>. QED  BY <3>1, <3>4, <4>2
    <3>. QED  BY <3>3, <3>4
  <2>. QED  BY <2>1 DEF ReservationHeld
<1>6. OneGenerator'  BY <1>1, <1>3 DEF ReservationInv, OneGenerator
<1>. QED  BY <1>4, <1>5, <1>6 DEF ReservationInv

\* A step keeps reservations exclusive when no original image can be deleted.
LEMMA ReservationStep ==
  ASSUME Managed = {}, HistoryInv, ReservationInv, [Next]_vars
  PROVE  ReservationInv'
<1>. USE DEF HistoryInv
<1>1. CASE UNCHANGED vars
  BY <1>1, QuietReservations DEF vars, dbVars, fileVars, Live
<1>2. ASSUME NEW a \in Inspecting, Inspection(a)  PROVE ReservationInv'
  <2>1. a \in Apps  BY RolesOfApps
  <2>2. UNCHANGED originals
    BY <1>2 DEF Inspection, Detect, Save, SaveFails, fileVars
  <2>. QED  BY <1>2, <2>1, <2>2, InspectionSparesGenerations, QuietReservations
<1>3. ASSUME NEW a \in Deleting, Deletion(a)  PROVE ReservationInv'
  <2>1. a \in Apps  BY RolesOfApps
  <2>2. UNCHANGED originals
    BY <1>3 DEF Deletion, FindToDelete, CountRows, Search, DeleteRows, DeleteFiles,
                UnlinkFails, DeletionEnds, DeletionDbFails, DelVarsOnly, fileVars
  <2>. QED  BY <1>3, <2>1, <2>2, DeletionOnlyRemoves, QuietReservations
<1>4. ASSUME NEW a \in Apps, Generation(a)  PROVE ReservationInv'
  <2>g. gen \in [Apps -> Generations] /\ gen[a] \in Generations  BY DEF TypeOK
  <2>1. CASE \/ \E i \in Shots : FindInspection(a, i)
             \/ FindDefects(a) \/ GenerationDbFails(a) \/ (Reserve(a) /\ UNCHANGED rows)
    <3>1. UNCHANGED <<rows, originals>> /\ Live' = Live
      BY <2>1 DEF FindInspection, FindDefects, GenerationDbFails, Reserve, GenVarsOnly,
                  fileVars, dbVars, Live
    <3>2. CASE Reserve(a)
      <4>1. gen' = [gen EXCEPT ![a] = NoGeneration]
        <5>1. gen[a].id \in Shots  BY <3>2, MemoryType DEF Reserve
        <5>2. rows[gen[a].id] # None => rows[gen[a].id] \in Rows  BY <5>1 DEF TypeOK
        <5>. QED
          BY <3>1, <3>2, <5>1, <5>2, ReservedChanges DEF Reserve, GenerationEnds
      <4>. QED  BY <4>1, <2>g, <3>1, QuietReservations DEF NoGeneration
    <3>3. CASE ~Reserve(a)
      <4>1. \A b \in Apps : gen'[b].pc \in {"missing", "describe"} => gen'[b] = gen[b]
        BY <2>1, <2>g, <3>3 DEF FindInspection, FindDefects, GenerationDbFails, Goto,
                                GenerationEnds, NoGeneration, Generations
      <4>. QED  BY <4>1, <3>1, QuietReservations
    <3>. QED  BY <3>2, <3>3
  <2>2. CASE FailMissing(a) \/ DescribeEnds(a)
    <3>1. /\ GenerationEnds(a) /\ UNCHANGED originals
          /\ gen[a].pc = "describe" \/ gen[a].pc = "missing"
      BY <2>2 DEF FailMissing, DescribeEnds, Described, DescribeFails, GenVarsOnly, fileVars
    <3>2. PICK v \in VlmStatuses, d \in Shots \cup {None} : UpdateVlmResult(gen[a].id, v, d)
      BY <2>2, MemoryType DEF FailMissing, DescribeEnds, Described, DescribeFails, VlmStatuses
    <3>. QED  BY <3>1, <3>2, UpdateReservations
  <2>3. CASE Reserve(a) /\ ~UNCHANGED rows
    <3>1. UNCHANGED originals  BY <2>3 DEF Reserve, GenVarsOnly, fileVars
    <3>2. /\ gen[a].id \in Live /\ rows[gen[a].id].vlm # "PROCESSING"
          /\ rows'[gen[a].id].vlm = "PROCESSING"
          /\ \A j \in Shots : j # gen[a].id => rows'[j] = rows[j]
          /\ gen' = [gen EXCEPT ![a].pc = "describe"]
          /\ Live' = Live
      BY <2>3, ReserveEffect
    <3>3. /\ gen'[a].pc = "describe" /\ gen'[a].id = gen[a].id
          /\ \A b \in Apps : b # a => gen'[b] = gen[b]
      BY <2>g, <3>2 DEF Generations
    <3>4. ASSUME NEW b \in Apps, b # a, gen[b].pc = "describe"  PROVE gen[b].id # gen[a].id
      BY <3>2, <3>4 DEF ReservationInv, ReservationHeld
    <3>5. MissingIsGone'  BY <3>2, <3>3 DEF ReservationInv, MissingIsGone
    <3>6. ReservationHeld'  BY <3>2, <3>3 DEF ReservationInv, ReservationHeld, Live
    <3>7. OneGenerator'  BY <3>2, <3>3, <3>4 DEF ReservationInv, OneGenerator
    <3>. QED  BY <3>1, <3>5, <3>6, <3>7 DEF ReservationInv
  <2>4. CASE CheckImage(a)
    <3>1. UNCHANGED <<rows, originals>> /\ Live' = Live
      BY <2>4 DEF CheckImage, GenVarsOnly, fileVars, Live
    <3>2. /\ \A b \in Apps : b # a => gen'[b] = gen[b]
          /\ gen'[a].id = gen[a].id /\ gen'[a].pc \in {"reserve", "missing"}
          /\ gen'[a].pc = "missing" => ~ImageExists(gen[a].row)
          /\ gen[a].pc = "image"
      BY <2>4, <2>g DEF CheckImage, Goto, Generations
    <3>3. gen[a].id \in Live => ImageExists(gen[a].row)
      <4>1. SUFFICES ASSUME gen[a].id \in Live  PROVE ImageExists(gen[a].row)
        OBVIOUS
      <4>2. /\ gen[a].row.source = rows[gen[a].id].source
            /\ gen[a].row.result = rows[gen[a].id].result
        BY <3>2, <4>1 DEF SnapshotsHold
      <4>3. rows[gen[a].id].source \in originals
        BY <4>1 DEF Live, TypeOK, Rows, ReservationInv
      <4>. QED  BY <4>1, <4>2, <4>3 DEF ImageExists, FilesInv, LiveRowsKeepResult
    <3>4. MissingIsGone'  BY <3>1, <3>2, <3>3 DEF ReservationInv, MissingIsGone
    <3>5. ReservationHeld'  BY <3>1, <3>2 DEF ReservationInv, ReservationHeld
    <3>6. OneGenerator'  BY <3>1, <3>2 DEF ReservationInv, OneGenerator
    <3>. QED  BY <3>1, <3>4, <3>5, <3>6 DEF ReservationInv
  <2>. QED  BY <1>4, <2>1, <2>2, <2>3, <2>4 DEF Generation
<1>5. ASSUME NEW a \in Apps, Crash(a)  PROVE ReservationInv'
  <2>1. UNCHANGED <<rows, originals>> /\ Live' = Live
    BY <1>5 DEF Crash, dbVars, fileVars, Live
  <2>2. \A b \in Apps : gen'[b].pc \in {"missing", "describe"} => gen'[b] = gen[b]
    BY <1>5 DEF Crash, TypeOK, NoGeneration
  <2>. QED  BY <2>1, <2>2, QuietReservations
<1>. QED  BY <1>1, <1>2, <1>3, <1>4, <1>5 DEF Next

\* Initially nothing is reserved.
LEMMA InitReservations == Init => ReservationInv
BY DEF Init, ReservationInv, MissingIsGone, ReservationHeld, OneGenerator, NoGeneration

\* Where no original image is inside the directory that deletions clear, the
\* reservation of a row for VLM generation is never lost while it is used.
THEOREM ReservationsAreHeld ==
  ASSUME Managed = {}
  PROVE  Spec => []ReservationHeld
<1>1. HistoryInv /\ ReservationInv /\ [Next]_vars => ReservationInv'
  BY ReservationStep
<1>2. ReservationInv => ReservationHeld  BY DEF ReservationInv
<1>. QED  BY InitReservations, <1>1, <1>2, HistoryInvariant, PTL DEF Spec

\* There, too, no two generations ever describe the same row at once.
THEOREM GenerationsAreExclusive ==
  ASSUME Managed = {}
  PROVE  Spec => []OneGenerator
<1>1. HistoryInv /\ ReservationInv /\ [Next]_vars => ReservationInv'
  BY ReservationStep
<1>2. ReservationInv => OneGenerator  BY DEF ReservationInv
<1>. QED  BY InitReservations, <1>1, <1>2, HistoryInvariant, PTL DEF Spec

-----------------------------------------------------------------------------
(* Failed generations, in one running application.                         *)

\* What the generation has read of its row's description is still so: in one
\* application nothing but the generation itself writes it.
DescriptionsKnown ==
  \A a \in Apps : gen[a].pc # "idle" /\ gen[a].id \in Live =>
    rows[gen[a].id].desc = gen[a].row.desc

KeptOnFailure ==
  \A i \in Live : rows'[i] # None /\ rows'[i].vlm = "FAILED" => rows'[i].desc = rows[i].desc

\* The update of a row writes the description it is given.
LEMMA UpdateDescribes ==
  ASSUME TypeOK, NEW i \in Shots, NEW v \in VlmStatuses, NEW d \in Shots \cup {None},
         UpdateVlmResult(i, v, d), i \in Live
  PROVE  rows'[i].vlm = v /\ rows'[i].desc = d
<1>1. rows[i] # None /\ rows[i] \in Rows  BY DEF TypeOK, Live
<1>. DEFINE r == [rows[i] EXCEPT !.vlm = v, !.desc = d]
<1>2. r.vlm = v /\ r.desc = d  BY <1>1 DEF Rows
<1>3. rows' = [rows EXCEPT ![i] = r]  BY <1>1 DEF UpdateVlmResult
<1>. HIDE DEF r
<1>. QED  BY <1>2, <1>3 DEF TypeOK

\* A step that leaves the rows that stay as they are, and no generation
\* more than there was.
LEMMA QuietDescriptions ==
  ASSUME DescriptionsKnown,
         \A i \in Live' : i \in Live => rows'[i] = rows[i],
         \A a \in Apps : gen'[a].pc # "idle" =>
           /\ gen[a].pc # "idle" /\ gen'[a].id = gen[a].id /\ gen'[a].row = gen[a].row
           /\ gen[a].id \in Live' => gen[a].id \in Live
  PROVE  DescriptionsKnown'
BY DEF DescriptionsKnown

\* What the VLM thread itself does to descriptions, its failures included.
LEMMA GenerationDescriptions ==
  ASSUME \A a, b \in Apps : a = b, HistoryInv, DescriptionsKnown,
         NEW a \in Apps, Generation(a)
  PROVE  DescriptionsKnown' /\ KeptOnFailure
<1>. USE DEF HistoryInv
<1>a. /\ gen \in [Apps -> Generations] /\ gen[a] \in Generations
      /\ Live' = Live /\ \A b \in Apps : b = a
  BY GenerationKeepsImages DEF TypeOK
<1>e. GenerationEnds(a) => gen'[a].pc = "idle"
  BY <1>a DEF GenerationEnds, NoGeneration
<1>q. UNCHANGED rows => KeptOnFailure
  BY DEF KeptOnFailure
<1>1. ASSUME NEW i \in Shots, FindInspection(a, i)  PROVE DescriptionsKnown' /\ KeptOnFailure
  <2>1. UNCHANGED rows /\ gen'[a] = [pc |-> "defects", id |-> i, row |-> SnapshotOf(i)]
    BY <1>1, <1>a DEF FindInspection
  <2>2. gen'[a].id = i /\ gen'[a].row.desc = rows[i].desc
    BY <2>1 DEF SnapshotOf
  <2>. QED  BY <1>a, <1>q, <2>1, <2>2 DEF DescriptionsKnown
<1>2. CASE FindDefects(a) \/ CheckImage(a) \/ GenerationDbFails(a)
  <2>1. UNCHANGED rows /\ gen[a].pc # "idle"
    BY <1>2 DEF FindDefects, CheckImage, GenerationDbFails, dbVars
  <2>2. gen'[a].pc = "idle" \/ (gen'[a].id = gen[a].id /\ gen'[a].row = gen[a].row)
    BY <1>2, <1>a, <1>e DEF FindDefects, CheckImage, GenerationDbFails, Goto, Generations
  <2>. QED  BY <1>a, <1>q, <2>1, <2>2, QuietDescriptions
<1>3. CASE FailMissing(a) \/ DescribeFails(a)
  <2>1. /\ gen[a].pc # "idle" /\ gen'[a].pc = "idle"
        /\ UpdateVlmResult(gen[a].id, "FAILED", gen[a].row.desc)
    BY <1>3, <1>e DEF FailMissing, DescribeFails
  <2>2. gen[a].id \in Shots /\ gen[a].row.desc \in Shots \cup {None}
    BY <2>1, MemoryType
  <2>3. \A i \in Shots : i # gen[a].id => rows'[i] = rows[i]
    BY <2>1, <2>2, UpdateEffect DEF VlmStatuses
  <2>4. gen[a].id \in Live => rows'[gen[a].id].desc = rows[gen[a].id].desc
    BY <2>1, <2>2, UpdateDescribes DEF VlmStatuses, DescriptionsKnown
  <2>. QED  BY <1>a, <2>1, <2>3, <2>4 DEF KeptOnFailure, DescriptionsKnown, Live
<1>4. CASE Described(a)
  <2>1. /\ gen[a].pc # "idle" /\ gen'[a].pc = "idle"
        /\ UpdateVlmResult(gen[a].id, "COMPLETED", gen[a].row.of)
    BY <1>4, <1>e DEF Described
  <2>2. gen[a].id \in Shots /\ gen[a].row.of \in Shots
    BY <2>1, MemoryType
  <2>3. \A i \in Shots : i # gen[a].id => rows'[i] = rows[i]
    BY <2>1, <2>2, UpdateEffect DEF VlmStatuses
  <2>4. gen[a].id \in Live => rows'[gen[a].id].vlm = "COMPLETED"
    BY <2>1, <2>2, UpdateDescribes DEF VlmStatuses
  <2>. QED  BY <1>a, <2>1, <2>3, <2>4 DEF KeptOnFailure, DescriptionsKnown, Live
<1>5. CASE Reserve(a) /\ UNCHANGED rows
  <2>1. gen[a].pc # "idle"
    BY <1>5 DEF Reserve
  <2>2. gen'[a].pc = "idle" \/ (gen'[a].id = gen[a].id /\ gen'[a].row = gen[a].row)
    BY <1>5, <1>a, <1>e DEF Reserve, Goto, Generations
  <2>. QED  BY <1>5, <1>a, <1>q, <2>1, <2>2, QuietDescriptions
<1>6. CASE Reserve(a) /\ ~UNCHANGED rows
  <2>1. /\ gen[a].pc = "reserve" /\ gen[a].id \in Live
        /\ rows'[gen[a].id].vlm = "PROCESSING"
        /\ \A j \in Shots : j # gen[a].id => rows'[j] = rows[j]
        /\ gen' = [gen EXCEPT ![a].pc = "describe"]
    BY <1>6, ReserveEffect
  <2>2. gen'[a].id = gen[a].id /\ gen'[a].row = gen[a].row
    BY <1>a, <2>1 DEF Generations
  <2>3. rows' = [rows EXCEPT ![gen[a].id].vlm = "PROCESSING"]
    BY <1>6 DEF Reserve
  <2>4. gen[a].id \in Shots /\ rows[gen[a].id] \in Rows
    BY <2>1 DEF Live, TypeOK
  <2>5. rows'[gen[a].id].desc = rows[gen[a].id].desc
    BY <2>3, <2>4 DEF TypeOK, Rows
  <2>6. DescriptionsKnown'
    BY <1>a, <2>1, <2>2, <2>5 DEF DescriptionsKnown
  <2>7. KeptOnFailure
    BY <2>1 DEF KeptOnFailure, Live
  <2>. QED  BY <2>6, <2>7
<1>. QED  BY <1>1, <1>2, <1>3, <1>4, <1>5, <1>6 DEF Generation, DescribeEnds

LEMMA DescriptionsKnownStep ==
  ASSUME \A a, b \in Apps : a = b, HistoryInv, DescriptionsKnown, [Next]_vars
  PROVE  DescriptionsKnown' /\ KeptOnFailure
<1>. USE DEF HistoryInv
<1>1. CASE UNCHANGED vars
  BY <1>1, QuietDescriptions DEF vars, dbVars, KeptOnFailure, Live
<1>2. ASSUME NEW a \in Inspecting, Inspection(a)  PROVE DescriptionsKnown' /\ KeptOnFailure
  <2>1. a \in Apps  BY RolesOfApps
  <2>2. \A i \in Live : rows'[i] = rows[i]
    <3>1. \A i \in Live : i \in Shots /\ i # nextId  BY DEF IdsIssued, Live, TypeOK, Shots
    <3>. QED  BY <1>2, <2>1, <3>1, InspectionOnlyAdds
  <2>3. DescriptionsKnown'
    BY <1>2, <2>1, <2>2, InspectionSparesGenerations, QuietDescriptions
  <2>. QED  BY <2>2, <2>3 DEF KeptOnFailure
<1>3. ASSUME NEW a \in Deleting, Deletion(a)  PROVE DescriptionsKnown' /\ KeptOnFailure
  <2>1. a \in Apps  BY RolesOfApps
  <2>2. /\ \A i \in Live' : i \in Live /\ rows'[i] = rows[i]
        /\ UNCHANGED gen
    BY <1>3, <2>1, DeletionOnlyRemoves
  <2>3. DescriptionsKnown'  BY <2>2, QuietDescriptions
  <2>. QED  BY <2>2, <2>3 DEF KeptOnFailure, Live
<1>4. ASSUME NEW a \in Apps, Generation(a)  PROVE DescriptionsKnown' /\ KeptOnFailure
  BY <1>4, GenerationDescriptions
<1>5. ASSUME NEW a \in Apps, Crash(a)  PROVE DescriptionsKnown' /\ KeptOnFailure
  <2>1. UNCHANGED rows /\ Live' = Live /\ gen' = [gen EXCEPT ![a] = NoGeneration]
    BY <1>5 DEF Crash, dbVars, Live
  <2>2. \A b \in Apps : gen'[b].pc # "idle" => gen'[b] = gen[b]
    BY <2>1 DEF TypeOK, NoGeneration
  <2>3. DescriptionsKnown'  BY <2>1, <2>2, QuietDescriptions
  <2>. QED  BY <2>1, <2>3 DEF KeptOnFailure
<1>. QED  BY <1>1, <1>2, <1>3, <1>4, <1>5 DEF Next

\* In one running application, whatever is inspected and deleted meanwhile: a generation
\* that fails leaves its row the description it had.
THEOREM DescriptionsSurviveFailure ==
  ASSUME \A a, b \in Apps : a = b
  PROVE  Spec => FailureKeepsDescription
<1>1. Init => DescriptionsKnown  BY DEF Init, DescriptionsKnown, NoGeneration
<1>2. HistoryInv /\ DescriptionsKnown /\ [Next]_vars => DescriptionsKnown'
  BY DescriptionsKnownStep
<1>3. HistoryInv /\ DescriptionsKnown /\ [Next]_vars =>
        [\A i \in Live : rows'[i] # None /\ rows'[i].vlm = "FAILED"
                           => rows'[i].desc = rows[i].desc]_vars
  BY DescriptionsKnownStep DEF KeptOnFailure
<1>. QED  BY <1>1, <1>2, <1>3, HistoryInvariant, PTL DEF Spec, FailureKeepsDescription
=============================================================================
