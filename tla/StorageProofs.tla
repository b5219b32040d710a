---------------------------- MODULE StorageProofs ----------------------------
(***************************************************************************)
(* The safety of UploadStorage, for any number of files, jobs, requests    *)
(* and crashes: TypeOK, CleanupSparesJobs, AnalysisGoesWithUpload and      *)
(* QuotaHeld.                                                              *)
(*                                                                         *)
(* CleanupSparesJobs is not inductive by itself.  A job may get a file     *)
(* that is about to be swept (todo) or has been; its request must then     *)
(* have been under way when the cleanup read the rows or swept             *)
(* (overtaken), and a file that has been swept never comes back, so that   *)
(* no later request finds it.                                              *)
(*                                                                         *)
(* AnalysisGoesWithUpload needs what a handler, the worker and a row may   *)
(* refer to (KnownAreSettled), and what a removal and an analysis of the   *)
(* same file know of each other (AnalysedIsThere, UnlinkedHasNone).        *)
(*                                                                         *)
(* QuotaHeld needs the one upload in progress that met no other: what the  *)
(* files hold and what is free of its room fit into the quota (QuotaInv).  *)
(***************************************************************************)
EXTENDS UploadStorage, FiniteSetTheorems, TLAPS

Sweeping == at[Worker].pc \in {"sweep", "sweepCache"}

\* A file that has been swept is gone for good.
SweptIsGone == swept \subseteq Files /\ \A f \in swept : disk[f] = "gone"

\* While the cleanup sweeps, it has overtaken every request that is about to
\* commit a job.
LockIsOvertaken ==
    Sweeping => \A c \in Clients : at[c].pc = "lock" => at[c].overtaken

\* So has one that swept the file of the request.
SweptIsOvertaken ==
    \A c \in Clients : at[c].pc = "lock" /\ at[c].file \in swept => at[c].overtaken

\* A job with a file that is still to be swept came after the rows were read.
TodoIsSpared ==
    Sweeping => \A f \in at[Worker].todo, j \in Jobs : row[j] = f => j \in late

Shapes ==
    /\ disk \in [Files -> {"none", "open", "stored", "left", "gone"}]
    /\ row \in [Jobs -> Files \cup {None}]
    /\ at \in [Procs -> Where]

\* The worker analyses the upload of a job.
RoundHasJob == at[Worker].pc \in {"analyse", "analysed"} => at[Worker].job \in Jobs

IInv == /\ Shapes /\ RoundHasJob /\ SweptIsGone /\ LockIsOvertaken /\ SweptIsOvertaken
        /\ TodoIsSpared /\ CleanupSparesJobs
-----------------------------------------------------------------------------
LEMMA SpareInit == Init => IInv
BY StorageAssumption
   DEF Init, IInv, Shapes, RoundHasJob, Where, Idle, Procs, Sweeping, SweptIsGone, LockIsOvertaken,
       SweptIsOvertaken, TodoIsSpared, CleanupSparesJobs

LEMMA IdleIsWhere == Idle \in Where
BY DEF Idle, Where

\* Shapes, one step for each action that writes one of the three variables.
LEMMA ShapesNext == ASSUME Shapes, RoundHasJob, [Next]_vars PROVE Shapes'
<1> USE IdleIsWhere, StorageAssumption DEF Shapes
<1>1. ASSUME NEW f \in Files, UploadNext(f) \/ GrowOld(f) PROVE Shapes'
  BY <1>1 DEF UploadNext, BeginUpload, WriteChunk, RefuseUpload, AcceptUpload, GrowOld, Gone,
              OnDisk
<1>2. ASSUME NEW p \in Procs, NEW f \in Files \cup {None}, NEW j \in Jobs \cup {None},
             Deleting(p, f, j)
      PROVE  at' \in [Procs -> Where]
  BY <1>2 DEF Deleting, Where, Idle
<1>3. ASSUME NEW p \in Procs, Drop(p) PROVE Shapes'
  <2>1. at[p] \in Where
    BY <1>3
  <2>2. CASE DropCache(p) \/ DropFile(p)
    BY <2>1, <2>2 DEF DropCache, DropFile, Gone, Move, OnDisk, Where, filesVars
  <2>3. CASE DropFolder(p)
    BY <2>1, <2>3 DEF DropFolder, Move, Where, filesVars
  <2>4. CASE CommitEnd(p)
    BY <2>1, <2>4 DEF CommitEnd, filesVars
  <2> QED BY <1>3, <2>2, <2>3, <2>4 DEF Drop
<1>4. ASSUME NEW c \in Clients, ClientNext(c) PROVE Shapes'
  <2>1. c \in Procs /\ at[c] \in Where
    BY DEF Procs
  <2>2. ASSUME NEW f \in Files, ResolveUpload(c, f) PROVE Shapes'
    <3>1. \A b \in BOOLEAN :
            [Idle EXCEPT !.pc = "lock", !.file = f, !.overtaken = b] \in Where
      BY DEF Idle, Where
    <3>2. (at[Worker].pc \in {"sweep", "sweepCache"}) \in BOOLEAN
      OBVIOUS
    <3> QED BY <2>1, <2>2, <3>1, <3>2 DEF ResolveUpload, filesVars
  <2>3. ASSUME NEW j \in Jobs, CommitJob(c, j) PROVE Shapes'
    <3>1. at[c].file \in Files \cup {None}
      BY <2>1 DEF Where
    <3> QED BY <2>1, <2>3, <3>1 DEF CommitJob, filesVars
  <2>4. ASSUME NEW j \in Jobs, BeginEnd(c, j) PROVE Shapes'
    BY <1>2, <2>1, <2>4 DEF BeginEnd, filesVars
  <2>5. CASE RefuseJob(c)
    <3>1. at[c].file \in Files \cup {None}
      BY <2>1 DEF Where
    <3> QED BY <1>2, <2>1, <2>5, <3>1 DEF RefuseJob, filesVars
  <2> QED BY <1>3, <1>4, <2>1, <2>2, <2>3, <2>4, <2>5 DEF ClientNext
<1>5. at[Worker] \in Where /\ Worker \in Procs
  BY DEF Procs
<1>6. CASE RoundNext
  <2>1. ASSUME NEW j \in Jobs, Analyse(j) PROVE Shapes'
    BY <1>5, <2>1 DEF Analyse, filesVars, Idle, Where
  <2>2. ASSUME NEW found \in BOOLEAN, KeepAnalysis(found) PROVE Shapes'
    BY <1>5, <2>2 DEF KeepAnalysis, Move, filesVars, Where
  <2>3. CASE FinishRound
    <3>1. at[Worker].job \in Jobs
      BY <2>3 DEF FinishRound, RoundHasJob
    <3> QED BY <1>2, <1>5, <2>3, <3>1 DEF FinishRound, filesVars
  <2>4. CASE Pause
    BY <2>4 DEF Pause, filesVars
  <2> QED BY <1>3, <1>5, <1>6, <2>1, <2>2, <2>3, <2>4 DEF RoundNext
<1>7. CASE Scan
  <2>1. [Idle EXCEPT !.pc = "sweep", !.todo = Orphans] \in Where
    BY DEF Idle, Where, Orphans
  <2>2. \A p \in Procs : [at[p] EXCEPT !.overtaken = TRUE] \in Where
    BY DEF Where
  <2> QED BY <1>7, <2>1, <2>2 DEF Scan, filesVars
<1>8. CASE SweepNext
  <2>1. ASSUME NEW f \in Files, SweepFile(f) PROVE Shapes'
    BY <1>5, <2>1 DEF SweepFile, Gone, OnDisk, filesVars, Where
  <2>2. CASE SweepCache
    BY <1>5, <2>2 DEF SweepCache, filesVars, Where
  <2>3. CASE EndSweep
    BY <2>3 DEF EndSweep, filesVars
  <2> QED BY <1>8, <2>1, <2>2, <2>3 DEF SweepNext
<1>9. CASE ApiCrash \/ WorkerCrash
  BY <1>9 DEF ApiCrash, WorkerCrash, filesVars
<1>10. CASE UNCHANGED vars
  BY <1>10 DEF vars, filesVars
<1> QED BY <1>1, <1>4, <1>6, <1>7, <1>8, <1>9, <1>10 DEF Next

LEMMA RoundHasJobNext == ASSUME Shapes, RoundHasJob, [Next]_vars PROVE RoundHasJob'
<1>1. Worker \in Procs /\ at[Worker] \in Where /\ Worker \notin Clients
  BY StorageAssumption DEF Shapes, Procs
<1> USE <1>1 DEF Shapes, RoundHasJob, filesVars
<1>2. ASSUME NEW f \in Files, UploadNext(f) \/ GrowOld(f) PROVE RoundHasJob'
  BY <1>2 DEF UploadNext, BeginUpload, WriteChunk, RefuseUpload, AcceptUpload, GrowOld
<1>3. ASSUME NEW p \in Procs, Drop(p) PROVE RoundHasJob'
  <2>1. at[p] \in Where
    BY <1>3
  <2>2. CASE p = Worker
    BY <1>3, <2>1, <2>2 DEF Drop, DropCache, DropFile, DropFolder, CommitEnd, Move, Idle, Where
  <2>3. CASE p # Worker
    BY <1>3, <2>1, <2>3 DEF Drop, DropCache, DropFile, DropFolder, CommitEnd, Move
  <2> QED BY <2>2, <2>3
<1>4. ASSUME NEW c \in Clients, ClientNext(c) PROVE RoundHasJob'
  BY <1>3, <1>4 DEF ClientNext, ResolveUpload, CommitJob, BeginEnd, RefuseJob, Deleting, Procs
<1>5. CASE RoundNext
  <2>1. CASE FinishRound
    <3>1. CASE row[at[Worker].job] = None
      BY <2>1, <3>1 DEF FinishRound, Idle
    <3>2. CASE Deleting(Worker, row[at[Worker].job], at[Worker].job)
      <4>1. at'[Worker].pc \in {"cache", "commit", "idle"}
        BY <3>2 DEF Deleting, Idle
      <4> QED BY <4>1
    <3> QED BY <2>1, <3>1, <3>2 DEF FinishRound
  <2>2. ASSUME NEW j \in Jobs, Analyse(j) PROVE RoundHasJob'
    BY <2>2 DEF Analyse, Idle
  <2>3. ASSUME NEW found \in BOOLEAN, KeepAnalysis(found) PROVE RoundHasJob'
    BY <2>3 DEF KeepAnalysis, Move, Where
  <2>4. CASE Pause
    BY <2>4 DEF Pause, Idle
  <2> QED BY <1>3, <1>5, <2>1, <2>2, <2>3, <2>4 DEF RoundNext
<1>6. CASE Scan
  BY <1>6 DEF Scan, Idle
<1>7. CASE SweepNext
  BY <1>7 DEF SweepNext, SweepFile, SweepCache, EndSweep, Idle, Where
<1>8. CASE ApiCrash \/ WorkerCrash
  BY <1>8 DEF ApiCrash, WorkerCrash, Idle
<1>9. CASE UNCHANGED vars
  BY <1>9 DEF vars
<1> QED BY <1>2, <1>4, <1>5, <1>6, <1>7, <1>8, <1>9 DEF Next

-----------------------------------------------------------------------------
\* What a step that neither sweeps, reads the rows, locks nor commits does to the
\* spared jobs: a row may lose its file, a file may go.
Indifferent ==
    /\ swept' = swept /\ late' = late
    /\ \A f \in swept : disk'[f] = disk[f]
    /\ \A j \in Jobs : row'[j] \in {row[j], None}
    /\ \A c \in Clients : at'[c].pc = "lock" => at'[c] = at[c]
    /\ Sweeping' => Sweeping /\ at'[Worker].todo \subseteq at[Worker].todo

LEMMA IndifferentSteps ==
    ASSUME IInv, Indifferent
    PROVE  /\ SweptIsGone' /\ LockIsOvertaken' /\ SweptIsOvertaken'
           /\ TodoIsSpared' /\ CleanupSparesJobs'
<1> USE DEF IInv, Indifferent
<1>1. SweptIsGone'
  BY DEF SweptIsGone
<1>2. LockIsOvertaken' /\ SweptIsOvertaken'
  BY DEF LockIsOvertaken, SweptIsOvertaken
<1>3. TodoIsSpared'
  <2> SUFFICES ASSUME Sweeping', NEW f \in at'[Worker].todo, NEW j \in Jobs, row'[j] = f
               PROVE  j \in late'
    BY DEF TodoIsSpared
  <2>1. at[Worker] \in Where
    BY DEF Shapes, Procs
  <2>2. f \in Files
    BY <2>1 DEF Where
  <2> QED BY <2>2, StorageAssumption DEF TodoIsSpared
<1>4. CleanupSparesJobs'
  <2> SUFFICES ASSUME NEW j \in Jobs, row'[j] \in swept PROVE j \in late
    BY DEF CleanupSparesJobs
  <2> QED BY StorageAssumption DEF CleanupSparesJobs, SweptIsGone
<1> QED BY <1>1, <1>2, <1>3, <1>4

\* The steps that write one of the parts: those of the cleanup, and of create_job.
LEMMA SparedNext == ASSUME IInv, [Next]_vars, Shapes'
                    PROVE  /\ SweptIsGone' /\ LockIsOvertaken' /\ SweptIsOvertaken'
                           /\ TodoIsSpared' /\ CleanupSparesJobs'
<1> DEFINE Spared == /\ SweptIsGone' /\ LockIsOvertaken' /\ SweptIsOvertaken'
                     /\ TodoIsSpared' /\ CleanupSparesJobs'
<1> SUFFICES Spared
  OBVIOUS
<1>0. Worker \in Procs /\ Worker \notin Clients /\ Clients \subseteq Procs
  BY StorageAssumption DEF Procs
<1>1. /\ disk \in [Files -> {"none", "open", "stored", "left", "gone"}]
      /\ row \in [Jobs -> Files \cup {None}]
      /\ \A p \in Procs : at[p] \in Where
      /\ at \in [Procs -> Where]
      /\ swept \subseteq Files /\ \A f \in swept : disk[f] = "gone"
  BY DEF IInv, Shapes, SweptIsGone
<1> USE <1>0, <1>1 DEF filesVars, history
<1>2. ASSUME NEW f \in Files, UploadNext(f) \/ GrowOld(f) PROVE Spared
  <2>1. Indifferent
    BY <1>2 DEF Indifferent, Sweeping, UploadNext, BeginUpload, WriteChunk, RefuseUpload,
                AcceptUpload, GrowOld, Gone, OnDisk
  <2> QED BY <2>1, IndifferentSteps
<1>3. ASSUME NEW p \in Procs, NEW f, NEW j, Deleting(p, f, j),
             UNCHANGED <<disk, row, swept, late>>
      PROVE  Spared
  <2>1. at'[p].pc \in {"cache", "commit", "idle"}
    BY <1>3 DEF Deleting, Idle
  <2>2. \A q \in Procs \ {p} : at'[q] = at[q]
    BY <1>3 DEF Deleting
  <2>3. Indifferent
    BY <1>3, <2>1, <2>2 DEF Indifferent, Sweeping
  <2> QED BY <2>3, IndifferentSteps
<1>4. ASSUME NEW p \in Procs, Drop(p) PROVE Spared
  <2>1. at'[p].pc \in {"file", "folder", "commit", "idle"}
    BY <1>4 DEF Drop, DropCache, DropFile, DropFolder, CommitEnd, Move, Idle, Where
  <2>2. \A q \in Procs \ {p} : at'[q] = at[q]
    BY <1>4 DEF Drop, DropCache, DropFile, DropFolder, CommitEnd, Move
  <2>3. UNCHANGED <<swept, late>> /\ \A f \in swept : disk'[f] = disk[f]
    BY <1>4 DEF Drop, DropCache, DropFile, DropFolder, CommitEnd, Gone, OnDisk
  <2>4. \A j \in Jobs : row'[j] \in {row[j], None}
    BY <1>4 DEF Drop, DropCache, DropFile, DropFolder, CommitEnd
  <2>5. Indifferent
    BY <2>1, <2>2, <2>3, <2>4 DEF Indifferent, Sweeping
  <2> QED BY <2>5, IndifferentSteps
<1>5. ASSUME NEW c \in Clients, ClientNext(c) PROVE Spared
  <2>1. ASSUME NEW f \in Files, ResolveUpload(c, f) PROVE Spared
    <3>1. at'[c].file = f /\ at'[c].overtaken = (at[Worker].pc \in {"sweep", "sweepCache"})
      BY <2>1 DEF ResolveUpload, Idle
    <3>2. \A q \in Procs \ {c} : at'[q] = at[q]
      BY <2>1 DEF ResolveUpload
    <3>3. UNCHANGED <<disk, row, swept, late>> /\ disk[f] = "stored"
      BY <2>1 DEF ResolveUpload
    <3>4. LockIsOvertaken' /\ SweptIsOvertaken'
      BY <3>1, <3>2, <3>3 DEF IInv, LockIsOvertaken, SweptIsOvertaken, Sweeping
    <3> QED BY <3>2, <3>3, <3>4 DEF IInv, SweptIsGone, TodoIsSpared, CleanupSparesJobs, Sweeping
  <2>2. ASSUME NEW j \in Jobs, CommitJob(c, j) PROVE Spared
    <3>1. \A k \in Jobs : row'[k] = IF k = j THEN at[c].file ELSE row[k]
      BY <2>2 DEF CommitJob
    <3>2. at'[c].pc = "idle" /\ \A q \in Procs \ {c} : at'[q] = at[q]
      BY <2>2 DEF CommitJob, Idle
    <3>3. UNCHANGED <<disk, swept>> /\ at[c].pc = "lock"
      BY <2>2 DEF CommitJob
    <3>4. /\ at[c].overtaken => late' = late \cup {j}
          /\ ~at[c].overtaken => late' = late \ {j}
      BY <2>2 DEF CommitJob
    <3>5. LockIsOvertaken' /\ SweptIsOvertaken'
      BY <3>2, <3>3 DEF IInv, LockIsOvertaken, SweptIsOvertaken, Sweeping
    <3>6. TodoIsSpared'
      BY <3>1, <3>2, <3>3, <3>4 DEF IInv, TodoIsSpared, LockIsOvertaken, Sweeping
    <3>7. CleanupSparesJobs'
      BY <3>1, <3>3, <3>4 DEF IInv, CleanupSparesJobs, SweptIsOvertaken
    <3> QED BY <3>3, <3>5, <3>6, <3>7 DEF IInv, SweptIsGone
  <2>3. ASSUME NEW j \in Jobs, BeginEnd(c, j) PROVE Spared
    BY <1>3, <2>3 DEF BeginEnd
  <2>4. CASE RefuseJob(c)
    BY <1>3, <2>4 DEF RefuseJob
  <2> QED BY <1>4, <1>5, <2>1, <2>2, <2>3, <2>4 DEF ClientNext
<1>6. CASE RoundNext
  <2>1. ASSUME NEW j \in Jobs, Analyse(j) PROVE Spared
    <3>1. at'[Worker].pc \in {"analysed", "analyse"} /\ \A q \in Procs \ {Worker} : at'[q] = at[q]
      BY <2>1 DEF Analyse, Idle
    <3>2. Indifferent
      BY <2>1, <3>1 DEF Indifferent, Sweeping, Analyse
    <3> QED BY <3>2, IndifferentSteps
  <2>2. ASSUME NEW found \in BOOLEAN, KeepAnalysis(found) PROVE Spared
    <3>1. Indifferent
      BY <2>2 DEF Indifferent, Sweeping, KeepAnalysis, Move, Where
    <3> QED BY <3>1, IndifferentSteps
  <2>3. CASE FinishRound \/ Pause
    <3>1. CASE at' = [at EXCEPT ![Worker] = Idle]
      <4>1. Indifferent
        BY <2>3, <3>1 DEF Indifferent, Sweeping, FinishRound, Pause, Idle
      <4> QED BY <4>1, IndifferentSteps
    <3> QED BY <1>3, <2>3, <3>1 DEF FinishRound, Pause
  <2> QED BY <1>4, <1>6, <2>1, <2>2, <2>3 DEF RoundNext
<1>7. CASE Scan
  <2>1. at'[Worker].todo = Orphans
    BY <1>7 DEF Scan, Idle
  <2>2. UNCHANGED <<disk, row, swept, late>>
    BY <1>7 DEF Scan
  <2>3. \A c \in Clients : at'[c].pc = "lock" => at'[c].overtaken
    BY <1>7 DEF Scan, Where
  <2> QED BY <2>1, <2>2, <2>3
          DEF IInv, SweptIsGone, LockIsOvertaken, SweptIsOvertaken, TodoIsSpared,
              CleanupSparesJobs, Orphans
<1>8. ASSUME NEW f \in Files, SweepFile(f) PROVE Spared
  <2>1. /\ \A q \in Procs \ {Worker} : at'[q] = at[q]
        /\ at'[Worker].todo \subseteq at[Worker].todo
        /\ Sweeping /\ f \in at[Worker].todo /\ UNCHANGED <<row, late>>
    BY <1>8 DEF SweepFile, Sweeping, Where
  <2>2. swept' \subseteq swept \cup {f} /\ \A g \in swept' : disk'[g] = "gone"
    BY <1>8 DEF SweepFile, Gone, OnDisk
  <2>3. LockIsOvertaken' /\ SweptIsOvertaken'
    BY <2>1 DEF IInv, LockIsOvertaken, SweptIsOvertaken
  <2>4. TodoIsSpared'
    BY <2>1 DEF IInv, TodoIsSpared
  <2>5. CleanupSparesJobs'
    BY <2>1, <2>2 DEF IInv, TodoIsSpared, CleanupSparesJobs
  <2> QED BY <2>2, <2>3, <2>4, <2>5 DEF SweptIsGone
<1>9. CASE SweepCache \/ EndSweep
  <2>1. /\ \A q \in Procs \ {Worker} : at'[q] = at[q]
        /\ at'[Worker].todo \subseteq at[Worker].todo /\ Sweeping
    BY <1>9 DEF SweepCache, EndSweep, Sweeping, Where, Idle
  <2>2. Indifferent
    BY <1>9, <2>1 DEF Indifferent, SweepCache, EndSweep
  <2> QED BY <2>2, IndifferentSteps
<1>10. CASE ApiCrash
  <2>1. \A q \in Clients : at'[q].pc = "idle"
    BY <1>10 DEF ApiCrash, Idle
  <2>2. Indifferent
    BY <1>10, <2>1 DEF ApiCrash, Indifferent, Sweeping
  <2> QED BY <2>2, IndifferentSteps
<1>11. CASE WorkerCrash
  <2>1. Indifferent
    BY <1>11 DEF WorkerCrash, Indifferent, Sweeping, Idle
  <2> QED BY <2>1, IndifferentSteps
<1>12. CASE UNCHANGED vars
  <2>1. Indifferent
    BY <1>12 DEF vars, Indifferent, Sweeping
  <2> QED BY <2>1, IndifferentSteps
<1> QED BY <1>2, <1>5, <1>6, <1>7, <1>8, <1>9, <1>10, <1>11, <1>12 DEF Next, SweepNext

LEMMA SpareStep == IInv /\ [Next]_vars => IInv'
BY ShapesNext, RoundHasJobNext, SparedNext DEF IInv

\* maintenance.py:17: whatever the number of uploads, jobs and requests, and
\* wherever API and worker crash, the cleanup takes the upload only of a job whose
\* request was under way when it read the rows or swept.
THEOREM CleanupIsSafe == Spec => []CleanupSparesJobs
<1>1. IInv => CleanupSparesJobs
  BY DEF IInv
<1> QED BY SpareInit, SpareStep, <1>1, PTL DEF Spec

-----------------------------------------------------------------------------
\* What a handler, the worker or the cleanup is at work on is a file.
HasFile(p) == at[p].pc \in {"lock", "cache", "file", "folder", "analyse", "analysed",
                            "sweepCache"}

FilesNamed == \A p \in Procs : HasFile(p) => at[p].file \in Files

TypeInv == TypeOK /\ RoundHasJob /\ FilesNamed

\* Nobody knows a file before its upload is over.
Settled(f) == disk[f] \in {"stored", "left", "gone"}

KnownAreSettled ==
    /\ \A f \in cache : Settled(f)
    /\ \A j \in Jobs : row[j] # None => Settled(row[j])
    /\ \A p \in Procs : at[p].file # None => Settled(at[p].file)

\* The worker analyses a file that is there, or whose removal has met it.
AnalysedIsThere == \A f \in Files : Analysing(f) => OnDisk(f) \/ f \in astray

\* A file that is about to be unlinked has no analysis, and will get none.
UnlinkedHasNone ==
    \A p \in Procs : at[p].pc = "file" =>
      at[p].file \in astray \/ (at[p].file \notin cache /\ ~Analysing(at[p].file))

AnalysisInv == KnownAreSettled /\ AnalysedIsThere /\ UnlinkedHasNone /\ AnalysisGoesWithUpload

\* The files that the quota holds for: those whose upload met no other
Plain == {f \in Files : OnDisk(f) /\ f \notin crowd}

\* An upload that meets no other is the only one; what is still free of its room
\* fits into the quota.
QuotaInv ==
    /\ \A f \in Files : disk[f] = "none" => size[f] = 0
    /\ \A f \in Opened \ crowd :
         /\ Opened = {f}
         /\ size[f] <= room[f]
         /\ Cardinality(Chunks(Plain)) + room[f] <= Quota + size[f]
    /\ Cardinality(Chunks(Plain)) <= Quota
-----------------------------------------------------------------------------
LEMMA TypeIsShapes == TypeOK => Shapes
BY DEF TypeOK, Shapes

\* Chunks can be counted.
LEMMA ChunkSets ==
    \A T \in SUBSET (Files \X (1 .. MaxUpload)) :
      /\ IsFiniteSet(T) /\ Cardinality(T) \in Nat
      /\ \A U \in SUBSET T : Cardinality(U) <= Cardinality(T)
<1>1. IsFiniteSet(Files) /\ IsFiniteSet(1 .. MaxUpload)
  BY StorageAssumption, FS_Interval
<1>2. IsFiniteSet(Files \X (1 .. MaxUpload))
  BY <1>1, FS_Product
<1> QED BY <1>2, FS_Subset, FS_CardinalityType

\* What is left of TypeOK: one step for each group of actions.
LEMMA TypesNext == ASSUME TypeInv, [Next]_vars PROVE TypeOK'
<1> USE StorageAssumption DEF TypeInv, TypeOK
<1>0. Shapes' /\ (\A p \in Procs : at[p] \in Where)
  BY ShapesNext, TypeIsShapes
<1>00. Worker \in Procs /\ Clients \subseteq Procs
  BY DEF Procs
<1>1. ASSUME NEW f \in Files, UploadNext(f) \/ GrowOld(f) PROVE TypeOK'
  <2>1. CASE BeginUpload(f)
    <3>3. Used \in Nat
      BY ChunkSets DEF Used, Chunks
    <3>4. Quota - Used \in 0 .. Quota
      BY <2>1, <3>3 DEF BeginUpload
    <3>5. crowd' \subseteq Files
      BY <2>1 DEF BeginUpload, Opened
    <3>6. UNCHANGED <<size, old, cache, folder, crashes, swept, late, astray>>
          /\ room' = [room EXCEPT ![f] = Quota - Used]
      BY <2>1 DEF BeginUpload
    <3>7. room' \in [Files -> 0 .. Quota]
      BY <3>4, <3>6
    <3> QED BY <1>0, <3>5, <3>6, <3>7 DEF Shapes
  <2>2. CASE WriteChunk(f)
    <3>1. size[f] + 1 \in 0 .. MaxUpload
      BY <2>2 DEF WriteChunk, Fits
    <3> QED BY <1>0, <2>2, <3>1 DEF WriteChunk, history, Shapes
  <2>3. CASE RefuseUpload(f)
    BY <1>0, <2>3 DEF RefuseUpload, Gone, Shapes
  <2>4. CASE AcceptUpload(f) \/ GrowOld(f)
    BY <1>0, <2>4 DEF AcceptUpload, GrowOld, history, Shapes
  <2> QED BY <1>1, <2>1, <2>2, <2>3, <2>4 DEF UploadNext
<1>2. ASSUME NEW p \in Procs, Drop(p) PROVE TypeOK'
  <2>1. CASE DropCache(p)
    <3>1. at[p].file \in Files
      BY <2>1 DEF DropCache, FilesNamed, HasFile
    <3> QED BY <1>0, <2>1, <3>1 DEF DropCache, filesVars, Shapes
  <2>2. CASE DropFile(p)
    BY <1>0, <2>2 DEF DropFile, Gone, Shapes
  <2>3. CASE DropFolder(p)
    BY <1>0, <2>3 DEF DropFolder, RemoveFolder, filesVars, history, Shapes
  <2>4. CASE CommitEnd(p)
    BY <1>0, <2>4 DEF CommitEnd, filesVars, history, Shapes
  <2> QED BY <1>2, <2>1, <2>2, <2>3, <2>4 DEF Drop
<1>3. ASSUME NEW c \in Clients, ClientNext(c) PROVE TypeOK'
  <2>1. CASE \E j \in Jobs : CommitJob(c, j)
    BY <1>0, <2>1 DEF CommitJob, filesVars, Shapes
  <2>2. CASE \/ \E f \in Files : ResolveUpload(c, f)
             \/ \E j \in Jobs : BeginEnd(c, j)
             \/ RefuseJob(c)
    BY <1>0, <2>2 DEF ResolveUpload, BeginEnd, RefuseJob, filesVars, history, Shapes
  <2> QED BY <1>00, <1>2, <1>3, <2>1, <2>2 DEF ClientNext
<1>4. CASE RoundNext
  <2>1. ASSUME NEW j \in Jobs, Analyse(j) PROVE TypeOK'
    <3>1. row[j] \in Files
      BY <2>1 DEF Analyse
    <3> QED BY <1>0, <2>1, <3>1 DEF Analyse, filesVars, Shapes
  <2>2. ASSUME NEW found \in BOOLEAN, KeepAnalysis(found) PROVE TypeOK'
    <3>1. at[Worker].file \in Files
      BY <1>00, <2>2 DEF KeepAnalysis, FilesNamed, HasFile
    <3> QED BY <1>0, <2>2, <3>1 DEF KeepAnalysis, filesVars, history, Shapes
  <2>3. CASE FinishRound \/ Pause
    BY <1>0, <2>3 DEF FinishRound, Pause, filesVars, history, Shapes
  <2> QED BY <1>00, <1>2, <1>4, <2>1, <2>2, <2>3 DEF RoundNext
<1>5. CASE Scan
  BY <1>0, <1>5 DEF Scan, filesVars, history, Shapes
<1>6. CASE SweepNext
  <2>1. ASSUME NEW f \in Files, SweepFile(f) PROVE TypeOK'
    BY <1>0, <2>1 DEF SweepFile, Gone, filesVars, Shapes
  <2>2. CASE SweepCache \/ EndSweep
    BY <1>0, <2>2 DEF SweepCache, EndSweep, filesVars, history, Shapes
  <2> QED BY <1>6, <2>1, <2>2 DEF SweepNext
<1>7. CASE ApiCrash \/ WorkerCrash
  <2>1. \A p \in Procs : HalfGone(p) \subseteq Files
    BY DEF HalfGone, FilesNamed, HasFile
  <2>2. astray' \subseteq Files
    BY <1>00, <1>7, <2>1 DEF ApiCrash, WorkerCrash
  <2>3. crashes' \in 0 .. MaxCrashes
    BY <1>7 DEF ApiCrash, WorkerCrash
  <2>4. room' \in [Files -> 0 .. Quota]
    BY <1>7 DEF ApiCrash, WorkerCrash, filesVars
  <2> QED BY <1>0, <1>7, <2>2, <2>3, <2>4 DEF ApiCrash, WorkerCrash, filesVars, Shapes
<1>8. CASE UNCHANGED vars
  BY <1>8 DEF vars, filesVars, history
<1> QED BY <1>1, <1>3, <1>4, <1>5, <1>6, <1>7, <1>8 DEF Next

LEMMA FilesNamedNext == ASSUME TypeInv, [Next]_vars PROVE FilesNamed'
<1> USE DEF TypeInv, FilesNamed, HasFile
<1>0. /\ Worker \in Procs /\ Clients \subseteq Procs /\ at \in [Procs -> Where]
      /\ \A p \in Procs : at[p] \in Where
      /\ None \notin Files
  BY StorageAssumption DEF Procs, TypeOK
<1> USE <1>0
<1>1. ASSUME NEW p \in Procs, NEW w, at' = [at EXCEPT ![p] = w],
             w.pc \in {"lock", "cache", "file", "folder", "analyse", "analysed",
                       "sweepCache"} => w.file \in Files
      PROVE  FilesNamed'
  BY <1>1
<1>2. ASSUME NEW p \in Procs, NEW f \in Files \cup {None}, NEW j, Deleting(p, f, j)
      PROVE  FilesNamed'
  <2> DEFINE w == [Idle EXCEPT !.pc = IF f # None /\ OnDisk(f) THEN "cache"
                                      ELSE IF j # None THEN "commit" ELSE "idle",
                               !.file = f, !.job = j]
  <2>1. w.pc = "cache" => w.file \in Files
    BY DEF Idle
  <2>2. w.pc \in {"cache", "commit", "idle"}
    BY DEF Idle
  <2>3. at' = [at EXCEPT ![p] = w]
    BY <1>2 DEF Deleting
  <2> HIDE DEF w
  <2> QED BY <1>1, <2>1, <2>2, <2>3
<1>3. Idle.pc = "idle"
  BY DEF Idle
<1>4. ASSUME NEW p \in Procs, Drop(p) PROVE FilesNamed'
  <2>1. CASE at' = [at EXCEPT ![p] = Idle]
    BY <1>1, <1>3, <2>1
  <2>2. CASE DropCache(p) \/ DropFile(p)
    BY <2>2 DEF DropCache, DropFile, Move, Where
  <2>3. CASE DropFolder(p)
    BY <2>1, <2>3 DEF DropFolder, Move, Where
  <2> QED BY <1>4, <2>1, <2>2, <2>3 DEF Drop, CommitEnd
<1>5. ASSUME NEW f \in Files, UploadNext(f) \/ GrowOld(f) PROVE FilesNamed'
  BY <1>5 DEF UploadNext, BeginUpload, WriteChunk, RefuseUpload, AcceptUpload, GrowOld
<1>6. ASSUME NEW c \in Clients, ClientNext(c) PROVE FilesNamed'
  <2>1. ASSUME NEW f \in Files, ResolveUpload(c, f) PROVE FilesNamed'
    BY <2>1 DEF ResolveUpload, Idle
  <2>2. ASSUME NEW j \in Jobs, CommitJob(c, j) PROVE FilesNamed'
    BY <1>1, <1>3, <2>2 DEF CommitJob
  <2>3. ASSUME NEW j \in Jobs, BeginEnd(c, j) PROVE FilesNamed'
    BY <1>2, <2>3 DEF BeginEnd, TypeOK
  <2>4. CASE RefuseJob(c)
    BY <1>2, <2>4 DEF RefuseJob
  <2> QED BY <1>4, <1>6, <2>1, <2>2, <2>3, <2>4 DEF ClientNext
<1>7. CASE RoundNext
  <2>1. ASSUME NEW j \in Jobs, Analyse(j) PROVE FilesNamed'
    BY <2>1 DEF Analyse, Idle, TypeOK
  <2>2. ASSUME NEW found \in BOOLEAN, KeepAnalysis(found) PROVE FilesNamed'
    BY <2>2 DEF KeepAnalysis, Move, Where
  <2>3. CASE FinishRound \/ Pause
    <3>1. CASE at' = [at EXCEPT ![Worker] = Idle]
      BY <1>1, <1>3, <3>1
    <3>2. CASE FinishRound /\ Deleting(Worker, row[at[Worker].job], at[Worker].job)
      <4>1. row[at[Worker].job] \in Files \cup {None}
        BY <3>2 DEF FinishRound, RoundHasJob, TypeOK
      <4> QED BY <1>2, <3>2, <4>1
    <3> QED BY <2>3, <3>1, <3>2 DEF FinishRound, Pause
  <2> QED BY <1>4, <1>7, <2>1, <2>2, <2>3 DEF RoundNext
<1>8. CASE Scan
  BY <1>8, <1>3 DEF Scan, Idle, Where
<1>9. CASE SweepNext
  BY <1>9, <1>3 DEF SweepNext, SweepFile, SweepCache, EndSweep, Where
<1>10. CASE ApiCrash \/ WorkerCrash
  BY <1>10, <1>3 DEF ApiCrash, WorkerCrash
<1>11. CASE UNCHANGED vars
  BY <1>11 DEF vars
<1> QED BY <1>5, <1>6, <1>7, <1>8, <1>9, <1>10, <1>11 DEF Next

LEMMA TypeInvStep == TypeInv /\ [Next]_vars => TypeInv'
BY TypesNext, FilesNamedNext, RoundHasJobNext, TypeIsShapes DEF TypeInv

LEMMA TypeInvInit == Init => TypeInv
<1> SUFFICES ASSUME Init PROVE TypeInv
  OBVIOUS
<1>1. \A p \in Procs : at[p] = Idle
  BY DEF Init
<1>2. RoundHasJob /\ FilesNamed
  BY <1>1 DEF RoundHasJob, FilesNamed, HasFile, Idle, Procs
<1>3. at \in [Procs -> Where]
  BY IdleIsWhere DEF Init
<1>4. 0 \in 0 .. MaxUpload /\ 0 \in 0 .. Quota /\ 0 \in 0 .. MaxCrashes
  BY StorageAssumption
<1>5. /\ disk \in [Files -> {"none", "open", "stored", "left", "gone"}]
      /\ size \in [Files -> 0 .. MaxUpload] /\ room \in [Files -> 0 .. Quota]
      /\ row \in [Jobs -> Files \cup {None}]
  BY <1>4 DEF Init
<1>6. TypeOK
  BY <1>3, <1>4, <1>5 DEF Init, TypeOK
<1> QED BY <1>2, <1>6 DEF TypeInv

\* Of any number of uploads, jobs and requests: no upload is larger than its limit, no
\* handler works on what is not a file, and an analysis is never without its folder.
THEOREM StorageTypeCorrect == Spec => []TypeOK
<1>1. TypeInv => TypeOK
  BY DEF TypeInv
<1> QED BY TypeInvInit, TypeInvStep, <1>1, PTL DEF Spec
-----------------------------------------------------------------------------
\* What most steps do to what is known of the files and their analyses: a file
\* that is settled stays so, and what is new is settled.
LEMMA KnownNext == ASSUME TypeInv, KnownAreSettled, [Next]_vars PROVE KnownAreSettled'
<1> USE DEF TypeInv, TypeOK
<1>0. /\ Worker \in Procs /\ Worker \notin Clients /\ Clients \subseteq Procs
      /\ at \in [Procs -> Where] /\ \A p \in Procs : at[p] \in Where
      /\ None \notin Files
      /\ disk \in [Files -> {"none", "open", "stored", "left", "gone"}]
      /\ row \in [Jobs -> Files \cup {None}]
      /\ cache \subseteq Files
      /\ \A p \in Procs : at[p].file \in Files \cup {None}
  BY StorageAssumption DEF Procs, Where
<1> DEFINE Is(f) == f \in Files /\ disk[f] \in {"stored", "left", "gone"}
           Will(f) == f \in Files /\ disk'[f] \in {"stored", "left", "gone"}
           Stay == \A f \in Files : Is(f) => Will(f)
<1>1. Idle.file = None
  BY DEF Idle
<1>2. ASSUME \A f \in cache' : Will(f),
             \A j \in Jobs : row'[j] # None => Will(row'[j]),
             \A p \in Procs : at'[p].file # None => Will(at'[p].file)
      PROVE  KnownAreSettled'
  BY <1>2 DEF KnownAreSettled, Settled
<1>3. \A f \in cache : Is(f)
  BY <1>0 DEF KnownAreSettled, Settled
<1>4. \A j \in Jobs : row[j] # None => Is(row[j])
  BY <1>0 DEF KnownAreSettled, Settled
<1>5. \A p \in Procs : at[p].file # None => Is(at[p].file)
  BY <1>0 DEF KnownAreSettled, Settled
<1> USE DEF filesVars
<1>6. ASSUME NEW f \in Files, UploadNext(f) \/ GrowOld(f) PROVE KnownAreSettled'
  <2>1. UNCHANGED <<cache, row, at>>
    BY <1>6 DEF UploadNext, BeginUpload, WriteChunk, RefuseUpload, AcceptUpload, GrowOld
  <2>2. Stay
    BY <1>0, <1>6 DEF UploadNext, BeginUpload, WriteChunk, RefuseUpload, AcceptUpload, GrowOld,
                      Gone, OnDisk
  <2> QED BY <1>0, <1>2, <1>3, <1>4, <1>5, <2>1, <2>2
<1>7. ASSUME NEW p \in Procs, at' \in [Procs -> Where], UNCHANGED <<disk, row>>,
             cache' \subseteq cache, at'[p].file = None \/ Is(at'[p].file),
             \A q \in Procs \ {p} : at'[q].file = at[q].file
      PROVE  KnownAreSettled'
  BY <1>0, <1>2, <1>3, <1>4, <1>5, <1>7
<1>8. at' \in [Procs -> Where]
  BY TypesNext
<1>9. ASSUME NEW p \in Procs, NEW f \in Files \cup {None}, NEW j, Deleting(p, f, j),
             UNCHANGED <<disk, row, cache>>, f # None => Is(f)
      PROVE  KnownAreSettled'
  <2>1. at'[p].file = f /\ \A q \in Procs \ {p} : at'[q] = at[q]
    BY <1>0, <1>9 DEF Deleting, Idle
  <2> QED BY <1>7, <1>8, <1>9, <2>1
<1>10. ASSUME NEW p \in Procs, Drop(p) PROVE KnownAreSettled'
  <2>1. /\ at'[p].file \in {at[p].file, None}
        /\ \A q \in Procs \ {p} : at'[q].file = at[q].file
    BY <1>0, <1>1, <1>10 DEF Drop, DropCache, DropFile, DropFolder, CommitEnd, Move, Where
  <2>2. cache' \subseteq cache /\ Stay
    BY <1>0, <1>10 DEF Drop, DropCache, DropFile, DropFolder, CommitEnd, Gone, OnDisk
  <2>3. \A j \in Jobs : row'[j] \in {row[j], None}
    BY <1>0, <1>10 DEF Drop, DropCache, DropFile, DropFolder, CommitEnd
  <2> QED BY <1>0, <1>2, <1>3, <1>4, <1>5, <2>1, <2>2, <2>3
<1>11. ASSUME NEW c \in Clients, ClientNext(c) PROVE KnownAreSettled'
  <2>1. ASSUME NEW f \in Files, ResolveUpload(c, f) PROVE KnownAreSettled'
    <3>1. at'[c].file = f /\ \A q \in Procs \ {c} : at'[q] = at[q]
      BY <1>0, <2>1 DEF ResolveUpload, Idle
    <3> QED BY <1>0, <1>7, <1>8, <2>1, <3>1 DEF ResolveUpload
  <2>2. ASSUME NEW j \in Jobs, CommitJob(c, j) PROVE KnownAreSettled'
    <3>1. at'[c].file = None /\ \A q \in Procs \ {c} : at'[q] = at[q]
      BY <1>0, <2>2 DEF CommitJob, Idle
    <3>2. UNCHANGED <<disk, cache>> /\ \A k \in Jobs : row'[k] \in {row[k], at[c].file}
      BY <1>0, <2>2 DEF CommitJob
    <3> QED BY <1>0, <1>2, <1>3, <1>4, <1>5, <3>1, <3>2
  <2>3. ASSUME NEW j \in Jobs, BeginEnd(c, j) PROVE KnownAreSettled'
    BY <1>0, <1>4, <1>9, <2>3 DEF BeginEnd
  <2>4. CASE RefuseJob(c)
    BY <1>0, <1>5, <1>9, <2>4 DEF RefuseJob
  <2> QED BY <1>0, <1>10, <1>11, <2>1, <2>2, <2>3, <2>4 DEF ClientNext
<1>12. CASE RoundNext
  <2>1. ASSUME NEW j \in Jobs, Analyse(j) PROVE KnownAreSettled'
    <3>1. at'[Worker].file = row[j] /\ \A q \in Procs \ {Worker} : at'[q] = at[q]
      BY <1>0, <2>1 DEF Analyse, Idle
    <3> QED BY <1>0, <1>4, <1>7, <1>8, <2>1, <3>1 DEF Analyse
  <2>2. ASSUME NEW found \in BOOLEAN, KeepAnalysis(found) PROVE KnownAreSettled'
    <3>1. \A q \in Procs : at'[q].file = at[q].file
      BY <1>0, <2>2 DEF KeepAnalysis, Move, Where
    <3>2. at[Worker].file \in Files
      BY <1>0, <2>2 DEF KeepAnalysis, FilesNamed, HasFile
    <3>3. cache' \subseteq cache \cup {at[Worker].file} /\ UNCHANGED <<disk, row>>
      BY <2>2 DEF KeepAnalysis
    <3> QED BY <1>0, <1>2, <1>3, <1>4, <1>5, <3>1, <3>2, <3>3
  <2>3. CASE at' = [at EXCEPT ![Worker] = Idle] /\ UNCHANGED <<disk, cache, row>>
    BY <1>0, <1>1, <1>7, <1>8, <2>3
  <2>4. CASE FinishRound
    <3>1. at[Worker].job \in Jobs
      BY <2>4 DEF FinishRound, RoundHasJob
    <3> QED BY <1>0, <1>4, <1>9, <2>3, <2>4, <3>1 DEF FinishRound
  <2> QED BY <1>0, <1>10, <1>12, <2>1, <2>2, <2>3, <2>4 DEF RoundNext, Pause
<1>13. CASE Scan
  <2>1. \A q \in Procs : at'[q].file \in {at[q].file, None}
    BY <1>0, <1>1, <1>13 DEF Scan, Where, Idle
  <2> QED BY <1>0, <1>2, <1>3, <1>4, <1>5, <1>13, <2>1 DEF Scan
<1>14. CASE SweepNext
  <2>1. ASSUME NEW f \in Files, SweepFile(f) PROVE KnownAreSettled'
    <3>1. Stay /\ (disk'[f] = "gone" \/ at'[Worker].file = at[Worker].file)
      BY <1>0, <2>1 DEF SweepFile, Gone, OnDisk, Where
    <3>2. at'[Worker].file \in {at[Worker].file, f} /\ \A q \in Procs \ {Worker} : at'[q] = at[q]
      BY <1>0, <2>1 DEF SweepFile, Where
    <3>3. UNCHANGED <<cache, row>>
      BY <2>1 DEF SweepFile
    <3> QED BY <1>0, <1>2, <1>3, <1>4, <1>5, <3>1, <3>2, <3>3
  <2>2. CASE SweepCache \/ EndSweep
    <3>1. at'[Worker].file = None /\ \A q \in Procs \ {Worker} : at'[q] = at[q]
      BY <1>0, <1>1, <2>2 DEF SweepCache, EndSweep, Where
    <3>2. UNCHANGED <<disk, row>> /\ cache' \subseteq cache
      BY <2>2 DEF SweepCache, EndSweep
    <3> QED BY <1>0, <1>7, <1>8, <3>1, <3>2
  <2> QED BY <1>14, <2>1, <2>2 DEF SweepNext
<1>15. CASE ApiCrash \/ WorkerCrash
  <2>1. \A q \in Procs : at'[q].file \in {at[q].file, None}
    BY <1>0, <1>1, <1>15 DEF ApiCrash, WorkerCrash
  <2>2. Stay /\ UNCHANGED <<cache, row>>
    BY <1>0, <1>15 DEF ApiCrash, WorkerCrash
  <2> QED BY <1>0, <1>2, <1>3, <1>4, <1>5, <2>1, <2>2
<1>16. CASE UNCHANGED vars
  BY <1>16 DEF vars, KnownAreSettled, Settled
<1> QED BY <1>6, <1>11, <1>12, <1>13, <1>14, <1>15, <1>16 DEF Next

\* A step that removes no file, writes no analysis and begins neither an analysis
\* nor an unlink
Harmless ==
    /\ astray \subseteq astray' /\ cache' \subseteq cache
    /\ \A f \in Files : OnDisk(f) => disk'[f] \in {"open", "stored", "left"}
    /\ at'[Worker].pc = "analyse" => at[Worker].pc = "analyse" /\ at'[Worker].file = at[Worker].file
    /\ at[Worker].pc = "sweepCache" =>
         at'[Worker].pc = "sweepCache" /\ at'[Worker].file = at[Worker].file
    /\ \A p \in Procs : at'[p].pc = "file" => at[p].pc = "file" /\ at'[p].file = at[p].file

LEMMA HarmlessSteps ==
    ASSUME TypeInv, AnalysisInv, Harmless
    PROVE  AnalysedIsThere' /\ UnlinkedHasNone' /\ AnalysisGoesWithUpload'
<1> USE DEF AnalysisInv, Harmless, TypeInv, TypeOK
<1>1. AnalysedIsThere'
  BY DEF AnalysedIsThere, Analysing, OnDisk
<1>2. UnlinkedHasNone'
  BY DEF UnlinkedHasNone, Analysing
<1>3. AnalysisGoesWithUpload'
  BY DEF AnalysisGoesWithUpload, OnDisk
<1> QED BY <1>1, <1>2, <1>3

LEMMA AnalysisNext ==
    ASSUME TypeInv, AnalysisInv, [Next]_vars, TypeInv'
    PROVE  AnalysedIsThere' /\ UnlinkedHasNone' /\ AnalysisGoesWithUpload'
<1> DEFINE Kept == AnalysedIsThere' /\ UnlinkedHasNone' /\ AnalysisGoesWithUpload'
<1> SUFFICES Kept
  OBVIOUS
<1>0. /\ Worker \in Procs /\ Worker \notin Clients /\ Clients \subseteq Procs
      /\ at \in [Procs -> Where] /\ \A p \in Procs : at[p] \in Where
      /\ disk \in [Files -> {"none", "open", "stored", "left", "gone"}]
      /\ cache \subseteq Files
      /\ \A p \in Procs : HasFile(p) => at[p].file \in Files
  BY StorageAssumption DEF Procs, TypeInv, TypeOK, FilesNamed
<1>1. Idle.pc = "idle"
  BY DEF Idle
<1>2. ASSUME Harmless PROVE Kept
  BY <1>2, HarmlessSteps
<1>3. /\ \A f \in Files : Analysing(f) => OnDisk(f) \/ f \in astray
      /\ \A p \in Procs : at[p].pc = "file" =>
           at[p].file \in astray \/ (at[p].file \notin cache /\ ~Analysing(at[p].file))
      /\ \A f \in cache : OnDisk(f) \/ f \in astray
                          \/ (at[Worker].pc = "sweepCache" /\ at[Worker].file = f)
  BY DEF AnalysisInv, AnalysedIsThere, UnlinkedHasNone, AnalysisGoesWithUpload
<1> USE DEF Analysing, OnDisk, filesVars, history
<1>4. ASSUME NEW f \in Files, UploadNext(f) \/ GrowOld(f) PROVE Kept
  <2>1. CASE RefuseUpload(f)
    <3>1. disk[f] = "open" /\ UNCHANGED <<at, cache, astray>>
          /\ \A g \in Files \ {f} : disk'[g] = disk[g]
      BY <1>0, <2>1 DEF RefuseUpload, Gone
    <3>2. f \notin cache /\ \A p \in Procs : at[p].file = f => f = None
      BY <3>1 DEF AnalysisInv, KnownAreSettled, Settled
    <3>3. at[Worker].file # f
      BY <1>0, <3>2, StorageAssumption
    <3> QED BY <1>0, <1>3, <3>1, <3>2, <3>3
            DEF AnalysedIsThere, UnlinkedHasNone, AnalysisGoesWithUpload
  <2>2. CASE BeginUpload(f) \/ WriteChunk(f) \/ AcceptUpload(f) \/ GrowOld(f)
    BY <1>0, <1>2, <2>2 DEF BeginUpload, WriteChunk, AcceptUpload, GrowOld, Harmless
  <2> QED BY <1>4, <2>1, <2>2 DEF UploadNext
<1>5. ASSUME NEW p \in Procs, NEW w, at' = [at EXCEPT ![p] = w], w.pc \notin {"file", "analyse"},
             at[Worker].pc = "sweepCache" => p # Worker,
             UNCHANGED disk, cache' = cache, astray' = astray
      PROVE  Kept
  BY <1>0, <1>2, <1>5 DEF Harmless
<1>6. ASSUME NEW p \in Procs, NEW f, NEW j, Deleting(p, f, j),
             at[Worker].pc = "sweepCache" => p # Worker,
             UNCHANGED disk, cache' = cache, astray' = astray
      PROVE  Kept
  <2> DEFINE w == [Idle EXCEPT !.pc = IF f # None /\ OnDisk(f) THEN "cache"
                                      ELSE IF j # None THEN "commit" ELSE "idle",
                               !.file = f, !.job = j]
  <2>1. w.pc \in {"cache", "commit", "idle"}
    BY DEF Idle
  <2>2. at' = [at EXCEPT ![p] = w]
    BY <1>6 DEF Deleting
  <2> HIDE DEF w
  <2> QED BY <1>5, <1>6, <2>1, <2>2
<1>7. ASSUME NEW p \in Procs, Drop(p) PROVE Kept
  <2>1. CASE DropCache(p)
    <3>1. at'[p].pc = "file" /\ at'[p].file = at[p].file /\ \A q \in Procs \ {p} : at'[q] = at[q]
      BY <1>0, <2>1 DEF DropCache, Move, Where
    <3>2. /\ disk' = disk /\ cache' = cache \ {at[p].file} /\ at[p].pc = "cache"
          /\ astray' = IF Analysing(at[p].file) THEN astray \cup {at[p].file} ELSE astray
      BY <2>1 DEF DropCache
    <3>3. AnalysedIsThere'
      BY <1>0, <1>3, <3>1, <3>2 DEF AnalysedIsThere
    <3>4. UnlinkedHasNone'
      BY <1>0, <1>3, <3>1, <3>2 DEF UnlinkedHasNone
    <3>5. AnalysisGoesWithUpload'
      BY <1>0, <1>3, <3>1, <3>2 DEF AnalysisGoesWithUpload
    <3> QED BY <3>3, <3>4, <3>5
  <2>2. CASE DropFile(p)
    <3>1. at'[p].pc = "folder" /\ \A q \in Procs \ {p} : at'[q] = at[q]
      BY <1>0, <2>2 DEF DropFile, Move, Where
    <3>2. /\ UNCHANGED <<cache, astray>> /\ at[p].pc = "file"
          /\ \A g \in Files \ {at[p].file} : disk'[g] = disk[g]
      BY <1>0, <2>2 DEF DropFile, Gone
    <3>3. AnalysedIsThere'
      BY <1>0, <1>3, <3>1, <3>2 DEF AnalysedIsThere
    <3>4. UnlinkedHasNone'
      BY <1>0, <1>3, <3>1, <3>2 DEF UnlinkedHasNone
    <3>5. AnalysisGoesWithUpload'
      BY <1>0, <1>3, <3>1, <3>2 DEF AnalysisGoesWithUpload
    <3> QED BY <3>3, <3>4, <3>5
  <2>3. CASE DropFolder(p) \/ CommitEnd(p)
    <3>1. at'[p].pc \in {"idle", "commit"} /\ \A q \in Procs \ {p} : at'[q] = at[q]
      BY <1>0, <1>1, <2>3 DEF DropFolder, CommitEnd, Move, Where
    <3>2. UNCHANGED <<disk, cache, astray>> /\ at[p].pc \in {"folder", "commit"}
      BY <2>3 DEF DropFolder, CommitEnd
    <3> QED BY <1>0, <1>2, <3>1, <3>2 DEF Harmless
  <2> QED BY <1>7, <2>1, <2>2, <2>3 DEF Drop
<1>8. ASSUME NEW c \in Clients, ClientNext(c) PROVE Kept
  <2>1. ASSUME NEW f \in Files, ResolveUpload(c, f) PROVE Kept
    <3>1. at'[c].pc = "lock" /\ \A q \in Procs \ {c} : at'[q] = at[q]
      BY <1>0, <2>1 DEF ResolveUpload, Idle
    <3> QED BY <1>0, <1>2, <2>1, <3>1 DEF ResolveUpload, Harmless
  <2>2. ASSUME NEW j \in Jobs, CommitJob(c, j) PROVE Kept
    BY <1>0, <1>1, <1>5, <2>2 DEF CommitJob
  <2>3. ASSUME NEW j \in Jobs, BeginEnd(c, j) PROVE Kept
    BY <1>0, <1>6, <2>3 DEF BeginEnd
  <2>4. CASE RefuseJob(c)
    BY <1>0, <1>6, <2>4 DEF RefuseJob
  <2> QED BY <1>0, <1>7, <1>8, <2>1, <2>2, <2>3, <2>4 DEF ClientNext
<1>9. CASE RoundNext
  <2>1. ASSUME NEW j \in Jobs, Analyse(j) PROVE Kept
    <3>1. /\ at'[Worker].pc \in {"analysed", "analyse"} /\ at'[Worker].file = row[j]
          /\ \A q \in Procs \ {Worker} : at'[q] = at[q]
      BY <1>0, <2>1 DEF Analyse, Idle
    <3>2. /\ UNCHANGED <<disk, cache>> /\ OnDisk(row[j]) /\ at[Worker].pc = "idle"
          /\ astray' = astray \cup {f \in {row[j]} : \E c \in Clients :
                                      at[c].pc = "file" /\ at[c].file = f}
      BY <2>1 DEF Analyse
    <3>3. AnalysedIsThere' /\ AnalysisGoesWithUpload'
      BY <1>0, <1>3, <3>1, <3>2 DEF AnalysedIsThere, AnalysisGoesWithUpload
    <3>4. UnlinkedHasNone'
      BY <1>0, <1>3, <3>1, <3>2 DEF UnlinkedHasNone, Procs
    <3> QED BY <3>3, <3>4
  <2>2. ASSUME NEW found \in BOOLEAN, KeepAnalysis(found) PROVE Kept
    <3>1. /\ at'[Worker].pc = "analysed" /\ at'[Worker].file = at[Worker].file
          /\ \A q \in Procs \ {Worker} : at'[q] = at[q]
      BY <1>0, <2>2 DEF KeepAnalysis, Move, Where
    <3>2. /\ UNCHANGED <<disk, astray>> /\ at[Worker].pc = "analyse"
          /\ cache' \subseteq cache \cup {at[Worker].file} /\ at[Worker].file \in Files
      BY <1>0, <2>2 DEF KeepAnalysis, HasFile
    <3>3. AnalysedIsThere' /\ AnalysisGoesWithUpload'
      BY <1>0, <1>3, <3>1, <3>2 DEF AnalysedIsThere, AnalysisGoesWithUpload
    <3>4. UnlinkedHasNone'
      BY <1>0, <1>3, <3>1, <3>2 DEF UnlinkedHasNone
    <3> QED BY <3>3, <3>4
  <2>3. CASE FinishRound \/ Pause
    <3>1. CASE at' = [at EXCEPT ![Worker] = Idle]
      BY <1>0, <1>1, <1>5, <2>3, <3>1 DEF FinishRound, Pause
    <3> QED BY <1>0, <1>6, <2>3, <3>1 DEF FinishRound, Pause
  <2> QED BY <1>0, <1>7, <1>9, <2>1, <2>2, <2>3 DEF RoundNext
<1>10. CASE Scan
  <2>1. /\ at'[Worker].pc = "sweep" /\ at[Worker].pc = "idle"
        /\ \A q \in Procs \ {Worker} : at'[q].pc = at[q].pc /\ at'[q].file = at[q].file
    BY <1>0, <1>10 DEF Scan, Where, Idle
  <2> QED BY <1>0, <1>2, <1>10, <2>1 DEF Scan, Harmless
<1>11. CASE SweepNext
  <2>1. ASSUME NEW f \in Files, SweepFile(f) PROVE Kept
    <3>1. CASE OnDisk(f)
      <4>1. /\ at'[Worker].pc = "sweepCache" /\ at'[Worker].file = f
            /\ \A q \in Procs \ {Worker} : at'[q] = at[q]
        BY <1>0, <2>1, <3>1 DEF SweepFile, Where
      <4>2. /\ UNCHANGED <<cache, astray>> /\ at[Worker].pc = "sweep"
            /\ \A g \in Files \ {f} : disk'[g] = disk[g]
        BY <1>0, <2>1, <3>1 DEF SweepFile, Gone
      <4> QED BY <1>0, <1>3, <4>1, <4>2 DEF AnalysedIsThere, AnalysisGoesWithUpload, UnlinkedHasNone
    <3>2. CASE ~OnDisk(f)
      <4>1. at'[Worker].pc = "sweep" /\ \A q \in Procs \ {Worker} : at'[q] = at[q]
        BY <1>0, <2>1, <3>2 DEF SweepFile, Where
      <4>2. UNCHANGED <<disk, cache, astray>> /\ at[Worker].pc = "sweep"
        BY <2>1, <3>2 DEF SweepFile
      <4> QED BY <1>0, <1>2, <4>1, <4>2 DEF Harmless
    <3> QED BY <3>1, <3>2
  <2>2. CASE SweepCache
    <3>1. at'[Worker].pc = "sweep" /\ \A q \in Procs \ {Worker} : at'[q] = at[q]
      BY <1>0, <2>2 DEF SweepCache, Where
    <3>2. UNCHANGED <<disk, astray>> /\ cache' = cache \ {at[Worker].file}
      BY <2>2 DEF SweepCache
    <3> QED BY <1>0, <1>3, <3>1, <3>2 DEF AnalysedIsThere, AnalysisGoesWithUpload, UnlinkedHasNone
  <2>3. CASE EndSweep
    BY <1>0, <1>1, <1>5, <2>3 DEF EndSweep
  <2> QED BY <1>11, <2>1, <2>2, <2>3 DEF SweepNext
<1>12. CASE ApiCrash
  <2>1. /\ at'[Worker] = at[Worker] /\ \A q \in Procs \ {Worker} : at'[q].pc = "idle"
        /\ cache' = cache /\ astray \subseteq astray'
        /\ \A f \in Files : OnDisk(f) => disk'[f] \in {"open", "stored", "left"}
    BY <1>0, <1>1, <1>12 DEF ApiCrash
  <2> QED BY <1>0, <1>2, <2>1 DEF Harmless
<1>13. CASE WorkerCrash
  <2>1. /\ at'[Worker].pc = "idle" /\ \A q \in Procs \ {Worker} : at'[q] = at[q]
        /\ UNCHANGED <<disk, cache>> /\ astray' = astray \cup HalfGone(Worker)
    BY <1>0, <1>1, <1>13 DEF WorkerCrash
  <2> QED BY <1>0, <1>3, <2>1 DEF AnalysedIsThere, AnalysisGoesWithUpload, UnlinkedHasNone, HalfGone
<1>14. CASE UNCHANGED vars
  BY <1>2, <1>14 DEF vars, Harmless
<1> QED BY <1>4, <1>8, <1>9, <1>10, <1>11, <1>12, <1>13, <1>14 DEF Next

\* docs/FREE_TIER_BUDGET.md:29: whoever deletes, creates and analyses at the same time,
\* and wherever API and worker crash, an analysis outlives its upload only when the
\* removal met the analysis, or was cut short.
THEOREM AnalysisFollowsUpload == Spec => []AnalysisGoesWithUpload
<1>1. Init => AnalysisInv
  <2>1. Init => \A p \in Procs : at[p].file = None /\ at[p].pc = "idle"
    BY DEF Init, Idle
  <2> QED BY <2>1 DEF Init, Procs, AnalysisInv, KnownAreSettled, AnalysedIsThere, Analysing,
                      UnlinkedHasNone, AnalysisGoesWithUpload
<1>2. TypeInv /\ AnalysisInv /\ [Next]_vars => TypeInv' /\ AnalysisInv'
  BY TypeInvStep, KnownNext, AnalysisNext DEF AnalysisInv
<1>3. AnalysisInv => AnalysisGoesWithUpload
  BY DEF AnalysisInv
<1> QED BY TypeInvInit, <1>1, <1>2, <1>3, PTL DEF Spec
-----------------------------------------------------------------------------
LEMMA PlainChunks ==
    /\ Chunks(Plain) \in SUBSET (Files \X (1 .. MaxUpload))
    /\ Chunks({f \in Files : OnDisk(f)}) \in SUBSET (Files \X (1 .. MaxUpload))
    /\ Chunks({f \in crowd : OnDisk(f)}) \subseteq crowd \X (1 .. MaxUpload)
BY DEF Chunks, Plain

\* A step that opens no upload and writes nothing frees what it frees.
LEMMA QuotaShrinks ==
    ASSUME TypeInv, QuotaInv, TypeInv', Plain' \subseteq Plain,
           \A f \in Plain' : size'[f] = size[f],
           \A f \in Files : disk'[f] = "none" => disk[f] = "none" /\ size'[f] = size[f],
           \A f \in Opened' : f \in Opened /\ room'[f] = room[f] /\ size'[f] = size[f],
           Opened' \ crowd' \subseteq Opened \ crowd
    PROVE  QuotaInv'
<1> USE DEF TypeInv, TypeOK
<1>1. Chunks(Plain)' \subseteq Chunks(Plain)
  BY DEF Chunks
<1>2. Cardinality(Chunks(Plain)') <= Cardinality(Chunks(Plain))
      /\ Cardinality(Chunks(Plain)) \in Nat /\ Cardinality(Chunks(Plain)') \in Nat
  BY <1>1, PlainChunks, ChunkSets
<1>3. Cardinality(Chunks(Plain))' = Cardinality(Chunks(Plain)')
  OBVIOUS
<1> DEFINE n == Cardinality(Chunks(Plain))
           m == Cardinality(Chunks(Plain)')
<1>4. n \in Nat /\ m \in Nat /\ m <= n /\ Quota \in Nat
  BY <1>2, StorageAssumption
<1>5. n <= Quota /\ \A f \in Opened \ crowd : Opened = {f} /\ size[f] <= room[f] /\ n + room[f] <= Quota + size[f]
  BY DEF QuotaInv
<1>6. \A f \in Files : disk'[f] = "none" => size'[f] = 0
  BY DEF QuotaInv
<1> HIDE DEF n, m
<1>7. m <= Quota
  BY <1>4, <1>5
<1>8. ASSUME NEW f \in Opened' \ crowd'
      PROVE  Opened' = {f} /\ size'[f] <= room'[f] /\ m + room'[f] <= Quota + size'[f]
  <2>1. f \in Opened \ crowd /\ room'[f] = room[f] /\ size'[f] = size[f] /\ f \in Files
    BY <1>8 DEF Opened
  <2>2. Opened' = {f}
    BY <1>5, <1>8, <2>1
  <2>3. room[f] \in Nat /\ size[f] \in Nat
    BY <2>1
  <2> QED BY <1>4, <1>5, <2>1, <2>2, <2>3
<1> QED BY <1>3, <1>6, <1>7, <1>8 DEF QuotaInv, m

LEMMA QuotaNext ==
    ASSUME TypeInv, KnownAreSettled, QuotaInv, [Next]_vars, TypeInv'
    PROVE  QuotaInv'
<1> USE StorageAssumption DEF TypeInv, TypeOK
<1>1. ASSUME UNCHANGED <<disk, size, room, crowd>> PROVE QuotaInv'
  BY <1>1 DEF QuotaInv, Opened, Plain, Chunks, OnDisk
<1>2. ASSUME NEW f, Gone(f), f \in Files => disk[f] # "none" PROVE QuotaInv'
  <2>1. /\ \A g \in Files : g # f => disk'[g] = disk[g] /\ size'[g] = size[g] /\ room'[g] = room[g]
        /\ f \in Files => disk'[f] = "gone" \/ (disk[f] = "gone" /\ disk'[f] = "gone")
        /\ crowd' = crowd \ {f}
    BY <1>2 DEF Gone, OnDisk
  <2>2. Plain' \subseteq Plain /\ f \notin Plain' /\ f \notin Opened'
    BY <2>1 DEF Plain, OnDisk, Opened
  <2>3. Opened' \subseteq Opened
    BY <2>1 DEF Opened
  <2>4. Opened' \ crowd' \subseteq Opened \ crowd
    BY <2>1, <2>2, <2>3
  <2>5. \A g \in Plain' \cup Opened' : size'[g] = size[g] /\ room'[g] = room[g]
    BY <2>1, <2>2 DEF Plain, Opened
  <2>6. \A g \in Files : disk'[g] = "none" => disk[g] = "none" /\ size'[g] = size[g]
    BY <2>1
  <2> QED BY <2>2, <2>3, <2>4, <2>5, <2>6, QuotaShrinks
<1>3. ASSUME NEW f \in Files, BeginUpload(f) PROVE QuotaInv'
  <2>1. /\ disk[f] = "none" /\ size[f] = 0 /\ UNCHANGED size /\ Used < Quota
        /\ disk' = [disk EXCEPT ![f] = "open"] /\ room' = [room EXCEPT ![f] = Quota - Used]
        /\ crowd' = IF Opened = {} THEN crowd ELSE crowd \cup Opened \cup {f}
    BY <1>3 DEF BeginUpload, QuotaInv
  <2>2. Opened' = Opened \cup {f} /\ Plain' \subseteq Plain \cup {f}
    BY <2>1 DEF Opened, Plain, OnDisk
  <2>3. Chunks(Plain)' \subseteq Chunks(Plain)
    BY <2>1, <2>2 DEF Chunks
  <2>4. Chunks(Plain) \subseteq Chunks({g \in Files : OnDisk(g)})
    BY DEF Chunks, Plain
  <2> DEFINE n == Cardinality(Chunks(Plain))
             m == Cardinality(Chunks(Plain)')
  <2>5. n \in Nat /\ m \in Nat /\ m <= n /\ n <= Used /\ Used \in Nat
    BY <2>3, <2>4, PlainChunks, ChunkSets DEF Used
  <2>6. n <= Quota
    BY DEF QuotaInv
  <2>7. Cardinality(Chunks(Plain))' = m
    OBVIOUS
  <2> HIDE DEF n, m
  <2>8. \A g \in Files : disk'[g] = "none" => size'[g] = 0
    BY <2>1 DEF QuotaInv
  <2>9. ASSUME NEW g \in Opened' \ crowd'
        PROVE  Opened' = {g} /\ size'[g] <= room'[g] /\ m + room'[g] <= Quota + size'[g]
    <3>1. Opened = {} /\ g = f
      BY <2>1, <2>2
    <3>2. room'[f] = Quota - Used
      BY <2>1
    <3> QED BY <2>1, <2>2, <2>5, <3>1, <3>2
  <2> QED BY <2>5, <2>6, <2>7, <2>8, <2>9 DEF QuotaInv
<1>4. ASSUME NEW f \in Files, WriteChunk(f) PROVE QuotaInv'
  <2>1. /\ disk[f] = "open" /\ size' = [size EXCEPT ![f] = @ + 1]
        /\ size[f] + 1 <= MaxUpload /\ size[f] + 1 <= room[f]
        /\ UNCHANGED <<disk, room, crowd>>
    BY <1>4 DEF WriteChunk, Fits, history
  <2>2. Opened' = Opened /\ Plain' = Plain /\ f \in Opened
    BY <2>1 DEF Opened, Plain, OnDisk
  <2>3. CASE f \in crowd
    <3>1. \A g \in Plain' : size'[g] = size[g]
      BY <2>1, <2>2, <2>3 DEF Plain
    <3>2. \A g \in Opened \ crowd : g # f /\ f \in Opened
      BY <2>2, <2>3
    <3>3. Opened \ crowd = {}
      BY <3>2 DEF QuotaInv
    <3>4. Chunks(Plain)' = Chunks(Plain)
      BY <2>2, <3>1 DEF Chunks
    <3>5. Cardinality(Chunks(Plain))' = Cardinality(Chunks(Plain))
      BY <3>4
    <3>6. \A g \in Files : disk'[g] = "none" => size'[g] = 0
      BY <2>1 DEF QuotaInv
    <3> QED BY <2>1, <2>2, <3>3, <3>5, <3>6 DEF QuotaInv
  <2>4. CASE f \notin crowd
    <3> DEFINE c == <<f, size[f] + 1>>
    <3>1. f \in Plain /\ Plain' = Plain
      BY <2>1, <2>2, <2>4 DEF Plain, OnDisk
    <3>2. size[f] \in Nat /\ size[f] + 1 \in 1 .. MaxUpload
      BY <2>1
    <3>3. Chunks(Plain)' = Chunks(Plain) \cup {c}
      <4>1. ASSUME NEW d \in Plain \X (1 .. MaxUpload)
            PROVE  d[2] <= size'[d[1]] <=> d[2] <= size[d[1]] \/ d = c
        <5>1. d = <<d[1], d[2]>> /\ d[1] \in Plain /\ d[2] \in 1 .. MaxUpload /\ d[1] \in Files
          BY DEF Plain
        <5>2. CASE d[1] = f
          <6>1. size'[d[1]] = size[f] + 1
            BY <2>1, <5>2
          <6> QED BY <3>2, <5>1, <5>2, <6>1
        <5>3. CASE d[1] # f
          <6>1. size'[d[1]] = size[d[1]]
            BY <2>1, <5>1, <5>3
          <6> QED BY <5>1, <5>3, <6>1
        <5> QED BY <5>2, <5>3
      <4>2. c \in Plain \X (1 .. MaxUpload)
        BY <3>1, <3>2
      <4> HIDE DEF c
      <4> QED BY <3>1, <4>1, <4>2 DEF Chunks
    <3>4. IsFiniteSet(Chunks(Plain)) /\ Cardinality(Chunks(Plain)) \in Nat
      BY PlainChunks, ChunkSets
    <3>5. c \notin Chunks(Plain)
      BY <3>2 DEF Chunks
    <3> HIDE DEF c
    <3>6. Cardinality(Chunks(Plain)') = Cardinality(Chunks(Plain)) + 1
      BY <3>3, <3>4, <3>5, FS_AddElement
    <3> DEFINE n == Cardinality(Chunks(Plain))
    <3>7. Cardinality(Chunks(Plain))' = n + 1
      BY <3>6
    <3>8. n \in Nat /\ Opened = {f} /\ n + room[f] <= Quota + size[f] /\ room[f] \in Nat
      BY <2>2, <2>4, <3>4 DEF QuotaInv
    <3>9. size'[f] = size[f] + 1 /\ \A g \in Files : disk'[g] = "none" => size'[g] = 0
      BY <2>1 DEF QuotaInv
    <3> HIDE DEF n
    <3>10. n + 1 <= Quota /\ n + 1 + room'[f] <= Quota + size'[f] /\ size'[f] <= room'[f]
      BY <2>1, <3>2, <3>8, <3>9
    <3> QED BY <2>2, <3>7, <3>8, <3>9, <3>10 DEF QuotaInv
  <2> QED BY <2>3, <2>4
<1>5. ASSUME NEW f \in Files, AcceptUpload(f) PROVE QuotaInv'
  <2>1. /\ UNCHANGED <<size, crowd>> /\ disk' = [disk EXCEPT ![f] = "stored"] /\ disk[f] = "open"
        /\ room' = [room EXCEPT ![f] = 0]
    BY <1>5 DEF AcceptUpload, history
  <2>2. Plain' = Plain /\ Opened' = Opened \ {f}
    BY <2>1 DEF Plain, Opened, OnDisk
  <2>3. \A g \in Opened' : room'[g] = room[g]
    BY <2>1, <2>2 DEF Opened
  <2>4. \A g \in Files : disk'[g] = "none" => disk[g] = "none"
    BY <2>1
  <2> QED BY <2>1, <2>2, <2>3, <2>4, QuotaShrinks
<1>6. CASE ApiCrash
  <2>1. /\ UNCHANGED <<size, crowd>>
        /\ disk' = [f \in Files |-> IF disk[f] = "open" THEN "left" ELSE disk[f]]
    BY <1>6 DEF ApiCrash
  <2>2. Plain' = Plain /\ Opened' = {}
    BY <2>1 DEF Plain, Opened, OnDisk
  <2>3. \A g \in Files : disk'[g] = "none" => disk[g] = "none"
    BY <2>1
  <2> QED BY <2>1, <2>2, <2>3, QuotaShrinks
<1>7. ASSUME NEW p \in Procs, DropFile(p) PROVE QuotaInv'
  <2>1. at[p].file \in Files => disk[at[p].file] # "none"
    BY DEF KnownAreSettled, Settled
  <2> QED BY <1>2, <1>7, <2>1 DEF DropFile
<1> QED
  BY <1>1, <1>2, <1>3, <1>4, <1>5, <1>6, <1>7
  DEF Next, UploadNext, RefuseUpload, GrowOld, ClientNext, ResolveUpload, CommitJob, BeginEnd,
      RefuseJob, Drop, DropCache, DropFolder, CommitEnd, RoundNext, Analyse, KeepAnalysis,
      FinishRound, Pause, Scan, SweepNext, SweepFile, SweepCache, EndSweep, WorkerCrash,
      filesVars, history, vars, OnDisk, Procs

\* The chunks on the disk are those that the quota holds for, and those of the others.
LEMMA QuotaInvHolds == TypeInv /\ QuotaInv => QuotaHeld
<1> SUFFICES ASSUME TypeInv, QuotaInv PROVE QuotaHeld
  OBVIOUS
<1> DEFINE A == Chunks(Plain)
           B == Chunks({f \in crowd : OnDisk(f)})
<1>1. Chunks({f \in Files : OnDisk(f)}) = A \cup B
  BY DEF Chunks, Plain, TypeInv, TypeOK
<1>2. A \in SUBSET (Files \X (1 .. MaxUpload)) /\ B \in SUBSET (Files \X (1 .. MaxUpload))
  BY PlainChunks DEF TypeInv, TypeOK
<1>3. Cardinality(A) <= Quota
  BY DEF QuotaInv
<1> HIDE DEF A, B
<1>4. /\ IsFiniteSet(A) /\ IsFiniteSet(B) /\ Cardinality(A) \in Nat /\ Cardinality(B) \in Nat
      /\ Cardinality(A \cap B) \in Nat
  BY <1>2, ChunkSets
<1>5. Cardinality(A \cup B) = Cardinality(A) + Cardinality(B) - Cardinality(A \cap B)
  BY <1>4, FS_Union
<1>6. Used = Cardinality(A \cup B)
  BY <1>1 DEF Used
<1>7. Used <= Quota + Cardinality(B)
  BY <1>3, <1>4, <1>5, <1>6, StorageAssumption
<1> QED BY <1>7 DEF QuotaHeld, B

\* docs/FREE_TIER_BUDGET.md:35: however many uploads there are, of whatever size, all
\* an account has beyond its quota are uploads that overlapped another one.
THEOREM QuotaIsHeld == Spec => []QuotaHeld
<1>1. Init => KnownAreSettled /\ QuotaInv
  <2> SUFFICES ASSUME Init PROVE KnownAreSettled /\ QuotaInv
    OBVIOUS
  <2>1. KnownAreSettled
    BY DEF Init, Idle, KnownAreSettled
  <2>2. Opened = {} /\ Plain = {} /\ \A f \in Files : size[f] = 0
    BY DEF Init, Opened, Plain, OnDisk
  <2>3. Chunks(Plain) = {}
    BY <2>2 DEF Chunks
  <2>4. Cardinality(Chunks(Plain)) <= Quota
    BY <2>3, FS_EmptySet, StorageAssumption
  <2> QED BY <2>1, <2>2, <2>4 DEF QuotaInv
<1>2. TypeInv /\ KnownAreSettled /\ QuotaInv /\ [Next]_vars => TypeInv' /\ KnownAreSettled' /\ QuotaInv'
  BY TypeInvStep, KnownNext, QuotaNext
<1> QED BY TypeInvInit, <1>1, <1>2, QuotaInvHolds, PTL DEF Spec
=============================================================================
