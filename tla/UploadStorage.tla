---------------------------- MODULE UploadStorage ----------------------------
(***************************************************************************)
(* The upload directory of an account: the upload handler of main.py and   *)
(* its quota, what create_job and the handlers that end a job do to the    *)
(* files (delete_uploaded_media), the analysis the worker keeps beside a   *)
(* file while it works on it (media_features), and the cleanup of orphans  *)
(* (maintenance.py).                                                       *)
(*                                                                         *)
(* A row of jobs is here what it refers to; the life of a job is JobQueue. *)
(* The directory of the account, which its users create on demand, and the *)
(* suffix an accepted upload gets are left out.  A request is cut off only *)
(* with the API, and the upload handler then leaves its file behind.       *)
(***************************************************************************)
EXTENDS Integers, FiniteSets

CONSTANTS
    Files, Jobs, Clients, Worker, None,
    Quota,         \* CLOUD_MEDIA_QUOTA_GB, in chunks
    MaxUpload,     \* VIDEO_MAX_UPLOAD_MB, in chunks
    MaxCrashes     \* bound: crashes of the API or of the worker

\* The name of an upload is a uuid4, of which there are finitely many.
ASSUME StorageAssumption ==
    /\ IsFiniteSet(Files)
    /\ Quota \in Nat /\ MaxUpload \in Nat /\ MaxCrashes \in Nat
    /\ None \notin Files \cup Jobs
    /\ Worker \notin Clients

VARIABLES
    disk,      \* disk[f]: what there is of f
    size,      \* size[f]: its chunks
    room,      \* room[f]: free_bytes as the upload of f saw them
    old,       \* files that were last written a TTL ago
    cache,     \* files that have an analysis in .analysis
    folder,    \* .analysis exists
    row,       \* row[j]: input_url of job j, None without one or without the job
    at,        \* at[p]: where a request or the worker is, and its file and job
    crashes,
    crowd,     \* history: files whose upload overlapped another one
    swept,     \* history: files the cleanup has removed
    late,      \* history: jobs created by a request the cleanup overtook
    astray     \* history: files whose removal met their analysis, or a crash

filesVars == <<disk, size, room, old>>
history   == <<crowd, swept, late, astray>>
vars      == <<filesVars, cache, folder, row, at, crashes, history>>

Procs == Clients \cup {Worker}

\* "open" is an upload in progress, "left" one that died with the API.
OnDisk(f) == disk[f] \in {"open", "stored", "left"}

Where == [pc : {"idle", "lock",                           \* create_job
                "cache", "file", "folder", "commit",      \* delete_uploaded_media
                "analyse", "analysed",                    \* media_features
                "sweep", "sweepCache"},                   \* prune_orphan_files
          file : Files \cup {None}, job : Jobs \cup {None},
          todo : SUBSET Files, overtaken : BOOLEAN]

Idle == [pc |-> "idle", file |-> None, job |-> None, todo |-> {},
         overtaken |-> FALSE]

Init ==
    /\ disk = [f \in Files |-> "none"]
    /\ size = [f \in Files |-> 0]
    /\ room = [f \in Files |-> 0]
    /\ old = {} /\ cache = {} /\ folder = FALSE
    /\ row = [j \in Jobs |-> None]
    /\ at = [p \in Procs |-> Idle]
    /\ crashes = 0
    /\ crowd = {} /\ swept = {} /\ late = {} /\ astray = {}

-----------------------------------------------------------------------------
\* The chunks of the files of s
Chunks(s) == {c \in s \X (1 .. MaxUpload) : c[2] <= size[c[1]]}

\* used_bytes of _storage_snapshot
Used == Cardinality(Chunks({f \in Files : OnDisk(f)}))

Opened == {f \in Files : disk[f] = "open"}

\* upload, up to the first read: the quota is looked at once.
BeginUpload(f) ==
    /\ disk[f] = "none"
    /\ Used < Quota
    /\ room' = [room EXCEPT ![f] = Quota - Used]
    /\ disk' = [disk EXCEPT ![f] = "open"]
    /\ crowd' = IF Opened = {} THEN crowd ELSE crowd \cup Opened \cup {f}
    /\ UNCHANGED <<size, old, cache, folder, row, at, crashes, swept, late, astray>>

\* Mutant of Fits: the sum is compared before the chunk is added.
FitsBefore(f, n) == n <= MaxUpload /\ n - 1 <= room[f]

\* Neither of the two limits of the loop is passed by n chunks.
Fits(f, n) == n <= MaxUpload /\ n <= room[f]

WriteChunk(f) ==
    /\ disk[f] = "open"
    /\ Fits(f, size[f] + 1)
    /\ size' = [size EXCEPT ![f] = @ + 1]
    /\ UNCHANGED <<disk, room, old, cache, folder, row, at, crashes, history>>

\* unlink; a file that has an id never comes back.
Gone(f) ==
    /\ disk' = [disk EXCEPT ![f] = IF OnDisk(f) THEN "gone" ELSE @]
    /\ size' = [size EXCEPT ![f] = 0]
    /\ room' = [room EXCEPT ![f] = 0]
    /\ old' = old \ {f}
    /\ crowd' = crowd \ {f}

\* 413, 415 or 507, whatever was written.
RefuseUpload(f) ==
    /\ disk[f] = "open"
    /\ Gone(f)
    /\ UNCHANGED <<cache, folder, row, at, crashes, swept, late, astray>>

\* The probe recognises the content; the client gets the upload_id.
AcceptUpload(f) ==
    /\ disk[f] = "open" /\ size[f] > 0
    /\ disk' = [disk EXCEPT ![f] = "stored"]
    /\ room' = [room EXCEPT ![f] = 0]
    /\ UNCHANGED <<size, old, cache, folder, row, at, crashes, history>>

\* TEMP_FILE_TTL_HOURS pass; an upload in progress keeps its mtime fresh.
GrowOld(f) ==
    /\ disk[f] \in {"stored", "left"} /\ f \notin old
    /\ old' = old \cup {f}
    /\ UNCHANGED <<disk, size, room, cache, folder, row, at, crashes, history>>

-----------------------------------------------------------------------------
Move(p, pc) == at' = [at EXCEPT ![p].pc = pc]

\* A row that a handler holds is not given to another job.
Spare(j) == row[j] = None /\ \A p \in Procs : at[p].job # j

\* create_job: the upload it names is there (resolve_upload_id) ...
ResolveUpload(c, f) ==
    /\ at[c].pc = "idle"
    /\ disk[f] = "stored"
    /\ at' = [at EXCEPT ![c] = [Idle EXCEPT !.pc = "lock", !.file = f,
                  !.overtaken = at[Worker].pc \in {"sweep", "sweepCache"}]]
    /\ UNCHANGED <<filesVars, cache, folder, row, crashes, history>>

\* ... and is not looked at again before the row is committed.
CommitJob(c, j) ==
    /\ at[c].pc = "lock"
    /\ Spare(j)
    /\ row' = [row EXCEPT ![j] = at[c].file]
    /\ late' = IF at[c].overtaken THEN late \cup {j} ELSE late \ {j}
    /\ at' = [at EXCEPT ![c] = Idle]
    /\ UNCHANGED <<filesVars, cache, folder, crashes, crowd, swept, astray>>

\* The file of delete_uploaded_media exists (_safe_local_path), or the call is
\* over.
Deleting(p, f, j) ==
    at' = [at EXCEPT ![p] =
             [Idle EXCEPT !.pc = IF f # None /\ OnDisk(f) THEN "cache"
                                 ELSE IF j # None THEN "commit" ELSE "idle",
                          !.file = f, !.job = j]]

\* 429 of _lock_capacity
RefuseJob(c) ==
    /\ at[c].pc = "lock"
    /\ Deleting(c, at[c].file, None)
    /\ UNCHANGED <<filesVars, cache, folder, row, crashes, history>>

\* cancel_job, delete_job and delete_cloud_media
BeginEnd(c, j) ==
    /\ at[c].pc = "idle" /\ row[j] # None
    /\ Deleting(c, row[j], j)
    /\ UNCHANGED <<filesVars, cache, folder, row, crashes, history>>

\* The worker is at work on f, and will write what it finds if the folder is
\* still there.
Analysing(f) == at[Worker].pc = "analyse" /\ at[Worker].file = f

\* Mutant of DropCache: the analysis is left to the cleanup.
DropCacheLater(p) ==
    /\ at[p].pc = "cache"
    /\ Move(p, "file")
    /\ UNCHANGED <<filesVars, cache, folder, row, crashes, history>>

\* _analysis_cache_path makes the folder, then the unlink of the analysis
DropCache(p) ==
    /\ at[p].pc = "cache"
    /\ folder' = TRUE
    /\ cache' = cache \ {at[p].file}
    /\ astray' = IF Analysing(at[p].file) THEN astray \cup {at[p].file} ELSE astray
    /\ Move(p, "file")
    /\ UNCHANGED <<filesVars, row, crashes, crowd, swept, late>>

DropFile(p) ==
    /\ at[p].pc = "file"
    /\ Gone(at[p].file)
    /\ Move(p, "folder")
    /\ UNCHANGED <<cache, folder, row, crashes, swept, late, astray>>

\* Mutant of RemoveFolder: the folder goes with what is in it.
RemoveFolderTree == folder' = FALSE

\* rmdir, which a folder with another analysis survives
RemoveFolder == folder' = (cache # {})

DropFolder(p) ==
    /\ at[p].pc = "folder"
    /\ RemoveFolder
    /\ IF at[p].job = None THEN at' = [at EXCEPT ![p] = Idle] ELSE Move(p, "commit")
    /\ UNCHANGED <<filesVars, cache, row, crashes, history>>

CommitEnd(p) ==
    /\ at[p].pc = "commit"
    /\ row' = [row EXCEPT ![at[p].job] = None]
    /\ at' = [at EXCEPT ![p] = Idle]
    /\ UNCHANGED <<filesVars, cache, folder, crashes, history>>

Drop(p) == DropCache(p) \/ DropFile(p) \/ DropFolder(p) \/ CommitEnd(p)

-----------------------------------------------------------------------------
\* media_features: with an analysis at hand there is nothing to do.
Analyse(j) ==
    /\ at[Worker].pc = "idle"
    /\ row[j] # None /\ OnDisk(row[j])
    /\ folder' = TRUE
    /\ at' = [at EXCEPT ![Worker] =
                [Idle EXCEPT !.pc = IF row[j] \in cache THEN "analysed" ELSE "analyse",
                             !.file = row[j], !.job = j]]
    /\ astray' = astray \cup {f \in {row[j]} : \E c \in Clients :
                                at[c].pc = "file" /\ at[c].file = f}
    /\ UNCHANGED <<filesVars, cache, row, crashes, crowd, swept, late>>

\* The end of it: nothing is written if Vision has said nothing, or the folder
\* is gone; whether the file is, nobody asks.
KeepAnalysis(found) ==
    /\ at[Worker].pc = "analyse"
    /\ cache' = IF found /\ folder THEN cache \cup {at[Worker].file} ELSE cache
    /\ Move(Worker, "analysed")
    /\ UNCHANGED <<filesVars, folder, row, crashes, history>>

\* The round ends with the job (finish_job) ...
FinishRound ==
    /\ at[Worker].pc = "analysed"
    /\ LET j == at[Worker].job
       IN  IF row[j] = None THEN at' = [at EXCEPT ![Worker] = Idle]
                            ELSE Deleting(Worker, row[j], j)
    /\ UNCHANGED <<filesVars, cache, folder, row, crashes, history>>

\* ... or it will be continued.
Pause ==
    /\ at[Worker].pc = "analysed"
    /\ at' = [at EXCEPT ![Worker] = Idle]
    /\ UNCHANGED <<filesVars, cache, folder, row, crashes, history>>

-----------------------------------------------------------------------------
\* Mutant of Orphans: what the paths of the rows refer to is not asked.
OrphansByAge == {f \in Files : OnDisk(f) /\ f \in old}

\* Mutant of Orphans: only what an upload has completed counts as one.
OrphansStored ==
    {f \in Files : disk[f] = "stored" /\ f \in old /\ \A j \in Jobs : row[j] # f}

Orphans ==
    {f \in Files : OnDisk(f) /\ f \in old /\ \A j \in Jobs : row[j] # f}

\* cleanup_orphan_uploads reads the paths in the rows, and the time.
Scan ==
    /\ at[Worker].pc = "idle"
    /\ at' = [p \in Procs |->
                IF p = Worker THEN [Idle EXCEPT !.pc = "sweep", !.todo = Orphans]
                ELSE IF at[p].pc = "lock" THEN [at[p] EXCEPT !.overtaken = TRUE]
                ELSE at[p]]
    /\ UNCHANGED <<filesVars, cache, folder, row, crashes, history>>

\* prune_orphan_files, one file ...
SweepFile(f) ==
    /\ at[Worker].pc = "sweep" /\ f \in at[Worker].todo
    /\ IF OnDisk(f)
       THEN /\ Gone(f)
            /\ swept' = swept \cup {f}
            /\ at' = [at EXCEPT ![Worker].pc = "sweepCache", ![Worker].file = f]
       ELSE /\ at' = [at EXCEPT ![Worker].todo = @ \ {f}]
            /\ UNCHANGED <<filesVars, crowd, swept>>
    /\ UNCHANGED <<cache, folder, row, crashes, late, astray>>

\* ... its analysis ...
SweepCache ==
    /\ at[Worker].pc = "sweepCache"
    /\ cache' = cache \ {at[Worker].file}
    /\ at' = [at EXCEPT ![Worker].pc = "sweep", ![Worker].file = None,
                        ![Worker].todo = @ \ {at[Worker].file}]
    /\ UNCHANGED <<filesVars, folder, row, crashes, history>>

\* ... and the folder at last.
EndSweep ==
    /\ at[Worker].pc = "sweep" /\ at[Worker].todo = {}
    /\ folder' = (folder /\ cache # {})
    /\ at' = [at EXCEPT ![Worker] = Idle]
    /\ UNCHANGED <<filesVars, cache, row, crashes, history>>

-----------------------------------------------------------------------------
\* What a removal has begun and a crash cuts short
HalfGone(p) == IF at[p].pc \in {"file", "folder", "sweepCache"} THEN {at[p].file}
               ELSE {}

ApiCrash ==
    /\ crashes < MaxCrashes
    /\ crashes' = crashes + 1
    /\ disk' = [f \in Files |-> IF disk[f] = "open" THEN "left" ELSE disk[f]]
    /\ astray' = astray \cup UNION {HalfGone(c) : c \in Clients}
    /\ room' = [f \in Files |-> 0]
    /\ at' = [p \in Procs |-> IF p = Worker THEN at[p] ELSE Idle]
    /\ UNCHANGED <<size, old, cache, folder, row, crowd, swept, late>>

WorkerCrash ==
    /\ crashes < MaxCrashes
    /\ crashes' = crashes + 1
    /\ astray' = astray \cup HalfGone(Worker)
    /\ at' = [at EXCEPT ![Worker] = Idle]
    /\ UNCHANGED <<filesVars, cache, folder, row, crowd, swept, late>>

UploadNext(f) == BeginUpload(f) \/ WriteChunk(f) \/ RefuseUpload(f) \/ AcceptUpload(f)

ClientNext(c) ==
    \/ \E f \in Files : ResolveUpload(c, f)
    \/ \E j \in Jobs : CommitJob(c, j) \/ BeginEnd(c, j)
    \/ RefuseJob(c)
    \/ Drop(c)

RoundNext ==
    \/ \E j \in Jobs : Analyse(j)
    \/ \E found \in BOOLEAN : KeepAnalysis(found)
    \/ FinishRound \/ Pause
    \/ Drop(Worker)

SweepNext == (\E f \in Files : SweepFile(f)) \/ SweepCache \/ EndSweep

Next ==
    \/ \E f \in Files : UploadNext(f) \/ GrowOld(f)
    \/ \E c \in Clients : ClientNext(c)
    \/ RoundNext \/ Scan \/ SweepNext
    \/ ApiCrash \/ WorkerCrash

Spec == Init /\ [][Next]_vars

\* What a handler does on its own once it has begun
Handler(c) == (\E j \in Jobs : CommitJob(c, j)) \/ RefuseJob(c) \/ Drop(c)

\* A request runs to its end and an upload to its answer; the worker gets on
\* with its round or its cleanup, and begins a cleanup every quarter of an hour
\* between two rounds, however many rounds there are.
FairSpec ==
    /\ Spec
    /\ \A f \in Files : WF_vars(RefuseUpload(f) \/ AcceptUpload(f)) /\ WF_vars(GrowOld(f))
    /\ \A c \in Clients : WF_vars(Handler(c))
    /\ WF_vars(SweepNext)
    /\ WF_vars(at[Worker].pc # "idle" /\ RoundNext)
    /\ SF_vars(Scan)

-----------------------------------------------------------------------------
\* An analysis is in the folder, which therefore exists.
TypeOK ==
    /\ disk \in [Files -> {"none", "open", "stored", "left", "gone"}]
    /\ size \in [Files -> 0 .. MaxUpload]
    /\ room \in [Files -> 0 .. Quota]
    /\ old \subseteq Files /\ cache \subseteq Files
    /\ folder \in BOOLEAN /\ (cache # {} => folder)
    /\ row \in [Jobs -> Files \cup {None}]
    /\ at \in [Procs -> Where]
    /\ crashes \in 0 .. MaxCrashes
    /\ crowd \subseteq Files /\ swept \subseteq Files
    /\ late \subseteq Jobs /\ astray \subseteq Files

\* docs/FREE_TIER_BUDGET.md:35 as far as a snapshot reaches: what an account has
\* stored beyond its quota are uploads that overlapped another one.
QuotaHeld ==
    Used <= Quota + Cardinality(Chunks({f \in crowd : OnDisk(f)}))

\* maintenance.py:17: of the jobs that refer to a file the cleanup has removed,
\* each was created by a request that was under way when the cleanup read the
\* rows or swept; no job that it could see has lost its upload to it.
CleanupSparesJobs ==
    \A j \in Jobs : row[j] \in swept => j \in late

\* docs/FREE_TIER_BUDGET.md:29: what the worker has found out about an upload
\* goes with the upload, unless it was finding it out just then or a crash cut
\* the removal short.
AnalysisGoesWithUpload ==
    \A f \in cache :
      OnDisk(f) \/ f \in astray \/ (at[Worker].pc = "sweepCache" /\ at[Worker].file = f)

\* README.md:69: an upload that has no job, whether it was abandoned before
\* create_job or half-way through, is gone some day if no job takes it up.
Orphan(f) == disk[f] \in {"stored", "left"} /\ \A j \in Jobs : row[j] # f

OrphansGo == \A f \in Files : Orphan(f) ~> ~Orphan(f)

-----------------------------------------------------------------------------
\* docs/FREE_TIER_BUDGET.md:29, as it stands: an analysis is kept while it is
\* needed.  Once the upload is gone nobody needs it.
AnalysisIsTemporary == <>[](\A f \in cache : OnDisk(f))
=============================================================================
