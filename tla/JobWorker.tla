----------------------------- MODULE JobWorker ------------------------------
(***************************************************************************)
(* The worker process (backend/app/runtime.py, queue.py, worker.py): one   *)
(* thread that recovers interrupted jobs once at its start and then, for   *)
(* ever, claims a job, runs one round of research on it and commits what   *)
(* becomes of it.  Docker restarts the process when it dies.               *)
(*                                                                         *)
(* Each step is one database transaction or one of the long computations   *)
(* between them, during which the API may commit anything.  "session" is   *)
(* the identity map of the SQLAlchemy session: the row each loaded object  *)
(* had when it was last loaded or committed.                               *)
(*                                                                         *)
(* What the models and the web answer is a free choice; notifications are  *)
(* off (settings.notifications_enabled, FALSE by default).                 *)
(***************************************************************************)
EXTENDS JobStore

CONSTANTS
    VisionEnabled,   \* settings.vision_enabled
    MaxCrashes,      \* bound: times the worker process is killed
    MaxSkips         \* bound: start-ups whose recovery fails and is skipped

ASSUME WorkerAssumption ==
    /\ VisionEnabled \in BOOLEAN
    /\ MaxCrashes \in Nat
    /\ MaxSkips \in Nat

VARIABLES
    pc,        \* where the worker is
    job,       \* the job of the round, None outside one
    session,   \* session[j]: the row of j as the worker's session has it
    vision,    \* the media analysis of this round produced a description
    roundCtx,  \* the clues this round's research used
    verdict,   \* the status the round is about to commit
    rescuing,  \* in the except block of process_one
    crashes, skips

workerVars == <<pc, job, session, vision, roundCtx, verdict, rescuing,
                crashes, skips>>
roundVars  == <<vision, roundCtx, verdict, rescuing>>
counters   == <<crashes, skips>>

\* Places of process_one after the claim, where a round is under way.
InRound == {"refresh", "start", "analysed", "checked", "research", "outcome",
            "commit", "save", "requeue", "rescue", "rescued"}

Places == InRound \cup {"down", "boot", "recover", "idle", "claim"}

NoRows == [j \in Jobs |-> None]

\* The session after it has loaded job j and nothing else.
Loaded(j) == [k \in Jobs |-> IF k = j THEN rows[j] ELSE None]

mine == session[job]

\* The end of the round, or of the process: the session is closed.
Leave(place) ==
    /\ pc' = place
    /\ job' = None
    /\ session' = NoRows
    /\ vision' = FALSE
    /\ roundCtx' = {}
    /\ verdict' = "queued"
    /\ rescuing' = FALSE

GoTo(place) == pc' = place /\ UNCHANGED <<job, session, roundVars>>

-----------------------------------------------------------------------------
\* Mutant of RecoverRead: jobs with a pending stop are not recovered.
RecoverReadUnstopped ==
    /\ pc = "boot"
    /\ session' = [j \in Jobs |-> IF /\ rows[j] # None /\ rows[j].status = "running"
                                     /\ ~rows[j].stop
                                  THEN rows[j] ELSE None]
    /\ pc' = "recover"
    /\ UNCHANGED <<storeVars, job, roundVars, counters>>

\* recover_interrupted_jobs: the SELECT of the running rows ...
RecoverRead ==
    /\ pc = "boot"
    /\ session' = [j \in Jobs |-> IF rows[j] # None /\ rows[j].status = "running"
                                  THEN rows[j] ELSE None]
    /\ pc' = "recover"
    /\ UNCHANGED <<storeVars, job, roundVars, counters>>

\* ... and the commit.  It is one transaction: a row deleted meanwhile makes
\* all of it fail, which runtime.main swallows.
Recover ==
    /\ pc = "recover"
    /\ IF \E j \in Jobs : session[j] # None /\ rows[j] = None
       THEN UNCHANGED <<rows, revived>>
       ELSE UnlockedWrite([j \in Jobs |->
              IF session[j] = None THEN rows[j]
              ELSE [Flush(rows[j], session[j],
                          [session[j] EXCEPT !.status = "queued", !.stop = FALSE])
                    EXCEPT !.due = TRUE]])
    /\ Leave("idle")
    /\ UNCHANGED <<ahead, born, source, uploader, files, counters>>

\* The database is not reachable at start-up: runtime.main goes on without.
RecoverySkipped ==
    /\ pc \in {"boot", "recover"}
    /\ skips < MaxSkips
    /\ skips' = skips + 1
    /\ Leave("idle")
    /\ UNCHANGED <<storeVars, crashes>>

-----------------------------------------------------------------------------
\* claim_next_job: the snapshot of the active rows and the choice of a head.
Select ==
    /\ pc = "idle"
    /\ \E j \in Jobs :
         /\ IsCandidate(j)
         /\ job' = j
         /\ session' = Loaded(j)
    /\ pc' = "claim"
    /\ UNCHANGED <<storeVars, roundVars, counters>>

\* SELECT ... FOR UPDATE and the commit.  The object is in the identity map
\* already, so the locking SELECT does not refresh it: _head_is_runnable sees
\* the snapshot again.  No row: the job has been deleted.
Claim ==
    /\ pc = "claim"
    /\ IF rows[job] # None /\ Runnable(mine)
       THEN /\ UnlockedWrite(Saved(job, mine, [mine EXCEPT !.status = "running",
                                                           !.attempts = @ + 1]))
            /\ GoTo("refresh")
       ELSE UNCHANGED <<rows, revived>> /\ Leave("idle")
    /\ UNCHANGED <<ahead, born, source, uploader, files, counters>>

\* skip_locked: the row is locked by a request that is committing.
ClaimSkipsLocked(busy) ==
    /\ pc = "claim"
    /\ job \in busy
    /\ Leave("idle")
    /\ UNCHANGED <<storeVars, counters>>

\* db.refresh after the claim, outside process_one's try: a row deleted in
\* between raises and ends the process.
Refresh ==
    /\ pc = "refresh"
    /\ IF rows[job] = None
       THEN Leave("down")
       ELSE /\ session' = Loaded(job)
            /\ pc' = "start"
            /\ UNCHANGED <<job, roundVars>>
    /\ UNCHANGED <<storeVars, counters>>

-----------------------------------------------------------------------------
\* Mutant of Conclude: the upload of a partial job is not unlinked.
ConcludeKeepsFile(status) ==
    /\ verdict' = status
    /\ files' = IF status \in {"completed", "failed"} THEN files \ {mine.media} ELSE files
    /\ pc' = "commit"
    /\ UNCHANGED <<rows, ahead, born, source, uploader, revived,
                   job, session, vision, roundCtx, rescuing, counters>>

\* finish_job(status), or the purge of a cancelled job: the file goes first.
Conclude(status) ==
    /\ verdict' = status
    /\ files' = IF status \in PurgeMediaStates \cup {"cancelled"}
                THEN files \ {mine.media} ELSE files
    /\ pc' = "commit"
    /\ UNCHANGED <<rows, ahead, born, source, uploader, revived,
                   job, session, vision, roundCtx, rescuing, counters>>

\* Stop and cancel as the worker sees them in its copy of the row.
Unstopped == mine.status # "cancelled" /\ ~mine.stop

Cancelled(place) ==
    /\ pc = place /\ mine.status = "cancelled"
    /\ Conclude("cancelled")

Stopped(place) ==
    /\ pc = place /\ mine.status # "cancelled" /\ mine.stop
    /\ Conclude("stopped")

\* The first check, right after the claim, only knows stop_requested.
StopAtStart ==
    /\ pc = "start" /\ mine.stop
    /\ Conclude("stopped")

\* media_features: empty without the file.
Analyse ==
    /\ pc = "start" /\ ~mine.stop
    /\ vision' \in (IF VisionEnabled /\ mine.media \in files THEN BOOLEAN ELSE {FALSE})
    /\ pc' = "analysed"
    /\ UNCHANGED <<storeVars, job, session, roundCtx, verdict, rescuing, counters>>

\* _reload_job: a fresh copy, or the end of the round if the row is gone.
Reload(from, to) ==
    /\ pc = from
    /\ IF rows[job] = None
       THEN Leave("idle")
       ELSE /\ session' = Loaded(job)
            /\ pc' = to
            /\ UNCHANGED <<job, roundVars>>
    /\ UNCHANGED <<storeVars, counters>>

IsMedia == source[job] # None

NoVision ==
    /\ pc = "checked" /\ Unstopped
    /\ IsMedia /\ VisionEnabled /\ ~vision
    /\ IF mine.attempts >= MaxAttempts
       THEN Conclude("failed")
       ELSE GoTo("save") /\ UNCHANGED <<storeVars, counters>>

\* No text at all: only a media job without query, clues and description.
NoContext ==
    /\ pc = "checked" /\ Unstopped
    /\ IsMedia /\ ~VisionEnabled /\ mine.ctx = {}
    /\ Conclude("needs_context")

StartResearch ==
    /\ pc = "checked" /\ Unstopped
    /\ IsMedia /\ VisionEnabled => vision
    /\ roundCtx' = mine.ctx
    /\ pc' = "research"
    /\ UNCHANGED <<storeVars, job, session, vision, verdict, rescuing, counters>>

\* Mutant of ContextChanged: the row is rescheduled and stays running.
ContextChangedStaysRunning ==
    /\ pc = "outcome" /\ Unstopped
    /\ Revision(mine) # Cardinality(roundCtx)
    /\ IF rows[job] = None
       THEN /\ GoTo("rescue")
            /\ UNCHANGED <<rows, revived>>
       ELSE /\ UnlockedWrite(Rescheduled(job, mine, [mine EXCEPT !.stop = FALSE], TRUE))
            /\ Leave("idle")
    /\ UNCHANGED <<ahead, born, source, uploader, files, counters>>

\* _requeue_now: the context changed during the research.
ContextChanged ==
    /\ pc = "outcome" /\ Unstopped
    /\ Revision(mine) # Cardinality(roundCtx)
    /\ IF rows[job] = None
       THEN /\ GoTo("rescue")
            /\ UNCHANGED <<rows, revived>>
       ELSE /\ UnlockedWrite(Rescheduled(job, mine,
                   [mine EXCEPT !.status = "queued", !.stop = FALSE], TRUE))
            /\ Leave("idle")
    /\ UNCHANGED <<ahead, born, source, uploader, files, counters>>

\* The results are merged and ranked: enough of them, or the last round, or
\* one more round later.
Publish ==
    /\ pc = "outcome" /\ Unstopped
    /\ Revision(mine) = Cardinality(roundCtx)
    /\ \/ Conclude("completed")
       \/ mine.attempts >= MaxAttempts /\ Conclude("partial")
       \/ /\ mine.attempts < MaxAttempts
          /\ GoTo("save")
          /\ UNCHANGED <<storeVars, counters>>

-----------------------------------------------------------------------------
\* A commit of a row that is gone raises StaleDataError: inside the try it
\* leads to the except block, inside the except block it ends the process.
CommitRaises ==
    /\ pc \in {"commit", "save", "requeue"}
    /\ rows[job] = None
    /\ IF rescuing THEN Leave("down") ELSE GoTo("rescue")
    /\ UNCHANGED <<storeVars, counters>>

\* Mutant of Finish: the path of a failed job stays in the row.
FinishKeepsFailedPath ==
    /\ pc = "commit" /\ rows[job] # None
    /\ UnlockedWrite(Saved(job, mine,
           [mine EXCEPT !.status = verdict,
                        !.media = IF verdict \in {"completed", "partial", "cancelled"}
                                  THEN None ELSE @]))
    /\ Leave("idle")
    /\ UNCHANGED <<ahead, born, source, uploader, files, counters>>

\* The commit of finish_job or of the purge.
Finish ==
    /\ pc = "commit" /\ rows[job] # None
    /\ UnlockedWrite(Saved(job, mine,
           [mine EXCEPT !.status = verdict,
                        !.media = IF verdict \in PurgeMediaStates \cup {"cancelled"}
                                  THEN None ELSE @]))
    /\ Leave("idle")
    /\ UNCHANGED <<ahead, born, source, uploader, files, counters>>

\* The commit before requeue(): errors and results only, except in the except
\* block, where it already writes the status.
Save ==
    /\ pc = "save" /\ rows[job] # None
    /\ LET new == IF rescuing THEN [mine EXCEPT !.status = "queued"] ELSE mine
       IN  /\ UnlockedWrite(Saved(job, mine, new))
           /\ session' = [session EXCEPT ![job] = new]
    /\ pc' = "requeue"
    /\ UNCHANGED <<ahead, born, source, uploader, files, job, roundVars, counters>>

\* Mutant of Requeue: rescheduled, but still running.
RequeueStaysRunning ==
    /\ pc = "requeue" /\ rows[job] # None
    /\ UnlockedWrite(Rescheduled(job, mine, mine, FALSE))
    /\ Leave("idle")
    /\ UNCHANGED <<ahead, born, source, uploader, files, counters>>

\* requeue(): back in the queue, with a backoff.
Requeue ==
    /\ pc = "requeue" /\ rows[job] # None
    /\ UnlockedWrite(Rescheduled(job, mine, [mine EXCEPT !.status = "queued"], FALSE))
    /\ Leave("idle")
    /\ UNCHANGED <<ahead, born, source, uploader, files, counters>>

-----------------------------------------------------------------------------
\* The analysis, the planner or the research raises.
Raise ==
    /\ \/ pc = "start" /\ ~mine.stop
       \/ pc = "research"
    /\ GoTo("rescue")
    /\ UNCHANGED <<storeVars, counters>>

\* The except block: rollback and reload ...
Rescue ==
    /\ pc = "rescue"
    /\ IF rows[job] = None
       THEN Leave("idle")
       ELSE /\ session' = Loaded(job)
            /\ rescuing' = TRUE
            /\ pc' = "rescued"
            /\ UNCHANGED <<job, verdict, vision, roundCtx>>
    /\ UNCHANGED <<storeVars, counters>>

\* ... and what becomes of the job.
Rescued ==
    /\ pc = "rescued" /\ Unstopped
    /\ IF mine.attempts >= MaxAttempts
       THEN Conclude("failed")
       ELSE GoTo("save") /\ UNCHANGED <<storeVars, counters>>

-----------------------------------------------------------------------------
\* The process is killed: the transaction is lost, the file deletions are not.
Crash ==
    /\ pc # "down"
    /\ crashes < MaxCrashes
    /\ crashes' = crashes + 1
    /\ Leave("down")
    /\ UNCHANGED <<storeVars, skips>>

Restart ==
    /\ pc = "down"
    /\ GoTo("boot")
    /\ UNCHANGED <<storeVars, counters>>

\* next_run_at comes.
BackoffExpires(j) ==
    /\ rows[j] # None /\ ~rows[j].due
    /\ rows' = [rows EXCEPT ![j].due = TRUE]
    /\ UNCHANGED <<ahead, born, source, uploader, files, revived, workerVars>>

-----------------------------------------------------------------------------
WorkerStep ==
    \/ RecoverRead
    \/ Recover
    \/ Select
    \/ Claim
    \/ Refresh
    \/ StopAtStart
    \/ Analyse
    \/ Reload("analysed", "checked")
    \/ NoVision
    \/ NoContext
    \/ StartResearch
    \/ Reload("research", "outcome")
    \/ ContextChanged
    \/ Publish
    \/ \E place \in {"checked", "outcome", "rescued"} : Cancelled(place) \/ Stopped(place)
    \/ CommitRaises
    \/ Finish
    \/ Save
    \/ Requeue
    \/ Rescue
    \/ Rescued
    \/ Restart

WorkerFault == RecoverySkipped \/ Raise \/ Crash

WorkerTypeOK ==
    /\ pc \in Places
    /\ job \in Jobs \cup {None}
    /\ session \in [Jobs -> Row \cup {None}]
    /\ vision \in BOOLEAN
    /\ roundCtx \in SUBSET Nat
    /\ verdict \in Statuses
    /\ rescuing \in BOOLEAN
    /\ crashes \in Nat
    /\ skips \in Nat

WorkerInit ==
    /\ pc = "boot"
    /\ job = None
    /\ session = NoRows
    /\ vision = FALSE
    /\ roundCtx = {}
    /\ verdict = "queued"
    /\ rescuing = FALSE
    /\ crashes = 0
    /\ skips = 0

=============================================================================
