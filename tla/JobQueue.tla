------------------------------ MODULE JobQueue ------------------------------
(***************************************************************************)
(* The queue of HAI_SERCH: the API process and the worker process over the *)
(* rows and the files they share, and what the queue promises.             *)
(***************************************************************************)
EXTENDS JobApi, JobWorker

VARIABLE putBack   \* history: since the worker's snapshot, a request has put the
                   \* job it chose behind the others

vars == <<storeVars, apiVars, workerVars, putBack>>

Init == StoreInit /\ ApiInit /\ WorkerInit /\ putBack = FALSE

\* The rows a request may be committing, as far as skip_locked can see.
InFlight == {j \in Jobs : \E c \in Clients : call[c] # None /\ call[c].job = j}

\* The worker sees the order of its snapshot only.
ApiMeanwhile ==
    /\ UNCHANGED workerVars
    /\ putBack' = (pc = "claim" /\ (putBack \/ ~(ahead'[job] \subseteq ahead[job])))

ApiStep       == ApiNext /\ ApiMeanwhile
HandleStep(c) == Handle(c) /\ ApiMeanwhile
WorkStep      == (WorkerStep \/ ClaimSkipsLocked(InFlight)) /\ UNCHANGED apiVars /\ putBack' = FALSE
FaultStep     == WorkerFault /\ UNCHANGED apiVars /\ putBack' = FALSE
TimerStep(j)  == BackoffExpires(j) /\ UNCHANGED <<apiVars, putBack>>

Next ==
    \/ ApiStep
    \/ WorkStep
    \/ FaultStep
    \/ \E j \in Jobs : TimerStep(j)

Spec == Init /\ [][Next]_vars

\* The worker thread keeps going and Docker restarts it; a request that has
\* been accepted is served or fails; time passes.
Fairness ==
    /\ WF_vars(WorkStep)
    /\ \A c \in Clients : WF_vars(HandleStep(c))
    /\ \A j \in Jobs : WF_vars(TimerStep(j))

FairSpec == Spec /\ Fairness

-----------------------------------------------------------------------------
TypeOK == StoreTypeOK /\ ApiTypeOK /\ WorkerTypeOK /\ putBack \in BOOLEAN

Running(j) == rows[j] # None /\ rows[j].status = "running"

\* README.md:74 and recover_interrupted_jobs: a job is shown as running only
\* while the worker is in a round on it, or between the death of that worker
\* and the recovery of its successor, and there is at most one such job.  A
\* start-up that fails to recover is the exception runtime.main accepts.
RunningIsOwned ==
    skips = 0 =>
      /\ \A j \in Jobs : Running(j) =>
           \/ pc \in InRound /\ j = job
           \/ pc \in {"down", "boot", "recover"}
      /\ \A j, k \in Jobs : Running(j) /\ Running(k) => j = k

\* README.md:63 and docs/ARCHITECTURE.md:39: in whatever order the requests and
\* the worker commit, the row of a completed, partial, failed or cancelled job
\* does not refer to its upload any more.
PurgedWhenFinal ==
    \A j \in Jobs :
      rows[j] # None /\ rows[j].status \in PurgeMediaStates \cup {"cancelled"}
        => rows[j].media = None

\* The same for the disk: once no row, or a row without a path, is left of a
\* job, its upload is gone, wherever a handler or the worker died (the unlink
\* of purge_job_media, cancel_job and delete_job precedes the commit; that the
\* file system refuses an unlink is not modelled).
FileGoesFirst ==
    \A j \in born :
      source[j] # None /\ (rows[j] = None \/ rows[j].media = None)
        => source[j] \notin files

\* The rows and the disk as the user sees them.
UploadSeen == [f \in Files |-> IF uploader[f] = None THEN "none"
                               ELSE IF f \in files THEN "stored" ELSE "gone"]

HoldSeen == [j \in Jobs |-> IF rows[j] = None THEN None ELSE rows[j].media]

Custody == INSTANCE UploadCustody
             WITH upload <- UploadSeen, created <- born, holds <- HoldSeen

\* README.md:59-69: whatever the requests and the worker do to one another, a
\* job gets its upload once, gives it up only when it is off the disk, and
\* neither the file nor the reference ever comes back.
KeepsCustody == Custody!Spec

\* docs/ARCHITECTURE.md:56, as far as the lock of _lock_capacity reaches: but
\* for jobs that a stale write outside the lock made active again, an account
\* never has more than MaxActive active jobs.
CapacityHeldByLock ==
    \A a \in Accounts :
      Cardinality({j \in Jobs : /\ Active(rows[j]) /\ rows[j].acct = a
                                /\ j \notin revived}) <= MaxActive

\* docs/ARCHITECTURE.md:44, FIFO inside an account although claim_next_job
\* decides on a snapshot: when a job starts, every unfinished older job of its
\* account is one that a stale write has brought back, unless the job has lost
\* its place since the snapshot to a second /continue or clue.
FifoClaims ==
    [][\A j \in Jobs :
         rows[j] # None /\ rows[j].status # "running" /\ Running(j)' /\ ~putBack =>
           \A k \in ahead[j] :
             Active(rows[k]) /\ rows[k].acct = rows[j].acct => k \in revived]_vars

-----------------------------------------------------------------------------
(* The strengthenings that make these invariants inductive. *)

\* process_one has a loaded row of its job wherever it uses one.
RoundHasJob ==
    pc \in InRound \cup {"claim"} => job \in Jobs /\ session[job] # None

\* Outside a round, recovery apart, no row is running; in a round the worker's
\* copy says so if the row does; and recovery has found what is left.
RunningInv ==
    skips = 0 =>
      /\ \A j \in Jobs : Running(j) =>
           \/ pc \in InRound /\ j = job
           \/ pc \in {"down", "boot", "recover"}
      /\ \A j, k \in Jobs : Running(j) /\ Running(k) => j = k
      /\ pc \in InRound \ {"refresh"} =>
           (Running(job) => mine.status = "running")
      /\ pc = "commit" => verdict # "running"
      /\ pc = "recover" =>
           /\ \A j \in Jobs : Running(j) => session[j] # None
           /\ \A j \in Jobs : session[j] # None => session[j].status = "running"
           /\ \A j, k \in Jobs : session[j] # None /\ session[k] # None => j = k

\* An identifier names one job, ever.
IdsAreFresh ==
    /\ \A j \in Jobs : rows[j] # None \/ session[j] # None => j \in born
    /\ \A c \in Clients : call[c] # None =>
         (call[c].op = "create" <=> call[c].job \notin born)
    /\ \A c, d \in Clients :
         call[c] # None /\ call[d] # None /\ call[c].op = "create" =>
           (call[d].job = call[c].job => c = d)

\* A file that is gone cannot come back: what refers to it was uploaded.
UploadsAreOnce ==
    /\ \A f \in files : uploader[f] # None
    /\ \A j \in born : source[j] # None => uploader[source[j]] # None
    /\ \A c \in Clients :
         call[c] # None /\ call[c].op = "create" /\ call[c].snap.media # None
           => uploader[call[c].snap.media] # None

\* A copy of row j is no further than the row: it refers to the upload the job
\* was created with or to none, and then the row refers to none either.
NotAhead(copy, j) ==
    /\ copy.media \in {None, source[j]}
    /\ rows[j] # None /\ copy.media = None => rows[j].media = None

CopiesLagBehind ==
    /\ \A j \in Jobs : rows[j] # None => NotAhead(rows[j], j)
    /\ \A j \in Jobs : session[j] # None => NotAhead(session[j], j)
    /\ \A c \in Clients : call[c] # None /\ call[c].op # "create" =>
         NotAhead(call[c].snap, call[c].job)

\* finish_job unlinks before it commits.
UnlinkedBeforeCommit ==
    pc = "commit" /\ verdict \in PurgeMediaStates \cup {"cancelled"}
      => mine.media \notin files

MediaInv ==
    /\ IdsAreFresh
    /\ UploadsAreOnce
    /\ CopiesLagBehind
    /\ UnlinkedBeforeCommit
    /\ PurgedWhenFinal
    /\ FileGoesFirst

-----------------------------------------------------------------------------
Waiting(j) == rows[j] # None /\ rows[j].status \in {"queued", "running"}

\* The jobs that can hold j up: those before it in its account, and itself.
AtOrAhead(j) == {k \in ahead[j] \cup {j} :
                   Active(rows[k]) /\ rows[k].acct = rows[j].acct}

\* README.md:75-77: once the users leave the queue alone every job in it ends,
\* but for those behind a stopped job of their own account: no job waits for
\* ever because of another account, a crash of the worker or a lost row.
QueueDrains ==
    <>[](\A j \in Jobs : Waiting(j) =>
           \E k \in AtOrAhead(j) : rows[k].stop \/ rows[k].status = "stopped")

-----------------------------------------------------------------------------
(* What the documents and comments say and the code does not do. *)

\* queue.py:68-69: claim_next_job revalidates after the lock, so it never
\* starts a job that has been stopped or cancelled since the snapshot.
ClaimRevalidates ==
    [][\A j \in Jobs :
         rows[j] # None /\ rows[j].status # "running" /\ Running(j)'
           => Runnable(rows[j])]_vars

\* README.md:84: each linked device may add a clue to the job; none is lost.
CluesAccumulate ==
    [][\A j \in Jobs :
         rows[j] # None /\ rows'[j] # None => rows[j].ctx \subseteq rows'[j].ctx]_vars

\* README.md:75-76: the queue goes on by itself; what holds it up is a job that
\* is paused, and that the user can therefore resume or cancel.
HeldOnlyByPause ==
    <>[](\A j \in Jobs : Waiting(j) =>
           \E k \in AtOrAhead(j) : rows[k].status = "stopped")
=============================================================================
