------------------------------- MODULE JobApi -------------------------------
(***************************************************************************)
(* The API process (backend/app/main.py and server.py): handlers that run  *)
(* in threads, one session each.  A handler is two or three steps: the     *)
(* SELECT of the job with the early returns it decides (Read...), for the  *)
(* three that admit a job into the queue the advisory lock and the count   *)
(* (LockCapacity, QueueFull), and the commit.  The answer, built from a    *)
(* refresh of the row, changes nothing and is left out; so is a request    *)
(* that an early return refuses.                                           *)
(***************************************************************************)
EXTENDS JobStore

CONSTANTS
    Clients,    \* requests the API may be serving at once
    MaxCalls    \* bound: requests about an existing job

ASSUME ApiAssumption == MaxCalls \in Nat

VARIABLES
    call,   \* call[c]: the request c is serving, None when it serves none
    calls   \* requests about an existing job so far

apiVars == <<call, calls>>

Ops == {"create", "stop", "resume", "continue", "cancel", "delete",
        "deleteMedia", "clue"}

\* snap is the row as SELECTed, for "create" the row to insert; nr names the
\* clue a request brings.
Call == [op : Ops, job : Jobs, snap : Row, locked : BOOLEAN, nr : Nat]

Serving(c, op) == call[c] # None /\ call[c].op = op

Return(c) == call' = [call EXCEPT ![c] = None]

\* _media_path(job) is not None
HasMedia(j) == source[j] # None => rows[j].media \in files

-----------------------------------------------------------------------------
\* upload_media: a new file in the account's directory, no row yet.
Upload(f, acct) ==
    /\ uploader[f] = None
    /\ uploader' = [uploader EXCEPT ![f] = acct]
    /\ files' = files \cup {f}
    /\ UNCHANGED <<rows, ahead, born, source, revived, apiVars>>

NewRow(acct, media) ==
    [acct |-> acct, media |-> media, status |-> "queued", stop |-> FALSE,
     due |-> TRUE, attempts |-> 0, ctx |-> {}]

\* create_job up to the capacity check: an upload it names must exist.  The
\* identifier is a fresh uuid4, so no two requests hold the same.
ReadCreate(c, j, acct, media) ==
    /\ call[c] = None
    /\ media # None => media \in files /\ uploader[media] = acct
    /\ j \notin born
    /\ \A d \in Clients : call[d] # None => call[d].job # j
    /\ call' = [call EXCEPT ![c] =
                  [op |-> "create", job |-> j, locked |-> FALSE, nr |-> 0,
                   snap |-> NewRow(acct, media)]]
    /\ UNCHANGED <<storeVars, calls>>

\* The SELECT every other handler starts with (_owned_job).
Read(c, op, j) ==
    /\ call[c] = None
    /\ calls < MaxCalls
    /\ rows[j] # None
    /\ call' = [call EXCEPT ![c] = [op |-> op, job |-> j, locked |-> FALSE,
                                    snap |-> rows[j],
                                    nr |-> IF op = "clue" THEN calls + 1 ELSE 0]]
    /\ calls' = calls + 1
    /\ UNCHANGED storeVars

ReadStop(c, j)   == Read(c, "stop", j) /\ rows[j].status \notin FinalStates
ReadResume(c, j) == Read(c, "resume", j) /\ rows[j].status = "stopped"
ReadCancel(c, j) == Read(c, "cancel", j)
ReadDelete(c, j) == Read(c, "delete", j) /\ rows[j].status # "running"

ReadContinue(c, j) ==
    /\ Read(c, "continue", j)
    /\ rows[j].status \in ContinuableStates
    /\ HasMedia(j)

ReadDeleteMedia(c, j) ==
    /\ Read(c, "deleteMedia", j)
    /\ rows[j].status \notin ActiveStates
    /\ rows[j].media # None

\* _ensure_clue_can_reopen
CanReopen(j) == rows[j].status \in ContinuableStates => HasMedia(j)

ReadClue(c, j) ==
    /\ Read(c, "clue", j)
    /\ rows[j].status # "cancelled"
    /\ CanReopen(j)

-----------------------------------------------------------------------------
\* The requests that bring a job into the queue and so take CREATE_LOCK_KEY.
Admits(c) ==
    \/ Serving(c, "create")
    \/ Serving(c, "continue")
    \/ Serving(c, "clue") /\ call[c].snap.status \in ContinuableStates

\* Mutant of LockFree: the count is not under CREATE_LOCK_KEY.
LockNotTaken == TRUE

LockFree == \A d \in Clients : call[d] # None => ~call[d].locked

\* _lock_capacity: the lock is held from the count to the commit.
LockCapacity(c) ==
    /\ Admits(c)
    /\ LockFree
    /\ ActiveCount(call[c].snap.acct) < MaxActive
    /\ call' = [call EXCEPT ![c].locked = TRUE]
    /\ UNCHANGED <<storeVars, calls>>

\* Its 429, which in create_job also deletes the upload.
QueueFull(c) ==
    /\ Admits(c)
    /\ LockFree
    /\ ActiveCount(call[c].snap.acct) >= MaxActive
    /\ files' = IF call[c].op = "create" THEN files \ {call[c].snap.media} ELSE files
    /\ Return(c)
    /\ UNCHANGED <<rows, ahead, born, source, uploader, revived, calls>>

Create(c) ==
    /\ Serving(c, "create") /\ call[c].locked
    /\ LET j == call[c].job
           new == NewRow(call[c].snap.acct, call[c].snap.media)
       IN  /\ LockedWrite([rows EXCEPT ![j] = new])
           /\ ahead' = MovedToBack(j)
           /\ born' = born \cup {j}
           /\ source' = [source EXCEPT ![j] = new.media]
    /\ Return(c)
    /\ UNCHANGED <<uploader, files, calls>>

-----------------------------------------------------------------------------
\* The commit of a request fails when its row has been deleted meanwhile
\* (StaleDataError, answered 500); a DELETE of no row does not.
CommitFails(c) ==
    /\ call[c] # None /\ call[c].op \notin {"create", "delete"}
    /\ rows[call[c].job] = None
    /\ files' = IF call[c].op \in {"cancel", "deleteMedia"}
                THEN files \ {call[c].snap.media} ELSE files
    /\ Return(c)
    /\ UNCHANGED <<rows, ahead, born, source, uploader, revived, calls>>

\* A commit of the request c about a row that is still there.
Commits(c, op) == Serving(c, op) /\ rows[call[c].job] # None /\ Return(c)

\* Mutant of Stop: a state the rest of the program does not know.
StopAsPaused(c) ==
    /\ Commits(c, "stop")
    /\ LET old == call[c].snap IN
         UnlockedWrite(Saved(call[c].job, old,
                             [old EXCEPT !.status = "paused", !.stop = TRUE]))
    /\ UNCHANGED <<ahead, born, source, uploader, files, calls>>

Stop(c) ==
    /\ Commits(c, "stop")
    /\ LET old == call[c].snap IN
         UnlockedWrite(Saved(call[c].job, old,
                             [old EXCEPT !.status = "stopped", !.stop = TRUE]))
    /\ UNCHANGED <<ahead, born, source, uploader, files, calls>>

Resume(c) ==
    /\ Commits(c, "resume")
    /\ LET old == call[c].snap IN
         UnlockedWrite(Rescheduled(call[c].job, old,
                             [old EXCEPT !.status = "queued", !.stop = FALSE], TRUE))
    /\ UNCHANGED <<ahead, born, source, uploader, files, calls>>

\* What /continue and a clue do to a finished job.
Reopened(old) ==
    [old EXCEPT !.status = "queued", !.stop = FALSE,
                !.attempts = IF @ >= MaxAttempts \/ @ < ContinueFloor
                             THEN ContinueFloor ELSE @]

Continue(c) ==
    /\ Commits(c, "continue") /\ call[c].locked
    /\ LET j == call[c].job
           old == call[c].snap
       IN  /\ LockedWrite(Rescheduled(j, old, Reopened(old), TRUE))
           /\ ahead' = MovedToBack(j)
    /\ UNCHANGED <<born, source, uploader, files, calls>>

\* Mutant of Cancel: the path stays in the row.
CancelKeepsPath(c) ==
    /\ Commits(c, "cancel")
    /\ LET old == call[c].snap IN
         /\ UnlockedWrite(Saved(call[c].job, old,
                [old EXCEPT !.status = "cancelled", !.stop = TRUE]))
         /\ files' = files \ {old.media}
    /\ UNCHANGED <<ahead, born, source, uploader, calls>>

\* The file is unlinked before the commit.
Cancel(c) ==
    /\ Commits(c, "cancel")
    /\ LET old == call[c].snap IN
         /\ UnlockedWrite(Saved(call[c].job, old,
                [old EXCEPT !.status = "cancelled", !.stop = TRUE, !.media = None]))
         /\ files' = files \ {old.media}
    /\ UNCHANGED <<ahead, born, source, uploader, calls>>

Delete(c) ==
    /\ Serving(c, "delete")
    /\ UnlockedWrite([rows EXCEPT ![call[c].job] = None])
    /\ ahead' = Unordered(call[c].job)
    /\ files' = files \ {call[c].snap.media}
    /\ Return(c)
    /\ UNCHANGED <<born, source, uploader, calls>>

DeleteMedia(c) ==
    /\ Commits(c, "deleteMedia")
    /\ LET old == call[c].snap IN
         /\ UnlockedWrite(Saved(call[c].job, old, [old EXCEPT !.media = None]))
         /\ files' = files \ {old.media}
    /\ UNCHANGED <<ahead, born, source, uploader, calls>>

WithClue(c, old) == [old EXCEPT !.ctx = @ \cup {call[c].nr}]

\* add_job_clue on a finished job: a new queue entry with the clue.
ClueReopens(c) ==
    /\ Commits(c, "clue") /\ call[c].locked
    /\ LET j == call[c].job
           old == call[c].snap
       IN  /\ LockedWrite(Rescheduled(j, old, WithClue(c, Reopened(old)), TRUE))
           /\ ahead' = MovedToBack(j)
    /\ UNCHANGED <<born, source, uploader, files, calls>>

\* add_job_clue on an unfinished job: due at once if it is queued.
Clue(c) ==
    /\ Commits(c, "clue")
    /\ LET j == call[c].job
           old == call[c].snap
       IN  /\ old.status \in ActiveStates
           /\ UnlockedWrite(Rescheduled(j, old, WithClue(c, old),
                                old.status = "queued" \/ rows[j].due))
    /\ UNCHANGED <<ahead, born, source, uploader, files, calls>>

\* The handler dies before its commit (the API restarts, the database drops
\* the connection), perhaps after it has unlinked the file.
ApiDies(c) ==
    /\ call[c] # None
    /\ files' \in {files, IF call[c].op \in {"cancel", "delete", "deleteMedia"}
                          THEN files \ {call[c].snap.media} ELSE files}
    /\ Return(c)
    /\ UNCHANGED <<rows, ahead, born, source, uploader, revived, calls>>

-----------------------------------------------------------------------------
ApiTypeOK ==
    /\ call \in [Clients -> Call \cup {None}]
    /\ calls \in Nat

ApiInit == call = [c \in Clients |-> None] /\ calls = 0

ReceiveOn(c, j) ==
    \/ ReadStop(c, j)
    \/ ReadResume(c, j)
    \/ ReadContinue(c, j)
    \/ ReadCancel(c, j)
    \/ ReadDelete(c, j)
    \/ ReadDeleteMedia(c, j)
    \/ ReadClue(c, j)

Receive(c) == \E j \in Jobs :
    \/ ReceiveOn(c, j)
    \/ \E acct \in Accounts, media \in Files \cup {None} : ReadCreate(c, j, acct, media)

Handle(c) ==
    \/ LockCapacity(c)
    \/ QueueFull(c)
    \/ Create(c)
    \/ CommitFails(c)
    \/ Stop(c)
    \/ Resume(c)
    \/ Continue(c)
    \/ Cancel(c)
    \/ Delete(c)
    \/ DeleteMedia(c)
    \/ ClueReopens(c)
    \/ Clue(c)

ApiNext ==
    \/ \E f \in Files, acct \in Accounts : Upload(f, acct)
    \/ \E c \in Clients : Receive(c) \/ Handle(c) \/ ApiDies(c)
=============================================================================
