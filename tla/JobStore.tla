------------------------------ MODULE JobStore ------------------------------
(***************************************************************************)
(* What the API process and the worker process share: the rows of the jobs *)
(* table in PostgreSQL (backend/app/models.py) and the upload directory.   *)
(*                                                                         *)
(* Both processes use SQLAlchemy sessions under READ COMMITTED with        *)
(* autoflush and expire_on_commit off (database.py).  A handler therefore  *)
(* works on the row it has SELECTed, and its commit sends an UPDATE of the *)
(* columns whose value differs from that snapshot, and of no other.  The   *)
(* operator Flush is that UPDATE; every race of this system comes from it. *)
(*                                                                         *)
(* Abstracted: query text, results, progress, errors and heartbeats, which *)
(* no guard of the queue reads.  next_run_at is the flag "due": whether it *)
(* is in the past.  created_at is the relation "ahead".                    *)
(***************************************************************************)
EXTENDS Integers, FiniteSets

CONSTANTS
    Jobs,           \* identifiers a job row may get (uuid4 values)
    Accounts,
    Files,          \* uploads a client may make
    None,           \* SQL NULL: no row, no file, no call
    MaxActive,      \* settings.search_max_active_jobs
    MaxAttempts,    \* settings.search_max_attempts
    ContinueFloor   \* settings.search_continue_attempt_floor

ASSUME StoreAssumption ==
    /\ None \notin Accounts \cup Files
    /\ MaxActive \in Nat \ {0}
    /\ MaxAttempts \in Nat \ {0}
    /\ ContinueFloor \in 0 .. MaxAttempts

VARIABLES
    rows,      \* rows[j]: the committed row of job j, None while there is none
    ahead,     \* ahead[j]: the rows whose created_at is before that of j
    born,      \* the identifiers some row has had
    source,    \* source[j]: the upload job j was created with, None for text
    uploader,  \* uploader[f]: the account that uploaded f, None before that
    files,     \* the uploads still on disk
    revived    \* history: active jobs that last became active outside the
               \* capacity lock, by a write from a stale snapshot

storeVars == <<rows, ahead, born, source, uploader, files, revived>>

ActiveStates      == {"queued", "running", "stopped"}
ContinuableStates == {"completed", "partial", "failed", "needs_context"}
FinalStates       == ContinuableStates \cup {"cancelled"}
PurgeMediaStates  == {"completed", "partial", "failed"}
Statuses          == ActiveStates \cup FinalStates

\* A clue is the number of the API call that brought it; context_text is the
\* set of clues and context_revision, written together with it, its size.
Row == [acct : Accounts, media : Files \cup {None}, status : Statuses,
        stop : BOOLEAN, due : BOOLEAN, attempts : Nat, ctx : SUBSET Nat]

ASSUME NoneIsNoRow == None \notin Row

Revision(row) == Cardinality(row.ctx)

Active(row) == row # None /\ row.status \in ActiveStates

-----------------------------------------------------------------------------
\* Mutant of Flush: an UPDATE of every column.
FlushEveryColumn(row, snap, new) == [new EXCEPT !.due = row.due]

\* The row after a commit of a session that loaded "snap" and now holds "new".
Flush(row, snap, new) ==
    [acct     |-> row.acct,
     media    |-> IF new.media    # snap.media    THEN new.media    ELSE row.media,
     status   |-> IF new.status   # snap.status   THEN new.status   ELSE row.status,
     stop     |-> IF new.stop     # snap.stop     THEN new.stop     ELSE row.stop,
     due      |-> row.due,
     attempts |-> IF new.attempts # snap.attempts THEN new.attempts ELSE row.attempts,
     ctx      |-> IF new.ctx      # snap.ctx      THEN new.ctx      ELSE row.ctx]

\* A commit under CREATE_LOCK_KEY, and one that takes no such lock.
LockedWrite(newRows) ==
    /\ rows' = newRows
    /\ revived' = {j \in revived : Active(newRows[j])}

UnlockedWrite(newRows) ==
    /\ rows' = newRows
    /\ revived' = {j \in Jobs : /\ Active(newRows[j])
                                /\ j \in revived \/ ~Active(rows[j])}

\* The commit of one row by a session that loaded snap; no row, no effect.
Saved(j, snap, new) == [rows EXCEPT ![j] = Flush(@, snap, new)]

\* The same with next_run_at assigned, which is a new value every time.
Rescheduled(j, snap, new, due) ==
    [rows EXCEPT ![j] = [Flush(@, snap, new) EXCEPT !.due = due]]

\* created_at := now, the order of j behind every other row.
MovedToBack(j) ==
    [k \in Jobs |-> IF k = j THEN {i \in Jobs : rows[i] # None} \ {j}
                    ELSE ahead[k] \ {j}]

\* The order without the row of j.
Unordered(j) == [k \in Jobs |-> IF k = j THEN {} ELSE ahead[k] \ {j}]

ActiveCount(acct) ==
    Cardinality({j \in Jobs : Active(rows[j]) /\ rows[j].acct = acct})

-----------------------------------------------------------------------------
Runnable(row) == row.status = "queued" /\ ~row.stop /\ row.due

\* Mutant of IsHead: a stopped job does not hold its account's queue.
IsHeadOfUnstopped(j) ==
    /\ Active(rows[j])
    /\ \A k \in ahead[j] : ~(/\ Active(rows[k]) /\ rows[k].acct = rows[j].acct
                            /\ rows[k].status # "stopped")

\* The first unfinished job of its account, by created_at.
IsHead(j) ==
    /\ Active(rows[j])
    /\ \A k \in ahead[j] : ~(Active(rows[k]) /\ rows[k].acct = rows[j].acct)

\* Mutant of IsCandidate: only the oldest head of all accounts is considered.
IsOldestHead(j) ==
    /\ IsHead(j)
    /\ Runnable(rows[j])
    /\ \A k \in ahead[j] : ~IsHead(k)

\* The job _first_runnable_account_head selects: the oldest runnable head.
IsCandidate(j) ==
    /\ IsHead(j)
    /\ Runnable(rows[j])
    /\ \A k \in ahead[j] : ~(IsHead(k) /\ Runnable(rows[k]))

StoreTypeOK ==
    /\ rows \in [Jobs -> Row \cup {None}]
    /\ ahead \in [Jobs -> SUBSET Jobs]
    /\ born \in SUBSET Jobs
    /\ source \in [Jobs -> Files \cup {None}]
    /\ uploader \in [Files -> Accounts \cup {None}]
    /\ files \in SUBSET Files
    /\ revived \in SUBSET Jobs

StoreInit ==
    /\ rows = [j \in Jobs |-> None]
    /\ ahead = [j \in Jobs |-> {}]
    /\ born = {}
    /\ source = [j \in Jobs |-> None]
    /\ uploader = [f \in Files |-> None]
    /\ files = {}
    /\ revived = {}
=============================================================================
