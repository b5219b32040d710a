----------------------------- MODULE PushDelivery -----------------------------
(***************************************************************************)
(* Completion notifications (backend/app/notifications.py, finish_job in   *)
(* worker.py, _retry_pending_notifications in runtime.py): one delivery    *)
(* per job and device, the flag notification_pending on the job, and FCM,  *)
(* which knows what tokens are live.                                       *)
(*                                                                         *)
(* updated_at tells completion cycles apart, and only by comparison: a     *)
(* delivery that is older than its job belongs to an earlier cycle.  Every *)
(* UPDATE makes its row the newest, so "stale" holds those deliveries, and *)
(* the order of the jobs is "older".                                       *)
(*                                                                         *)
(* What requests and rounds do to a job otherwise is JobQueue; here a row  *)
(* is its status and its flag.  "completed" stands for partial too and     *)
(* "failed" for needs_context, which send nothing.                         *)
(***************************************************************************)
EXTENDS Integers, FiniteSets

CONSTANTS
    Jobs, Devices, Tokens, Clients, None,
    Account,     \* Account[x]: the account of job or device x
    Refused,     \* tokens FCM rejects for ever, but not as UNREGISTERED
    Ops,         \* the requests of an instance
    Batch,       \* the LIMIT of the retry, 20
    MaxCalls,    \* bound: requests
    MaxFaults,   \* bound: temporary failures of FCM or of its login
    MaxCrashes   \* bound: crashes of the worker

ASSUME PushBounds ==
    /\ Batch \in Nat \ {0}
    /\ MaxCalls \in Nat
    /\ MaxFaults \in Nat
    /\ MaxCrashes \in Nat

ASSUME PushAssumption ==
    /\ None \notin Tokens \cup Jobs \cup {"", "sent", "discarded", "pending"}
    /\ "" \notin Tokens
    /\ Ops \subseteq {"stop", "resume", "continue", "clue", "cancel", "delete"}

VARIABLES
    row,        \* row[j]: status and notification_pending, None if deleted
    older,      \* older[j]: the jobs whose updated_at is before that of j
    device,     \* device[d]: its push_token, "" for NULL, None if revoked
    delivery,   \* delivery[j][d]: the state of the delivery, None without one
    stale,      \* stale[j]: the devices whose delivery is older than j
    live,       \* the tokens FCM delivers to
    call,       \* call[c]: a request that has read its job, None without one
    w,          \* the worker: where it is, and its session's copies
    due,        \* 30 s have passed since the last retry
    told,       \* history: told[j]: devices that have a "sent" for this cycle
    owed,       \* history: owed[j]: devices that this cycle has to settle yet
    touched,    \* history: jobs a request wrote since the round's last reload
    calls, faults, crashes

tables  == <<row, older, device, delivery, stale>>
history == <<told, owed, touched>>
vars    == <<tables, live, call, w, due, history, calls, faults, crashes>>

Statuses    == {"queued", "running", "stopped", "completed", "failed",
                "cancelled"}
Continuable == {"completed", "failed"}
Row         == [status : Statuses, pending : BOOLEAN]

ASSUME PushNoneIsNoRow == None \notin Row

Settled     == {"sent", "discarded"}    \* _TERMINAL_DELIVERY_STATES

Places == {"down", "top", "look", "round", "outcome",       \* main, process_one
           "select", "open", "login", "post",               \* send_job_pushes
           "handled", "next", "close"}

\* old[j]: the deliveries that are older than the session's copy of job j;
\* token and state: its copies of the devices and their deliveries; dirty: the
\* deliveries, and handled: the jobs that its next commit writes.
Worker == [pc : Places, job : Jobs \cup {None}, seen : Row, retry : BOOLEAN,
           todo : SUBSET Jobs, handled : SUBSET Jobs,
           old : [Jobs -> SUBSET Devices],
           token : [Devices -> Tokens \cup {None}],
           state : [Devices -> Settled \cup {"pending", None}],
           dirty : SUBSET Devices, left : SUBSET Devices]

Fresh == [status |-> "queued", pending |-> FALSE]

Idle(pc) == [pc |-> pc, job |-> None, seen |-> Fresh, retry |-> FALSE,
             todo |-> {}, handled |-> {}, old |-> [j \in Jobs |-> {}],
             token |-> [d \in Devices |-> None],
             state |-> [d \in Devices |-> None], dirty |-> {}, left |-> {}]

Init ==
    /\ row = [j \in Jobs |-> Fresh]
    /\ \E age \in [Jobs -> 1 .. Cardinality(Jobs)] :
         /\ \A j, k \in Jobs : j # k => age[j] # age[k]
         /\ older = [j \in Jobs |-> {k \in Jobs : age[k] < age[j]}]
    /\ device \in [Devices -> Tokens \cup {""}]
    /\ \A d, e \in Devices : d # e => device[d] = "" \/ device[d] # device[e]
    /\ delivery = [j \in Jobs |-> [d \in Devices |-> None]]
    /\ stale = [j \in Jobs |-> {}]
    /\ live = Tokens
    /\ call = [c \in Clients |-> None]
    /\ w = Idle("top")
    /\ due = TRUE
    /\ told = [j \in Jobs |-> {}]
    /\ owed = [j \in Jobs |-> {}]
    /\ touched = {}
    /\ calls = 0 /\ faults = 0 /\ crashes = 0

-----------------------------------------------------------------------------
\* A commit's UPDATE of a column that the session holds as "new".
Column(now, seen, new) == IF new # seen THEN new ELSE now

\* The jobs in "written" get the row new[j] and the newest updated_at.
Write(written, new) ==
    /\ row' = [j \in Jobs |-> IF j \in written THEN new[j] ELSE row[j]]
    /\ older' = [j \in Jobs |-> IF j \in written
                                THEN (Jobs \ {j}) \ (written \ older[j])
                                ELSE older[j] \ written]

\* The same where no delivery is written, so that all of theirs become stale.
WriteJobs(written, new) ==
    /\ Write(written, new)
    /\ stale' = [j \in Jobs |-> IF j \in written
                                THEN {d \in Devices : delivery[j][d] # None}
                                ELSE stale[j]]
    /\ owed' = [j \in Jobs |-> IF row'[j] # None /\ row'[j].status = "completed"
                               THEN owed[j] ELSE {}]
    /\ UNCHANGED <<device, delivery>>

\* Mutant of Registered: the devices are not filtered by their token.
RegisteredWithoutToken(j, d) ==
    Account[d] = Account[j] /\ device[d] # None

\* The devices a completion of j is for.
Registered(j, d) ==
    Account[d] = Account[j] /\ device[d] \in Tokens

-----------------------------------------------------------------------------
\* A handler's SELECT and early returns.  A stop or cancel that would change
\* no column is left out.
Accepts(op, status) ==
    CASE op = "stop"     -> status \in {"queued", "running"}
      [] op = "resume"   -> status = "stopped"
      [] op = "continue" -> status \in Continuable
      [] op = "clue"     -> status # "cancelled"
      [] op = "cancel"   -> status # "cancelled"
      [] op = "delete"   -> status # "running"

ReadCall(c, op, j) ==
    /\ call[c] = None
    /\ calls < MaxCalls
    /\ row[j] # None
    /\ Accepts(op, row[j].status)
    /\ call' = [call EXCEPT ![c] = [op |-> op, job |-> j, seen |-> row[j]]]
    /\ calls' = calls + 1
    /\ UNCHANGED <<tables, live, w, due, history, faults, crashes>>

\* What the handler makes of the row it has read.  Only a clue that reopens
\* the job clears the flag; any other clue leaves status and flag alone.
Outcome(op, seen) ==
    CASE op = "stop"                -> [seen EXCEPT !.status = "stopped"]
      [] op \in {"resume", "continue"} -> [seen EXCEPT !.status = "queued"]
      [] op = "cancel"              -> [seen EXCEPT !.status = "cancelled"]
      [] op = "clue" /\ seen.status \in Continuable -> Fresh
      [] OTHER                      -> seen

\* The handler's commit, which fails if the row is gone.
CommitCall(c) ==
    /\ call[c] # None
    /\ call[c].op # "delete"
    /\ LET j == call[c].job
           seen == call[c].seen
           new == Outcome(call[c].op, seen)
       IN  IF row[j] = None
           THEN UNCHANGED <<tables, history>>
           ELSE /\ WriteJobs({j}, [row EXCEPT ![j] =
                     [status  |-> Column(@.status, seen.status, new.status),
                      pending |-> Column(@.pending, seen.pending, new.pending)]])
                /\ touched' = touched \cup {j}
                /\ UNCHANGED told
    /\ call' = [call EXCEPT ![c] = None]
    /\ UNCHANGED <<live, w, due, calls, faults, crashes>>

\* delete_job: the deliveries go with the row.
CommitDelete(c) ==
    /\ call[c] # None
    /\ call[c].op = "delete"
    /\ LET j == call[c].job
       IN  /\ row' = [row EXCEPT ![j] = None]
           /\ delivery' = [delivery EXCEPT ![j] = [d \in Devices |-> None]]
           /\ stale' = [stale EXCEPT ![j] = {}]
           /\ owed' = [owed EXCEPT ![j] = {}]
    /\ call' = [call EXCEPT ![c] = None]
    /\ UNCHANGED <<older, device, live, w, due, told, touched, calls, faults,
                   crashes>>

\* A device that changes its token, or goes, is owed nothing any more.
NoLongerOwed(gone) == owed' = [j \in Jobs |-> owed[j] \ gone]

\* update_push_token: the token moves to this device.
UpdatePushToken(d, t) ==
    /\ calls < MaxCalls
    /\ device[d] # None /\ device[d] # t
    /\ t \in live \cup {""}
    /\ LET holders == {e \in Devices : t # "" /\ device[e] = t}
       IN  /\ device' = [e \in Devices |-> IF e = d THEN t
                                           ELSE IF e \in holders THEN ""
                                           ELSE device[e]]
           /\ NoLongerOwed(holders \cup {d})
    /\ calls' = calls + 1
    /\ UNCHANGED <<row, older, delivery, stale, live, call, w, due, told,
                   touched, faults, crashes>>

\* revoke_device: its deliveries go with it.
RevokeDevice(d) ==
    /\ calls < MaxCalls
    /\ device[d] # None
    /\ device' = [device EXCEPT ![d] = None]
    /\ delivery' = [j \in Jobs |-> [delivery[j] EXCEPT ![d] = None]]
    /\ stale' = [j \in Jobs |-> stale[j] \ {d}]
    /\ NoLongerOwed({d})
    /\ calls' = calls + 1
    /\ UNCHANGED <<row, older, live, call, w, due, told, touched, faults,
                   crashes>>

\* The installation is removed, or FCM gives it another token.
TokenDies(t) ==
    /\ calls < MaxCalls
    /\ t \in live
    /\ live' = live \ {t}
    /\ calls' = calls + 1
    /\ UNCHANGED <<tables, call, w, due, history, faults, crashes>>

-----------------------------------------------------------------------------
Work == UNCHANGED <<live, call, calls, faults, crashes>>

Goto(pc) == w' = [w EXCEPT !.pc = pc]

\* process_one: claims a waiting job (which one is JobQueue's concern).
Claim(j) ==
    /\ w.pc = "look"
    /\ row[j] # None /\ row[j].status = "queued"
    /\ WriteJobs({j}, [row EXCEPT ![j].status = "running"])
    /\ w' = [Idle("round") EXCEPT !.job = j]
    /\ UNCHANGED <<due, told, touched>>
    /\ Work

NothingToDo ==
    /\ w.pc = "look"
    /\ \A j \in Jobs : row[j] # None => row[j].status # "queued"
    /\ w' = Idle("top")
    /\ UNCHANGED <<tables, due, history>>
    /\ Work

\* The last reload of the round: it goes on unless the job is gone, cancelled
\* or stopped.
Reload ==
    /\ w.pc = "round"
    /\ row[w.job] # None
    /\ row[w.job].status \notin {"cancelled", "stopped"}
    /\ w' = [w EXCEPT !.pc = "outcome", !.seen = row[w.job]]
    /\ touched' = touched \ {w.job}
    /\ UNCHANGED <<tables, due, told, owed>>
    /\ Work

\* Otherwise a stop is confirmed by finish_job, which clears the flag.
Abandon ==
    /\ w.pc = "round"
    /\ IF row[w.job] # None /\ row[w.job].status = "stopped"
       THEN WriteJobs({w.job}, [row EXCEPT ![w.job].pending = FALSE])
       ELSE /\ row[w.job] # None => row[w.job].status = "cancelled"
            /\ UNCHANGED <<tables, owed>>
    /\ w' = Idle("top")
    /\ UNCHANGED <<due, told, touched>>
    /\ Work

\* The commit of a round that ends without a completion: finish_job("failed")
\* or the retry path.
EndRound(status) ==
    /\ w.pc = "outcome"
    /\ status \in {"failed", "queued"}
    /\ IF row[w.job] = None
       THEN UNCHANGED <<tables, owed>>
       ELSE WriteJobs({w.job}, [row EXCEPT ![w.job] =
              [status  |-> Column(@.status, w.seen.status, status),
               pending |-> IF status = "failed"
                           THEN Column(@.pending, w.seen.pending, FALSE)
                           ELSE @.pending]])
    /\ w' = Idle("top")
    /\ UNCHANGED <<due, told, touched>>
    /\ Work

\* finish_job of a completion, up to its first commit; a new cycle begins.
FinishJob ==
    /\ w.pc = "outcome"
    /\ IF row[w.job] = None
       THEN w' = Idle("top") /\ UNCHANGED <<tables, told, owed>>
       ELSE /\ Write({w.job}, [row EXCEPT ![w.job] =
                 [status  |-> Column(@.status, w.seen.status, "completed"),
                  pending |-> Column(@.pending, w.seen.pending, TRUE)]])
            /\ stale' = [stale EXCEPT ![w.job] =
                           {d \in Devices : delivery[w.job][d] # None}]
            /\ told' = [told EXCEPT ![w.job] = {}]
            /\ owed' = [owed EXCEPT ![w.job] =
                          IF row'[w.job].status = "completed"
                          THEN {d \in Devices : Registered(w.job, d)} ELSE {}]
            /\ UNCHANGED <<device, delivery>>
            /\ w' = [w EXCEPT !.pc = "select",
                              !.old = [@ EXCEPT ![w.job] = stale'[w.job]]]
    /\ UNCHANGED <<due, touched>>
    /\ Work

-----------------------------------------------------------------------------
\* A commit in send_job_pushes or after it raises if a row it writes is gone.
CanCommit ==
    /\ \A d \in w.dirty : device[d] # None /\ row[w.job] # None
    /\ \A j \in w.handled : row[j] # None

\* Mutant of StillStale: an UPDATE of a delivery leaves its updated_at alone.
StillStaleWithoutOnupdate(j) ==
    IF j \in w.handled THEN {d \in Devices : delivery[j][d] # None} ELSE stale[j]

\* onupdate of both tables: what is written becomes the newest.
StillStale(j) ==
    IF j \in w.handled THEN {d \in Devices : delivery[j][d] # None}
    ELSE IF j = w.job THEN stale[j] \ w.dirty
    ELSE stale[j]

\* It writes the session's states of the dirty deliveries, takes the token of a
\* device it discards, and clears the flag of the jobs handled before.
Commit ==
    /\ Write(w.handled, [j \in w.handled |-> [row[j] EXCEPT !.pending = FALSE]])
    /\ delivery' = [j \in Jobs |-> [d \in Devices |->
                      IF j = w.job /\ d \in w.dirty THEN w.state[d]
                      ELSE delivery[j][d]]]
    /\ stale' = [j \in Jobs |-> StillStale(j)]
    /\ device' = [d \in Devices |->
                    IF d \in w.dirty /\ w.state[d] = "discarded" THEN ""
                    ELSE device[d]]
    /\ told' = [j \in Jobs |-> IF j # w.job THEN told[j] ELSE
                  told[j] \cup {d \in w.dirty : w.state[d] = "sent"}]
    /\ owed' = [j \in Jobs |-> owed[j] \
                  {d \in w.dirty : \/ w.state[d] = "discarded"
                                   \/ w.state[d] = "sent" /\ j = w.job}]

\* After send_job_pushes raised: finish_job swallows it; the retry cannot use
\* its session any more, so that it ends without a further commit.
Raised == w' = Idle(IF w.retry THEN "look" ELSE "top")

\* Mutant of Unsettled: the retry does not look at the answer.
UnsettledIsHandled == IF w.retry THEN [w EXCEPT !.pc = "handled", !.dirty = {}]
                      ELSE Idle("top")

\* After send_job_pushes returned False.
Unsettled == IF w.retry THEN [w EXCEPT !.pc = "next", !.dirty = {}, !.left = {}]
             ELSE Idle("top")

\* Its SELECTs: the devices with a token, their deliveries.  Those that are
\* missing or older than this completion start as pending.
SelectDevices ==
    /\ w.pc = "select"
    /\ LET devices == {d \in Devices : Registered(w.job, d)}
           begin   == {d \in devices : \/ delivery[w.job][d] = None
                                       \/ d \in w.old[w.job]}
           state   == [d \in Devices |-> IF d \notin devices THEN None
                                         ELSE IF d \in begin THEN "pending"
                                         ELSE delivery[w.job][d]]
           left    == {d \in devices : state[d] = "pending"}
       IN  w' = [w EXCEPT
                  !.token = [d \in Devices |-> IF d \in devices THEN device[d]
                                               ELSE None],
                  !.state = state,
                  !.dirty = {d \in devices : state[d] # delivery[w.job][d]},
                  !.left  = left,
                  !.pc    = IF begin # {} THEN "open"
                            ELSE IF left = {} THEN "handled" ELSE "login"]
    /\ UNCHANGED <<tables, due, history>>
    /\ Work

\* The commit of the deliveries that begin.
OpenDeliveries ==
    /\ w.pc = "open"
    /\ IF CanCommit
       THEN /\ Commit
            /\ w' = [w EXCEPT !.pc = "login", !.dirty = {}, !.handled = {}]
       ELSE Raised /\ UNCHANGED <<tables, told, owed>>
    /\ UNCHANGED <<due, touched>>
    /\ Work

\* The access token for FCM.
Login ==
    /\ w.pc = "login"
    /\ Goto("post")
    /\ UNCHANGED <<tables, due, history>>
    /\ Work

LoginFails ==
    /\ w.pc = "login"
    /\ faults < MaxFaults
    /\ faults' = faults + 1
    /\ w' = Unsettled
    /\ UNCHANGED <<tables, live, call, due, history, calls, crashes>>

Answered(d, state) ==
    w' = [w EXCEPT !.left = @ \ {d}, !.state[d] = state, !.dirty = @ \cup {d}]

\* FCM takes the message, or answers UNREGISTERED.
PostSent(d) ==
    /\ w.pc = "post" /\ d \in w.left
    /\ w.token[d] \in live \ Refused
    /\ Answered(d, "sent")
    /\ UNCHANGED <<tables, due, history>>
    /\ Work

PostUnregistered(d) ==
    /\ w.pc = "post" /\ d \in w.left
    /\ w.token[d] \notin live \cup Refused
    /\ Answered(d, "discarded")
    /\ UNCHANGED <<tables, due, history>>
    /\ Work

\* Any other answer, or none, leaves the delivery pending.
PostFails(d) ==
    /\ w.pc = "post" /\ d \in w.left
    /\ \/ w.token[d] \in Refused /\ UNCHANGED faults
       \/ faults < MaxFaults /\ faults' = faults + 1
    /\ w' = [w EXCEPT !.left = @ \ {d}]
    /\ UNCHANGED <<tables, live, call, due, history, calls, crashes>>

\* All are asked: the commit of the answers, if there were any, and whether
\* every device is settled.
MarkDeliveries ==
    /\ w.pc = "post" /\ w.left = {}
    /\ LET settled == \A d \in Devices : w.state[d] # "pending"
       IN  IF w.dirty = {}
           THEN w' = Unsettled /\ UNCHANGED <<tables, told, owed>>
           ELSE IF CanCommit
           THEN /\ Commit
                /\ w' = IF settled
                        THEN [w EXCEPT !.pc = "handled", !.dirty = {},
                                       !.handled = {}]
                        ELSE [Unsettled EXCEPT !.handled = {}]
           ELSE Raised /\ UNCHANGED <<tables, told, owed>>
    /\ UNCHANGED <<due, touched>>
    /\ Work

\* send_job_pushes returned True: the session clears the job's flag.
Handled ==
    /\ w.pc = "handled"
    /\ w' = [w EXCEPT !.pc = IF w.retry THEN "next" ELSE "close",
                      !.handled = @ \cup {w.job}]
    /\ UNCHANGED <<tables, due, history>>
    /\ Work

\* The last commit of finish_job or of the retry.
Close ==
    /\ w.pc = "close"
    /\ IF CanCommit THEN Commit ELSE UNCHANGED <<tables, told, owed>>
    /\ Raised
    /\ UNCHANGED <<due, touched>>
    /\ Work

-----------------------------------------------------------------------------
\* main: the retry when 30 s have passed, then process_one.
NoRetryYet ==
    /\ w.pc = "top" /\ ~due
    /\ Goto("look")
    /\ UNCHANGED <<tables, due, history>>
    /\ Work

\* _retry_pending_notifications reads the jobs that were updated first.
SelectPending ==
    /\ w.pc = "top" /\ due
    /\ due' = FALSE
    /\ LET waiting == {j \in Jobs : row[j] = [status  |-> "completed",
                                             pending |-> TRUE]}
           batch == {j \in waiting : Cardinality(older[j] \cap waiting) < Batch}
       IN  w' = [Idle("next") EXCEPT
                  !.retry = TRUE, !.todo = batch,
                  !.old = [j \in Jobs |-> IF j \in batch THEN stale[j] ELSE {}]]
    /\ UNCHANGED <<tables, history>>
    /\ Work

\* Its loop over them; their order makes no difference here.
NextPending ==
    /\ w.pc = "next"
    /\ IF w.todo = {}
       THEN Goto("close")
       ELSE \E j \in w.todo :
              w' = [w EXCEPT !.pc = "select", !.job = j, !.todo = @ \ {j},
                             !.dirty = {}]
    /\ UNCHANGED <<tables, due, history>>
    /\ Work

Tick ==
    /\ ~due
    /\ due' = TRUE
    /\ UNCHANGED <<tables, w, history>>
    /\ Work

Crash ==
    /\ w.pc # "down"
    /\ crashes < MaxCrashes
    /\ crashes' = crashes + 1
    /\ w' = Idle("down")
    /\ UNCHANGED <<tables, live, call, due, history, calls, faults>>

\* Docker restarts the worker, which requeues what was running.
Restart ==
    /\ w.pc = "down"
    /\ LET running == {j \in Jobs : row[j] # None /\ row[j].status = "running"}
       IN  WriteJobs(running,
                     [j \in running |-> [row[j] EXCEPT !.status = "queued"]])
    /\ w' = Idle("top")
    /\ due' = TRUE
    /\ UNCHANGED <<told, touched>>
    /\ Work

-----------------------------------------------------------------------------
WorkStep ==
    \/ \E j \in Jobs : Claim(j)
    \/ NothingToDo \/ Reload \/ Abandon \/ FinishJob
    \/ \E status \in {"failed", "queued"} : EndRound(status)
    \/ SelectDevices \/ OpenDeliveries \/ Login \/ LoginFails
    \/ \E d \in Devices : PostSent(d) \/ PostUnregistered(d) \/ PostFails(d)
    \/ MarkDeliveries \/ Handled \/ Close
    \/ NoRetryYet \/ SelectPending \/ NextPending
    \/ Restart

Next ==
    \/ \E c \in Clients, op \in Ops, j \in Jobs : ReadCall(c, op, j)
    \/ \E c \in Clients : CommitCall(c) \/ CommitDelete(c)
    \/ \E d \in Devices, t \in Tokens \cup {""} : UpdatePushToken(d, t)
    \/ \E d \in Devices : RevokeDevice(d)
    \/ \E t \in Tokens : TokenDies(t)
    \/ WorkStep \/ Tick \/ Crash

Spec == Init /\ [][Next]_vars
FairSpec == Spec /\ WF_vars(WorkStep) /\ WF_vars(Tick)

-----------------------------------------------------------------------------
TablesTypeOK ==
    /\ row \in [Jobs -> Row \cup {None}]
    /\ older \in [Jobs -> SUBSET Jobs]
    /\ device \in [Devices -> Tokens \cup {"", None}]
    /\ delivery \in [Jobs -> [Devices -> Settled \cup {"pending", None}]]
    /\ stale \in [Jobs -> SUBSET Devices]

HistoryTypeOK ==
    /\ told \in [Jobs -> SUBSET Devices]
    /\ owed \in [Jobs -> SUBSET Devices]
    /\ touched \in SUBSET Jobs

TypeOK ==
    /\ TablesTypeOK
    /\ HistoryTypeOK
    /\ live \in SUBSET Tokens
    /\ call \in [Clients -> [op : Ops, job : Jobs, seen : Row] \cup {None}]
    /\ w \in Worker
    /\ due \in BOOLEAN
    /\ calls \in 0 .. MaxCalls
    /\ faults \in 0 .. MaxFaults
    /\ crashes \in 0 .. MaxCrashes

-----------------------------------------------------------------------------
\* The devices FCM accepts a message for in this step.
ToldNow == {d \in w.left : /\ w.pc = "post" /\ w'.pc = "post"
                           /\ w.state[d] # w'.state[d] /\ w'.state[d] = "sent"}

\* README.md:86 and notifications.py:76-77: a device whose "sent" was committed
\* is told again in the same cycle only if a request has written the job since.
NotToldAgain ==
    [][\A d \in ToldNow : d \in told[w.job] => w.job \in touched]_vars

\* finish_job, _retry_pending_notifications: the flag is cleared only when every
\* device that the completion found has its answer, in whatever order pushes,
\* failures, crashes, revocations and other jobs of the batch come.
NoOneForgotten ==
    \A j \in Jobs :
      /\ row[j] # None /\ row[j].status = "completed"
      /\ j \notin touched
      /\ owed[j] # {}
      => row[j].pending

\* notifications.py:78, "retries only those devices after restarts": every
\* device of a completion is told or found unregistered, unless the job is
\* reopened or removed or the device changes its token.
EveryoneSettled ==
    \A j \in Jobs, d \in Devices :
      (d \in owed[j] /\ j \notin touched /\ device[d] \notin Refused)
        ~> d \notin owed[j]
=============================================================================
