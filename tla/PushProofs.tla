------------------------------ MODULE PushProofs ------------------------------
(***************************************************************************)
(* Proofs about PushDelivery, for any number of jobs, devices, requests,   *)
(* failures and crashes: its types, that the flag of a job is cleared only *)
(* when every device of the completion has its answer, that no device of a *)
(* completion is forgotten, and that none is told twice.                   *)
(*                                                                         *)
(* The last two are not inductive: a session asks FCM, and clears a flag,  *)
(* long after it has read the devices, and other processes commit in       *)
(* between.  PushInv and OnceInv say what its copies still tell about the  *)
(* tables, as long as no request has written the job since the round       *)
(* reloaded it.                                                            *)
(***************************************************************************)
EXTENDS PushDelivery, TLAPS

-----------------------------------------------------------------------------
(* Type correctness. *)

\* The worker has a job wherever it works on one.
WorkerHasJob == w.pc \in {"round", "outcome", "select", "open", "login", "post",
                          "handled"} => w.job \in Jobs

TypeInv == TypeOK /\ WorkerHasJob

LEMMA IdleType == \A pc \in Places : Idle(pc) \in Worker
BY DEF Idle, Worker, Row, Fresh, Statuses

LEMMA TypeInit == Init => TypeInv
<1> SUFFICES ASSUME Init PROVE TypeInv
  OBVIOUS
<1>1. PICK age \in [Jobs -> 1 .. Cardinality(Jobs)] :
        older = [j \in Jobs |-> {k \in Jobs : age[k] < age[j]}]
  BY DEF Init
<1>2. TablesTypeOK
  BY <1>1 DEF Init, TablesTypeOK, Row, Fresh, Statuses
<1>3. w \in Worker /\ WorkerHasJob
  BY IdleType DEF Init, WorkerHasJob, Idle, Places
<1>4. HistoryTypeOK
  BY DEF Init, HistoryTypeOK
<1>5. 0 \in 0 .. MaxCalls /\ 0 \in 0 .. MaxFaults /\ 0 \in 0 .. MaxCrashes
  BY PushBounds
<1> QED BY <1>2, <1>3, <1>4, <1>5 DEF Init, TypeInv, TypeOK

\* What a commit leaves in a column is what the row or the session had there.
LEMMA ColumnType ==
    ASSUME NEW S, NEW now \in S, NEW seen \in S, NEW new \in S
    PROVE  Column(now, seen, new) \in S
BY DEF Column

LEMMA WriteType ==
    ASSUME TablesTypeOK, NEW written \in SUBSET Jobs, NEW new,
           \A j \in written : new[j] \in Row \cup {None},
           Write(written, new)
    PROVE  row' \in [Jobs -> Row \cup {None}] /\ older' \in [Jobs -> SUBSET Jobs]
BY DEF TablesTypeOK, Write

LEMMA WriteJobsType ==
    ASSUME TypeInv, NEW written \in SUBSET Jobs, NEW new,
           \A j \in written : new[j] \in Row \cup {None},
           WriteJobs(written, new)
    PROVE  TablesTypeOK' /\ owed' \in [Jobs -> SUBSET Devices]
<1>1. row' \in [Jobs -> Row \cup {None}] /\ older' \in [Jobs -> SUBSET Jobs]
  BY WriteType DEF WriteJobs, TypeInv, TypeOK
<1>2. stale' \in [Jobs -> SUBSET Devices] /\ owed' \in [Jobs -> SUBSET Devices]
  BY DEF WriteJobs, TypeInv, TypeOK, HistoryTypeOK, TablesTypeOK
<1> QED BY <1>1, <1>2 DEF WriteJobs, TypeInv, TypeOK, TablesTypeOK

LEMMA OutcomeType ==
    ASSUME NEW op \in Ops, NEW seen \in Row
    PROVE  Outcome(op, seen) \in Row
BY DEF Outcome, Row, Statuses, Fresh

\* The row with two columns written.
LEMMA FlushType ==
    ASSUME NEW now \in Row, NEW seen \in Row, NEW status \in Statuses,
           NEW pending \in BOOLEAN
    PROVE  /\ [status  |-> Column(now.status, seen.status, status),
               pending |-> Column(now.pending, seen.pending, pending)] \in Row
           /\ [status  |-> Column(now.status, seen.status, status),
               pending |-> now.pending] \in Row
BY DEF Column, Row

LEMMA CountType ==
    ASSUME NEW max \in Nat, NEW n \in 0 .. max, n < max
    PROVE  n + 1 \in 0 .. max
OBVIOUS

LEMMA RequestTypes ==
    ASSUME TypeInv,
           \/ \E c \in Clients, op \in Ops, j \in Jobs : ReadCall(c, op, j)
           \/ \E c \in Clients : CommitCall(c) \/ CommitDelete(c)
           \/ \E d \in Devices, t \in Tokens \cup {""} : UpdatePushToken(d, t)
           \/ \E d \in Devices : RevokeDevice(d)
           \/ \E t \in Tokens : TokenDies(t)
    PROVE  TypeInv'
<1>c. ASSUME calls < MaxCalls, calls' = calls + 1
      PROVE  calls' \in 0 .. MaxCalls
  <2>1. calls \in 0 .. MaxCalls /\ MaxCalls \in Nat
    BY PushBounds DEF TypeInv, TypeOK
  <2> QED BY <1>c, <2>1, CountType
<1>1. ASSUME NEW c \in Clients, NEW op \in Ops, NEW j \in Jobs, ReadCall(c, op, j)
      PROVE  TypeInv'
  <2>1. calls' \in 0 .. MaxCalls
    BY <1>1, <1>c DEF ReadCall
  <2>2. row[j] \in Row
    BY <1>1 DEF ReadCall, TypeInv, TypeOK, TablesTypeOK
  <2>3. call' \in [Clients -> [op : Ops, job : Jobs, seen : Row] \cup {None}]
    BY <1>1, <2>2 DEF ReadCall, TypeInv, TypeOK
  <2> QED BY <1>1, <2>1, <2>3 DEF ReadCall, TypeInv, TypeOK, TablesTypeOK,
             HistoryTypeOK, WorkerHasJob, tables, history
<1>2. ASSUME NEW c \in Clients, CommitCall(c)
      PROVE  TypeInv'
  <2> DEFINE j == call[c].job
             seen == call[c].seen
             new == Outcome(call[c].op, seen)
  <2>1. j \in Jobs /\ seen \in Row /\ new \in Row
    <3>1. call[c] \in [op : Ops, job : Jobs, seen : Row]
      BY <1>2 DEF CommitCall, TypeInv, TypeOK
    <3> QED BY <3>1, OutcomeType
  <2>2. call' \in [Clients -> [op : Ops, job : Jobs, seen : Row] \cup {None}]
    BY <1>2 DEF CommitCall, TypeInv, TypeOK
  <2>3. TablesTypeOK' /\ HistoryTypeOK'
    <3>1. CASE row[j] = None
      BY <1>2, <3>1 DEF CommitCall, TypeInv, TypeOK, tables, history,
         TablesTypeOK, HistoryTypeOK
    <3>2. CASE row[j] # None
      <4>1. row[j] \in Row
        BY <2>1, <3>2 DEF TypeInv, TypeOK, TablesTypeOK
      <4>2. [status  |-> Column(row[j].status, seen.status, new.status),
             pending |-> Column(row[j].pending, seen.pending, new.pending)] \in Row
        BY <2>1, <4>1 DEF Row, Column
      <4> DEFINE rows == [row EXCEPT ![j] =
                     [status  |-> Column(@.status, seen.status, new.status),
                      pending |-> Column(@.pending, seen.pending, new.pending)]]
      <4>3. rows[j] \in Row
        BY <2>1, <4>2 DEF TypeInv, TypeOK, TablesTypeOK
      <4>4. WriteJobs({j}, rows) /\ touched' = touched \cup {j} /\ UNCHANGED told
        BY <1>2, <3>2 DEF CommitCall
      <4> HIDE DEF rows, j, seen, new
      <4>5. TablesTypeOK' /\ owed' \in [Jobs -> SUBSET Devices]
        BY <2>1, <4>3, <4>4, WriteJobsType
      <4> QED BY <2>1, <4>4, <4>5 DEF TypeInv, TypeOK, HistoryTypeOK
    <3> QED BY <3>1, <3>2
  <2> QED BY <1>2, <2>2, <2>3 DEF CommitCall, TypeInv, TypeOK, WorkerHasJob
<1>3. ASSUME NEW c \in Clients, CommitDelete(c)
      PROVE  TypeInv'
  BY <1>3 DEF CommitDelete, TypeInv, TypeOK, TablesTypeOK, HistoryTypeOK,
     WorkerHasJob
<1>4. ASSUME NEW d \in Devices, NEW t \in Tokens \cup {""}, UpdatePushToken(d, t)
      PROVE  TypeInv'
  <2>1. calls' \in 0 .. MaxCalls
    BY <1>4, <1>c DEF UpdatePushToken
  <2>2. TablesTypeOK' /\ HistoryTypeOK'
    BY <1>4 DEF UpdatePushToken, NoLongerOwed, TypeInv, TypeOK, TablesTypeOK,
       HistoryTypeOK
  <2> QED BY <1>4, <2>1, <2>2 DEF UpdatePushToken, TypeInv, TypeOK, WorkerHasJob
<1>5. ASSUME NEW d \in Devices, RevokeDevice(d)
      PROVE  TypeInv'
  <2>1. calls' \in 0 .. MaxCalls
    BY <1>5, <1>c DEF RevokeDevice
  <2>2. TablesTypeOK' /\ HistoryTypeOK'
    BY <1>5 DEF RevokeDevice, NoLongerOwed, TypeInv, TypeOK, TablesTypeOK,
       HistoryTypeOK
  <2> QED BY <1>5, <2>1, <2>2 DEF RevokeDevice, TypeInv, TypeOK, WorkerHasJob
<1>6. ASSUME NEW t \in Tokens, TokenDies(t)
      PROVE  TypeInv'
  <2>1. calls' \in 0 .. MaxCalls
    BY <1>6, <1>c DEF TokenDies
  <2>2. TablesTypeOK' /\ HistoryTypeOK' /\ live' \in SUBSET Tokens
    BY <1>6 DEF TokenDies, TypeInv, TypeOK, TablesTypeOK, HistoryTypeOK, tables,
       history
  <2> QED BY <1>6, <2>1, <2>2 DEF TokenDies, TypeInv, TypeOK, WorkerHasJob
<1> QED BY <1>1, <1>2, <1>3, <1>4, <1>5, <1>6

\* A commit of the worker, whose session knows its handled rows to exist.
LEMMA CommitType ==
    ASSUME TypeInv, CanCommit, Commit, UNCHANGED touched
    PROVE  TablesTypeOK' /\ HistoryTypeOK'
<1>0. w \in Worker /\ TablesTypeOK /\ HistoryTypeOK
  BY DEF TypeInv, TypeOK
<1>1. row' \in [Jobs -> Row \cup {None}] /\ older' \in [Jobs -> SUBSET Jobs]
  <2> DEFINE new == [j \in w.handled |-> [row[j] EXCEPT !.pending = FALSE]]
  <2>1. w.handled \in SUBSET Jobs
    BY <1>0 DEF Worker
  <2>2. ASSUME NEW j \in w.handled
        PROVE  new[j] \in Row \cup {None}
    <3>1. row[j] \in Row
      BY <1>0, <2>1 DEF TablesTypeOK, CanCommit
    <3> QED BY <3>1 DEF Row
  <2>3. Write(w.handled, new)
    BY DEF Commit
  <2> QED BY <1>0, <2>1, <2>2, <2>3, WriteType
<1>2. delivery' \in [Jobs -> [Devices -> Settled \cup {"pending", None}]]
  BY <1>0 DEF Commit, Worker, TablesTypeOK
<1>3. stale' \in [Jobs -> SUBSET Devices]
  BY <1>0 DEF Commit, StillStale, TablesTypeOK
<1>4. device' \in [Devices -> Tokens \cup {"", None}]
  BY <1>0 DEF Commit, TablesTypeOK
<1>5. told' \in [Jobs -> SUBSET Devices] /\ owed' \in [Jobs -> SUBSET Devices]
  BY <1>0 DEF Commit, Worker, HistoryTypeOK
<1> QED BY <1>0, <1>1, <1>2, <1>3, <1>4, <1>5 DEF TablesTypeOK, HistoryTypeOK

\* What no step of the worker changes.
LEMMA WorkType ==
    ASSUME TypeInv, Work, due' \in BOOLEAN, w' \in Worker, WorkerHasJob',
           TablesTypeOK', HistoryTypeOK'
    PROVE  TypeInv'
BY DEF TypeInv, TypeOK, Work

LEMMA UnsettledType ==
    ASSUME TypeInv
    PROVE  Unsettled \in Worker /\ Unsettled.pc \in {"next", "top"}
<1>1. CASE w.retry
  BY <1>1 DEF Unsettled, TypeInv, TypeOK, Worker, Places
<1>2. CASE ~w.retry
  <2>1. "top" \in Places
    BY DEF Places
  <2> QED BY <1>2, <2>1, IdleType DEF Unsettled, Idle
<1> QED BY <1>1, <1>2

LEMMA RaisedType ==
    ASSUME Raised
    PROVE  w' \in Worker /\ w'.pc \in {"look", "top"}
<1>1. {"look", "top"} \subseteq Places
  BY DEF Places
<1> QED BY <1>1, IdleType DEF Raised, Idle

\* Steps of the worker that commit nothing.
LEMMA QuietType ==
    ASSUME TypeInv, UNCHANGED tables, UNCHANGED history
    PROVE  TablesTypeOK' /\ HistoryTypeOK'
BY DEF TypeInv, TypeOK, TablesTypeOK, HistoryTypeOK, tables, history

LEMMA RoundTypes ==
    ASSUME TypeInv,
           \/ \E j \in Jobs : Claim(j)
           \/ NothingToDo \/ Reload \/ Abandon \/ FinishJob
           \/ \E status \in {"failed", "queued"} : EndRound(status)
    PROVE  TypeInv'
<1>0. /\ w \in Worker /\ due \in BOOLEAN
      /\ TablesTypeOK /\ HistoryTypeOK /\ WorkerHasJob
  BY DEF TypeInv, TypeOK
<1>p. {"top", "round", "outcome", "select"} \subseteq Places
  BY DEF Places
<1>i. Idle("top") \in Worker /\ Idle("top").pc = "top"
  BY <1>p, IdleType DEF Idle
<1>1. ASSUME NEW j \in Jobs, Claim(j)
      PROVE  TypeInv'
  <2> DEFINE rows == [row EXCEPT ![j].status = "running"]
  <2>1. row[j] \in Row
    BY <1>0, <1>1 DEF Claim, TablesTypeOK
  <2>2. rows[j] \in Row
    BY <1>0, <2>1 DEF TablesTypeOK, Row, Statuses
  <2>3. WriteJobs({j}, rows)
    BY <1>1 DEF Claim
  <2> HIDE DEF rows
  <2>4. TablesTypeOK' /\ owed' \in [Jobs -> SUBSET Devices]
    BY <2>2, <2>3, WriteJobsType
  <2>5. w' \in Worker /\ w'.job = j
    <3>1. Idle("round") \in Worker
      BY <1>p, IdleType
    <3> QED BY <1>1, <3>1 DEF Claim, Worker
  <2>6. HistoryTypeOK' /\ WorkerHasJob'
    BY <1>0, <1>1, <2>4, <2>5 DEF Claim, HistoryTypeOK, WorkerHasJob
  <2> QED BY <1>0, <1>1, <2>4, <2>5, <2>6, WorkType DEF Claim
<1>2. CASE NothingToDo
  BY <1>0, <1>i, <1>2, QuietType, WorkType DEF NothingToDo, WorkerHasJob
<1>3. CASE Reload
  <2>1. row[w.job] \in Row /\ w.job \in Jobs
    BY <1>0, <1>3 DEF Reload, TablesTypeOK, WorkerHasJob
  <2>2. w' \in Worker /\ w'.job = w.job
    BY <1>0, <1>3, <2>1 DEF Reload, Worker, Places
  <2>3. TablesTypeOK' /\ HistoryTypeOK'
    BY <1>0, <1>3 DEF Reload, TablesTypeOK, HistoryTypeOK, tables
  <2> QED BY <1>0, <1>3, <2>1, <2>2, <2>3, WorkType DEF Reload, WorkerHasJob
<1>4. CASE Abandon
  <2>1. TablesTypeOK' /\ owed' \in [Jobs -> SUBSET Devices]
    <3>1. CASE row[w.job] # None /\ row[w.job].status = "stopped"
      <4> DEFINE rows == [row EXCEPT ![w.job].pending = FALSE]
      <4>1. w.job \in Jobs /\ row[w.job] \in Row
        BY <1>0, <1>4, <3>1 DEF Abandon, TablesTypeOK, WorkerHasJob
      <4>2. rows[w.job] \in Row
        BY <1>0, <4>1 DEF TablesTypeOK, Row
      <4>3. WriteJobs({w.job}, rows)
        BY <1>4, <3>1 DEF Abandon
      <4> HIDE DEF rows
      <4> QED BY <4>1, <4>2, <4>3, WriteJobsType
    <3>2. CASE ~(row[w.job] # None /\ row[w.job].status = "stopped")
      BY <1>0, <1>4, <3>2 DEF Abandon, TablesTypeOK, HistoryTypeOK, tables
    <3> QED BY <3>1, <3>2
  <2>2. HistoryTypeOK'
    BY <1>0, <1>4, <2>1 DEF Abandon, HistoryTypeOK
  <2> QED BY <1>0, <1>i, <1>4, <2>1, <2>2, WorkType DEF Abandon, WorkerHasJob
<1>5. CASE FinishJob
  <2>1. w.job \in Jobs
    BY <1>0, <1>5 DEF FinishJob, WorkerHasJob
  <2>2. CASE row[w.job] = None
    <3>1. TablesTypeOK' /\ HistoryTypeOK'
      BY <1>0, <1>5, <2>2 DEF FinishJob, TablesTypeOK, HistoryTypeOK, tables
    <3> QED BY <1>0, <1>i, <1>5, <2>2, <3>1, WorkType DEF FinishJob, WorkerHasJob
  <2>3. CASE row[w.job] # None
    <3> DEFINE new == [status  |-> Column(row[w.job].status, w.seen.status, "completed"),
                       pending |-> Column(row[w.job].pending, w.seen.pending, TRUE)]
               rows == [row EXCEPT ![w.job] =
                 [status  |-> Column(@.status, w.seen.status, "completed"),
                  pending |-> Column(@.pending, w.seen.pending, TRUE)]]
    <3>1. row[w.job] \in Row /\ w.seen \in Row
      BY <1>0, <2>1, <2>3 DEF TablesTypeOK, Worker
    <3>2. new \in Row
      BY <3>1 DEF Row, Column, Statuses
    <3>3. rows[w.job] \in Row
      BY <1>0, <2>1, <3>2 DEF TablesTypeOK
    <3>4. Write({w.job}, rows)
      BY <1>5, <2>3 DEF FinishJob
    <3> HIDE DEF rows
    <3>5. row' \in [Jobs -> Row \cup {None}] /\ older' \in [Jobs -> SUBSET Jobs]
      BY <1>0, <2>1, <3>3, <3>4, WriteType
    <3>6. stale' \in [Jobs -> SUBSET Devices]
      <4>1. stale' = [stale EXCEPT ![w.job] =
                       {d \in Devices : delivery[w.job][d] # None}]
        BY <1>5, <2>3 DEF FinishJob
      <4>2. {d \in Devices : delivery[w.job][d] # None} \in SUBSET Devices
        OBVIOUS
      <4> QED BY <1>0, <4>1, <4>2 DEF TablesTypeOK
    <3>7. told' \in [Jobs -> SUBSET Devices] /\ owed' \in [Jobs -> SUBSET Devices]
      BY <1>0, <1>5, <2>1, <2>3 DEF FinishJob, HistoryTypeOK
    <3>8. TablesTypeOK' /\ HistoryTypeOK'
      BY <1>0, <1>5, <2>3, <3>5, <3>6, <3>7 DEF FinishJob, TablesTypeOK, HistoryTypeOK
    <3>9. w' \in Worker /\ w'.job = w.job
      <4>1. w' = [w EXCEPT !.pc = "select", !.old = [@ EXCEPT ![w.job] = stale'[w.job]]]
        BY <1>5, <2>3 DEF FinishJob
      <4>2. stale'[w.job] \in SUBSET Devices
        BY <2>1, <3>6
      <4>3. [w.old EXCEPT ![w.job] = stale'[w.job]] \in [Jobs -> SUBSET Devices]
        BY <1>0, <4>2 DEF Worker
      <4> QED BY <1>0, <1>p, <4>1, <4>3 DEF Worker
    <3> QED BY <1>0, <1>5, <2>1, <3>8, <3>9, WorkType DEF FinishJob, WorkerHasJob
  <2> QED BY <2>2, <2>3
<1>6. ASSUME NEW status \in {"failed", "queued"}, EndRound(status)
      PROVE  TypeInv'
  <2>1. w.job \in Jobs
    BY <1>0, <1>6 DEF EndRound, WorkerHasJob
  <2>2. TablesTypeOK' /\ owed' \in [Jobs -> SUBSET Devices]
    <3>1. CASE row[w.job] = None
      BY <1>0, <1>6, <3>1 DEF EndRound, TablesTypeOK, HistoryTypeOK, tables
    <3>2. CASE row[w.job] # None
      <4> DEFINE new == [status  |-> Column(row[w.job].status, w.seen.status, status),
                         pending |-> IF status = "failed"
                           THEN Column(row[w.job].pending, w.seen.pending, FALSE)
                           ELSE row[w.job].pending]
                 rows == [row EXCEPT ![w.job] =
              [status  |-> Column(@.status, w.seen.status, status),
               pending |-> IF status = "failed"
                           THEN Column(@.pending, w.seen.pending, FALSE)
                           ELSE @.pending]]
      <4>1. row[w.job] \in Row /\ w.seen \in Row
        BY <1>0, <2>1, <3>2 DEF TablesTypeOK, Worker
      <4>2. new \in Row
        BY <4>1 DEF Row, Column, Statuses
      <4>3. rows[w.job] \in Row
        BY <1>0, <2>1, <4>2 DEF TablesTypeOK
      <4>4. WriteJobs({w.job}, rows)
        BY <1>6, <3>2 DEF EndRound
      <4> HIDE DEF rows
      <4> QED BY <2>1, <4>3, <4>4, WriteJobsType
    <3> QED BY <3>1, <3>2
  <2>3. HistoryTypeOK'
    BY <1>0, <1>6, <2>2 DEF EndRound, HistoryTypeOK
  <2> QED BY <1>0, <1>i, <1>6, <2>2, <2>3, WorkType DEF EndRound, WorkerHasJob
<1> QED BY <1>1, <1>2, <1>3, <1>4, <1>5, <1>6

LEMMA PushTypes ==
    ASSUME TypeInv,
           \/ SelectDevices \/ OpenDeliveries \/ Login \/ LoginFails
           \/ \E d \in Devices : PostSent(d) \/ PostUnregistered(d) \/ PostFails(d)
           \/ MarkDeliveries \/ Handled \/ Close
    PROVE  TypeInv'
<1>0. /\ w \in Worker /\ due \in BOOLEAN
      /\ TablesTypeOK /\ HistoryTypeOK /\ WorkerHasJob
  BY DEF TypeInv, TypeOK
<1>p. /\ {"top", "look", "select", "open", "login", "post", "handled", "next",
           "close"} \subseteq Places
      /\ {"sent", "discarded"} \subseteq Settled \cup {"pending", None}
  BY DEF Places, Settled
<1>f. ASSUME faults < MaxFaults, faults' = faults + 1
      PROVE  faults' \in 0 .. MaxFaults
  <2>1. faults \in 0 .. MaxFaults /\ MaxFaults \in Nat
    BY PushBounds DEF TypeInv, TypeOK
  <2> QED BY <1>f, <2>1, CountType
<1>1. CASE SelectDevices
  <2>1. TablesTypeOK' /\ HistoryTypeOK'
    BY <1>1, QuietType DEF SelectDevices
  <2> DEFINE devices == {d \in Devices : Registered(w.job, d)}
             begin   == {d \in devices : \/ delivery[w.job][d] = None
                                         \/ d \in w.old[w.job]}
             state   == [d \in Devices |-> IF d \notin devices THEN None
                                           ELSE IF d \in begin THEN "pending"
                                           ELSE delivery[w.job][d]]
             left    == {d \in devices : state[d] = "pending"}
             token   == [d \in Devices |-> IF d \in devices THEN device[d] ELSE None]
             dirty   == {d \in devices : state[d] # delivery[w.job][d]}
             pc      == IF begin # {} THEN "open"
                        ELSE IF left = {} THEN "handled" ELSE "login"
  <2>2. w' = [w EXCEPT !.token = token, !.state = state, !.dirty = dirty,
                       !.left = left, !.pc = pc]
    BY <1>1 DEF SelectDevices
  <2>3. w.job \in Jobs
    BY <1>0, <1>1 DEF SelectDevices, WorkerHasJob
  <2>4. state \in [Devices -> Settled \cup {"pending", None}]
    <3>1. delivery[w.job] \in [Devices -> Settled \cup {"pending", None}]
      BY <1>0, <2>3 DEF TablesTypeOK
    <3> HIDE DEF begin, devices
    <3> QED BY <3>1
  <2>5. token \in [Devices -> Tokens \cup {None}]
    BY DEF Registered
  <2>6. dirty \in SUBSET Devices /\ left \in SUBSET Devices /\ pc \in Places
    BY <1>p
  <2> HIDE DEF token, state, dirty, left, pc
  <2>7. w' \in Worker /\ w'.job = w.job
    BY <1>0, <2>2, <2>4, <2>5, <2>6 DEF Worker
  <2> QED BY <1>0, <1>1, <2>1, <2>3, <2>7, WorkType DEF SelectDevices, WorkerHasJob
<1>2. CASE OpenDeliveries
  <2>1. CASE CanCommit
    <3>1. TablesTypeOK' /\ HistoryTypeOK'
      BY <1>2, <2>1, CommitType DEF OpenDeliveries, TypeInv
    <3>2. w' \in Worker /\ w'.job = w.job
      <4>1. w' = [w EXCEPT !.pc = "login", !.dirty = {}, !.handled = {}]
        BY <1>2, <2>1 DEF OpenDeliveries
      <4> QED BY <1>0, <1>p, <4>1 DEF Worker
    <3>3. w.job \in Jobs
      BY <1>0, <1>2 DEF OpenDeliveries, WorkerHasJob
    <3> QED BY <1>0, <1>2, <3>1, <3>2, <3>3, WorkType DEF OpenDeliveries, WorkerHasJob
  <2>2. CASE ~CanCommit
    <3>1. TablesTypeOK' /\ HistoryTypeOK'
      BY <1>0, <1>2, <2>2 DEF OpenDeliveries, TablesTypeOK, HistoryTypeOK, tables
    <3>2. w' \in Worker /\ WorkerHasJob'
      BY <1>2, <2>2, RaisedType DEF OpenDeliveries, WorkerHasJob
    <3> QED BY <1>0, <1>2, <3>1, <3>2, WorkType DEF OpenDeliveries
  <2> QED BY <2>1, <2>2
<1>3. CASE Login
  <2>1. w' \in Worker /\ w'.job = w.job
    BY <1>0, <1>p, <1>3 DEF Login, Goto, Worker
  <2>2. w.job \in Jobs
    BY <1>0, <1>3 DEF Login, WorkerHasJob
  <2> QED BY <1>0, <1>3, <2>1, <2>2, QuietType, WorkType DEF Login, WorkerHasJob
<1>4. CASE LoginFails
  <2>1. faults' \in 0 .. MaxFaults
    BY <1>4, <1>f DEF LoginFails
  <2>2. TablesTypeOK' /\ HistoryTypeOK'
    BY <1>4, QuietType DEF LoginFails
  <2>3. w' \in Worker /\ WorkerHasJob'
    BY <1>4, UnsettledType DEF LoginFails, WorkerHasJob
  <2> QED BY <1>4, <2>1, <2>2, <2>3 DEF LoginFails, TypeInv, TypeOK
<1>5. ASSUME NEW d \in Devices, NEW state \in {"sent", "discarded"},
             w.pc = "post", Answered(d, state)
      PROVE  w' \in Worker /\ WorkerHasJob'
  <2>1. w' \in Worker /\ w'.job = w.job
    BY <1>0, <1>p, <1>5 DEF Answered, Worker
  <2>2. w.job \in Jobs
    BY <1>0, <1>5 DEF WorkerHasJob
  <2> QED BY <2>1, <2>2 DEF WorkerHasJob
<1>6. ASSUME NEW d \in Devices, PostSent(d)
      PROVE  TypeInv'
  BY <1>0, <1>5, <1>6, QuietType, WorkType DEF PostSent
<1>7. ASSUME NEW d \in Devices, PostUnregistered(d)
      PROVE  TypeInv'
  BY <1>0, <1>5, <1>7, QuietType, WorkType DEF PostUnregistered
<1>8. ASSUME NEW d \in Devices, PostFails(d)
      PROVE  TypeInv'
  <2>1. faults' \in 0 .. MaxFaults
    <3>1. faults \in 0 .. MaxFaults
      BY DEF TypeInv, TypeOK
    <3> QED BY <1>8, <1>f, <3>1 DEF PostFails
  <2>2. TablesTypeOK' /\ HistoryTypeOK'
    BY <1>8, QuietType DEF PostFails
  <2>3. w' \in Worker /\ w'.job = w.job
    BY <1>0, <1>8 DEF PostFails, Worker
  <2>4. WorkerHasJob'
    BY <1>0, <1>8, <2>3 DEF PostFails, WorkerHasJob
  <2> QED BY <1>8, <2>1, <2>2, <2>3, <2>4 DEF PostFails, TypeInv, TypeOK
<1>9. CASE MarkDeliveries
  <2>1. w.job \in Jobs
    BY <1>0, <1>9 DEF MarkDeliveries, WorkerHasJob
  <2>2. TablesTypeOK' /\ HistoryTypeOK'
    <3>1. CASE w.dirty # {} /\ CanCommit
      BY <1>9, <3>1, CommitType DEF MarkDeliveries
    <3>2. CASE ~(w.dirty # {} /\ CanCommit)
      BY <1>0, <1>9, <3>2 DEF MarkDeliveries, TablesTypeOK, HistoryTypeOK, tables
    <3> QED BY <3>1, <3>2
  <2>3. [w EXCEPT !.pc = "handled", !.dirty = {}, !.handled = {}] \in Worker
    BY <1>0, <1>p DEF Worker
  <2>4. /\ [Unsettled EXCEPT !.handled = {}] \in Worker
        /\ [Unsettled EXCEPT !.handled = {}].pc \in {"next", "top"}
    BY UnsettledType DEF Worker
  <2>5. w' \in Worker /\ WorkerHasJob'
    <3>1. CASE w.dirty = {}
      BY <1>9, <3>1, UnsettledType DEF MarkDeliveries, WorkerHasJob
    <3>2. CASE w.dirty # {} /\ CanCommit
      <4>1. \/ w' = [w EXCEPT !.pc = "handled", !.dirty = {}, !.handled = {}]
            \/ w' = [Unsettled EXCEPT !.handled = {}]
        BY <1>9, <3>2 DEF MarkDeliveries
      <4>2. CASE w' = [w EXCEPT !.pc = "handled", !.dirty = {}, !.handled = {}]
        <5>1. w'.job = w.job
          BY <1>0, <4>2 DEF Worker
        <5> QED BY <2>1, <2>3, <4>2, <5>1 DEF WorkerHasJob
      <4>3. CASE w' = [Unsettled EXCEPT !.handled = {}]
        BY <2>4, <4>3 DEF WorkerHasJob
      <4> QED BY <4>1, <4>2, <4>3
    <3>3. CASE w.dirty # {} /\ ~CanCommit
      BY <1>9, <3>3, RaisedType DEF MarkDeliveries, WorkerHasJob
    <3> QED BY <3>1, <3>2, <3>3
  <2> QED BY <1>0, <1>9, <2>2, <2>5, WorkType DEF MarkDeliveries
<1>10. CASE Handled
  <2>1. w.job \in Jobs
    BY <1>0, <1>10 DEF Handled, WorkerHasJob
  <2>2. w' \in Worker /\ w'.pc \in {"next", "close"}
    BY <1>0, <1>p, <1>10, <2>1 DEF Handled, Worker
  <2> QED BY <1>0, <1>10, <2>2, QuietType, WorkType DEF Handled, WorkerHasJob
<1>11. CASE Close
  <2>1. TablesTypeOK' /\ HistoryTypeOK'
    <3>1. CASE CanCommit
      BY <1>11, <3>1, CommitType DEF Close
    <3>2. CASE ~CanCommit
      BY <1>0, <1>11, <3>2 DEF Close, TablesTypeOK, HistoryTypeOK, tables
    <3> QED BY <3>1, <3>2
  <2>2. w' \in Worker /\ WorkerHasJob'
    BY <1>11, RaisedType DEF Close, WorkerHasJob
  <2> QED BY <1>0, <1>11, <2>1, <2>2, WorkType DEF Close
<1> QED BY <1>1, <1>2, <1>3, <1>4, <1>6, <1>7, <1>8, <1>9, <1>10, <1>11

LEMMA LoopTypes ==
    ASSUME TypeInv,
           NoRetryYet \/ SelectPending \/ NextPending \/ Tick \/ Crash \/ Restart
    PROVE  TypeInv'
<1>0. /\ w \in Worker /\ due \in BOOLEAN
      /\ TablesTypeOK /\ HistoryTypeOK /\ WorkerHasJob
  BY DEF TypeInv, TypeOK
<1>p. {"down", "top", "look", "select", "next", "close"} \subseteq Places
  BY DEF Places
<1>1. CASE NoRetryYet
  <2>1. w' \in Worker /\ w'.pc = "look"
    BY <1>0, <1>p, <1>1 DEF NoRetryYet, Goto, Worker
  <2> QED BY <1>0, <1>1, <2>1, QuietType, WorkType DEF NoRetryYet, WorkerHasJob
<1>2. CASE SelectPending
  <2> DEFINE waiting == {j \in Jobs : row[j] = [status  |-> "completed",
                                                pending |-> TRUE]}
             batch == {j \in waiting : Cardinality(older[j] \cap waiting) < Batch}
             old == [j \in Jobs |-> IF j \in batch THEN stale[j] ELSE {}]
  <2>1. w' = [Idle("next") EXCEPT !.retry = TRUE, !.todo = batch, !.old = old]
    BY <1>2 DEF SelectPending
  <2>2. batch \in SUBSET Jobs
    OBVIOUS
  <2>3. old \in [Jobs -> SUBSET Devices]
    BY <1>0 DEF TablesTypeOK
  <2> HIDE DEF batch, old
  <2>4. Idle("next") \in Worker /\ Idle("next").pc = "next"
    BY <1>p, IdleType DEF Idle
  <2>5. w' \in Worker /\ w'.pc = "next"
    BY <2>1, <2>2, <2>3, <2>4 DEF Worker
  <2>6. TablesTypeOK' /\ HistoryTypeOK'
    BY <1>2, QuietType DEF SelectPending
  <2> QED BY <1>2, <2>5, <2>6, WorkType DEF SelectPending, WorkerHasJob
<1>3. CASE NextPending
  <2>1. TablesTypeOK' /\ HistoryTypeOK'
    BY <1>3, QuietType DEF NextPending
  <2>2. CASE w.todo = {}
    <3>1. w' \in Worker /\ w'.pc = "close"
      BY <1>0, <1>p, <1>3, <2>2 DEF NextPending, Goto, Worker
    <3> QED BY <1>0, <1>3, <2>1, <3>1, WorkType DEF NextPending, WorkerHasJob
  <2>3. CASE w.todo # {}
    <3>1. PICK j \in w.todo : w' = [w EXCEPT !.pc = "select", !.job = j,
                                             !.todo = @ \ {j}, !.dirty = {}]
      BY <1>3, <2>3 DEF NextPending
    <3>2. w.todo \in SUBSET Jobs
      BY <1>0 DEF Worker
    <3>3. w' \in Worker /\ w'.job \in Jobs
      BY <1>0, <1>p, <3>1, <3>2 DEF Worker
    <3> QED BY <1>0, <1>3, <2>1, <3>3, WorkType DEF NextPending, WorkerHasJob
  <2> QED BY <2>2, <2>3
<1>4. CASE Tick
  BY <1>0, <1>4, QuietType, WorkType DEF Tick, WorkerHasJob
<1>5. CASE Crash
  <2>1. crashes \in 0 .. MaxCrashes /\ MaxCrashes \in Nat
    BY PushBounds DEF TypeInv, TypeOK
  <2>2. crashes' \in 0 .. MaxCrashes
    BY <1>5, <2>1, CountType DEF Crash
  <2>3. w' \in Worker /\ w'.pc = "down"
    BY <1>p, <1>5, IdleType DEF Crash, Idle
  <2>4. TablesTypeOK' /\ HistoryTypeOK'
    BY <1>5, QuietType DEF Crash
  <2> QED BY <1>5, <2>2, <2>3, <2>4 DEF Crash, TypeInv, TypeOK, WorkerHasJob
<1>6. CASE Restart
  <2> DEFINE running == {j \in Jobs : row[j] # None /\ row[j].status = "running"}
             rows == [j \in running |-> [row[j] EXCEPT !.status = "queued"]]
  <2>1. \A j \in running : rows[j] \in Row
    BY <1>0 DEF TablesTypeOK, Row, Statuses
  <2>2. WriteJobs(running, rows)
    BY <1>6 DEF Restart
  <2>3. running \in SUBSET Jobs
    OBVIOUS
  <2> HIDE DEF running, rows
  <2>4. TablesTypeOK' /\ owed' \in [Jobs -> SUBSET Devices]
    BY <2>1, <2>2, <2>3, WriteJobsType
  <2>5. w' \in Worker /\ w'.pc = "top"
    BY <1>p, <1>6, IdleType DEF Restart, Idle
  <2>6. HistoryTypeOK'
    BY <1>0, <1>6, <2>4 DEF Restart, HistoryTypeOK
  <2> QED BY <1>6, <2>4, <2>5, <2>6, WorkType DEF Restart, WorkerHasJob
<1> QED BY <1>1, <1>2, <1>3, <1>4, <1>5, <1>6

LEMMA TypeStep == TypeInv /\ [Next]_vars => TypeInv'
<1> SUFFICES ASSUME TypeInv, [Next]_vars PROVE TypeInv'
  OBVIOUS
<1>1. CASE UNCHANGED vars
  BY <1>1, QuietType DEF vars, TypeInv, TypeOK, WorkerHasJob
<1>2. CASE Next
  BY <1>2, RequestTypes, RoundTypes, PushTypes, LoopTypes DEF Next, WorkStep
<1> QED BY <1>1, <1>2

\* notifications.py, finish_job and the retry keep every row, delivery and
\* session in the states they are declared to have.
THEOREM PushTypeCorrect == Spec => []TypeOK
<1>1. TypeInv => TypeOK
  BY DEF TypeInv
<1> QED BY <1>1, TypeInit, TypeStep, PTL DEF Spec
-----------------------------------------------------------------------------
(* No device is forgotten, and none is told twice. *)

\* Whoever is owed an answer still has a token in the job's account.
OwedIsRegistered == \A j \in Jobs : \A d \in owed[j] : Registered(j, d)

OwedIsCompleted ==
    \A j \in Jobs : owed[j] # {} => row[j] # None /\ row[j].status = "completed"

FlagIsSet ==
    \A j \in Jobs : owed[j] # {} /\ j \notin touched => row[j].pending

\* An answer of an earlier cycle is recognised in the table ...
SettledIsStale ==
    \A j \in Jobs : \A d \in owed[j] :
      j \notin touched /\ delivery[j][d] \in Settled => d \in stale[j]

\* ... and in the copy of a session that has yet to look at it.
CopiesKnowStale ==
    \A j \in Jobs :
      /\ owed[j] # {} /\ j \notin touched
      /\ j \in w.todo \/ (w.pc = "select" /\ j = w.job)
      => stale[j] \subseteq w.old[j]

\* During a round the row is not that of an ended job.
RoundIsOpen ==
    w.pc \in {"round", "outcome"} =>
      /\ w.handled = {}
      /\ row[w.job] # None => row[w.job].status # "completed"

\* The worker decides on the row as it is, unless a request wrote it since.
CopyIsFresh ==
    w.pc = "outcome" /\ row[w.job] # None /\ w.job \notin touched
      => row[w.job] = w.seen

\* While a job's devices are asked, one that is owed an answer is pending, or
\* its answer is about to be committed.
AnswersAreDirty ==
    w.pc \in {"open", "login", "post"} /\ w.job \notin touched =>
      \A d \in owed[w.job] :
        \/ w.state[d] = "pending"
        \/ w.pc = "post" /\ w.state[d] \in Settled /\ d \in w.dirty

\* The flags that the session clears, or is about to, are of settled jobs.
HandledIsSettled ==
    \A j \in Jobs : (w.pc = "handled" /\ j = w.job) \/ j \in w.handled
                      => j \in touched \/ owed[j] = {}

\* What the tables and the history say, and what the session does.
TablesInv  == OwedIsRegistered /\ OwedIsCompleted /\ FlagIsSet /\ SettledIsStale
SessionInv == /\ CopiesKnowStale /\ RoundIsOpen /\ CopyIsFresh
              /\ AnswersAreDirty /\ HandledIsSettled
PushInv    == TablesInv /\ SessionInv

-----------------------------------------------------------------------------
\* Requests and rounds

\* A new or empty session owes the tables nothing.
LEMMA IdleInv ==
    ASSUME w'.pc \in {"down", "top", "look"}, w'.todo = {}, w'.handled = {}
    PROVE  SessionInv'
BY DEF SessionInv, CopiesKnowStale, RoundIsOpen, CopyIsFresh, AnswersAreDirty,
       HandledIsSettled

LEMMA QuietInv ==
    PushInv /\ UNCHANGED <<tables, history, w>> => PushInv'
<1> SUFFICES ASSUME PushInv, UNCHANGED <<tables, history, w>> PROVE PushInv'
  OBVIOUS
<1>1. TablesInv'
  BY DEF PushInv, TablesInv, OwedIsRegistered, OwedIsCompleted, FlagIsSet,
         SettledIsStale, Registered, tables, history
<1>2. SessionInv'
  BY DEF PushInv, SessionInv, CopiesKnowStale, RoundIsOpen, CopyIsFresh,
         AnswersAreDirty, HandledIsSettled, tables, history
<1> QED BY <1>1, <1>2 DEF PushInv

\* The tables alone do not change.
LEMMA QuietTablesInv ==
    TablesInv /\ UNCHANGED <<tables, history>> => TablesInv'
BY DEF TablesInv, OwedIsRegistered, OwedIsCompleted, FlagIsSet,
       SettledIsStale, Registered, tables, history

\* A commit that touches no device or delivery, of rows that are owed nothing
\* or that a request is known to have written.
LEMMA WriteKeeps ==
    ASSUME TypeInv, TablesInv, NEW written \in SUBSET Jobs, NEW new,
           WriteJobs(written, new), touched \subseteq touched',
           \A j \in written : j \in touched' \/ owed[j] = {}
    PROVE  /\ TablesInv'
           /\ \A j \in Jobs : owed'[j] \subseteq owed[j]
           /\ \A j \in Jobs \ written : row'[j] = row[j] /\ stale'[j] = stale[j]
<1>1. \A j \in Jobs \ written : row'[j] = row[j] /\ stale'[j] = stale[j]
  BY DEF WriteJobs, Write
<1>2. \A j \in Jobs : owed'[j] = IF row'[j] # None /\ row'[j].status = "completed"
                                 THEN owed[j] ELSE {}
  BY DEF WriteJobs
<1>3. device' = device /\ delivery' = delivery
  BY DEF WriteJobs
<1>4. OwedIsRegistered'
  BY <1>2, <1>3 DEF TablesInv, OwedIsRegistered, Registered
<1>5. OwedIsCompleted'
  BY <1>2 DEF OwedIsCompleted
<1>6. FlagIsSet'
  BY <1>1, <1>2 DEF TablesInv, FlagIsSet
<1>7. SettledIsStale'
  BY <1>1, <1>2, <1>3 DEF TablesInv, SettledIsStale
<1> QED BY <1>1, <1>2, <1>4, <1>5, <1>6, <1>7 DEF TablesInv

\* What a request or another device changes leaves a session right about
\* whatever it is still owed.
LEMMA SessionKeeps ==
    ASSUME SessionInv, w' = w, touched \subseteq touched',
           \A j \in Jobs : owed'[j] \subseteq owed[j],
           \A j \in Jobs \ touched' : stale'[j] \subseteq stale[j],
           \A j \in Jobs : row'[j] # None =>
             /\ row[j] # None
             /\ row'[j].status = "completed" => row[j].status = "completed",
           \A j \in Jobs \ touched' : row'[j] # None => row'[j] = row[j],
           WorkerHasJob
    PROVE  SessionInv'
<1>1. CopiesKnowStale' /\ HandledIsSettled'
  BY DEF SessionInv, CopiesKnowStale, HandledIsSettled
<1>2. AnswersAreDirty'
  BY DEF SessionInv, AnswersAreDirty, WorkerHasJob
<1>3. RoundIsOpen' /\ CopyIsFresh'
  BY DEF SessionInv, RoundIsOpen, CopyIsFresh, WorkerHasJob
<1> QED BY <1>1, <1>2, <1>3 DEF SessionInv

-----------------------------------------------------------------------------
\* No request completes a job.
LEMMA OutcomeReopens ==
    ASSUME NEW op, NEW seen \in Row, Outcome(op, seen).status = "completed"
    PROVE  Outcome(op, seen).status = seen.status
<1>1. CASE op = "clue" /\ seen.status \in Continuable
  BY <1>1 DEF Outcome, Fresh
<1>2. CASE ~(op = "clue" /\ seen.status \in Continuable)
  BY <1>2 DEF Outcome, Row
<1> QED BY <1>1, <1>2

LEMMA RequestsKeep ==
    ASSUME TypeInv, PushInv
    PROVE  /\ \A c \in Clients, op \in Ops, j \in Jobs : ReadCall(c, op, j) => PushInv'
           /\ \A c \in Clients : CommitCall(c) \/ CommitDelete(c) => PushInv'
           /\ \A d \in Devices, t \in Tokens \cup {""} :
                UpdatePushToken(d, t) => PushInv'
           /\ \A d \in Devices : RevokeDevice(d) => PushInv'
           /\ \A t \in Tokens : TokenDies(t) => PushInv'
<1>0. /\ TablesInv /\ SessionInv /\ WorkerHasJob
      /\ TablesTypeOK /\ HistoryTypeOK
      /\ call \in [Clients -> [op : Ops, job : Jobs, seen : Row] \cup {None}]
  BY DEF PushInv, TypeInv, TypeOK
<1>1. ASSUME NEW c \in Clients, NEW op \in Ops, NEW j \in Jobs, ReadCall(c, op, j)
      PROVE  PushInv'
  BY <1>1, QuietInv DEF ReadCall
<1>2. ASSUME NEW c \in Clients, CommitCall(c) PROVE PushInv'
  <2> DEFINE j    == call[c].job
             seen == call[c].seen
             new  == Outcome(call[c].op, seen)
             put  == [row EXCEPT ![j] =
                       [status  |-> Column(@.status, seen.status, new.status),
                        pending |-> Column(@.pending, seen.pending, new.pending)]]
  <2>1. j \in Jobs /\ seen \in Row
    BY <1>0, <1>2 DEF CommitCall
  <2>2. CASE row[j] = None
    BY <1>2, <2>2, QuietInv DEF CommitCall
  <2>3. CASE row[j] # None
    <3>1. /\ WriteJobs({j}, put)
          /\ touched' = touched \cup {j} /\ w' = w
      BY <1>2, <2>3 DEF CommitCall
    <3>2. put[j].status = "completed" => row[j].status = "completed"
      <4>1. put[j].status = Column(row[j].status, seen.status, new.status)
        BY <1>0, <2>1 DEF TablesTypeOK
      <4> QED BY <2>1, <4>1, OutcomeReopens DEF Column
    <3>3. row'[j] = put[j]
      BY <2>1, <3>1 DEF WriteJobs, Write
    <3> HIDE DEF j, put
    <3>4. TablesInv' /\ (\A k \in Jobs : owed'[k] \subseteq owed[k])
          /\ \A k \in Jobs \ {j} : row'[k] = row[k] /\ stale'[k] = stale[k]
      BY <1>0, <2>1, <3>1, WriteKeeps
    <3>5. SessionInv'
      BY <1>0, <2>3, <3>1, <3>2, <3>3, <3>4, SessionKeeps
    <3> QED BY <3>4, <3>5 DEF PushInv
  <2> QED BY <2>2, <2>3
<1>3. ASSUME NEW c \in Clients, CommitDelete(c) PROVE PushInv'
  <2> DEFINE j == call[c].job
  <2>1. j \in Jobs
    BY <1>0, <1>3 DEF CommitDelete
  <2>2. /\ row' = [row EXCEPT ![j] = None]
        /\ delivery' = [delivery EXCEPT ![j] = [d \in Devices |-> None]]
        /\ stale' = [stale EXCEPT ![j] = {}]
        /\ owed' = [owed EXCEPT ![j] = {}]
        /\ touched' = touched /\ device' = device /\ w' = w
    BY <1>3 DEF CommitDelete
  <2> HIDE DEF j
  <2>3. /\ owed'[j] = {} /\ row'[j] = None /\ stale'[j] = {}
        /\ \A k \in Jobs \ {j} : /\ owed'[k] = owed[k] /\ row'[k] = row[k]
                                 /\ stale'[k] = stale[k]
                                 /\ delivery'[k] = delivery[k]
    BY <1>0, <2>1, <2>2 DEF TablesTypeOK, HistoryTypeOK
  <2>4. TablesInv'
    BY <1>0, <2>2, <2>3 DEF TablesInv, OwedIsRegistered, OwedIsCompleted,
       FlagIsSet, SettledIsStale, Registered
  <2>5. SessionInv'
    BY <1>0, <2>2, <2>3, SessionKeeps
  <2> QED BY <2>4, <2>5 DEF PushInv
<1>4. ASSUME NEW gone \in SUBSET Devices, NoLongerOwed(gone),
             row' = row, touched' = touched, w' = w,
             \A d \in Devices \ gone :
               /\ device'[d] = device[d]
               /\ \A j \in Jobs : /\ delivery'[j][d] = delivery[j][d]
                                  /\ d \in stale[j] => d \in stale'[j],
             \A j \in Jobs : stale'[j] \subseteq stale[j]
      PROVE  PushInv'
  <2>1. \A j \in Jobs : /\ owed'[j] = owed[j] \ gone
                        /\ owed[j] \in SUBSET Devices
    BY <1>0, <1>4 DEF NoLongerOwed, HistoryTypeOK
  <2>2. TablesInv'
    BY <1>0, <1>4, <2>1 DEF TablesInv, OwedIsRegistered, OwedIsCompleted,
       FlagIsSet, SettledIsStale, Registered
  <2>3. SessionInv'
    BY <1>0, <1>4, <2>1, SessionKeeps
  <2> QED BY <2>2, <2>3 DEF PushInv
<1>5. ASSUME NEW d \in Devices, NEW t \in Tokens \cup {""}, UpdatePushToken(d, t)
      PROVE  PushInv'
  <2> DEFINE holders == {e \in Devices : t # "" /\ device[e] = t}
  <2>1. /\ holders \cup {d} \in SUBSET Devices /\ NoLongerOwed(holders \cup {d})
        /\ row' = row /\ touched' = touched /\ w' = w
        /\ delivery' = delivery /\ stale' = stale
        /\ \A e \in Devices \ (holders \cup {d}) : device'[e] = device[e]
    BY <1>5 DEF UpdatePushToken
  <2> QED BY <1>4, <2>1
<1>6. ASSUME NEW d \in Devices, RevokeDevice(d) PROVE PushInv'
  <2>1. /\ NoLongerOwed({d}) /\ row' = row /\ touched' = touched /\ w' = w
        /\ device' = [device EXCEPT ![d] = None]
        /\ delivery' = [j \in Jobs |-> [delivery[j] EXCEPT ![d] = None]]
        /\ stale' = [j \in Jobs |-> stale[j] \ {d}]
    BY <1>6 DEF RevokeDevice
  <2>2. /\ \A j \in Jobs : stale'[j] = stale[j] \ {d}
        /\ \A e \in Devices \ {d} :
             /\ device'[e] = device[e]
             /\ \A j \in Jobs : delivery'[j][e] = delivery[j][e]
    BY <1>0, <2>1 DEF TablesTypeOK
  <2> QED BY <1>4, <2>1, <2>2
<1>7. ASSUME NEW t \in Tokens, TokenDies(t) PROVE PushInv'
  BY <1>7, QuietInv DEF TokenDies
<1> QED BY <1>1, <1>2, <1>3, <1>5, <1>6, <1>7

LEMMA RoundsKeep ==
    ASSUME TypeInv, PushInv
    PROVE  /\ \A j \in Jobs : Claim(j) => PushInv'
           /\ NothingToDo \/ Reload \/ Abandon \/ FinishJob => PushInv'
           /\ \A status \in {"failed", "queued"} : EndRound(status) => PushInv'
<1>0. /\ TablesInv /\ SessionInv /\ WorkerHasJob
      /\ TablesTypeOK /\ HistoryTypeOK /\ w \in Worker
  BY DEF PushInv, TypeInv, TypeOK
<1>1. \A pc \in {"top", "look", "down"} :
        w' = Idle(pc) => w'.pc = pc /\ w'.todo = {} /\ w'.handled = {}
  BY DEF Idle
\* A commit of a row that is owed nothing ends the round.
<1>2. ASSUME NEW j \in Jobs, NEW new, WriteJobs({j}, new), w' = Idle("top"),
             touched' = touched, owed[j] = {}
      PROVE  PushInv'
  <2>1. TablesInv'
    BY <1>0, <1>2, WriteKeeps
  <2>2. SessionInv'
    BY <1>1, <1>2, IdleInv
  <2> QED BY <2>1, <2>2 DEF PushInv
<1>3. ASSUME UNCHANGED <<tables, history>>, w' = Idle("top") PROVE PushInv'
  BY <1>0, <1>1, <1>3, QuietTablesInv, IdleInv DEF PushInv
<1>4. w.pc \in {"round", "outcome"} => /\ w.job \in Jobs /\ w.handled = {}
                                       /\ row[w.job] # None => owed[w.job] = {}
  BY <1>0 DEF SessionInv, RoundIsOpen, TablesInv, OwedIsCompleted, WorkerHasJob
<1>5. ASSUME NEW j \in Jobs, Claim(j) PROVE PushInv'
  <2> DEFINE put == [row EXCEPT ![j].status = "running"]
  <2>1. /\ row[j] # None /\ row[j].status = "queued" /\ WriteJobs({j}, put)
        /\ w' = [Idle("round") EXCEPT !.job = j] /\ touched' = touched
    BY <1>5 DEF Claim
  <2>2. owed[j] = {}
    BY <1>0, <2>1 DEF TablesInv, OwedIsCompleted
  <2>3. row'[j].status = "running"
    <3>1. row'[j] = put[j]
      BY <2>1 DEF WriteJobs, Write
    <3>2. row \in [Jobs -> Row \cup {None}]
      BY <1>0 DEF TablesTypeOK
    <3> QED BY <2>1, <3>1, <3>2 DEF Row
  <2> HIDE DEF put
  <2>4. TablesInv'
    BY <1>0, <2>1, <2>2, WriteKeeps
  <2>5. w'.pc = "round" /\ w'.job = j /\ w'.todo = {} /\ w'.handled = {}
    BY <2>1 DEF Idle
  <2>6. SessionInv'
    BY <2>3, <2>5 DEF SessionInv, CopiesKnowStale, RoundIsOpen, CopyIsFresh,
       AnswersAreDirty, HandledIsSettled
  <2> QED BY <2>4, <2>6 DEF PushInv
<1>6. CASE NothingToDo
  BY <1>3, <1>6 DEF NothingToDo
<1>7. CASE Reload
  <2>1. /\ w.pc = "round" /\ row[w.job] # None
        /\ w' = [w EXCEPT !.pc = "outcome", !.seen = row[w.job]]
        /\ touched' = touched \ {w.job} /\ owed' = owed /\ UNCHANGED tables
    BY <1>7 DEF Reload
  <2>2. w.job \in Jobs /\ w.handled = {} /\ owed[w.job] = {}
    BY <1>4, <2>1
  <2>3. TablesInv'
    BY <1>0, <2>1, <2>2 DEF TablesInv, OwedIsRegistered, OwedIsCompleted,
       FlagIsSet, SettledIsStale, Registered, tables
  <2>4. /\ w'.pc = "outcome" /\ w'.seen = row[w.job] /\ w'.job = w.job
        /\ w'.todo = w.todo /\ w'.handled = w.handled /\ w'.old = w.old
    BY <1>0, <2>1 DEF Worker
  <2>5. SessionInv'
    BY <1>0, <2>1, <2>2, <2>4 DEF SessionInv, CopiesKnowStale, RoundIsOpen,
       CopyIsFresh, AnswersAreDirty, HandledIsSettled, tables
  <2> QED BY <2>3, <2>5 DEF PushInv
<1>8. CASE Abandon
  <2>1. CASE row[w.job] # None /\ row[w.job].status = "stopped"
    <3> DEFINE put == [row EXCEPT ![w.job].pending = FALSE]
    <3>1. /\ w.pc = "round" /\ WriteJobs({w.job}, put)
          /\ w' = Idle("top") /\ touched' = touched
      BY <1>8, <2>1 DEF Abandon
    <3> HIDE DEF put
    <3> QED BY <1>2, <1>4, <2>1, <3>1
  <2>2. CASE ~(row[w.job] # None /\ row[w.job].status = "stopped")
    BY <1>3, <1>8, <2>2 DEF Abandon, history
  <2> QED BY <2>1, <2>2
<1>9. ASSUME NEW status \in {"failed", "queued"}, EndRound(status) PROVE PushInv'
  <2>1. CASE row[w.job] = None
    BY <1>3, <1>9, <2>1 DEF EndRound, history
  <2>2. CASE row[w.job] # None
    <3> DEFINE put == [row EXCEPT ![w.job] =
              [status  |-> Column(@.status, w.seen.status, status),
               pending |-> IF status = "failed"
                           THEN Column(@.pending, w.seen.pending, FALSE)
                           ELSE @.pending]]
    <3>1. /\ w.pc = "outcome" /\ WriteJobs({w.job}, put)
          /\ w' = Idle("top") /\ touched' = touched
      BY <1>9, <2>2 DEF EndRound
    <3> HIDE DEF put
    <3> QED BY <1>2, <1>4, <2>2, <3>1
  <2> QED BY <2>1, <2>2
<1>10. CASE FinishJob
  <2>1. CASE row[w.job] = None
    BY <1>3, <1>10, <2>1 DEF FinishJob, history
  <2>2. CASE row[w.job] # None
    <3> DEFINE j   == w.job
               put == [row EXCEPT ![j] =
                   [status  |-> Column(@.status, w.seen.status, "completed"),
                    pending |-> Column(@.pending, w.seen.pending, TRUE)]]
               begun == {d \in Devices : delivery[j][d] # None}
    <3>1. /\ w.pc = "outcome" /\ Write({j}, put)
          /\ stale' = [stale EXCEPT ![j] = begun]
          /\ owed' = [owed EXCEPT ![j] =
                        IF row'[j].status = "completed"
                        THEN {d \in Devices : Registered(j, d)} ELSE {}]
          /\ device' = device /\ delivery' = delivery /\ touched' = touched
          /\ w' = [w EXCEPT !.pc = "select",
                            !.old = [@ EXCEPT ![j] = stale'[j]]]
      BY <1>10, <2>2 DEF FinishJob
    <3>2. j \in Jobs /\ w.handled = {}
      BY <1>4, <3>1
    <3>3. \A k \in Jobs \ {j} : /\ row'[k] = row[k] /\ owed'[k] = owed[k]
                                /\ stale'[k] = stale[k]
      BY <1>0, <3>1 DEF Write, TablesTypeOK, HistoryTypeOK
    <3>4. row'[j] = put[j] /\ stale'[j] = begun
      BY <1>0, <3>1, <3>2 DEF Write, TablesTypeOK
    <3>5. row'[j] # None
      <4>1. row \in [Jobs -> Row \cup {None}] /\ w.seen \in Row
        BY <1>0 DEF TablesTypeOK, Worker
      <4>2. put[j] \in Row
        BY <2>2, <3>2, <4>1 DEF Row, Column, Statuses
      <4> QED BY <3>4, <4>2, PushNoneIsNoRow
    <3>6. j \notin touched => row'[j].pending
      <4>1. ASSUME j \notin touched PROVE row[j] = w.seen
        BY <1>0, <2>2, <3>1, <4>1 DEF SessionInv, CopyIsFresh
      <4>2. put[j].pending = Column(row[j].pending, w.seen.pending, TRUE)
        BY <1>0, <3>2 DEF TablesTypeOK
      <4>3. w.seen.pending \in BOOLEAN
        BY <1>0 DEF Worker, Row
      <4> QED BY <3>4, <4>1, <4>2, <4>3 DEF Column
    <3>7. owed'[j] = IF row'[j].status = "completed"
                     THEN {d \in Devices : Registered(j, d)} ELSE {}
      BY <1>0, <3>1, <3>2 DEF HistoryTypeOK
    <3> HIDE DEF j, put
    <3>8. TablesInv'
      <4>1. OwedIsRegistered' /\ OwedIsCompleted'
        BY <1>0, <3>1, <3>3, <3>5, <3>7 DEF TablesInv, OwedIsRegistered,
           OwedIsCompleted, Registered
      <4>2. FlagIsSet'
        BY <1>0, <3>1, <3>3, <3>6 DEF TablesInv, FlagIsSet
      <4>3. \A d \in Devices : delivery[j][d] \in Settled => d \in begun
        BY PushAssumption DEF Settled
      <4>4. owed'[j] \subseteq Devices
        BY <3>7
      <4>5. SettledIsStale'
        <5> HIDE DEF begun
        <5> QED BY <1>0, <3>1, <3>3, <3>4, <4>3, <4>4 DEF TablesInv, SettledIsStale
      <4> QED BY <4>1, <4>2, <4>5 DEF TablesInv
    <3>9. /\ w'.pc = "select" /\ w'.job = j /\ w'.todo = w.todo
          /\ w'.handled = w.handled /\ w'.old[j] = stale'[j]
          /\ \A k \in Jobs \ {j} : w'.old[k] = w.old[k]
      BY <1>0, <3>1, <3>2 DEF Worker, j
    <3>10. SessionInv'
      BY <1>0, <3>1, <3>2, <3>3, <3>9 DEF SessionInv, CopiesKnowStale,
         RoundIsOpen, CopyIsFresh, AnswersAreDirty, HandledIsSettled
    <3> QED BY <3>8, <3>10 DEF PushInv
  <2> QED BY <2>1, <2>2
<1> QED BY <1>5, <1>6, <1>7, <1>8, <1>9, <1>10

-----------------------------------------------------------------------------
\* The pushes

\* What a commit of the session's answers makes of the tables.
LEMMA CommitKeeps ==
    ASSUME TypeInv, PushInv, CanCommit, Commit, touched' = touched
    PROVE  /\ TablesInv'
           /\ \A j \in Jobs : owed'[j] \subseteq owed[j]
           /\ \A j \in Jobs \ w.handled : stale'[j] \subseteq stale[j]
           /\ w.job \in Jobs => \A d \in owed'[w.job] :
                d \in w.dirty => w.state[d] \notin Settled
<1>0. /\ TablesInv /\ TablesTypeOK /\ HistoryTypeOK
      /\ w.handled \in SUBSET Jobs /\ w.dirty \in SUBSET Devices
      /\ \A j \in w.handled : row[j] # None /\ (j \in touched \/ owed[j] = {})
  BY DEF PushInv, SessionInv, HandledIsSettled, TypeInv, TypeOK, Worker, CanCommit
<1>1. \A j \in Jobs : owed'[j] = owed[j] \ {d \in w.dirty :
                            \/ w.state[d] = "discarded"
                            \/ w.state[d] = "sent" /\ j = w.job}
  BY DEF Commit
<1>2. \A j \in Jobs : row'[j] = IF j \in w.handled
                                THEN [row[j] EXCEPT !.pending = FALSE] ELSE row[j]
  BY <1>0 DEF Commit, Write
<1>3. /\ \A j \in Jobs : stale'[j] = StillStale(j)
      /\ \A j \in Jobs, d \in Devices :
           delivery'[j][d] = IF j = w.job /\ d \in w.dirty THEN w.state[d]
                             ELSE delivery[j][d]
      /\ \A d \in Devices :
           device'[d] = IF d \in w.dirty /\ w.state[d] = "discarded" THEN ""
                        ELSE device[d]
  BY DEF Commit
<1>4. \A j \in Jobs : owed[j] \in SUBSET Devices
  BY <1>0 DEF HistoryTypeOK
<1>5. OwedIsRegistered'
  <2>1. ASSUME NEW j \in Jobs, NEW d \in owed'[j]
        PROVE  d \in owed[j] /\ device'[d] = device[d]
    <3>1. d \in owed[j] /\ ~(d \in w.dirty /\ w.state[d] = "discarded")
      BY <1>1
    <3>2. d \in Devices
      BY <1>4, <3>1
    <3> QED BY <1>3, <3>1, <3>2
  <2> QED BY <1>0, <2>1 DEF TablesInv, OwedIsRegistered, Registered
<1>6. OwedIsCompleted'
  <2>1. \A j \in Jobs : row[j] # None =>
          row'[j] # None /\ row'[j].status = row[j].status
    <3>1. \A j \in Jobs : row[j] # None => row[j] \in Row
      BY <1>0 DEF TablesTypeOK
    <3>2. \A r \in Row : /\ [r EXCEPT !.pending = FALSE] \in Row
                         /\ [r EXCEPT !.pending = FALSE].status = r.status
      BY DEF Row
    <3> QED BY <1>2, <3>1, <3>2, PushNoneIsNoRow
  <2> QED BY <1>0, <1>1, <2>1 DEF TablesInv, OwedIsCompleted
<1>7. FlagIsSet'
  BY <1>0, <1>1, <1>2 DEF TablesInv, FlagIsSet
<1>8. \A j \in Jobs \ w.handled : \A d \in Devices :
        d \in stale'[j] <=> d \in stale[j] /\ ~(j = w.job /\ d \in w.dirty)
  <2>1. \A j \in Jobs : stale[j] \in SUBSET Devices
    BY <1>0 DEF TablesTypeOK
  <2> QED BY <1>3, <2>1 DEF StillStale
<1>9. SettledIsStale'
  <2>1. SUFFICES ASSUME NEW j \in Jobs, NEW d \in owed'[j], j \notin touched,
                        delivery'[j][d] \in Settled
                 PROVE  d \in stale'[j]
    BY DEF SettledIsStale
  <2>2. d \in owed[j] /\ d \in Devices /\ j \notin w.handled
    BY <1>0, <1>1, <1>4, <2>1
  <2>3. ~(j = w.job /\ d \in w.dirty)
    <3>1. SUFFICES ASSUME j = w.job, d \in w.dirty PROVE FALSE
      OBVIOUS
    <3>2. delivery'[j][d] = w.state[d]
      BY <1>3, <2>2, <3>1
    <3>3. w.state[d] \notin {"sent", "discarded"}
      BY <1>1, <2>1, <3>1
    <3> QED BY <2>1, <3>2, <3>3 DEF Settled
  <2>4. d \in stale[j]
    BY <1>0, <1>3, <2>1, <2>2, <2>3 DEF TablesInv, SettledIsStale
  <2> QED BY <1>8, <2>2, <2>3, <2>4
<1>10. \A j \in Jobs \ w.handled : stale'[j] \subseteq stale[j]
  <2>1. \A j \in Jobs : stale[j] \in SUBSET Devices
    BY <1>0 DEF TablesTypeOK
  <2> QED BY <1>3, <2>1 DEF StillStale
<1>11. w.job \in Jobs => \A d \in owed'[w.job] : d \in w.dirty =>
                           w.state[d] \notin Settled
  BY <1>1 DEF Settled
<1> QED BY <1>1, <1>5, <1>6, <1>7, <1>9, <1>10, <1>11 DEF TablesInv

LEMMA PushesKeep ==
    ASSUME TypeInv, PushInv
    PROVE  /\ SelectDevices \/ OpenDeliveries \/ Login \/ LoginFails => PushInv'
           /\ \A d \in Devices :
                PostSent(d) \/ PostUnregistered(d) \/ PostFails(d) => PushInv'
           /\ MarkDeliveries \/ Handled \/ Close => PushInv'
<1>0. /\ TablesInv /\ SessionInv /\ WorkerHasJob
      /\ TablesTypeOK /\ HistoryTypeOK /\ w \in Worker
  BY DEF PushInv, TypeInv, TypeOK
<1>1. /\ CopiesKnowStale /\ AnswersAreDirty /\ HandledIsSettled
      /\ \A j \in Jobs : owed[j] \in SUBSET Devices
  BY <1>0 DEF SessionInv, HistoryTypeOK
\* The places where no job is at hand, with what is handled and what is to do.
<1>2. ASSUME w'.pc \in {"top", "look", "next", "close"}, touched' = touched,
             w'.todo \subseteq w.todo, w'.old = w.old,
             \A j \in w'.handled : j \in Jobs => j \in touched \/ owed'[j] = {},
             \A j \in Jobs : owed'[j] \subseteq owed[j],
             \A j \in Jobs : j \in touched \/ owed'[j] = {}
                               \/ stale'[j] \subseteq stale[j]
      PROVE  SessionInv'
  <2>1. CopiesKnowStale'
    BY <1>1, <1>2 DEF CopiesKnowStale
  <2> QED BY <1>2, <2>1 DEF SessionInv, RoundIsOpen, CopyIsFresh,
                            AnswersAreDirty, HandledIsSettled
\* No table changes, and the session raises or gives up.
<1>3. ASSUME UNCHANGED <<tables, history>>, Raised \/ w' = Unsettled
      PROVE  PushInv'
  <2>1. TablesInv'
    BY <1>0, <1>3, QuietTablesInv
  <2>2. CASE w' \in {Idle("look"), Idle("top")}
    <3>1. w'.pc \in {"top", "look"} /\ w'.todo = {} /\ w'.handled = {}
      BY <2>2 DEF Idle
    <3> QED BY <2>1, <3>1, IdleInv DEF PushInv
  <2>3. CASE w' = [w EXCEPT !.pc = "next", !.dirty = {}, !.left = {}]
    <3>1. /\ w'.pc = "next" /\ w'.todo = w.todo /\ w'.old = w.old
          /\ w'.handled = w.handled
      BY <1>0, <2>3 DEF Worker
    <3>2. SessionInv'
      BY <1>1, <1>2, <1>3, <3>1 DEF HandledIsSettled, tables, history
    <3> QED BY <2>1, <3>2 DEF PushInv
  <2> QED BY <1>3, <2>2, <2>3 DEF Raised, Unsettled
<1>4. CASE SelectDevices
  <2> DEFINE devices == {d \in Devices : Registered(w.job, d)}
             begin   == {d \in devices : \/ delivery[w.job][d] = None
                                         \/ d \in w.old[w.job]}
             state   == [d \in Devices |-> IF d \notin devices THEN None
                                           ELSE IF d \in begin THEN "pending"
                                           ELSE delivery[w.job][d]]
             left    == {d \in devices : state[d] = "pending"}
             token   == [d \in Devices |-> IF d \in devices THEN device[d] ELSE None]
             dirty   == {d \in devices : state[d] # delivery[w.job][d]}
             pc      == IF begin # {} THEN "open"
                        ELSE IF left = {} THEN "handled" ELSE "login"
  <2>1. /\ w.pc = "select" /\ w.job \in Jobs /\ UNCHANGED <<tables, history>>
        /\ w' = [w EXCEPT !.token = token, !.state = state, !.dirty = dirty,
                          !.left = left, !.pc = pc]
    BY <1>0, <1>4 DEF SelectDevices, WorkerHasJob
  <2>2. TablesInv'
    BY <1>0, <2>1, QuietTablesInv
  \* What is settled is of an earlier cycle and begins anew.
  <2>3. ASSUME w.job \notin touched, NEW d \in owed[w.job]
        PROVE  d \in left /\ state[d] = "pending"
    <3>1. d \in devices
      BY <1>0, <1>1, <2>1, <2>3 DEF TablesInv, OwedIsRegistered
    <3>2. delivery[w.job][d] \in Settled => d \in w.old[w.job]
      BY <1>0, <1>1, <2>1, <2>3 DEF TablesInv, SettledIsStale, CopiesKnowStale
    <3>3. delivery[w.job][d] \in Settled \cup {"pending", None}
      BY <1>0, <2>1, <3>1 DEF TablesTypeOK
    <3>4. d \in begin \/ delivery[w.job][d] = "pending"
      BY <3>1, <3>2, <3>3
    <3>5. state[d] = "pending"
      <4> HIDE DEF begin, devices
      <4> QED BY <1>1, <2>1, <2>3, <3>1, <3>4
    <3> QED BY <3>1, <3>5
  <2>4. pc \in {"open", "login", "handled"} /\ (pc = "handled" => left = {})
    OBVIOUS
  <2> HIDE DEF devices, begin, state, left, token, dirty, pc
  <2>5. /\ w'.pc = pc /\ w'.state = state /\ w'.job = w.job /\ w'.old = w.old
        /\ w'.todo = w.todo /\ w'.handled = w.handled
    BY <1>0, <2>1 DEF Worker
  <2>6. owed' = owed /\ touched' = touched /\ stale' = stale
    BY <2>1 DEF tables, history
  <2>7. CopiesKnowStale' /\ HandledIsSettled'
    BY <1>1, <2>3, <2>4, <2>5, <2>6 DEF CopiesKnowStale, HandledIsSettled
  <2>8. AnswersAreDirty' /\ RoundIsOpen' /\ CopyIsFresh'
    BY <2>3, <2>4, <2>5, <2>6 DEF AnswersAreDirty, RoundIsOpen, CopyIsFresh
  <2> QED BY <2>2, <2>7, <2>8 DEF PushInv, SessionInv
<1>5. CASE OpenDeliveries
  <2>1. CASE CanCommit
    <3>1. /\ w.pc = "open" /\ w.job \in Jobs /\ Commit /\ touched' = touched
          /\ w' = [w EXCEPT !.pc = "login", !.dirty = {}, !.handled = {}]
      BY <1>0, <1>5, <2>1 DEF OpenDeliveries, WorkerHasJob
    <3>2. /\ TablesInv'
          /\ \A j \in Jobs : owed'[j] \subseteq owed[j]
          /\ \A j \in Jobs \ w.handled : stale'[j] \subseteq stale[j]
      BY <2>1, <3>1, CommitKeeps
    <3>3. /\ w'.pc = "login" /\ w'.state = w.state /\ w'.job = w.job
          /\ w'.old = w.old /\ w'.todo = w.todo /\ w'.handled = {}
      BY <1>0, <3>1 DEF Worker
    <3>4. CopiesKnowStale'
      BY <1>1, <3>1, <3>2, <3>3 DEF CopiesKnowStale, HandledIsSettled
    <3>5. AnswersAreDirty'
      BY <1>1, <3>1, <3>2, <3>3 DEF AnswersAreDirty
    <3>6. RoundIsOpen' /\ CopyIsFresh' /\ HandledIsSettled'
      BY <3>3 DEF RoundIsOpen, CopyIsFresh, HandledIsSettled
    <3> QED BY <3>2, <3>4, <3>5, <3>6 DEF PushInv, SessionInv
  <2>2. CASE ~CanCommit
    BY <1>3, <1>5, <2>2 DEF OpenDeliveries, history
  <2> QED BY <2>1, <2>2
\* A step that asks FCM changes no table.
<1>6. ASSUME UNCHANGED <<tables, history>>, w.pc \in {"login", "post"},
             w'.pc = "post", w'.job = w.job, w'.old = w.old,
             w'.todo = w.todo, w'.handled = w.handled,
             \A d \in Devices :
               \/ w'.state[d] = w.state[d] /\ (d \in w.dirty => d \in w'.dirty)
               \/ w'.state[d] \in Settled /\ d \in w'.dirty
      PROVE  PushInv'
  <2>1. TablesInv'
    BY <1>0, <1>6, QuietTablesInv
  <2>2. owed' = owed /\ touched' = touched /\ stale' = stale
    BY <1>6 DEF tables, history
  <2>3. w.job \in Jobs
    BY <1>0, <1>6 DEF WorkerHasJob
  <2>4. AnswersAreDirty'
    BY <1>1, <1>6, <2>2, <2>3 DEF AnswersAreDirty
  <2>5. CopiesKnowStale' /\ HandledIsSettled' /\ RoundIsOpen' /\ CopyIsFresh'
    BY <1>1, <1>6, <2>2 DEF CopiesKnowStale, HandledIsSettled, RoundIsOpen,
       CopyIsFresh
  <2> QED BY <2>1, <2>4, <2>5 DEF PushInv, SessionInv
<1>7. CASE Login
  <2>1. /\ w.pc = "login" /\ w' = [w EXCEPT !.pc = "post"]
        /\ UNCHANGED <<tables, history>>
    BY <1>7 DEF Login, Goto
  <2>2. /\ w'.pc = "post" /\ w'.job = w.job /\ w'.old = w.old
        /\ w'.todo = w.todo /\ w'.handled = w.handled
        /\ w'.state = w.state /\ w'.dirty = w.dirty
    BY <1>0, <2>1 DEF Worker
  <2> QED BY <1>6, <2>1, <2>2
<1>8. CASE LoginFails
  BY <1>3, <1>8 DEF LoginFails
<1>9. ASSUME NEW d \in Devices, NEW state \in Settled, w.pc = "post",
             Answered(d, state), UNCHANGED <<tables, history>>
      PROVE  PushInv'
  <2>1. w' = [w EXCEPT !.left = @ \ {d}, !.state[d] = state,
                       !.dirty = @ \cup {d}]
    BY <1>9 DEF Answered
  <2>2. /\ w'.pc = "post" /\ w'.job = w.job /\ w'.old = w.old
        /\ w'.todo = w.todo /\ w'.handled = w.handled
        /\ w'.state = [w.state EXCEPT ![d] = state]
        /\ w'.dirty = w.dirty \cup {d}
    BY <1>0, <1>9, <2>1 DEF Worker
  <2>3. w.state \in [Devices -> Settled \cup {"pending", None}]
    BY <1>0 DEF Worker
  <2>4. \A e \in Devices :
          \/ w'.state[e] = w.state[e] /\ (e \in w.dirty => e \in w'.dirty)
          \/ w'.state[e] \in Settled /\ e \in w'.dirty
    BY <1>9, <2>2, <2>3
  <2> QED BY <1>6, <1>9, <2>2, <2>4
<1>10. ASSUME NEW d \in Devices, PostSent(d) \/ PostUnregistered(d)
       PROVE  PushInv'
  <2>1. "sent" \in Settled /\ "discarded" \in Settled
    BY DEF Settled
  <2> QED BY <1>9, <1>10, <2>1 DEF PostSent, PostUnregistered
<1>11. ASSUME NEW d \in Devices, PostFails(d) PROVE PushInv'
  <2>1. /\ w.pc = "post" /\ w' = [w EXCEPT !.left = @ \ {d}]
        /\ UNCHANGED <<tables, history>>
    BY <1>11 DEF PostFails
  <2>2. /\ w'.pc = "post" /\ w'.job = w.job /\ w'.old = w.old
        /\ w'.todo = w.todo /\ w'.handled = w.handled
        /\ w'.state = w.state /\ w'.dirty = w.dirty
    BY <1>0, <2>1 DEF Worker
  <2> QED BY <1>6, <2>1, <2>2
<1>12. CASE MarkDeliveries
  <2> DEFINE settled == \A d \in Devices : w.state[d] # "pending"
  <2>1. w.pc = "post" /\ w.job \in Jobs /\ touched' = touched
    BY <1>0, <1>12 DEF MarkDeliveries, WorkerHasJob
  <2>2. CASE w.dirty = {}
    BY <1>3, <1>12, <2>2 DEF MarkDeliveries, history
  <2>3. CASE w.dirty # {} /\ CanCommit
    <3>1. Commit
      BY <1>12, <2>3 DEF MarkDeliveries
    <3>2. /\ TablesInv'
          /\ \A j \in Jobs : owed'[j] \subseteq owed[j]
          /\ \A j \in Jobs \ w.handled : stale'[j] \subseteq stale[j]
          /\ \A d \in owed'[w.job] : d \in w.dirty => w.state[d] \notin Settled
      BY <2>1, <2>3, <3>1, CommitKeeps
    <3>3. \A j \in Jobs : j \in touched \/ owed'[j] = {}
                            \/ stale'[j] \subseteq stale[j]
      BY <1>1, <3>2 DEF HandledIsSettled
    <3>4. CASE settled
      <4>1. w' = [w EXCEPT !.pc = "handled", !.dirty = {}, !.handled = {}]
        BY <1>12, <2>3, <3>4 DEF MarkDeliveries
      <4>2. /\ w'.pc = "handled" /\ w'.job = w.job /\ w'.old = w.old
            /\ w'.todo = w.todo /\ w'.handled = {}
        BY <1>0, <4>1 DEF Worker
      <4>3. w.job \in touched \/ owed'[w.job] = {}
        BY <1>1, <2>1, <3>2, <3>4 DEF AnswersAreDirty
      <4>4. HandledIsSettled' /\ CopiesKnowStale'
        BY <1>1, <2>1, <3>2, <3>3, <4>2, <4>3 DEF HandledIsSettled, CopiesKnowStale
      <4>5. AnswersAreDirty' /\ RoundIsOpen' /\ CopyIsFresh'
        BY <4>2 DEF AnswersAreDirty, RoundIsOpen, CopyIsFresh
      <4> QED BY <3>2, <4>4, <4>5 DEF PushInv, SessionInv
    <3>5. CASE ~settled
      <4>1. w' = [Unsettled EXCEPT !.handled = {}]
        BY <1>12, <2>3, <3>5 DEF MarkDeliveries
      <4>2. CASE w.retry
        <5>1. /\ w'.pc = "next" /\ w'.old = w.old
              /\ w'.todo = w.todo /\ w'.handled = {}
          BY <1>0, <4>1, <4>2 DEF Worker, Unsettled
        <5>2. SessionInv'
          BY <1>2, <2>1, <3>2, <3>3, <5>1
        <5> QED BY <3>2, <5>2 DEF PushInv
      <4>3. CASE ~w.retry
        <5>1. w'.pc = "top" /\ w'.todo = {} /\ w'.handled = {}
          BY <4>1, <4>3 DEF Unsettled, Idle
        <5> QED BY <3>2, <5>1, IdleInv DEF PushInv
      <4> QED BY <4>2, <4>3
    <3> QED BY <3>4, <3>5
  <2>4. CASE w.dirty # {} /\ ~CanCommit
    BY <1>3, <1>12, <2>4 DEF MarkDeliveries, history
  <2> QED BY <2>2, <2>3, <2>4
<1>13. CASE Handled
  <2>1. /\ w.pc = "handled" /\ UNCHANGED <<tables, history>>
        /\ w' = [w EXCEPT !.pc = IF w.retry THEN "next" ELSE "close",
                          !.handled = @ \cup {w.job}]
    BY <1>13 DEF Handled
  <2>2. /\ w'.pc \in {"next", "close"} /\ w'.todo = w.todo /\ w'.old = w.old
        /\ w'.handled = w.handled \cup {w.job}
    BY <1>0, <2>1 DEF Worker
  <2>3. owed' = owed /\ touched' = touched /\ stale' = stale
    BY <2>1 DEF tables, history
  <2>4. \A j \in w'.handled : j \in Jobs => j \in touched \/ owed'[j] = {}
    BY <1>1, <2>1, <2>2, <2>3 DEF HandledIsSettled
  <2>5. SessionInv'
    BY <1>2, <2>2, <2>3, <2>4
  <2> QED BY <1>0, <2>1, <2>5, QuietTablesInv DEF PushInv
<1>14. CASE Close
  <2>1. CASE CanCommit
    <3>1. Commit /\ touched' = touched /\ Raised
      BY <1>14, <2>1 DEF Close
    <3>2. TablesInv'
      BY <2>1, <3>1, CommitKeeps
    <3>3. w'.pc \in {"top", "look"} /\ w'.todo = {} /\ w'.handled = {}
      BY <3>1 DEF Raised, Idle
    <3> QED BY <3>2, <3>3, IdleInv DEF PushInv
  <2>2. CASE ~CanCommit
    BY <1>3, <1>14, <2>2 DEF Close, history
  <2> QED BY <2>1, <2>2
<1> QED BY <1>4, <1>5, <1>7, <1>8, <1>10, <1>11, <1>12, <1>13, <1>14

-----------------------------------------------------------------------------
\* The worker's loop

LEMMA LoopKeeps ==
    ASSUME TypeInv, PushInv
    PROVE  NoRetryYet \/ SelectPending \/ NextPending \/ Tick \/ Crash \/ Restart
             => PushInv'
<1>0. /\ TablesInv /\ SessionInv /\ TablesTypeOK /\ w \in Worker
  BY DEF PushInv, TypeInv, TypeOK
<1>1. CASE NoRetryYet
  <2>1. w.pc = "top" /\ w' = [w EXCEPT !.pc = "look"] /\ UNCHANGED <<tables, history>>
    BY <1>1 DEF NoRetryYet, Goto
  <2>2. /\ w'.pc = "look" /\ w'.todo = w.todo /\ w'.handled = w.handled
        /\ w'.old = w.old
    BY <1>0, <2>1 DEF Worker
  <2>3. SessionInv'
    BY <1>0, <2>1, <2>2 DEF SessionInv, CopiesKnowStale, RoundIsOpen,
       CopyIsFresh, AnswersAreDirty, HandledIsSettled, tables, history
  <2> QED BY <1>0, <2>1, <2>3, QuietTablesInv DEF PushInv
<1>2. CASE SelectPending
  <2>1. UNCHANGED <<tables, history>>
    BY <1>2 DEF SelectPending
  <2>2. PICK batch : w' = [Idle("next") EXCEPT
                  !.retry = TRUE, !.todo = batch,
                  !.old = [j \in Jobs |-> IF j \in batch THEN stale[j] ELSE {}]]
    BY <1>2 DEF SelectPending
  <2>3. /\ w'.pc = "next" /\ w'.todo = batch /\ w'.handled = {}
        /\ w'.old = [j \in Jobs |-> IF j \in batch THEN stale[j] ELSE {}]
    BY <2>2 DEF Idle
  <2>4. SessionInv'
    BY <2>1, <2>3 DEF SessionInv, CopiesKnowStale, RoundIsOpen, CopyIsFresh,
       AnswersAreDirty, HandledIsSettled, tables
  <2> QED BY <1>0, <2>1, <2>4, QuietTablesInv DEF PushInv
<1>3. CASE NextPending
  <2>1. w.pc = "next" /\ UNCHANGED <<tables, history>>
    BY <1>3 DEF NextPending
  <2>2. owed' = owed /\ touched' = touched /\ stale' = stale
    BY <2>1 DEF tables, history
  <2>3. CASE w' = [w EXCEPT !.pc = "close"]
    <3>1. /\ w'.pc = "close" /\ w'.todo = w.todo /\ w'.handled = w.handled
          /\ w'.old = w.old
      BY <1>0, <2>3 DEF Worker
    <3>2. SessionInv'
      BY <1>0, <2>2, <3>1 DEF SessionInv, CopiesKnowStale, RoundIsOpen,
         CopyIsFresh, AnswersAreDirty, HandledIsSettled
    <3> QED BY <1>0, <2>1, <3>2, QuietTablesInv DEF PushInv
  <2>4. ASSUME NEW j \in w.todo,
               w' = [w EXCEPT !.pc = "select", !.job = j, !.todo = @ \ {j},
                              !.dirty = {}]
        PROVE  PushInv'
    <3>1. /\ w'.pc = "select" /\ w'.job = j /\ w'.todo = w.todo \ {j}
          /\ w'.handled = w.handled /\ w'.old = w.old
      BY <1>0, <2>4 DEF Worker
    <3>2. SessionInv'
      BY <1>0, <2>2, <3>1 DEF SessionInv, CopiesKnowStale, RoundIsOpen,
         CopyIsFresh, AnswersAreDirty, HandledIsSettled
    <3> QED BY <1>0, <2>1, <3>2, QuietTablesInv DEF PushInv
  <2> QED BY <1>3, <2>3, <2>4 DEF NextPending, Goto
<1>4. CASE Tick
  BY <1>4, QuietInv DEF Tick
<1>5. CASE Crash
  <2>1. UNCHANGED <<tables, history>> /\ w' = Idle("down")
    BY <1>5 DEF Crash
  <2>2. w'.pc = "down" /\ w'.todo = {} /\ w'.handled = {}
    BY <2>1 DEF Idle
  <2> QED BY <1>0, <2>1, <2>2, QuietTablesInv, IdleInv DEF PushInv
<1>6. CASE Restart
  <2> DEFINE running == {j \in Jobs : row[j] # None /\ row[j].status = "running"}
             put     == [j \in running |-> [row[j] EXCEPT !.status = "queued"]]
  <2>1. WriteJobs(running, put) /\ touched' = touched /\ w' = Idle("top")
    BY <1>6 DEF Restart
  <2>2. running \in SUBSET Jobs /\ \A j \in running : owed[j] = {}
    BY <1>0 DEF TablesInv, OwedIsCompleted
  <2> HIDE DEF running, put
  <2>3. TablesInv'
    BY <1>0, <2>1, <2>2, WriteKeeps
  <2>4. w'.pc = "top" /\ w'.todo = {} /\ w'.handled = {}
    BY <2>1 DEF Idle
  <2> QED BY <2>3, <2>4, IdleInv DEF PushInv
<1> QED BY <1>1, <1>2, <1>3, <1>4, <1>5, <1>6

-----------------------------------------------------------------------------
LEMMA PushInit == Init => PushInv
<1> SUFFICES ASSUME Init PROVE PushInv
  OBVIOUS
<1>1. /\ \A j \in Jobs : owed[j] = {}
      /\ w.pc = "top" /\ w.todo = {} /\ w.handled = {}
  BY DEF Init, Idle
<1>2. TablesInv
  BY <1>1 DEF TablesInv, OwedIsRegistered, OwedIsCompleted, FlagIsSet,
     SettledIsStale
<1>3. SessionInv
  BY <1>1 DEF SessionInv, CopiesKnowStale, RoundIsOpen, CopyIsFresh,
     AnswersAreDirty, HandledIsSettled
<1> QED BY <1>2, <1>3 DEF PushInv

LEMMA PushStep == TypeInv /\ PushInv /\ [Next]_vars => PushInv'
<1> SUFFICES ASSUME TypeInv, PushInv, [Next]_vars PROVE PushInv'
  OBVIOUS
<1>1. CASE UNCHANGED vars
  BY <1>1, QuietInv DEF vars
<1>2. CASE Next
  BY <1>2, RequestsKeep, RoundsKeep, PushesKeep, LoopKeeps DEF Next, WorkStep
<1> QED BY <1>1, <1>2

\* finish_job and _retry_pending_notifications clear the flag of a job only when
\* every device its completion found has an answer, for any number of jobs,
\* devices, requests, failures and crashes.
THEOREM NoOneIsForgotten == Spec => []NoOneForgotten
<1>1. PushInv => NoOneForgotten
  BY DEF PushInv, TablesInv, FlagIsSet, NoOneForgotten
<1> QED BY <1>1, TypeInit, TypeStep, PushInit, PushStep, PTL DEF Spec

-----------------------------------------------------------------------------
\* No device is told again: the invariant behind NotToldAgain, in parts.

\* The retry will look at the job.
Waiting(j) == /\ row[j] # None /\ row[j].status = "completed"
              /\ row[j].pending

\* While the flag waits, the "sent" of a device is on record for this cycle.
ToldIsSettled ==
    \A j \in Jobs \ touched : Waiting(j) =>
      \A d \in told[j] : \/ device[d] = None
                         \/ (delivery[j][d] \in Settled /\ d \notin stale[j])

\* A session that has yet to look at a job's devices will not take it for old.
ToldIsNotOld ==
    \A j \in Jobs \ touched :
      j \in w.todo \/ (w.pc = "select" /\ j = w.job)
        => \/ row[j] = None
           \/ /\ Waiting(j)
              /\ \A d \in Devices :
                   d \in told[j] /\ d \in w.old[j] => device[d] = None

\* It asks no device that was told, unless its commit is bound to fail first.
LeftIsUntold ==
    w.pc \in {"open", "login", "post"} /\ w.job \notin touched =>
      \/ w.left \cap told[w.job] = {}
      \/ w.pc = "open" /\ row[w.job] = None /\ w.dirty # {}

DirtyIsKnown ==
    w.dirty # {} =>
      \/ w.pc = "open" /\ \A d \in w.dirty : d \in w.left /\ w.state[d] = "pending"
      \/ w.pc = "post" /\ \A d \in w.dirty : w.state[d] \in Settled

\* The jobs of a batch pass from todo to the one at hand to handled.
JobsAreApart ==
    /\ w.todo \cap w.handled = {}
    /\ w.pc \in {"round", "outcome"} => w.todo = {} /\ w.handled = {}
    /\ w.pc \in {"select", "open", "login", "post", "handled"}
         => w.job \notin w.todo \cup w.handled

SessionOnce == ToldIsNotOld /\ LeftIsUntold /\ DirtyIsKnown /\ JobsAreApart
OnceInv     == ToldIsSettled /\ SessionOnce

\* A session with nothing in hand.
LEMMA IdleOnce ==
    ASSUME w'.pc \in {"down", "top", "look", "round"}, w'.todo = {},
           w'.handled = {}, w'.dirty = {}
    PROVE  SessionOnce'
BY DEF SessionOnce, ToldIsNotOld, LeftIsUntold, DirtyIsKnown, JobsAreApart

LEMMA QuietTold ==
    ToldIsSettled /\ UNCHANGED <<tables, history>> => ToldIsSettled'
BY DEF ToldIsSettled, Waiting, tables, history

LEMMA WriteOnce ==
    ASSUME ToldIsSettled, NEW written \in SUBSET Jobs, NEW new,
           WriteJobs(written, new), told' = told, touched \subseteq touched',
           \A j \in written : j \in touched' \/ row'[j].status # "completed"
    PROVE  /\ ToldIsSettled'
           /\ \A j \in Jobs \ written : row'[j] = row[j]
<1>1. /\ \A j \in Jobs \ written : row'[j] = row[j] /\ stale'[j] = stale[j]
      /\ device' = device /\ delivery' = delivery
  BY DEF WriteJobs, Write
<1>2. ToldIsSettled'
  BY <1>1 DEF ToldIsSettled, Waiting
<1> QED BY <1>1, <1>2

\* A request that writes or deletes a row leaves the session right.
LEMMA SessionOnceKeeps ==
    ASSUME SessionOnce, WorkerHasJob, w' = w, told' = told,
           touched \subseteq touched',
           \A j \in Jobs \ touched' : row'[j] = row[j] \/ row'[j] = None,
           \A d \in Devices : device[d] = None => device'[d] = None
    PROVE  SessionOnce'
<1>1. ToldIsNotOld'
  BY DEF SessionOnce, ToldIsNotOld, Waiting
<1>2. LeftIsUntold'
  BY DEF SessionOnce, LeftIsUntold, WorkerHasJob
<1>3. DirtyIsKnown' /\ JobsAreApart'
  BY DEF SessionOnce, DirtyIsKnown, JobsAreApart
<1> QED BY <1>1, <1>2, <1>3 DEF SessionOnce

LEMMA QuietOnce ==
    OnceInv /\ WorkerHasJob /\ UNCHANGED <<tables, history, w>> => OnceInv'
<1> SUFFICES ASSUME OnceInv, WorkerHasJob, UNCHANGED <<tables, history, w>>
             PROVE  OnceInv'
  OBVIOUS
<1>1. ToldIsSettled'
  BY QuietTold DEF OnceInv
<1>2. SessionOnce'
  BY SessionOnceKeeps DEF OnceInv, tables, history
<1> QED BY <1>1, <1>2 DEF OnceInv

LEMMA RequestsTellOnce ==
    ASSUME TypeInv, OnceInv
    PROVE  /\ \A c \in Clients, op \in Ops, j \in Jobs : ReadCall(c, op, j) => OnceInv'
           /\ \A c \in Clients : CommitCall(c) \/ CommitDelete(c) => OnceInv'
           /\ \A d \in Devices, t \in Tokens \cup {""} :
                UpdatePushToken(d, t) => OnceInv'
           /\ \A d \in Devices : RevokeDevice(d) => OnceInv'
           /\ \A t \in Tokens : TokenDies(t) => OnceInv'
<1>0. /\ ToldIsSettled /\ SessionOnce /\ WorkerHasJob
      /\ TablesTypeOK /\ HistoryTypeOK
      /\ call \in [Clients -> [op : Ops, job : Jobs, seen : Row] \cup {None}]
  BY DEF OnceInv, TypeInv, TypeOK
<1>1. ASSUME NEW c \in Clients, NEW op \in Ops, NEW j \in Jobs, ReadCall(c, op, j)
      PROVE  OnceInv'
  BY <1>0, <1>1, QuietOnce DEF ReadCall
<1>2. ASSUME NEW c \in Clients, CommitCall(c) PROVE OnceInv'
  <2> DEFINE j    == call[c].job
             seen == call[c].seen
             new  == Outcome(call[c].op, seen)
             put  == [row EXCEPT ![j] =
                       [status  |-> Column(@.status, seen.status, new.status),
                        pending |-> Column(@.pending, seen.pending, new.pending)]]
  <2>1. j \in Jobs
    BY <1>0, <1>2 DEF CommitCall
  <2>2. CASE row[j] = None
    BY <1>0, <1>2, <2>2, QuietOnce DEF CommitCall
  <2>3. CASE row[j] # None
    <3>1. /\ WriteJobs({j}, put)
          /\ touched' = touched \cup {j} /\ told' = told /\ w' = w
      BY <1>2, <2>3 DEF CommitCall
    <3> HIDE DEF j, put
    <3>2. ToldIsSettled' /\ \A k \in Jobs \ {j} : row'[k] = row[k]
      BY <1>0, <2>1, <3>1, WriteOnce
    <3>3. SessionOnce'
      BY <1>0, <3>1, <3>2, SessionOnceKeeps DEF WriteJobs
    <3> QED BY <3>2, <3>3 DEF OnceInv
  <2> QED BY <2>2, <2>3
<1>3. ASSUME NEW c \in Clients, CommitDelete(c) PROVE OnceInv'
  <2> DEFINE j == call[c].job
  <2>1. /\ j \in Jobs
        /\ row' = [row EXCEPT ![j] = None]
        /\ delivery' = [delivery EXCEPT ![j] = [d \in Devices |-> None]]
        /\ stale' = [stale EXCEPT ![j] = {}]
        /\ told' = told /\ touched' = touched /\ device' = device /\ w' = w
    BY <1>0, <1>3 DEF CommitDelete
  <2> HIDE DEF j
  <2>2. /\ row'[j] = None
        /\ \A k \in Jobs \ {j} : /\ row'[k] = row[k] /\ stale'[k] = stale[k]
                                 /\ delivery'[k] = delivery[k]
    BY <1>0, <2>1 DEF TablesTypeOK
  <2>3. ToldIsSettled'
    BY <1>0, <2>1, <2>2 DEF ToldIsSettled, Waiting
  <2>4. SessionOnce'
    BY <1>0, <2>1, <2>2, SessionOnceKeeps
  <2> QED BY <2>3, <2>4 DEF OnceInv
\* A token or a device that goes.
<1>4. ASSUME row' = row, told' = told, touched' = touched, w' = w,
             \A d \in Devices : device[d] = None => device'[d] = None,
             \A d \in Devices : device'[d] # None =>
               \A j \in Jobs : delivery'[j][d] = delivery[j][d],
             \A j \in Jobs : stale'[j] \subseteq stale[j]
      PROVE  OnceInv'
  <2>1. \A j \in Jobs : told[j] \in SUBSET Devices
    BY <1>0 DEF HistoryTypeOK
  <2>2. ToldIsSettled'
    BY <1>0, <1>4, <2>1 DEF ToldIsSettled, Waiting
  <2>3. SessionOnce'
    BY <1>0, <1>4, SessionOnceKeeps
  <2> QED BY <2>2, <2>3 DEF OnceInv
<1>5. ASSUME NEW d \in Devices, NEW t \in Tokens \cup {""}, UpdatePushToken(d, t)
      PROVE  OnceInv'
  <2> DEFINE holders == {e \in Devices : t # "" /\ device[e] = t}
  <2>1. /\ row' = row /\ touched' = touched /\ told' = told /\ w' = w
        /\ delivery' = delivery /\ stale' = stale /\ device[d] # None
        /\ device' = [e \in Devices |-> IF e = d THEN t
                                        ELSE IF e \in holders THEN ""
                                        ELSE device[e]]
    BY <1>5 DEF UpdatePushToken
  <2>2. t # None
    BY PushAssumption
  <2>3. \A e \in Devices : device[e] = None => device'[e] = None
    BY <2>1, <2>2
  <2> QED BY <1>4, <2>1, <2>3
<1>6. ASSUME NEW d \in Devices, RevokeDevice(d) PROVE OnceInv'
  <2>1. /\ row' = row /\ touched' = touched /\ told' = told /\ w' = w
        /\ device' = [device EXCEPT ![d] = None]
        /\ delivery' = [j \in Jobs |-> [delivery[j] EXCEPT ![d] = None]]
        /\ stale' = [j \in Jobs |-> stale[j] \ {d}]
    BY <1>6 DEF RevokeDevice
  <2>2. /\ \A j \in Jobs : stale'[j] \subseteq stale[j]
        /\ device'[d] = None
        /\ \A e \in Devices \ {d} :
             /\ device'[e] = device[e]
             /\ \A j \in Jobs : delivery'[j][e] = delivery[j][e]
    BY <1>0, <2>1 DEF TablesTypeOK
  <2>3. /\ \A e \in Devices : device[e] = None => device'[e] = None
        /\ \A e \in Devices : device'[e] # None =>
             \A j \in Jobs : delivery'[j][e] = delivery[j][e]
    BY <2>2
  <2> QED BY <1>4, <2>1, <2>2, <2>3
<1>7. ASSUME NEW t \in Tokens, TokenDies(t) PROVE OnceInv'
  BY <1>0, <1>7, QuietOnce DEF TokenDies
<1> QED BY <1>1, <1>2, <1>3, <1>5, <1>6, <1>7

LEMMA RoundsTellOnce ==
    ASSUME TypeInv, PushInv, OnceInv
    PROVE  /\ \A j \in Jobs : Claim(j) => OnceInv'
           /\ NothingToDo \/ Reload \/ Abandon \/ FinishJob => OnceInv'
           /\ \A status \in {"failed", "queued"} : EndRound(status) => OnceInv'
<1>0. /\ ToldIsSettled /\ SessionOnce /\ WorkerHasJob /\ RoundIsOpen
      /\ TablesTypeOK /\ HistoryTypeOK /\ w \in Worker
  BY DEF OnceInv, PushInv, SessionInv, TypeInv, TypeOK
<1>1. ASSUME w' = Idle("top")
      PROVE  SessionOnce'
  <2>1. w'.pc = "top" /\ w'.todo = {} /\ w'.handled = {} /\ w'.dirty = {}
    BY <1>1 DEF Idle
  <2> QED BY <2>1, IdleOnce
<1>2. ASSUME NEW j \in Jobs, NEW new, WriteJobs({j}, new), w' = Idle("top"),
             told' = told, touched' = touched, row'[j].status # "completed"
      PROVE  OnceInv'
  BY <1>0, <1>1, <1>2, WriteOnce DEF OnceInv
<1>3. ASSUME UNCHANGED <<tables, history>>, w' = Idle("top") PROVE OnceInv'
  BY <1>0, <1>1, <1>3, QuietTold DEF OnceInv
<1>4. w.pc \in {"round", "outcome"} =>
        /\ w.job \in Jobs /\ w.handled = {} /\ w.todo = {} /\ w.dirty = {}
        /\ row[w.job] # None => row[w.job].status # "completed"
  BY <1>0 DEF RoundIsOpen, WorkerHasJob, SessionOnce, JobsAreApart, DirtyIsKnown
<1>5. ASSUME NEW j \in Jobs, Claim(j) PROVE OnceInv'
  <2> DEFINE put == [row EXCEPT ![j].status = "running"]
  <2>1. /\ row[j] # None /\ WriteJobs({j}, put) /\ told' = told
        /\ w' = [Idle("round") EXCEPT !.job = j] /\ touched' = touched
    BY <1>5 DEF Claim
  <2>2. row'[j].status = "running"
    <3>1. row'[j] = put[j]
      BY <2>1 DEF WriteJobs, Write
    <3>2. row \in [Jobs -> Row \cup {None}]
      BY <1>0 DEF TablesTypeOK
    <3> QED BY <2>1, <3>1, <3>2 DEF Row
  <2> HIDE DEF put
  <2>3. ToldIsSettled'
    BY <1>0, <2>1, <2>2, WriteOnce
  <2>4. w'.pc = "round" /\ w'.todo = {} /\ w'.handled = {} /\ w'.dirty = {}
    BY <2>1 DEF Idle
  <2> QED BY <2>3, <2>4, IdleOnce DEF OnceInv
<1>6. CASE NothingToDo
  BY <1>3, <1>6 DEF NothingToDo
<1>7. CASE Reload
  <2>1. /\ w.pc = "round" /\ row[w.job] # None
        /\ w' = [w EXCEPT !.pc = "outcome", !.seen = row[w.job]]
        /\ touched' = touched \ {w.job} /\ told' = told /\ UNCHANGED tables
    BY <1>7 DEF Reload
  <2>2. /\ w'.pc = "outcome" /\ w'.todo = {} /\ w'.handled = {}
        /\ w'.dirty = {}
    BY <1>0, <1>4, <2>1 DEF Worker
  <2>3. ToldIsSettled'
    BY <1>0, <1>4, <2>1 DEF ToldIsSettled, Waiting, tables
  <2>4. SessionOnce'
    BY <2>2 DEF SessionOnce, ToldIsNotOld, LeftIsUntold, DirtyIsKnown,
       JobsAreApart
  <2> QED BY <2>3, <2>4 DEF OnceInv
<1>8. CASE Abandon
  <2>1. CASE row[w.job] # None /\ row[w.job].status = "stopped"
    <3> DEFINE put == [row EXCEPT ![w.job].pending = FALSE]
    <3>1. /\ w.pc = "round" /\ WriteJobs({w.job}, put)
          /\ w' = Idle("top") /\ touched' = touched /\ told' = told
      BY <1>8, <2>1 DEF Abandon
    <3>2. row'[w.job].status = "stopped"
      <4>1. row'[w.job] = put[w.job]
        BY <1>4, <3>1 DEF WriteJobs, Write
      <4>2. row \in [Jobs -> Row \cup {None}]
        BY <1>0 DEF TablesTypeOK
      <4> QED BY <1>4, <2>1, <3>1, <4>1, <4>2 DEF Row
    <3> HIDE DEF put
    <3> QED BY <1>2, <1>4, <3>1, <3>2
  <2>2. CASE ~(row[w.job] # None /\ row[w.job].status = "stopped")
    BY <1>3, <1>8, <2>2 DEF Abandon, history
  <2> QED BY <2>1, <2>2
<1>9. ASSUME NEW status \in {"failed", "queued"}, EndRound(status) PROVE OnceInv'
  <2>1. CASE row[w.job] = None
    BY <1>3, <1>9, <2>1 DEF EndRound, history
  <2>2. CASE row[w.job] # None
    <3> DEFINE put == [row EXCEPT ![w.job] =
              [status  |-> Column(@.status, w.seen.status, status),
               pending |-> IF status = "failed"
                           THEN Column(@.pending, w.seen.pending, FALSE)
                           ELSE @.pending]]
    <3>1. /\ w.pc = "outcome" /\ WriteJobs({w.job}, put)
          /\ w' = Idle("top") /\ touched' = touched /\ told' = told
      BY <1>9, <2>2 DEF EndRound
    <3>2. row'[w.job].status # "completed"
      <4>1. row'[w.job] = put[w.job]
        BY <1>4, <3>1 DEF WriteJobs, Write
      <4>2. put[w.job].status = Column(row[w.job].status, w.seen.status, status)
        BY <1>0, <1>4, <3>1 DEF TablesTypeOK
      <4>3. row[w.job].status # "completed" /\ status # "completed"
        BY <1>4, <2>2, <3>1
      <4> QED BY <4>1, <4>2, <4>3 DEF Column
    <3> HIDE DEF put
    <3> QED BY <1>2, <1>4, <3>1, <3>2
  <2> QED BY <2>1, <2>2
<1>10. CASE FinishJob
  <2>1. CASE row[w.job] = None
    BY <1>3, <1>10, <2>1 DEF FinishJob, history
  <2>2. CASE row[w.job] # None
    <3> DEFINE j   == w.job
               put == [row EXCEPT ![j] =
                   [status  |-> Column(@.status, w.seen.status, "completed"),
                    pending |-> Column(@.pending, w.seen.pending, TRUE)]]
    <3>1. /\ w.pc = "outcome" /\ Write({j}, put)
          /\ stale' = [stale EXCEPT ![j] = {d \in Devices : delivery[j][d] # None}]
          /\ told' = [told EXCEPT ![j] = {}]
          /\ device' = device /\ delivery' = delivery /\ touched' = touched
          /\ w' = [w EXCEPT !.pc = "select",
                            !.old = [@ EXCEPT ![j] = stale'[j]]]
      BY <1>10, <2>2 DEF FinishJob
    <3>2. j \in Jobs /\ w.handled = {} /\ w.todo = {} /\ w.dirty = {}
      BY <1>4, <3>1
    <3>3. /\ told'[j] = {}
          /\ \A k \in Jobs \ {j} : /\ row'[k] = row[k] /\ told'[k] = told[k]
                                   /\ stale'[k] = stale[k]
      BY <1>0, <3>1, <3>2 DEF Write, TablesTypeOK, HistoryTypeOK
    <3>4. j \notin touched => /\ row'[j] # None /\ row'[j].pending
                              /\ row'[j].status = "completed"
      <4>1. row'[j] = put[j]
        BY <3>1, <3>2 DEF Write
      <4>2. ASSUME j \notin touched PROVE row[j] = w.seen
        BY <2>2, <3>1, <4>2 DEF PushInv, SessionInv, CopyIsFresh
      <4>3. row \in [Jobs -> Row \cup {None}] /\ w.seen \in Row
        BY <1>0 DEF TablesTypeOK, Worker
      <4>4. put[j] = [status  |-> Column(row[j].status, w.seen.status, "completed"),
                      pending |-> Column(row[j].pending, w.seen.pending, TRUE)]
        BY <3>2, <4>3
      <4>5. ASSUME j \notin touched
            PROVE  put[j] = [status |-> "completed", pending |-> TRUE]
        BY <4>2, <4>3, <4>4, <4>5 DEF Column, Row
      <4>6. [status |-> "completed", pending |-> TRUE] \in Row
        BY DEF Row, Statuses
      <4> HIDE DEF put, j
      <4> QED BY <4>1, <4>5, <4>6, PushNoneIsNoRow
    <3> HIDE DEF j, put
    <3>5. ToldIsSettled'
      BY <1>0, <3>1, <3>3 DEF ToldIsSettled, Waiting
    <3>6. /\ w'.pc = "select" /\ w'.job = j /\ w'.todo = {}
          /\ w'.handled = {} /\ w'.dirty = {}
      BY <1>0, <3>1, <3>2 DEF Worker, j
    <3>7. ToldIsNotOld'
      BY <3>1, <3>3, <3>4, <3>6 DEF ToldIsNotOld, Waiting
    <3>8. LeftIsUntold' /\ DirtyIsKnown' /\ JobsAreApart'
      BY <3>6 DEF LeftIsUntold, DirtyIsKnown, JobsAreApart
    <3> QED BY <3>5, <3>7, <3>8 DEF OnceInv, SessionOnce
  <2> QED BY <2>1, <2>2
<1> QED BY <1>5, <1>6, <1>7, <1>8, <1>9, <1>10

-----------------------------------------------------------------------------
\* The deliveries of a job go with its row.
GoneHasNone ==
    \A j \in Jobs : row[j] = None => \A d \in Devices : delivery[j][d] = None

LEMMA WriteGone ==
    ASSUME GoneHasNone, NEW written \in SUBSET Jobs, NEW new,
           \A j \in written : new[j] \in Row, Write(written, new),
           delivery' = delivery
    PROVE  GoneHasNone'
BY PushNoneIsNoRow DEF GoneHasNone, Write

LEMMA QuietGone ==
    GoneHasNone /\ UNCHANGED tables => GoneHasNone'
BY DEF GoneHasNone, tables

LEMMA CommitGone ==
    ASSUME TypeInv, GoneHasNone, CanCommit, Commit
    PROVE  GoneHasNone'
<1>1. /\ TablesTypeOK /\ w.handled \in SUBSET Jobs
      /\ \A j \in w.handled : row[j] \in Row
      /\ \A d \in w.dirty : row[w.job] # None
  BY DEF TypeInv, TypeOK, TablesTypeOK, Worker, CanCommit
<1>2. \A j \in Jobs : row'[j] = IF j \in w.handled
                                THEN [row[j] EXCEPT !.pending = FALSE] ELSE row[j]
  BY <1>1 DEF Commit, Write
<1>3. \A r \in Row : [r EXCEPT !.pending = FALSE] \in Row
  BY DEF Row
<1>4. \A j \in Jobs : row'[j] = None => row[j] = None
  BY <1>1, <1>2, <1>3, PushNoneIsNoRow
<1>5. \A j \in Jobs, d \in Devices :
        delivery'[j][d] = IF j = w.job /\ d \in w.dirty THEN w.state[d]
                          ELSE delivery[j][d]
  BY DEF Commit
<1> QED BY <1>1, <1>4, <1>5 DEF GoneHasNone

LEMMA GoneStep == TypeInv /\ GoneHasNone /\ [Next]_vars => GoneHasNone'
<1> SUFFICES ASSUME TypeInv, GoneHasNone, [Next]_vars PROVE GoneHasNone'
  OBVIOUS
<1>0. /\ WorkerHasJob /\ TablesTypeOK /\ w \in Worker
      /\ row \in [Jobs -> Row \cup {None}]
      /\ call \in [Clients -> [op : Ops, job : Jobs, seen : Row] \cup {None}]
  BY DEF TypeInv, TypeOK, TablesTypeOK
<1>1. CASE UNCHANGED tables
  BY <1>1, QuietGone
<1>2. ASSUME NEW c \in Clients, CommitCall(c) PROVE GoneHasNone'
  <2> DEFINE j    == call[c].job
             seen == call[c].seen
             new  == Outcome(call[c].op, seen)
             put  == [row EXCEPT ![j] =
                       [status  |-> Column(@.status, seen.status, new.status),
                        pending |-> Column(@.pending, seen.pending, new.pending)]]
  <2>1. CASE row[j] = None
    BY <1>1, <1>2, <2>1 DEF CommitCall
  <2>2. CASE row[j] # None
    <3>1. call[c] \in [op : Ops, job : Jobs, seen : Row]
      BY <1>0, <1>2 DEF CommitCall
    <3>2. j \in Jobs /\ seen \in Row /\ new \in Row
      BY <3>1, OutcomeType
    <3>3. new.status \in Statuses /\ new.pending \in BOOLEAN
      <4> HIDE DEF new
      <4> QED BY <3>2 DEF Row
    <3>4. put[j] \in Row
      <4> HIDE DEF j, seen, new
      <4> QED BY <1>0, <2>2, <3>2, <3>3, FlushType
    <3>5. Write({j}, put) /\ delivery' = delivery
      BY <1>2, <2>2 DEF CommitCall, WriteJobs
    <3> HIDE DEF j, put
    <3> QED BY <3>2, <3>4, <3>5, WriteGone
  <2> QED BY <2>1, <2>2
<1>3. ASSUME NEW c \in Clients, CommitDelete(c) PROVE GoneHasNone'
  <2>1. call[c].job \in Jobs
    BY <1>0, <1>3 DEF CommitDelete
  <2> QED BY <1>0, <1>3, <2>1 DEF CommitDelete, GoneHasNone, TablesTypeOK
<1>4. ASSUME NEW d \in Devices, NEW t \in Tokens \cup {""}, UpdatePushToken(d, t)
      PROVE  GoneHasNone'
  BY <1>4 DEF UpdatePushToken, GoneHasNone
<1>5. ASSUME NEW d \in Devices, RevokeDevice(d) PROVE GoneHasNone'
  <2>1. \A j \in Jobs : delivery[j] \in [Devices -> Settled \cup {"pending", None}]
    BY <1>0 DEF TablesTypeOK
  <2>2. \A j \in Jobs, e \in Devices :
          delivery'[j][e] = IF e = d THEN None ELSE delivery[j][e]
    BY <1>5, <2>1 DEF RevokeDevice
  <2> QED BY <1>5, <2>2 DEF RevokeDevice, GoneHasNone
<1>6. ASSUME NEW j \in Jobs, Claim(j) PROVE GoneHasNone'
  <2> DEFINE put == [row EXCEPT ![j].status = "running"]
  <2>1. put[j] \in Row
    BY <1>0, <1>6 DEF Claim, Row, Statuses
  <2>2. Write({j}, put) /\ delivery' = delivery
    BY <1>6 DEF Claim, WriteJobs
  <2> HIDE DEF put
  <2> QED BY <2>1, <2>2, WriteGone
<1>7. CASE Abandon
  <2>1. CASE row[w.job] # None /\ row[w.job].status = "stopped"
    <3> DEFINE put == [row EXCEPT ![w.job].pending = FALSE]
    <3>1. w.job \in Jobs
      BY <1>0, <1>7 DEF Abandon, WorkerHasJob
    <3>2. put[w.job] \in Row
      BY <1>0, <2>1, <3>1 DEF Row
    <3>3. Write({w.job}, put) /\ delivery' = delivery
      BY <1>7, <2>1 DEF Abandon, WriteJobs
    <3> HIDE DEF put
    <3> QED BY <3>1, <3>2, <3>3, WriteGone
  <2>2. CASE ~(row[w.job] # None /\ row[w.job].status = "stopped")
    BY <1>1, <1>7, <2>2 DEF Abandon
  <2> QED BY <2>1, <2>2
<1>8. ASSUME NEW status \in {"failed", "queued"}, EndRound(status)
      PROVE  GoneHasNone'
  <2>1. CASE row[w.job] = None
    BY <1>1, <1>8, <2>1 DEF EndRound
  <2>2. CASE row[w.job] # None
    <3> DEFINE put == [row EXCEPT ![w.job] =
              [status  |-> Column(@.status, w.seen.status, status),
               pending |-> IF status = "failed"
                           THEN Column(@.pending, w.seen.pending, FALSE)
                           ELSE @.pending]]
    <3>1. w.job \in Jobs /\ row[w.job] \in Row /\ w.seen \in Row
      BY <1>0, <1>8, <2>2 DEF EndRound, WorkerHasJob, Worker
    <3>2. status \in Statuses /\ FALSE \in BOOLEAN
      BY DEF Statuses
    <3>3. put[w.job] \in Row
      BY <1>0, <3>1, <3>2, FlushType
    <3>4. Write({w.job}, put) /\ delivery' = delivery
      BY <1>8, <2>2 DEF EndRound, WriteJobs
    <3> HIDE DEF put
    <3> QED BY <3>1, <3>3, <3>4, WriteGone
  <2> QED BY <2>1, <2>2
<1>9. CASE FinishJob
  <2>1. CASE row[w.job] = None
    BY <1>1, <1>9, <2>1 DEF FinishJob
  <2>2. CASE row[w.job] # None
    <3> DEFINE put == [row EXCEPT ![w.job] =
                 [status  |-> Column(@.status, w.seen.status, "completed"),
                  pending |-> Column(@.pending, w.seen.pending, TRUE)]]
    <3>1. w.job \in Jobs /\ row[w.job] \in Row /\ w.seen \in Row
      BY <1>0, <1>9, <2>2 DEF FinishJob, WorkerHasJob, Worker
    <3>2. "completed" \in Statuses /\ TRUE \in BOOLEAN
      BY DEF Statuses
    <3>3. put[w.job] \in Row
      BY <1>0, <3>1, <3>2, FlushType
    <3>4. Write({w.job}, put) /\ delivery' = delivery
      BY <1>9, <2>2 DEF FinishJob
    <3> HIDE DEF put
    <3> QED BY <3>1, <3>3, <3>4, WriteGone
  <2> QED BY <2>1, <2>2
<1>10. CASE Restart
  <2> DEFINE running == {j \in Jobs : row[j] # None /\ row[j].status = "running"}
             put     == [j \in running |-> [row[j] EXCEPT !.status = "queued"]]
  <2>1. Write(running, put) /\ delivery' = delivery
    BY <1>10 DEF Restart, WriteJobs
  <2>2. running \in SUBSET Jobs /\ \A j \in running : row[j] \in Row
    BY <1>0
  <2>3. \A r \in Row : [r EXCEPT !.status = "queued"] \in Row
    BY DEF Row, Statuses
  <2>4. \A j \in running : put[j] \in Row
    <3> HIDE DEF running
    <3> QED BY <2>2, <2>3
  <2> HIDE DEF running, put
  <2> QED BY <2>1, <2>2, <2>4, WriteGone
<1>11. CASE OpenDeliveries \/ MarkDeliveries \/ Close
  BY <1>1, <1>11, CommitGone DEF OpenDeliveries, MarkDeliveries, Close
<1>12. CASE UNCHANGED vars
  BY <1>1, <1>12 DEF vars, tables
<1>13. ASSUME \/ \E c \in Clients, op \in Ops, j \in Jobs : ReadCall(c, op, j)
              \/ \E t \in Tokens : TokenDies(t)
              \/ NothingToDo \/ Reload \/ SelectDevices \/ Login \/ LoginFails
              \/ \E d \in Devices : PostSent(d) \/ PostUnregistered(d) \/ PostFails(d)
              \/ Handled \/ NoRetryYet \/ SelectPending \/ NextPending
              \/ Tick \/ Crash
       PROVE  UNCHANGED tables
  BY <1>13 DEF ReadCall, TokenDies, NothingToDo, Reload, SelectDevices, Login,
     LoginFails, PostSent, PostUnregistered, PostFails, Handled, NoRetryYet,
     SelectPending, NextPending, Tick, Crash
<1> QED BY <1>1, <1>2, <1>3, <1>4, <1>5, <1>6, <1>7, <1>8, <1>9, <1>10, <1>11,
           <1>12, <1>13 DEF Next, WorkStep

\* What a commit puts on record.
LEMMA CommitOnce ==
    ASSUME TypeInv, OnceInv, CanCommit, Commit, touched' = touched
    PROVE  /\ ToldIsSettled'
           /\ \A j \in Jobs \ w.handled : row'[j] = row[j]
           /\ \A j \in Jobs \ {w.job} : told'[j] = told[j]
           /\ w.job \in Jobs => told'[w.job] =
                told[w.job] \cup {d \in w.dirty : w.state[d] = "sent"}
           /\ \A d \in Devices : device[d] = None => device'[d] = None
<1>0. /\ ToldIsSettled /\ LeftIsUntold /\ DirtyIsKnown
      /\ TablesTypeOK /\ HistoryTypeOK
      /\ w.handled \in SUBSET Jobs /\ w.dirty \in SUBSET Devices
      /\ \A j \in w.handled : row[j] # None
      /\ \A d \in w.dirty : device[d] # None /\ row[w.job] # None
  BY DEF OnceInv, SessionOnce, TypeInv, TypeOK, Worker, CanCommit
<1>1. \A j \in Jobs : row'[j] = IF j \in w.handled
                                THEN [row[j] EXCEPT !.pending = FALSE] ELSE row[j]
  BY <1>0 DEF Commit, Write
<1>2. /\ \A j \in Jobs : stale'[j] = StillStale(j)
      /\ \A j \in Jobs, d \in Devices :
           delivery'[j][d] = IF j = w.job /\ d \in w.dirty THEN w.state[d]
                             ELSE delivery[j][d]
      /\ \A d \in Devices :
           device'[d] = IF d \in w.dirty /\ w.state[d] = "discarded" THEN ""
                        ELSE device[d]
      /\ \A j \in Jobs : told'[j] = IF j # w.job THEN told[j] ELSE
                  told[j] \cup {d \in w.dirty : w.state[d] = "sent"}
  BY DEF Commit
<1>3. ToldIsSettled'
  <2>1. SUFFICES ASSUME NEW j \in Jobs, j \notin touched, row'[j].pending,
                        row'[j] # None, row'[j].status = "completed",
                        NEW d \in told'[j], device'[d] # None
                 PROVE  delivery'[j][d] \in Settled /\ d \notin stale'[j]
    BY DEF ToldIsSettled, Waiting
  <2>2. j \notin w.handled
    <3>1. SUFFICES ASSUME j \in w.handled PROVE FALSE
      OBVIOUS
    <3>2. row[j] \in Row
      BY <1>0, <3>1 DEF TablesTypeOK
    <3>3. [row[j] EXCEPT !.pending = FALSE].pending = FALSE
      BY <3>2 DEF Row
    <3> QED BY <1>1, <2>1, <3>1, <3>3
  <2>3. row'[j] = row[j] /\ Waiting(j)
    BY <1>1, <2>1, <2>2 DEF Waiting
  <2>4. told[j] \in SUBSET Devices
    BY <1>0 DEF HistoryTypeOK
  <2>5. CASE j = w.job /\ d \in w.dirty
    <3>1. d \in Devices /\ delivery'[j][d] = w.state[d] /\ d \notin stale'[j]
      BY <1>0, <1>2, <2>2, <2>5 DEF StillStale
    <3>2. w.state[d] \in Settled
      <4>1. SUFFICES ASSUME w.state[d] \notin Settled PROVE FALSE
        OBVIOUS
      <4>2. w.pc = "open" /\ d \in w.left /\ w.state[d] = "pending"
        BY <1>0, <2>5, <4>1 DEF DirtyIsKnown
      <4>3. d \in told[j]
        BY <1>2, <2>1, <2>5, <4>2
      <4> QED BY <1>0, <2>1, <2>3, <2>5, <4>2, <4>3 DEF LeftIsUntold, Waiting
    <3> QED BY <3>1, <3>2
  <2>6. CASE ~(j = w.job /\ d \in w.dirty)
    <3>1. d \in told[j] /\ d \in Devices
      BY <1>2, <2>1, <2>4, <2>6
    <3>2. device[d] # None
      BY <1>0, <1>2, <2>1, <3>1
    <3>3. delivery[j][d] \in Settled /\ d \notin stale[j]
      BY <1>0, <2>1, <2>3, <3>1, <3>2 DEF ToldIsSettled
    <3>4. delivery'[j][d] = delivery[j][d] /\ d \notin stale'[j]
      BY <1>2, <2>2, <2>6, <3>1, <3>3 DEF StillStale
    <3> QED BY <3>3, <3>4
  <2> QED BY <2>5, <2>6
<1>4. \A d \in Devices : device[d] = None => device'[d] = None
  BY <1>0, <1>2
<1> QED BY <1>1, <1>2, <1>3, <1>4

LEMMA PushesTellOnce ==
    ASSUME TypeInv, OnceInv, GoneHasNone
    PROVE  /\ SelectDevices \/ OpenDeliveries \/ Login \/ LoginFails => OnceInv'
           /\ \A d \in Devices :
                PostSent(d) \/ PostUnregistered(d) \/ PostFails(d) => OnceInv'
           /\ MarkDeliveries \/ Handled \/ Close => OnceInv'
<1>0. /\ ToldIsSettled /\ SessionOnce /\ WorkerHasJob
      /\ TablesTypeOK /\ HistoryTypeOK /\ w \in Worker
  BY DEF OnceInv, TypeInv, TypeOK
<1>1. ToldIsNotOld /\ LeftIsUntold /\ DirtyIsKnown /\ JobsAreApart
  BY <1>0 DEF SessionOnce
\* The places between the jobs of a batch.
<1>2. ASSUME w'.pc \in {"next", "close"}, touched' = touched, w'.dirty = {},
             w'.todo = w.todo, w'.old = w.old, w'.todo \cap w'.handled = {},
             \A j \in w.todo : row'[j] = row[j] /\ told'[j] = told[j],
             \A d \in Devices : device[d] = None => device'[d] = None
      PROVE  SessionOnce'
  BY <1>1, <1>2 DEF SessionOnce, ToldIsNotOld, LeftIsUntold, DirtyIsKnown,
     JobsAreApart, Waiting
\* After a commit, without the jobs that it has cleared.
<1>3. ASSUME \A j \in Jobs \ w.handled : row'[j] = row[j],
             \A j \in Jobs \ {w.job} : told'[j] = told[j],
             w.pc \in {"select", "open", "login", "post", "handled"}
      PROVE  \A j \in w.todo : row'[j] = row[j] /\ told'[j] = told[j]
  <2>1. w.todo \in SUBSET Jobs
    BY <1>0 DEF Worker
  <2> QED BY <1>1, <1>3, <2>1 DEF JobsAreApart
<1>4. ASSUME UNCHANGED <<tables, history>>, Raised \/ w' = Unsettled
      PROVE  OnceInv'
  <2>1. ToldIsSettled'
    BY <1>0, <1>4, QuietTold
  <2>2. CASE w' \in {Idle("look"), Idle("top")}
    <3>1. /\ w'.pc \in {"top", "look"} /\ w'.todo = {} /\ w'.handled = {}
          /\ w'.dirty = {}
      BY <2>2 DEF Idle
    <3> QED BY <2>1, <3>1, IdleOnce DEF OnceInv
  <2>3. CASE w' = [w EXCEPT !.pc = "next", !.dirty = {}, !.left = {}]
    <3>1. /\ w'.pc = "next" /\ w'.todo = w.todo /\ w'.old = w.old
          /\ w'.handled = w.handled /\ w'.dirty = {}
      BY <1>0, <2>3 DEF Worker
    <3>2. SessionOnce'
      BY <1>1, <1>2, <1>4, <3>1 DEF JobsAreApart, tables, history
    <3> QED BY <2>1, <3>2 DEF OnceInv
  <2> QED BY <1>4, <2>2, <2>3 DEF Raised, Unsettled
<1>5. CASE SelectDevices
  <2> DEFINE devices == {d \in Devices : Registered(w.job, d)}
             begin   == {d \in devices : \/ delivery[w.job][d] = None
                                         \/ d \in w.old[w.job]}
             state   == [d \in Devices |-> IF d \notin devices THEN None
                                           ELSE IF d \in begin THEN "pending"
                                           ELSE delivery[w.job][d]]
             left    == {d \in devices : state[d] = "pending"}
             token   == [d \in Devices |-> IF d \in devices THEN device[d] ELSE None]
             dirty   == {d \in devices : state[d] # delivery[w.job][d]}
             pc      == IF begin # {} THEN "open"
                        ELSE IF left = {} THEN "handled" ELSE "login"
  <2>1. /\ w.pc = "select" /\ w.job \in Jobs /\ UNCHANGED <<tables, history>>
        /\ w' = [w EXCEPT !.token = token, !.state = state, !.dirty = dirty,
                          !.left = left, !.pc = pc]
    BY <1>0, <1>5 DEF SelectDevices, WorkerHasJob
  <2>2. /\ devices \subseteq Devices /\ begin \subseteq devices
        /\ \A d \in devices : /\ d \in begin => state[d] = "pending"
                              /\ d \notin begin => state[d] = delivery[w.job][d]
    <3> HIDE DEF begin
    <3>1. begin \subseteq devices
      BY DEF begin
    <3> QED BY <3>1
  <2>3. \A d \in dirty : d \in left /\ state[d] = "pending"
    <3> HIDE DEF devices, begin, state
    <3> QED BY <2>2
  <2>4. begin = {} => dirty = {}
    <3> HIDE DEF devices, begin, state
    <3> QED BY <2>2
  <2>5. ASSUME w.job \notin touched, row[w.job] # None, NEW d \in left
        PROVE  d \notin told[w.job]
    <3>1. SUFFICES ASSUME d \in told[w.job] PROVE FALSE
      OBVIOUS
    <3>2. d \in devices /\ d \in Devices /\ device[d] # None
      BY <2>5, PushAssumption DEF Registered
    <3>3. Waiting(w.job) /\ d \notin w.old[w.job]
      BY <1>1, <2>1, <2>5, <3>1, <3>2 DEF ToldIsNotOld
    <3>4. delivery[w.job][d] \in Settled
      BY <1>0, <2>1, <2>5, <3>1, <3>2, <3>3 DEF ToldIsSettled
    <3>5. d \notin begin
      BY <3>3, <3>4, PushAssumption DEF Settled
    <3>6. state[d] = delivery[w.job][d]
      BY <2>2, <3>2, <3>5
    <3>7. state[d] = "pending"
      BY <2>5
    <3> QED BY <3>4, <3>6, <3>7 DEF Settled
  <2>6. row[w.job] = None /\ w.job \notin touched => left \cap told[w.job] = {}
                                                      \/ (pc = "open" /\ dirty # {})
    <3>1. SUFFICES ASSUME dirty = {}, row[w.job] = None, w.job \notin touched,
                          NEW d \in left, d \in told[w.job]
                   PROVE  FALSE
      <4>1. dirty # {} => pc = "open"
        BY <2>4
      <4> HIDE DEF left, dirty, pc
      <4> QED BY <4>1
    <3>2. d \in devices /\ state[d] = "pending"
      BY <3>1
    <3>3. delivery[w.job][d] = "pending"
      <4> HIDE DEF devices, state
      <4> QED BY <3>1, <3>2
    <3>4. d \in Devices
      BY <2>2, <3>2
    <3>5. delivery[w.job][d] = None
      BY <2>1, <3>1, <3>4 DEF GoneHasNone
    <3> HIDE DEF devices, begin, state, left, dirty, pc
    <3> QED BY <3>3, <3>5, PushAssumption
  <2>7. pc \in {"open", "login", "handled"} /\ (pc # "open" => dirty = {})
    <3> HIDE DEF dirty
    <3> QED BY <2>4
  <2> HIDE DEF devices, begin, state, left, token, dirty, pc
  <2>8. /\ w'.pc = pc /\ w'.state = state /\ w'.job = w.job /\ w'.old = w.old
        /\ w'.todo = w.todo /\ w'.handled = w.handled /\ w'.left = left
        /\ w'.dirty = dirty
    BY <1>0, <2>1 DEF Worker
  <2>9. /\ ToldIsSettled' /\ told' = told /\ touched' = touched
        /\ row' = row /\ device' = device
    BY <1>0, <2>1, QuietTold DEF tables, history
  <2>10. ToldIsNotOld' /\ JobsAreApart'
    BY <1>1, <2>1, <2>7, <2>8, <2>9 DEF ToldIsNotOld, JobsAreApart, Waiting
  <2>11. LeftIsUntold'
    BY <2>5, <2>6, <2>8, <2>9 DEF LeftIsUntold
  <2>12. DirtyIsKnown'
    BY <2>3, <2>7, <2>8 DEF DirtyIsKnown
  <2> QED BY <2>9, <2>10, <2>11, <2>12 DEF OnceInv, SessionOnce
<1>6. CASE OpenDeliveries
  <2>1. CASE CanCommit
    <3>1. /\ w.pc = "open" /\ w.job \in Jobs /\ Commit /\ touched' = touched
          /\ w' = [w EXCEPT !.pc = "login", !.dirty = {}, !.handled = {}]
      BY <1>0, <1>6, <2>1 DEF OpenDeliveries, WorkerHasJob
    <3>2. /\ ToldIsSettled'
          /\ \A j \in Jobs \ w.handled : row'[j] = row[j]
          /\ \A j \in Jobs \ {w.job} : told'[j] = told[j]
          /\ told'[w.job] = told[w.job] \cup {d \in w.dirty : w.state[d] = "sent"}
          /\ \A d \in Devices : device[d] = None => device'[d] = None
      BY <2>1, <3>1, CommitOnce
    <3>3. /\ w'.pc = "login" /\ w'.left = w.left /\ w'.job = w.job
          /\ w'.old = w.old /\ w'.todo = w.todo /\ w'.handled = {}
          /\ w'.dirty = {}
      BY <1>0, <3>1 DEF Worker
    <3>4. told'[w.job] = told[w.job]
      <4>1. \A d \in w.dirty : w.state[d] # "sent"
        BY <1>1, <3>1 DEF DirtyIsKnown
      <4>2. {d \in w.dirty : w.state[d] = "sent"} = {}
        BY <4>1
      <4> QED BY <3>2, <4>2
    <3>5. LeftIsUntold'
      <4>1. w.dirty # {} => row[w.job] # None
        BY <2>1 DEF CanCommit
      <4> QED BY <1>1, <3>1, <3>3, <3>4, <4>1 DEF LeftIsUntold
    <3>6. ToldIsNotOld'
      <4>1. \A j \in w.todo : row'[j] = row[j] /\ told'[j] = told[j]
        BY <1>3, <3>1, <3>2
      <4> QED BY <1>1, <3>1, <3>2, <3>3, <4>1 DEF ToldIsNotOld, Waiting
    <3>7. DirtyIsKnown' /\ JobsAreApart'
      BY <1>1, <3>1, <3>3 DEF DirtyIsKnown, JobsAreApart
    <3> QED BY <3>2, <3>5, <3>6, <3>7 DEF OnceInv, SessionOnce
  <2>2. CASE ~CanCommit
    BY <1>4, <1>6, <2>2 DEF OpenDeliveries, history
  <2> QED BY <2>1, <2>2
\* A step that asks FCM changes no table.
<1>7. ASSUME UNCHANGED <<tables, history>>, w.pc \in {"login", "post"},
             w'.pc = "post", w'.job = w.job, w'.old = w.old,
             w'.todo = w.todo, w'.handled = w.handled,
             w'.left \subseteq w.left,
             w.pc = "post" => \A d \in w.dirty : w.state[d] \in Settled,
             \A d \in w'.dirty : w'.state[d] \in Settled
      PROVE  OnceInv'
  <2>1. /\ ToldIsSettled' /\ told' = told /\ touched' = touched
        /\ row' = row /\ device' = device
    BY <1>0, <1>7, QuietTold DEF tables, history
  <2>2. ToldIsNotOld' /\ JobsAreApart'
    BY <1>1, <1>7, <2>1 DEF ToldIsNotOld, JobsAreApart, Waiting
  <2>3. LeftIsUntold' /\ DirtyIsKnown'
    BY <1>1, <1>7, <2>1 DEF LeftIsUntold, DirtyIsKnown
  <2> QED BY <2>1, <2>2, <2>3 DEF OnceInv, SessionOnce
<1>8. /\ w.pc = "post" => \A d \in w.dirty : w.state[d] \in Settled
      /\ w.pc = "login" => w.dirty = {}
  BY <1>1 DEF DirtyIsKnown
<1>9. CASE Login
  <2>1. /\ w.pc = "login" /\ w' = [w EXCEPT !.pc = "post"]
        /\ UNCHANGED <<tables, history>>
    BY <1>9 DEF Login, Goto
  <2>2. /\ w'.pc = "post" /\ w'.job = w.job /\ w'.old = w.old
        /\ w'.todo = w.todo /\ w'.handled = w.handled
        /\ w'.left = w.left /\ w'.dirty = w.dirty
    BY <1>0, <2>1 DEF Worker
  <2> QED BY <1>7, <1>8, <2>1, <2>2
<1>10. CASE LoginFails
  BY <1>4, <1>10 DEF LoginFails
<1>11. ASSUME NEW d \in Devices, NEW state \in Settled, w.pc = "post",
              Answered(d, state), UNCHANGED <<tables, history>>
       PROVE  OnceInv'
  <2>1. w' = [w EXCEPT !.left = @ \ {d}, !.state[d] = state,
                       !.dirty = @ \cup {d}]
    BY <1>11 DEF Answered
  <2>2. /\ w'.pc = "post" /\ w'.job = w.job /\ w'.old = w.old
        /\ w'.todo = w.todo /\ w'.handled = w.handled
        /\ w'.left = w.left \ {d}
        /\ w'.state = [w.state EXCEPT ![d] = state]
        /\ w'.dirty = w.dirty \cup {d}
    BY <1>0, <1>11, <2>1 DEF Worker
  <2>3. w.state \in [Devices -> Settled \cup {"pending", None}]
    BY <1>0 DEF Worker
  <2>4. \A e \in w'.dirty : w'.state[e] \in Settled
    BY <1>0, <1>8, <1>11, <2>2, <2>3 DEF Worker
  <2> QED BY <1>7, <1>8, <1>11, <2>2, <2>4
<1>12. ASSUME NEW d \in Devices, PostSent(d) \/ PostUnregistered(d)
       PROVE  OnceInv'
  <2>1. "sent" \in Settled /\ "discarded" \in Settled
    BY DEF Settled
  <2> QED BY <1>11, <1>12, <2>1 DEF PostSent, PostUnregistered
<1>13. ASSUME NEW d \in Devices, PostFails(d) PROVE OnceInv'
  <2>1. /\ w.pc = "post" /\ w' = [w EXCEPT !.left = @ \ {d}]
        /\ UNCHANGED <<tables, history>>
    BY <1>13 DEF PostFails
  <2>2. /\ w'.pc = "post" /\ w'.job = w.job /\ w'.old = w.old
        /\ w'.todo = w.todo /\ w'.handled = w.handled
        /\ w'.left = w.left \ {d} /\ w'.state = w.state
        /\ w'.dirty = w.dirty
    BY <1>0, <2>1 DEF Worker
  <2> QED BY <1>7, <1>8, <2>1, <2>2
<1>14. CASE MarkDeliveries
  <2> DEFINE settled == \A d \in Devices : w.state[d] # "pending"
  <2>1. w.pc = "post" /\ touched' = touched
    BY <1>14 DEF MarkDeliveries
  <2>2. CASE w.dirty = {}
    BY <1>4, <1>14, <2>2 DEF MarkDeliveries, history
  <2>3. CASE w.dirty # {} /\ CanCommit
    <3>1. Commit
      BY <1>14, <2>3 DEF MarkDeliveries
    <3>2. /\ ToldIsSettled'
          /\ \A j \in Jobs \ w.handled : row'[j] = row[j]
          /\ \A j \in Jobs \ {w.job} : told'[j] = told[j]
          /\ \A d \in Devices : device[d] = None => device'[d] = None
      BY <2>1, <2>3, <3>1, CommitOnce
    <3>3. \A j \in w.todo : row'[j] = row[j] /\ told'[j] = told[j]
      BY <1>3, <2>1, <3>2
    <3>4. CASE settled
      <4>1. w' = [w EXCEPT !.pc = "handled", !.dirty = {}, !.handled = {}]
        BY <1>14, <2>3, <3>4 DEF MarkDeliveries
      <4>2. /\ w'.pc = "handled" /\ w'.job = w.job /\ w'.old = w.old
            /\ w'.todo = w.todo /\ w'.handled = {} /\ w'.dirty = {}
        BY <1>0, <4>1 DEF Worker
      <4>3. SessionOnce'
        BY <1>1, <2>1, <3>2, <3>3, <4>2 DEF SessionOnce, ToldIsNotOld, LeftIsUntold,
           DirtyIsKnown, JobsAreApart, Waiting
      <4> QED BY <3>2, <4>3 DEF OnceInv
    <3>5. CASE ~settled
      <4>1. w' = [Unsettled EXCEPT !.handled = {}]
        BY <1>14, <2>3, <3>5 DEF MarkDeliveries
      <4>2. CASE w.retry
        <5>1. /\ w'.pc = "next" /\ w'.old = w.old /\ w'.todo = w.todo
              /\ w'.handled = {} /\ w'.dirty = {}
          BY <1>0, <4>1, <4>2 DEF Worker, Unsettled
        <5>2. SessionOnce'
          BY <1>2, <2>1, <3>2, <3>3, <5>1
        <5> QED BY <3>2, <5>2 DEF OnceInv
      <4>3. CASE ~w.retry
        <5>1. /\ w'.pc = "top" /\ w'.todo = {} /\ w'.handled = {}
              /\ w'.dirty = {}
          BY <4>1, <4>3 DEF Unsettled, Idle
        <5> QED BY <3>2, <5>1, IdleOnce DEF OnceInv
      <4> QED BY <4>2, <4>3
    <3> QED BY <3>4, <3>5
  <2>4. CASE w.dirty # {} /\ ~CanCommit
    BY <1>4, <1>14, <2>4 DEF MarkDeliveries, history
  <2> QED BY <2>2, <2>3, <2>4
<1>15. CASE Handled
  <2>1. /\ w.pc = "handled" /\ UNCHANGED <<tables, history>>
        /\ w' = [w EXCEPT !.pc = IF w.retry THEN "next" ELSE "close",
                          !.handled = @ \cup {w.job}]
    BY <1>15 DEF Handled
  <2>2. /\ w'.pc \in {"next", "close"} /\ w'.todo = w.todo /\ w'.old = w.old
        /\ w'.handled = w.handled \cup {w.job} /\ w'.dirty = w.dirty
    BY <1>0, <2>1 DEF Worker
  <2>3. w.dirty = {} /\ w'.todo \cap w'.handled = {}
    BY <1>1, <2>1, <2>2 DEF DirtyIsKnown, JobsAreApart
  <2>4. SessionOnce'
    BY <1>2, <2>1, <2>2, <2>3 DEF tables, history
  <2> QED BY <1>0, <2>1, <2>4, QuietTold DEF OnceInv
<1>16. CASE Close
  <2>1. CASE CanCommit
    <3>1. Commit /\ touched' = touched /\ Raised
      BY <1>16, <2>1 DEF Close
    <3>2. ToldIsSettled'
      BY <2>1, <3>1, CommitOnce
    <3>3. /\ w'.pc \in {"top", "look"} /\ w'.todo = {} /\ w'.handled = {}
          /\ w'.dirty = {}
      BY <3>1 DEF Raised, Idle
    <3> QED BY <3>2, <3>3, IdleOnce DEF OnceInv
  <2>2. CASE ~CanCommit
    BY <1>4, <1>16, <2>2 DEF Close, history
  <2> QED BY <2>1, <2>2
<1> QED BY <1>5, <1>6, <1>9, <1>10, <1>12, <1>13, <1>14, <1>15, <1>16

LEMMA LoopTellsOnce ==
    ASSUME TypeInv, OnceInv
    PROVE  NoRetryYet \/ SelectPending \/ NextPending \/ Tick \/ Crash \/ Restart
             => OnceInv'
<1>0. /\ ToldIsSettled /\ SessionOnce /\ WorkerHasJob
      /\ TablesTypeOK /\ HistoryTypeOK /\ w \in Worker
  BY DEF OnceInv, TypeInv, TypeOK
<1>1. ToldIsNotOld /\ LeftIsUntold /\ DirtyIsKnown /\ JobsAreApart
  BY <1>0 DEF SessionOnce
<1>2. CASE NoRetryYet
  <2>1. w.pc = "top" /\ w' = [w EXCEPT !.pc = "look"] /\ UNCHANGED <<tables, history>>
    BY <1>2 DEF NoRetryYet, Goto
  <2>2. /\ w'.pc = "look" /\ w'.todo = w.todo /\ w'.handled = w.handled
        /\ w'.old = w.old /\ w'.dirty = w.dirty
    BY <1>0, <2>1 DEF Worker
  <2>3. SessionOnce'
    BY <1>1, <2>1, <2>2 DEF SessionOnce, ToldIsNotOld, LeftIsUntold,
       DirtyIsKnown, JobsAreApart, Waiting, tables, history
  <2> QED BY <1>0, <2>1, <2>3, QuietTold DEF OnceInv
<1>3. CASE SelectPending
  <2> DEFINE waiting == {j \in Jobs : row[j] = [status  |-> "completed",
                                                pending |-> TRUE]}
             batch == {j \in waiting : Cardinality(older[j] \cap waiting) < Batch}
             old   == [j \in Jobs |-> IF j \in batch THEN stale[j] ELSE {}]
  <2>1. /\ UNCHANGED <<tables, history>>
        /\ w' = [Idle("next") EXCEPT !.retry = TRUE, !.todo = batch, !.old = old]
    BY <1>3 DEF SelectPending
  <2>2. \A j \in batch : j \in Jobs /\ Waiting(j) /\ old[j] = stale[j]
    <3>1. batch \subseteq waiting
      <4> HIDE DEF waiting
      <4> QED OBVIOUS
    <3>2. [status |-> "completed", pending |-> TRUE] \in Row
      BY DEF Row, Statuses
    <3>3. \A j \in waiting : j \in Jobs /\ Waiting(j)
      BY <3>2, PushNoneIsNoRow DEF Waiting
    <3> HIDE DEF waiting, batch
    <3> QED BY <3>1, <3>3
  <2> HIDE DEF batch, old
  <2>3. /\ w'.pc = "next" /\ w'.todo = batch /\ w'.handled = {}
        /\ w'.dirty = {} /\ w'.old = old
    BY <2>1 DEF Idle
  <2>4. ToldIsNotOld'
    <3>1. row' = row /\ told' = told /\ touched' = touched /\ device' = device
      BY <2>1 DEF tables, history
    <3>2. \A j \in batch : j \notin touched => Waiting(j) /\ \A d \in Devices :
            d \in told[j] /\ d \in old[j] => device[d] = None
      BY <1>0, <2>2 DEF ToldIsSettled
    <3> QED BY <2>3, <3>1, <3>2 DEF ToldIsNotOld, Waiting
  <2>5. LeftIsUntold' /\ DirtyIsKnown' /\ JobsAreApart'
    BY <2>3 DEF LeftIsUntold, DirtyIsKnown, JobsAreApart
  <2> QED BY <1>0, <2>1, <2>4, <2>5, QuietTold DEF OnceInv, SessionOnce
<1>4. CASE NextPending
  <2>1. w.pc = "next" /\ UNCHANGED <<tables, history>>
    BY <1>4 DEF NextPending
  <2>2. /\ ToldIsSettled' /\ told' = told /\ touched' = touched
        /\ row' = row /\ device' = device /\ w.dirty = {}
    BY <1>0, <1>1, <2>1, QuietTold DEF DirtyIsKnown, tables, history
  <2>3. CASE w' = [w EXCEPT !.pc = "close"]
    <3>1. /\ w'.pc = "close" /\ w'.todo = w.todo /\ w'.handled = w.handled
          /\ w'.old = w.old /\ w'.dirty = w.dirty
      BY <1>0, <2>3 DEF Worker
    <3>2. SessionOnce'
      BY <1>1, <2>1, <2>2, <3>1 DEF SessionOnce, ToldIsNotOld, LeftIsUntold,
         DirtyIsKnown, JobsAreApart, Waiting
    <3> QED BY <2>2, <3>2 DEF OnceInv
  <2>4. ASSUME NEW j \in w.todo,
               w' = [w EXCEPT !.pc = "select", !.job = j, !.todo = @ \ {j},
                              !.dirty = {}]
        PROVE  OnceInv'
    <3>1. /\ w'.pc = "select" /\ w'.job = j /\ w'.todo = w.todo \ {j}
          /\ w'.handled = w.handled /\ w'.old = w.old /\ w'.dirty = {}
      BY <1>0, <2>4 DEF Worker
    <3>2. SessionOnce'
      BY <1>1, <2>1, <2>2, <3>1 DEF SessionOnce, ToldIsNotOld, LeftIsUntold,
         DirtyIsKnown, JobsAreApart, Waiting
    <3> QED BY <2>2, <3>2 DEF OnceInv
  <2> QED BY <1>4, <2>3, <2>4 DEF NextPending, Goto
<1>5. CASE Tick
  BY <1>0, <1>5, QuietOnce DEF Tick
<1>6. CASE Crash
  <2>1. UNCHANGED <<tables, history>> /\ w' = Idle("down")
    BY <1>6 DEF Crash
  <2>2. w'.pc = "down" /\ w'.todo = {} /\ w'.handled = {} /\ w'.dirty = {}
    BY <2>1 DEF Idle
  <2> QED BY <1>0, <2>1, <2>2, QuietTold, IdleOnce DEF OnceInv
<1>7. CASE Restart
  <2> DEFINE running == {j \in Jobs : row[j] # None /\ row[j].status = "running"}
             put     == [j \in running |-> [row[j] EXCEPT !.status = "queued"]]
  <2>1. /\ WriteJobs(running, put) /\ touched' = touched /\ told' = told
        /\ w' = Idle("top")
    BY <1>7 DEF Restart
  <2>2. running \in SUBSET Jobs /\ \A j \in running : row[j] \in Row
    BY <1>0 DEF TablesTypeOK
  <2>3. \A r \in Row : [r EXCEPT !.status = "queued"].status = "queued"
    BY DEF Row
  <2>4. \A j \in running : row'[j] = put[j]
    BY <2>1 DEF WriteJobs, Write
  <2>5. \A j \in running : put[j].status = "queued"
    <3> HIDE DEF running
    <3> QED BY <2>2, <2>3
  <2> HIDE DEF running, put
  <2>6. ToldIsSettled'
    BY <1>0, <2>1, <2>2, <2>4, <2>5, WriteOnce
  <2>7. w'.pc = "top" /\ w'.todo = {} /\ w'.handled = {} /\ w'.dirty = {}
    BY <2>1 DEF Idle
  <2> QED BY <2>6, <2>7, IdleOnce DEF OnceInv
<1> QED BY <1>2, <1>3, <1>4, <1>5, <1>6, <1>7

LEMMA OnceInit == Init => OnceInv /\ GoneHasNone
<1> SUFFICES ASSUME Init PROVE OnceInv /\ GoneHasNone
  OBVIOUS
<1>1. /\ w.pc = "top" /\ w.todo = {} /\ w.handled = {} /\ w.dirty = {}
      /\ \A j \in Jobs : told[j] = {} /\ \A d \in Devices : delivery[j][d] = None
  BY DEF Init, Idle
<1>2. ToldIsSettled /\ GoneHasNone
  BY <1>1 DEF ToldIsSettled, GoneHasNone
<1>3. SessionOnce
  BY <1>1 DEF SessionOnce, ToldIsNotOld, LeftIsUntold, DirtyIsKnown, JobsAreApart
<1> QED BY <1>2, <1>3 DEF OnceInv

LEMMA OnceStep ==
    TypeInv /\ PushInv /\ GoneHasNone /\ OnceInv /\ [Next]_vars => OnceInv'
<1> SUFFICES ASSUME TypeInv, PushInv, GoneHasNone, OnceInv, [Next]_vars
             PROVE  OnceInv'
  OBVIOUS
<1>1. CASE UNCHANGED vars
  BY <1>1, QuietOnce DEF vars, TypeInv
<1>2. CASE Next
  BY <1>2, RequestsTellOnce, RoundsTellOnce, PushesTellOnce, LoopTellsOnce
  DEF Next, WorkStep
<1> QED BY <1>1, <1>2

\* send_job_pushes tells no device again whose "sent" is on record for this
\* completion, unless a request has written the job since the round's reload.
THEOREM NoOneIsToldAgain == Spec => NotToldAgain
<1>1. TypeInv /\ OnceInv =>
        [\A d \in ToldNow : d \in told[w.job] => w.job \in touched]_vars
  <2> SUFFICES ASSUME TypeInv, OnceInv, NEW d \in ToldNow, d \in told[w.job]
               PROVE  w.job \in touched
    OBVIOUS
  <2>1. d \in w.left /\ w.pc = "post"
    BY DEF ToldNow
  <2> QED BY <2>1 DEF OnceInv, SessionOnce, LeftIsUntold
<1> QED BY <1>1, TypeInit, TypeStep, PushInit, PushStep, OnceInit, OnceStep,
           GoneStep, PTL DEF Spec, NotToldAgain
=============================================================================
