--------------------------- MODULE JobQueueProofs ---------------------------
(***************************************************************************)
(* Theorems about JobQueue, for every number of jobs, accounts, uploads,   *)
(* clients and every value of the bounds.                                  *)
(***************************************************************************)
EXTENDS JobQueue, TLAPS

-----------------------------------------------------------------------------
(* What a commit makes of a row. *)

\* A commit of a session on a row gives a row again.
LEMMA FlushType ==
    ASSUME NEW row \in Row, NEW snap \in Row, NEW new \in Row
    PROVE  Flush(row, snap, new) \in Row
BY DEF Flush, Row

\* And so do the two forms of it that handlers and worker use.
LEMMA SavedType ==
    ASSUME rows \in [Jobs -> Row \cup {None}], NEW j \in Jobs, rows[j] # None,
           NEW snap \in Row, NEW new \in Row
    PROVE  Saved(j, snap, new) \in [Jobs -> Row \cup {None}]
<1>1. Flush(rows[j], snap, new) \in Row
  BY FlushType
<1> QED BY <1>1 DEF Saved

LEMMA RescheduledType ==
    ASSUME rows \in [Jobs -> Row \cup {None}], NEW j \in Jobs, rows[j] # None,
           NEW snap \in Row, NEW new \in Row, NEW due \in BOOLEAN
    PROVE  Rescheduled(j, snap, new, due) \in [Jobs -> Row \cup {None}]
<1>1. Flush(rows[j], snap, new) \in Row
  BY FlushType
<1>2. [Flush(rows[j], snap, new) EXCEPT !.due = due] \in Row
  BY <1>1 DEF Row
<1> QED BY <1>2 DEF Rescheduled

-----------------------------------------------------------------------------
(* Type correctness. *)

TypeInv == TypeOK /\ RoundHasJob

\* The row the worker works on.
LEMMA MineType ==
    ASSUME TypeInv, pc \in InRound \cup {"claim"}
    PROVE  job \in Jobs /\ mine \in Row
BY DEF TypeInv, TypeOK, WorkerTypeOK, RoundHasJob, mine

LEMMA TypeInit == Init => TypeInv
<1> SUFFICES ASSUME Init PROVE TypeInv
  OBVIOUS
<1>1. StoreTypeOK
  BY DEF Init, StoreInit, StoreTypeOK
<1>2. ApiTypeOK
  BY DEF Init, ApiInit, ApiTypeOK
<1>3. WorkerTypeOK
  BY DEF Init, WorkerInit, WorkerTypeOK, NoRows, Places, Statuses, ActiveStates
<1>4. RoundHasJob
  BY DEF Init, WorkerInit, RoundHasJob, InRound
<1>5. putBack \in BOOLEAN
  BY DEF Init
<1> QED BY <1>1, <1>2, <1>3, <1>4, <1>5 DEF TypeInv, TypeOK

\* The request a client is serving.
LEMMA CallType ==
    ASSUME TypeInv, NEW c \in Clients, call[c] # None
    PROVE  /\ call[c] \in Call
           /\ call[c].job \in Jobs
           /\ call[c].snap \in Row
           /\ call[c].nr \in Nat
BY DEF TypeInv, TypeOK, ApiTypeOK, Call

LEMMA ReturnType ==
    ASSUME TypeInv, NEW c \in Clients, Return(c)
    PROVE  call' \in [Clients -> Call \cup {None}]
BY DEF TypeInv, TypeOK, ApiTypeOK, Return

\* Both kinds of write, given rows of the right type.
LEMMA WriteType ==
    ASSUME TypeInv, NEW newRows \in [Jobs -> Row \cup {None}],
           UnlockedWrite(newRows) \/ LockedWrite(newRows)
    PROVE  rows' \in [Jobs -> Row \cup {None}] /\ revived' \in SUBSET Jobs
BY DEF TypeInv, TypeOK, StoreTypeOK, UnlockedWrite, LockedWrite

LEMMA OrderType ==
    ASSUME TypeInv, NEW j \in Jobs,
           ahead' = MovedToBack(j) \/ ahead' = Unordered(j)
    PROVE  ahead' \in [Jobs -> SUBSET Jobs]
BY DEF TypeInv, TypeOK, StoreTypeOK, MovedToBack, Unordered

\* The rows the handlers write.
LEMMA ApiRowTypes ==
    ASSUME NEW old \in Row, NEW c \in Clients, call[c].nr \in Nat
    PROVE  /\ [old EXCEPT !.status = "stopped", !.stop = TRUE] \in Row
           /\ [old EXCEPT !.status = "queued", !.stop = FALSE] \in Row
           /\ [old EXCEPT !.status = "cancelled", !.stop = TRUE, !.media = None] \in Row
           /\ [old EXCEPT !.media = None] \in Row
           /\ WithClue(c, old) \in Row
           /\ Reopened(old) \in Row
           /\ WithClue(c, Reopened(old)) \in Row
<1> USE DEF Row, Statuses, ActiveStates, FinalStates, ContinuableStates
<1>1. /\ [old EXCEPT !.status = "stopped", !.stop = TRUE] \in Row
      /\ [old EXCEPT !.status = "queued", !.stop = FALSE] \in Row
  OBVIOUS
<1>2. /\ [old EXCEPT !.status = "cancelled", !.stop = TRUE, !.media = None] \in Row
      /\ [old EXCEPT !.media = None] \in Row
  OBVIOUS
<1>3. \A row \in Row : WithClue(c, row) \in Row
  BY DEF WithClue
<1>4. Reopened(old) \in Row
  <2>. DEFINE kept == IF old.attempts >= MaxAttempts \/ old.attempts < ContinueFloor
                      THEN ContinueFloor ELSE old.attempts
  <2>1. kept \in Nat
    BY StoreAssumption
  <2>2. [old EXCEPT !.status = "queued", !.stop = FALSE, !.attempts = kept] \in Row
    BY <2>1
  <2> QED BY <2>2 DEF Reopened
<1> QED BY <1>1, <1>2, <1>3, <1>4

LEMMA ApiTypeStep ==
    ASSUME TypeInv, ApiStep
    PROVE  TypeInv'
<1>0. putBack' \in BOOLEAN
  BY DEF ApiStep, ApiMeanwhile
<1>1. WorkerTypeOK' /\ RoundHasJob'
  BY DEF ApiStep, ApiMeanwhile, TypeInv, TypeOK, WorkerTypeOK, RoundHasJob, workerVars
<1>2. SUFFICES StoreTypeOK' /\ ApiTypeOK'
  BY <1>0, <1>1 DEF TypeInv, TypeOK
<1>3. ASSUME NEW f \in Files, NEW acct \in Accounts, Upload(f, acct)
      PROVE  StoreTypeOK' /\ ApiTypeOK'
  BY <1>3 DEF Upload, TypeInv, TypeOK, StoreTypeOK, ApiTypeOK, apiVars
<1>4. ASSUME NEW c \in Clients, NEW j \in Jobs, ReceiveOn(c, j)
      PROVE  StoreTypeOK' /\ ApiTypeOK'
  <2>1. PICK op \in Ops : Read(c, op, j)
    BY <1>4 DEF ReceiveOn, ReadStop, ReadResume, ReadContinue, ReadCancel,
       ReadDelete, ReadDeleteMedia, ReadClue, Ops
  <2>2. rows[j] \in Row /\ calls + 1 \in Nat
    BY <2>1 DEF Read, TypeInv, TypeOK, StoreTypeOK, ApiTypeOK
  <2>3. [op |-> op, job |-> j, locked |-> FALSE, snap |-> rows[j],
         nr |-> IF op = "clue" THEN calls + 1 ELSE 0] \in Call
    BY <2>2 DEF Call
  <2> QED BY <2>1, <2>2, <2>3 DEF Read, TypeInv, TypeOK, StoreTypeOK, ApiTypeOK,
             storeVars
<1>5. ASSUME NEW c \in Clients, NEW j \in Jobs, NEW acct \in Accounts,
             NEW media \in Files \cup {None}, ReadCreate(c, j, acct, media)
      PROVE  StoreTypeOK' /\ ApiTypeOK'
  <2>1. [op |-> "create", job |-> j, locked |-> FALSE, nr |-> 0,
         snap |-> NewRow(acct, media)] \in Call
    BY DEF Call, Ops, Row, NewRow, Statuses, ActiveStates
  <2> QED BY <1>5, <2>1 DEF ReadCreate, TypeInv, TypeOK, StoreTypeOK, ApiTypeOK,
             storeVars
<1>6. ASSUME NEW c \in Clients, call[c] # None, Handle(c) \/ ApiDies(c)
      PROVE  StoreTypeOK' /\ ApiTypeOK'
  <2>. DEFINE j == call[c].job
              old == call[c].snap
  <2>1. /\ call[c] \in Call /\ j \in Jobs /\ old \in Row /\ call[c].nr \in Nat
    BY <1>6, CallType
  <2>2. rows \in [Jobs -> Row \cup {None}]
    BY DEF TypeInv, TypeOK, StoreTypeOK
  <2>3. CASE LockCapacity(c)
    <3>1. [call[c] EXCEPT !.locked = TRUE] \in Call
      BY <2>1 DEF Call
    <3> QED BY <2>3, <3>1 DEF LockCapacity, TypeInv, TypeOK, StoreTypeOK, ApiTypeOK,
               storeVars
  <2>4. CASE QueueFull(c)
    BY <2>4, ReturnType DEF QueueFull, TypeInv, TypeOK, StoreTypeOK, ApiTypeOK
  <2>5. CASE Create(c)
    <3>. DEFINE new == NewRow(old.acct, old.media)
    <3>1. new \in Row /\ new.media \in Files \cup {None}
      BY <2>1 DEF Row, NewRow, Statuses, ActiveStates
    <3>2. [rows EXCEPT ![j] = new] \in [Jobs -> Row \cup {None}]
      BY <2>1, <2>2, <3>1
    <3>3. /\ LockedWrite([rows EXCEPT ![j] = new])
          /\ source' = [source EXCEPT ![j] = new.media]
      BY <2>5 DEF Create
    <3> HIDE DEF new
    <3> QED BY <2>5, <2>1, <3>1, <3>2, <3>3, ReturnType, WriteType, OrderType
            DEF Create, TypeInv, TypeOK, StoreTypeOK, ApiTypeOK
  <2>6. CASE CommitFails(c)
    BY <2>6, ReturnType DEF CommitFails, TypeInv, TypeOK, StoreTypeOK, ApiTypeOK
  <2>7. CASE Stop(c)
    <3>1. Saved(j, old, [old EXCEPT !.status = "stopped", !.stop = TRUE])
            \in [Jobs -> Row \cup {None}]
      BY <2>1, <2>2, <2>7, SavedType, ApiRowTypes DEF Stop, Commits
    <3> QED BY <2>7, <3>1, ReturnType, WriteType
            DEF Stop, Commits, TypeInv, TypeOK, StoreTypeOK, ApiTypeOK
  <2>8. CASE Resume(c)
    <3>1. Rescheduled(j, old, [old EXCEPT !.status = "queued", !.stop = FALSE], TRUE)
            \in [Jobs -> Row \cup {None}]
      BY <2>1, <2>2, <2>8, RescheduledType, ApiRowTypes DEF Resume, Commits
    <3> QED BY <2>8, <3>1, ReturnType, WriteType
            DEF Resume, Commits, TypeInv, TypeOK, StoreTypeOK, ApiTypeOK
  <2>9. CASE Continue(c)
    <3>1. Rescheduled(j, old, Reopened(old), TRUE) \in [Jobs -> Row \cup {None}]
      BY <2>1, <2>2, <2>9, RescheduledType, ApiRowTypes DEF Continue, Commits
    <3> QED BY <2>9, <2>1, <3>1, ReturnType, WriteType, OrderType
            DEF Continue, Commits, TypeInv, TypeOK, StoreTypeOK, ApiTypeOK
  <2>10. CASE Cancel(c)
    <3>1. Saved(j, old, [old EXCEPT !.status = "cancelled", !.stop = TRUE,
                                    !.media = None]) \in [Jobs -> Row \cup {None}]
      BY <2>1, <2>2, <2>10, SavedType, ApiRowTypes DEF Cancel, Commits
    <3> QED BY <2>10, <3>1, ReturnType, WriteType
            DEF Cancel, Commits, TypeInv, TypeOK, StoreTypeOK, ApiTypeOK
  <2>11. CASE Delete(c)
    <3>1. [rows EXCEPT ![j] = None] \in [Jobs -> Row \cup {None}]
      BY <2>1, <2>2
    <3> QED BY <2>11, <2>1, <3>1, ReturnType, WriteType, OrderType
            DEF Delete, TypeInv, TypeOK, StoreTypeOK, ApiTypeOK
  <2>12. CASE DeleteMedia(c)
    <3>1. Saved(j, old, [old EXCEPT !.media = None]) \in [Jobs -> Row \cup {None}]
      BY <2>1, <2>2, <2>12, SavedType, ApiRowTypes DEF DeleteMedia, Commits
    <3> QED BY <2>12, <3>1, ReturnType, WriteType
            DEF DeleteMedia, Commits, TypeInv, TypeOK, StoreTypeOK, ApiTypeOK
  <2>13. CASE ClueReopens(c)
    <3>1. Rescheduled(j, old, WithClue(c, Reopened(old)), TRUE)
            \in [Jobs -> Row \cup {None}]
      BY <2>1, <2>2, <2>13, RescheduledType, ApiRowTypes DEF ClueReopens, Commits
    <3> QED BY <2>13, <2>1, <3>1, ReturnType, WriteType, OrderType
            DEF ClueReopens, Commits, TypeInv, TypeOK, StoreTypeOK, ApiTypeOK
  <2>14. CASE Clue(c)
    <3>1. rows[j].due \in BOOLEAN
      BY <2>1, <2>2, <2>14 DEF Clue, Commits, Row
    <3>2. Rescheduled(j, old, WithClue(c, old), old.status = "queued" \/ rows[j].due)
            \in [Jobs -> Row \cup {None}]
      BY <2>1, <2>2, <2>14, <3>1, RescheduledType, ApiRowTypes DEF Clue, Commits
    <3> QED BY <2>14, <3>2, ReturnType, WriteType
            DEF Clue, Commits, TypeInv, TypeOK, StoreTypeOK, ApiTypeOK
  <2>15. CASE ApiDies(c)
    BY <2>15, ReturnType DEF ApiDies, TypeInv, TypeOK, StoreTypeOK, ApiTypeOK
  <2> QED BY <1>6, <2>3, <2>4, <2>5, <2>6, <2>7, <2>8, <2>9, <2>10, <2>11, <2>12,
             <2>13, <2>14, <2>15 DEF Handle
<1>7. \A c \in Clients : Handle(c) \/ ApiDies(c) => call[c] # None
  BY DEF Handle, ApiDies, LockCapacity, QueueFull, Admits, Create, CommitFails, Stop,
     Resume, Continue, Cancel, Delete, DeleteMedia, ClueReopens, Clue, Commits, Serving
<1> QED BY <1>3, <1>4, <1>5, <1>6, <1>7 DEF ApiStep, ApiNext, Receive

\* The end of a round.
LEMMA LeaveType ==
    ASSUME TypeInv, NEW place \in {"idle", "down"}, Leave(place)
    PROVE  /\ pc' = place
           /\ job' = None
           /\ session' \in [Jobs -> Row \cup {None}]
           /\ vision' \in BOOLEAN /\ roundCtx' \in SUBSET Nat
           /\ verdict' \in Statuses /\ rescuing' \in BOOLEAN
           /\ pc' \in Places
           /\ RoundHasJob'
BY DEF Leave, NoRows, Statuses, ActiveStates, Places, InRound, RoundHasJob

\* A move inside a round.
LEMMA GoToType ==
    ASSUME TypeInv, NEW place \in Places, GoTo(place),
           pc \in InRound \cup {"claim"} \/ place \notin InRound \cup {"claim"}
    PROVE  /\ pc' \in Places
           /\ job' \in Jobs \cup {None}
           /\ session' \in [Jobs -> Row \cup {None}]
           /\ vision' \in BOOLEAN /\ roundCtx' \in SUBSET Nat
           /\ verdict' \in Statuses /\ rescuing' \in BOOLEAN
           /\ RoundHasJob'
BY DEF GoTo, TypeInv, TypeOK, WorkerTypeOK, RoundHasJob, roundVars

\* The decision to end a round with a status.
LEMMA ConcludeType ==
    ASSUME TypeInv, pc \in InRound, NEW status \in Statuses, Conclude(status),
           UNCHANGED apiVars, putBack' \in BOOLEAN
    PROVE  TypeInv'
BY DEF Conclude, TypeInv, TypeOK, StoreTypeOK, ApiTypeOK, WorkerTypeOK, RoundHasJob,
   Places, InRound, apiVars, counters

\* A fresh copy of a row that is there.
LEMMA LoadType ==
    ASSUME TypeInv, NEW j \in Jobs, rows[j] # None
    PROVE  Loaded(j) \in [Jobs -> Row \cup {None}] /\ Loaded(j)[j] # None
BY DEF Loaded, TypeInv, TypeOK, StoreTypeOK

\* The rows the worker writes.
LEMMA WorkerRowTypes ==
    ASSUME NEW old \in Row, NEW status \in Statuses
    PROVE  /\ [old EXCEPT !.status = status] \in Row
           /\ [old EXCEPT !.status = "queued"] \in Row
           /\ [old EXCEPT !.status = "queued", !.stop = FALSE] \in Row
           /\ [old EXCEPT !.status = "running", !.attempts = @ + 1] \in Row
           /\ [old EXCEPT !.status = status,
                          !.media = IF status \in PurgeMediaStates \cup {"cancelled"}
                                    THEN None ELSE @] \in Row
<1>1. "queued" \in Statuses /\ "running" \in Statuses
  BY DEF Statuses, ActiveStates
<1>2. \A row \in Row, st \in Statuses : [row EXCEPT !.status = st] \in Row
  BY DEF Row
<1>3. [old EXCEPT !.status = "queued", !.stop = FALSE] \in Row
  BY <1>1 DEF Row
<1>4. [old EXCEPT !.status = "running", !.attempts = @ + 1] \in Row
  <2>1. old.attempts + 1 \in Nat
    BY DEF Row
  <2> QED BY <1>1, <2>1 DEF Row
<1>5. [old EXCEPT !.status = status,
                  !.media = IF status \in PurgeMediaStates \cup {"cancelled"}
                            THEN None ELSE @] \in Row
  <2>. DEFINE media == IF status \in PurgeMediaStates \cup {"cancelled"}
                       THEN None ELSE old.media
  <2>1. media \in Files \cup {None}
    BY DEF Row
  <2> HIDE DEF media
  <2>2. [old EXCEPT !.status = status, !.media = media] \in Row
    BY <2>1 DEF Row
  <2> QED BY <2>2 DEF media
<1> QED BY <1>1, <1>2, <1>3, <1>4, <1>5

LEMMA WorkTypeStep ==
    ASSUME TypeInv, WorkStep
    PROVE  TypeInv'
<1>. USE DEF TypeInv, TypeOK, StoreTypeOK, ApiTypeOK, WorkerTypeOK
<1>0. putBack' \in BOOLEAN
  BY DEF WorkStep
<1>. USE <1>0
<1>1. UNCHANGED apiVars
  BY DEF WorkStep
<1>2. ApiTypeOK'
  BY <1>1 DEF apiVars
<1>3. "queued" \in Statuses /\ "stopped" \in Statuses /\ "cancelled" \in Statuses
      /\ "failed" \in Statuses /\ "needs_context" \in Statuses
      /\ "completed" \in Statuses /\ "partial" \in Statuses
  BY DEF Statuses, ActiveStates, FinalStates, ContinuableStates
<1>4. CASE RecoverRead
  BY <1>2, <1>4 DEF RecoverRead, storeVars, roundVars, counters, Places, InRound,
     RoundHasJob
<1>5. CASE Recover
  <2>. DEFINE new == [j \in Jobs |->
                        IF session[j] = None THEN rows[j]
                        ELSE [Flush(rows[j], session[j],
                                    [session[j] EXCEPT !.status = "queued", !.stop = FALSE])
                              EXCEPT !.due = TRUE]]
  <2>1. CASE \E j \in Jobs : session[j] # None /\ rows[j] = None
    BY <1>2, <1>5, <2>1, LeaveType DEF Recover, counters
  <2>2. CASE ~ \E j \in Jobs : session[j] # None /\ rows[j] = None
    <3>1. ASSUME NEW j \in Jobs, session[j] # None
          PROVE  [Flush(rows[j], session[j],
                        [session[j] EXCEPT !.status = "queued", !.stop = FALSE])
                  EXCEPT !.due = TRUE] \in Row
      <4>1. session[j] \in Row /\ rows[j] \in Row
        BY <2>2, <3>1
      <4>2. [session[j] EXCEPT !.status = "queued", !.stop = FALSE] \in Row
        BY <4>1, <1>3, WorkerRowTypes
      <4>3. Flush(rows[j], session[j],
                  [session[j] EXCEPT !.status = "queued", !.stop = FALSE]) \in Row
        BY <4>1, <4>2, FlushType
      <4> QED BY <4>3 DEF Row
    <3>2. new \in [Jobs -> Row \cup {None}]
      BY <3>1
    <3>3. UnlockedWrite(new)
      BY <1>5, <2>2 DEF Recover
    <3> HIDE DEF new
    <3> QED BY <1>2, <1>5, <3>2, <3>3, LeaveType, WriteType DEF Recover, counters
  <2> QED BY <2>1, <2>2
<1>6. CASE Select
  <2>1. PICK j \in Jobs : /\ IsCandidate(j)
                          /\ job' = j
                          /\ session' = Loaded(j)
    BY <1>6 DEF Select
  <2>2. rows[j] # None
    BY <2>1 DEF IsCandidate, IsHead, Active
  <2> QED BY <1>2, <1>6, <2>1, <2>2, LoadType DEF Select, storeVars, roundVars, counters,
             Places, InRound, RoundHasJob
<1>7. CASE Claim
  <2>1. job \in Jobs /\ mine \in Row
    BY <1>7, MineType DEF Claim
  <2>2. CASE rows[job] # None /\ Runnable(mine)
    <3>1. Saved(job, mine, [mine EXCEPT !.status = "running", !.attempts = @ + 1])
            \in [Jobs -> Row \cup {None}]
      BY <2>1, <2>2, <1>3, SavedType, WorkerRowTypes
    <3> QED BY <1>2, <1>7, <2>2, <3>1, GoToType, WriteType DEF Claim, counters, Places,
               InRound
  <2>3. CASE ~(rows[job] # None /\ Runnable(mine))
    BY <1>2, <1>7, <2>3, LeaveType DEF Claim, counters
  <2> QED BY <2>2, <2>3
<1>8. CASE Refresh
  BY <1>2, <1>8, MineType, LoadType, LeaveType DEF Refresh, storeVars, roundVars,
     counters, Places, InRound, RoundHasJob
<1>9. CASE StopAtStart
  BY <1>1, <1>3, <1>9, ConcludeType DEF StopAtStart, InRound
<1>10. CASE Analyse
  BY <1>2, <1>10 DEF Analyse, storeVars, counters, Places, InRound, RoundHasJob
<1>11. CASE Reload("analysed", "checked")
  BY <1>2, <1>11, MineType, LoadType, LeaveType DEF Reload, storeVars, roundVars,
     counters, Places, InRound, RoundHasJob
<1>12. CASE NoVision
  BY <1>1, <1>2, <1>3, <1>12, ConcludeType, GoToType DEF NoVision, storeVars, counters,
     Places, InRound
<1>13. CASE NoContext
  BY <1>1, <1>3, <1>13, ConcludeType DEF NoContext, InRound
<1>14. CASE StartResearch
  <2>1. mine.ctx \in SUBSET Nat
    BY <1>14, MineType DEF StartResearch, InRound, Row
  <2> QED BY <1>2, <1>14, <2>1 DEF StartResearch, storeVars, counters, Places, InRound,
             RoundHasJob
<1>15. CASE Reload("research", "outcome")
  BY <1>2, <1>15, MineType, LoadType, LeaveType DEF Reload, storeVars, roundVars,
     counters, Places, InRound, RoundHasJob
<1>16. CASE ContextChanged
  <2>1. job \in Jobs /\ mine \in Row
    BY <1>16, MineType DEF ContextChanged, InRound
  <2>2. CASE rows[job] = None
    BY <1>2, <1>16, <2>2, GoToType DEF ContextChanged, counters, Places, InRound
  <2>3. CASE rows[job] # None
    <3>1. Rescheduled(job, mine, [mine EXCEPT !.status = "queued", !.stop = FALSE], TRUE)
            \in [Jobs -> Row \cup {None}]
      BY <2>1, <2>3, <1>3, RescheduledType, WorkerRowTypes
    <3> QED BY <1>2, <1>16, <2>3, <3>1, LeaveType, WriteType DEF ContextChanged, counters
  <2> QED BY <2>2, <2>3
<1>17. CASE Publish
  BY <1>1, <1>2, <1>3, <1>17, ConcludeType, GoToType DEF Publish, storeVars, counters,
     Places, InRound
<1>18. ASSUME NEW place \in {"checked", "outcome", "rescued"},
              Cancelled(place) \/ Stopped(place)
       PROVE  TypeInv'
  BY <1>1, <1>3, <1>18, ConcludeType DEF Cancelled, Stopped, InRound
<1>19. CASE CommitRaises
  BY <1>2, <1>19, LeaveType, GoToType DEF CommitRaises, storeVars, counters, Places,
     InRound
<1>20. CASE Finish
  <2>1. job \in Jobs /\ mine \in Row
    BY <1>20, MineType DEF Finish, InRound
  <2>2. Saved(job, mine,
              [mine EXCEPT !.status = verdict,
                           !.media = IF verdict \in PurgeMediaStates \cup {"cancelled"}
                                     THEN None ELSE @]) \in [Jobs -> Row \cup {None}]
    BY <1>20, <2>1, SavedType, WorkerRowTypes DEF Finish
  <2> QED BY <1>2, <1>20, <2>2, LeaveType, WriteType DEF Finish, counters
<1>21. CASE Save
  <2>. DEFINE new == IF rescuing THEN [mine EXCEPT !.status = "queued"] ELSE mine
  <2>1. job \in Jobs /\ mine \in Row
    BY <1>21, MineType DEF Save, InRound
  <2>2. new \in Row
    BY <2>1, <1>3, WorkerRowTypes
  <2>3. Saved(job, mine, new) \in [Jobs -> Row \cup {None}]
    BY <1>21, <2>1, <2>2, SavedType DEF Save
  <2>4. [session EXCEPT ![job] = new] \in [Jobs -> Row \cup {None}]
    BY <2>2
  <2>5. new # None
    BY <2>2, NoneIsNoRow
  <2>6. /\ UnlockedWrite(Saved(job, mine, new))
        /\ session' = [session EXCEPT ![job] = new]
    BY <1>21 DEF Save
  <2> HIDE DEF new
  <2> QED BY <1>2, <1>21, <2>1, <2>3, <2>4, <2>5, <2>6, WriteType DEF Save, roundVars,
             counters, Places, InRound, RoundHasJob
<1>22. CASE Requeue
  <2>1. job \in Jobs /\ mine \in Row
    BY <1>22, MineType DEF Requeue, InRound
  <2>2. Rescheduled(job, mine, [mine EXCEPT !.status = "queued"], FALSE)
          \in [Jobs -> Row \cup {None}]
    BY <1>22, <2>1, <1>3, RescheduledType, WorkerRowTypes DEF Requeue
  <2> QED BY <1>2, <1>22, <2>2, LeaveType, WriteType DEF Requeue, counters
<1>23. CASE Rescue
  BY <1>2, <1>23, MineType, LoadType, LeaveType DEF Rescue, storeVars, counters, Places,
     InRound, RoundHasJob
<1>24. CASE Rescued
  BY <1>1, <1>2, <1>3, <1>24, ConcludeType, GoToType DEF Rescued, storeVars, counters,
     Places, InRound
<1>25. CASE Restart
  BY <1>2, <1>25, GoToType DEF Restart, storeVars, counters, Places, InRound
<1>26. CASE ClaimSkipsLocked(InFlight)
  BY <1>2, <1>26, LeaveType DEF ClaimSkipsLocked, storeVars, counters
<1> QED BY <1>4, <1>5, <1>6, <1>7, <1>8, <1>9, <1>10, <1>11, <1>12, <1>13, <1>14, <1>15,
           <1>16, <1>17, <1>18, <1>19, <1>20, <1>21, <1>22, <1>23, <1>24, <1>25, <1>26
        DEF WorkStep, WorkerStep

LEMMA FaultTypeStep ==
    ASSUME TypeInv, FaultStep
    PROVE  TypeInv'
<1>. USE DEF TypeInv, TypeOK, StoreTypeOK, ApiTypeOK, WorkerTypeOK
<1>0. putBack' \in BOOLEAN
  BY DEF FaultStep
<1>. USE <1>0
<1>1. ApiTypeOK'
  BY DEF FaultStep, apiVars
<1>2. CASE RecoverySkipped
  BY <1>1, <1>2, LeaveType DEF RecoverySkipped, storeVars
<1>3. CASE Raise
  BY <1>1, <1>3, GoToType DEF Raise, storeVars, counters, Places, InRound
<1>4. CASE Crash
  BY <1>1, <1>4, LeaveType DEF Crash, storeVars
<1> QED BY <1>2, <1>3, <1>4 DEF FaultStep, WorkerFault

LEMMA TimerTypeStep ==
    ASSUME TypeInv, NEW j \in Jobs, TimerStep(j)
    PROVE  TypeInv'
<1>1. rows[j] \in Row
  BY DEF TimerStep, BackoffExpires, TypeInv, TypeOK, StoreTypeOK
<1>2. [rows[j] EXCEPT !.due = TRUE] \in Row
  BY <1>1 DEF Row
<1> QED BY <1>2 DEF TimerStep, BackoffExpires, TypeInv, TypeOK, StoreTypeOK, ApiTypeOK,
           WorkerTypeOK, RoundHasJob, apiVars, workerVars

LEMMA TypeStep == TypeInv /\ [Next]_vars => TypeInv'
<1>1. ASSUME TypeInv, UNCHANGED vars
      PROVE  TypeInv'
  BY <1>1 DEF vars, storeVars, apiVars, workerVars, TypeInv, TypeOK, StoreTypeOK,
     ApiTypeOK, WorkerTypeOK, RoundHasJob
<1> QED BY <1>1, ApiTypeStep, WorkTypeStep, FaultTypeStep, TimerTypeStep DEF Next

\* Every variable keeps its type, and process_one has a loaded row of its job
\* wherever it uses one.
THEOREM TypeCorrect == Spec => []TypeOK
<1>1. TypeInv => TypeOK
  BY DEF TypeInv
<1> QED BY TypeInit, TypeStep, <1>1, PTL DEF Spec
-----------------------------------------------------------------------------
(* At most one running row, and the worker or its recovery accounts for it. *)

\* The steps of a request that change rows.
CommitStep(c) ==
    \/ Create(c) \/ Stop(c) \/ Resume(c) \/ Continue(c) \/ Cancel(c)
    \/ Delete(c) \/ DeleteMedia(c) \/ ClueReopens(c) \/ Clue(c)

LEMMA ApiSteps ==
    ASSUME ApiStep
    PROVE  UNCHANGED rows \/ \E c \in Clients : call[c] # None /\ CommitStep(c)
<1>1. UNCHANGED rows \/ \E c \in Clients : CommitStep(c)
  BY DEF CommitStep, ApiStep, ApiNext, Upload, Receive, ReceiveOn, ReadCreate, ReadStop,
     ReadResume, ReadContinue, ReadCancel, ReadDelete, ReadDeleteMedia, ReadClue, Read,
     Handle, LockCapacity, QueueFull, CommitFails, ApiDies, storeVars
<1>2. \A c \in Clients : CommitStep(c) => call[c] # None
  BY DEF CommitStep, Create, Stop, Resume, Continue, Cancel, Delete, DeleteMedia,
     ClueReopens, Clue, Commits, Serving
<1> QED BY <1>1, <1>2

\* Only Claim makes a row running: no request does.
LEMMA ApiRunsNothing ==
    ASSUME TypeInv, ApiStep, NEW j \in Jobs, Running(j)'
    PROVE  Running(j)
<1>1. CASE rows' = rows
  BY <1>1 DEF Running
<1>2. ASSUME NEW c \in Clients, call[c] # None, CommitStep(c)
      PROVE  Running(j)
  <2>. USE <1>2 DEF Running, UnlockedWrite, LockedWrite, Commits, Serving
  <2>1. call[c].job \in Jobs /\ call[c].snap \in Row
    BY CallType
  <2>2. rows \in [Jobs -> Row \cup {None}]
    BY DEF TypeInv, TypeOK, StoreTypeOK
  <2>3. CASE Create(c)
    BY <2>1, <2>2, <2>3 DEF Create, NewRow
  <2>4. CASE Stop(c)
    BY <2>1, <2>2, <2>4 DEF Stop, Saved, Flush, Row
  <2>5. CASE Resume(c)
    BY <2>1, <2>2, <2>5 DEF Resume, Rescheduled, Flush, Row
  <2>6. CASE Continue(c)
    BY <2>1, <2>2, <2>6 DEF Continue, Rescheduled, Flush, Row, Reopened
  <2>7. CASE Cancel(c)
    BY <2>1, <2>2, <2>7 DEF Cancel, Saved, Flush, Row
  <2>8. CASE Delete(c)
    BY <2>1, <2>2, <2>8 DEF Delete
  <2>9. CASE DeleteMedia(c)
    BY <2>1, <2>2, <2>9 DEF DeleteMedia, Saved, Flush, Row
  <2>10. CASE ClueReopens(c)
    BY <2>1, <2>2, <2>10 DEF ClueReopens, Rescheduled, Flush, Row, Reopened, WithClue
  <2>11. CASE Clue(c)
    BY <2>1, <2>2, <2>11 DEF Clue, Rescheduled, Flush, Row, WithClue
  <2> QED BY <2>3, <2>4, <2>5, <2>6, <2>7, <2>8, <2>9, <2>10, <2>11 DEF CommitStep
<1> QED BY <1>1, <1>2, ApiSteps

LEMMA RunningApiStep ==
    ASSUME TypeInv, RunningInv, ApiStep
    PROVE  RunningInv'
<1>1. UNCHANGED workerVars
  BY DEF ApiStep, ApiMeanwhile
<1>2. \A j \in Jobs : Running(j)' => Running(j)
  BY ApiRunsNothing
<1>3. pc \in InRound => job \in Jobs
  BY DEF TypeInv, RoundHasJob
<1>4. mine' = mine
  BY <1>1 DEF mine, workerVars
<1>5. Running(job)' => (pc \in InRound => Running(job))
  BY <1>1, <1>2, <1>3 DEF workerVars
<1> QED BY <1>1, <1>2, <1>3, <1>4, <1>5 DEF RunningInv, workerVars, InRound, Running

\* A commit of the worker leaves the rows of other jobs alone, and its own is
\* running afterwards only if the session says so or has not touched the status.
LEMMA SavedRunning ==
    ASSUME TypeInv, NEW j \in Jobs, rows[j] # None, NEW snap \in Row, NEW new \in Row,
           NEW due \in BOOLEAN,
           rows' = Saved(j, snap, new) \/ rows' = Rescheduled(j, snap, new, due)
    PROVE  /\ \A k \in Jobs \ {j} : rows'[k] = rows[k]
           /\ rows'[j] # None
           /\ rows'[j].status = IF new.status # snap.status THEN new.status
                                ELSE rows[j].status
<1>1. rows \in [Jobs -> Row \cup {None}]
  BY DEF TypeInv, TypeOK, StoreTypeOK
<1>2. Flush(rows[j], snap, new) \in Row
  BY <1>1, FlushType
<1>3. [Flush(rows[j], snap, new) EXCEPT !.due = due] \in Row
  BY <1>2 DEF Row
<1>4. CASE rows' = Saved(j, snap, new)
  BY <1>1, <1>2, <1>4, NoneIsNoRow DEF Saved, Flush
<1>5. CASE rows' = Rescheduled(j, snap, new, due)
  BY <1>1, <1>2, <1>3, <1>5, NoneIsNoRow DEF Rescheduled, Flush
<1> QED BY <1>4, <1>5

\* The end of a round whose row is not running, or is not there.
LEMMA RunningLeave ==
    ASSUME TypeInv, RunningInv, Leave("idle"), skips' = skips,
           \A k \in Jobs : ~Running(k)'
    PROVE  RunningInv'
BY DEF Leave, RunningInv, InRound

\* A step of the round that changes no row and reloads none.
LEMMA RunningMove ==
    ASSUME TypeInv, RunningInv, pc \in InRound \ {"refresh"},
           rows' = rows, job' = job, session' = session, skips' = skips,
           pc' \in InRound \ {"refresh"},
           pc' = "commit" => verdict' # "running"
    PROVE  RunningInv'
BY DEF RunningInv, InRound, Running, mine

\* A reload.
LEMMA RunningReload ==
    ASSUME TypeInv, RunningInv, pc \in InRound, rows[job] # None,
           rows' = rows, job' = job, session' = Loaded(job), skips' = skips,
           pc' \in InRound \ {"refresh", "commit"}
    PROVE  RunningInv'
<1>1. job \in Jobs
  BY DEF TypeInv, RoundHasJob
<1>2. mine' = rows[job]
  BY <1>1 DEF mine, Loaded
<1> QED BY <1>1, <1>2 DEF RunningInv, InRound, Running

LEMMA RunningWorkStep ==
    ASSUME TypeInv, RunningInv, WorkStep
    PROVE  RunningInv'
<1>1. pc \in InRound \cup {"claim"} => job \in Jobs /\ mine \in Row
  BY MineType
<1>2. rows \in [Jobs -> Row \cup {None}] /\ session \in [Jobs -> Row \cup {None}]
  BY DEF TypeInv, TypeOK, StoreTypeOK, WorkerTypeOK
<1>3. WorkStep => skips' = skips
  BY DEF WorkStep, WorkerStep, RecoverRead, Recover, Select, Claim, Refresh, StopAtStart,
     Analyse, Reload, NoVision, NoContext, StartResearch, ContextChanged, Publish,
     Cancelled, Stopped, CommitRaises, Finish, Save, Requeue, Rescue, Rescued, Restart,
     ClaimSkipsLocked, Conclude, counters
<1>4. CASE RecoverRead
  BY <1>2, <1>3, <1>4 DEF RecoverRead, RunningInv, Running, InRound, storeVars, roundVars
<1>5. CASE Recover
  <2>1. CASE \E j \in Jobs : session[j] # None /\ rows[j] = None
    BY <1>3, <1>5, <2>1, RunningLeave DEF Recover, RunningInv, Running, Leave, InRound
  <2>2. CASE ~ \E j \in Jobs : session[j] # None /\ rows[j] = None
    <3>1. ASSUME NEW j \in Jobs, skips = 0
          PROVE  ~Running(j)'
      <4>1. CASE session[j] = None
        BY <1>2, <1>5, <2>2, <3>1, <4>1 DEF Recover, UnlockedWrite, RunningInv, Running
      <4>2. CASE session[j] # None
        <5>1. session[j] \in Row /\ rows[j] \in Row /\ session[j].status = "running"
          BY <1>2, <1>5, <2>2, <3>1, <4>2 DEF RunningInv, Recover
        <5>2. [session[j] EXCEPT !.status = "queued", !.stop = FALSE].status = "queued"
          BY <5>1 DEF Row
        <5>3. rows'[j] = [Flush(rows[j], session[j],
                            [session[j] EXCEPT !.status = "queued", !.stop = FALSE])
                          EXCEPT !.due = TRUE]
          BY <1>5, <2>2, <4>2 DEF Recover, UnlockedWrite
        <5>4. rows'[j].status = "queued"
          BY <5>1, <5>2, <5>3 DEF Flush
        <5> QED BY <5>4 DEF Running
      <4> QED BY <4>1, <4>2
    <3> QED BY <1>3, <1>5, <3>1 DEF Recover, Leave, RunningInv, InRound
  <2> QED BY <2>1, <2>2
<1>6. CASE Select
  BY <1>3, <1>6 DEF Select, RunningInv, Running, InRound, storeVars, roundVars
<1>7. CASE Claim
  <2>1. CASE rows[job] # None /\ Runnable(mine)
    <3>1. \A k \in Jobs \ {job} : rows'[k] = rows[k]
      BY <1>1, <1>2, <1>7, <2>1 DEF Claim, UnlockedWrite, Saved
    <3>2. pc = "claim" /\ pc' = "refresh" /\ job' = job
      BY <1>7, <2>1 DEF Claim, GoTo
    <3> QED BY <1>1, <1>3, <3>1, <3>2 DEF RunningInv, Running, InRound
  <2>2. CASE ~(rows[job] # None /\ Runnable(mine))
    BY <1>3, <1>7, <2>2, RunningLeave DEF Claim, RunningInv, Running, InRound
  <2> QED BY <2>1, <2>2
<1>8. CASE Refresh
  <2>1. CASE rows[job] = None
    BY <1>1, <1>3, <1>8, <2>1 DEF Refresh, Leave, RunningInv, Running, InRound, storeVars
  <2>2. CASE rows[job] # None
    BY <1>3, <1>8, <2>2, RunningReload DEF Refresh, InRound, storeVars
  <2> QED BY <2>1, <2>2
<1>9. CASE Reload("analysed", "checked") \/ Reload("research", "outcome")
  <2>1. CASE rows[job] = None
    BY <1>1, <1>3, <1>9, <2>1 DEF Reload, Leave, RunningInv, Running, InRound, storeVars
  <2>2. CASE rows[job] # None
    BY <1>3, <1>9, <2>2, RunningReload DEF Reload, InRound, storeVars
  <2> QED BY <2>1, <2>2
<1>10. CASE Rescue
  <2>1. CASE rows[job] = None
    BY <1>1, <1>3, <1>10, <2>1 DEF Rescue, Leave, RunningInv, Running, InRound, storeVars
  <2>2. CASE rows[job] # None
    BY <1>3, <1>10, <2>2, RunningReload DEF Rescue, InRound, storeVars
  <2> QED BY <2>1, <2>2
<1>11. CASE StopAtStart \/ Analyse \/ NoVision \/ NoContext \/ StartResearch \/ Publish
            \/ Rescued
            \/ \E place \in {"checked", "outcome", "rescued"} :
                 Cancelled(place) \/ Stopped(place)
  BY <1>3, <1>11, RunningMove DEF StopAtStart, Analyse, NoVision, NoContext,
     StartResearch, Publish, Rescued, Cancelled, Stopped, Conclude, GoTo, InRound,
     storeVars, roundVars
<1>12. CASE ContextChanged
  <2>1. CASE rows[job] = None
    BY <1>3, <1>12, <2>1, RunningMove DEF ContextChanged, GoTo, InRound, roundVars
  <2>2. CASE rows[job] # None
    <3>. DEFINE new == [mine EXCEPT !.status = "queued", !.stop = FALSE]
    <3>1. mine \in Row /\ new \in Row /\ new.status = "queued"
      BY <1>1, <1>12 DEF ContextChanged, InRound, Row, Statuses, ActiveStates
    <3>2. rows' = Rescheduled(job, mine, new, TRUE)
      BY <1>12, <2>2 DEF ContextChanged, UnlockedWrite
    <3> HIDE DEF new
    <3>3. job \in Jobs /\ pc = "outcome"
      BY <1>1, <1>12 DEF ContextChanged, InRound
    <3>4. /\ \A k \in Jobs \ {job} : rows'[k] = rows[k]
          /\ rows'[job].status = IF new.status # mine.status THEN new.status
                                 ELSE rows[job].status
      BY <2>2, <3>1, <3>2, <3>3, SavedRunning
    <3>5. skips = 0 => \A k \in Jobs : ~Running(k)'
      BY <2>2, <3>1, <3>3, <3>4 DEF RunningInv, Running, InRound
    <3> QED BY <1>3, <1>12, <2>2, <3>5 DEF ContextChanged, Leave, RunningInv, InRound
  <2> QED BY <2>1, <2>2
<1>13. CASE CommitRaises
  BY <1>1, <1>3, <1>13, RunningMove
  DEF CommitRaises, Leave, GoTo, RunningInv, Running, InRound, storeVars, roundVars
<1>14. CASE Finish
  <2>. DEFINE new == [mine EXCEPT !.status = verdict,
                        !.media = IF verdict \in PurgeMediaStates \cup {"cancelled"}
                                  THEN None ELSE @]
  <2>1. mine \in Row /\ verdict \in Statuses
    BY <1>1, <1>14 DEF Finish, InRound, TypeInv, TypeOK, WorkerTypeOK
  <2>2. new \in Row /\ new.status = verdict
    BY <2>1, WorkerRowTypes DEF Row
  <2>3. rows' = Saved(job, mine, new) /\ rows[job] # None /\ pc = "commit"
    BY <1>14 DEF Finish, UnlockedWrite
  <2> HIDE DEF new
  <2>4. /\ \A k \in Jobs \ {job} : rows'[k] = rows[k]
        /\ rows'[job].status = IF new.status # mine.status THEN new.status
                               ELSE rows[job].status
    BY <1>1, <2>1, <2>2, <2>3, SavedRunning DEF InRound
  <2>5. skips = 0 => \A k \in Jobs : ~Running(k)'
    BY <1>1, <2>1, <2>2, <2>3, <2>4 DEF RunningInv, Running, InRound
  <2> QED BY <1>3, <1>14, <2>5 DEF Finish, Leave, RunningInv, InRound
<1>15. CASE Save
  <2>. DEFINE new == IF rescuing THEN [mine EXCEPT !.status = "queued"] ELSE mine
  <2>1. mine \in Row
    BY <1>1, <1>15 DEF Save, InRound
  <2>2. new \in Row /\ (new.status = "queued" \/ new.status = mine.status)
    BY <2>1 DEF Row, Statuses, ActiveStates
  <2>3. /\ rows' = Saved(job, mine, new) /\ rows[job] # None
        /\ session' = [session EXCEPT ![job] = new]
        /\ pc = "save" /\ pc' = "requeue" /\ job' = job
    BY <1>15 DEF Save, UnlockedWrite
  <2> HIDE DEF new
  <2>4. mine' = new
    BY <1>1, <1>2, <2>3 DEF mine, InRound
  <2>5. /\ \A k \in Jobs \ {job} : rows'[k] = rows[k]
        /\ rows'[job].status = IF new.status # mine.status THEN new.status
                               ELSE rows[job].status
    BY <1>1, <2>1, <2>2, <2>3, SavedRunning DEF InRound
  <2>6. skips = 0 => \A k \in Jobs : Running(k)' => Running(k)
    BY <1>1, <2>1, <2>2, <2>3, <2>5 DEF Running, InRound, RunningInv
  <2>7. skips = 0 => (Running(job)' => new.status = "running")
    BY <1>1, <2>1, <2>2, <2>3, <2>5 DEF Running, InRound, RunningInv
  <2> QED BY <1>1, <1>3, <2>3, <2>4, <2>6, <2>7 DEF RunningInv, InRound, Running
<1>16. CASE Requeue
  <2>. DEFINE new == [mine EXCEPT !.status = "queued"]
  <2>1. mine \in Row
    BY <1>1, <1>16 DEF Requeue, InRound
  <2>2. new \in Row /\ new.status = "queued"
    BY <2>1 DEF Row, Statuses, ActiveStates
  <2>3. rows' = Rescheduled(job, mine, new, FALSE) /\ rows[job] # None /\ pc = "requeue"
    BY <1>16 DEF Requeue, UnlockedWrite
  <2> HIDE DEF new
  <2>4. /\ \A k \in Jobs \ {job} : rows'[k] = rows[k]
        /\ rows'[job].status = IF new.status # mine.status THEN new.status
                               ELSE rows[job].status
    BY <1>1, <2>1, <2>2, <2>3, SavedRunning DEF InRound
  <2>5. skips = 0 => \A k \in Jobs : ~Running(k)'
    BY <1>1, <2>1, <2>2, <2>3, <2>4 DEF RunningInv, Running, InRound
  <2> QED BY <1>3, <1>16, <2>5 DEF Requeue, Leave, RunningInv, InRound
<1>17. CASE Restart
  BY <1>3, <1>17 DEF Restart, GoTo, RunningInv, Running, InRound, storeVars, roundVars
<1>18. CASE ClaimSkipsLocked(InFlight)
  BY <1>3, <1>18 DEF ClaimSkipsLocked, Leave, RunningInv, Running, InRound, storeVars
<1> QED BY <1>4, <1>5, <1>6, <1>7, <1>8, <1>9, <1>10, <1>11, <1>12, <1>13, <1>14, <1>15,
           <1>16, <1>17, <1>18 DEF WorkStep, WorkerStep

LEMMA RunningStep == TypeInv /\ RunningInv /\ [Next]_vars => RunningInv'
<1>. SUFFICES ASSUME TypeInv, RunningInv, [Next]_vars
              PROVE  RunningInv'
  OBVIOUS
<1>1. CASE FaultStep
  <2>1. CASE RecoverySkipped
    BY <2>1 DEF RecoverySkipped, RunningInv, TypeInv, TypeOK, WorkerTypeOK
  <2>2. CASE Raise
    BY <2>2, RunningMove DEF Raise, GoTo, InRound, storeVars, counters, roundVars
  <2>3. CASE Crash
    BY <2>3 DEF Crash, Leave, RunningInv, Running, InRound, storeVars
  <2> QED BY <1>1, <2>1, <2>2, <2>3 DEF FaultStep, WorkerFault
<1>2. ASSUME NEW j \in Jobs, TimerStep(j)
      PROVE  RunningInv'
  <2>1. rows \in [Jobs -> Row \cup {None}]
    BY DEF TypeInv, TypeOK, StoreTypeOK
  <2>2. \A k \in Jobs : Running(k)' => Running(k)
    BY <1>2, <2>1 DEF TimerStep, BackoffExpires, Running, Row
  <2>3. UNCHANGED workerVars /\ mine' = mine
    BY <1>2 DEF TimerStep, BackoffExpires, workerVars, mine
  <2>4. pc \in InRound => job \in Jobs
    BY DEF TypeInv, RoundHasJob
  <2> QED BY <2>2, <2>3, <2>4 DEF RunningInv, workerVars, InRound
<1>3. CASE UNCHANGED vars
  BY <1>3 DEF vars, storeVars, workerVars, RunningInv, Running, mine, InRound
<1> QED BY <1>1, <1>2, <1>3, RunningApiStep, RunningWorkStep DEF Next

\* README.md:74: unless a start-up skipped the recovery, at most one row is
\* running, and the worker is in a round on it or about to recover it.
THEOREM AtMostOneRunning == Spec => []RunningIsOwned
<1>1. Init => RunningInv
  BY DEF Init, StoreInit, WorkerInit, RunningInv, Running, InRound
<1>2. RunningInv => RunningIsOwned
  BY DEF RunningInv, RunningIsOwned
<1> QED BY TypeInit, TypeStep, RunningStep, <1>1, <1>2, PTL DEF Spec
=============================================================================
