-------------------------- MODULE JobCapacityProofs --------------------------
(***************************************************************************)
(* Who is in the queue, and in which order: the proofs that the advisory   *)
(* lock holds the number of active jobs of an account, and that a claim    *)
(* which decides on a snapshot keeps the order.                            *)
(***************************************************************************)
EXTENDS JobMediaProofs, FiniteSetTheorems

-----------------------------------------------------------------------------
(* What a step may do to the queue without the lock. *)

\* No row comes to be, none changes its account, and what is active afterwards
\* was active before or counts as revived.
NoneAdmitted ==
    \A j \in Jobs :
      /\ rows'[j] # None => rows[j] # None /\ rows'[j].acct = rows[j].acct
      /\ Active(rows'[j]) /\ j \notin revived' => Active(rows[j]) /\ j \notin revived

\* A write of rows outside the lock.
LEMMA UnlockedAdmitsNone ==
    ASSUME NEW newRows, UnlockedWrite(newRows),
           \A j \in Jobs : newRows[j] # None =>
             rows[j] # None /\ newRows[j].acct = rows[j].acct
    PROVE  NoneAdmitted
BY DEF UnlockedWrite, NoneAdmitted

\* A commit of a session on the row of j, whatever the session holds.
LEMMA CommitAdmitsNone ==
    ASSUME TypeInv, NEW j \in Jobs, rows[j] # None, NEW snap, NEW new, NEW due,
           \/ UnlockedWrite(Saved(j, snap, new))
           \/ UnlockedWrite(Rescheduled(j, snap, new, due))
    PROVE  NoneAdmitted
<1>1. CASE UnlockedWrite(Saved(j, snap, new))
  <2>. DEFINE newRows == Saved(j, snap, new)
  <2>1. \A k \in Jobs : newRows[k] # None => rows[k] # None /\ newRows[k].acct = rows[k].acct
    BY DEF TypeInv, TypeOK, StoreTypeOK, Saved, Flush
  <2> HIDE DEF newRows
  <2>2. UnlockedWrite(newRows)
    BY <1>1 DEF newRows
  <2> QED BY <2>1, <2>2, UnlockedAdmitsNone
<1>2. CASE UnlockedWrite(Rescheduled(j, snap, new, due))
  <2>. DEFINE newRows == Rescheduled(j, snap, new, due)
  <2>1. \A k \in Jobs : newRows[k] # None => rows[k] # None /\ newRows[k].acct = rows[k].acct
    BY DEF TypeInv, TypeOK, StoreTypeOK, Rescheduled, Flush
  <2> HIDE DEF newRows
  <2>2. UnlockedWrite(newRows)
    BY <1>2 DEF newRows
  <2> QED BY <2>1, <2>2, UnlockedAdmitsNone
<1> QED BY <1>1, <1>2

LEMMA UnchangedAdmitsNone == ASSUME UNCHANGED <<rows, revived>> PROVE NoneAdmitted
BY DEF NoneAdmitted

\* The worker takes no lock, and admits nothing.
LEMMA WorkAdmitsNone == ASSUME TypeInv, WorkStep PROVE NoneAdmitted
<1>1. CASE UNCHANGED <<rows, revived>>
  BY <1>1, UnchangedAdmitsNone
<1>2. CASE Recover
  <2>1. CASE \E j \in Jobs : session[j] # None /\ rows[j] = None
    BY <1>1, <1>2, <2>1 DEF Recover
  <2>2. CASE ~\E j \in Jobs : session[j] # None /\ rows[j] = None
    <3>. DEFINE new == [j \in Jobs |->
              IF session[j] = None THEN rows[j]
              ELSE [Flush(rows[j], session[j],
                          [session[j] EXCEPT !.status = "queued", !.stop = FALSE])
                    EXCEPT !.due = TRUE]]
    <3>1. UnlockedWrite(new)
      BY <1>2, <2>2 DEF Recover
    <3>2. \A j \in Jobs : new[j] # None => rows[j] # None /\ new[j].acct = rows[j].acct
      BY <2>2 DEF Flush
    <3> QED BY <3>1, <3>2, UnlockedAdmitsNone
  <2> QED BY <2>1, <2>2
<1>3. CASE Claim \/ ContextChanged \/ Finish \/ Save \/ Requeue
  <2>1. CASE rows[job] = None
    BY <1>1, <1>3, <2>1 DEF Claim, ContextChanged, Finish, Save, Requeue
  <2>2. CASE rows[job] # None
    <3>1. job \in Jobs
      BY <1>3, MineType DEF Claim, ContextChanged, Finish, Save, Requeue, InRound
    <3>2. CASE UNCHANGED <<rows, revived>>
      BY <1>1, <3>2
    <3>3. CASE \E new, due : \/ UnlockedWrite(Saved(job, mine, new))
                             \/ UnlockedWrite(Rescheduled(job, mine, new, due))
      BY <2>2, <3>1, <3>3, CommitAdmitsNone
    <3> QED BY <1>3, <2>2, <3>2, <3>3 DEF Claim, ContextChanged, Finish, Save, Requeue
  <2> QED BY <2>1, <2>2
<1> QED BY <1>1, <1>2, <1>3
    DEF WorkStep, WorkerStep, RecoverRead, Select, ClaimSkipsLocked, Refresh, StopAtStart,
        Analyse, Reload, NoVision, NoContext, StartResearch, Publish, Cancelled, Stopped,
        CommitRaises, Rescue, Rescued, Restart, Conclude, storeVars

LEMMA FaultAdmitsNone == ASSUME FaultStep PROVE NoneAdmitted
BY UnchangedAdmitsNone DEF FaultStep, WorkerFault, RecoverySkipped, Raise, Crash, storeVars

LEMMA TimerAdmitsNone == ASSUME TypeInv, NEW j \in Jobs, TimerStep(j) PROVE NoneAdmitted
BY DEF TimerStep, BackoffExpires, NoneAdmitted, Active, TypeInv, TypeOK, StoreTypeOK, Row

\* The commits that admit a job.
Admitting(c) == Create(c) \/ Continue(c) \/ ClueReopens(c)

\* So do the requests without it.
LEMMA HandleAdmitsNone ==
    ASSUME TypeInv, NEW c \in Clients, Handle(c) \/ ApiDies(c), ~Admitting(c)
    PROVE  NoneAdmitted
<1>1. CASE LockCapacity(c) \/ QueueFull(c) \/ CommitFails(c) \/ ApiDies(c)
  BY <1>1, UnchangedAdmitsNone DEF LockCapacity, QueueFull, CommitFails, ApiDies, storeVars
<1>2. CASE Delete(c)
  <2>1. UnlockedWrite([rows EXCEPT ![call[c].job] = None])
    BY <1>2 DEF Delete
  <2>2. \A k \in Jobs : [rows EXCEPT ![call[c].job] = None][k] # None =>
          /\ rows[k] # None
          /\ [rows EXCEPT ![call[c].job] = None][k].acct = rows[k].acct
    BY DEF TypeInv, TypeOK, StoreTypeOK
  <2> QED BY <2>1, <2>2, UnlockedAdmitsNone
<1>3. CASE Stop(c) \/ Resume(c) \/ Cancel(c) \/ DeleteMedia(c) \/ Clue(c)
  <2>. DEFINE j == call[c].job
  <2>1. j \in Jobs /\ rows[j] # None
    BY <1>3, CallType DEF Stop, Resume, Cancel, DeleteMedia, Clue, Commits, Serving
  <2>2. \E new, due : \/ UnlockedWrite(Saved(j, call[c].snap, new))
                      \/ UnlockedWrite(Rescheduled(j, call[c].snap, new, due))
    BY <1>3 DEF Stop, Resume, Cancel, DeleteMedia, Clue
  <2> HIDE DEF j
  <2> QED BY <2>1, <2>2, CommitAdmitsNone
<1> QED BY <1>1, <1>2, <1>3 DEF Handle, Admitting

-----------------------------------------------------------------------------
(* What a commit that admits a job does. *)

LEMMA Admission ==
    ASSUME TypeInv, MediaInv, NEW c \in Clients, Admitting(c)
    PROVE  LET j == call[c].job
           IN  /\ j \in Jobs /\ call[c] # None /\ call[c].locked /\ Return(c)
               /\ \A k \in Jobs \ {j} : rows'[k] = rows[k]
               /\ rows'[j] # None /\ rows[j] # None => rows'[j].acct = rows[j].acct
               /\ rows[j] = None => /\ rows'[j] # None => rows'[j].acct = call[c].snap.acct
                                    /\ j \notin born
                                    /\ \A d \in Clients \ {c} :
                                         call[d] # None => call[d].job # j
               /\ revived' = {k \in revived : Active(rows'[k])}
               /\ ahead' = MovedToBack(j)
               /\ born' = born \cup {j} \/ born' = born
<1>. DEFINE j == call[c].job
<1>1. call[c] # None /\ call[c].locked /\ Return(c) /\ ahead' = MovedToBack(j)
  BY DEF Admitting, Create, Continue, ClueReopens, Commits, Serving
<1>2. j \in Jobs
  BY <1>1, CallType
<1>3. CASE Create(c)
  <2>1. call[c].op = "create"
    BY <1>3 DEF Create, Serving
  <2>2. j \notin born /\ \A d \in Clients \ {c} : call[d] # None => call[d].job # j
    BY <1>1, <2>1 DEF MediaInv, IdsAreFresh
  <2>3. rows[j] = None
    BY <1>2, <2>2 DEF MediaInv, IdsAreFresh
  <2>4. /\ rows' = [rows EXCEPT ![j] = NewRow(call[c].snap.acct, call[c].snap.media)]
        /\ revived' = {k \in revived : Active(rows'[k])}
        /\ born' = born \cup {j}
    BY <1>3 DEF Create, LockedWrite, NewRow
  <2>5. rows'[j].acct = call[c].snap.acct /\ \A k \in Jobs \ {j} : rows'[k] = rows[k]
    BY <1>2, <2>4 DEF NewRow, TypeInv, TypeOK, StoreTypeOK
  <2> QED BY <1>1, <1>2, <2>2, <2>3, <2>4, <2>5
<1>4. CASE Continue(c) \/ ClueReopens(c)
  <2>1. rows[j] # None /\ born' = born
    BY <1>4 DEF Continue, ClueReopens, Commits
  <2>2. PICK new, due : LockedWrite(Rescheduled(j, call[c].snap, new, due))
    BY <1>4 DEF Continue, ClueReopens
  <2>3. /\ \A k \in Jobs \ {j} : rows'[k] = rows[k]
        /\ rows'[j] # None => rows'[j].acct = rows[j].acct
    BY <1>2, <2>1, <2>2
    DEF LockedWrite, Rescheduled, Flush, TypeInv, TypeOK, StoreTypeOK
  <2>4. revived' = {k \in revived : Active(rows'[k])}
    BY <2>2 DEF LockedWrite
  <2> QED BY <1>1, <1>2, <2>1, <2>3, <2>4
<1> QED BY <1>3, <1>4 DEF Admitting

-----------------------------------------------------------------------------
(* The number of active jobs. *)

Counted(a) == {j \in Jobs : Active(rows[j]) /\ rows[j].acct = a /\ j \notin revived}

OneLock ==
    \A c, d \in Clients :
      call[c] # None /\ call[c].locked /\ call[d] # None /\ call[d].locked => c = d

\* Between its count and its commit a request has room for its job.
RoomWhileLocked ==
    \A c \in Clients, a \in Accounts :
      call[c] # None /\ call[c].locked /\ call[c].snap.acct = a =>
        Cardinality(Counted(a)) < MaxActive

\* A request counts for the account of the row it will commit.
AccountsAgree ==
    \A c \in Clients :
      call[c] # None /\ call[c].op # "create" /\ rows[call[c].job] # None =>
        rows[call[c].job].acct = call[c].snap.acct

CapacityInv ==
    /\ IsFiniteSet(born)
    /\ OneLock
    /\ RoomWhileLocked
    /\ AccountsAgree
    /\ CapacityHeldByLock

\* A request after the step was there before, or is new and without the lock.
CallsFollow ==
    \A c \in Clients : call'[c] # None =>
      \/ call'[c] = call[c]
      \/ /\ ~call'[c].locked
         /\ call'[c].op # "create" =>
              /\ call'[c].job \in Jobs /\ rows[call'[c].job] # None
              /\ call'[c].snap = rows[call'[c].job]

LEMMA CountedIsFinite ==
    ASSUME MediaInv, CapacityInv, NEW a
    PROVE  IsFiniteSet(Counted(a)) /\ Cardinality(Counted(a)) \in Nat
<1>1. Counted(a) \in SUBSET born
  BY DEF Counted, Active, MediaInv, IdsAreFresh
<1> QED BY <1>1, FS_Subset, FS_CardinalityType DEF CapacityInv

\* A step that admits none.
LEMMA CapacityFrame ==
    ASSUME TypeInv, MediaInv, CapacityInv, NoneAdmitted, CallsFollow, born' = born
    PROVE  CapacityInv'
<1>1. ASSUME NEW a PROVE Cardinality(Counted(a))' <= Cardinality(Counted(a))
                         /\ Cardinality(Counted(a))' \in Nat
  <2>1. Counted(a)' \in SUBSET Counted(a)
    BY DEF NoneAdmitted, Counted, Active
  <2> QED BY <2>1, CountedIsFinite, FS_Subset, FS_CardinalityType
<1>2. OneLock'
  BY DEF OneLock, CapacityInv, CallsFollow
<1>3. RoomWhileLocked'
  <2> SUFFICES ASSUME NEW c \in Clients, NEW a \in Accounts,
                      call'[c] # None, call'[c].locked, call'[c].snap.acct = a
               PROVE  Cardinality(Counted(a))' < MaxActive
    BY DEF RoomWhileLocked
  <2>1. call'[c] = call[c]
    BY DEF CallsFollow
  <2>2. Cardinality(Counted(a)) < MaxActive
    BY <2>1 DEF CapacityInv, RoomWhileLocked
  <2> QED BY <1>1, <2>1, <2>2, CountedIsFinite, StoreAssumption
<1>4. AccountsAgree'
  BY CallType DEF AccountsAgree, CapacityInv, CallsFollow, NoneAdmitted
<1>5. CapacityHeldByLock'
  <2> SUFFICES ASSUME NEW a \in Accounts PROVE Cardinality(Counted(a))' <= MaxActive
    BY DEF CapacityHeldByLock, Counted
  <2>1. Cardinality(Counted(a)) <= MaxActive
    BY DEF CapacityInv, CapacityHeldByLock, Counted
  <2> QED BY <1>1, <2>1, CountedIsFinite, StoreAssumption
<1> QED BY <1>2, <1>3, <1>4, <1>5 DEF CapacityInv

\* The commit of a request under the lock adds one job at most, and gives the
\* lock back.
LEMMA AdmissionKeepsCapacity ==
    ASSUME TypeInv, MediaInv, CapacityInv, NEW c \in Clients, Admitting(c)
    PROVE  CapacityInv'
<1>. DEFINE j == call[c].job
            acct == call[c].snap.acct
<1>1. /\ j \in Jobs /\ call[c] # None /\ call[c].locked
      /\ \A k \in Jobs \ {j} : rows'[k] = rows[k]
      /\ rows'[j] # None /\ rows[j] # None => rows'[j].acct = rows[j].acct
      /\ rows[j] = None => /\ rows'[j] # None => rows'[j].acct = acct
                           /\ \A d \in Clients \ {c} : call[d] # None => call[d].job # j
      /\ revived' = {k \in revived : Active(rows'[k])}
      /\ born' = born \cup {j} \/ born' = born
  BY Admission
<1>2. \A d \in Clients : call'[d] # None => d # c /\ call'[d] = call[d]
  BY Admission DEF Return, TypeInv, TypeOK, ApiTypeOK
<1>3. rows'[j] # None => rows'[j].acct = acct
  <2>1. rows[j] # None => call[c].op # "create"
    BY <1>1 DEF MediaInv, IdsAreFresh
  <2> QED BY <1>1, <2>1 DEF CapacityInv, AccountsAgree
<1> HIDE DEF j, acct
<1>4. IsFiniteSet(born')
  BY <1>1, FS_AddElement DEF CapacityInv
<1>5. OneLock' /\ RoomWhileLocked'
  BY <1>1, <1>2 DEF CapacityInv, OneLock, RoomWhileLocked
<1>6. AccountsAgree'
  <2> SUFFICES ASSUME NEW d \in Clients, call'[d] # None, call'[d].op # "create",
                      rows'[call'[d].job] # None
               PROVE  rows'[call'[d].job].acct = call'[d].snap.acct
    BY DEF AccountsAgree
  <2>1. d # c /\ call'[d] = call[d] /\ call[d].job \in Jobs
    BY <1>2, CallType
  <2>2. CASE call[d].job = j
    <3>1. rows[j] # None
      BY <1>1, <2>1, <2>2
    <3> QED BY <1>1, <2>1, <2>2, <3>1 DEF CapacityInv, AccountsAgree
  <2>3. CASE call[d].job # j
    BY <1>1, <2>1, <2>3 DEF CapacityInv, AccountsAgree
  <2> QED BY <2>2, <2>3
<1>7. CapacityHeldByLock'
  <2> SUFFICES ASSUME NEW a \in Accounts PROVE Cardinality(Counted(a))' <= MaxActive
    BY DEF CapacityHeldByLock, Counted
  <2>1. Cardinality(Counted(a)) <= MaxActive
    BY DEF CapacityInv, CapacityHeldByLock, Counted
  <2>2. IsFiniteSet(Counted(a)) /\ Cardinality(Counted(a)) \in Nat
    BY CountedIsFinite
  <2>3. CASE a = acct
    <3>1. Cardinality(Counted(a)) < MaxActive
      BY <1>1, <2>3 DEF CapacityInv, RoomWhileLocked, acct
    <3>2. Counted(a)' \in SUBSET (Counted(a) \cup {j})
      BY <1>1 DEF Counted
    <3>3. /\ IsFiniteSet(Counted(a) \cup {j})
          /\ Cardinality(Counted(a) \cup {j}) <= Cardinality(Counted(a)) + 1
      BY <2>2, FS_AddElement
    <3>4. /\ Cardinality(Counted(a))' <= Cardinality(Counted(a) \cup {j})
          /\ Cardinality(Counted(a))' \in Nat /\ Cardinality(Counted(a) \cup {j}) \in Nat
      BY <3>2, <3>3, FS_Subset, FS_CardinalityType
    <3> QED BY <2>2, <3>1, <3>3, <3>4, StoreAssumption
  <2>4. CASE a # acct
    <3>1. Counted(a)' \in SUBSET Counted(a)
      BY <1>1, <1>3, <2>4 DEF Counted, Active
    <3>2. Cardinality(Counted(a))' <= Cardinality(Counted(a))
          /\ Cardinality(Counted(a))' \in Nat
      BY <2>2, <3>1, FS_Subset, FS_CardinalityType
    <3> QED BY <2>1, <2>2, <3>2, StoreAssumption
  <2> QED BY <2>3, <2>4
<1> QED BY <1>4, <1>5, <1>6, <1>7 DEF CapacityInv

\* A request that has just read, or has got the lock.
LEMMA ReceiveFollows ==
    ASSUME TypeInv, NEW c \in Clients, Receive(c)
    PROVE  CallsFollow /\ UNCHANGED storeVars
<1>1. ASSUME NEW j \in Jobs, NEW acct \in Accounts, NEW media \in Files \cup {None},
             ReadCreate(c, j, acct, media)
      PROVE  CallsFollow /\ UNCHANGED storeVars
  BY <1>1 DEF ReadCreate, CallsFollow, TypeInv, TypeOK, ApiTypeOK
<1>2. ASSUME NEW j \in Jobs, NEW op, Read(c, op, j)
      PROVE  CallsFollow /\ UNCHANGED storeVars
  BY <1>2 DEF Read, CallsFollow, TypeInv, TypeOK, ApiTypeOK
<1> QED BY <1>1, <1>2
        DEF Receive, ReceiveOn, ReadStop, ReadResume, ReadContinue, ReadCancel, ReadDelete,
            ReadDeleteMedia, ReadClue

\* The lock is given to one request at a time, and only if there is room.
LEMMA LockKeepsCapacity ==
    ASSUME TypeInv, MediaInv, CapacityInv, NEW c \in Clients, LockCapacity(c)
    PROVE  CapacityInv'
<1>1. /\ UNCHANGED <<rows, revived, born>>
      /\ call[c] # None /\ LockFree
      /\ call' = [call EXCEPT ![c].locked = TRUE]
      /\ ActiveCount(call[c].snap.acct) < MaxActive
  BY DEF LockCapacity, storeVars, Admits, Serving
<1>2. \A d \in Clients : call'[d] # None =>
        /\ call[d] # None
        /\ call'[d].snap = call[d].snap /\ call'[d].op = call[d].op
        /\ call'[d].job = call[d].job
        /\ call'[d].locked => d = c
  BY <1>1, CallType DEF LockFree, Call, TypeInv, TypeOK, ApiTypeOK
<1>3. \A a : Counted(a)' = Counted(a)
  BY <1>1 DEF Counted, Active
<1>4. RoomWhileLocked'
  <2> SUFFICES ASSUME NEW a \in Accounts, call[c].snap.acct = a
               PROVE  Cardinality(Counted(a)) < MaxActive
    BY <1>2, <1>3 DEF RoomWhileLocked
  <2>. DEFINE all == {j \in Jobs : Active(rows[j]) /\ rows[j].acct = a}
  <2>1. all \in SUBSET born
    BY DEF Active, MediaInv, IdsAreFresh
  <2>2. IsFiniteSet(all) /\ Cardinality(all) \in Nat
    BY <2>1, FS_Subset, FS_CardinalityType DEF CapacityInv
  <2>3. Cardinality(all) < MaxActive
    BY <1>1 DEF ActiveCount
  <2>4. Counted(a) \in SUBSET all
    BY DEF Counted
  <2> HIDE DEF all
  <2>5. Cardinality(Counted(a)) <= Cardinality(all)
    BY <2>2, <2>4, FS_Subset
  <2> QED BY <2>2, <2>3, <2>5, CountedIsFinite, StoreAssumption
<1>5. OneLock' /\ AccountsAgree'
  BY <1>1, <1>2 DEF OneLock, AccountsAgree, CapacityInv
<1>6. CapacityHeldByLock' /\ IsFiniteSet(born')
  BY <1>1 DEF CapacityHeldByLock, CapacityInv, Active
<1> QED BY <1>4, <1>5, <1>6 DEF CapacityInv

LEMMA HandleFollows ==
    ASSUME TypeInv, NEW c \in Clients, Handle(c) \/ ApiDies(c), ~LockCapacity(c)
    PROVE  CallsFollow /\ Return(c)
<1>1. Return(c)
  BY DEF Handle, ApiDies, QueueFull, Create, CommitFails, Stop, Resume, Continue, Cancel,
         Delete, DeleteMedia, ClueReopens, Clue, Commits
<1> QED BY <1>1 DEF Return, CallsFollow, TypeInv, TypeOK, ApiTypeOK

LEMMA CapacityStep == TypeInv /\ MediaInv /\ CapacityInv /\ [Next]_vars => CapacityInv'
<1>. SUFFICES ASSUME TypeInv, MediaInv, CapacityInv, [Next]_vars
              PROVE  CapacityInv'
  OBVIOUS
<1>1. ASSUME NoneAdmitted, call' = call, born' = born PROVE CapacityInv'
  BY <1>1, CapacityFrame DEF CallsFollow
<1>2. CASE ApiStep
  <2>1. ASSUME NEW f \in Files, NEW acct \in Accounts, Upload(f, acct) PROVE CapacityInv'
    BY <1>1, <2>1, UnchangedAdmitsNone DEF Upload, apiVars
  <2>2. ASSUME NEW c \in Clients, Receive(c) PROVE CapacityInv'
    BY <2>2, ReceiveFollows, UnchangedAdmitsNone, CapacityFrame DEF storeVars
  <2>3. ASSUME NEW c \in Clients, Handle(c) \/ ApiDies(c) PROVE CapacityInv'
    <3>1. CASE Admitting(c)
      BY <3>1, AdmissionKeepsCapacity
    <3>2. CASE LockCapacity(c)
      BY <3>2, LockKeepsCapacity
    <3>3. CASE ~Admitting(c) /\ ~LockCapacity(c)
      <4>1. NoneAdmitted /\ CallsFollow
        BY <2>3, <3>3, HandleAdmitsNone, HandleFollows
      <4>2. born' = born
        BY <2>3, <3>3 DEF Handle, Admitting, ApiDies, QueueFull, CommitFails, Stop, Resume,
                          Cancel, Delete, DeleteMedia, Clue
      <4> QED BY <4>1, <4>2, CapacityFrame
    <3> QED BY <3>1, <3>2, <3>3
  <2> QED BY <1>2, <2>1, <2>2, <2>3 DEF ApiStep, ApiNext
<1>3. CASE WorkStep
  <2>1. call' = call /\ born' = born
    BY <1>3 DEF WorkStep, WorkerStep, apiVars, storeVars, RecoverRead, Recover, Select, Claim,
                ClaimSkipsLocked, Refresh, StopAtStart, Analyse, Reload, NoVision, NoContext,
                StartResearch, ContextChanged, Publish, Cancelled, Stopped, CommitRaises,
                Finish, Save, Requeue, Rescue, Rescued, Restart, Conclude
  <2> QED BY <1>1, <1>3, <2>1, WorkAdmitsNone
<1>4. CASE FaultStep
  BY <1>1, <1>4, FaultAdmitsNone
  DEF FaultStep, WorkerFault, RecoverySkipped, Raise, Crash, storeVars, apiVars
<1>5. ASSUME NEW j \in Jobs, TimerStep(j) PROVE CapacityInv'
  BY <1>1, <1>5, TimerAdmitsNone DEF TimerStep, BackoffExpires, apiVars
<1>6. CASE UNCHANGED vars
  BY <1>1, <1>6, UnchangedAdmitsNone DEF vars, storeVars, apiVars
<1> QED BY <1>2, <1>3, <1>4, <1>5, <1>6 DEF Next

LEMMA CapacityInit == Init => CapacityInv
<1> SUFFICES ASSUME Init PROVE CapacityInv
  OBVIOUS
<1>1. IsFiniteSet(born) /\ OneLock /\ RoomWhileLocked /\ AccountsAgree
  BY FS_EmptySet DEF Init, StoreInit, ApiInit, OneLock, RoomWhileLocked, AccountsAgree
<1>2. CapacityHeldByLock
  <2> SUFFICES ASSUME NEW a \in Accounts PROVE Cardinality(Counted(a)) <= MaxActive
    BY DEF CapacityHeldByLock, Counted
  <2>1. Counted(a) = {}
    BY DEF Counted, Active, Init, StoreInit
  <2> QED BY <2>1, FS_EmptySet, StoreAssumption
<1> QED BY <1>1, <1>2 DEF CapacityInv

\* docs/ARCHITECTURE.md:56: in whatever order requests count, lose their rows and
\* commit, an account has at most MaxActive active jobs, but for those that a
\* stale write outside the lock has brought back.
THEOREM CapacityIsHeld == Spec => []CapacityHeldByLock
<1>1. CapacityInv => CapacityHeldByLock
  BY DEF CapacityInv
<1> QED BY TypeInit, TypeStep, MediaInit, MediaStep, CapacityInit, CapacityStep, <1>1, PTL
        DEF Spec

-----------------------------------------------------------------------------
(* The order of the claims. *)

\* Since the snapshot no unfinished job has come before the chosen one but by a
\* stale write, unless the chosen one was put back.
SnapshotHolds ==
    pc = "claim" /\ ~putBack /\ rows[job] # None =>
      \A k \in ahead[job] :
        Active(rows[k]) /\ rows[k].acct = rows[job].acct => k \in revived

\* No round is about to commit that its job is running.
VerdictEnds == pc = "commit" => verdict # "running"

OrderInv == SnapshotHolds /\ VerdictEnds

LEMMA OrderFrame ==
    ASSUME TypeInv, OrderInv, NoneAdmitted, UNCHANGED <<pc, verdict, job>>,
           pc = "claim" => ahead'[job] \subseteq ahead[job] /\ (putBack => putBack')
    PROVE  OrderInv'
<1>1. SnapshotHolds'
  <2> SUFFICES ASSUME pc = "claim", ~putBack', rows'[job] # None, NEW k \in ahead'[job],
                      Active(rows'[k]), rows'[k].acct = rows'[job].acct
               PROVE  k \in revived'
    BY DEF SnapshotHolds
  <2>1. job \in Jobs /\ k \in Jobs /\ k \in ahead[job] /\ ~putBack
    BY DEF TypeInv, TypeOK, StoreTypeOK, RoundHasJob
  <2>2. /\ rows[job] # None /\ rows'[job].acct = rows[job].acct
        /\ rows[k] # None /\ rows'[k].acct = rows[k].acct
    BY <2>1 DEF NoneAdmitted, Active
  <2> QED BY <2>1, <2>2 DEF NoneAdmitted, OrderInv, SnapshotHolds
<1> QED BY <1>1 DEF OrderInv, VerdictEnds

\* A job that is admitted goes behind the chosen one, if it is not that itself.
LEMMA AdmissionKeepsOrder ==
    ASSUME TypeInv, MediaInv, OrderInv, NEW c \in Clients, Admitting(c), ApiMeanwhile
    PROVE  OrderInv'
<1>. DEFINE j == call[c].job
<1>1. /\ j \in Jobs
      /\ \A k \in Jobs \ {j} : rows'[k] = rows[k]
      /\ rows'[j] # None /\ rows[j] # None => rows'[j].acct = rows[j].acct
      /\ rows[j] = None => j \notin born
      /\ revived' = {k \in revived : Active(rows'[k])}
      /\ ahead' = MovedToBack(j)
  BY Admission
<1>2. UNCHANGED <<pc, verdict, job>>
  BY DEF ApiMeanwhile, workerVars
<1> HIDE DEF j
<1>3. SnapshotHolds'
  <2> SUFFICES ASSUME pc = "claim", ~putBack', rows'[job] # None, NEW k \in ahead'[job],
                      Active(rows'[k]), rows'[k].acct = rows'[job].acct
               PROVE  k \in revived'
    BY <1>2 DEF SnapshotHolds
  <2>1. job \in Jobs /\ job \in born
    BY DEF TypeInv, RoundHasJob, MediaInv, IdsAreFresh
  <2>2. ~putBack /\ k \in ahead[job]
    BY DEF ApiMeanwhile
  <2>3. k \in Jobs \ {j}
    BY <1>1, <2>1, <2>2 DEF MovedToBack, TypeInv, TypeOK, StoreTypeOK
  <2>4. rows[job] # None /\ rows'[job].acct = rows[job].acct
    BY <1>1, <2>1
  <2>5. Active(rows[k]) /\ rows[k].acct = rows[job].acct
    BY <1>1, <2>3, <2>4
  <2>6. k \in revived
    BY <2>2, <2>4, <2>5 DEF OrderInv, SnapshotHolds
  <2> QED BY <1>1, <2>6
<1> QED BY <1>2, <1>3 DEF OrderInv, VerdictEnds

\* Only Select opens the window between snapshot and claim.
LEMMA WorkKeepsOrder ==
    ASSUME TypeInv, OrderInv, WorkStep
    PROVE  OrderInv'
<1>1. CASE Select
  <2>1. PICK j \in Jobs : IsCandidate(j) /\ job' = j /\ pc' = "claim" /\ UNCHANGED storeVars
    BY <1>1 DEF Select
  <2>2. \A k \in ahead[j] : ~(Active(rows[k]) /\ rows[k].acct = rows[j].acct)
    BY <2>1 DEF IsCandidate, IsHead
  <2> QED BY <2>1, <2>2 DEF OrderInv, SnapshotHolds, VerdictEnds, storeVars
<1>2. CASE pc' \notin {"claim", "commit"}
  BY <1>2 DEF OrderInv, SnapshotHolds, VerdictEnds
<1>3. CASE \E status \in Statuses \ {"running"} : Conclude(status)
  BY <1>3 DEF Conclude, OrderInv, SnapshotHolds, VerdictEnds
<1>4. Statuses \ {"running"} = {"queued", "stopped", "completed", "partial", "failed",
                                "needs_context", "cancelled"}
  BY DEF Statuses, ActiveStates, FinalStates, ContinuableStates
<1>5. CASE NoVision \/ NoContext \/ Publish \/ Rescued \/ StopAtStart
           \/ \E place \in {"checked", "outcome", "rescued"} :
                Cancelled(place) \/ Stopped(place)
  BY <1>2, <1>3, <1>4, <1>5
  DEF NoVision, NoContext, Publish, Rescued, StopAtStart, Cancelled, Stopped, GoTo
<1>6. CASE RecoverRead \/ Recover \/ Claim \/ ClaimSkipsLocked(InFlight) \/ Refresh \/ Analyse
           \/ Reload("analysed", "checked") \/ StartResearch
           \/ Reload("research", "outcome") \/ ContextChanged \/ CommitRaises \/ Finish
           \/ Save \/ Requeue \/ Rescue \/ Restart
  <2>1. pc' \notin {"claim", "commit"}
    BY <1>6
    DEF RecoverRead, Recover, Claim, ClaimSkipsLocked, Refresh, Analyse, Reload, StartResearch,
        ContextChanged, CommitRaises, Finish, Save, Requeue, Rescue, Restart, Leave, GoTo
  <2> QED BY <1>2, <2>1
<1> QED BY <1>1, <1>5, <1>6 DEF WorkStep, WorkerStep

LEMMA OrderStep == TypeInv /\ MediaInv /\ OrderInv /\ [Next]_vars => OrderInv'
<1>. SUFFICES ASSUME TypeInv, MediaInv, OrderInv, [Next]_vars
              PROVE  OrderInv'
  OBVIOUS
<1>1. CASE ApiStep
  <2>1. ApiMeanwhile /\ UNCHANGED <<pc, verdict, job>>
    BY <1>1 DEF ApiStep, ApiMeanwhile, workerVars
  <2>2. pc = "claim" => job \in Jobs /\ (putBack => putBack')
    BY <2>1 DEF ApiMeanwhile, TypeInv, RoundHasJob
  <2>3. ASSUME NoneAdmitted, ahead' = ahead PROVE OrderInv'
    BY <2>1, <2>2, <2>3, OrderFrame
  <2>4. ASSUME NEW f \in Files, NEW acct \in Accounts, Upload(f, acct) PROVE OrderInv'
    BY <2>3, <2>4, UnchangedAdmitsNone DEF Upload
  <2>5. ASSUME NEW c \in Clients, Receive(c) PROVE OrderInv'
    BY <2>3, <2>5, ReceiveFollows, UnchangedAdmitsNone DEF storeVars
  <2>6. ASSUME NEW c \in Clients, Handle(c) \/ ApiDies(c) PROVE OrderInv'
    <3>1. CASE Admitting(c)
      BY <2>1, <3>1, AdmissionKeepsOrder
    <3>2. CASE Delete(c)
      <4>1. NoneAdmitted
        BY <3>2, HandleAdmitsNone DEF Handle, Admitting, Delete, Create, Continue,
           ClueReopens, Commits, Serving
      <4>2. \A k \in Jobs : ahead'[k] \subseteq ahead[k]
        BY <3>2 DEF Delete, Unordered
      <4> QED BY <2>1, <2>2, <4>1, <4>2, OrderFrame
    <3>3. CASE ~Admitting(c) /\ ~Delete(c)
      <4>1. ahead' = ahead
        BY <2>6, <3>3 DEF Handle, Admitting, ApiDies, LockCapacity, QueueFull, CommitFails,
                          Stop, Resume, Cancel, DeleteMedia, Clue, storeVars
      <4> QED BY <2>3, <2>6, <3>3, <4>1, HandleAdmitsNone
    <3> QED BY <3>1, <3>2, <3>3
  <2> QED BY <1>1, <2>4, <2>5, <2>6 DEF ApiStep, ApiNext
<1>2. CASE WorkStep
  BY <1>2, WorkKeepsOrder
<1>3. CASE FaultStep
  <2>1. pc' \notin {"claim", "commit"}
    BY <1>3 DEF FaultStep, WorkerFault, RecoverySkipped, Raise, Crash, Leave, GoTo
  <2> QED BY <2>1 DEF OrderInv, SnapshotHolds, VerdictEnds
<1>4. ASSUME NEW j \in Jobs, TimerStep(j) PROVE OrderInv'
  <2>1. UNCHANGED <<pc, job, verdict, ahead, putBack>>
    BY <1>4 DEF TimerStep, BackoffExpires, workerVars
  <2> QED BY <1>4, <2>1, TimerAdmitsNone, OrderFrame
<1>5. CASE UNCHANGED vars
  <2>1. UNCHANGED <<pc, job, verdict, ahead, putBack, rows, revived>>
    BY <1>5 DEF vars, storeVars, workerVars
  <2> QED BY <2>1, UnchangedAdmitsNone, OrderFrame
<1> QED BY <1>1, <1>2, <1>3, <1>4, <1>5 DEF Next

\* Only Claim makes a row running that was not.
LEMMA OnlyClaimStarts ==
    ASSUME TypeInv, OrderInv, [Next]_vars, NEW j \in Jobs, Running(j)', ~Running(j),
           rows[j] # None
    PROVE  pc = "claim" /\ j = job
<1>1. rows' # rows
  BY DEF Running
<1>2. ~ApiStep
  BY ApiRunsNothing
<1>3. ~FaultStep
  BY <1>1 DEF FaultStep, WorkerFault, RecoverySkipped, Raise, Crash, storeVars
<1>4. \A k \in Jobs : ~TimerStep(k)
  BY DEF TimerStep, BackoffExpires, Running, TypeInv, TypeOK, StoreTypeOK, Row
<1>5. WorkStep
  BY <1>1, <1>2, <1>3, <1>4 DEF Next, vars, storeVars
<1>6. Recover \/ Claim \/ ContextChanged \/ Finish \/ Save \/ Requeue
  BY <1>1, <1>5
  DEF WorkStep, WorkerStep, RecoverRead, Select, ClaimSkipsLocked, Refresh, StopAtStart,
      Analyse, Reload, NoVision, NoContext, StartResearch, Publish, Cancelled, Stopped,
      CommitRaises, Rescue, Rescued, Restart, Conclude, storeVars
<1>7. ~Recover
  <2> SUFFICES ASSUME Recover PROVE FALSE
    OBVIOUS
  <2>1. rows'[j] = IF session[j] = None THEN rows[j]
                   ELSE [Flush(rows[j], session[j],
                               [session[j] EXCEPT !.status = "queued", !.stop = FALSE])
                         EXCEPT !.due = TRUE]
    BY <1>1 DEF Recover, UnlockedWrite
  <2>2. session[j] # None /\ session[j] \in Row
    BY <2>1 DEF Running, TypeInv, TypeOK, WorkerTypeOK
  <2>3. rows'[j].status \in {"queued", rows[j].status}
    BY <2>1, <2>2 DEF Flush, Row
  <2> QED BY <2>3 DEF Running
<1>8. ASSUME NEW new \in Row, NEW due \in BOOLEAN, pc \in InRound, rows[job] # None,
             new.status # "running" \/ new.status = mine.status,
             rows' = Saved(job, mine, new) \/ rows' = Rescheduled(job, mine, new, due)
      PROVE  FALSE
  <2>1. job \in Jobs /\ mine \in Row
    BY <1>8, MineType
  <2> QED BY <1>8, <2>1, SavedRunning DEF Running
<1>9. {"outcome", "commit", "save", "requeue"} \subseteq InRound
      /\ TRUE \in BOOLEAN /\ FALSE \in BOOLEAN /\ "queued" \in Statuses
  BY DEF InRound, Statuses, ActiveStates
<1>10. ASSUME pc \in InRound PROVE mine \in Row
  BY <1>10, MineType
<1>11. ~ContextChanged
  <2> SUFFICES ASSUME ContextChanged PROVE FALSE
    OBVIOUS
  <2>1. pc \in InRound /\ rows[job] # None
        /\ rows' = Rescheduled(job, mine, [mine EXCEPT !.status = "queued", !.stop = FALSE], TRUE)
    BY <1>1, <1>9 DEF ContextChanged, UnlockedWrite
  <2>2. /\ [mine EXCEPT !.status = "queued", !.stop = FALSE] \in Row
        /\ [mine EXCEPT !.status = "queued", !.stop = FALSE].status = "queued"
    BY <1>9, <1>10, <2>1 DEF Row
  <2> QED BY <1>8, <1>9, <2>1, <2>2
<1>12. ~Finish
  <2> SUFFICES ASSUME Finish PROVE FALSE
    OBVIOUS
  <2>. DEFINE new == [mine EXCEPT !.status = verdict,
                        !.media = IF verdict \in PurgeMediaStates \cup {"cancelled"}
                                  THEN None ELSE @]
  <2>1. pc \in InRound /\ rows[job] # None /\ rows' = Saved(job, mine, new)
    BY <1>9 DEF Finish, UnlockedWrite
  <2>2. verdict \in Statuses /\ verdict # "running"
    BY DEF Finish, OrderInv, VerdictEnds, TypeInv, TypeOK, WorkerTypeOK
  <2>3. new \in Row /\ new.status = verdict
    BY <1>10, <2>1, <2>2 DEF Row
  <2> HIDE DEF new
  <2> QED BY <1>8, <1>9, <2>1, <2>2, <2>3
<1>13. ~Save
  <2> SUFFICES ASSUME Save PROVE FALSE
    OBVIOUS
  <2>. DEFINE new == IF rescuing THEN [mine EXCEPT !.status = "queued"] ELSE mine
  <2>1. pc \in InRound /\ rows[job] # None /\ rows' = Saved(job, mine, new)
    BY <1>9 DEF Save, UnlockedWrite
  <2>2. new \in Row /\ new.status \in {"queued", mine.status}
    BY <1>9, <1>10, <2>1 DEF Row
  <2> HIDE DEF new
  <2> QED BY <1>8, <1>9, <2>1, <2>2
<1>14. ~Requeue
  <2> SUFFICES ASSUME Requeue PROVE FALSE
    OBVIOUS
  <2>1. pc \in InRound /\ rows[job] # None
        /\ rows' = Rescheduled(job, mine, [mine EXCEPT !.status = "queued"], FALSE)
    BY <1>9 DEF Requeue, UnlockedWrite
  <2>2. /\ [mine EXCEPT !.status = "queued"] \in Row
        /\ [mine EXCEPT !.status = "queued"].status = "queued"
    BY <1>9, <1>10, <2>1 DEF Row
  <2> QED BY <1>8, <1>9, <2>1, <2>2
<1>15. Claim
  BY <1>6, <1>7, <1>11, <1>12, <1>13, <1>14
<1>16. pc = "claim" /\ rows' = Saved(job, mine, [mine EXCEPT !.status = "running",
                                                             !.attempts = @ + 1])
  BY <1>1, <1>15 DEF Claim, UnlockedWrite
<1> QED BY <1>16 DEF Saved, Running, TypeInv, TypeOK, StoreTypeOK

\* docs/ARCHITECTURE.md:44: although the claim decides on a snapshot, no job starts
\* before an unfinished older one of its account, but for those that stale writes
\* have brought back and for one that has lost its place in the meantime.
THEOREM ClaimsAreFifo == Spec => FifoClaims
<1>1. TypeInv /\ OrderInv /\ [Next]_vars =>
        [\A j \in Jobs :
           rows[j] # None /\ rows[j].status # "running" /\ Running(j)' /\ ~putBack =>
             \A k \in ahead[j] :
               Active(rows[k]) /\ rows[k].acct = rows[j].acct => k \in revived]_vars
  BY OnlyClaimStarts DEF OrderInv, SnapshotHolds, Running
<1>2. Init => OrderInv
  BY DEF Init, WorkerInit, OrderInv, SnapshotHolds, VerdictEnds
<1> QED BY TypeInit, TypeStep, MediaInit, MediaStep, OrderStep, <1>1, <1>2, PTL
        DEF Spec, FifoClaims
=============================================================================
