--------------------------- MODULE JobMediaProofs ---------------------------
(***************************************************************************)
(* What becomes of an upload: the proofs that a finished job's row no      *)
(* longer refers to it, that the file goes before the reference does, and  *)
(* that the queue implements UploadCustody.                                *)
(***************************************************************************)
EXTENDS JobQueueProofs

Ended == PurgeMediaStates \cup {"cancelled"}

\* A session may commit new over its copy snap: it leaves the path alone or
\* clears it, and clears it whenever it ends the job.
MayCommit(snap, new) ==
    /\ new.media \in {snap.media, None}
    /\ new.status # snap.status /\ new.status \in Ended => new.media = None

\* One such commit on the row of j: the path stays or goes, and the row of an
\* ended job has none.
LEMMA CommitMedia ==
    ASSUME TypeInv, MediaInv, NEW j \in Jobs, rows[j] # None,
           NEW snap \in Row, NEW new \in Row, NEW due \in BOOLEAN,
           NotAhead(snap, j), MayCommit(snap, new),
           rows' = Saved(j, snap, new) \/ rows' = Rescheduled(j, snap, new, due)
    PROVE  /\ \A k \in Jobs \ {j} : rows'[k] = rows[k]
           /\ rows'[j] # None
           /\ rows'[j].media \in {rows[j].media, None}
           /\ rows'[j].media # rows[j].media => new.media # snap.media
           /\ rows'[j].status \in Ended => rows'[j].media = None
<1>1. rows \in [Jobs -> Row \cup {None}]
  BY DEF TypeInv, TypeOK, StoreTypeOK
<1>2. Flush(rows[j], snap, new) \in Row
  BY <1>1, FlushType
<1>3. [Flush(rows[j], snap, new) EXCEPT !.due = due] \in Row
  BY <1>2 DEF Row
<1>4. /\ \A k \in Jobs \ {j} : rows'[k] = rows[k]
      /\ rows'[j] # None
      /\ rows'[j].media = IF new.media # snap.media THEN new.media ELSE rows[j].media
      /\ rows'[j].status = IF new.status # snap.status THEN new.status ELSE rows[j].status
  <2>1. CASE rows' = Saved(j, snap, new)
    BY <1>1, <1>2, <2>1, NoneIsNoRow DEF Saved, Flush
  <2>2. CASE rows' = Rescheduled(j, snap, new, due)
    BY <1>1, <1>2, <1>3, <2>2, NoneIsNoRow DEF Rescheduled, Flush
  <2> QED BY <2>1, <2>2
<1>5. rows[j].status \in Ended => rows[j].media = None
  BY DEF MediaInv, PurgedWhenFinal, Ended
<1> QED BY <1>4, <1>5 DEF MayCommit, NotAhead

-----------------------------------------------------------------------------
(* The steps that create nothing keep MediaInv if the rows they write, the  *)
(* files they unlink and the copies they keep are as follows.               *)

\* Rows go, and paths go, but none comes back; ended rows have no path; and
\* what has gone is no longer on the disk.
OnlyLets ==
    \A j \in Jobs :
      /\ rows'[j] # None => rows[j] # None
      /\ rows'[j] # None => rows'[j].media \in {rows[j].media, None}
      /\ rows'[j] # None /\ rows'[j].status \in Ended => rows'[j].media = None
      /\ rows[j] # None /\ source[j] # None /\ rows[j].media # None
           => \/ rows'[j] # None /\ rows'[j].media = rows[j].media
              \/ source[j] \notin files'

\* Copies are kept, dropped, or taken from the row; a session that has just
\* committed may have another status in its copy.
CopiesFollow ==
    /\ \A j \in Jobs : session'[j] # None =>
         \/ session[j] # None /\ session'[j].media = session[j].media
         \/ rows[j] # None /\ rows' = rows /\ session'[j] = rows[j]
    /\ \A c \in Clients : call'[c] # None =>
         /\ call[c] # None
         /\ call'[c].op = call[c].op /\ call'[c].job = call[c].job
         /\ call'[c].snap = call[c].snap

LEMMA MediaFrame ==
    ASSUME TypeInv, MediaInv, OnlyLets, CopiesFollow, UNCHANGED <<born, source, uploader>>,
           files' \subseteq files, UnlinkedBeforeCommit'
    PROVE  MediaInv'
<1>. USE DEF MediaInv
<1>1. IdsAreFresh'
  BY DEF IdsAreFresh, OnlyLets, CopiesFollow
<1>2. UploadsAreOnce'
  BY DEF UploadsAreOnce, CopiesFollow
<1>3. CopiesLagBehind'
  <2>1. ASSUME NEW j \in Jobs, rows'[j] # None
        PROVE  NotAhead(rows[j], j)' /\ rows[j] # None
    BY <2>1 DEF CopiesLagBehind, NotAhead, OnlyLets
  <2>2. ASSUME NEW j \in Jobs, session'[j] # None
        PROVE  NotAhead(session[j], j)'
    BY <2>2 DEF CopiesLagBehind, NotAhead, OnlyLets, CopiesFollow
  <2>3. ASSUME NEW c \in Clients, call'[c] # None, call'[c].op # "create"
        PROVE  NotAhead(call[c].snap, call[c].job)'
    <3>1. call[c].job \in Jobs
      BY <2>3, CallType DEF CopiesFollow
    <3> QED BY <2>3, <3>1 DEF CopiesLagBehind, NotAhead, OnlyLets, CopiesFollow
  <2> QED BY <2>1, <2>2, <2>3 DEF CopiesLagBehind
<1>4. PurgedWhenFinal'
  BY DEF PurgedWhenFinal, OnlyLets, Ended
<1>5. FileGoesFirst'
  <2>1. ASSUME NEW j \in born, source[j] # None,
               rows'[j] = None \/ rows'[j].media = None
        PROVE  source[j] \notin files'
    <3>1. j \in Jobs
      BY DEF TypeInv, TypeOK, StoreTypeOK
    <3>2. CASE rows[j] = None \/ rows[j].media = None
      BY <2>1, <3>2 DEF FileGoesFirst
    <3>3. CASE rows[j] # None /\ rows[j].media # None
      BY <2>1, <3>1, <3>3 DEF OnlyLets
    <3> QED BY <3>2, <3>3
  <2> QED BY <2>1 DEF FileGoesFirst
<1> QED BY <1>1, <1>2, <1>3, <1>4, <1>5

\* The commit of a copy over its row, by whichever process, when the file goes
\* with the path.
LEMMA CommitKeeps ==
    ASSUME TypeInv, MediaInv, NEW j \in Jobs, rows[j] # None,
           NEW snap \in Row, NEW new \in Row, NEW due \in BOOLEAN,
           NotAhead(snap, j), MayCommit(snap, new),
           rows' = Saved(j, snap, new) \/ rows' = Rescheduled(j, snap, new, due),
           CopiesFollow, UNCHANGED <<born, source, uploader>>,
           files' \subseteq files, new.media # snap.media => snap.media \notin files',
           UnlinkedBeforeCommit'
    PROVE  MediaInv'
<1>1. /\ \A k \in Jobs \ {j} : rows'[k] = rows[k]
      /\ rows'[j] # None
      /\ rows'[j].media \in {rows[j].media, None}
      /\ rows'[j].media # rows[j].media => new.media # snap.media
      /\ rows'[j].status \in Ended => rows'[j].media = None
  BY CommitMedia
<1>2. ASSUME NEW k \in Jobs, k # j
      PROVE  rows[k] # None /\ rows[k].status \in Ended => rows[k].media = None
  BY DEF MediaInv, PurgedWhenFinal, Ended
<1>3. rows'[j].media # rows[j].media /\ rows[j].media # None => source[j] \notin files'
  BY <1>1 DEF NotAhead, MayCommit
<1>4. OnlyLets
  BY <1>1, <1>2, <1>3 DEF OnlyLets
<1> QED BY <1>4, MediaFrame

\* What such a commit looks like: the file, if it goes, goes first.
CommitsRow(j, snap) ==
    /\ rows[j] # None
    /\ files' \in {files, files \ {snap.media}}
    /\ \E new \in Row, due \in BOOLEAN :
         /\ MayCommit(snap, new)
         /\ rows' = Saved(j, snap, new) \/ rows' = Rescheduled(j, snap, new, due)
         /\ new.media # snap.media => snap.media \notin files'

LEMMA CommitsRowKeeps ==
    ASSUME TypeInv, MediaInv, NEW j \in Jobs, NEW snap \in Row,
           NotAhead(snap, j), CommitsRow(j, snap),
           CopiesFollow, UNCHANGED <<born, source, uploader>>, UnlinkedBeforeCommit'
    PROVE  MediaInv'
<1>1. rows[j] # None /\ files' \subseteq files
  BY DEF CommitsRow
<1>2. PICK new \in Row, due \in BOOLEAN :
         /\ MayCommit(snap, new)
         /\ rows' = Saved(j, snap, new) \/ rows' = Rescheduled(j, snap, new, due)
         /\ new.media # snap.media => snap.media \notin files'
  BY DEF CommitsRow
<1>3. new.media # snap.media => snap.media \notin files'
  BY <1>2
<1> QED BY <1>1, <1>2, <1>3, CommitKeeps

\* A step that writes no row, unlinks at most, and takes its copies from the rows.
LEMMA QuietKeeps ==
    ASSUME TypeInv, MediaInv, rows' = rows, CopiesFollow,
           UNCHANGED <<born, source, uploader>>, files' \subseteq files,
           UnlinkedBeforeCommit'
    PROVE  MediaInv'
<1>1. OnlyLets
  BY DEF OnlyLets, MediaInv, PurgedWhenFinal, Ended
<1> QED BY <1>1, MediaFrame

-----------------------------------------------------------------------------
(* The steps of the API. *)

\* A new upload is one that nothing refers to.
LEMMA UploadKeeps ==
    ASSUME TypeInv, MediaInv, NEW f \in Files, NEW acct \in Accounts, Upload(f, acct),
           UNCHANGED workerVars
    PROVE  MediaInv'
<1>. USE DEF MediaInv
<1>1. /\ uploader[f] = None /\ files' = files \cup {f}
      /\ uploader' = [uploader EXCEPT ![f] = acct]
      /\ UNCHANGED <<rows, ahead, born, source, call, session, pc, verdict, job, mine>>
  BY DEF Upload, apiVars, workerVars, mine
<1>2. UploadsAreOnce'
  BY <1>1, StoreAssumption DEF UploadsAreOnce, TypeInv, TypeOK, StoreTypeOK
<1>3. IdsAreFresh' /\ CopiesLagBehind' /\ PurgedWhenFinal'
  BY <1>1 DEF IdsAreFresh, CopiesLagBehind, NotAhead, PurgedWhenFinal
<1>4. \A j \in born : source[j] # f
  BY <1>1, NoneIsNoRow, StoreAssumption DEF UploadsAreOnce
<1>5. FileGoesFirst'
  BY <1>1, <1>4 DEF FileGoesFirst
<1>6. UnlinkedBeforeCommit'
  <2>1. pc = "commit" => job \in Jobs /\ session[job] # None
    BY DEF TypeInv, RoundHasJob, InRound
  <2>2. pc = "commit" => mine.media \in {None, source[job]} /\ job \in born
    BY <2>1 DEF CopiesLagBehind, NotAhead, IdsAreFresh, mine
  <2>3. pc = "commit" => mine.media # f
    BY <2>2, <1>4, StoreAssumption
  <2> QED BY <1>1, <2>3 DEF UnlinkedBeforeCommit
<1> QED BY <1>2, <1>3, <1>5, <1>6

\* A handler starts with the row as it is.
LEMMA ReadKeeps ==
    ASSUME TypeInv, MediaInv, NEW c \in Clients, NEW op \in Ops \ {"create"},
           NEW j \in Jobs, Read(c, op, j), UNCHANGED workerVars
    PROVE  MediaInv'
<1>. USE DEF MediaInv
<1>1. /\ call[c] = None /\ rows[j] # None
      /\ call' = [call EXCEPT ![c] = [op |-> op, job |-> j, locked |-> FALSE,
                                      snap |-> rows[j],
                                      nr |-> IF op = "clue" THEN calls + 1 ELSE 0]]
      /\ UNCHANGED <<rows, born, source, uploader, files, session, pc, verdict, mine>>
  BY DEF Read, storeVars, workerVars, mine
<1>2. \A d \in Clients : call'[d] # None =>
        \/ d # c /\ call'[d] = call[d]
        \/ d = c /\ call'[d].op # "create" /\ call'[d].job = j /\ call'[d].snap = rows[j]
  BY <1>1 DEF TypeInv, TypeOK, ApiTypeOK
<1>3. \A d \in Clients \ {c} : call'[d] = call[d]
  BY <1>1 DEF TypeInv, TypeOK, ApiTypeOK
<1>4. j \in born
  BY <1>1 DEF IdsAreFresh
<1>5. IdsAreFresh'
  BY <1>1, <1>2, <1>4 DEF IdsAreFresh
<1>6. UploadsAreOnce'
  BY <1>1, <1>2 DEF UploadsAreOnce
<1>7. CopiesLagBehind'
  BY <1>1, <1>2 DEF CopiesLagBehind, NotAhead
<1>8. UnlinkedBeforeCommit' /\ PurgedWhenFinal' /\ FileGoesFirst'
  BY <1>1 DEF UnlinkedBeforeCommit, PurgedWhenFinal, FileGoesFirst
<1> QED BY <1>5, <1>6, <1>7, <1>8

\* A request for a new job names an identifier and an upload that fit.
LEMMA ReadCreateKeeps ==
    ASSUME TypeInv, MediaInv, NEW c \in Clients, NEW j \in Jobs, NEW acct \in Accounts,
           NEW media \in Files \cup {None}, ReadCreate(c, j, acct, media),
           UNCHANGED workerVars
    PROVE  MediaInv'
<1>. USE DEF MediaInv
<1>1. /\ call[c] = None /\ j \notin born
      /\ media # None => uploader[media] # None
      /\ \A d \in Clients : call[d] # None => call[d].job # j
      /\ call' = [call EXCEPT ![c] = [op |-> "create", job |-> j, locked |-> FALSE,
                                      nr |-> 0, snap |-> NewRow(acct, media)]]
      /\ UNCHANGED <<rows, born, source, uploader, files, session, pc, verdict, mine>>
  BY StoreAssumption DEF ReadCreate, storeVars, workerVars, mine
<1>2. \A d \in Clients : call'[d] # None =>
        \/ d # c /\ call'[d] = call[d] /\ call[d].job # j
        \/ /\ d = c /\ call'[d].op = "create" /\ call'[d].job = j
           /\ call'[d].snap.media = media
  BY <1>1 DEF TypeInv, TypeOK, ApiTypeOK, NewRow
<1>3. IdsAreFresh'
  BY <1>1, <1>2 DEF IdsAreFresh
<1>4. UploadsAreOnce'
  BY <1>1, <1>2 DEF UploadsAreOnce
<1>5. CopiesLagBehind'
  BY <1>1, <1>2 DEF CopiesLagBehind, NotAhead
<1>6. UnlinkedBeforeCommit' /\ PurgedWhenFinal' /\ FileGoesFirst'
  BY <1>1 DEF UnlinkedBeforeCommit, PurgedWhenFinal, FileGoesFirst
<1> QED BY <1>3, <1>4, <1>5, <1>6

\* The INSERT: the first row of its identifier, queued, with its own upload.
LEMMA CreateKeeps ==
    ASSUME TypeInv, MediaInv, NEW c \in Clients, Create(c), UNCHANGED workerVars
    PROVE  MediaInv'
<1>. USE DEF MediaInv
<1>. DEFINE j == call[c].job
            media == call[c].snap.media
<1>1. /\ call[c] # None /\ call[c].op = "create" /\ j \in Jobs
  BY CallType DEF Create, Serving
<1>2. /\ rows' = [rows EXCEPT ![j] = NewRow(call[c].snap.acct, media)]
      /\ born' = born \cup {j}
      /\ source' = [source EXCEPT ![j] = media]
      /\ UNCHANGED <<uploader, files, session, pc, verdict, mine>>
  BY DEF Create, LockedWrite, NewRow, workerVars, mine
<1>3. /\ rows'[j] # None => rows'[j].media = media /\ rows'[j].status = "queued"
      /\ source'[j] = media
      /\ \A k \in Jobs \ {j} : rows'[k] = rows[k] /\ source'[k] = source[k]
  BY <1>1, <1>2 DEF NewRow, TypeInv, TypeOK, StoreTypeOK
<1>4. rows'[j] # None
  <2>1. NewRow(call[c].snap.acct, media) \in Row
    BY <1>1, CallType DEF NewRow, Row, Statuses, ActiveStates
  <2> QED BY <1>1, <1>2, <2>1, NoneIsNoRow DEF TypeInv, TypeOK, StoreTypeOK
<1>5. j \notin born /\ session[j] = None
  BY <1>1 DEF IdsAreFresh
<1>6. \A d \in Clients : call'[d] # None =>
        d # c /\ call'[d] = call[d] /\ call[d].job # j
  BY <1>1 DEF Create, Return, IdsAreFresh, TypeInv, TypeOK, ApiTypeOK
<1> HIDE DEF j, media
<1>7. IdsAreFresh'
  BY <1>2, <1>3, <1>4, <1>6 DEF IdsAreFresh
<1>8. UploadsAreOnce'
  <2>1. media # None => uploader[media] # None
    BY <1>1 DEF UploadsAreOnce, media
  <2>2. \A k \in born : source'[k] # None => uploader[source'[k]] # None
    BY <1>3, <1>5 DEF UploadsAreOnce, TypeInv, TypeOK, StoreTypeOK
  <2> QED BY <1>2, <1>3, <1>6, <2>1, <2>2 DEF UploadsAreOnce
<1>9. CopiesLagBehind'
  <2>1. \A d \in Clients : call'[d] # None => call'[d].job \in Jobs \ {j}
    BY <1>6, CallType
  <2> QED BY <1>1, <1>2, <1>3, <1>4, <1>5, <1>6, <2>1 DEF CopiesLagBehind, NotAhead
<1>10. UnlinkedBeforeCommit' /\ PurgedWhenFinal'
  BY <1>1, <1>2, <1>3 DEF UnlinkedBeforeCommit, PurgedWhenFinal, PurgeMediaStates
<1>11. FileGoesFirst'
  BY <1>1, <1>2, <1>3, <1>4, <1>5 DEF FileGoesFirst, TypeInv, TypeOK, StoreTypeOK
<1> QED BY <1>7, <1>8, <1>9, <1>10, <1>11

\* What every handler but create leaves alone.
LEMMA HandlerFrame ==
    ASSUME TypeInv, MediaInv, NEW c \in Clients, call[c] # None, call[c].op # "create",
           Return(c), UNCHANGED <<workerVars, born, source, uploader>>, files' \subseteq files
    PROVE  /\ CopiesFollow
           /\ UnlinkedBeforeCommit'
           /\ call[c].job \in Jobs /\ call[c].snap \in Row
           /\ NotAhead(call[c].snap, call[c].job)
<1>1. CopiesFollow
  BY DEF CopiesFollow, Return, workerVars, TypeInv, TypeOK, ApiTypeOK
<1>2. UnlinkedBeforeCommit'
  BY DEF MediaInv, UnlinkedBeforeCommit, workerVars, mine
<1>3. NotAhead(call[c].snap, call[c].job)
  BY DEF MediaInv, CopiesLagBehind
<1> QED BY <1>1, <1>2, <1>3, CallType

\* The handlers that commit a row they have read.
Committing(c) ==
    \/ Stop(c) \/ Resume(c) \/ Continue(c) \/ Cancel(c) \/ DeleteMedia(c)
    \/ ClueReopens(c) \/ Clue(c)

LEMMA HandlerCommits ==
    ASSUME TypeInv, NEW c \in Clients, Committing(c)
    PROVE  /\ call[c] # None /\ call[c].op # "create" /\ Return(c)
           /\ UNCHANGED <<born, source, uploader>>
           /\ CommitsRow(call[c].job, call[c].snap)
<1>. DEFINE j == call[c].job
            old == call[c].snap
<1>0. /\ call[c] # None /\ call[c].op # "create" /\ Return(c) /\ rows[j] # None
      /\ UNCHANGED <<born, source, uploader>>
  BY DEF Committing, Stop, Resume, Continue, Cancel, DeleteMedia, ClueReopens, Clue,
     Commits, Serving
<1>1. j \in Jobs /\ old \in Row /\ TRUE \in BOOLEAN
  BY <1>0, CallType
<1>2. CASE Stop(c)
  <2>. DEFINE new == [old EXCEPT !.status = "stopped", !.stop = TRUE]
  <2>1. rows' = Saved(j, old, new) /\ files' = files
    BY <1>2 DEF Stop, UnlockedWrite
  <2>2. new \in Row
    BY <1>0, <1>1, CallType, ApiRowTypes DEF Row
  <2>3. MayCommit(old, new) /\ new.media = old.media
    BY <1>1 DEF MayCommit, Row, Ended, PurgeMediaStates
  <2> HIDE DEF new, j, old
  <2>10. CommitsRow(j, old)
    BY <1>0, <1>1, <2>1, <2>2, <2>3 DEF CommitsRow
  <2> QED BY <1>0, <2>10 DEF j, old
<1>3. CASE Resume(c)
  <2>. DEFINE new == [old EXCEPT !.status = "queued", !.stop = FALSE]
  <2>1. rows' = Rescheduled(j, old, new, TRUE) /\ files' = files
    BY <1>3 DEF Resume, UnlockedWrite
  <2>2. new \in Row
    BY <1>0, <1>1, CallType, ApiRowTypes DEF Row
  <2>3. MayCommit(old, new) /\ new.media = old.media
    BY <1>1 DEF MayCommit, Row, Ended, PurgeMediaStates
  <2> HIDE DEF new, j, old
  <2>10. CommitsRow(j, old)
    BY <1>0, <1>1, <2>1, <2>2, <2>3 DEF CommitsRow
  <2> QED BY <1>0, <2>10 DEF j, old
<1>4. CASE Continue(c)
  <2>. DEFINE new == Reopened(old)
  <2>1. rows' = Rescheduled(j, old, new, TRUE) /\ files' = files
    BY <1>4 DEF Continue, LockedWrite
  <2>2. new \in Row
    BY <1>0, <1>1, CallType, ApiRowTypes DEF Row
  <2>3. MayCommit(old, new) /\ new.media = old.media
    BY <1>1 DEF MayCommit, Row, Ended, PurgeMediaStates, Reopened
  <2> HIDE DEF new, j, old
  <2>10. CommitsRow(j, old)
    BY <1>0, <1>1, <2>1, <2>2, <2>3 DEF CommitsRow
  <2> QED BY <1>0, <2>10 DEF j, old
<1>5. CASE Cancel(c)
  <2>. DEFINE new == [old EXCEPT !.status = "cancelled", !.stop = TRUE, !.media = None]
  <2>1. rows' = Saved(j, old, new) /\ files' = files \ {old.media}
    BY <1>5 DEF Cancel, UnlockedWrite
  <2>2. new \in Row
    BY <1>0, <1>1, CallType, ApiRowTypes DEF Row
  <2>3. MayCommit(old, new)
    BY <1>1 DEF MayCommit, Row
  <2> HIDE DEF new, j, old
  <2>10. CommitsRow(j, old)
    BY <1>0, <1>1, <2>1, <2>2, <2>3 DEF CommitsRow
  <2> QED BY <1>0, <2>10 DEF j, old
<1>6. CASE DeleteMedia(c)
  <2>. DEFINE new == [old EXCEPT !.media = None]
  <2>1. rows' = Saved(j, old, new) /\ files' = files \ {old.media}
    BY <1>6 DEF DeleteMedia, UnlockedWrite
  <2>2. new \in Row
    BY <1>0, <1>1, CallType, ApiRowTypes DEF Row
  <2>3. MayCommit(old, new)
    BY <1>1 DEF MayCommit, Row
  <2> HIDE DEF new, j, old
  <2>10. CommitsRow(j, old)
    BY <1>0, <1>1, <2>1, <2>2, <2>3 DEF CommitsRow
  <2> QED BY <1>0, <2>10 DEF j, old
<1>7. CASE ClueReopens(c)
  <2>. DEFINE new == WithClue(c, Reopened(old))
  <2>1. rows' = Rescheduled(j, old, new, TRUE) /\ files' = files
    BY <1>7 DEF ClueReopens, LockedWrite
  <2>2. new \in Row
    BY <1>0, <1>1, CallType, ApiRowTypes DEF Row
  <2>3. MayCommit(old, new) /\ new.media = old.media
    BY <1>1 DEF MayCommit, Row, Ended, PurgeMediaStates, Reopened, WithClue
  <2> HIDE DEF new, j, old
  <2>10. CommitsRow(j, old)
    BY <1>0, <1>1, <2>1, <2>2, <2>3 DEF CommitsRow
  <2> QED BY <1>0, <2>10 DEF j, old
<1>8. CASE Clue(c)
  <2>. DEFINE new == WithClue(c, old)
              due == old.status = "queued" \/ rows[j].due
  <2>1. rows' = Rescheduled(j, old, new, due) /\ files' = files
    BY <1>8 DEF Clue, UnlockedWrite
  <2>2. new \in Row
    BY <1>0, <1>1, CallType, ApiRowTypes DEF Row
  <2>3. MayCommit(old, new) /\ new.media = old.media
    BY <1>1 DEF MayCommit, Row, Ended, PurgeMediaStates, WithClue
  <2>4. due \in BOOLEAN
    BY <1>0, <1>1 DEF TypeInv, TypeOK, StoreTypeOK, Row
  <2> HIDE DEF new, j, old, due
  <2>10. CommitsRow(j, old)
    BY <1>0, <1>1, <2>1, <2>2, <2>3, <2>4 DEF CommitsRow
  <2> QED BY <1>0, <2>10 DEF j, old
<1> QED BY <1>2, <1>3, <1>4, <1>5, <1>6, <1>7, <1>8 DEF Committing

\* The rest of the handlers, whether they commit, fail or die.
LEMMA HandleKeeps ==
    ASSUME TypeInv, MediaInv, NEW c \in Clients, Handle(c) \/ ApiDies(c),
           UNCHANGED workerVars
    PROVE  MediaInv'
<1>. DEFINE j == call[c].job
            old == call[c].snap
<1>1. CASE LockCapacity(c)
  <2>1. CopiesFollow
    BY <1>1 DEF LockCapacity, CopiesFollow, Admits, Serving, Call, workerVars,
       TypeInv, TypeOK, ApiTypeOK
  <2>2. UnlinkedBeforeCommit'
    BY <1>1 DEF LockCapacity, MediaInv, UnlinkedBeforeCommit, storeVars, workerVars, mine
  <2> QED BY <1>1, <2>1, <2>2, QuietKeeps DEF LockCapacity, storeVars
<1>2. CASE QueueFull(c) \/ CommitFails(c) \/ ApiDies(c)
  <2>1. CopiesFollow
    BY <1>2 DEF QueueFull, CommitFails, ApiDies, Return, CopiesFollow, workerVars,
       TypeInv, TypeOK, ApiTypeOK
  <2>2. /\ files' \subseteq files
        /\ UNCHANGED <<rows, born, source, uploader>>
    BY <1>2 DEF QueueFull, CommitFails, ApiDies
  <2>3. UnlinkedBeforeCommit'
    BY <2>2 DEF MediaInv, UnlinkedBeforeCommit, workerVars, mine
  <2> QED BY <2>1, <2>2, <2>3, QuietKeeps
<1>3. CASE Create(c)
  BY <1>3, CreateKeeps
<1>4. CASE Delete(c)
  <2>1. /\ rows' = [rows EXCEPT ![j] = None]
        /\ call[c] # None /\ call[c].op # "create" /\ Return(c)
        /\ UNCHANGED <<born, source, uploader>>
        /\ files' = files \ {old.media}
    BY <1>4 DEF Delete, Serving, UnlockedWrite
  <2>2. /\ CopiesFollow /\ UnlinkedBeforeCommit' /\ NotAhead(old, j)
        /\ j \in Jobs /\ old \in Row
    BY <2>1, HandlerFrame
  <2>3. /\ rows'[j] = None
        /\ \A k \in Jobs \ {j} : rows'[k] = rows[k]
    BY <2>1, <2>2 DEF TypeInv, TypeOK, StoreTypeOK
  <2>4. rows[j] # None /\ rows[j].media # None /\ source[j] # None => source[j] \notin files'
    BY <2>1, <2>2 DEF NotAhead
  <2> HIDE DEF j, old
  <2>5. OnlyLets
    BY <2>3, <2>4 DEF OnlyLets, MediaInv, PurgedWhenFinal, Ended
  <2> QED BY <2>1, <2>2, <2>5, MediaFrame
<1>5. CASE Committing(c)
  <2>1. /\ call[c] # None /\ call[c].op # "create" /\ Return(c)
        /\ UNCHANGED <<born, source, uploader>>
        /\ CommitsRow(j, old)
    BY <1>5, HandlerCommits
  <2>2. files' \subseteq files
    BY <2>1 DEF CommitsRow
  <2>3. /\ CopiesFollow /\ UnlinkedBeforeCommit' /\ NotAhead(old, j)
        /\ j \in Jobs /\ old \in Row
    BY <2>1, <2>2, HandlerFrame
  <2> HIDE DEF j, old
  <2> QED BY <2>1, <2>3, CommitsRowKeeps
<1> QED BY <1>1, <1>2, <1>3, <1>4, <1>5 DEF Handle, Committing

LEMMA ApiKeeps ==
    ASSUME TypeInv, MediaInv, ApiStep
    PROVE  MediaInv'
<1>1. UNCHANGED workerVars
  BY DEF ApiStep, ApiMeanwhile
<1>2. ASSUME NEW c \in Clients, NEW j \in Jobs, ReceiveOn(c, j)
      PROVE  MediaInv'
  <2>1. PICK op \in Ops \ {"create"} : Read(c, op, j)
    BY <1>2 DEF ReceiveOn, ReadStop, ReadResume, ReadContinue, ReadCancel,
       ReadDelete, ReadDeleteMedia, ReadClue, Ops
  <2> QED BY <1>1, <2>1, ReadKeeps
<1> QED BY <1>1, <1>2, UploadKeeps, ReadCreateKeeps, HandleKeeps
        DEF ApiStep, ApiNext, Receive

-----------------------------------------------------------------------------
(* The steps of the worker. *)

\* Its session is closed, or moves on with the copies it has.
LEMMA LeaveFollows ==
    ASSUME TypeInv, UNCHANGED call, NEW place \in {"idle", "down"}, Leave(place)
    PROVE  CopiesFollow /\ UnlinkedBeforeCommit'
BY DEF CopiesFollow, UnlinkedBeforeCommit, Leave, NoRows, TypeInv, TypeOK, ApiTypeOK

LEMMA GoToFollows ==
    ASSUME UNCHANGED call, NEW place \in Places \ {"commit"}, GoTo(place)
    PROVE  CopiesFollow /\ UnlinkedBeforeCommit'
BY DEF CopiesFollow, UnlinkedBeforeCommit, GoTo

\* It loads the row of its job as it is.
LEMMA LoadKeeps ==
    ASSUME TypeInv, MediaInv, UNCHANGED <<storeVars, call>>, NEW j \in Jobs,
           rows[j] # None, session' = Loaded(j), pc' # "commit"
    PROVE  MediaInv'
<1>1. CopiesFollow
  BY DEF CopiesFollow, Loaded, storeVars
<1>2. UnlinkedBeforeCommit'
  BY DEF UnlinkedBeforeCommit
<1> QED BY <1>1, <1>2, QuietKeeps DEF storeVars

\* The decision to end a round unlinks the file and leaves the rows alone.
LEMMA ConcludeKeeps ==
    ASSUME TypeInv, MediaInv, UNCHANGED call, NEW status, Conclude(status)
    PROVE  MediaInv'
<1>1. CopiesFollow
  BY DEF CopiesFollow, Conclude
<1>2. UnlinkedBeforeCommit'
  BY DEF UnlinkedBeforeCommit, Conclude, mine
<1> QED BY <1>1, <1>2, QuietKeeps DEF Conclude

\* The worker's copy in a round, and what it may commit of it.
LEMMA MineMedia ==
    ASSUME TypeInv, MediaInv, pc \in InRound \cup {"claim"}
    PROVE  /\ job \in Jobs /\ mine \in Row /\ NotAhead(mine, job)
           /\ \A status \in Statuses \ Ended, stop \in BOOLEAN :
                MayCommit(mine, [mine EXCEPT !.status = status, !.stop = stop])
           /\ \A status \in Statuses \ Ended :
                MayCommit(mine, [mine EXCEPT !.status = status])
           /\ MayCommit(mine, [mine EXCEPT !.status = "running", !.attempts = @ + 1])
           /\ MayCommit(mine, mine)
<1>1. job \in Jobs /\ mine \in Row
  BY MineType
<1>2. NotAhead(mine, job)
  BY <1>1 DEF MediaInv, CopiesLagBehind, mine, TypeInv, RoundHasJob
<1>3. \A status \in Statuses \ Ended, stop \in BOOLEAN :
        MayCommit(mine, [mine EXCEPT !.status = status, !.stop = stop])
  BY <1>1 DEF MayCommit, Row
<1>4. \A status \in Statuses \ Ended : MayCommit(mine, [mine EXCEPT !.status = status])
  BY <1>1 DEF MayCommit, Row
<1>5. MayCommit(mine, [mine EXCEPT !.status = "running", !.attempts = @ + 1])
  BY <1>1 DEF MayCommit, Row, Ended, PurgeMediaStates
<1>6. MayCommit(mine, mine)
  BY DEF MayCommit
<1> QED BY <1>1, <1>2, <1>3, <1>4, <1>5, <1>6

\* Recovery gives every row that it knows its status back, and no path.
LEMMA RecoverWrites ==
    ASSUME TypeInv, Recover
    PROVE  \A j \in Jobs :
             /\ rows'[j] # None <=> rows[j] # None
             /\ rows'[j] # None => /\ rows'[j].media = rows[j].media
                                  /\ rows'[j].status \in {"queued", rows[j].status}
<1>1. CASE rows' = rows
  BY <1>1
<1>2. CASE rows' # rows
  <2>0. ~ \E j \in Jobs : session[j] # None /\ rows[j] = None
    BY <1>2 DEF Recover
  <2>1. rows' = [j \in Jobs |->
              IF session[j] = None THEN rows[j]
              ELSE [Flush(rows[j], session[j],
                          [session[j] EXCEPT !.status = "queued", !.stop = FALSE])
                    EXCEPT !.due = TRUE]]
    BY <2>0 DEF Recover, UnlockedWrite
  <2>2. ASSUME NEW j \in Jobs, session[j] # None
        PROVE  /\ rows[j] # None /\ rows'[j] # None /\ rows'[j].media = rows[j].media
               /\ rows'[j].status \in {"queued", rows[j].status}
    <3>. DEFINE new == [session[j] EXCEPT !.status = "queued", !.stop = FALSE]
    <3>1. session[j] \in Row /\ rows[j] \in Row
      BY <2>0, <2>2 DEF TypeInv, TypeOK, StoreTypeOK, WorkerTypeOK
    <3>2. new.media = session[j].media /\ new.status = "queued"
      BY <3>1 DEF Row
    <3>3. rows'[j] = [Flush(rows[j], session[j], new) EXCEPT !.due = TRUE]
      BY <2>1, <2>2
    <3>4. rows'[j] # None
      <4>1. new \in Row
        BY <3>1, WorkerRowTypes DEF Statuses, ActiveStates
      <4>2. Flush(rows[j], session[j], new) \in Row
        BY <3>1, <4>1, FlushType
      <4>3. \A row \in Row : [row EXCEPT !.due = TRUE] \in Row
        BY DEF Row
      <4> HIDE DEF new
      <4>4. rows'[j] \in Row
        BY <3>3, <4>2, <4>3
      <4> QED BY <4>4, NoneIsNoRow
    <3> HIDE DEF new
    <3>5. /\ rows'[j].media = rows[j].media
          /\ rows'[j].status \in {"queued", rows[j].status}
      BY <3>2, <3>3 DEF Flush
    <3> QED BY <2>0, <2>2, <3>4, <3>5
  <2>3. ASSUME NEW j \in Jobs, session[j] = None
        PROVE  rows'[j] = rows[j]
    BY <2>1, <2>3
  <2> QED BY <2>2, <2>3
<1> QED BY <1>1, <1>2

LEMMA RecoverKeeps ==
    ASSUME TypeInv, MediaInv, Recover, UNCHANGED call
    PROVE  MediaInv'
<1>1. CopiesFollow /\ UnlinkedBeforeCommit'
  BY LeaveFollows DEF Recover
<1>2. OnlyLets
  BY RecoverWrites DEF OnlyLets, MediaInv, PurgedWhenFinal, Ended, PurgeMediaStates
<1> QED BY <1>1, <1>2, MediaFrame DEF Recover

\* The commits of a round: the worker's copy over its row, or nothing.
LEMMA WorkerCommits ==
    ASSUME TypeInv, MediaInv, Claim \/ ContextChanged \/ Finish \/ Save \/ Requeue
    PROVE  /\ UNCHANGED <<born, source, uploader, files>>
           /\ pc \in InRound \cup {"claim"}
           /\ rows' = rows \/ CommitsRow(job, mine)
<1>1. /\ "queued" \in Statuses \ Ended /\ "running" \in Statuses \ Ended
      /\ {"claim", "outcome", "commit", "save", "requeue"} \subseteq InRound \cup {"claim"}
      /\ TRUE \in BOOLEAN /\ FALSE \in BOOLEAN
  BY DEF Statuses, ActiveStates, Ended, PurgeMediaStates, InRound
<1>2. /\ UNCHANGED <<born, source, uploader, files>>
      /\ pc \in InRound \cup {"claim"}
  BY <1>1 DEF Claim, ContextChanged, Finish, Save, Requeue
<1>3. mine \in Row
  BY <1>2, MineMedia
<1>4. CASE Claim /\ rows' # rows
  <2>. DEFINE new == [mine EXCEPT !.status = "running", !.attempts = @ + 1]
  <2>1. rows' = Saved(job, mine, new) /\ rows[job] # None
    BY <1>4 DEF Claim, UnlockedWrite
  <2>2. new \in Row /\ MayCommit(mine, new) /\ new.media = mine.media
    <3>1. MayCommit(mine, new)
      BY <1>2, MineMedia
    <3> QED BY <3>1, <1>1, <1>3, WorkerRowTypes DEF Row
  <2> HIDE DEF new
  <2> QED BY <1>1, <1>2, <2>1, <2>2 DEF CommitsRow
<1>5. CASE ContextChanged /\ rows' # rows
  <2>. DEFINE new == [mine EXCEPT !.status = "queued", !.stop = FALSE]
  <2>1. rows' = Rescheduled(job, mine, new, TRUE) /\ rows[job] # None
    BY <1>5 DEF ContextChanged, UnlockedWrite
  <2>2. new \in Row /\ MayCommit(mine, new) /\ new.media = mine.media
    <3>1. MayCommit(mine, new)
      BY <1>1, <1>2, MineMedia
    <3> QED BY <3>1, <1>1, <1>3, WorkerRowTypes DEF Row
  <2> HIDE DEF new
  <2> QED BY <1>1, <1>2, <2>1, <2>2 DEF CommitsRow
<1>6. CASE Finish
  <2>. DEFINE new == [mine EXCEPT !.status = verdict,
                        !.media = IF verdict \in PurgeMediaStates \cup {"cancelled"}
                                  THEN None ELSE @]
  <2>1. rows' = Saved(job, mine, new) /\ rows[job] # None /\ pc = "commit"
    BY <1>6 DEF Finish, UnlockedWrite
  <2>2. verdict \in Statuses
    BY <2>1 DEF TypeInv, TypeOK, WorkerTypeOK
  <2>3. new \in Row
    BY <1>3, <2>2, WorkerRowTypes
  <2>4. /\ new.status = verdict
        /\ new.media = IF verdict \in Ended THEN None ELSE mine.media
    BY <1>3, <2>2 DEF Row, Ended
  <2>5. verdict \in Ended => mine.media \notin files
    BY <2>1 DEF MediaInv, UnlinkedBeforeCommit, Ended
  <2> HIDE DEF new
  <2>6. MayCommit(mine, new) /\ (new.media # mine.media => mine.media \notin files)
    BY <2>4, <2>5 DEF MayCommit
  <2> QED BY <1>1, <1>2, <2>1, <2>3, <2>6 DEF CommitsRow
<1>7. CASE Save
  <2>. DEFINE new == IF rescuing THEN [mine EXCEPT !.status = "queued"] ELSE mine
  <2>1. rows' = Saved(job, mine, new) /\ rows[job] # None
    BY <1>7 DEF Save, UnlockedWrite
  <2>2. MayCommit(mine, new)
    BY <1>1, <1>2, MineMedia
  <2>3. new \in Row /\ new.media = mine.media
    BY <1>1, <1>3, WorkerRowTypes DEF Row
  <2> HIDE DEF new
  <2> QED BY <1>1, <1>2, <2>1, <2>2, <2>3 DEF CommitsRow
<1>8. CASE Requeue
  <2>. DEFINE new == [mine EXCEPT !.status = "queued"]
  <2>1. rows' = Rescheduled(job, mine, new, FALSE) /\ rows[job] # None
    BY <1>8 DEF Requeue, UnlockedWrite
  <2>2. MayCommit(mine, new)
    BY <1>1, <1>2, MineMedia
  <2>3. new \in Row /\ new.media = mine.media
    BY <1>1, <1>3, WorkerRowTypes DEF Row
  <2> HIDE DEF new
  <2> QED BY <1>1, <1>2, <2>1, <2>2, <2>3 DEF CommitsRow
<1> QED BY <1>2, <1>4, <1>5, <1>6, <1>7, <1>8

LEMMA CommitsKeep ==
    ASSUME TypeInv, MediaInv, UNCHANGED call,
           Claim \/ ContextChanged \/ Finish \/ Save \/ Requeue
    PROVE  MediaInv'
<1>1. /\ UNCHANGED <<born, source, uploader, files>>
      /\ pc \in InRound \cup {"claim"}
      /\ rows' = rows \/ CommitsRow(job, mine)
  BY WorkerCommits
<1>2. CopiesFollow /\ UnlinkedBeforeCommit'
  <2>1. {"refresh", "rescue"} \subseteq Places \ {"commit"}
    BY DEF Places, InRound
  <2>2. CASE Save
    <3>. DEFINE new == IF rescuing THEN [mine EXCEPT !.status = "queued"] ELSE mine
    <3>1. session' = [session EXCEPT ![job] = new] /\ pc' = "requeue"
      BY <2>2 DEF Save
    <3>2. job \in Jobs /\ mine \in Row
      BY <1>1, MineMedia
    <3>3. new.media = mine.media
      BY <3>2 DEF Row
    <3>4. session[job] # None
      BY <2>2 DEF Save, InRound, TypeInv, RoundHasJob
    <3> HIDE DEF new
    <3> QED BY <3>1, <3>2, <3>3, <3>4
            DEF CopiesFollow, UnlinkedBeforeCommit, mine, TypeInv, TypeOK, WorkerTypeOK, ApiTypeOK
  <2>3. CASE Claim \/ ContextChanged \/ Finish \/ Requeue
    BY <2>1, <2>3, LeaveFollows, GoToFollows DEF Claim, ContextChanged, Finish, Requeue
  <2> QED BY <2>2, <2>3
<1>3. CASE rows' = rows
  BY <1>1, <1>2, <1>3, QuietKeeps
<1>4. CASE CommitsRow(job, mine)
  BY <1>1, <1>2, <1>4, MineMedia, CommitsRowKeeps
<1> QED BY <1>1, <1>3, <1>4

LEMMA WorkKeeps ==
    ASSUME TypeInv, MediaInv, WorkStep
    PROVE  MediaInv'
<1>0. UNCHANGED call
  BY DEF WorkStep, apiVars
<1>1. CASE RecoverRead
  <2>1. CopiesFollow
    BY <1>0, <1>1 DEF CopiesFollow, RecoverRead, storeVars
  <2>2. UnlinkedBeforeCommit'
    BY <1>1 DEF UnlinkedBeforeCommit, RecoverRead
  <2> QED BY <1>1, <2>1, <2>2, QuietKeeps DEF RecoverRead, storeVars
<1>2. CASE Recover
  BY <1>0, <1>2, RecoverKeeps
<1>3. CASE Select
  <2>1. PICK j \in Jobs : IsCandidate(j) /\ session' = Loaded(j)
    BY <1>3 DEF Select
  <2>2. rows[j] # None
    BY <2>1 DEF IsCandidate, IsHead, Active
  <2> QED BY <1>0, <1>3, <2>1, <2>2, LoadKeeps DEF Select
<1>4. CASE Refresh \/ Rescue \/ Reload("analysed", "checked") \/ Reload("research", "outcome")
  <2>1. CASE rows[job] = None
    <3>1. CopiesFollow /\ UnlinkedBeforeCommit'
      BY <1>0, <1>4, <2>1, LeaveFollows DEF Refresh, Rescue, Reload
    <3> QED BY <1>4, <3>1, QuietKeeps DEF Refresh, Rescue, Reload, storeVars
  <2>2. CASE rows[job] # None
    <3>1. job \in Jobs
      BY <1>4, MineType DEF Refresh, Rescue, Reload, InRound
    <3> QED BY <1>0, <1>4, <2>2, <3>1, LoadKeeps DEF Refresh, Rescue, Reload
  <2> QED BY <2>1, <2>2
<1>5. CASE \E status \in Statuses : Conclude(status)
  BY <1>0, <1>5, ConcludeKeeps
<1>6. CASE Analyse \/ StartResearch
  <2>1. CopiesFollow /\ UnlinkedBeforeCommit'
    BY <1>0, <1>6 DEF CopiesFollow, UnlinkedBeforeCommit, Analyse, StartResearch
  <2> QED BY <1>6, <2>1, QuietKeeps DEF Analyse, StartResearch, storeVars
<1>7. CASE \E place \in Places \ {"commit"} : GoTo(place) /\ UNCHANGED storeVars
  <2>1. CopiesFollow /\ UnlinkedBeforeCommit'
    BY <1>0, <1>7, GoToFollows
  <2> QED BY <1>7, <2>1, QuietKeeps DEF storeVars
<1>8. CASE NoVision \/ NoContext \/ Publish \/ Rescued \/ StopAtStart \/ Restart
           \/ \E place \in {"checked", "outcome", "rescued"} :
                Cancelled(place) \/ Stopped(place)
  BY <1>5, <1>7, <1>8 DEF NoVision, NoContext, Publish, Rescued, StopAtStart, Restart,
     Cancelled, Stopped, Places, InRound, Statuses, ActiveStates, FinalStates,
     ContinuableStates
<1>9. CASE CommitRaises \/ ClaimSkipsLocked(InFlight)
  <2>1. CopiesFollow /\ UnlinkedBeforeCommit'
    BY <1>0, <1>9, LeaveFollows, GoToFollows
    DEF CommitRaises, ClaimSkipsLocked, Places, InRound
  <2> QED BY <1>9, <2>1, QuietKeeps DEF CommitRaises, ClaimSkipsLocked, storeVars
<1>10. CASE Claim \/ ContextChanged \/ Finish \/ Save \/ Requeue
  BY <1>0, <1>10, CommitsKeep
<1> QED BY <1>1, <1>2, <1>3, <1>4, <1>6, <1>8, <1>9, <1>10 DEF WorkStep, WorkerStep

LEMMA FaultKeeps ==
    ASSUME TypeInv, MediaInv, FaultStep
    PROVE  MediaInv'
<1>0. UNCHANGED call
  BY DEF FaultStep, apiVars
<1>1. CASE RecoverySkipped \/ Crash
  <2>1. CopiesFollow /\ UnlinkedBeforeCommit'
    BY <1>0, <1>1, LeaveFollows DEF RecoverySkipped, Crash
  <2> QED BY <1>1, <2>1, QuietKeeps DEF RecoverySkipped, Crash, storeVars
<1>2. CASE Raise
  <2>1. CopiesFollow /\ UnlinkedBeforeCommit'
    BY <1>0, <1>2, GoToFollows DEF Raise, Places, InRound
  <2> QED BY <1>2, <2>1, QuietKeeps DEF Raise, storeVars
<1> QED BY <1>1, <1>2 DEF FaultStep, WorkerFault

LEMMA TimerKeeps ==
    ASSUME TypeInv, MediaInv, NEW j \in Jobs, TimerStep(j)
    PROVE  MediaInv'
<1>1. /\ rows[j] # None /\ rows' = [rows EXCEPT ![j].due = TRUE]
      /\ UNCHANGED <<born, source, uploader, files, call, session, pc, verdict, mine>>
  BY DEF TimerStep, BackoffExpires, workerVars, apiVars, mine
<1>2. /\ rows[j] \in Row /\ \A k \in Jobs \ {j} : rows'[k] = rows[k]
      /\ rows'[j] = [rows[j] EXCEPT !.due = TRUE]
  BY <1>1 DEF TypeInv, TypeOK, StoreTypeOK
<1>3. /\ rows'[j] # None
      /\ rows'[j].media = rows[j].media /\ rows'[j].status = rows[j].status
  <2>1. rows'[j] \in Row
    BY <1>2 DEF Row
  <2> QED BY <1>2, <2>1, NoneIsNoRow DEF Row
<1>4. OnlyLets
  BY <1>1, <1>2, <1>3 DEF OnlyLets, MediaInv, PurgedWhenFinal, Ended
<1>5. CopiesFollow /\ UnlinkedBeforeCommit'
  BY <1>1 DEF CopiesFollow, MediaInv, UnlinkedBeforeCommit
<1> QED BY <1>1, <1>4, <1>5, MediaFrame

-----------------------------------------------------------------------------
\* MediaInv is inductive: no step of any process breaks a part of it.
LEMMA MediaStep == TypeInv /\ MediaInv /\ [Next]_vars => MediaInv'
<1>. SUFFICES ASSUME TypeInv, MediaInv, [Next]_vars
              PROVE  MediaInv'
  OBVIOUS
<1>1. CASE UNCHANGED vars
  <2>1. CopiesFollow /\ UnlinkedBeforeCommit'
    BY <1>1 DEF vars, storeVars, apiVars, workerVars, CopiesFollow, MediaInv,
       UnlinkedBeforeCommit, mine
  <2> QED BY <1>1, <2>1, QuietKeeps DEF vars, storeVars
<1> QED BY <1>1, ApiKeeps, WorkKeeps, FaultKeeps, TimerKeeps DEF Next

LEMMA MediaInit == Init => MediaInv
BY DEF Init, StoreInit, ApiInit, WorkerInit, NoRows, MediaInv, IdsAreFresh,
   UploadsAreOnce, CopiesLagBehind, UnlinkedBeforeCommit, PurgedWhenFinal, FileGoesFirst

\* README.md:63: however the handlers and the worker interleave, crash or fail,
\* the row of an ended job refers to no upload.
THEOREM EndedJobsHaveNoMedia == Spec => []PurgedWhenFinal
<1>1. MediaInv => PurgedWhenFinal
  BY DEF MediaInv
<1> QED BY TypeInit, TypeStep, MediaInit, MediaStep, <1>1, PTL DEF Spec

\* purge_job_media, cancel_job and delete_job unlink before they commit: an
\* upload whose row or path is gone is never left on the disk.
THEOREM UploadGoesBeforeItsRow == Spec => []FileGoesFirst
<1>1. MediaInv => FileGoesFirst
  BY DEF MediaInv
<1> QED BY TypeInit, TypeStep, MediaInit, MediaStep, <1>1, PTL DEF Spec

-----------------------------------------------------------------------------
\* The queue implements UploadCustody: every step of the API and of the worker is, as
\* the user sees it, a step in the life of one upload, or none.

\* What a step that creates nothing may do: take one upload from the disk, and
\* the references to it from the rows once it is off the disk.
LetsGo(f) ==
    /\ f = None \/ (f \in Files /\ uploader[f] # None)
    /\ files' \in {files, files \ {f}}
    /\ UNCHANGED <<born, uploader>>
    /\ \A k \in Jobs :
         \/ HoldSeen'[k] = HoldSeen[k]
         \/ HoldSeen[k] = f /\ HoldSeen'[k] = None /\ f \notin files'

LEMMA LetsGoIsDiscard ==
    ASSUME TypeInv, NEW f, LetsGo(f)
    PROVE  [Custody!Next]_Custody!vars
<1>1. files \subseteq Files
  BY DEF TypeInv, TypeOK, StoreTypeOK
<1>2. CASE f = None \/ f \in files'
  <2>1. files' = files
    BY <1>1, <1>2, StoreAssumption DEF LetsGo
  <2>2. UploadSeen' = UploadSeen
    BY <2>1 DEF UploadSeen, LetsGo
  <2>3. \A k \in Jobs : HoldSeen'[k] = HoldSeen[k]
    BY <1>2 DEF LetsGo
  <2>4. HoldSeen' = HoldSeen
    BY <2>3 DEF HoldSeen
  <2> QED BY <2>2, <2>4 DEF Custody!vars, LetsGo
<1>3. CASE f # None /\ f \notin files'
  <2>. DEFINE released == {k \in Jobs : HoldSeen[k] = f /\ HoldSeen'[k] = None}
  <2>1. f \in Files /\ uploader[f] # None
    BY <1>3 DEF LetsGo
  <2>2. \A g \in Files : uploader'[g] = uploader[g] /\ (g # f => (g \in files' <=> g \in files))
    BY DEF LetsGo
  <2>3. UploadSeen' = [UploadSeen EXCEPT ![f] = "gone"]
    BY <1>3, <2>1, <2>2 DEF UploadSeen
  <2>4. HoldSeen' = [k \in Jobs |-> IF k \in released THEN None ELSE HoldSeen[k]]
    <3>1. \A k \in Jobs : HoldSeen'[k] = IF k \in released THEN None ELSE HoldSeen[k]
      BY DEF LetsGo
    <3> HIDE DEF released
    <3> QED BY <3>1 DEF HoldSeen
  <2>5. UploadSeen[f] # "none"
    BY <2>1 DEF UploadSeen
  <2>6. released \subseteq {k \in Jobs : HoldSeen[k] = f}
    OBVIOUS
  <2> HIDE DEF released
  <2>7. Custody!Discard(f, released)
    BY <2>3, <2>4, <2>5, <2>6 DEF Custody!Discard, LetsGo
  <2>8. released \in SUBSET Jobs
    BY <2>6
  <2> QED BY <2>1, <2>7, <2>8 DEF Custody!Next
<1> QED BY <1>2, <1>3

\* What a copy of the row of a job refers to has been uploaded.
LEMMA CopyIsUploaded ==
    ASSUME MediaInv, NEW j \in Jobs, j \in born, NEW snap, NotAhead(snap, j),
           snap.media \in Files \cup {None}
    PROVE  snap.media = None \/ (snap.media \in Files /\ uploader[snap.media] # None)
BY DEF MediaInv, UploadsAreOnce, NotAhead

\* The commit of a copy over its row.
LEMMA CommitsRowLetsGo ==
    ASSUME TypeInv, MediaInv, NEW j \in Jobs, NEW snap \in Row, NotAhead(snap, j),
           CommitsRow(j, snap), UNCHANGED <<born, uploader>>
    PROVE  LetsGo(snap.media)
<1>1. PICK new \in Row, due \in BOOLEAN :
         /\ MayCommit(snap, new)
         /\ rows' = Saved(j, snap, new) \/ rows' = Rescheduled(j, snap, new, due)
         /\ new.media # snap.media => snap.media \notin files'
  BY DEF CommitsRow
<1>2. rows[j] # None
  BY DEF CommitsRow
<1>3. /\ \A k \in Jobs \ {j} : rows'[k] = rows[k]
      /\ rows'[j] # None
      /\ rows'[j].media \in {rows[j].media, None}
      /\ rows'[j].media # rows[j].media => new.media # snap.media
  BY <1>1, <1>2, CommitMedia
<1>4. j \in born
  BY <1>2 DEF MediaInv, IdsAreFresh
<1>5. snap.media = None \/ (snap.media \in Files /\ uploader[snap.media] # None)
  BY <1>4, CopyIsUploaded DEF Row
<1>6. NotAhead(rows[j], j)
  BY <1>2 DEF MediaInv, CopiesLagBehind
<1>7. rows'[j].media # rows[j].media =>
        rows[j].media = snap.media /\ rows'[j].media = None /\ snap.media \notin files'
  BY <1>1, <1>2, <1>3, <1>6 DEF NotAhead
<1>8. \A k \in Jobs :
         \/ HoldSeen'[k] = HoldSeen[k]
         \/ HoldSeen[k] = snap.media /\ HoldSeen'[k] = None /\ snap.media \notin files'
  BY <1>2, <1>3, <1>7 DEF HoldSeen
<1>9. files' \in {files, files \ {snap.media}}
  BY DEF CommitsRow
<1> QED BY <1>5, <1>8, <1>9 DEF LetsGo

\* A step that leaves the rows alone and unlinks at most one upload.
LEMMA UnlinkLetsGo ==
    ASSUME NEW f, f = None \/ (f \in Files /\ uploader[f] # None),
           UNCHANGED <<rows, born, uploader>>, files' \in {files, files \ {f}}
    PROVE  LetsGo(f)
BY DEF LetsGo, HoldSeen

LEMMA QuietIsStutter ==
    ASSUME UNCHANGED <<rows, born, uploader, files>>
    PROVE  UNCHANGED Custody!vars
BY DEF Custody!vars, UploadSeen, HoldSeen

-----------------------------------------------------------------------------
(* The steps of the API. *)

LEMMA UploadIsStore ==
    ASSUME TypeInv, MediaInv, NEW f \in Files, NEW acct \in Accounts, Upload(f, acct)
    PROVE  Custody!Store(f)
<1>1. /\ uploader[f] = None /\ files' = files \cup {f}
      /\ uploader' = [uploader EXCEPT ![f] = acct]
      /\ UNCHANGED <<rows, born>>
  BY DEF Upload
<1>2. \A g \in Files \ {f} : uploader'[g] = uploader[g] /\ (g \in files' <=> g \in files)
  BY <1>1 DEF TypeInv, TypeOK, StoreTypeOK
<1>3. uploader'[f] # None /\ f \in files'
  BY <1>1, StoreAssumption DEF TypeInv, TypeOK, StoreTypeOK
<1>4. UploadSeen[f] = "none" /\ UploadSeen' = [UploadSeen EXCEPT ![f] = "stored"]
  BY <1>1, <1>2, <1>3 DEF UploadSeen
<1>5. HoldSeen' = HoldSeen
  BY <1>1 DEF HoldSeen
<1> QED BY <1>1, <1>4, <1>5 DEF Custody!Store

LEMMA CreateIsTake ==
    ASSUME TypeInv, MediaInv, NEW c \in Clients, Create(c)
    PROVE  Custody!Next
<1>. DEFINE j == call[c].job
            media == call[c].snap.media
            new == NewRow(call[c].snap.acct, media)
<1>1. call[c] # None /\ call[c].op = "create" /\ j \in Jobs
  BY CallType DEF Create, Serving
<1>2. /\ rows' = [rows EXCEPT ![j] = new]
      /\ born' = born \cup {j}
      /\ UNCHANGED <<uploader, files>>
  BY DEF Create, LockedWrite, NewRow
<1>3. j \notin born /\ rows[j] = None
  BY <1>1 DEF MediaInv, IdsAreFresh
<1>4. media \in Files \cup {None} /\ (media # None => uploader[media] # None)
  BY <1>1, CallType DEF MediaInv, UploadsAreOnce, Row
<1>5. new # None /\ new.media = media
  <2>1. new \in Row
    BY <1>1, CallType DEF NewRow, Row, Statuses, ActiveStates
  <2> QED BY <2>1, NoneIsNoRow DEF NewRow
<1> HIDE DEF new, j, media
<1>6. rows'[j] = new /\ \A k \in Jobs \ {j} : rows'[k] = rows[k]
  BY <1>1, <1>2 DEF TypeInv, TypeOK, StoreTypeOK
<1>7. HoldSeen' = [HoldSeen EXCEPT ![j] = media]
  BY <1>1, <1>5, <1>6 DEF HoldSeen
<1>8. UploadSeen' = UploadSeen /\ (media # None => UploadSeen[media] # "none")
  BY <1>2, <1>4 DEF UploadSeen
<1>9. Custody!Take(j, media)
  BY <1>2, <1>3, <1>7, <1>8 DEF Custody!Take
<1> QED BY <1>1, <1>4, <1>9 DEF Custody!Next

\* A request refers to what was uploaded, whether it is about to create a job
\* with it or has read it in a row.
LEMMA CallIsUploaded ==
    ASSUME TypeInv, MediaInv, NEW c \in Clients, call[c] # None
    PROVE  LET f == call[c].snap.media
           IN  f = None \/ (f \in Files /\ uploader[f] # None)
<1>1. call[c].snap.media \in Files \cup {None} /\ call[c].job \in Jobs
  BY CallType DEF Row
<1>2. CASE call[c].op = "create"
  BY <1>1, <1>2 DEF MediaInv, UploadsAreOnce
<1>3. CASE call[c].op # "create"
  BY <1>1, <1>3, CopyIsUploaded DEF MediaInv, IdsAreFresh, CopiesLagBehind
<1> QED BY <1>2, <1>3

LEMMA HandleImplements ==
    ASSUME TypeInv, MediaInv, NEW c \in Clients, Handle(c) \/ ApiDies(c)
    PROVE  [Custody!Next]_Custody!vars
<1>. DEFINE j == call[c].job
            f == call[c].snap.media
<1>1. CASE Create(c)
  BY <1>1, CreateIsTake
<1>2. CASE Committing(c)
  <2>1. /\ call[c] # None /\ call[c].op # "create"
        /\ UNCHANGED <<born, uploader>>
        /\ CommitsRow(j, call[c].snap)
    BY <1>2, HandlerCommits
  <2>2. j \in Jobs /\ call[c].snap \in Row /\ NotAhead(call[c].snap, j)
    BY <2>1, CallType DEF MediaInv, CopiesLagBehind
  <2>3. LetsGo(f)
    BY <2>1, <2>2, CommitsRowLetsGo
  <2> QED BY <2>3, LetsGoIsDiscard
<1>3. CASE Delete(c)
  <2>1. /\ rows' = [rows EXCEPT ![j] = None]
        /\ call[c] # None /\ call[c].op # "create"
        /\ UNCHANGED <<born, uploader>>
        /\ files' = files \ {f}
    BY <1>3 DEF Delete, Serving, UnlockedWrite
  <2>2. j \in Jobs /\ NotAhead(call[c].snap, j)
    BY <2>1, CallType DEF MediaInv, CopiesLagBehind
  <2>3. f = None \/ (f \in Files /\ uploader[f] # None)
    BY <2>1, CallIsUploaded
  <2>4. rows[j] # None /\ rows[j].media # None => rows[j].media = f
    BY <2>1, <2>2 DEF MediaInv, CopiesLagBehind, NotAhead
  <2>5. rows'[j] = None /\ \A k \in Jobs \ {j} : rows'[k] = rows[k]
    BY <2>1, <2>2 DEF TypeInv, TypeOK, StoreTypeOK
  <2> HIDE DEF j, f
  <2>6. \A k \in Jobs :
         \/ HoldSeen'[k] = HoldSeen[k]
         \/ HoldSeen[k] = f /\ HoldSeen'[k] = None /\ f \notin files'
    BY <2>1, <2>4, <2>5 DEF HoldSeen
  <2>7. LetsGo(f)
    BY <2>1, <2>3, <2>6 DEF LetsGo
  <2> QED BY <2>7, LetsGoIsDiscard
<1>4. CASE LockCapacity(c)
  BY <1>4, QuietIsStutter DEF LockCapacity, storeVars
<1>5. CASE QueueFull(c) \/ CommitFails(c) \/ ApiDies(c)
  <2>1. /\ call[c] # None
        /\ UNCHANGED <<rows, born, uploader>>
        /\ files' \in {files, files \ {f}}
    BY <1>5 DEF QueueFull, CommitFails, ApiDies, Admits, Serving
  <2>2. LetsGo(f)
    BY <2>1, CallIsUploaded, UnlinkLetsGo
  <2> QED BY <2>2, LetsGoIsDiscard
<1> QED BY <1>1, <1>2, <1>3, <1>4, <1>5 DEF Handle, Committing

LEMMA ApiImplements ==
    ASSUME TypeInv, MediaInv, ApiStep
    PROVE  [Custody!Next]_Custody!vars
<1>1. ASSUME NEW f \in Files, NEW acct \in Accounts, Upload(f, acct)
      PROVE  Custody!Next
  BY <1>1, UploadIsStore DEF Custody!Next
<1>2. ASSUME NEW c \in Clients, Receive(c)
      PROVE  UNCHANGED Custody!vars
  BY <1>2, QuietIsStutter
  DEF Receive, ReceiveOn, ReadStop, ReadResume, ReadContinue, ReadCancel, ReadDelete,
      ReadDeleteMedia, ReadClue, ReadCreate, Read, storeVars
<1> QED BY <1>1, <1>2, HandleImplements DEF ApiStep, ApiNext

-----------------------------------------------------------------------------
(* The steps of the worker. *)

LEMMA WorkImplements ==
    ASSUME TypeInv, MediaInv, WorkStep
    PROVE  [Custody!Next]_Custody!vars
<1>1. CASE UNCHANGED <<rows, born, uploader, files>>
  BY <1>1, QuietIsStutter
<1>2. CASE Recover
  <2>1. \A j \in Jobs : HoldSeen'[j] = HoldSeen[j]
    BY <1>2, RecoverWrites DEF HoldSeen
  <2>2. HoldSeen' = HoldSeen
    BY <2>1 DEF HoldSeen
  <2>3. UNCHANGED <<UploadSeen, born>>
    BY <1>2 DEF UploadSeen, Recover
  <2> QED BY <2>2, <2>3 DEF Custody!vars
<1>3. CASE Claim \/ ContextChanged \/ Finish \/ Save \/ Requeue
  <2>1. /\ UNCHANGED <<born, source, uploader, files>>
        /\ pc \in InRound \cup {"claim"}
        /\ rows' = rows \/ CommitsRow(job, mine)
    BY <1>3, WorkerCommits
  <2>2. CASE rows' = rows
    BY <1>1, <2>1, <2>2
  <2>3. CASE CommitsRow(job, mine)
    <3>1. LetsGo(mine.media)
      BY <2>1, <2>3, MineMedia, CommitsRowLetsGo
    <3> QED BY <3>1, LetsGoIsDiscard
  <2> QED BY <2>1, <2>2, <2>3
<1>4. CASE pc \in InRound /\ \E status : Conclude(status)
  <2>1. /\ UNCHANGED <<rows, born, uploader>>
        /\ files' \in {files, files \ {mine.media}}
    BY <1>4 DEF Conclude
  <2>2. job \in Jobs /\ mine \in Row /\ NotAhead(mine, job)
    BY <1>4, MineMedia
  <2>3. job \in born
    BY <1>4, <2>2 DEF TypeInv, RoundHasJob, MediaInv, IdsAreFresh
  <2>4. mine.media \in Files \cup {None}
    BY <2>2 DEF Row
  <2>5. LetsGo(mine.media)
    BY <2>1, <2>2, <2>3, <2>4, CopyIsUploaded, UnlinkLetsGo
  <2> QED BY <2>5, LetsGoIsDiscard
<1> QED BY <1>1, <1>2, <1>3, <1>4
    DEF WorkStep, WorkerStep, RecoverRead, Select, ClaimSkipsLocked, Refresh, StopAtStart,
        Analyse, Reload, NoVision, NoContext, StartResearch, Publish, Cancelled, Stopped,
        CommitRaises, Rescue, Rescued, Restart, storeVars, InRound

LEMMA CustodyStep ==
    TypeInv /\ MediaInv /\ [Next]_vars => [Custody!Next]_Custody!vars
<1>. SUFFICES ASSUME TypeInv, MediaInv, [Next]_vars
              PROVE  [Custody!Next]_Custody!vars
  OBVIOUS
<1>1. CASE FaultStep
  BY <1>1, QuietIsStutter DEF FaultStep, WorkerFault, RecoverySkipped, Raise, Crash, storeVars
<1>2. ASSUME NEW j \in Jobs, TimerStep(j)
      PROVE  UNCHANGED Custody!vars
  <2>1. /\ rows[j] # None /\ rows' = [rows EXCEPT ![j].due = TRUE]
        /\ UNCHANGED <<born, uploader, files>>
    BY <1>2 DEF TimerStep, BackoffExpires
  <2>2. rows[j] \in Row /\ rows'[j] = [rows[j] EXCEPT !.due = TRUE]
    BY <2>1 DEF TypeInv, TypeOK, StoreTypeOK
  <2>3. rows'[j] # None /\ rows'[j].media = rows[j].media
    <3>1. rows'[j] \in Row
      BY <2>2 DEF Row
    <3> QED BY <2>2, <3>1, NoneIsNoRow DEF Row
  <2>4. \A k \in Jobs \ {j} : rows'[k] = rows[k]
    BY <2>1 DEF TypeInv, TypeOK, StoreTypeOK
  <2>5. HoldSeen' = HoldSeen
    BY <2>1, <2>3, <2>4 DEF HoldSeen
  <2> QED BY <2>1, <2>5 DEF Custody!vars, UploadSeen
<1>3. CASE UNCHANGED vars
  BY <1>3, QuietIsStutter DEF vars, storeVars
<1> QED BY <1>1, <1>2, <1>3, ApiImplements, WorkImplements DEF Next

\* README.md:59-69: seen as the life of uploads, the rows and the disk behave as
\* UploadCustody says, whatever the handlers and the worker do to one another.
THEOREM QueueKeepsCustody == Spec => KeepsCustody
<1>1. Init => Custody!Init
  BY DEF Init, StoreInit, Custody!Init, UploadSeen, HoldSeen
<1>2. TypeInv /\ MediaInv /\ [Next]_vars => [Custody!Next]_Custody!vars
  BY CustodyStep
<1> QED BY TypeInit, TypeStep, MediaInit, MediaStep, <1>1, <1>2, PTL
        DEF Spec, KeepsCustody, Custody!Spec
=============================================================================
