# HAI_SERCH: specifications, model checking and proofs

HAI_SERCH ("deep search") lets a user hand a text, an image or a video to a
server, which then searches the web for it in rounds, over up to two days if
need be. A FastAPI process serves the devices of an account; one worker process
takes the jobs from a queue kept in PostgreSQL and runs one round of research at
a time; both share the directory of uploads. This directory holds a TLA+ model of
that system, the TLC runs that check it and the TLAPS proofs about it.

Sources are named relative to `src/`; `app/` below is `src/backend/app/`.

## 1. The system

| Component | State it keeps | Operations | Interacts with |
|---|---|---|---|
| Job store and queue order (`models.py`, `database.py`, `queue.py`) | rows of `jobs` (status, stop flag, path of the upload, next run, attempts, context), their order by `created_at` | the commit of a session, choice of the head of an account's queue | both processes, through one SQLAlchemy session per request or round |
| Job API (`main.py`, `server.py`) | the requests being served, each with the row it has read | upload, create, stop, resume, continue, cancel, delete, delete media, clue | writes rows and files; takes `CREATE_LOCK_KEY` to admit a job |
| Worker (`runtime.py`, `worker.py`, `queue.py`, `maintenance.py`) | the job of the round, its copy of the row, what the round found | recover, claim, analyse, research, publish, requeue, fail, the `except` path | writes rows and files; restarted by Docker |
| Push notifications (`notifications.py`, `runtime.py`) | a delivery per job and device, the pending flag | send after completion, retry every 30 s | reads jobs and devices, calls FCM |
| Upload storage and cleanup (`media.py`, `maintenance.py`) | the files of an account, their age | quota check, deletion, cleanup after the TTL | deletes what no row refers to |
| Media analysis (`media.py`) | an analysis cache per file | OCR, vision, speech, hashes | called by the worker |
| Planner, budget, research (`planner.py`, `budget.py`, `research.py`) | search cache, failure times of engines | plan queries, search, verify pages | called by the worker, uses the egress router |
| Result ranking (`worker.py`) | results of a job | merge, annotate, order, rank | called by the worker |
| Accounts, devices, pairing (`auth.py`) | devices, pair codes | register, pair, revoke | every request |
| Egress router (`egress.py`) | per exit and host: failures, breaker, preference | route, retry over another exit, follow redirects | research, image proxy |
| Realtime updates (`server.py`) | last fingerprint per socket | send the snapshot when it has changed | the client |
| Client (`app/lib/*.dart`) | the list on the screen, the local archive | refresh on events and by polling, archive | the API |
| Deployment (`docker-compose*.yml`, `scripts/`) | | restart policy, networks | |

### What is hard here

Handlers and worker never lock the row they decide on. Each reads it, decides,
and some time later sends an `UPDATE` of the columns it changed. With
`autoflush=False`, `expire_on_commit=False` (`database.py:12`) and READ COMMITTED,
everything that another session committed in between is neither seen nor
reported. The worker's rounds last for minutes; the API can commit anything
meanwhile. Deleted files do not come back when a transaction is rolled back. A
row can disappear under a session, whose commit then raises. The worker can be
killed at every step. `PROJECT.json` lists the hazards at their lines with the
properties that catch them; the correctness properties are in section 4.

## 2. The plan

In this order, the most important behaviour first. Items 1 to 9 exist.

1. `JobStore`: rows, order and files, and what a commit does to them.
2. `JobApi`: the handlers over it.
3. `JobWorker`: the worker over it.
4. `JobQueue`: their composition, its properties; `JobQueueProofs`,
   `JobMediaProofs`, `JobCapacityProofs`.
5. `UploadCustody`: the abstract life of an upload (stored once, given to a job at
   its creation, then gone, never back), which `JobQueue` implements under a
   refinement mapping; also in `JobMediaProofs`.
6. `PushDelivery`: completion cycles, deliveries per device, retries, crashes
   between send and commit, tokens that move; promise: every registered device is
   told of every completion, and one that was told is not told again.
   `PushProofs`.
7. `UploadStorage`: quota check and cleanup against concurrent uploads and
   creations, and the analysis that lies beside an upload; promise: the cleanup deletes
   nothing that a job refers to. `StorageProofs`.
8. `ResultRanking`: merging of evidence, diverse order and ranks over the rounds of a
   job, with clues that reset the ranks at any point. `RankingProofs`, over
   `FoldLemmas`.
9. `EgressRouter`: breaker, sticky exits and redirects under concurrent requests, and
   `Research`, the round that makes these requests. `ResearchProofs`,
   also over `FoldLemmas`.
10. `Pairing` and `ClientSync`: planned and given up, for the reasons in section 7.

Every invariant and action property of the passing runs has its theorem; the four
liveness properties stay with TLC (section 6).

## 3. The modules

### JobStore

`rows[j]` is the committed row of job `j` or `None`; a row has the account, the
path of its upload, `status`, `stop_requested`, whether `next_run_at` is past
(`due`), `attempts` and the set of clues. `context_text` and `context_revision` are
always written together, so the revision is the number of clues in the text.
`ahead[j]` is the set of rows created before `j`, which is all the code uses
`created_at` for. `source[j]` is the upload the job was created with and gives its
`input_type`; `files` is what is on the disk.

`Flush(row, snap, new)` is the heart of the model: what a commit makes of the
current row when the session had loaded `snap` and now holds `new`. A column is
written only if `new` differs from `snap`, and then whatever the row says now.
`next_run_at` is the exception (`Rescheduled`): it is set to the current time, so
it always differs. `LockedWrite` and `UnlockedWrite` tell commits under
`CREATE_LOCK_KEY` from the others; they only differ in the history variable
`revived`, the jobs that became active without the lock.

`IsHead` and `IsCandidate` are `_first_runnable_account_head`.

### JobApi

`call[c]` is the request that thread `c` serves. A handler is split where another
process can act: the SELECT with the early returns it decides (`ReadStop`, ...), the
lock and count for the three that admit a job (`LockCapacity`, `QueueFull`), and
the commit (`Stop`, `Resume`, `Continue`, `Cancel`, `Delete`, `DeleteMedia`, `Clue`,
`ClueReopens`, `Create`). A commit about a row that has been deleted meanwhile
fails (`CommitFails`), except that of a `DELETE`; a handler can die before its commit
(`ApiDies`). Files are unlinked at once and stay unlinked in both cases. The file
and the row change in one step only where the unlink directly precedes the commit
of the same handler; the crash between the two is `ApiDies`.

A request that is refused at its first SELECT changes nothing and is left out, as
are the reads. `delete_job` may read a job that starts running afterwards, `/resume`
one that is cancelled afterwards and so on: this is what the split is for.

### JobWorker

`pc` follows `runtime.main` and `process_one`; every place is a point between two
transactions or around one long computation.

| Places | Code |
|---|---|
| `down`, `boot`, `recover` | process dead; `recover_interrupted_jobs`, its SELECT and its commit |
| `idle`, `claim`, `refresh` | `claim_next_job`: the snapshot, the locking SELECT and commit, `db.refresh` |
| `start`, `analysed` | the first stop check, `media_features`, the reload after it |
| `checked`, `research` | the checks after the reload, planner and research, the second reload |
| `outcome` | the checks after the second reload, merge and ranking, the decision |
| `commit` | the commit of `finish_job` or of the purge; the file is already unlinked |
| `save`, `requeue` | the two commits of the retry path |
| `rescue`, `rescued` | the `except` block: rollback and reload, the decision |

`session[j]` is the worker session's copy of row `j`. The locking SELECT of
`claim_next_job` does not refresh it, because the object is in the identity map
already; `_reload_job` does (`populate_existing`). `CommitRaises` is the commit of a
row that is gone: in the `try` it leads to the `except` block, in the `except` block
or in `db.refresh` it ends the process. `Crash` kills the process anywhere,
`RecoverySkipped` is the start-up that `runtime.main` lets pass without recovery.

The analysis either yields a description or not, the research may raise, and the
result count is enough or not: free choices, so the model has more behaviours than
a run with a warm analysis cache. With `vision_enabled` a media job without
description never reaches `needs_context`; the run with `VisionEnabled = FALSE` is
there for that branch.

### JobQueue

The composition. Worker and API interleave step by step. `InFlight` are the rows a
request may be committing, which is all `skip_locked` can skip. `putBack` is history: a
request has moved the job that the worker chose behind another one since the worker
looked (`ApiMeanwhile`).

### UploadCustody

What the user is promised about an upload, without rows, requests or processes. The
mapping in `JobQueue` (`UploadSeen`, `HoldSeen`): an upload is "stored" while the file
is on the disk and "gone" once it was there and no longer is; a job holds what its
row refers to. A stale write that brought back a path, a path that is cleared while
the file stays, an identifier or a file used twice: each is a step `UploadCustody` does
not have.

### PushDelivery

A component of its own, because the queue reads nothing of it: the core runs with
notifications off, and here a job is only its status and `notification_pending`
(`row`). What other handlers do to a job is kept as far as it moves these two or
`updated_at`: `ReadCall` and `CommitCall` are stop, resume, continue, cancel and clue,
again with a SELECT and a later commit of the changed columns. A round is `Claim`,
`Reload`, and one of `Abandon`, `EndRound`, `FinishJob`.

`delivery[j][d]` is the row of `notification_deliveries`. `updated_at` is only ever
compared: `stale[j]` are the deliveries older than their job, and `older[j]` the jobs
older than `j`. `Write` and `Commit` apply the `onupdate` of both tables, so that what
is written becomes the newest; rows of one commit keep an order among themselves.

The worker `w` walks through `send_job_pushes`: `SelectDevices`, `OpenDeliveries` (its
first commit), `Login`, one step per FCM request (`PostSent`, `PostUnregistered`,
`PostFails`), `MarkDeliveries` (its second commit and result). Its caller is
`finish_job` or the retry (`SelectPending`, `NextPending`, `Handled`, `Close`), which keeps
one session for up to `Batch` jobs. `w.token`, `w.state` and `w.old` are the session's
copies, `w.dirty` and `w.handled` what its next commit writes. The commit raises when a
row it writes is gone; in the retry nothing works in that session any more
(`Raised`). FCM is external: it delivers to the tokens in `live`, answers UNREGISTERED
for the others, and rejects those in `Refused` otherwise.

Three history variables: `told[j]`, the devices with a committed `sent` for this
completion; `owed[j]`, those it still has to settle; `touched`, the jobs a request has
written since the worker's last reload.

### ResultRanking

The results of one job. `rows[u]` is the row of the URL `u`, `order` the order of the ids.
A round walks through `Begin`, `Reload`, `Load` (the SELECT of the results and the merge of
the candidates), `FlushRows` (`db.flush()`), `Rank` (the query for the credible results,
`DiverseOrder`, `Sources`, the ranks) and `Commit`; `Abandon` is every other end. The
session's copies are `w.seen` (loaded), `w.mine` (flushed) and `w.final`; only columns that
differ are sent (`Update`). `Rank` takes the credible results as any sequence of them
that is sorted as the query sorts (`BestFirst`); there is exactly one.

Unlike the rest of the system, this part keeps a transaction open across several
statements, so the locks of PostgreSQL are in the model: an UPDATE waits for whoever
has written the row (`HeldByWorker`, `HeldByClues`), and the UPDATE of a clue (`ResetRanks`)
reaches the rows that are committed when it begins, not those the worker is
inserting. A deadlock ends in `ClueFails` or `Abandon`.

`SameWork` is `_same_work_title` as a relation between URLs, reflexive and symmetric and
not assumed transitive, since the code compares overlaps of words. `Kinds` are the
candidates the research may find: a score, a strength of evidence (the tuple of
`_evidence_quality` as a number) and whether there is an image. Tokens of image links
are numbered by the round that made them.

History variables: `verified`, the URLs found since the last clue; `raced`, the last
commit of a round or clue overlapped with one of the other kind; `late`, some commit did.

### UploadStorage

The directory of an account and everyone who writes in it. `disk[f]` is the file `f`:
being uploaded (`open`), stored, left behind by an upload that died with the API, or
gone. `row[j]` is `input_url` of job `j` and nothing else, for the life of a job is
`JobQueue`'s. `size` and the two limits are in chunks; `room[f]` is `free_bytes`, which an
upload looks at once, before its first chunk.

`at[p]` is where a request or the worker is. `create_job` is `ResolveUpload` and, after the
lock, `CommitJob` or `RefuseJob` (429, which deletes the upload). `delete_uploaded_media`
takes its three unlinks one by one (`DropCache`, `DropFile`, `DropFolder`), in whichever
process calls it: they run in a thread of the API while the worker is at work. The
worker analyses (`Analyse`, `KeepAnalysis`, which writes only if the folder is still
there), ends or pauses the round, and between two rounds cleans up: `Scan` reads the
paths of the rows and the clock, `SweepFile` and `SweepCache` go through what was found
then, `EndSweep` removes the folder. `old` are the files that no one has written for a TTL.

History variables: `crowd`, the files whose upload overlapped with another; `swept`,
what the cleanup has removed; `late`, the jobs whose request was under way while the
cleanup read or swept; `astray`, the files whose removal met their analysis or a crash.

### EgressRouter

`req[c]` is one call of `get` or `get_bytes`; it takes a step wherever the code awaits, and
everything between two awaits is one step, as in asyncio. `RoutesFor` is `_routes`: sticky
exit first, blocked ones out unless all are. `Begin` checks the target and picks the
exits; `Lookup` is the answer of `public_web_target`, which the code keeps in
`_safe_targets`; then `Succeed`, `Deny`, `DenyLegally` (451), `BreakOff`, `Redirect` or
`Fail`. `Fail` counts against the exit the request is on and goes on to the next one
of the list made at the beginning. `cool[r]` is what is left of `_blocked_until`, in
units of 5 seconds, and `Cool` lets them pass. `Reliable` are exits that carry everything:
the environment of the properties, not of the code.

### Research

`run_research` with the router of the round below it. `Search` is one query: the batches it
brings are merged into `found` up to the limit. `EndSearch` takes the preliminary
candidates (`Distinct` is the `add` of `_preliminary_candidates`: each URL once, at its first
place), and `Start` hands their images, then their pages, to the router in the order
of the semaphore; `EndImages` and `EndPages` follow the two `gather`s. Relevance has two
grades, an image is near the references or is not, and it can be so alike that it
outweighs the text (`alike` in `EndImages`, among the near ones and among the others).
`Among(s, keep)` is a comprehension with a condition: the elements of `s` in `keep`, in order. What the caches hold is a free choice when the
fetches begin.

## 4. Properties and runs

| Run | Instance | Properties |
|---|---|---|
| `queue_races` | 2 jobs, 1 upload, capacity 1, 2 concurrent requests, 1 crash | `TypeOK`, `RunningIsOwned`, `PurgedWhenFinal`, `FileGoesFirst`, `CapacityHeldByLock` |
| `queue_shared_upload` | 2 jobs, 1 upload, vision off, 2 requests, 1 crash, 1 skipped recovery | `RunningIsOwned`, `PurgedWhenFinal`, `KeepsCustody`, `FifoClaims` |
| `queue_drains` | 2 accounts, 2 jobs, 1 request, 2 attempts, 1 crash | `QueueDrains` |
| `push` | 2 jobs in one retry, 2 devices, 1 request of any kind, 1 failure, 1 crash | `TypeOK`, `NoOneForgotten`, `NotToldAgain`, `EveryoneSettled` |
| `ranking` | 4 pages of 2 sites, 2 about one work, 2 rounds, 1 clue | `TypeOK`, `CountIsShown`, `ShownIsVerified`, `ShownIsDiverse`, `EvidenceStays` |
| `upload_storage` | 2 files, 1 job, 1 client, a quota of 2 chunks, 1 crash | `TypeOK`, `QuotaHeld`, `CleanupSparesJobs`, `AnalysisGoesWithUpload`, `OrphansGo` |
| `research` | 6 pages on 2 hosts, direct and one proxy, 2 fetches at a time, 1 redirect | `TypeOK`, `BlockedByFailures`, `WorkingExitIsFound`, `WithinBudget`, `SentOnlyToAllowed`, `StickyMoves`, `VisualReserve`, `RoundEnds` |

- `RunningIsOwned`: a row is `running` only while the worker is in a round on it or
  is about to recover it, and at most one row is. No order of stop, resume,
  cancel, clue, delete and crash leaves a row running that nobody runs. It excepts
  start-ups whose recovery failed, as `runtime.py:55-57` does.
- `PurgedWhenFinal`: the row of an ended job never refers to an upload, although a
  stale request may still be about to write it.
- `FileGoesFirst`: when a row or its path is gone, so is the file. This fails if the
  commit ever precedes the unlink. I/O errors of `unlink` itself, which
  `delete_uploaded_media` swallows, are not modelled.
- `KeepsCustody`: `JobQueue` implements `UploadCustody`. Two jobs may have been created
  with one upload, so this also says that what one of them does to the file never
  gives the other a new reference.
- `CapacityHeldByLock`: the exact reach of the advisory lock: not counting jobs that
  a stale write made active again, an account has at most `MaxActive` active jobs.
- `FifoClaims`: the claim decides on a snapshot, and still no job starts before an
  unfinished older one of its account, except one that a stale write brought back. The
  other exception is a job that loses its place after the snapshot: two `/continue` read
  it, one reopens it, the worker chooses it, the second puts it behind another job of the
  account, and the claim starts it all the same.
- `QueueDrains` (liveness): when users leave the queue alone, every waiting job ends
  unless a job ahead of it in its account, or it itself, is stopped or has a stop
  pending. It fails if a stopped account can hold up another one, if a crash or a
  deleted row can lose a job, or if retries do not end.

- `NoOneForgotten`: as long as a device that the completion found has no answer, the
  job's flag is set, so that a retry will come. It fails if a login failure, a
  commit that raises or another job of the batch lets the flag be cleared, or if an
  answer of an earlier completion passes for one of this.
- `NotToldAgain`: the other direction: no second push to a device whose `sent` is
  committed, unless a request has written the job since the last reload. It
  fails if a delivery can look older than the completion it belongs to. A push that
  FCM accepted and whose commit was lost is repeated; no document promises
  otherwise, and the property speaks of committed deliveries only.
- `EveryoneSettled` (liveness): through crashes and an outage, every device is told or
  found unregistered, unless the job is reopened or goes, or the device changes its
  token.

- `CountIsShown`: the number a device shows for a job is the number of results it
  lists, ranked without gaps. It fails if a round leaves old ranks behind. After a
  commit that overlapped with a clue it does not hold, until the next round or clue.
- `ShownIsVerified`: after a clue nothing keeps a score before a round has found it
  again with the new context. The exception is permanent (`late`): a score of the old
  context that was written over a clue is never checked again.
- `ShownIsDiverse`: no two results of one work, and every credible work is shown while
  there is room. The result that waited because of its domain is the hard case.
- `EvidenceStays`: evidence never gets weaker and a given image link stays good, in all
  interleavings.

- `QuotaHeld`: what an account has stored beyond its quota is owed to uploads that
  overlapped. One upload at a time keeps the quota to the byte, whatever was deleted,
  swept or left behind meanwhile. It fails if the check is one chunk late.
- `CleanupSparesJobs`: no job whose creation the cleanup could see loses its upload.
  The exception is real: `create_job` looks at the file, and by the time it commits, a
  cleanup that read the rows before may delete it. It needs an upload that was left for a
  TTL and is then used in that very moment.
- `AnalysisGoesWithUpload`: no analysis outlives its upload, unless the worker was writing it
  while the upload was removed or a crash came between the unlinks. It fails if
  the order of the unlinks or the test of the folder changes.
- `OrphansGo` (liveness): an upload without a job is gone some day, or a job takes it.
  It fails if a left-behind half of an upload escapes the cleanup.

- `BlockedByFailures`: an exit is blocked for no longer than its failures since the last
  success allow, in whatever order the requests that are under way fail and succeed.
- `WorkingExitIsFound`: a caller sees a transport failure only if the mode has no exit that
  carries every request (`Reliable`). It fails if a blocked exit, a sticky one, or the
  failures of other requests can keep a request from such an exit. Of exits that work now
  and then it says nothing.
- `SentOnlyToAllowed`: a request leaves only for a target whose latest lookup has allowed
  it, redirects and second exits included, though the lookups of several requests for one
  target overlap.
- `StickyMoves`: a host leaves its exit only by a request that first tried that exit, found
  it blocked, or was routed before it was the exit. A late success of an older request
  is the last of these.
- `WithinBudget`: the limits hold wherever in the three nested loops they are reached,
  and no URL is fetched twice.
- `VisualReserve`: candidates with an image keep their places beside those that only the
  text favours.
- `RoundEnds` (liveness): every round ends, also with redirects in a circle and no exit.

Five runs show where the code does not do what its documents say. Each checks one
property that states the quoted sentence; `PROJECT.json` has the quotation.

| Run | What happens |
|---|---|
| `claim_revalidates` | the check after the lock sees the snapshot again and starts a stopped job |
| `clues_accumulate` | two clues at once: one is lost |
| `held_only_by_pause` | a stop during the last steps of a round: queued with `stop_requested` for ever |
| `push_starves` | a job FCM refuses for ever fills the retry's LIMIT: the next is never retried |
| `analysis_is_temporary` | an analysis that is written just after its upload was deleted stays for ever |

Other consequences of stale writes are behaviours of the model too, but have no run of
their own. Where they bear on a passing property, its exception names them:

- A stop that commits after the job ended makes it active again, without upload and
  outside the limit of active jobs (`revived` in `CapacityHeldByLock`).
- A second `/continue` of a reopened job commits late: a job that waits, or is about to be
  started, goes behind the others of its account (`putBack` in `FifoClaims`).
- A clue that commits after the last reload of a round is stored, but the round
  publishes results of the old context, and their scores stay (`late` in
  `ShownIsVerified`), although `server.py:122-124` says they are removed until verified
  again; the number of results and the list differ (`raced` in `CountIsShown`).
- A clue that commits after the completion makes a delivery look older than its job: the
  device is told again (`touched` in `NotToldAgain`).
- UNREGISTERED for a device's old token erases the new one that it registered while
  the request was under way (`Commit` sets it to NULL whatever it is by then).

### Bounds

`MaxCalls` bounds the requests about an existing job, `MaxCrashes` and `MaxSkips` the
faults; they stand in guards. Uploads, creations and clues are bounded by the sets
`Files`, `Jobs` and by `MaxCalls`. Every race of the code is between one writer that
has read and one or two that commit in between: two concurrent requests and the
worker make three sessions on one row. Two jobs are needed for order, capacity
and shared uploads; two accounts for their independence. `MaxAttempts = 2` gives a round
that is retried and a last one; with 1, as in `queue_races`, there are only last
ones. Jobs, accounts and clients are symmetric in the safety runs; the liveness runs
use no symmetry. `queue_drains` has one request and no upload, so what two requests at once do to each
other, and what becomes of files, is in the safety runs only (with an upload its state graph
is beyond what the run has time for). All safety properties of the queue are proved for every
instance. `FifoClaims` leans on that: a job that is put back takes two requests at once and
room for three active jobs, which `queue_shared_upload` with its single client does not
have. On such an instance (2 jobs, 2 clients, `MaxActive` = 3) TLC finds no violation
either; it is not among the runs because of its size.

For the pushes, a stale delivery needs a completion, a reopening and a second
completion, one request and one device that settles late. What jobs do to each other
in a batch needs two jobs, one lost row and one failure. `MaxFaults` bounds
the temporary failures: an outage of FCM ends. `Batch` is 20 in the code; 2 in `push`
takes both jobs into one session, 1 in `push_starves` makes the LIMIT reachable.

For the uploads, two files are an upload that overlaps with another, and an orphan
beside the file of a job; identifiers of jobs are reused, so one job gives any number of
creations, each against one request or the cleanup. A quota of two chunks can be
exhausted by one file or shared by two.

For a round of research, six pages, of which at most five become candidates and two are
read, reach every limit; two hosts share an exit and can redirect to each other, and one page has its
image on the other host. One query is enough for the two inner loops of the candidates; that
the budget also holds over several is `BudgetIsKept`, for any number of them. Two exits,
of which one always works, make the others' failures matter; the six failures
after which the cooldown stays the same are `MaxStreak`.

For the results, two rounds are a first one and one that merges; three pages of one
site, one of them about a work that the other site has too, are the least in which a
result waits for its domain and is overtaken. One clue is enough for an overlap: what
two clues do to each other is the core's `clues_accumulate`. The candidates of the
instance differ in what matters to a merge: one has the better score and an image,
the other the stronger evidence.

Where deadlock is not checked, the system may really stop: the worker idles when
nothing is due, a round of research is over, and the bounded environment ends.

### Fairness

`WF(WorkStep)`: `runtime.main` loops for ever and Docker restarts it
(`restart: unless-stopped`). `WF(HandleStep(c))`: an accepted request is served or
fails. `WF(TimerStep(j))`: time passes, so `next_run_at` comes. Nothing obliges
users to send requests, the research to succeed or to raise, or processes to crash.
`Raise` is a fault without fairness; the choice of the outcome is adversarial,
and attempts run out.

In `PushDelivery`, `WF(WorkStep)` is the same loop and restart, and `WF(Tick)` lets the 30
seconds between retries pass. A failing login or request is a step of the worker
like the successful one; that failures end is `MaxFaults`, not fairness. Refused tokens
stay refused, and `push_starves` needs no more than that.

In `UploadStorage` a request runs to its end and an upload to its answer; the worker gets on
with its round or cleanup. `Scan` has strong fairness: `runtime.main` asks for a cleanup
every quarter of an hour between two rounds, whether or not there is another job to
claim, so it is enabled again and again and may not be put off for ever. Nobody is obliged
to create a job. In `Research` the event loop goes on and every answer comes or times out.
The one wait that nothing in the code ends is a page that keeps sending: `get` reads the
whole body, the timeout of `httpx` is per read. `RoundEnds` holds for pages that end.

## 5. What is abstracted

- One database transaction is one step, except in `ResultRanking`; PostgreSQL is trusted to
  make it atomic.
- One worker process, as deployed; `QUEUE_LOCK_KEY` is then never contended.
- Notifications are off in the core, the default, and on in `PushDelivery`; the periodic
  cleanup is not part of the core but of `UploadStorage`.
- In `PushDelivery` the worker claims any queued job, `completed` stands for `partial` too
  and `failed` for `needs_context`; the order inside one batch is free. Timestamps do
  not tie: `updated_at` has microseconds.
- Texts, progress, results, errors and heartbeats, which no guard of the queue reads.
- Path checks (`_media_path`) are whether the file is there; a job is only ever
  created with an upload of its own account.
- In `PushDelivery`, `update_push_token` and the revocation of a device are one step each,
  though the code reads the device first: neither decides on more than that it exists.
- In `UploadStorage`, the directory of the account, which its users create on demand, the
  suffix of a file, and the probe of its content.
- In `EgressRouter`, URLs and ports (a target is a host), proxy profiles, bodies. In
  `Research`, texts and their scores, and the order of the verified results, which
  `ResultRanking` makes its own.

## 6. Proofs

Proved by TLAPS for every number of jobs, accounts, uploads, clients and for
every value of the bounds, from the named assumptions `StoreAssumption`,
`NoneIsNoRow`, `ApiAssumption` and `WorkerAssumption` (core), `PushBounds`,
`PushAssumption` and `PushNoneIsNoRow` (pushes), `StorageAssumption` (uploads),
`RankingAssumption` and `NoneAssumption` (ranking), `RouterAssumption` and
`ResearchAssumption` (research) only. `None` is never a row, uploads are finitely many, the
proxies are a sequence of names, a batch is a sequence of items:

| Module | Theorem | Statement |
|---|---|---|
| `JobQueueProofs` | `TypeCorrect` | `Spec => []TypeOK` |
| `JobQueueProofs` | `AtMostOneRunning` | `Spec => []RunningIsOwned` |
| `JobMediaProofs` | `EndedJobsHaveNoMedia` | `Spec => []PurgedWhenFinal` |
| `JobMediaProofs` | `UploadGoesBeforeItsRow` | `Spec => []FileGoesFirst` |
| `JobCapacityProofs` | `CapacityIsHeld` | `Spec => []CapacityHeldByLock` |
| `JobCapacityProofs` | `ClaimsAreFifo` | `Spec => FifoClaims` |
| `JobMediaProofs` | `QueueKeepsCustody` | `Spec => KeepsCustody`, that is `Custody!Spec` |
| `PushProofs` | `PushTypeCorrect` | `Spec => []TypeOK` of `PushDelivery` |
| `PushProofs` | `NoOneIsForgotten` | `Spec => []NoOneForgotten` |
| `PushProofs` | `NoOneIsToldAgain` | `Spec => NotToldAgain` |
| `StorageProofs` | `StorageTypeCorrect` | `Spec => []TypeOK` of `UploadStorage` |
| `StorageProofs` | `CleanupIsSafe` | `Spec => []CleanupSparesJobs` |
| `StorageProofs` | `AnalysisFollowsUpload` | `Spec => []AnalysisGoesWithUpload` |
| `StorageProofs` | `QuotaIsHeld` | `Spec => []QuotaHeld` |
| `RankingProofs` | `DiverseOrderIsDiverse` | what `DiverseOrder` returns, for every list |
| `RankingProofs` | `RankingTypeCorrect` | `Spec => []TypeOK` of `ResultRanking` |
| `RankingProofs` | `CountIsAlwaysShown` | `Spec => []CountIsShown` |
| `RankingProofs` | `ShownIsAlwaysVerified` | `Spec => []ShownIsVerified` |
| `RankingProofs` | `ShownIsAlwaysDiverse` | `Spec => []ShownIsDiverse` |
| `RankingProofs` | `EvidenceAlwaysStays` | `Spec => EvidenceStays` |
| `ResearchProofs` | `BreakerIsFair` | `Spec => []BlockedByFailures` of `Research` |
| `ResearchProofs` | `TargetsAreAllowed` | `Spec => SentOnlyToAllowed` |
| `ResearchProofs` | `WorkingExitIsAlwaysFound` | `Spec => []WorkingExitIsFound` |
| `ResearchProofs` | `StickyExitMoves` | `Mode # "vpn"` gives `Spec => StickyMoves` |
| `ResearchProofs` | `ResearchTypeCorrect` | `Spec => []TypeOK` |
| `ResearchProofs` | `BudgetIsKept` | `Spec => []WithinBudget` |
| `ResearchProofs` | `ReserveIsForImages` | `Spec => VisualReserve` |

`TypeOK` is inductive only with `RoundHasJob`: the worker has a row wherever it
uses one.

`RunningIsOwned` needs `RunningInv`: inside a round the worker's copy says
`running` whenever the row does, so that the write of the round's outcome changes
the status and is not dropped by `Flush`; and in recovery the snapshot holds every
running row.

`PurgedWhenFinal` and `FileGoesFirst` are proved together as `MediaInv`. Its core is
`CopiesLagBehind`: a copy, of whatever age, refers to the upload the job was created
with or to none, and if it refers to none then neither does the row. So no stale
commit can bring a path back, and whoever clears a path has unlinked the right
file. `IdsAreFresh` and `UploadsAreOnce` say that a deleted job's identifier and a
deleted file are never used again; `UnlinkedBeforeCommit` is the order inside
`finish_job`. `MediaFrame` reduces every step that creates nothing to three
conditions on rows, copies and files (`OnlyLets`, `CopiesFollow`, files only go).

`CapacityHeldByLock` needs `CapacityInv`: one request at most holds the lock (`OneLock`), and
from the count to its commit there is room (`RoomWhileLocked`), because whatever else
commits in between admits nothing that is not counted as revived (`NoneAdmitted`, which
is shown of every step without the lock). `AccountsAgree` is that a row and every copy of it
name one account, so that the room is in the right one; and the jobs there have been are
finitely many, or their number would mean nothing.

`FifoClaims` needs `SnapshotHolds`: while the worker is about to claim, whatever unfinished job
of the account is before the chosen one has been revived since the snapshot, or the job
was put back. What is admitted meanwhile goes to the end of the order.

`KeepsCustody` is a refinement under the mapping of section 3. `LetsGo(f)` is what a step
that creates nothing may do to an upload `f`, and `LetsGoIsDiscard` that this is a `Discard` of
`UploadCustody` or a stutter. Every handler and the worker meet it with the upload of
their own copy, which by `CopiesLagBehind` is that of the row or the row has none
(`CommitsRowLetsGo`).

`NoOneForgotten` is not inductive, because the flag is cleared by a session that read
the devices several commits ago. `PushInv` follows one job through that session:
`CopyIsFresh` (the round decides on the row as it is, unless a request wrote it, so the
flag is really set), `SettledIsStale` and `CopiesKnowStale` (an answer of an earlier
completion is recognised as such, in the table and in the copy of a session that has
yet to look), `AnswersAreDirty` (while the devices are asked, whoever is owed an answer
is pending or about to be committed) and `HandledIsSettled` (what is in `handled` owes
nobody anything). `CommitKeeps` is the lemma about the session's commit that all four
places share.

`NotToldAgain` needs the converse, `OnceInv`: while the flag waits, the `sent` of a device
that was told is on record and not stale (`ToldIsSettled`), so no session begins it
anew (`ToldIsNotOld`, `LeftIsUntold`). `LeftIsUntold` has one exception, a job deleted
between two SELECTs, whose deliveries seem to be missing; there the next commit
raises before anything is sent. That is why the deletion of the deliveries with their
job (`GoneHasNone`) is part of the argument.

`CleanupSparesJobs` speaks of what was swept; its invariant must speak of what will be.
`TodoIsSpared` says it of the files still on the list of the cleanup: a job that has one
of them came after the rows were read. `LockIsOvertaken` and `SweptIsOvertaken` say
that the request which is about to give it one knows so, while the cleanup runs and after
it; `SweptIsGone` that no request finds a swept file again.

`AnalysisGoesWithUpload` needs `KnownAreSettled` (handlers, worker and rows refer only to files
whose upload is over, so no name is reused) and, for the race of a deletion with an
analysis, `UnlinkedHasNone`: a file that is next to be unlinked has no analysis and will
get none, or the two have met (`astray`). `QuotaHeld` is about a sum; it is the cardinality of the
set of chunks, so that adding to it is adding an element. `QuotaInv` looks at the one upload that has met
no other: what the files outside `crowd` hold, and what is left of its room, fit into the quota.

`DiverseOrderIsDiverse` is about two folds. Its argument is that of the comment in
`_diverse_order`: the first pass leaves out a result only for a work that is there, for its
domain, or for want of room (`FirstPassIsDone`), and the second looks again at those that
waited (`FillIsDone`). The theorems about the table then share `StateInv`, one part per copy of
the state: `SessionInv` (what the worker has loaded is still there, and its merge weakens
nothing), `CurrentInv` and `CallInv` (what a session or a clue has read is still so, unless a
commit has touched it), `AddedInv` and `FinalInv` (what the commit will write). `CommitStep` is
where they meet: without a touch, the rows become the final ones, whose ranks are
places in a diverse order of exactly the credible results.

`BlockedByFailures` is inductive together with the types of the two maps (`BreakerInv`), by
cases on the exit and on whether the failure opens the breaker. `SentOnlyToAllowed` needs of
the requests only that those under way have a host and a target (`TargetInv`); the
lemmas follow the code (`VisitMaySend`, `NextRouteMaySend`, `AnswerSends`, `BeginSends`), and
each step moves one request (`OneRequest`).

`WorkingExitIsFound` speaks of requests that are over; `RouterInv` follows one on its way
(`OnItsWay`): a reliable exit is never blocked, so `RoutesFor` has it (`RoutesForKeeps`), and it is
at or after the exit under way, since a request gets past an exit only by a failure or a
451. `StickyMoves` is shown from the same invariant, except in the mode "vpn". The
attempt to prove it there found why: `_routes` returns before it looks at `_sticky`
(`egress.py:176-180`), so with two open proxies a host that answered through the second
goes back to the first, although `docs/VPN.md:94-95` has the exit that worked become the host's
sticky exit. With one proxy, as in the run, there is nothing to choose.

`WithinBudget` and `VisualReserve` are about sequences of candidates: the budget follows from
`FoundInv` through what each of `Add`, `Distinct`, `Among` and `First` keeps (no URL twice, no
element that was not there, no more than the limit). `ReserveIsKept` counts: of
the list with the best by text, then all those with an image, then the rest, the first
`2 * VerifyPages` distinct ones have `VerifyPages` with an image or all there are.

`FoldLemmas` is what these two modules rest on. The induction theorems of the library have
an operator for a parameter, which the provers cannot instantiate, but over the
indices of a sequence sets do: `NatSets` and `IndexInduction` state induction for a set,
`IndexRecursion` that a recursive function on the indices exists and what it is step by step
(for `FoldLeft` and for local functions), `Picks` and `Picked` what a selection returns.
What is proved there by recursion is about these functions, whose step is a function too.

The strengthenings were checked with TLC on the instances above before they were
proved.

Only model-checked: `QueueDrains`, `EveryoneSettled`, `OrphansGo` and `RoundEnds`, since
liveness under fairness is beyond the prover, and the five violations, each of which is a
behaviour of an instance.

## 7. Not modelled

- Accounts, devices and pairing (`auth.py`): each operation is one short transaction and
  touches no job or file. What devices do to the rest, their tokens and their revocation,
  is in `PushDelivery`. Two devices that present one pair code at once both get in
  (`auth.py:74`); both had the code.
- Realtime updates (`server.py`): the WebSocket loop reads rows and writes nothing; a client
  without a socket polls.
- The client (`app/lib/*.dart`): a user interface. Its requests are those of the clients in
  `JobApi`, `PushDelivery` and `UploadStorage`, in any order.
- `planner.py` (one call of a model, with a fallback), the scores and texts of `research.py`,
  and the computations of `media.py` on file contents: pure functions whose outcome the
  models choose freely.
- The image proxy, which routes like `get_bytes` and keeps nothing.
- Deployment: configuration, except that Docker restarts the worker.

## 8. Running

In this directory, with TLC and TLAPS installed and the community modules in TLC's path:

```
tlc -workers 2 -config QueueRaces.cfg MCJobQueue
tlc -workers 2 -config Push.cfg MCPushDelivery
tlc -workers 2 -config Ranking.cfg MCResultRanking
tlc -workers 2 -config UploadStorage.cfg MCUploadStorage
tlc -workers 2 -config Research.cfg MCResearch
tlapm JobQueueProofs.tla        # likewise the other modules ...Proofs, and FoldLemmas
```

The other configurations go with the module their prefix names: those of the queue with
`MCJobQueue` (also `ClaimRevalidates`, `CluesAccumulate`, `HeldOnlyByPause`), `PushStarves` with
`MCPushDelivery`, `AnalysisIsTemporary` with `MCUploadStorage`. `PROJECT.json` lists every run.
