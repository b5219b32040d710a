---------------------------- MODULE ResultRanking ----------------------------
(***************************************************************************)
(* The results of one job: how a round merges what it found into the table *)
(* (process_one in backend/app/worker.py), chooses and ranks what the user *)
(* is shown, and how a clue resets them meanwhile (add_job_clue in         *)
(* server.py).                                                             *)
(*                                                                         *)
(* The worker holds its transaction open from the flush of the merged rows *)
(* to the commit of the ranks, so here the locks of PostgreSQL matter: an  *)
(* UPDATE waits for the transaction that has written the row, and a clue's *)
(* UPDATE reaches only the rows that were committed when it began.         *)
(*                                                                         *)
(* A result is its URL; titles matter by which of them name the same work. *)
(* Evidence is its strength, the image token and the supporting sources.   *)
(* The life of the job is JobQueue; here a round is allowed to end early   *)
(* in any way, and a finished job is reopened by clues.                    *)
(***************************************************************************)
EXTENDS Integers, FiniteSets, SequencesExt

CONSTANTS
    Urls, Clients, None,
    Domain,      \* Domain[u]: the host of u without "www."
    SameWork,    \* the pairs of URLs _same_work_title identifies
    Kinds,       \* the candidates of an instance: score, quality, image
    Target,      \* target_results
    PerDomain,   \* results of one domain before others are preferred, 2
    MaxSources,  \* supporting sources shown, 6
    MaxRounds,   \* bound: rounds
    MaxClues     \* bound: clues

ASSUME RankingAssumption ==
    /\ Domain \in [Urls -> STRING]
    /\ SameWork \subseteq Urls \X Urls
    /\ \A u \in Urls : <<u, u>> \in SameWork
    /\ \A p \in SameWork : <<p[2], p[1]>> \in SameWork
    /\ Kinds \subseteq [score : Nat \ {0}, quality : Nat, image : BOOLEAN]
    /\ {Target, PerDomain, MaxSources} \subseteq Nat \ {0}
    /\ {MaxRounds, MaxClues} \subseteq Nat

VARIABLES
    job,        \* status, context revision, found_count, rounds so far
    rows,       \* rows[u]: the committed result with this URL, or None
    order,      \* the URLs of the table in the order of their id
    w,          \* the worker: where it is, and its session's copies
    call,       \* call[c]: a clue that has read the job, None without one
    verified,   \* history: URLs a round found since the last clue
    raced,      \* history: the last commit met one it had not seen
    late,       \* history: some commit did
    clues

history == <<verified, raced, late>>
vars    == <<job, rows, order, w, call, history, clues>>

Job == [status : {"queued", "running", "ended"}, rev : 0 .. MaxClues,
        found : 0 .. Target, rounds : 0 .. MaxRounds]

Result == [score : {0} \cup {k.score : k \in Kinds}, rank : 0 .. Target,
           quality : {k.quality : k \in Kinds}, token : 0 .. MaxRounds,
           sources : 0 .. MaxSources]

\* A clue on its way: what it has read of the job, whether its UPDATE has been
\* executed, on which rows, holding them or not, and whether a commit came since.
Pending == [status : {"queued", "running", "ended"}, rev : 0 .. MaxClues,
            found : 0 .. Target, reset : BOOLEAN, rows : SUBSET Urls,
            holds : BOOLEAN, touched : BOOLEAN]

ASSUME NoneAssumption == None \notin Result \cup Pending

Idle == [pc |-> "idle", rev |-> 0, found |-> 0, touched |-> FALSE,
         seen |-> [u \in Urls |-> None], mine |-> [u \in Urls |-> None],
         final |-> [u \in Urls |-> None], added |-> <<>>, hits |-> {},
         top |-> <<>>]

-----------------------------------------------------------------------------
(* Which results are shown: _diverse_order, _annotate_supporting_sources.  *)

Duplicates(u, chosen) == \E v \in ToSet(chosen) : <<u, v>> \in SameWork

OfDomain(d, chosen) ==
    Cardinality({i \in DOMAIN chosen : Domain[chosen[i]] = d})

\* Unique works, at most PerDomain of a domain; the rest of a domain waits.
Consider(acc, u) ==
    IF Len(acc.chosen) >= Target \/ Duplicates(u, acc.chosen) THEN acc
    ELSE IF OfDomain(Domain[u], acc.chosen) >= PerDomain
    THEN [acc EXCEPT !.waiting = Append(@, u)]
    ELSE [acc EXCEPT !.chosen = Append(@, u)]

FirstPass(results) ==
    FoldLeft(Consider, [chosen |-> <<>>, waiting |-> <<>>], results)

\* Mutant of DiverseOrder: who waited is taken without another look.
DiverseOrderUnchecked(results) ==
    LET first == FirstPass(results)
        all   == first.chosen \o first.waiting
    IN  SubSeq(all, 1, IF Len(all) < Target THEN Len(all) ELSE Target)

\* Places that are left go to those that waited, never to a duplicate.
FillWith(chosen, u) ==
    IF Len(chosen) >= Target \/ Duplicates(u, chosen) THEN chosen
    ELSE Append(chosen, u)

DiverseOrder(results) ==
    FoldLeft(FillWith, FirstPass(results).chosen, FirstPass(results).waiting)

\* Results are grouped with the first that names their work; the first of each
\* group, and the one u is grouped with.
Primaries(results) ==
    LET Group(groups, u) ==
          IF Duplicates(u, groups) THEN groups ELSE Append(groups, u)
    IN  FoldLeft(Group, <<>>, results)

Primary(primaries, u) ==
    primaries[CHOOSE i \in DOMAIN primaries :
                /\ <<u, primaries[i]>> \in SameWork
                /\ \A k \in 1 .. i - 1 : <<u, primaries[k]>> \notin SameWork]

\* _annotate_supporting_sources: to the first of a group, the domains of all.
Sources(results) ==
    LET primaries == Primaries(results)
        Count(p)  == Cardinality({Domain[u] : u \in
                         {v \in ToSet(results) : Primary(primaries, v) = p}})
    IN  [u \in ToSet(results) |->
           IF u \notin ToSet(primaries) THEN 0
           ELSE IF Count(u) > MaxSources THEN MaxSources ELSE Count(u)]

-----------------------------------------------------------------------------
(* Merging a candidate: the loop of process_one, _merge_stronger_evidence. *)

\* _image_capability: the token of the row, or a new one if there is an image.
Token(row, kind) ==
    IF row # None /\ row.token # 0 THEN row.token
    ELSE IF kind.image THEN job.rounds ELSE 0

\* Mutant of Merged: the row takes its evidence from the last round.
MergedLatest(row, kind) ==
    [score |-> kind.score, rank |-> IF row = None THEN 0 ELSE row.rank,
     quality |-> kind.quality, token |-> Token(row, kind), sources |-> 0]

Merged(row, kind) ==
    IF row = None
    THEN [score |-> kind.score, rank |-> 0, quality |-> kind.quality,
          token |-> Token(None, kind), sources |-> 0]
    ELSE LET stronger == kind.quality > row.quality
         IN  [row EXCEPT
               !.score   = IF kind.score > @ THEN kind.score ELSE @,
               !.quality = IF stronger THEN kind.quality ELSE @,
               !.token   = Token(row, kind),
               !.sources = IF stronger THEN 0 ELSE @]

\* The row once a session has sent the columns in which new differs from old.
Update(row, old, new) ==
    IF old = None \/ row = None THEN new
    ELSE [f \in DOMAIN row |-> IF new[f] # old[f] THEN new[f] ELSE row[f]]

Written(old, new) == {u \in Urls : old[u] # new[u]}

\* What a query of the worker's transaction sees after the flush.
View == [u \in Urls |-> Update(rows[u], w.seen[u], w.mine[u])]

\* The rows of the table in the order of their id.
Ids == order \o w.added

\* The credible results.  A score is 0 or what a round found, and run_research
\* drops what is below the minimum.
Credible == {u \in ToSet(Ids) : View[u].score > 0}

\* In the order of the query: match_score descending, then id.
BestFirst(results) ==
    LET id(u) == CHOOSE i \in DOMAIN Ids : Ids[i] = u
    IN  \A i, k \in DOMAIN results : i < k =>
          LET u == results[i]  v == results[k]
          IN  \/ View[u].score > View[v].score
              \/ View[u].score = View[v].score /\ id(u) < id(v)

\* Mutant of Place: the ranks of the last round are not reset.
PlaceKept(u, top) == IF u \in ToSet(top)
                     THEN CHOOSE i \in DOMAIN top : top[i] = u
                     ELSE w.mine[u].rank

\* The rank of a result: its place from 1 on, or 0.
Place(u, top) == IF u \in ToSet(top) THEN CHOOSE i \in DOMAIN top : top[i] = u
                 ELSE 0

Ranked(u, top, sources) ==
    [w.mine[u] EXCEPT !.rank = Place(u, top),
                      !.sources = IF u \in DOMAIN sources THEN sources[u] ELSE @]

-----------------------------------------------------------------------------
Init ==
    /\ job = [status |-> "queued", rev |-> 0, found |-> 0, rounds |-> 0]
    /\ rows = [u \in Urls |-> None]
    /\ order = <<>>
    /\ w = Idle
    /\ call = [c \in Clients |-> None]
    /\ verified = {}
    /\ raced = FALSE
    /\ late = FALSE
    /\ clues = 0

\* Clues whose UPDATE has been executed and holds the rows it has reached.
Holding(c) == call[c] # None /\ call[c].holds
HeldByClues == UNION {call[c].rows : c \in {d \in Clients : Holding(d)}}

\* Rows the worker's open transaction has written.
HeldByWorker ==
    IF w.pc \in {"rank", "commit"}
    THEN {u \in Written(w.seen, w.mine) : w.seen[u] # None} ELSE {}

\* The claim, and the context revision of the round.
Begin ==
    /\ w.pc = "idle"
    /\ job.status = "queued" /\ job.rounds < MaxRounds
    /\ job' = [job EXCEPT !.status = "running", !.rounds = @ + 1]
    /\ w' = [Idle EXCEPT !.pc = "research", !.rev = job.rev]
    /\ UNCHANGED <<rows, order, call, history, clues>>

\* Mutant of Reload: the round goes on although the context has changed.
ReloadBlind ==
    /\ w.pc = "research"
    /\ w' = [w EXCEPT !.pc = "load", !.found = job.found, !.touched = FALSE]
    /\ UNCHANGED <<job, rows, order, call, history, clues>>

\* The reload after the research; a changed context starts another round.
Reload ==
    /\ w.pc = "research"
    /\ IF job.rev # w.rev
       THEN /\ job' = [job EXCEPT !.status = "queued"]
            /\ w' = Idle
       ELSE /\ w' = [w EXCEPT !.pc = "load", !.found = job.found,
                              !.touched = FALSE]
            /\ UNCHANGED job
    /\ UNCHANGED <<rows, order, call, history, clues>>

\* SELECT of the results; the candidates, each URL once, are merged into them.
Load ==
    /\ w.pc = "load"
    /\ \E hits \in SUBSET Urls : IsFiniteSet(hits) /\ \E kind \in [hits -> Kinds] :
         w' = [w EXCEPT !.pc = "flush", !.seen = rows, !.hits = hits,
                 !.mine = [u \in Urls |-> IF u \in hits
                                         THEN Merged(rows[u], kind[u])
                                         ELSE rows[u]]]
    /\ UNCHANGED <<job, rows, order, call, history, clues>>

\* Mutant of New: what is found is inserted, without a look at the table.
NewOrChanged == Written(w.seen, w.mine)

New == {u \in Urls : w.seen[u] = None /\ w.mine[u] # None}

\* db.flush(): UPDATEs and INSERTs, the new rows in the order of the candidates,
\* which are sorted by their score.
FlushRows ==
    /\ w.pc = "flush"
    /\ Written(w.seen, w.mine) \cap HeldByClues = {}
    /\ \E added \in SetToSeqs(New) :
         /\ \A i, k \in DOMAIN added :
              i < k => w.mine[added[i]].score >= w.mine[added[k]].score
         /\ w' = [w EXCEPT !.pc = "rank", !.added = added]
    /\ UNCHANGED <<job, rows, order, call, history, clues>>

\* The query for the credible results, their sources, order and ranks.
Rank ==
    /\ w.pc = "rank"
    /\ \E credible \in SetToSeqs(Credible) :
         /\ BestFirst(credible)
         /\ LET top     == DiverseOrder(credible)
                sources == Sources(credible)
            IN  w' = [w EXCEPT !.pc = "commit", !.top = top,
                        !.final = [u \in Urls |-> IF w.mine[u] = None THEN None
                                                 ELSE Ranked(u, top, sources)]]
    /\ UNCHANGED <<job, rows, order, call, history, clues>>

\* The commit of the round: found_count only if it has changed since Reload.
Commit ==
    /\ w.pc = "commit"
    /\ Written(w.mine, w.final) \cap HeldByClues = {}
    /\ \E status \in IF Len(w.top) >= Target THEN {"ended"}
                     ELSE {"ended", "queued"} :
         job' = [job EXCEPT !.status = status,
                   !.found = IF Len(w.top) # w.found THEN Len(w.top) ELSE @]
    /\ rows' = [u \in Urls |-> Update(View[u], w.mine[u], w.final[u])]
    /\ order' = order \o w.added
    /\ w' = Idle
    /\ call' = [c \in Clients |-> IF call[c] = None THEN None
                                  ELSE [call[c] EXCEPT !.touched = TRUE]]
    /\ verified' = IF job.rev = w.rev THEN verified \cup w.hits ELSE verified
    /\ raced' = w.touched
    /\ late' = (late \/ w.touched)
    /\ UNCHANGED clues

\* The round ends without results: stopped, raised, nothing to search for.  What
\* it had flushed is rolled back.
Abandon ==
    /\ w.pc # "idle"
    /\ \E status \in {"queued", "ended"} : job' = [job EXCEPT !.status = status]
    /\ w' = Idle
    /\ UNCHANGED <<rows, order, call, history, clues>>

-----------------------------------------------------------------------------
ReadClue(c) ==
    /\ call[c] = None
    /\ clues < MaxClues
    /\ call' = [call EXCEPT ![c] = [status |-> job.status, rev |-> job.rev,
                                    found |-> job.found, reset |-> FALSE,
                                    rows |-> {}, holds |-> FALSE,
                                    touched |-> FALSE]]
    /\ clues' = clues + 1
    /\ UNCHANGED <<job, rows, order, w, history>>

\* UPDATE results SET rank = 0, match_score = 0: it finds the committed rows,
\* and waits if another transaction has written one of them.
ResetRanks(c) ==
    /\ call[c] # None /\ ~call[c].reset
    /\ LET found == {u \in Urls : rows[u] # None} IN
         call' = [call EXCEPT ![c].reset = TRUE, ![c].rows = found,
                    ![c].holds = found \cap (HeldByWorker \cup HeldByClues) = {}]
    /\ UNCHANGED <<job, rows, order, w, history, clues>>

\* Mutant of ClueReset: the scores stay.
RankReset(row) == [row EXCEPT !.rank = 0]

\* What a clue leaves of a result.
ClueReset(row) == [row EXCEPT !.rank = 0, !.score = 0]

\* The commit of a clue, with the UPDATE if that had to wait.
Clue(c) ==
    /\ call[c] # None /\ call[c].reset
    /\ Holding(c) \/ call[c].rows \cap (HeldByWorker \cup HeldByClues) = {}
    /\ rows' = [u \in Urls |-> IF u \in call[c].rows THEN ClueReset(rows[u])
                               ELSE rows[u]]
    /\ job' = [job EXCEPT
                 !.rev = call[c].rev + 1,
                 !.found = IF call[c].found # 0 THEN 0 ELSE @,
                 !.status = IF call[c].status = "ended" THEN "queued" ELSE @]
    /\ call' = [d \in Clients |-> IF d = c \/ call[d] = None THEN None
                                  ELSE [call[d] EXCEPT !.touched = TRUE]]
    /\ w' = [w EXCEPT !.touched = (w.pc # "idle")]
    /\ verified' = {}
    /\ raced' = call[c].touched
    /\ late' = (late \/ call[c].touched)
    /\ UNCHANGED <<order, clues>>

\* A request that fails, a deadlock that PostgreSQL resolves included.
ClueFails(c) ==
    /\ call[c] # None
    /\ call' = [call EXCEPT ![c] = None]
    /\ UNCHANGED <<job, rows, order, w, history, clues>>

WorkStep == Begin \/ Reload \/ Load \/ FlushRows \/ Rank \/ Commit \/ Abandon

ClueStep(c) == ReadClue(c) \/ ResetRanks(c) \/ Clue(c) \/ ClueFails(c)

Next == WorkStep \/ \E c \in Clients : ClueStep(c)

Spec == Init /\ [][Next]_vars

-----------------------------------------------------------------------------
TypeOK ==
    /\ job \in Job
    /\ rows \in [Urls -> Result \cup {None}]
    /\ ToSet(order) = {u \in Urls : rows[u] # None} /\ IsInjective(order)
    /\ w.pc \in {"idle", "research", "load", "flush", "rank", "commit"}
    /\ w.mine \in [Urls -> Result \cup {None}]
    /\ verified \subseteq Urls
    /\ {raced, late} \subseteq BOOLEAN

\* The list get_results answers with.
Shown == {u \in Urls : rows[u] # None /\ rows[u].rank > 0 /\ rows[u].score > 0}

\* main.py:101 and get_results (main.py:303-316): the number of results a device
\* shows for a job is the number it lists, ranked 1, 2, ... without gaps, after
\* any rounds and clues, except after a commit that overtook a clue.
CountIsShown ==
    raced \/ /\ Cardinality(Shown) = job.found
             /\ {rows[u].rank : u \in Shown} = 1 .. job.found

\* server.py:122-124: after a clue nothing is shown, nor has a score, before a
\* round has found it again with the new context, unless a commit of a round has
\* ever overlapped with that of a clue.
ShownIsVerified ==
    late \/ \A u \in Urls : rows[u] # None /\ rows[u].score > 0 => u \in verified

\* _diverse_order in worker.py: of one work one result is shown, never two, and every
\* credible work is shown while there is room, although results of a frequent
\* domain wait and are looked at again; except after a commit that overtook a clue.
ShownIsDiverse ==
    raced \/
    LET credible == {u \in Urls : rows[u] # None /\ rows[u].score > 0}
        Same(u, v) == <<u, v>> \in SameWork
    IN  /\ \A u, v \in Shown : Same(u, v) => u = v
        /\ Cardinality(Shown) < Target =>
             \A u \in credible : \E v \in Shown : Same(u, v)
        /\ Cardinality(Shown) <= Target

\* _image_capability and _merge_stronger_evidence: the evidence of a result never
\* gets weaker, and an image link a device was given stays good, through any
\* rounds, clues and overlapping commits.
EvidenceStays ==
    [][\A u \in Urls : rows[u] # None =>
         /\ rows'[u].quality >= rows[u].quality
         /\ rows[u].token # 0 => rows'[u].token = rows[u].token]_vars
=============================================================================
