---------------------------- MODULE RankingProofs ----------------------------
(***************************************************************************)
(* Proofs about ResultRanking, for any set of URLs, candidates, works,     *)
(* targets, rounds and clues: each of its properties.                      *)
(*                                                                         *)
(* First what _diverse_order returns, by induction over the results it     *)
(* looks at.  Then one invariant for all of it, in two parts.  ShownInv is *)
(* what the runs check.  StateInv relates the copies of the session and of *)
(* the clues to the table: an overlapping commit spoils the copies of      *)
(* scores and ranks, which is what the history variables are for, but      *)
(* never which rows there are and what evidence they have.                 *)
(***************************************************************************)
EXTENDS ResultRanking, FoldLemmas, FiniteSetTheorems

-----------------------------------------------------------------------------
(* Sequences of URLs                                                       *)

\* No two of them name one work.
Distinct(s) == \A i, k \in DOMAIN s : <<s[i], s[k]>> \in SameWork => i = k

LEMMA AppendUrl ==
    ASSUME NEW s \in Seq(Urls), NEW u \in Urls
    PROVE  /\ Append(s, u) \in Seq(Urls) /\ Len(Append(s, u)) = Len(s) + 1
           /\ ToSet(Append(s, u)) = ToSet(s) \cup {u}
           /\ Distinct(s) /\ ~Duplicates(u, s) => Distinct(Append(s, u))
<1> DEFINE a == Append(s, u)
<1>1. /\ a \in Seq(Urls) /\ Len(a) = Len(s) + 1
      /\ DOMAIN a = 1 .. Len(s) + 1 /\ DOMAIN s = 1 .. Len(s) /\ Len(s) \in Nat
      /\ \A i \in 1 .. Len(s) : a[i] = s[i]
      /\ a[Len(s) + 1] = u
  OBVIOUS
<1> HIDE DEF a
<1>2. ToSet(a) = ToSet(s) \cup {u}
  BY <1>1 DEF ToSet
<1>3. ASSUME Distinct(s), ~Duplicates(u, s),
             NEW i \in DOMAIN a, NEW k \in DOMAIN a, <<a[i], a[k]>> \in SameWork
      PROVE  i = k
  <2>1. ASSUME NEW x \in 1 .. Len(s)
        PROVE  <<u, s[x]>> \notin SameWork /\ <<s[x], u>> \notin SameWork
    <3>1. s[x] \in ToSet(s)
      BY <1>1 DEF ToSet
    <3>2. <<u, s[x]>> \notin SameWork
      BY <1>3, <3>1 DEF Duplicates
    <3>3. <<s[x], u>> \in SameWork => <<u, s[x]>> \in SameWork
      BY RankingAssumption
    <3> QED BY <3>2, <3>3
  <2>2. CASE i \in 1 .. Len(s) /\ k \in 1 .. Len(s)
    BY <1>1, <1>3, <2>2 DEF Distinct
  <2>3. CASE i \in 1 .. Len(s) /\ k = Len(s) + 1
    BY <1>1, <1>3, <2>1, <2>3
  <2>4. CASE i = Len(s) + 1 /\ k \in 1 .. Len(s)
    BY <1>1, <1>3, <2>1, <2>4
  <2> QED BY <1>1, <2>2, <2>3, <2>4
<1>4. Distinct(s) /\ ~Duplicates(u, s) => Distinct(a)
  BY <1>3 DEF Distinct
<1> QED BY <1>1, <1>2, <1>4 DEF a

\* What has a duplicate keeps it when more is chosen.
LEMMA DuplicatesStay ==
    ASSUME NEW s, NEW t, ToSet(s) \subseteq ToSet(t), NEW u, Duplicates(u, s)
    PROVE  Duplicates(u, t)
BY DEF Duplicates

\* Results of distinct works are distinct.
LEMMA DistinctIsInjective ==
    ASSUME NEW s \in Seq(Urls), Distinct(s) PROVE IsInjective(s)
<1> SUFFICES ASSUME NEW i \in DOMAIN s, NEW k \in DOMAIN s, s[i] = s[k] PROVE i = k
  BY DEF IsInjective
<1>1. s[i] \in Urls
  OBVIOUS
<1>2. <<s[i], s[k]>> \in SameWork
  BY <1>1, RankingAssumption
<1> QED BY <1>2 DEF Distinct

-----------------------------------------------------------------------------
(* The two passes of _diverse_order                                        *)

Passes == [chosen : Seq(Urls), waiting : Seq(Urls)]

\* After n of the results
PassDone(acc, results, n) ==
    /\ Distinct(acc.chosen) /\ Len(acc.chosen) <= Target
    /\ ToSet(acc.chosen) \subseteq ToSet(results)
    /\ ToSet(acc.waiting) \subseteq ToSet(results)
    /\ \A i \in 1 .. n : \/ Len(acc.chosen) = Target
                         \/ Duplicates(results[i], acc.chosen)
                         \/ results[i] \in ToSet(acc.waiting)

LEMMA ConsiderType == ASSUME NEW acc \in Passes, NEW u \in Urls
                      PROVE  Consider(acc, u) \in Passes
BY AppendUrl DEF Consider, Passes

LEMMA ConsiderKeeps ==
    ASSUME NEW results \in Seq(Urls), NEW n \in 1 .. Len(results),
           NEW acc \in Passes, PassDone(acc, results, n - 1)
    PROVE  PassDone(Consider(acc, results[n]), results, n)
<1> DEFINE u == results[n]
           new == Consider(acc, u)
<1> SUFFICES PassDone(new, results, n)
  OBVIOUS
<1>1. u \in Urls /\ u \in ToSet(results) /\ new \in Passes
  BY ConsiderType DEF ToSet
<1>2. acc.chosen \in Seq(Urls) /\ acc.waiting \in Seq(Urls) /\ Target \in Nat
  BY RankingAssumption DEF Passes
<1>3. ASSUME NEW i \in 1 .. n, i # n PROVE i \in 1 .. n - 1
  BY <1>3
<1> HIDE DEF u
<1>4. CASE Len(acc.chosen) >= Target \/ Duplicates(u, acc.chosen)
  <2>1. new = acc
    BY <1>4 DEF Consider
  <2>2. Len(acc.chosen) = Target \/ Duplicates(u, acc.chosen)
    BY <1>2, <1>4 DEF PassDone
  <2> QED BY <1>3, <2>1, <2>2 DEF PassDone, u
<1>5. CASE ~(Len(acc.chosen) >= Target \/ Duplicates(u, acc.chosen))
  <2>1. CASE OfDomain(Domain[u], acc.chosen) >= PerDomain
    <3>1. new.chosen = acc.chosen /\ new.waiting = Append(acc.waiting, u)
      BY <1>5, <2>1 DEF Consider, Passes
    <3>2. ToSet(new.waiting) = ToSet(acc.waiting) \cup {u}
      BY <1>1, <1>2, <3>1, AppendUrl
    <3> HIDE DEF new
    <3> QED BY <1>1, <1>3, <3>1, <3>2 DEF PassDone, u
  <2>2. CASE ~(OfDomain(Domain[u], acc.chosen) >= PerDomain)
    <3>1. new.chosen = Append(acc.chosen, u) /\ new.waiting = acc.waiting
      BY <1>5, <2>2 DEF Consider, Passes
    <3> HIDE DEF new
    <3>2. /\ ToSet(new.chosen) = ToSet(acc.chosen) \cup {u}
          /\ Len(new.chosen) = Len(acc.chosen) + 1 /\ Distinct(new.chosen)
      BY <1>1, <1>2, <1>5, <3>1, AppendUrl DEF PassDone
    <3>3. Len(new.chosen) <= Target
      BY <1>2, <1>5, <3>2
    <3>4. Duplicates(u, new.chosen)
      BY <1>1, <3>2, RankingAssumption DEF Duplicates
    <3>5. ASSUME NEW i \in 1 .. n
          PROVE  \/ Len(new.chosen) = Target \/ Duplicates(results[i], new.chosen)
                 \/ results[i] \in ToSet(new.waiting)
      <4>1. CASE i = n
        BY <3>4, <4>1 DEF u
      <4>2. CASE i # n
        <5>1. Duplicates(results[i], acc.chosen) \/ results[i] \in ToSet(acc.waiting)
          BY <1>2, <1>3, <1>5, <4>2 DEF PassDone
        <5> QED BY <3>1, <3>2, <5>1, DuplicatesStay
      <4> QED BY <4>1, <4>2
    <3>6. ToSet(new.chosen) \subseteq ToSet(results) /\ ToSet(new.waiting) \subseteq ToSet(results)
      BY <1>1, <3>1, <3>2 DEF PassDone
    <3> QED BY <3>2, <3>3, <3>5, <3>6 DEF PassDone
  <2> QED BY <2>1, <2>2
<1> QED BY <1>4, <1>5

\* FirstPass is the fold it says, from one result to the next.
LEMMA FirstPassIsDone ==
    ASSUME NEW results \in Seq(Urls)
    PROVE  /\ FirstPass(results) \in Passes
           /\ PassDone(FirstPass(results), results, Len(results))
<1> DEFINE n    == Len(results)
           b    == [chosen |-> <<>>, waiting |-> <<>>]
           st   == [p \in Passes \X Urls |-> Consider(p[1], p[2])]
           iter == CHOOSE g : g = [t \in SUBSET (1 .. n) |->
                     IF t = {} THEN b ELSE Consider(g[t \ {Max(t)}], results[Max(t)])]
<1>1. n \in Nat /\ DOMAIN results = 1 .. n /\ results \in [1 .. n -> Urls]
  OBVIOUS
<1>2. b \in Passes /\ st \in [Passes \X Urls -> Passes]
  BY ConsiderType DEF Passes
<1>3. FirstPass(results) = iter[1 .. n]
  BY <1>1 DEF FirstPass, FoldLeft, MapThenFoldSet
<1> HIDE DEF n, b
<1>4. PICK g : Rec(g, st, b, results, n)
  BY <1>1, RecExists
<1>5. \A t \in SUBSET (1 .. n) : g[t] \in Passes
  BY <1>1, <1>2, <1>4, RecStays
<1>6. ASSUME NEW t \in SUBSET (1 .. n)
      PROVE g[t] = IF t = {} THEN b ELSE Consider(g[t \ {Max(t)}], results[Max(t)])
  <2>1. CASE t # {}
    <3>1. Max(t) \in 1 .. n /\ t \ {Max(t)} \in SUBSET (1 .. n)
      BY <1>1, <2>1, MaxIsIndex
    <3>2. <<g[t \ {Max(t)}], results[Max(t)]>> \in Passes \X Urls
      BY <1>1, <1>5, <3>1
    <3> QED BY <1>4, <2>1, <3>2 DEF Rec
  <2> QED BY <1>4, <2>1 DEF Rec
<1>7. g = [t \in SUBSET (1 .. n) |->
             IF t = {} THEN b ELSE Consider(g[t \ {Max(t)}], results[Max(t)])]
  <2>1. g = [t \in SUBSET (1 .. n) |-> g[t]]
    BY <1>4 DEF Rec
  <2> QED BY <1>6, <2>1
<1>8. iter = [t \in SUBSET (1 .. n) |->
             IF t = {} THEN b ELSE Consider(iter[t \ {Max(t)}], results[Max(t)])]
  BY <1>7
<1> HIDE DEF iter, st
<1>9. iter[1 .. 0] = b
  BY <1>1, <1>8
<1>10. ASSUME NEW i \in 1 .. n
       PROVE  iter[1 .. i] = Consider(iter[1 .. (i - 1)], results[i])
  <2>1. /\ 1 .. i \in SUBSET (1 .. n) /\ 1 .. i # {}
        /\ Max(1 .. i) = i /\ (1 .. i) \ {i} = 1 .. (i - 1)
    BY <1>1, MaxOfPrefix
  <2> QED BY <1>8, <2>1
<1> DEFINE T == {i \in 0 .. n : iter[1 .. i] \in Passes /\ PassDone(iter[1 .. i], results, i)}
<1>11. 0 \in T
  <2>1. Distinct(<<>>) /\ Len(<<>>) <= Target
    BY RankingAssumption DEF Distinct
  <2>2. PassDone(b, results, 0)
    BY <2>1 DEF PassDone, b, ToSet
  <2> QED BY <1>1, <1>2, <1>9, <2>2
<1>12. ASSUME NEW i \in 1 .. n, i - 1 \in T PROVE i \in T
  <2>1. Consider(iter[1 .. (i - 1)], results[i]) \in Passes
    BY <1>1, <1>12, ConsiderType
  <2>2. PassDone(Consider(iter[1 .. (i - 1)], results[i]), results, i)
    BY <1>12, ConsiderKeeps DEF n
  <2> QED BY <1>10, <2>1, <2>2
<1> HIDE DEF T
<1>13. n \in T
  BY <1>1, <1>11, <1>12, IndexInduction
<1> QED BY <1>3, <1>13 DEF T, n
\* After n of those that wait
FillDone(s, first, waiting, n) ==
    /\ Distinct(s) /\ Len(s) <= Target
    /\ ToSet(first) \subseteq ToSet(s) /\ Len(first) <= Len(s)
    /\ ToSet(s) \subseteq ToSet(first) \cup ToSet(waiting)
    /\ \A i \in 1 .. n : Len(s) = Target \/ Duplicates(waiting[i], s)

LEMMA FillType == ASSUME NEW s \in Seq(Urls), NEW u \in Urls
                  PROVE  FillWith(s, u) \in Seq(Urls)
BY AppendUrl DEF FillWith

LEMMA FillKeeps ==
    ASSUME NEW first \in Seq(Urls), NEW waiting \in Seq(Urls),
           NEW n \in 1 .. Len(waiting),
           NEW s \in Seq(Urls), FillDone(s, first, waiting, n - 1)
    PROVE  FillDone(FillWith(s, waiting[n]), first, waiting, n)
<1> DEFINE u == waiting[n]
           new == FillWith(s, u)
<1> SUFFICES FillDone(new, first, waiting, n)
  OBVIOUS
<1>1. u \in Urls /\ u \in ToSet(waiting) /\ Target \in Nat /\ Len(s) \in Nat
  BY RankingAssumption DEF ToSet
<1>2. ASSUME NEW i \in 1 .. n, i # n PROVE i \in 1 .. n - 1
  BY <1>2
<1> HIDE DEF u
<1>3. CASE Len(s) >= Target \/ Duplicates(u, s)
  <2>1. new = s
    BY <1>3 DEF FillWith
  <2>2. Len(s) = Target \/ Duplicates(u, s)
    BY <1>1, <1>3 DEF FillDone
  <2> QED BY <1>2, <2>1, <2>2 DEF FillDone, u
<1>4. CASE ~(Len(s) >= Target \/ Duplicates(u, s))
  <2>1. new = Append(s, u)
    BY <1>4 DEF FillWith
  <2> HIDE DEF new
  <2>2. /\ ToSet(new) = ToSet(s) \cup {u}
        /\ Len(new) = Len(s) + 1 /\ Distinct(new)
    BY <1>1, <1>4, <2>1, AppendUrl DEF FillDone
  <2>3. Len(new) <= Target /\ Len(first) <= Len(new)
    BY <1>1, <1>4, <2>2 DEF FillDone
  <2>4. Duplicates(u, new)
    BY <1>1, <2>2, RankingAssumption DEF Duplicates
  <2>5. ASSUME NEW i \in 1 .. n PROVE Duplicates(waiting[i], new)
    <3>1. CASE i = n
      BY <2>4, <3>1 DEF u
    <3>2. CASE i # n
      <4>1. Duplicates(waiting[i], s)
        BY <1>1, <1>2, <1>4, <3>2 DEF FillDone
      <4> QED BY <2>2, <4>1, DuplicatesStay
    <3> QED BY <3>1, <3>2
  <2>6. /\ ToSet(first) \subseteq ToSet(new)
        /\ ToSet(new) \subseteq ToSet(first) \cup ToSet(waiting)
    BY <1>1, <2>2 DEF FillDone
  <2> QED BY <2>2, <2>3, <2>5, <2>6 DEF FillDone
<1> QED BY <1>3, <1>4

\* The second pass is the fold it says, from one that waits to the next.
LEMMA FillIsDone ==
    ASSUME NEW first \in Seq(Urls), NEW waiting \in Seq(Urls),
           Distinct(first), Len(first) <= Target
    PROVE  /\ FoldLeft(FillWith, first, waiting) \in Seq(Urls)
           /\ FillDone(FoldLeft(FillWith, first, waiting), first, waiting, Len(waiting))
<1> DEFINE n    == Len(waiting)
           A    == Seq(Urls)
           st   == [p \in A \X Urls |-> FillWith(p[1], p[2])]
           iter == CHOOSE g : g = [t \in SUBSET (1 .. n) |->
                     IF t = {} THEN first ELSE FillWith(g[t \ {Max(t)}], waiting[Max(t)])]
<1>1. n \in Nat /\ DOMAIN waiting = 1 .. n /\ waiting \in [1 .. n -> Urls] /\ first \in A
  OBVIOUS
<1>2. FoldLeft(FillWith, first, waiting) = iter[1 .. n]
  BY <1>1 DEF FoldLeft, MapThenFoldSet
<1>3. st \in [A \X Urls -> A]
  BY FillType
<1> HIDE DEF n, A
<1>4. PICK g : Rec(g, st, first, waiting, n)
  BY <1>1, RecExists
<1>5. \A t \in SUBSET (1 .. n) : g[t] \in A
  BY <1>1, <1>3, <1>4, RecStays
<1>6. ASSUME NEW t \in SUBSET (1 .. n)
      PROVE g[t] = IF t = {} THEN first ELSE FillWith(g[t \ {Max(t)}], waiting[Max(t)])
  <2>1. CASE t # {}
    <3>1. Max(t) \in 1 .. n /\ t \ {Max(t)} \in SUBSET (1 .. n)
      BY <1>1, <2>1, MaxIsIndex
    <3>2. <<g[t \ {Max(t)}], waiting[Max(t)]>> \in A \X Urls
      BY <1>1, <1>5, <3>1
    <3> QED BY <1>4, <2>1, <3>2 DEF Rec
  <2> QED BY <1>4, <2>1 DEF Rec
<1>7. g = [t \in SUBSET (1 .. n) |->
             IF t = {} THEN first ELSE FillWith(g[t \ {Max(t)}], waiting[Max(t)])]
  <2>1. g = [t \in SUBSET (1 .. n) |-> g[t]]
    BY <1>4 DEF Rec
  <2> QED BY <1>6, <2>1
<1>8. iter = [t \in SUBSET (1 .. n) |->
             IF t = {} THEN first ELSE FillWith(iter[t \ {Max(t)}], waiting[Max(t)])]
  BY <1>7
<1> HIDE DEF iter, st
<1>9. iter[1 .. 0] = first
  BY <1>1, <1>8
<1>10. ASSUME NEW i \in 1 .. n
       PROVE  iter[1 .. i] = FillWith(iter[1 .. (i - 1)], waiting[i])
  <2>1. /\ 1 .. i \in SUBSET (1 .. n) /\ 1 .. i # {}
        /\ Max(1 .. i) = i /\ (1 .. i) \ {i} = 1 .. (i - 1)
    BY <1>1, MaxOfPrefix
  <2> QED BY <1>8, <2>1
<1> DEFINE T == {i \in 0 .. n : iter[1 .. i] \in A /\ FillDone(iter[1 .. i], first, waiting, i)}
<1>11. 0 \in T
  <2>1. FillDone(first, first, waiting, 0)
    BY DEF FillDone
  <2> QED BY <1>1, <1>9, <2>1
<1>12. ASSUME NEW i \in 1 .. n, i - 1 \in T PROVE i \in T
  <2>1. FillWith(iter[1 .. (i - 1)], waiting[i]) \in A
    BY <1>1, <1>12, FillType DEF A
  <2>2. FillDone(FillWith(iter[1 .. (i - 1)], waiting[i]), first, waiting, i)
    BY <1>12, FillKeeps DEF n, A
  <2> QED BY <1>10, <2>1, <2>2
<1> HIDE DEF T
<1>13. n \in T
  BY <1>1, <1>11, <1>12, IndexInduction
<1> QED BY <1>2, <1>13 DEF T, n, A

\* What is shown, whatever results it is chosen from
Diverse(top, results) ==
    /\ top \in Seq(Urls) /\ Distinct(top) /\ Len(top) <= Target
    /\ ToSet(top) \subseteq results
    /\ Len(top) < Target => \A u \in results : Duplicates(u, top)

\* _diverse_order in worker.py: from any list of results it takes no more than the
\* target, no two of one work, and of every work one while there is room.
THEOREM DiverseOrderIsDiverse ==
    ASSUME NEW results \in Seq(Urls)
    PROVE  Diverse(DiverseOrder(results), ToSet(results))
<1> DEFINE first == FirstPass(results).chosen
           waiting == FirstPass(results).waiting
           top == DiverseOrder(results)
<1>1. first \in Seq(Urls) /\ waiting \in Seq(Urls)
  BY FirstPassIsDone DEF Passes
<1>2. PassDone(FirstPass(results), results, Len(results))
  BY FirstPassIsDone
<1>3. Distinct(first) /\ Len(first) <= Target
  BY <1>2 DEF PassDone
<1>4. ToSet(first) \subseteq ToSet(results) /\ ToSet(waiting) \subseteq ToSet(results)
  BY <1>2 DEF PassDone
<1>5. \A i \in 1 .. Len(results) : \/ Len(first) = Target
                                   \/ Duplicates(results[i], first)
                                   \/ results[i] \in ToSet(waiting)
  BY <1>2 DEF PassDone
<1>6. top = FoldLeft(FillWith, first, waiting)
  BY DEF DiverseOrder
<1> HIDE DEF first, waiting, top
<1>7. top \in Seq(Urls) /\ FillDone(top, first, waiting, Len(waiting))
  BY <1>1, <1>3, <1>6, FillIsDone
<1>8. /\ Distinct(top) /\ Len(top) <= Target /\ ToSet(first) \subseteq ToSet(top)
      /\ ToSet(top) \subseteq ToSet(first) \cup ToSet(waiting) /\ Len(first) <= Len(top)
      /\ \A i \in 1 .. Len(waiting) : Len(top) = Target \/ Duplicates(waiting[i], top)
  BY <1>7 DEF FillDone
<1>9. ASSUME Len(top) < Target, NEW u \in ToSet(results) PROVE Duplicates(u, top)
  <2>1. PICK i \in 1 .. Len(results) : u = results[i]
    BY DEF ToSet
  <2>2. Len(first) # Target /\ Len(top) # Target
    BY <1>1, <1>7, <1>8, <1>9, RankingAssumption
  <2>3. CASE Duplicates(u, first)
    BY <1>8, <2>3, DuplicatesStay
  <2>4. CASE u \in ToSet(waiting)
    <3>1. PICK k \in 1 .. Len(waiting) : u = waiting[k]
      BY <1>1, <2>4 DEF ToSet
    <3> QED BY <1>8, <2>2, <3>1
  <2> QED BY <1>5, <2>1, <2>2, <2>3, <2>4
<1>10. Diverse(top, ToSet(results))
  BY <1>4, <1>7, <1>8, <1>9 DEF Diverse
<1> QED BY <1>10 DEF top

-----------------------------------------------------------------------------
(* The inductive invariant                                                 *)

Table == [Urls -> Result \cup {None}]

Session == [pc : {"idle", "research", "load", "flush", "rank", "commit"},
            rev : 0 .. MaxClues, found : 0 .. Target, touched : BOOLEAN,
            seen : Table, mine : Table, final : Table,
            added : Seq(Urls), hits : SUBSET Urls, top : Seq(Urls)]

\* A call that is under way has not been counted by the revision: the one that it
\* will write is in range.
TypeInv ==
    /\ job \in Job /\ rows \in Table /\ w \in Session
    /\ order \in Seq(Urls)
    /\ call \in [Clients -> Pending \cup {None}]
    /\ verified \subseteq Urls /\ {raced, late} \subseteq BOOLEAN
    /\ clues \in 0 .. MaxClues /\ job.rev <= clues
    /\ \A c \in Clients : call[c] # None => call[c].rev < clues

\* The table: its rows are those with an id, each once.
TableInv ==
    IsInjective(order) /\ ToSet(order) = {u \in Urls : rows[u] # None}

\* Evidence of a row that a session goes on from
Keeps(old, new) ==
    /\ new.quality >= old.quality
    /\ old.token # 0 => new.token = old.token

Same(old, new) == new.quality = old.quality /\ new.token = old.token

\* What the session has read is still there: a clue touches ranks and scores.
SessionInv ==
    w.pc \in {"flush", "rank", "commit"} =>
      \A u \in Urls :
        /\ w.seen[u] = None <=> rows[u] = None
        /\ w.seen[u] # None => /\ w.mine[u] # None
                               /\ Same(rows[u], w.seen[u]) /\ Keeps(w.seen[u], w.mine[u])
        /\ u \notin w.hits => w.mine[u] = w.seen[u]

\* As long as no clue is committed meanwhile, all of it is.
CurrentInv ==
    w.pc \in {"load", "flush", "rank", "commit"} /\ ~w.touched =>
      /\ job.rev = w.rev /\ job.found = w.found
      /\ w.pc # "load" => rows = w.seen

\* The rows that are inserted get ids.
AddedInv ==
    /\ w.pc = "flush" => IsFiniteSet(New)
    /\ w.pc \in {"rank", "commit"} => IsInjective(w.added) /\ ToSet(w.added) = New

\* The rows as they are committed: new ranks, and the evidence merged.
FinalInv ==
    w.pc = "commit" =>
      /\ \A u \in Urls : w.final[u] = None <=> w.mine[u] = None
      /\ \A u \in Urls : w.mine[u] # None =>
           /\ Same(w.mine[u], w.final[u]) /\ w.final[u].score = w.mine[u].score
           /\ w.final[u].rank = Place(u, w.top)
      /\ Distinct(w.top) /\ Len(w.top) <= Target
      /\ ~w.touched => Diverse(w.top, {u \in Urls : w.mine[u] # None /\ w.mine[u].score > 0})

\* A clue that has been overtaken by no commit knows the rows and the count.
CallInv ==
    \A c \in Clients : call[c] # None =>
      /\ \A u \in call[c].rows : rows[u] # None
      /\ ~call[c].touched =>
           /\ call[c].found = job.found
           /\ call[c].reset => call[c].rows = {u \in Urls : rows[u] # None}

StateInv == /\ TypeInv /\ TableInv /\ SessionInv /\ CurrentInv /\ AddedInv /\ FinalInv
            /\ CallInv

ShownInv == CountIsShown /\ ShownIsVerified /\ ShownIsDiverse

-----------------------------------------------------------------------------
(* Rows                                                                    *)

LEMMA ResultFacts ==
    ASSUME NEW r \in Result
    PROVE  /\ r # None /\ r.score \in Nat /\ r.rank \in Nat /\ r.quality \in Nat
           /\ r.token \in Nat
           /\ r.score \in {0} \cup {k.score : k \in Kinds} /\ r.rank \in 0 .. Target
           /\ r.quality \in {k.quality : k \in Kinds} /\ r.token \in 0 .. MaxRounds
           /\ r.sources \in 0 .. MaxSources
<1>1. r # None
  BY NoneAssumption
<1>2. /\ r.score \in {0} \cup {k.score : k \in Kinds} /\ r.rank \in 0 .. Target
      /\ r.quality \in {k.quality : k \in Kinds} /\ r.token \in 0 .. MaxRounds
      /\ r.sources \in 0 .. MaxSources
  BY DEF Result
<1>3. \A k \in Kinds : k.score \in Nat /\ k.quality \in Nat
  BY RankingAssumption
<1> QED BY <1>1, <1>2, <1>3, RankingAssumption

\* What a round finds of a result goes into its row.
LEMMA MergedIsResult ==
    ASSUME NEW row \in Result \cup {None}, NEW kind \in Kinds, job \in Job
    PROVE  Merged(row, kind) \in Result /\ (row # None => Keeps(row, Merged(row, kind)))
<1>1. /\ kind.score \in Nat /\ kind.quality \in Nat
      /\ kind.score \in {0} \cup {k.score : k \in Kinds}
      /\ kind.quality \in {k.quality : k \in Kinds}
  BY RankingAssumption
<1>2. job.rounds \in 0 .. MaxRounds /\ MaxRounds \in Nat /\ Target \in Nat /\ MaxSources \in Nat
  BY RankingAssumption DEF Job
<1>3. 0 \in 0 .. MaxRounds /\ 0 \in 0 .. Target /\ 0 \in 0 .. MaxSources
  BY <1>2
<1>4. CASE row = None
  <2>1. Token(None, kind) \in 0 .. MaxRounds
    BY <1>2, <1>3 DEF Token
  <2> QED BY <1>1, <1>3, <1>4, <2>1 DEF Merged, Result
<1>5. CASE row # None
  <2>1. row \in Result
    BY <1>5
  <2>2. Token(row, kind) \in 0 .. MaxRounds /\ (row.token # 0 => Token(row, kind) = row.token)
    BY <1>2, <1>3, <1>5, <2>1, ResultFacts DEF Token
  <2> DEFINE stronger == kind.quality > row.quality
             new == [row EXCEPT
                      !.score   = IF kind.score > row.score THEN kind.score ELSE row.score,
                      !.quality = IF stronger THEN kind.quality ELSE row.quality,
                      !.token   = Token(row, kind),
                      !.sources = IF stronger THEN 0 ELSE row.sources]
  <2>3. Merged(row, kind) = new
    BY <1>5 DEF Merged
  <2>4. /\ (IF kind.score > row.score THEN kind.score ELSE row.score)
             \in {0} \cup {k.score : k \in Kinds}
        /\ (IF stronger THEN kind.quality ELSE row.quality) \in {k.quality : k \in Kinds}
        /\ (IF stronger THEN 0 ELSE row.sources) \in 0 .. MaxSources
    BY <1>1, <1>3, <2>1, ResultFacts
  <2>5. new \in Result
    BY <2>1, <2>2, <2>4 DEF Result
  <2>6. /\ new.quality = (IF stronger THEN kind.quality ELSE row.quality)
        /\ new.token = Token(row, kind)
    BY <2>1 DEF Result
  <2>7. new.quality >= row.quality
    BY <1>1, <2>1, <2>6, ResultFacts
  <2> HIDE DEF new
  <2> QED BY <2>2, <2>3, <2>5, <2>6, <2>7 DEF Keeps
<1> QED BY <1>4, <1>5

Fields == {"score", "rank", "quality", "token", "sources"}

\* Columns that were sent, and those that were not.
LEMMA UpdateIsResult ==
    ASSUME NEW row \in Result, NEW old \in Result, NEW new \in Result
    PROVE  /\ Update(row, old, new) \in Result
           /\ \A f \in Fields : Update(row, old, new)[f] =
                                  IF new[f] # old[f] THEN new[f] ELSE row[f]
           /\ row = old => Update(row, old, new) = new
<1> DEFINE x == Update(row, old, new)
<1>1. \A r \in Result : DOMAIN r = Fields /\ r = [f \in Fields |-> r[f]]
  BY DEF Result, Fields
<1>2. x = [f \in Fields |-> IF new[f] # old[f] THEN new[f] ELSE row[f]]
  BY <1>1, ResultFacts DEF Update
<1> HIDE DEF x
<1>3. /\ x["score"] \in {0} \cup {k.score : k \in Kinds} /\ x["rank"] \in 0 .. Target
      /\ x["quality"] \in {k.quality : k \in Kinds} /\ x["token"] \in 0 .. MaxRounds
      /\ x["sources"] \in 0 .. MaxSources
  BY <1>2 DEF Fields, Result
<1>4. x \in Result
  <2>1. x = [score |-> x["score"], rank |-> x["rank"], quality |-> x["quality"],
             token |-> x["token"], sources |-> x["sources"]]
    BY <1>2 DEF Fields
  <2> HIDE <1>2
  <2> QED BY <1>3, <2>1 DEF Result
<1>5. ASSUME row = old PROVE x = new
  <2>1. \A f \in Fields : x[f] = new[f]
    BY <1>2, <1>5
  <2>2. x = [f \in Fields |-> x[f]] /\ new = [f \in Fields |-> new[f]]
    BY <1>1, <1>4
  <2>3. [f \in Fields |-> x[f]] = [f \in Fields |-> new[f]]
    BY <2>1
  <2> QED BY <2>2, <2>3
<1> QED BY <1>2, <1>4, <1>5 DEF x

-----------------------------------------------------------------------------
(* Lists of the elements of a set, places in a list, sources               *)

LEMMA Enumerates ==
    ASSUME NEW S \in SUBSET Urls, IsFiniteSet(S), NEW s \in SetToSeqs(S)
    PROVE  s \in Seq(Urls) /\ IsInjective(s) /\ ToSet(s) = S
<1> DEFINE n == Cardinality(S)
<1>1. n \in Nat
  BY FS_CardinalityType
<1>2. s \in [1 .. n -> S] /\ \A i, k \in 1 .. n : i # k => s[i] # s[k]
  BY DEF SetToSeqs
<1> HIDE DEF n
<1>3. IsInjective(s)
  BY <1>2 DEF IsInjective
<1>4. s \in Injection(1 .. n, S)
  BY <1>2, <1>3 DEF Injection
<1>5. IsFiniteSet(1 .. n) /\ Cardinality(1 .. n) = n
  BY <1>1, FS_Interval
<1>6. s \in Surjection(1 .. n, S)
  BY <1>4, <1>5, FS_Injection DEF n
<1>7. \A x \in S : \E i \in 1 .. n : s[i] = x
  BY <1>6 DEF Surjection
<1>8. ToSet(s) = S
  BY <1>2, <1>7 DEF ToSet
<1>9. s \in Seq(S)
  BY <1>1, <1>2
<1>10. Seq(S) \subseteq Seq(Urls)
  OBVIOUS
<1> QED BY <1>3, <1>8, <1>9, <1>10

LEMMA FiniteImage == ASSUME NEW S, IsFiniteSet(S), NEW f, DOMAIN f = S, NEW T, T = {f[x] : x \in S}
                     PROVE  IsFiniteSet(T) /\ Cardinality(T) <= Cardinality(S)
<1> DEFINE g == [x \in S |-> f[x]]
<1>1. g \in Surjection(S, T)
  BY DEF Surjection
<1> QED BY <1>1, FS_Surjection

LEMMA ToSetIsFinite == ASSUME NEW s \in Seq(Urls) PROVE IsFiniteSet(ToSet(s))
<1>1. IsFiniteSet(1 .. Len(s)) /\ DOMAIN s = 1 .. Len(s)
  BY FS_Interval
<1> QED BY <1>1, FiniteImage DEF ToSet

LEMMA ToSetIsCounted == ASSUME NEW s \in Seq(Urls), IsInjective(s)
                        PROVE  Cardinality(ToSet(s)) = Len(s)
<1> DEFINE n == Len(s)
<1>1. n \in Nat /\ s \in [1 .. n -> ToSet(s)]
  BY DEF ToSet
<1>2. s \in Surjection(1 .. n, ToSet(s))
  BY <1>1 DEF Surjection, ToSet
<1>3. s \in Injection(1 .. n, ToSet(s))
  BY <1>1 DEF Injection
<1>4. IsFiniteSet(1 .. n) /\ Cardinality(1 .. n) = n
  BY <1>1, FS_Interval
<1> QED BY <1>2, <1>3, <1>4, FS_Surjection

LEMMA PlaceIsIndex ==
    ASSUME NEW top \in Seq(Urls), IsInjective(top)
    PROVE  /\ \A i \in DOMAIN top : Place(top[i], top) = i
           /\ \A u : u \notin ToSet(top) => Place(u, top) = 0
           /\ \A u : Place(u, top) \in 0 .. Len(top)
           /\ \A u : u \in ToSet(top) => Place(u, top) \in 1 .. Len(top)
<1>1. ASSUME NEW i \in DOMAIN top PROVE Place(top[i], top) = i
  <2>1. \A k \in DOMAIN top : top[k] = top[i] => k = i
    BY DEF IsInjective
  <2>2. top[i] \in ToSet(top)
    BY DEF ToSet
  <2> QED BY <2>1, <2>2 DEF Place
<1>2. ASSUME NEW u, u \notin ToSet(top) PROVE Place(u, top) = 0
  BY <1>2 DEF Place
<1>3. ASSUME NEW u, u \in ToSet(top) PROVE Place(u, top) \in 1 .. Len(top)
  <2>1. PICK i \in DOMAIN top : u = top[i]
    BY <1>3 DEF ToSet
  <2> QED BY <1>1, <2>1
<1>4. 0 \in 0 .. Len(top) /\ \A i \in 1 .. Len(top) : i \in 0 .. Len(top)
  OBVIOUS
<1> QED BY <1>1, <1>2, <1>3, <1>4

LEMMA SourcesType ==
    ASSUME NEW results \in Seq(Urls), NEW u \in DOMAIN Sources(results)
    PROVE  Sources(results)[u] \in 0 .. MaxSources
<1> DEFINE primaries == Primaries(results)
           Of(p) == {v \in ToSet(results) : Primary(primaries, v) = p}
           Count(p) == Cardinality({Domain[x] : x \in Of(p)})
<1> HIDE DEF primaries
<1>1. ASSUME NEW p PROVE Count(p) \in Nat
  <2> DEFINE f == [v \in Of(p) |-> Domain[v]]
             T == {Domain[x] : x \in Of(p)}
  <2>1. IsFiniteSet(Of(p))
    BY ToSetIsFinite, FS_Subset
  <2>2. T = {f[x] : x \in Of(p)} /\ DOMAIN f = Of(p)
    OBVIOUS
  <2> HIDE DEF f, T, Of
  <2>3. IsFiniteSet(T)
    BY <2>1, <2>2, FiniteImage
  <2> QED BY <2>3, FS_CardinalityType DEF T
<1>2. Sources(results) = [x \in ToSet(results) |->
                            IF x \notin ToSet(primaries) THEN 0
                            ELSE IF Count(x) > MaxSources THEN MaxSources ELSE Count(x)]
  BY DEF Sources, primaries
<1> HIDE DEF Count
<1>3. MaxSources \in Nat
  BY RankingAssumption
<1>4. Count(u) \in Nat
  BY <1>1
<1>5. (IF u \notin ToSet(primaries) THEN 0
       ELSE IF Count(u) > MaxSources THEN MaxSources ELSE Count(u)) \in 0 .. MaxSources
  BY <1>3, <1>4
<1> QED BY <1>2, <1>5

-----------------------------------------------------------------------------
(* Every step preserves the invariant.                                     *)

LEMMA RankInit == Init => StateInv /\ ShownInv
<1> SUFFICES ASSUME Init PROVE StateInv /\ ShownInv
  OBVIOUS
<1> USE RankingAssumption DEF Init
<1>1. /\ MaxClues \in Nat /\ 0 \in 0 .. MaxClues /\ 0 \in 0 .. Target /\ 0 \in 0 .. MaxRounds
      /\ <<>> \in Seq(Urls) /\ {} \in SUBSET Urls
  OBVIOUS
<1>2. [u \in Urls |-> None] \in Table
  BY DEF Table
<1>3. job \in Job
  BY <1>1 DEF Job
<1>4. w \in Session
  BY <1>1, <1>2 DEF Idle, Session
<1>5. TypeInv
  <2>1. call \in [Clients -> Pending \cup {None}] /\ \A c \in Clients : call[c] = None
    OBVIOUS
  <2>2. verified \subseteq Urls /\ {raced, late} \subseteq BOOLEAN
    OBVIOUS
  <2>3. clues \in 0 .. MaxClues /\ job.rev <= clues /\ order \in Seq(Urls) /\ rows \in Table
    BY <1>1, <1>2
  <2> QED BY <1>3, <1>4, <2>1, <2>2, <2>3 DEF TypeInv
<1>6. TableInv
  BY DEF TableInv, IsInjective, ToSet
<1>7. w.pc = "idle"
  BY DEF Idle
<1>8. SessionInv /\ CurrentInv /\ AddedInv /\ FinalInv /\ CallInv
  BY <1>7 DEF SessionInv, CurrentInv, AddedInv, FinalInv, CallInv
<1>9. Shown = {}
  BY DEF Shown
<1>10. CountIsShown
  <2>1. 1 .. 0 = {} /\ {rows[u].rank : u \in Shown} = {}
    BY <1>9
  <2>2. Cardinality(Shown) = 0
    BY <1>9, FS_EmptySet
  <2> QED BY <2>1, <2>2 DEF CountIsShown
<1>11. ShownIsVerified
  BY DEF ShownIsVerified
<1>12. ShownIsDiverse
  <2>1. Cardinality(Shown) = 0 /\ Cardinality(Shown) <= Target
    BY <1>9, FS_EmptySet
  <2> QED BY <1>9, <2>1 DEF ShownIsDiverse
<1> QED BY <1>5, <1>6, <1>8, <1>10, <1>11, <1>12 DEF StateInv, ShownInv

\* A step that leaves the table and the count alone
LEMMA ShownKept == ASSUME ShownInv, UNCHANGED <<rows, verified, raced, late>>,
                          job'.found = job.found
                   PROVE  ShownInv'
BY DEF ShownInv, CountIsShown, ShownIsVerified, ShownIsDiverse, Shown

\* A step that ends the session, or begins one
LEMMA Quiet == ASSUME w' = Idle \/ w'.pc = "research"
               PROVE  SessionInv' /\ CurrentInv' /\ AddedInv' /\ FinalInv'
<1>1. w'.pc \notin {"load", "flush", "rank", "commit"}
  BY DEF Idle
<1> QED BY <1>1 DEF SessionInv, CurrentInv, AddedInv, FinalInv

LEMMA IdleType == Idle \in Session
<1>1. 0 \in 0 .. MaxClues /\ 0 \in 0 .. Target /\ <<>> \in Seq(Urls)
  BY RankingAssumption
<1>2. [u \in Urls |-> None] \in Table
  BY DEF Table
<1> QED BY <1>1, <1>2 DEF Idle, Session

LEMMA BeginStep == ASSUME StateInv, ShownInv, Begin PROVE StateInv' /\ ShownInv'
<1> USE DEF Begin, history
<1>1. job' = [job EXCEPT !.status = "running", !.rounds = job.rounds + 1] /\ job \in Job
      /\ w' = [Idle EXCEPT !.pc = "research", !.rev = job.rev]
  BY DEF StateInv, TypeInv
<1>2. job' \in Job /\ job'.rev = job.rev /\ job'.found = job.found
  <2>1. job.rounds + 1 \in 0 .. MaxRounds
    BY <1>1, RankingAssumption DEF Job
  <2> QED BY <1>1, <2>1 DEF Job
<1>3. w' \in Session /\ w'.pc = "research"
  BY <1>1, IdleType DEF Job, Session
<1>4. TypeInv'
  BY <1>2, <1>3 DEF StateInv, TypeInv
<1>5. TableInv' /\ CallInv'
  BY <1>2 DEF StateInv, TableInv, CallInv
<1>6. ShownInv'
  BY <1>2, ShownKept
<1> QED BY <1>3, <1>4, <1>5, <1>6, Quiet DEF StateInv

LEMMA ReloadStep == ASSUME StateInv, ShownInv, Reload PROVE StateInv' /\ ShownInv'
<1> USE DEF Reload, history
<1>1. job \in Job /\ w \in Session
  BY DEF StateInv, TypeInv
<1>2. CASE job.rev # w.rev
  <2>1. job' = [job EXCEPT !.status = "queued"] /\ w' = Idle
    BY <1>2
  <2>2. job' \in Job /\ job'.rev = job.rev /\ job'.found = job.found
    BY <1>1, <2>1 DEF Job
  <2>3. TypeInv'
    BY <2>1, <2>2, IdleType DEF StateInv, TypeInv
  <2>4. TableInv' /\ CallInv'
    BY <2>2 DEF StateInv, TableInv, CallInv
  <2>5. ShownInv'
    BY <2>2, ShownKept
  <2> QED BY <2>1, <2>3, <2>4, <2>5, Quiet DEF StateInv
<1>3. CASE job.rev = w.rev
  <2>1. w' = [w EXCEPT !.pc = "load", !.found = job.found, !.touched = FALSE] /\ UNCHANGED job
    BY <1>3
  <2>2. w' \in Session /\ w'.pc = "load" /\ w'.rev = w.rev /\ w'.found = job.found
    BY <1>1, <2>1 DEF Job, Session
  <2>3. TypeInv'
    BY <2>1, <2>2 DEF StateInv, TypeInv
  <2>4. TableInv' /\ CallInv'
    BY <2>1 DEF StateInv, TableInv, CallInv
  <2>5. SessionInv' /\ CurrentInv' /\ AddedInv' /\ FinalInv'
    BY <1>3, <2>1, <2>2 DEF SessionInv, CurrentInv, AddedInv, FinalInv
  <2>6. ShownInv'
    BY <2>1, ShownKept
  <2> QED BY <2>3, <2>4, <2>5, <2>6 DEF StateInv
<1> QED BY <1>2, <1>3

LEMMA LoadStep == ASSUME StateInv, ShownInv, Load PROVE StateInv' /\ ShownInv'
<1> USE DEF Load, history
<1>1. job \in Job /\ w \in Session /\ rows \in Table
  BY DEF StateInv, TypeInv
<1>2. PICK hits \in SUBSET Urls :
        /\ IsFiniteSet(hits)
        /\ \E kind \in [hits -> Kinds] :
             w' = [w EXCEPT !.pc = "flush", !.seen = rows, !.hits = hits,
                     !.mine = [u \in Urls |-> IF u \in hits
                                             THEN Merged(rows[u], kind[u])
                                             ELSE rows[u]]]
  OBVIOUS
<1>3. PICK kind \in [hits -> Kinds] :
         w' = [w EXCEPT !.pc = "flush", !.seen = rows, !.hits = hits,
                 !.mine = [u \in Urls |-> IF u \in hits
                                         THEN Merged(rows[u], kind[u])
                                         ELSE rows[u]]]
  BY <1>2
<1> DEFINE mine == [u \in Urls |-> IF u \in hits THEN Merged(rows[u], kind[u]) ELSE rows[u]]
<1>4. ASSUME NEW u \in Urls
      PROVE  /\ mine[u] \in Result \cup {None}
             /\ rows[u] # None => mine[u] # None /\ Keeps(rows[u], mine[u])
  <2>1. rows[u] \in Result \cup {None}
    BY <1>1 DEF Table
  <2>2. CASE u \in hits
    BY <1>1, <2>1, <2>2, MergedIsResult, ResultFacts
  <2>3. CASE u \notin hits
    BY <2>1, <2>3, ResultFacts DEF Keeps
  <2> QED BY <2>2, <2>3
<1>5. mine \in Table
  BY <1>4 DEF Table
<1>6. \A u \in Urls : u \notin hits => mine[u] = rows[u]
  OBVIOUS
<1>7. w' = [w EXCEPT !.pc = "flush", !.seen = rows, !.hits = hits, !.mine = mine]
  BY <1>3
<1> HIDE DEF mine
<1>8. /\ w' \in Session /\ w'.pc = "flush" /\ w'.seen = rows /\ w'.mine = mine /\ w'.hits = hits
      /\ w'.touched = w.touched /\ w'.rev = w.rev /\ w'.found = w.found
  BY <1>1, <1>5, <1>7 DEF Session
<1>9. TypeInv'
  BY <1>8 DEF StateInv, TypeInv
<1>10. TableInv' /\ CallInv'
  BY DEF StateInv, TableInv, CallInv
<1>11. SessionInv'
  BY <1>4, <1>6, <1>8 DEF SessionInv, Same
<1>12. CurrentInv'
  BY <1>8 DEF StateInv, CurrentInv
<1>13. AddedInv'
  <2>1. New' \subseteq hits
    BY <1>6, <1>8 DEF New
  <2>2. IsFiniteSet(New')
    BY <1>2, <2>1, FS_Subset
  <2> QED BY <1>8, <2>2 DEF AddedInv
<1>14. FinalInv'
  BY <1>8 DEF FinalInv
<1> QED BY <1>9, <1>10, <1>11, <1>12, <1>13, <1>14, ShownKept DEF StateInv

LEMMA FlushStep == ASSUME StateInv, ShownInv, FlushRows PROVE StateInv' /\ ShownInv'
<1> USE DEF FlushRows, history
<1>1. w \in Session /\ w.pc = "flush"
  BY DEF StateInv, TypeInv
<1>2. PICK added \in SetToSeqs(New) : w' = [w EXCEPT !.pc = "rank", !.added = added]
  OBVIOUS
<1>3. IsFiniteSet(New) /\ New \in SUBSET Urls
  BY <1>1 DEF StateInv, AddedInv, New
<1>4. added \in Seq(Urls) /\ IsInjective(added) /\ ToSet(added) = New
  BY <1>3, Enumerates
<1>5. /\ w' \in Session /\ w'.pc = "rank" /\ w'.added = added /\ w'.seen = w.seen
      /\ w'.mine = w.mine /\ w'.hits = w.hits
      /\ w'.touched = w.touched /\ w'.rev = w.rev /\ w'.found = w.found
  BY <1>1, <1>2, <1>4 DEF Session
<1>6. TypeInv'
  BY <1>5 DEF StateInv, TypeInv
<1>7. TableInv' /\ CallInv'
  BY DEF StateInv, TableInv, CallInv
<1>8. SessionInv' /\ CurrentInv' /\ FinalInv'
  BY <1>1, <1>5 DEF StateInv, SessionInv, CurrentInv, FinalInv
<1>9. AddedInv'
  <2>1. New' = New
    BY <1>5 DEF New
  <2> QED BY <1>4, <1>5, <2>1 DEF AddedInv
<1> QED BY <1>6, <1>7, <1>8, <1>9, ShownKept DEF StateInv

\* Two lists, one after the other
LEMMA Joined ==
    ASSUME NEW s \in Seq(Urls), NEW t \in Seq(Urls)
    PROVE  /\ s \o t \in Seq(Urls) /\ ToSet(s \o t) = ToSet(s) \cup ToSet(t)
           /\ IsInjective(s) /\ IsInjective(t) /\ ToSet(s) \cap ToSet(t) = {} => IsInjective(s \o t)
<1> DEFINE j == s \o t
<1>1. /\ j \in Seq(Urls) /\ DOMAIN j = 1 .. Len(s) + Len(t)
      /\ DOMAIN s = 1 .. Len(s) /\ DOMAIN t = 1 .. Len(t) /\ Len(s) \in Nat /\ Len(t) \in Nat
      /\ \A i \in 1 .. Len(s) : j[i] = s[i]
      /\ \A i \in 1 .. Len(t) : j[Len(s) + i] = t[i]
  OBVIOUS
<1> HIDE DEF j
<1>2. ASSUME NEW i \in DOMAIN j, i > Len(s)
      PROVE  i - Len(s) \in DOMAIN t /\ j[i] = t[i - Len(s)]
  <2>1. i - Len(s) \in 1 .. Len(t) /\ Len(s) + (i - Len(s)) = i
    BY <1>1, <1>2
  <2> QED BY <1>1, <2>1
<1>3. ASSUME NEW i \in DOMAIN j, ~(i > Len(s)) PROVE i \in DOMAIN s /\ j[i] = s[i]
  BY <1>1, <1>3
<1>4. ToSet(j) \subseteq ToSet(s) \cup ToSet(t)
  BY <1>2, <1>3 DEF ToSet
<1>5. ToSet(s) \subseteq ToSet(j)
  <2>1. \A i \in DOMAIN s : i \in DOMAIN j /\ j[i] = s[i]
    BY <1>1
  <2> QED BY <2>1 DEF ToSet
<1>6. ToSet(t) \subseteq ToSet(j)
  <2>1. \A i \in DOMAIN t : Len(s) + i \in DOMAIN j /\ j[Len(s) + i] = t[i]
    BY <1>1
  <2> QED BY <2>1 DEF ToSet
<1>7. ASSUME IsInjective(s), IsInjective(t), ToSet(s) \cap ToSet(t) = {},
             NEW i \in DOMAIN j, NEW k \in DOMAIN j, j[i] = j[k]
      PROVE  i = k
  <2>1. CASE i > Len(s) /\ k > Len(s)
    <3>1. i - Len(s) = k - Len(s)
      BY <1>2, <1>7, <2>1 DEF IsInjective
    <3> QED BY <1>1, <3>1
  <2>2. CASE ~(i > Len(s)) /\ ~(k > Len(s))
    BY <1>3, <1>7, <2>2 DEF IsInjective
  <2>3. CASE i > Len(s) /\ ~(k > Len(s))
    BY <1>2, <1>3, <1>7, <2>3 DEF ToSet
  <2>4. CASE ~(i > Len(s)) /\ k > Len(s)
    BY <1>2, <1>3, <1>7, <2>4 DEF ToSet
  <2> QED BY <2>1, <2>2, <2>3, <2>4
<1>8. IsInjective(s) /\ IsInjective(t) /\ ToSet(s) \cap ToSet(t) = {} => IsInjective(j)
  BY <1>7 DEF IsInjective
<1> QED BY <1>1, <1>4, <1>5, <1>6, <1>8 DEF j

\* After the flush the table has the rows of the session.
LEMMA IdsOfSession ==
    ASSUME StateInv, w.pc \in {"rank", "commit"}
    PROVE  /\ Ids \in Seq(Urls) /\ IsInjective(Ids)
           /\ ToSet(Ids) = {u \in Urls : w.mine[u] # None}
<1>1. order \in Seq(Urls) /\ w.added \in Seq(Urls)
  BY DEF StateInv, TypeInv, Session
<1>2. /\ IsInjective(order) /\ ToSet(order) = {u \in Urls : rows[u] # None}
      /\ IsInjective(w.added) /\ ToSet(w.added) = New
  BY DEF StateInv, TableInv, AddedInv
<1>3. \A u \in Urls : /\ w.seen[u] = None <=> rows[u] = None
                      /\ w.seen[u] # None => w.mine[u] # None
  BY DEF StateInv, SessionInv
<1>4. ToSet(order) \cap New = {} /\ ToSet(order) \cup New = {u \in Urls : w.mine[u] # None}
  BY <1>2, <1>3 DEF New
<1> QED BY <1>1, <1>2, <1>4, Joined DEF Ids

\* Without a clue meanwhile, the query sees the merged rows.
LEMMA ViewOfSession ==
    ASSUME StateInv, w.pc \in {"rank", "commit"}, ~w.touched, NEW u \in Urls
    PROVE  View[u] = w.mine[u]
<1>1. rows = w.seen /\ w.seen \in Table /\ w.mine \in Table
  BY DEF StateInv, CurrentInv, TypeInv, Session
<1>2. w.seen[u] # None => w.mine[u] # None
  BY DEF StateInv, SessionInv
<1>3. View[u] = Update(rows[u], w.seen[u], w.mine[u])
  BY DEF View
<1>4. CASE w.seen[u] = None
  BY <1>3, <1>4 DEF Update
<1>5. CASE w.seen[u] # None
  <2>1. w.seen[u] \in Result /\ w.mine[u] \in Result
    BY <1>1, <1>2, <1>5 DEF Table
  <2> QED BY <1>1, <1>3, <2>1, UpdateIsResult
<1> QED BY <1>4, <1>5

LEMMA RankedIsResult ==
    ASSUME NEW u, w.mine[u] \in Result, NEW top, NEW sources, Place(u, top) \in 0 .. Target,
           \A v \in DOMAIN sources : sources[v] \in 0 .. MaxSources
    PROVE  /\ Ranked(u, top, sources) \in Result
           /\ Same(w.mine[u], Ranked(u, top, sources))
           /\ Ranked(u, top, sources).score = w.mine[u].score
           /\ Ranked(u, top, sources).rank = Place(u, top)
<1> DEFINE s == IF u \in DOMAIN sources THEN sources[u] ELSE w.mine[u].sources
           p == Place(u, top)
           m == w.mine[u]
<1>1. s \in 0 .. MaxSources /\ p \in 0 .. Target /\ m \in Result
  BY ResultFacts
<1>2. Ranked(u, top, sources) = [m EXCEPT !.rank = p, !.sources = s]
  BY DEF Ranked
<1> HIDE DEF s, p, m
<1>3. LET r == [m EXCEPT !.rank = p, !.sources = s]
      IN  r \in Result /\ Same(m, r) /\ r.score = m.score /\ r.rank = p
  BY <1>1 DEF Result, Same
<1> QED BY <1>2, <1>3 DEF m, p

LEMMA RankStep == ASSUME StateInv, ShownInv, Rank PROVE StateInv' /\ ShownInv'
<1> USE DEF Rank, history
<1>1. w \in Session /\ w.pc = "rank" /\ w.mine \in Table
  BY DEF StateInv, TypeInv, Session
<1>2. PICK credible \in SetToSeqs(Credible) :
        LET top     == DiverseOrder(credible)
            sources == Sources(credible)
        IN  w' = [w EXCEPT !.pc = "commit", !.top = top,
                    !.final = [u \in Urls |-> IF w.mine[u] = None THEN None
                                             ELSE Ranked(u, top, sources)]]
  OBVIOUS
<1> DEFINE top     == DiverseOrder(credible)
           sources == Sources(credible)
           final   == [u \in Urls |-> IF w.mine[u] = None THEN None ELSE Ranked(u, top, sources)]
<1>3. Credible \in SUBSET Urls /\ IsFiniteSet(Credible)
  <2>1. Ids \in Seq(Urls) /\ ToSet(Ids) \subseteq Urls
    BY <1>1, IdsOfSession
  <2>2. IsFiniteSet(ToSet(Ids))
    BY <2>1, ToSetIsFinite
  <2>3. Credible \subseteq ToSet(Ids)
    BY DEF Credible
  <2> QED BY <2>1, <2>2, <2>3, FS_Subset
<1>4. credible \in Seq(Urls) /\ ToSet(credible) = Credible
  BY <1>3, Enumerates
<1>5. Diverse(top, Credible)
  BY <1>4, DiverseOrderIsDiverse
<1>6. \A u \in DOMAIN sources : sources[u] \in 0 .. MaxSources
  BY <1>4, SourcesType
<1>7. w' = [w EXCEPT !.pc = "commit", !.top = top, !.final = final]
  BY <1>2
<1> HIDE DEF top, sources
<1>8. top \in Seq(Urls) /\ Distinct(top) /\ Len(top) <= Target /\ IsInjective(top)
  BY <1>5, DistinctIsInjective DEF Diverse
<1>9. \A u : Place(u, top) \in 0 .. Target
  <2>1. \A u : Place(u, top) \in 0 .. Len(top)
    BY <1>8, PlaceIsIndex
  <2>2. Len(top) \in Nat /\ Target \in Nat
    BY <1>8, RankingAssumption
  <2> QED BY <1>8, <2>1, <2>2
<1>10. ASSUME NEW u \in Urls
       PROVE  /\ final[u] \in Result \cup {None} /\ (final[u] = None <=> w.mine[u] = None)
              /\ w.mine[u] # None =>
                   /\ Same(w.mine[u], final[u]) /\ final[u].score = w.mine[u].score
                   /\ final[u].rank = Place(u, top)
  <2>1. CASE w.mine[u] = None
    BY <2>1
  <2>2. CASE w.mine[u] # None
    <3>1. w.mine[u] \in Result
      BY <1>1, <2>2 DEF Table
    <3>2. final[u] = Ranked(u, top, sources)
      BY <2>2
    <3> HIDE DEF final
    <3> QED BY <1>6, <1>9, <2>2, <3>1, <3>2, RankedIsResult, ResultFacts
  <2> QED BY <2>1, <2>2
<1>11. final \in Table
  BY <1>10 DEF Table
<1> HIDE DEF final
<1>12. /\ w' \in Session /\ w'.pc = "commit" /\ w'.top = top /\ w'.final = final
       /\ w'.added = w.added /\ w'.seen = w.seen /\ w'.mine = w.mine /\ w'.hits = w.hits
       /\ w'.touched = w.touched /\ w'.rev = w.rev /\ w'.found = w.found
  BY <1>1, <1>7, <1>8, <1>11 DEF Session
<1>13. TypeInv'
  BY <1>12 DEF StateInv, TypeInv
<1>14. TableInv' /\ CallInv'
  BY DEF StateInv, TableInv, CallInv
<1>15. SessionInv' /\ CurrentInv'
  BY <1>1, <1>12 DEF StateInv, SessionInv, CurrentInv
<1>16. AddedInv'
  <2>1. New' = New
    BY <1>12 DEF New
  <2> QED BY <1>1, <1>12, <2>1 DEF StateInv, AddedInv
<1>17. FinalInv'
  <2>1. ASSUME ~w.touched
        PROVE Credible = {u \in Urls : w.mine[u] # None /\ w.mine[u].score > 0}
    BY <1>1, <2>1, IdsOfSession, ViewOfSession DEF Credible
  <2>2. \A u \in Urls : w'.final[u] = None <=> w'.mine[u] = None
    BY <1>10, <1>12
  <2>3. \A u \in Urls : w'.mine[u] # None =>
          /\ Same(w'.mine[u], w'.final[u]) /\ w'.final[u].score = w'.mine[u].score
          /\ w'.final[u].rank = Place(u, w'.top)
    BY <1>10, <1>12
  <2>4. Distinct(w'.top) /\ Len(w'.top) <= Target
    BY <1>8, <1>12
  <2>5. ~w'.touched =>
          Diverse(w'.top, {u \in Urls : w'.mine[u] # None /\ w'.mine[u].score > 0})
    BY <1>5, <1>12, <2>1
  <2> QED BY <2>2, <2>3, <2>4, <2>5 DEF FinalInv
<1> QED BY <1>13, <1>14, <1>15, <1>16, <1>17, ShownKept DEF StateInv

\* What the commit leaves of a row
LEMMA CommittedRow ==
    ASSUME StateInv, w.pc = "commit", NEW u \in Urls,
           NEW new, new = Update(View[u], w.mine[u], w.final[u])
    PROVE  /\ new \in Result \cup {None} /\ (new = None <=> w.mine[u] = None)
           /\ rows[u] # None => new # None /\ Keeps(rows[u], new)
           /\ ~w.touched => new = w.final[u]
<1>1. /\ rows[u] \in Result \cup {None} /\ w.seen[u] \in Result \cup {None}
      /\ w.mine[u] \in Result \cup {None} /\ w.final[u] \in Result \cup {None}
  BY DEF StateInv, TypeInv, Session, Table
<1>2. /\ w.seen[u] = None <=> rows[u] = None
      /\ w.seen[u] # None => /\ w.mine[u] # None
                             /\ Same(rows[u], w.seen[u]) /\ Keeps(w.seen[u], w.mine[u])
  BY DEF StateInv, SessionInv
<1>3. /\ w.final[u] = None <=> w.mine[u] = None
      /\ w.mine[u] # None => Same(w.mine[u], w.final[u])
  BY DEF StateInv, FinalInv
<1>4. View[u] = Update(rows[u], w.seen[u], w.mine[u])
  BY DEF View
<1>5. ~w.touched => View[u] = w.mine[u]
  BY ViewOfSession
<1>6. CASE w.seen[u] = None
  <2>1. View[u] = w.mine[u]
    BY <1>4, <1>6 DEF Update
  <2>2. CASE w.mine[u] = None
    BY <1>2, <1>3, <1>6, <2>1, <2>2 DEF Update
  <2>3. CASE w.mine[u] # None
    <3>1. new = w.final[u]
      BY <1>1, <1>3, <2>1, <2>3, UpdateIsResult
    <3> QED BY <1>1, <1>2, <1>3, <1>6, <2>3, <3>1
  <2> QED BY <2>2, <2>3
<1>7. CASE w.seen[u] # None
  <2>1. rows[u] \in Result /\ w.seen[u] \in Result /\ w.mine[u] \in Result /\ w.final[u] \in Result
    BY <1>1, <1>2, <1>3, <1>7
  <2>2. View[u] \in Result /\ \A f \in Fields :
          View[u][f] = IF w.mine[u][f] # w.seen[u][f] THEN w.mine[u][f] ELSE rows[u][f]
    BY <1>4, <2>1, UpdateIsResult
  <2>3. new \in Result /\ \A f \in Fields :
          new[f] = IF w.final[u][f] # w.mine[u][f] THEN w.final[u][f] ELSE View[u][f]
    BY <2>1, <2>2, UpdateIsResult
  <2>4. new.quality = w.mine[u].quality /\ new.token = w.mine[u].token
    BY <1>2, <1>3, <1>7, <2>1, <2>2, <2>3, ResultFacts DEF Fields, Same
  <2>5. Keeps(rows[u], new)
    BY <1>2, <1>7, <2>4 DEF Keeps, Same
  <2>6. ~w.touched => new = w.final[u]
    BY <1>5, <2>1, UpdateIsResult
  <2> QED BY <1>2, <1>7, <2>1, <2>3, <2>5, <2>6, ResultFacts
<1> QED BY <1>6, <1>7

\* A round that no clue has overtaken shows what it has chosen.
LEMMA CommittedShown ==
    ASSUME StateInv, w.pc = "commit", ~w.touched, rows' = w.final
    PROVE  /\ Shown' = ToSet(w.top)
           /\ \A u \in Shown' : rows'[u].rank = Place(u, w.top)
<1>1. /\ \A u \in Urls : w.final[u] = None <=> w.mine[u] = None
      /\ \A u \in Urls : w.mine[u] # None => /\ w.final[u].score = w.mine[u].score
                                            /\ w.final[u].rank = Place(u, w.top)
      /\ Diverse(w.top, {u \in Urls : w.mine[u] # None /\ w.mine[u].score > 0})
  BY DEF StateInv, FinalInv
<1>2. /\ w.top \in Seq(Urls) /\ IsInjective(w.top) /\ Len(w.top) \in Nat
      /\ \A u \in ToSet(w.top) : u \in Urls /\ w.mine[u] # None /\ w.mine[u].score > 0
  BY <1>1, DistinctIsInjective DEF Diverse
<1>3. ASSUME NEW u \in Shown' PROVE u \in ToSet(w.top) /\ rows'[u].rank = Place(u, w.top)
  <2>1. u \in Urls /\ w.final[u] # None /\ w.final[u].rank > 0
    BY <1>3 DEF Shown
  <2>2. Place(u, w.top) > 0
    BY <1>1, <2>1
  <2>3. u \in ToSet(w.top)
    BY <1>2, <2>2, PlaceIsIndex
  <2> QED BY <1>1, <2>1, <2>3
<1>4. ASSUME NEW u \in ToSet(w.top) PROVE u \in Shown'
  <2>1. u \in Urls /\ w.mine[u] # None /\ w.mine[u].score > 0
    BY <1>2
  <2>2. Place(u, w.top) \in 1 .. Len(w.top)
    BY <1>2, PlaceIsIndex
  <2>3. w.final[u] # None /\ w.final[u].score > 0 /\ w.final[u].rank > 0
    BY <1>1, <1>2, <2>1, <2>2
  <2> QED BY <2>1, <2>3 DEF Shown
<1> QED BY <1>3, <1>4

LEMMA CommitStep == ASSUME StateInv, ShownInv, Commit PROVE StateInv' /\ ShownInv'
<1> USE DEF Commit
<1>1. w \in Session /\ job \in Job /\ w.pc = "commit" /\ rows \in Table /\ w.final \in Table
  BY DEF StateInv, TypeInv, Session
<1>2. PICK status \in {"ended", "queued"} :
         job' = [job EXCEPT !.status = status,
                   !.found = IF Len(w.top) # w.found THEN Len(w.top) ELSE job.found]
  <2>1. (IF Len(w.top) >= Target THEN {"ended"} ELSE {"ended", "queued"}) \subseteq {"ended", "queued"}
    OBVIOUS
  <2> QED BY <2>1
<1>3. Len(w.top) \in 0 .. Target
  BY <1>1, RankingAssumption DEF StateInv, FinalInv, Session
<1>4. /\ job' \in Job /\ job'.rev = job.rev
      /\ job'.found = IF Len(w.top) # w.found THEN Len(w.top) ELSE job.found
  BY <1>1, <1>2, <1>3 DEF Job
<1>5. /\ rows' = [u \in Urls |-> Update(View[u], w.mine[u], w.final[u])]
      /\ order' = Ids /\ w' = Idle
  BY DEF Ids
<1>6. ASSUME NEW u \in Urls
      PROVE  /\ rows'[u] \in Result \cup {None} /\ (rows'[u] = None <=> w.mine[u] = None)
             /\ rows[u] # None => rows'[u] # None
             /\ ~w.touched => rows'[u] = w.final[u]
  <2>1. rows'[u] = Update(View[u], w.mine[u], w.final[u])
    BY <1>5
  <2> QED BY <1>1, <2>1, CommittedRow
<1>7. /\ order' \in Seq(Urls) /\ IsInjective(order')
      /\ ToSet(order') = {u \in Urls : w.mine[u] # None}
  BY <1>1, <1>5, IdsOfSession
<1>8. TypeInv'
  <2>1. rows' \in Table
    BY <1>5, <1>6 DEF Table
  <2>2. ASSUME NEW c \in Clients
        PROVE  /\ call'[c] \in Pending \cup {None}
               /\ call'[c] # None => call[c] # None /\ call'[c].rev = call[c].rev
    <3>1. call[c] \in Pending \cup {None}
      BY DEF StateInv, TypeInv
    <3>2. CASE call[c] = None
      BY <3>2
    <3>3. CASE call[c] # None
      <4>1. call'[c] = [call[c] EXCEPT !.touched = TRUE]
        BY <3>3
      <4> QED BY <3>1, <3>3, <4>1 DEF Pending
    <3> QED BY <3>2, <3>3
  <2>3. call' \in [Clients -> Pending \cup {None}]
    BY <2>2
  <2>4. verified' \subseteq Urls /\ {raced', late'} \subseteq BOOLEAN
    BY <1>1 DEF StateInv, TypeInv, Session
  <2>5. /\ clues' \in 0 .. MaxClues /\ job'.rev <= clues'
        /\ \A c \in Clients : call'[c] # None => call'[c].rev < clues'
    BY <1>4, <2>2 DEF StateInv, TypeInv
  <2> QED BY <1>4, <1>5, <1>7, <2>1, <2>3, <2>4, <2>5, IdleType DEF TypeInv
<1>9. TableInv'
  BY <1>6, <1>7 DEF TableInv
<1>10. CallInv'
  <2> SUFFICES ASSUME NEW c \in Clients, call'[c] # None
               PROVE  call'[c].touched /\ \A u \in call'[c].rows : rows'[u] # None
    BY DEF CallInv
  <2>1. call[c] # None /\ call[c] \in Pending /\ call'[c] = [call[c] EXCEPT !.touched = TRUE]
    BY DEF StateInv, TypeInv
  <2>2. call'[c].touched /\ call'[c].rows = call[c].rows /\ call[c].rows \subseteq Urls
    BY <2>1 DEF Pending
  <2>3. \A u \in call[c].rows : rows[u] # None
    BY <2>1 DEF StateInv, CallInv
  <2> QED BY <1>6, <2>2, <2>3
<1>11. ASSUME ~w.touched
       PROVE  /\ rows' = w.final /\ job'.found = Len(w.top) /\ job.rev = w.rev
  <2>1. rows' = [u \in Urls |-> rows'[u]] /\ w.final = [u \in Urls |-> w.final[u]]
    BY <1>1, <1>5 DEF Table
  <2>2. job.found = w.found /\ job.rev = w.rev
    BY <1>1, <1>11 DEF StateInv, CurrentInv
  <2> QED BY <1>4, <1>6, <1>11, <2>1, <2>2
<1>12. CountIsShown'
  <2> SUFFICES ASSUME ~w.touched
               PROVE  /\ Cardinality(Shown') = job'.found
                      /\ {rows'[u].rank : u \in Shown'} = 1 .. job'.found
    BY DEF CountIsShown
  <2>1. Shown' = ToSet(w.top) /\ \A u \in Shown' : rows'[u].rank = Place(u, w.top)
    BY <1>1, <1>11, CommittedShown
  <2>2. w.top \in Seq(Urls) /\ IsInjective(w.top)
    BY <1>1, DistinctIsInjective DEF StateInv, FinalInv, Session
  <2>3. Cardinality(Shown') = Len(w.top)
    BY <2>1, <2>2, ToSetIsCounted
  <2>4. ASSUME NEW u \in Shown' PROVE rows'[u].rank \in 1 .. Len(w.top)
    BY <2>1, <2>2, <2>4, PlaceIsIndex
  <2>5. ASSUME NEW i \in 1 .. Len(w.top) PROVE \E u \in Shown' : rows'[u].rank = i
    <3>1. i \in DOMAIN w.top /\ w.top[i] \in ToSet(w.top)
      BY <2>2 DEF ToSet
    <3> QED BY <2>1, <2>2, <3>1, PlaceIsIndex
  <2>6. {rows'[u].rank : u \in Shown'} = 1 .. Len(w.top)
    <3>1. {rows'[u].rank : u \in Shown'} \subseteq 1 .. Len(w.top)
      BY <2>4
    <3>2. 1 .. Len(w.top) \subseteq {rows'[u].rank : u \in Shown'}
      BY <2>5
    <3> QED BY <3>1, <3>2
  <2> QED BY <1>11, <2>3, <2>6
<1>13. ShownIsVerified'
  <2> SUFFICES ASSUME ~late, ~w.touched, NEW u \in Urls, rows'[u] # None, rows'[u].score > 0
               PROVE  u \in verified'
    BY DEF ShownIsVerified
  <2>1. verified' = verified \cup w.hits
    BY <1>11
  <2>2. w.mine[u] # None /\ w.mine[u].score > 0
    BY <1>1, <1>6 DEF StateInv, FinalInv
  <2>3. CASE u \notin w.hits
    <3>1. rows[u] = w.mine[u]
      BY <1>1, <2>3 DEF StateInv, SessionInv, CurrentInv
    <3> QED BY <2>1, <2>2, <3>1 DEF ShownInv, ShownIsVerified
  <2> QED BY <2>1, <2>3
<1>14. ShownIsDiverse'
  <2> SUFFICES ASSUME ~w.touched
               PROVE  LET credible == {u \in Urls : rows'[u] # None /\ rows'[u].score > 0}
                      IN  /\ \A u, v \in Shown' : <<u, v>> \in SameWork => u = v
                          /\ Cardinality(Shown') < Target =>
                               \A u \in credible : \E v \in Shown' : <<u, v>> \in SameWork
                          /\ Cardinality(Shown') <= Target
    BY DEF ShownIsDiverse
  <2>1. Shown' = ToSet(w.top)
    BY <1>1, <1>11, CommittedShown
  <2>2. Diverse(w.top, {u \in Urls : w.mine[u] # None /\ w.mine[u].score > 0})
    BY <1>1 DEF StateInv, FinalInv
  <2>3. Cardinality(Shown') = Len(w.top) /\ Len(w.top) <= Target
    BY <2>1, <2>2, DistinctIsInjective, ToSetIsCounted DEF Diverse
  <2>4. ASSUME NEW u \in Shown', NEW v \in Shown', <<u, v>> \in SameWork PROVE u = v
    BY <2>1, <2>2, <2>4 DEF ToSet, Diverse, Distinct
  <2>5. ASSUME Len(w.top) < Target, NEW u \in Urls, rows'[u] # None, rows'[u].score > 0
        PROVE  \E v \in Shown' : <<u, v>> \in SameWork
    <3>1. w.mine[u] # None /\ w.mine[u].score > 0
      BY <1>1, <1>6, <2>5 DEF StateInv, FinalInv
    <3>2. Duplicates(u, w.top)
      BY <2>2, <2>5, <3>1 DEF Diverse
    <3> QED BY <2>1, <3>2 DEF Duplicates
  <2> QED BY <2>3, <2>4, <2>5
<1> QED BY <1>5, <1>8, <1>9, <1>10, <1>12, <1>13, <1>14, Quiet DEF StateInv, ShownInv

LEMMA AbandonStep == ASSUME StateInv, ShownInv, Abandon PROVE StateInv' /\ ShownInv'
<1> USE DEF Abandon, history
<1>1. PICK status \in {"queued", "ended"} : job' = [job EXCEPT !.status = status]
  OBVIOUS
<1>2. job \in Job
  BY DEF StateInv, TypeInv
<1>3. job' \in Job /\ job'.rev = job.rev /\ job'.found = job.found
  BY <1>1, <1>2 DEF Job
<1>4. TypeInv'
  BY <1>3, IdleType DEF StateInv, TypeInv
<1>5. TableInv' /\ CallInv'
  BY <1>3 DEF StateInv, TableInv, CallInv
<1> QED BY <1>3, <1>4, <1>5, Quiet, ShownKept DEF StateInv

\* A step of a client that leaves the job and the table alone
LEMMA SessionKept == ASSUME StateInv, UNCHANGED <<job, rows, order, w>>
                     PROVE  TableInv' /\ SessionInv' /\ CurrentInv' /\ AddedInv' /\ FinalInv'
BY DEF StateInv, TableInv, SessionInv, CurrentInv, AddedInv, FinalInv, New

LEMMA ReadClueStep == ASSUME StateInv, ShownInv, NEW c \in Clients, ReadClue(c)
                      PROVE  StateInv' /\ ShownInv'
<1> USE DEF ReadClue, history
<1> DEFINE new == [status |-> job.status, rev |-> job.rev, found |-> job.found,
                   reset |-> FALSE, rows |-> {}, holds |-> FALSE, touched |-> FALSE]
<1>1. call' = [call EXCEPT ![c] = new] /\ clues' = clues + 1 /\ clues < MaxClues
  OBVIOUS
<1>2. /\ call \in [Clients -> Pending \cup {None}] /\ job \in Job
      /\ clues \in 0 .. MaxClues /\ job.rev <= clues /\ MaxClues \in Nat
  BY RankingAssumption DEF StateInv, TypeInv
<1>3. new \in Pending
  BY <1>2 DEF Job, Pending
<1> HIDE DEF new
<1>4. TypeInv'
  <2>1. call' \in [Clients -> Pending \cup {None}]
    BY <1>1, <1>2, <1>3
  <2>2. clues' \in 0 .. MaxClues /\ job'.rev <= clues'
    BY <1>1, <1>2 DEF Job
  <2>3. ASSUME NEW d \in Clients, call'[d] # None PROVE call'[d].rev < clues'
    <3>1. CASE d = c
      BY <1>1, <1>2, <3>1 DEF Job, new
    <3>2. CASE d # c
      <4>1. call'[d] = call[d] /\ call[d] \in Pending
        BY <1>1, <1>2, <2>3, <3>2
      <4>2. call[d].rev \in 0 .. MaxClues /\ call[d].rev < clues
        BY <2>3, <4>1 DEF StateInv, TypeInv, Pending
      <4> QED BY <1>1, <1>2, <4>1, <4>2
    <3> QED BY <3>1, <3>2
  <2> QED BY <2>1, <2>2, <2>3 DEF StateInv, TypeInv
<1>5. CallInv'
  <2> SUFFICES ASSUME NEW d \in Clients, call'[d] # None
               PROVE  /\ \A u \in call'[d].rows : rows[u] # None
                      /\ ~call'[d].touched =>
                           /\ call'[d].found = job.found
                           /\ call'[d].reset => call'[d].rows = {u \in Urls : rows[u] # None}
    BY DEF CallInv
  <2>1. CASE d = c
    BY <1>1, <1>2, <2>1 DEF new
  <2>2. CASE d # c
    BY <1>1, <1>2, <2>2 DEF StateInv, CallInv
  <2> QED BY <2>1, <2>2
<1> QED BY <1>4, <1>5, SessionKept, ShownKept DEF StateInv

LEMMA ResetStep == ASSUME StateInv, ShownInv, NEW c \in Clients, ResetRanks(c)
                   PROVE  StateInv' /\ ShownInv'
<1> USE DEF ResetRanks, history
<1> DEFINE found == {u \in Urls : rows[u] # None}
           holds == found \cap (HeldByWorker \cup HeldByClues) = {}
           new   == [call[c] EXCEPT !.reset = TRUE, !.rows = found, !.holds = holds]
<1>1. call' = [call EXCEPT ![c] = new] /\ call[c] # None
  OBVIOUS
<1>2. call \in [Clients -> Pending \cup {None}] /\ call[c] \in Pending
  BY <1>1 DEF StateInv, TypeInv
<1>3. found \in SUBSET Urls /\ holds \in BOOLEAN
  OBVIOUS
<1> HIDE DEF holds
<1>4. /\ new \in Pending /\ new.rev = call[c].rev /\ new.found = call[c].found
      /\ new.rows = found /\ new.touched = call[c].touched
  BY <1>2, <1>3 DEF Pending
<1> HIDE DEF new
<1>5. TypeInv'
  <2>1. call' \in [Clients -> Pending \cup {None}]
    BY <1>1, <1>2, <1>4
  <2>2. ASSUME NEW d \in Clients, call'[d] # None PROVE call'[d].rev < clues'
    <3>1. CASE d = c
      BY <1>1, <1>2, <1>4, <3>1 DEF StateInv, TypeInv
    <3>2. CASE d # c
      BY <1>1, <1>2, <2>2, <3>2 DEF StateInv, TypeInv
    <3> QED BY <3>1, <3>2
  <2> QED BY <2>1, <2>2 DEF StateInv, TypeInv
<1>6. CallInv'
  <2> SUFFICES ASSUME NEW d \in Clients, call'[d] # None
               PROVE  /\ \A u \in call'[d].rows : rows[u] # None
                      /\ ~call'[d].touched =>
                           /\ call'[d].found = job.found
                           /\ call'[d].reset => call'[d].rows = found
    BY DEF CallInv
  <2>1. CASE d = c
    BY <1>1, <1>2, <1>4, <2>1 DEF StateInv, CallInv
  <2>2. CASE d # c
    BY <1>1, <1>2, <2>2 DEF StateInv, CallInv
  <2> QED BY <2>1, <2>2
<1> QED BY <1>5, <1>6, SessionKept, ShownKept DEF StateInv

LEMMA ClueFailsStep == ASSUME StateInv, ShownInv, NEW c \in Clients, ClueFails(c)
                       PROVE  StateInv' /\ ShownInv'
<1> USE DEF ClueFails, history
<1>1. call' = [call EXCEPT ![c] = None] /\ call \in [Clients -> Pending \cup {None}]
  BY DEF StateInv, TypeInv
<1>2. \A d \in Clients : call'[d] = call[d] \/ call'[d] = None
  BY <1>1
<1>3. TypeInv'
  BY <1>1, <1>2 DEF StateInv, TypeInv
<1>4. CallInv'
  BY <1>2 DEF StateInv, CallInv
<1> QED BY <1>3, <1>4, SessionKept, ShownKept DEF StateInv

LEMMA ClueResetFacts ==
    ASSUME NEW row \in Result
    PROVE  /\ ClueReset(row) \in Result /\ Same(row, ClueReset(row))
           /\ ClueReset(row).score = 0 /\ ClueReset(row).rank = 0
<1>1. 0 \in 0 .. Target
  BY RankingAssumption
<1> QED BY <1>1 DEF ClueReset, Result, Same

LEMMA ClueStepKeeps == ASSUME StateInv, ShownInv, NEW c \in Clients, Clue(c)
                       PROVE  StateInv' /\ ShownInv'
<1> USE DEF Clue
<1>1. /\ job \in Job /\ w \in Session /\ rows \in Table /\ call[c] \in Pending
      /\ call[c].rev < clues /\ clues \in 0 .. MaxClues /\ MaxClues \in Nat
  BY RankingAssumption DEF StateInv, TypeInv
<1>2. /\ rows' = [u \in Urls |-> IF u \in call[c].rows THEN ClueReset(rows[u]) ELSE rows[u]]
      /\ w' = [w EXCEPT !.touched = (w.pc # "idle")]
      /\ call' = [d \in Clients |-> IF d = c \/ call[d] = None THEN None
                                    ELSE [call[d] EXCEPT !.touched = TRUE]]
  OBVIOUS
<1>3. /\ job' \in Job /\ job'.rev = call[c].rev + 1
      /\ job'.found = IF call[c].found # 0 THEN 0 ELSE job.found
  <2>1. call[c].rev + 1 \in 0 .. MaxClues
    BY <1>1 DEF Pending
  <2>2. (IF call[c].found # 0 THEN 0 ELSE job.found) \in 0 .. Target
    BY <1>1, RankingAssumption DEF Job
  <2>3. job' = [job EXCEPT
                 !.rev = call[c].rev + 1,
                 !.found = IF call[c].found # 0 THEN 0 ELSE job.found,
                 !.status = IF call[c].status = "ended" THEN "queued" ELSE job.status]
    BY <1>1 DEF Job
  <2> QED BY <1>1, <2>1, <2>2, <2>3 DEF Job
<1>4. ASSUME NEW u \in Urls
      PROVE  /\ rows'[u] \in Result \cup {None} /\ (rows'[u] = None <=> rows[u] = None)
             /\ rows[u] # None => Same(rows[u], rows'[u])
             /\ u \in call[c].rows => rows'[u].score = 0 /\ rows'[u].rank = 0
  <2>1. rows[u] \in Result \cup {None}
    BY <1>1 DEF Table
  <2>2. CASE u \in call[c].rows
    <3>1. rows[u] # None
      BY <2>2 DEF StateInv, CallInv
    <3>2. rows[u] \in Result /\ rows'[u] = ClueReset(rows[u])
      BY <1>2, <2>1, <2>2, <3>1
    <3>3. ClueReset(rows[u]) # None
      BY <3>2, ClueResetFacts, ResultFacts
    <3> QED BY <3>1, <3>2, <3>3, ClueResetFacts
  <2>3. CASE u \notin call[c].rows
    <3>1. rows'[u] = rows[u]
      BY <1>2, <2>3
    <3> QED BY <2>1, <2>3, <3>1 DEF Same
  <2> QED BY <2>2, <2>3
<1>5. /\ w' \in Session /\ w'.pc = w.pc /\ (w.pc # "idle" => w'.touched)
      /\ w'.seen = w.seen /\ w'.mine = w.mine /\ w'.final = w.final /\ w'.added = w.added
      /\ w'.top = w.top /\ w'.hits = w.hits
  BY <1>1, <1>2 DEF Session
<1>6. TypeInv'
  <2>1. rows' \in Table
    BY <1>2, <1>4 DEF Table
  <2>2. ASSUME NEW d \in Clients
        PROVE  /\ call'[d] \in Pending \cup {None}
               /\ call'[d] # None => call[d] # None /\ call'[d].rev = call[d].rev
    <3>1. call[d] \in Pending \cup {None}
      BY DEF StateInv, TypeInv
    <3>2. CASE d = c \/ call[d] = None
      BY <1>2, <3>2
    <3>3. CASE ~(d = c \/ call[d] = None)
      <4>1. call'[d] = [call[d] EXCEPT !.touched = TRUE]
        BY <1>2, <3>3
      <4> QED BY <3>1, <3>3, <4>1 DEF Pending
    <3> QED BY <3>2, <3>3
  <2>3. call' \in [Clients -> Pending \cup {None}]
    BY <1>2, <2>2
  <2>4. verified' \subseteq Urls /\ {raced', late'} \subseteq BOOLEAN
    BY <1>1 DEF StateInv, TypeInv, Pending
  <2>5. /\ clues' \in 0 .. MaxClues /\ job'.rev <= clues'
        /\ \A d \in Clients : call'[d] # None => call'[d].rev < clues'
    BY <1>1, <1>3, <2>2 DEF StateInv, TypeInv, Pending
  <2> QED BY <1>3, <1>5, <2>1, <2>3, <2>4, <2>5 DEF StateInv, TypeInv
<1>7. TableInv'
  BY <1>4 DEF StateInv, TableInv
<1>8. SessionInv'
  <2> SUFFICES ASSUME w.pc \in {"flush", "rank", "commit"}, NEW u \in Urls
               PROVE  /\ w.seen[u] = None <=> rows'[u] = None
                      /\ w.seen[u] # None =>
                           /\ w.mine[u] # None
                           /\ Same(rows'[u], w.seen[u]) /\ Keeps(w.seen[u], w.mine[u])
                      /\ u \notin w.hits => w.mine[u] = w.seen[u]
    BY <1>5 DEF SessionInv
  <2>1. /\ w.seen[u] = None <=> rows[u] = None
        /\ w.seen[u] # None => /\ w.mine[u] # None
                               /\ Same(rows[u], w.seen[u]) /\ Keeps(w.seen[u], w.mine[u])
        /\ u \notin w.hits => w.mine[u] = w.seen[u]
    BY DEF StateInv, SessionInv
  <2> QED BY <1>4, <2>1 DEF Same
<1>9. CurrentInv'
  BY <1>5 DEF CurrentInv
<1>10. AddedInv'
  <2>1. New' = New
    BY <1>5 DEF New
  <2> QED BY <1>5, <2>1 DEF StateInv, AddedInv
<1>11. FinalInv'
  BY <1>5 DEF StateInv, FinalInv
<1>12. CallInv'
  <2> SUFFICES ASSUME NEW d \in Clients, call'[d] # None
               PROVE  call'[d].touched /\ \A u \in call'[d].rows : rows'[u] # None
    BY DEF CallInv
  <2>1. call[d] # None /\ call'[d] = [call[d] EXCEPT !.touched = TRUE]
    BY <1>2
  <2>2. call[d] \in Pending
    BY <2>1 DEF StateInv, TypeInv
  <2>3. call'[d].touched /\ call'[d].rows = call[d].rows /\ call[d].rows \subseteq Urls
    BY <2>1, <2>2 DEF Pending
  <2>4. \A u \in call[d].rows : rows[u] # None
    BY <2>1 DEF StateInv, CallInv
  <2> QED BY <1>4, <2>3, <2>4
<1>13. ASSUME ~call[c].touched
       PROVE  /\ job'.found = 0
              /\ \A u \in Urls : rows'[u] # None => rows'[u].score = 0
  <2>1. call[c].found = job.found /\ call[c].rows = {u \in Urls : rows[u] # None}
    BY <1>13 DEF StateInv, CallInv
  <2> QED BY <1>3, <1>4, <2>1
<1>14. ASSUME ~call[c].touched PROVE Shown' = {}
  BY <1>13, <1>14 DEF Shown
<1>15. CountIsShown'
  <2> SUFFICES ASSUME ~call[c].touched
               PROVE  Cardinality(Shown') = job'.found
                      /\ {rows'[u].rank : u \in Shown'} = 1 .. job'.found
    BY DEF CountIsShown
  <2>1. Shown' = {} /\ job'.found = 0 /\ 1 .. 0 = {}
    BY <1>13, <1>14
  <2> QED BY <2>1, FS_EmptySet
<1>16. ShownIsVerified'
  <2> SUFFICES ASSUME ~call[c].touched, NEW u \in Urls, rows'[u] # None, rows'[u].score > 0
               PROVE  FALSE
    BY DEF ShownIsVerified
  <2>1. rows'[u].score = 0
    BY <1>13
  <2> QED BY <2>1
<1>17. ShownIsDiverse'
  <2> SUFFICES ASSUME ~call[c].touched
               PROVE  LET credible == {u \in Urls : rows'[u] # None /\ rows'[u].score > 0}
                      IN  /\ \A u, v \in Shown' : <<u, v>> \in SameWork => u = v
                          /\ Cardinality(Shown') < Target =>
                               \A u \in credible : \E v \in Shown' : <<u, v>> \in SameWork
                          /\ Cardinality(Shown') <= Target
    BY DEF ShownIsDiverse
  <2>1. Shown' = {} /\ \A u \in Urls : rows'[u] # None => ~(rows'[u].score > 0)
    BY <1>13, <1>14
  <2>2. Cardinality(Shown') = 0 /\ 0 <= Target
    BY <2>1, FS_EmptySet, RankingAssumption
  <2> QED BY <2>1, <2>2
<1> QED BY <1>6, <1>7, <1>8, <1>9, <1>10, <1>11, <1>12, <1>15, <1>16, <1>17
        DEF StateInv, ShownInv

LEMMA Stutter == ASSUME StateInv, ShownInv, UNCHANGED vars PROVE StateInv' /\ ShownInv'
<1>1. UNCHANGED <<job, rows, order, w, call, verified, raced, late, clues>>
  BY DEF vars, history
<1>2. TypeInv' /\ CallInv'
  BY <1>1 DEF StateInv, TypeInv, CallInv
<1> QED BY <1>1, <1>2, SessionKept, ShownKept DEF StateInv

LEMMA RankNext == ASSUME StateInv, ShownInv, [Next]_vars PROVE StateInv' /\ ShownInv'
<1>1. CASE WorkStep
  BY <1>1, BeginStep, ReloadStep, LoadStep, FlushStep, RankStep, CommitStep, AbandonStep
     DEF WorkStep
<1>2. CASE \E c \in Clients : ClueStep(c)
  BY <1>2, ReadClueStep, ResetStep, ClueStepKeeps, ClueFailsStep DEF ClueStep
<1>3. CASE UNCHANGED vars
  BY <1>3, Stutter
<1> QED BY <1>1, <1>2, <1>3 DEF Next

-----------------------------------------------------------------------------
(* The properties                                                          *)

\* The table, the session of the worker and the clues stay related as above.
THEOREM RankInvariant == Spec => [](StateInv /\ ShownInv)
<1>1. Init => StateInv /\ ShownInv
  BY RankInit
<1>2. (StateInv /\ ShownInv) /\ [Next]_vars => (StateInv /\ ShownInv)'
  BY RankNext
<1> QED BY <1>1, <1>2, PTL DEF Spec

\* The rows and the copies of the session are rows of the table's columns, and the
\* ids are those of the rows, each of one.
THEOREM RankingTypeCorrect == Spec => []TypeOK
<1>1. StateInv => TypeOK
  BY DEF StateInv, TypeInv, TableInv, Session, Table, TypeOK
<1> QED BY <1>1, RankInvariant, PTL

\* found_count is the number of results that get_results answers with, ranked from
\* one on without gaps, except after a commit that overtook a clue.
THEOREM CountIsAlwaysShown == Spec => []CountIsShown
<1>1. ShownInv => CountIsShown
  BY DEF ShownInv
<1> QED BY <1>1, RankInvariant, PTL

\* After a clue only what a round has found again has a score, as long as no commit
\* of a round has overlapped with that of a clue.
THEOREM ShownIsAlwaysVerified == Spec => []ShownIsVerified
<1>1. ShownInv => ShownIsVerified
  BY DEF ShownInv
<1> QED BY <1>1, RankInvariant, PTL

\* Of one work one result is shown, and every credible work while there is room,
\* except after a commit that overtook a clue.
THEOREM ShownIsAlwaysDiverse == Spec => []ShownIsDiverse
<1>1. ShownInv => ShownIsDiverse
  BY DEF ShownInv
<1> QED BY <1>1, RankInvariant, PTL

\* The rows that the other steps leave alone
LEMMA EvidenceUntouched ==
    ASSUME StateInv, UNCHANGED rows, NEW u \in Urls, rows[u] # None
    PROVE  Keeps(rows[u], rows'[u])
<1>1. rows[u] \in Result
  BY DEF StateInv, TypeInv, Table
<1> QED BY <1>1, ResultFacts DEF Keeps

LEMMA EvidenceStep == ASSUME StateInv, [Next]_vars, NEW u \in Urls, rows[u] # None
                      PROVE  Keeps(rows[u], rows'[u])
<1>1. CASE UNCHANGED rows
  BY <1>1, EvidenceUntouched
<1>2. CASE Commit
  <2>1. rows'[u] = Update(View[u], w.mine[u], w.final[u]) /\ w.pc = "commit"
    BY <1>2 DEF Commit
  <2> QED BY <2>1, CommittedRow
<1>3. ASSUME NEW c \in Clients, Clue(c) PROVE Keeps(rows[u], rows'[u])
  <2>1. rows[u] \in Result
    BY DEF StateInv, TypeInv, Table
  <2>2. rows'[u] = IF u \in call[c].rows THEN ClueReset(rows[u]) ELSE rows[u]
    BY <1>3 DEF Clue
  <2>3. Same(rows[u], rows'[u])
    BY <2>1, <2>2, ClueResetFacts DEF Same
  <2> QED BY <2>1, <2>3, ResultFacts DEF Keeps, Same
<1>4. CASE Begin \/ Reload \/ Load \/ FlushRows \/ Rank \/ Abandon
  <2>1. UNCHANGED rows
    BY <1>4 DEF Begin, Reload, Load, FlushRows, Rank, Abandon
  <2> QED BY <1>1, <2>1
<1>5. ASSUME NEW c \in Clients, ReadClue(c) \/ ResetRanks(c) \/ ClueFails(c)
      PROVE  Keeps(rows[u], rows'[u])
  <2>1. UNCHANGED rows
    BY <1>5 DEF ReadClue, ResetRanks, ClueFails
  <2> QED BY <1>1, <2>1
<1>6. CASE UNCHANGED vars
  BY <1>1, <1>6 DEF vars
<1> QED BY <1>2, <1>3, <1>4, <1>5, <1>6 DEF Next, WorkStep, ClueStep

\* No commit weakens the evidence of a result or changes the token of its image,
\* not even one that was overtaken.
THEOREM EvidenceAlwaysStays == Spec => EvidenceStays
<1>1. StateInv /\ ShownInv /\ [Next]_vars =>
        [\A u \in Urls : rows[u] # None =>
           /\ rows'[u].quality >= rows[u].quality
           /\ rows[u].token # 0 => rows'[u].token = rows[u].token]_vars
  BY EvidenceStep DEF Keeps
<1>2. Spec => [](StateInv /\ ShownInv)
  BY RankInvariant
<1> QED BY <1>1, <1>2, PTL DEF Spec, EvidenceStays
=============================================================================
