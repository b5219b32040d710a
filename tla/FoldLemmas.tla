----------------------------- MODULE FoldLemmas -----------------------------
(***************************************************************************)
(* Recursion over sequences.  FoldLeft of SequencesExt is a choice of a    *)
(* recursive function on the sets of indices, a local recursive function   *)
(* one on the indices themselves: a proof needs that there is such a       *)
(* function, and induction over the indices.                               *)
(*                                                                         *)
(* An operator cannot be a parameter of a lemma that the provers can use:  *)
(* the step of the recursion is a function here.                           *)
(***************************************************************************)
EXTENDS Integers, Sequences, FiniteSetsExt, WellFoundedInduction, TLAPS

\* Induction, for a set: one that has 0 and with n also n + 1 has every number.
LEMMA NatSets ==
    ASSUME NEW T, 0 \in T, \A n \in Nat : n \in T => n + 1 \in T
    PROVE  Nat \subseteq T
<1> DEFINE U == Nat \ T
<1> SUFFICES ASSUME U # {} PROVE FALSE
  OBVIOUS
<1>1. \E x \in U : \A y \in U : ~(<<y, x>> \in OpToRel(<, Nat))
  <2> HIDE DEF U
  <2>1. U \subseteq Nat
    BY DEF U
  <2> QED BY <2>1, NatLessThanWellFounded, WFMin
<1>2. PICK x \in U : \A y \in U : ~(y < x)
  BY <1>1 DEF OpToRel
<1>3. x # 0 /\ x - 1 \in Nat /\ x - 1 < x
  OBVIOUS
<1>4. x - 1 \in T
  BY <1>2, <1>3
<1>5. (x - 1) + 1 \in T
  BY <1>3, <1>4
<1> QED BY <1>5

\* Induction up to n
LEMMA IndexInduction ==
    ASSUME NEW n \in Nat, NEW T, 0 \in T, \A i \in 1 .. n : i - 1 \in T => i \in T
    PROVE  n \in T
<1> DEFINE U == {i \in Nat : i <= n => i \in T}
<1>1. 0 \in U
  OBVIOUS
<1>2. ASSUME NEW i \in Nat, i \in U PROVE i + 1 \in U
  <2> SUFFICES ASSUME i + 1 <= n PROVE i + 1 \in T
    OBVIOUS
  <2>1. i + 1 \in 1 .. n /\ (i + 1) - 1 = i /\ i \in T
    BY <1>2
  <2> QED BY <2>1
<1> HIDE DEF U
<1>3. n \in U
  BY <1>1, <1>2, NatSets
<1> QED BY <1>3 DEF U

\* The recursion FoldLeft chooses a solution of, for a function st as its step.
Rec(g, st, b, s, m) ==
    g = [t \in SUBSET (1 .. m) |->
           IF t = {} THEN b ELSE st[<<g[t \ {Max(t)}], s[Max(t)]>>]]

\* The largest index of a set of indices
LEMMA MaxOfIndices == ASSUME NEW m \in Nat, NEW t \in SUBSET (1 .. m + 1), m + 1 \in t
                      PROVE  Max(t) = m + 1 /\ t \ {m + 1} \in SUBSET (1 .. m)
<1>1. \A y \in t : m + 1 >= y
  OBVIOUS
<1>2. \A x \in t : (\A y \in t : x >= y) => x = m + 1
  OBVIOUS
<1>3. Max(t) = m + 1
  BY <1>1, <1>2 DEF Max
<1> QED BY <1>3

LEMMA MaxIsIndex == ASSUME NEW n \in Nat, NEW t \in SUBSET (1 .. n), t # {}
                    PROVE  Max(t) \in t
<1> DEFINE T == {m \in Nat : \A u \in SUBSET (1 .. m) : u # {} => Max(u) \in u}
<1>1. 0 \in T
  <2>1. SUBSET (1 .. 0) = {{}}
    OBVIOUS
  <2> QED BY <2>1
<1>2. ASSUME NEW m \in Nat, m \in T PROVE m + 1 \in T
  <2> SUFFICES ASSUME NEW u \in SUBSET (1 .. m + 1), u # {} PROVE Max(u) \in u
    OBVIOUS
  <2>1. CASE m + 1 \in u
    BY <2>1, MaxOfIndices
  <2>2. CASE m + 1 \notin u
    <3>1. u \in SUBSET (1 .. m)
      BY <2>2
    <3> QED BY <1>2, <3>1
  <2> QED BY <2>1, <2>2
<1> HIDE DEF T
<1>3. n \in T
  BY <1>1, <1>2, NatSets
<1> QED BY <1>3 DEF T

\* The prefixes of the indices are what the recursion from all of them meets.
LEMMA MaxOfPrefix == ASSUME NEW n \in Nat, NEW i \in 1 .. n
                     PROVE  /\ 1 .. i \in SUBSET (1 .. n) /\ 1 .. i # {}
                            /\ Max(1 .. i) = i /\ (1 .. i) \ {i} = 1 .. (i - 1)
<1>1. i \in 1 .. i /\ \A y \in 1 .. i : i >= y
  OBVIOUS
<1>2. Max(1 .. i) = i
  BY <1>1 DEF Max
<1>3. (1 .. i) \ {i} = 1 .. (i - 1)
  OBVIOUS
<1> QED BY <1>1, <1>2, <1>3

\* There is a solution, for every number of indices.
LEMMA RecExists == ASSUME NEW st, NEW b, NEW s, NEW n \in Nat
                   PROVE  \E g : Rec(g, st, b, s, n)
<1> DEFINE T == {m \in Nat : \E g : Rec(g, st, b, s, m)}
<1>1. 0 \in T
  <2> DEFINE g == [t \in SUBSET (1 .. 0) |-> b]
  <2>1. Rec(g, st, b, s, 0)
    BY DEF Rec
  <2> QED BY <2>1
<1>2. ASSUME NEW m \in Nat, m \in T PROVE m + 1 \in T
  <2>1. PICK g : Rec(g, st, b, s, m)
    BY <1>2
  <2> DEFINE h == [t \in SUBSET (1 .. m + 1) |->
                     IF m + 1 \notin t THEN g[t] ELSE st[<<g[t \ {m + 1}], s[m + 1]>>]]
  <2>2. ASSUME NEW t \in SUBSET (1 .. m + 1)
        PROVE h[t] = IF t = {} THEN b ELSE st[<<h[t \ {Max(t)}], s[Max(t)]>>]
    <3>1. CASE m + 1 \in t
      <4>1. h[t \ {m + 1}] = g[t \ {m + 1}]
        BY <3>1, MaxOfIndices
      <4> QED BY <3>1, <4>1, MaxOfIndices
    <3>2. CASE m + 1 \notin t
      <4>1. t \in SUBSET (1 .. m) /\ h[t] = g[t]
        BY <3>2
      <4>2. t \ {Max(t)} \in SUBSET (1 .. m + 1) /\ m + 1 \notin t \ {Max(t)}
        BY <3>2
      <4>3. h[t \ {Max(t)}] = g[t \ {Max(t)}]
        BY <4>2
      <4> QED BY <2>1, <4>1, <4>3 DEF Rec
    <3> QED BY <3>1, <3>2
  <2>3. h = [t \in SUBSET (1 .. m + 1) |-> h[t]]
    OBVIOUS
  <2> HIDE DEF h
  <2>4. Rec(h, st, b, s, m + 1)
    BY <2>2, <2>3 DEF Rec
  <2> QED BY <2>4
<1> HIDE DEF T
<1>3. n \in T
  BY <1>1, <1>2, NatSets
<1> QED BY <1>3 DEF T

\* When the step keeps A, every value of the solution is in A.
LEMMA RecStays ==
    ASSUME NEW A, NEW X, NEW st \in [A \X X -> A], NEW b \in A, NEW n \in Nat,
           NEW s \in [1 .. n -> X], NEW g, Rec(g, st, b, s, n)
    PROVE  \A t \in SUBSET (1 .. n) : g[t] \in A
<1> DEFINE T == {m \in Nat : m <= n => \A t \in SUBSET (1 .. m) : g[t] \in A}
<1>1. 0 \in T
  <2>1. SUBSET (1 .. 0) = {{}} /\ {} \in SUBSET (1 .. n)
    OBVIOUS
  <2>2. g[{}] = b
    BY <2>1 DEF Rec
  <2> QED BY <2>1, <2>2
<1>2. ASSUME NEW m \in Nat, m \in T PROVE m + 1 \in T
  <2> SUFFICES ASSUME m + 1 <= n, NEW t \in SUBSET (1 .. m + 1) PROVE g[t] \in A
    OBVIOUS
  <2>1. CASE m + 1 \in t
    <3>1. g[t \ {m + 1}] \in A
      <4>1. t \ {m + 1} \in SUBSET (1 .. m) /\ m <= n
        BY <2>1, MaxOfIndices
      <4> QED BY <1>2, <4>1
    <3>2. t \in SUBSET (1 .. n) /\ m + 1 \in 1 .. n
      OBVIOUS
    <3>3. g[t] = st[<<g[t \ {m + 1}], s[m + 1]>>]
      BY <2>1, <3>2, MaxOfIndices DEF Rec
    <3> QED BY <3>1, <3>2, <3>3
  <2>2. CASE m + 1 \notin t
    <3>1. t \in SUBSET (1 .. m)
      BY <2>2
    <3> QED BY <3>1, <1>2
  <2> QED BY <2>1, <2>2
<1> HIDE DEF T
<1>3. n \in T
  BY <1>1, <1>2, NatSets
<1> QED BY <1>3 DEF T
-----------------------------------------------------------------------------
\* A recursion over the indices of a sequence, for a function st as its step
Recurs(g, st, b, n) == g = [i \in 0 .. n |-> IF i = 0 THEN b ELSE st[<<i, g[i - 1]>>]]

\* It has a solution, for every number of indices.
LEMMA IndexRecursion == ASSUME NEW n \in Nat, NEW b, NEW st
                        PROVE  \E g : Recurs(g, st, b, n)
<1> DEFINE T == {m \in Nat : \E g : Recurs(g, st, b, m)}
<1>1. 0 \in T
  <2> DEFINE g == [i \in 0 .. 0 |-> b]
  <2>1. Recurs(g, st, b, 0)
    BY DEF Recurs
  <2> QED BY <2>1
<1>2. ASSUME NEW m \in Nat, m \in T PROVE m + 1 \in T
  <2>1. PICK g : Recurs(g, st, b, m)
    BY <1>2
  <2> DEFINE h == [i \in 0 .. m + 1 |-> IF i <= m THEN g[i] ELSE st[<<m + 1, g[m]>>]]
  <2>2. ASSUME NEW i \in 0 .. m + 1
        PROVE  h[i] = IF i = 0 THEN b ELSE st[<<i, h[i - 1]>>]
    <3>1. CASE i <= m
      <4>1. h[i] = g[i] /\ (i # 0 => h[i - 1] = g[i - 1])
        BY <3>1
      <4> QED BY <2>1, <3>1, <4>1 DEF Recurs
    <3>2. CASE i = m + 1
      BY <3>2
    <3> QED BY <3>1, <3>2
  <2>3. h = [i \in 0 .. m + 1 |-> h[i]]
    OBVIOUS
  <2> HIDE DEF h
  <2>4. Recurs(h, st, b, m + 1)
    BY <2>2, <2>3 DEF Recurs
  <2> QED BY <2>4
<1> HIDE DEF T
<1>3. n \in T
  BY <1>1, <1>2, NatSets
<1> QED BY <1>3 DEF T

\* g[i]: of the first i elements of s those at the indices of at, in their order
Picks(g, s, at) ==
    g = [i \in 0 .. Len(s) |-> IF i = 0 THEN <<>>
                               ELSE IF i \in at THEN Append(g[i - 1], s[i]) ELSE g[i - 1]]

LEMMA PicksExists == ASSUME NEW X, NEW s \in Seq(X), NEW at
                     PROVE  \E g : Picks(g, s, at)
<1> DEFINE st == [p \in (1 .. Len(s)) \X Seq(X) |->
                    IF p[1] \in at THEN Append(p[2], s[p[1]]) ELSE p[2]]
<1>1. Len(s) \in Nat
  OBVIOUS
<1>2. \A i \in 1 .. Len(s), q \in Seq(X) :
        st[<<i, q>>] = (IF i \in at THEN Append(q, s[i]) ELSE q) /\ st[<<i, q>>] \in Seq(X)
  OBVIOUS
<1> HIDE DEF st
<1>3. PICK g : Recurs(g, st, <<>>, Len(s))
  BY <1>1, IndexRecursion
<1>4. g[0] = <<>> /\ \A i \in 1 .. Len(s) : g[i] = st[<<i, g[i - 1]>>]
  BY <1>1, <1>3 DEF Recurs
<1>5. ASSUME NEW n \in 0 .. Len(s) PROVE g[n] \in Seq(X)
  <2> DEFINE T == {i \in 0 .. Len(s) : g[i] \in Seq(X)}
  <2>1. 0 \in T
    <3>1. <<>> \in Seq(X)
      OBVIOUS
    <3>2. g[0] \in Seq(X)
      BY <1>4, <3>1
    <3> QED BY <1>1, <3>2
  <2>2. ASSUME NEW i \in 1 .. n, i - 1 \in T PROVE i \in T
    <3>1. i \in 1 .. Len(s) /\ g[i - 1] \in Seq(X)
      BY <2>2
    <3>2. g[i] \in Seq(X)
      BY <1>2, <1>4, <3>1
    <3> QED BY <3>1, <3>2
  <2> HIDE DEF T
  <2>3. n \in T
    BY <2>1, <2>2, IndexInduction
  <2> QED BY <2>3 DEF T
<1>6. ASSUME NEW i \in 1 .. Len(s)
      PROVE  g[i] = IF i \in at THEN Append(g[i - 1], s[i]) ELSE g[i - 1]
  <2>1. g[i - 1] \in Seq(X)
    BY <1>5
  <2> QED BY <1>2, <1>4, <2>1
<1>7. Picks(g, s, at)
  <2>1. g = [i \in 0 .. Len(s) |-> g[i]]
    BY <1>3 DEF Recurs
  <2>2. ASSUME NEW i \in 0 .. Len(s)
        PROVE  g[i] = IF i = 0 THEN <<>>
                      ELSE IF i \in at THEN Append(g[i - 1], s[i]) ELSE g[i - 1]
    BY <1>1, <1>4, <1>6
  <2> QED BY <2>1, <2>2 DEF Picks
<1> QED BY <1>7

\* q has those of the first i elements of s that are at indices of at, in their
\* order.
Picked(q, s, at, i) ==
    /\ Len(q) <= i
    /\ \A k \in 1 .. Len(q) : \E m \in at : m \in 1 .. i /\ q[k] = s[m]
    /\ \A k, l \in 1 .. Len(q) : k < l =>
         \E m, o \in at : m \in 1 .. i /\ o \in 1 .. i /\ m < o /\ q[k] = s[m] /\ q[l] = s[o]
    /\ \A m \in at : m \in 1 .. i => \E k \in 1 .. Len(q) : q[k] = s[m]

LEMMA PickedGrows ==
    ASSUME NEW X, NEW s \in Seq(X), NEW at, NEW i \in 1 .. Len(s), i \in at,
           NEW q \in Seq(X), Picked(q, s, at, i - 1)
    PROVE  Append(q, s[i]) \in Seq(X) /\ Picked(Append(q, s[i]), s, at, i)
<1> DEFINE r == Append(q, s[i])
<1>1. s[i] \in X /\ Len(q) \in Nat /\ Len(q) <= i - 1
  BY DEF Picked
<1>2. r \in Seq(X) /\ Len(r) = Len(q) + 1 /\ r[Len(q) + 1] = s[i]
      /\ \A k \in 1 .. Len(q) : r[k] = q[k]
  BY <1>1
<1> HIDE DEF r
<1>3. /\ \A k \in 1 .. Len(r) : k \in 1 .. Len(q) \/ k = Len(q) + 1
      /\ \A k \in 1 .. Len(q) : k \in 1 .. Len(r)
      /\ Len(q) + 1 \in 1 .. Len(r)
      /\ \A m \in 1 .. i : m \in 1 .. i - 1 \/ m = i
      /\ i \in 1 .. i /\ \A m \in 1 .. i - 1 : m \in 1 .. i /\ m < i
  BY <1>1, <1>2
<1>4. ASSUME NEW k \in 1 .. Len(r) PROVE \E m \in at : m \in 1 .. i /\ r[k] = s[m]
  <2>1. CASE k \in 1 .. Len(q)
    <3>1. PICK m \in at : m \in 1 .. i - 1 /\ q[k] = s[m]
      BY <2>1 DEF Picked
    <3> QED BY <1>2, <1>3, <2>1, <3>1
  <2>2. CASE k = Len(q) + 1
    BY <1>2, <1>3, <2>2
  <2> QED BY <1>3, <2>1, <2>2
<1>5. ASSUME NEW k \in 1 .. Len(r), NEW l \in 1 .. Len(r), k < l
      PROVE  \E m, o \in at : m \in 1 .. i /\ o \in 1 .. i /\ m < o /\ r[k] = s[m] /\ r[l] = s[o]
  <2>1. k \in 1 .. Len(q)
    BY <1>2, <1>5
  <2>2. CASE l \in 1 .. Len(q)
    <3>1. \E m, o \in at : m \in 1 .. i - 1 /\ o \in 1 .. i - 1 /\ m < o
                           /\ q[k] = s[m] /\ q[l] = s[o]
      BY <1>5, <2>1, <2>2 DEF Picked
    <3> QED BY <1>2, <1>3, <2>1, <2>2, <3>1
  <2>3. CASE l = Len(q) + 1
    <3>1. PICK m \in at : m \in 1 .. i - 1 /\ q[k] = s[m]
      BY <2>1 DEF Picked
    <3> QED BY <1>2, <1>3, <2>1, <2>3, <3>1
  <2> QED BY <1>3, <2>2, <2>3
<1>6. ASSUME NEW m \in at, m \in 1 .. i PROVE \E k \in 1 .. Len(r) : r[k] = s[m]
  <2>1. CASE m = i
    BY <1>2, <1>3, <2>1
  <2>2. CASE m \in 1 .. i - 1
    <3>1. PICK k \in 1 .. Len(q) : q[k] = s[m]
      BY <2>2 DEF Picked
    <3> QED BY <1>2, <1>3, <3>1
  <2> QED BY <1>3, <1>6, <2>1, <2>2
<1>7. Len(r) <= i
  BY <1>1, <1>2
<1> QED BY <1>2, <1>4, <1>5, <1>6, <1>7 DEF Picked, r

LEMMA PickedStays ==
    ASSUME NEW s, NEW at, NEW i \in Nat \ {0}, i \notin at, NEW q, Len(q) \in Nat,
           Picked(q, s, at, i - 1)
    PROVE  Picked(q, s, at, i)
<1>1. /\ \A m \in at : m \in 1 .. i => m \in 1 .. i - 1
      /\ \A m \in 1 .. i - 1 : m \in 1 .. i
  OBVIOUS
<1>2. Len(q) <= i
  BY DEF Picked
<1>3. \A k \in 1 .. Len(q) : \E m \in at : m \in 1 .. i /\ q[k] = s[m]
  BY <1>1 DEF Picked
<1>4. ASSUME NEW k \in 1 .. Len(q), NEW l \in 1 .. Len(q), k < l
      PROVE  \E m, o \in at : m \in 1 .. i /\ o \in 1 .. i /\ m < o /\ q[k] = s[m] /\ q[l] = s[o]
  <2>1. \E m, o \in at : m \in 1 .. i - 1 /\ o \in 1 .. i - 1 /\ m < o
                         /\ q[k] = s[m] /\ q[l] = s[o]
    BY <1>4 DEF Picked
  <2> QED BY <1>1, <2>1
<1>5. \A m \in at : m \in 1 .. i => \E k \in 1 .. Len(q) : q[k] = s[m]
  BY <1>1 DEF Picked
<1> QED BY <1>2, <1>3, <1>4, <1>5 DEF Picked

LEMMA PicksSteps ==
    ASSUME NEW X, NEW s \in Seq(X), NEW at, NEW g, Picks(g, s, at)
    PROVE  /\ g[0] = <<>>
           /\ \A i \in 1 .. Len(s) :
                g[i] = IF i \in at THEN Append(g[i - 1], s[i]) ELSE g[i - 1]
<1>1. Len(s) \in Nat
  OBVIOUS
<1>2. \A i \in 0 .. Len(s) :
        g[i] = IF i = 0 THEN <<>> ELSE IF i \in at THEN Append(g[i - 1], s[i]) ELSE g[i - 1]
  BY DEF Picks
<1> QED BY <1>1, <1>2

\* What the recursion has at each index, and that it only grows
LEMMA PicksArePicked ==
    ASSUME NEW X, NEW s \in Seq(X), NEW at, NEW g, Picks(g, s, at)
    PROVE  \A i \in 0 .. Len(s) : g[i] \in Seq(X) /\ Picked(g[i], s, at, i)
<1>1. Len(s) \in Nat
  OBVIOUS
<1>2. g[0] = <<>> /\ \A i \in 1 .. Len(s) :
        g[i] = IF i \in at THEN Append(g[i - 1], s[i]) ELSE g[i - 1]
  BY PicksSteps
<1> SUFFICES ASSUME NEW n \in 0 .. Len(s) PROVE g[n] \in Seq(X) /\ Picked(g[n], s, at, n)
  OBVIOUS
<1> DEFINE T == {i \in 0 .. Len(s) : g[i] \in Seq(X) /\ Picked(g[i], s, at, i)}
<1>3. 0 \in T
  <2>1. <<>> \in Seq(X) /\ Len(<<>>) = 0
    OBVIOUS
  <2>2. Picked(<<>>, s, at, 0)
    BY <2>1 DEF Picked
  <2>3. g[0] \in Seq(X) /\ Picked(g[0], s, at, 0)
    BY <1>2, <2>1, <2>2
  <2> QED BY <1>1, <2>3
<1>4. ASSUME NEW i \in 1 .. n, i - 1 \in T PROVE i \in T
  <2>1. i \in 1 .. Len(s) /\ g[i - 1] \in Seq(X) /\ Picked(g[i - 1], s, at, i - 1)
    BY <1>4
  <2>2. CASE i \in at
    <3>1. g[i] = Append(g[i - 1], s[i])
      BY <1>2, <2>1, <2>2
    <3>2. g[i] \in Seq(X) /\ Picked(g[i], s, at, i)
      BY <2>1, <2>2, <3>1, PickedGrows
    <3> QED BY <2>1, <3>2
  <2>3. CASE i \notin at
    <3>1. g[i] = g[i - 1]
      BY <1>2, <2>1, <2>3
    <3>2. Len(g[i]) \in Nat /\ i \in Nat \ {0}
      BY <2>1, <3>1
    <3>3. g[i] \in Seq(X) /\ Picked(g[i], s, at, i)
      BY <2>1, <2>3, <3>1, <3>2, PickedStays
    <3> QED BY <2>1, <3>3
  <2> QED BY <2>2, <2>3
<1> HIDE DEF T
<1>5. n \in T
  BY <1>3, <1>4, IndexInduction
<1> QED BY <1>5 DEF T

\* The first l elements of r are q.
Begins(q, r) == Len(q) <= Len(r) /\ \A k \in 1 .. Len(q) : r[k] = q[k]

LEMMA PicksGrow ==
    ASSUME NEW X, NEW s \in Seq(X), NEW at, NEW g, Picks(g, s, at), NEW i \in 0 .. Len(s)
    PROVE  Begins(g[i], g[Len(s)])
<1>1. Len(s) \in Nat /\ \A j \in 0 .. Len(s) : g[j] \in Seq(X)
  BY PicksArePicked
<1> DEFINE T == {j \in 0 .. Len(s) : i <= j => Begins(g[i], g[j])}
<1>2. 0 \in T
  <2>1. i <= 0 => i = 0
    OBVIOUS
  <2> QED BY <1>1, <2>1 DEF Begins
<1>3. ASSUME NEW j \in 1 .. Len(s), j - 1 \in T PROVE j \in T
  <2>1. CASE i = j
    <3>1. Len(g[i]) \in Nat
      BY <1>1
    <3> QED BY <2>1, <3>1 DEF Begins
  <2>2. CASE i < j
    <3>1. Begins(g[i], g[j - 1])
      BY <1>3, <2>2
    <3>2. g[j] = IF j \in at THEN Append(g[j - 1], s[j]) ELSE g[j - 1]
      BY PicksSteps
    <3>3. g[i] \in Seq(X) /\ g[j - 1] \in Seq(X) /\ s[j] \in X
      BY <1>1
    <3>4. Len(g[j]) >= Len(g[j - 1]) /\ \A k \in 1 .. Len(g[j - 1]) : g[j][k] = g[j - 1][k]
      BY <3>2, <3>3
    <3>5. Len(g[i]) \in Nat /\ Len(g[j - 1]) \in Nat /\ Len(g[j]) \in Nat
      BY <1>1
    <3>6. Begins(g[i], g[j])
      BY <3>1, <3>4, <3>5 DEF Begins
    <3> QED BY <3>6
  <2>3. CASE i > j
    BY <2>3
  <2> QED BY <2>1, <2>2, <2>3
<1> HIDE DEF T
<1>4. Len(s) \in T
  BY <1>1, <1>2, <1>3, IndexInduction
<1> QED BY <1>1, <1>4 DEF T
=============================================================================
