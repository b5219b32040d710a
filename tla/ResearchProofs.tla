--------------------------- MODULE ResearchProofs ---------------------------
(***************************************************************************)
(* Proofs about the rounds of Research and the EgressRouter under them,    *)
(* for any number of pages, requests, hosts and exits:                     *)
(*   - no exit is blocked for longer than its failures allow, and no       *)
(*     request goes where the router has not looked;                       *)
(*   - what the sequences of candidates and of exits are made of: a        *)
(*     selection, a concatenation, a beginning, each URL once;             *)
(*   - no exit that works is missed, and a host keeps its exit;            *)
(*   - the candidates stay within the budget and keep their reserve.       *)
(***************************************************************************)
EXTENDS Research, FoldLemmas, FiniteSetTheorems, FunctionTheorems

\* The two maps of the breaker
BreakerTypeOK == streak \in [Exits -> 0 .. MaxStreak] /\ cool \in [Exits -> Nat]

BreakerInv == BreakerTypeOK /\ BlockedByFailures

LEMMA CooldownIsNat == \A n \in 0 .. MaxStreak : Cooldown(n) \in Nat
<1> SUFFICES ASSUME NEW n \in 0 .. MaxStreak PROVE Cooldown(n) \in Nat
  OBVIOUS
<1>1. n \in {0, 1, 2, 3, 4, 5, 6}
  BY DEF MaxStreak
<1> QED BY <1>1 DEF Cooldown

LEMMA BreakerInit == Init => BreakerInv
BY CooldownIsNat DEF Init, RouterInit, BreakerInv, BreakerTypeOK, BlockedByFailures, MaxStreak,
                     Cooldown

LEMMA BreakerStep == ASSUME BreakerInv, [Next]_vars PROVE BreakerInv'
<1> USE DEF BreakerInv, BreakerTypeOK, BlockedByFailures
<1>1. ASSUME UNCHANGED <<streak, cool>> PROVE BreakerInv'
  BY <1>1
<1>2. ASSUME NEW u \in Requests, Fetch(u) PROVE BreakerInv'
  <2>1. CASE Succeed(u)
    <3>1. streak' \in [Exits -> 0 .. MaxStreak] /\ cool' \in [Exits -> Nat]
      <4>1. 0 \in 0 .. MaxStreak /\ 0 \in Nat
        BY DEF MaxStreak
      <4> QED BY <2>1, <4>1, ZenonT(30) DEF Succeed
    <3>2. ASSUME NEW x \in Exits PROVE cool'[x] <= Cooldown(streak'[x])
      <4>1. CASE x = Route(u)
        BY <2>1, <4>1 DEF Succeed, Cooldown
      <4>2. CASE x # Route(u)
        BY <2>1, <4>2 DEF Succeed
      <4> QED BY <4>1, <4>2
    <3> QED BY <3>1, <3>2
  <2>2. CASE Fail(u)
    <3>1. Block(Route(u))
      BY <2>2 DEF Fail
    <3> DEFINE r == Route(u)
    <3> HIDE DEF r
    <3>2. Block(r)
      BY <3>1 DEF r
    <3>3. streak' \in [Exits -> 0 .. MaxStreak]
      <4>1. CASE r \in Exits
        <5>1. (IF streak[r] < MaxStreak THEN streak[r] + 1 ELSE streak[r]) \in 0 .. MaxStreak
          BY <4>1 DEF MaxStreak
        <5> QED BY <3>2, <5>1 DEF Block
      <4>2. CASE r \notin Exits
        BY <3>2, <4>2 DEF Block
      <4> QED BY <4>1, <4>2
    <3>4. cool' \in [Exits -> Nat]
      BY <3>2, <3>3, CooldownIsNat DEF Block
    <3>5. ASSUME NEW x \in Exits PROVE cool'[x] <= Cooldown(streak'[x])
      <4>1. CASE x # r
        BY <3>2, <4>1 DEF Block
      <4>2. CASE x = r /\ streak'[r] < 2
        <5>1. /\ streak[x] \in 0 .. MaxStreak
              /\ streak'[x] = IF streak[x] < MaxStreak THEN streak[x] + 1 ELSE streak[x]
          BY <3>2, <4>2 DEF Block
        <5>2. streak[x] < 2 /\ streak'[x] < 2
          BY <4>2, <5>1 DEF MaxStreak
        <5>3. cool'[x] = cool[x] /\ cool[x] <= Cooldown(streak[x])
          BY <3>2, <4>2 DEF Block
        <5> QED BY <5>2, <5>3 DEF Cooldown
      <4>3. CASE x = r /\ ~(streak'[r] < 2)
        <5>1. cool'[x] = Cooldown(streak'[x])
          BY <3>2, <4>3 DEF Block
        <5> QED BY <5>1, <3>3, CooldownIsNat
      <4> QED BY <4>1, <4>2, <4>3
    <3> QED BY <3>3, <3>4, <3>5
  <2>3. CASE UNCHANGED <<streak, cool>>
    BY <1>1, <2>3
  <2> QED BY <1>2, <2>1, <2>2, <2>3
          DEF Fetch, Answer, Lookup, Deny, DenyLegally, BreakOff, Redirect
<1>3. CASE Pass
  <2>1. /\ streak' = streak
        /\ cool' = [r \in Exits |-> IF cool[r] > 0 THEN cool[r] - 1 ELSE 0]
    BY <1>3 DEF Pass, Cool
  <2>2. \A r \in Exits : Cooldown(streak[r]) \in Nat
    BY CooldownIsNat
  <2> QED BY <2>1, <2>2
<1>4. CASE Round
  BY <1>1, <1>4 DEF Round, Search, NoSearch, EndSearch, Start, Begin, EndImages, EndPages,
                    routerVars
<1>5. CASE UNCHANGED vars
  BY <1>1, <1>5 DEF vars, routerVars
<1> QED BY <1>2, <1>3, <1>4, <1>5 DEF Next

\* docs/VPN.md:99: whatever the number of requests under way and the order in
\* which they fail and succeed, an exit is blocked only for failures since its last
\* success, and for no longer than they allow.
THEOREM BreakerIsFair == Spec => []BlockedByFailures
<1>1. BreakerInv => BlockedByFailures
  BY DEF BreakerInv
<1> QED BY BreakerInit, BreakerStep, <1>1, PTL DEF Spec

-----------------------------------------------------------------------------
\* What of its type a request needs: its fields, and the hosts it is about.
IsRequest(q) ==
    /\ q \in [pc : {"idle", "check", "sent", "done"}, out : {q.out}, host : {q.host},
              target : {q.target}, routes : {q.routes}, i : {q.i}, hops : {q.hops},
              stuck : {q.stuck}]
    /\ q.pc \in {"check", "sent"} => q.host \in Hosts /\ q.target \in Hosts

TargetInv ==
    /\ ruling \in [Hosts -> {"unknown", "allowed", "refused"}]
    /\ req = [c \in Requests |-> req[c]]
    /\ \A c \in Requests : IsRequest(req[c])

\* A request that is on its way goes where the router has looked, and found no
\* fault.
MaySend(q) == IsRequest(q) /\ (q.pc = "sent" => ruling[q.target] = "allowed")

LEMMA DoneMaySend == \A out : MaySend(Done(out)) /\ MaySend(Unsent)
BY DEF MaySend, IsRequest, Done, Unsent

LEMMA VisitMaySend ==
    ASSUME TargetInv, NEW q, IsRequest(q), q.host \in Hosts, NEW h \in Hosts
    PROVE  MaySend(Visit(q, h))
<1>1. CASE ruling[h] = "refused"
  <2>1. Visit(q, h) = Done("target")
    BY <1>1 DEF Visit
  <2> QED BY <2>1, DoneMaySend
<1>2. CASE ruling[h] # "refused"
  BY <1>2 DEF Visit, MaySend, IsRequest
<1> QED BY <1>1, <1>2

\* Off through the exits the router has chosen, to the target just allowed
LEMMA RoutedSends ==
    ASSUME NEW q, IsRequest(q), q.host \in Hosts, q.target \in Hosts
    PROVE  /\ IsRequest(Routed(q))
           /\ Routed(q).pc = "sent" => Routed(q).target = q.target
<1>1. CASE RoutesFor(q.host) = <<>>
  <2>1. Routed(q) = Done("other")
    BY <1>1 DEF Routed
  <2> QED BY <2>1 DEF Done, Unsent, IsRequest
<1>2. CASE RoutesFor(q.host) # <<>>
  <2>1. Routed(q) = [q EXCEPT !.pc = "sent", !.routes = RoutesFor(q.host), !.i = 1,
                              !.stuck = sticky[q.host]]
    BY <1>2 DEF Routed
  <2> QED BY <2>1 DEF IsRequest
<1> QED BY <1>1, <1>2

LEMMA NextRouteMaySend ==
    ASSUME TargetInv, NEW q, IsRequest(q), q.host \in Hosts, NEW out
    PROVE  MaySend(NextRoute(q, out))
<1>1. IsRequest([q EXCEPT !.i = @ + 1, !.hops = 0])
      /\ [q EXCEPT !.i = @ + 1, !.hops = 0].host = q.host
  BY DEF IsRequest
<1> DEFINE r == [q EXCEPT !.i = @ + 1, !.hops = 0]
<1> HIDE DEF r
<1>2. MaySend(Visit(r, q.host))
  BY <1>1, VisitMaySend DEF r
<1> QED BY <1>2, DoneMaySend DEF NextRoute, r

\* What SentOnlyToAllowed says of a step
Sends == \A c \in Requests :
           req'[c].pc = "sent" /\ req'[c] # req[c] => ruling'[req'[c].target] = "allowed"

LEMMA OneRequest ==
    ASSUME TargetInv, NEW c \in Requests, NEW q, req' = [req EXCEPT ![c] = q],
           ruling' \in [Hosts -> {"unknown", "allowed", "refused"}],
           IsRequest(q), q.pc = "sent" => ruling'[q.target] = "allowed"
    PROVE  TargetInv' /\ Sends
<1>1. \A d \in Requests : req'[d] = IF d = c THEN q ELSE req[d]
  BY DEF TargetInv
<1>2. req' = [d \in Requests |-> req'[d]]
  BY DEF TargetInv
<1> QED BY <1>1, <1>2 DEF TargetInv, Sends, IsRequest

LEMMA AnswerSends == ASSUME TargetInv, NEW c \in Requests, Answer(c)
                     PROVE  TargetInv' /\ Sends
<1>1. IsRequest(req[c]) /\ ruling \in [Hosts -> {"unknown", "allowed", "refused"}]
  BY DEF TargetInv
<1>2. req[c].pc \in {"check", "sent"} => req[c].host \in Hosts /\ req[c].target \in Hosts
  BY <1>1 DEF IsRequest
<1>3. ASSUME NEW q, req' = [req EXCEPT ![c] = q], ruling' = ruling, MaySend(q)
      PROVE  TargetInv' /\ Sends
  BY <1>1, <1>3, OneRequest DEF MaySend
<1>4. ASSUME NEW answer \in {"allowed", "refused"}, Lookup(c, answer)
      PROVE  TargetInv' /\ Sends
  <2>1. req[c].pc = "check" /\ ruling' = [ruling EXCEPT ![req[c].target] = answer]
    BY <1>4 DEF Lookup
  <2>2. /\ ruling' \in [Hosts -> {"unknown", "allowed", "refused"}]
        /\ ruling'[req[c].target] = answer
    BY <1>1, <1>2, <2>1
  <2>3. CASE answer = "refused"
    <3>1. req' = [req EXCEPT ![c] = Done("target")]
      BY <1>4, <2>3 DEF Lookup
    <3>2. IsRequest(Done("target")) /\ Done("target").pc = "done"
      BY DEF IsRequest, Done, Unsent
    <3> QED BY <2>2, <3>1, <3>2, OneRequest
  <2>4. CASE answer # "refused" /\ req[c].i = 0
    <3>1. req' = [req EXCEPT ![c] = Routed(req[c])]
      BY <1>4, <2>4 DEF Lookup
    <3>2. /\ IsRequest(Routed(req[c]))
          /\ Routed(req[c]).pc = "sent" => Routed(req[c]).target = req[c].target
      BY <1>1, <1>2, <2>1, RoutedSends
    <3> QED BY <2>2, <2>4, <3>1, <3>2, OneRequest
  <2>5. CASE answer # "refused" /\ req[c].i # 0
    <3> DEFINE q == [req[c] EXCEPT !.pc = "sent"]
    <3>1. req' = [req EXCEPT ![c] = q]
      BY <1>4, <2>5 DEF Lookup
    <3>2. IsRequest(q) /\ q.target = req[c].target
      BY <1>1, <1>2, <2>1 DEF IsRequest
    <3> HIDE DEF q
    <3> QED BY <2>2, <2>5, <3>1, <3>2, OneRequest
  <2> QED BY <2>3, <2>4, <2>5
<1>5. CASE Succeed(c) \/ Deny(c) \/ BreakOff(c)
  <2>1. PICK out : req' = [req EXCEPT ![c] = Done(out)]
    BY <1>5 DEF Succeed, Deny, BreakOff
  <2>2. ruling' = ruling
    BY <1>5 DEF Succeed, Deny, BreakOff
  <2> QED BY <1>3, <2>1, <2>2, DoneMaySend
<1>6. CASE DenyLegally(c) \/ Fail(c)
  <2>1. PICK out : req' = [req EXCEPT ![c] = NextRoute(req[c], out)]
    BY <1>6 DEF DenyLegally, Fail
  <2>2. ruling' = ruling /\ req[c].pc = "sent"
    BY <1>6 DEF DenyLegally, Fail
  <2>3. MaySend(NextRoute(req[c], out))
    BY <1>1, <1>2, <2>2, NextRouteMaySend
  <2> QED BY <1>3, <2>1, <2>2, <2>3
<1>7. ASSUME NEW h \in Hosts, Redirect(c, h) PROVE TargetInv' /\ Sends
  <2> DEFINE r == [req[c] EXCEPT !.hops = @ + 1]
  <2>1. ruling' = ruling /\ req[c].pc = "sent"
    BY <1>7 DEF Redirect
  <2>2. IsRequest(r) /\ r.host \in Hosts
    BY <1>1, <1>2, <2>1 DEF IsRequest
  <2>3. req' = [req EXCEPT ![c] = IF req[c].hops = MaxRedirects THEN Done("redirects")
                                  ELSE Visit(r, h)]
    BY <1>7 DEF Redirect
  <2> HIDE DEF r
  <2>4. MaySend(Visit(r, h)) /\ MaySend(Done("redirects"))
    BY <2>2, VisitMaySend, DoneMaySend
  <2> QED BY <1>3, <2>1, <2>3, <2>4
<1> QED BY <1>4, <1>5, <1>6, <1>7 DEF Answer

LEMMA BeginSends == ASSUME TargetInv, NEW c \in Requests, NEW h \in Hosts, Begin(c, h)
                    PROVE  TargetInv' /\ Sends
<1> DEFINE q == [Unsent EXCEPT !.host = h]
           r == Visit(q, h)
<1>1. IsRequest(q) /\ q.host = h
  BY DEF IsRequest, Unsent
<1>2. req' = [req EXCEPT ![c] = IF r.pc = "sent" THEN Routed(r) ELSE r] /\ ruling' = ruling
  BY DEF Begin
<1>3. ruling \in [Hosts -> {"unknown", "allowed", "refused"}]
  BY DEF TargetInv
<1> HIDE DEF q
<1>4. MaySend(r)
  BY <1>1, VisitMaySend
<1> HIDE DEF r
<1>5. CASE r.pc = "sent"
  <2>1. IsRequest(r) /\ r.host \in Hosts /\ r.target \in Hosts /\ ruling[r.target] = "allowed"
    BY <1>4, <1>5 DEF MaySend, IsRequest
  <2>2. IsRequest(Routed(r)) /\ (Routed(r).pc = "sent" => Routed(r).target = r.target)
    BY <2>1, RoutedSends
  <2> QED BY <1>2, <1>3, <1>5, <2>1, <2>2, OneRequest
<1>6. CASE r.pc # "sent"
  BY <1>2, <1>3, <1>4, <1>6, OneRequest DEF MaySend
<1> QED BY <1>5, <1>6

LEMMA GatherSends ==
    ASSUME TargetInv, NEW without, NEW cached, Gather(without, cached),
           ruling' = ruling
    PROVE  TargetInv' /\ Sends
<1>1. /\ req' = [u \in Requests |-> req'[u]]
      /\ \A u \in Requests : req'[u] \in {Unsent, Done("other"), Done("cached")}
  BY DEF Gather
<1>2. \A q \in {Unsent, Done("other"), Done("cached")} :
        IsRequest(q) /\ q.pc \in {"idle", "done"}
  <2>1. \A out : MaySend(Done(out)) /\ Done(out).pc = "done"
    BY DoneMaySend DEF Done, Unsent
  <2>2. MaySend(Unsent) /\ Unsent.pc = "idle"
    BY DoneMaySend DEF Unsent
  <2> QED BY <2>1, <2>2 DEF MaySend
<1>3. \A u \in Requests : IsRequest(req'[u]) /\ req'[u].pc # "sent"
  BY <1>1, <1>2
<1> QED BY <1>1, <1>3 DEF TargetInv, Sends, IsRequest

LEMMA TargetStep == ASSUME TargetInv, [Next]_vars PROVE TargetInv' /\ Sends
<1>1. ASSUME UNCHANGED <<req, ruling>> PROVE TargetInv' /\ Sends
  BY <1>1 DEF TargetInv, IsRequest, Sends
<1>2. ASSUME NEW u \in Requests, Fetch(u) PROVE TargetInv' /\ Sends
  BY <1>2, AnswerSends DEF Fetch
<1>3. CASE Start
  <2>1. PICK i \in DOMAIN found : Begin(found[i].url, HostOf(found[i].url))
    BY <1>3 DEF Start
  <2> DEFINE u == found[i].url
  <2> HIDE DEF u
  <2>2. Begin(u, HostOf(u))
    BY <2>1 DEF u
  <2>3. CASE u \in Requests
    <3>1. HostOf(u) \in Hosts
      BY <2>3, ResearchAssumption DEF HostOf
    <3> QED BY <2>2, <2>3, <3>1, BeginSends
  <2>4. CASE u \notin Requests
    <3>1. UNCHANGED ruling /\ \E q : req' = [req EXCEPT ![u] = q]
      BY <2>2 DEF Begin
    <3>2. UNCHANGED req
      BY <2>4, <3>1 DEF TargetInv
    <3> QED BY <1>1, <3>1, <3>2
  <2> QED BY <2>3, <2>4
<1>4. CASE EndSearch \/ EndImages
  <2>1. ruling' = ruling /\ \E without, cached : Gather(without, cached)
    BY <1>4 DEF EndSearch, EndImages, FetchImages, FetchPages
  <2> QED BY <2>1, GatherSends
<1>5. CASE Search \/ NoSearch \/ EndPages \/ Pass
  BY <1>1, <1>5 DEF Search, NoSearch, EndPages, Pass, Cool, routerVars
<1>6. CASE UNCHANGED vars
  BY <1>1, <1>6 DEF vars, routerVars
<1> QED BY <1>2, <1>3, <1>4, <1>5, <1>6 DEF Next, Round

\* egress.py:112: of any number of requests, through however many redirects, exits
\* and lookups that overlap, none goes to a target that the latest lookup has not
\* allowed.
THEOREM TargetsAreAllowed == Spec => SentOnlyToAllowed
<1>1. Init => TargetInv
  BY DEF Init, RouterInit, TargetInv, IsRequest, Unsent
<1>2. TargetInv /\ [Next]_vars =>
        [\A c \in Requests :
           req'[c].pc = "sent" /\ req'[c] # req[c] =>
             ruling'[req'[c].target] = "allowed"]_routerVars
  BY TargetStep DEF Sends
<1>3. TargetInv /\ [Next]_vars => TargetInv'
  BY TargetStep
<1> QED BY <1>1, <1>2, <1>3, PTL DEF Spec, SentOnlyToAllowed
-----------------------------------------------------------------------------
\* No URL twice
Injective(s) == \A i, j \in 1 .. Len(s) : s[i].url = s[j].url => i = j

LEMMA ElementsOf == ASSUME NEW X, NEW s \in Seq(X)
                    PROVE  ToSet(s) = {s[k] : k \in 1 .. Len(s)} /\ ToSet(s) \subseteq X
BY DEF ToSet

LEMMA UrlsOf == ASSUME NEW X, NEW s \in Seq(X)
                PROVE  Urls(s) = {s[k].url : k \in 1 .. Len(s)}
BY DEF Urls

LEMMA AmongIsPicked ==
    ASSUME NEW X, NEW s \in Seq(X), NEW keep
    PROVE  LET at == {i \in 1 .. Len(s) : s[i] \in keep}
           IN  Among(s, keep) \in Seq(X) /\ Picked(Among(s, keep), s, at, Len(s))
<1> DEFINE at == {i \in 1 .. Len(s) : s[i] \in keep}
           Kept(g) == g = [i \in 0 .. Len(s) |->
                             IF i = 0 THEN <<>>
                             ELSE IF s[i] \in keep THEN Append(g[i - 1], s[i]) ELSE g[i - 1]]
<1>1. Len(s) \in Nat
  OBVIOUS
<1>2. ASSUME NEW g PROVE Kept(g) <=> Picks(g, s, at)
  <2>1. \A i \in 0 .. Len(s) : i # 0 => (s[i] \in keep <=> i \in at)
    BY <1>1
  <2> HIDE DEF at
  <2> QED BY <2>1 DEF Picks
<1>3. \E g : Kept(g)
  BY <1>2, PicksExists
<1>4. Among(s, keep) = (CHOOSE g : Kept(g))[Len(s)]
  BY DEF Among
<1> HIDE DEF Kept, at
<1>5. PICK g : Kept(g) /\ Among(s, keep) = g[Len(s)]
  BY <1>3, <1>4
<1>6. Picks(g, s, at) /\ Len(s) \in 0 .. Len(s)
  BY <1>1, <1>2, <1>5
<1>7. g[Len(s)] \in Seq(X) /\ Picked(g[Len(s)], s, at, Len(s))
  BY <1>6, PicksArePicked
<1> QED BY <1>5, <1>7 DEF at

\* The elements in keep stay, once if they were there once.
LEMMA AmongKeeps ==
    ASSUME NEW X, NEW s \in Seq(X), NEW keep
    PROVE  /\ Among(s, keep) \in Seq(X) /\ Len(Among(s, keep)) <= Len(s)
           /\ ToSet(Among(s, keep)) = ToSet(s) \cap keep
           /\ Injective(s) => Injective(Among(s, keep))
<1> DEFINE q == Among(s, keep)
           at == {i \in 1 .. Len(s) : s[i] \in keep}
<1>1. q \in Seq(X) /\ Picked(q, s, at, Len(s))
  BY AmongIsPicked
<1> HIDE DEF q
<1>2. ToSet(q) = {q[k] : k \in 1 .. Len(q)} /\ ToSet(s) = {s[k] : k \in 1 .. Len(s)}
  BY <1>1, ElementsOf
<1>3. ToSet(q) = ToSet(s) \cap keep
  <2>1. \A k \in 1 .. Len(q) : \E m \in at : q[k] = s[m]
    BY <1>1 DEF Picked
  <2>2. \A m \in at : \E k \in 1 .. Len(q) : q[k] = s[m]
    BY <1>1 DEF Picked
  <2> QED BY <1>2, <2>1, <2>2
<1>4. ASSUME Injective(s) PROVE Injective(q)
  <2>1. ASSUME NEW k \in 1 .. Len(q), NEW l \in 1 .. Len(q), k < l PROVE q[k].url # q[l].url
    <3>1. \E m, o \in at : m < o /\ q[k] = s[m] /\ q[l] = s[o]
      BY <1>1, <2>1 DEF Picked
    <3> QED BY <1>4, <3>1 DEF Injective
  <2>2. Len(q) \in Nat
    BY <1>1
  <2>3. \A k, l \in 1 .. Len(q) : k < l \/ l < k \/ k = l
    BY <2>2
  <2> QED BY <2>1, <2>3 DEF Injective
<1>5. Len(q) <= Len(s)
  BY <1>1 DEF Picked
<1> QED BY <1>1, <1>3, <1>4, <1>5 DEF q

\* Each URL of s is in Distinct[s] once, and those of the first n of s come first.
LEMMA DistinctKeeps ==
    ASSUME NEW s \in Seq(Items)
    PROVE  /\ Distinct[s] \in Seq(Items) /\ Injective(Distinct[s])
           /\ ToSet(Distinct[s]) \subseteq ToSet(s)
           /\ \A n \in 0 .. Len(s) : \E q \in Seq(Items) :
                /\ Begins(q, Distinct[s]) /\ Len(q) <= n /\ ToSet(q) \subseteq ToSet(s)
                /\ \A m \in 1 .. n : \E k \in 1 .. Len(q) : q[k].url = s[m].url
<1> DEFINE at == {i \in 1 .. Len(s) : s[i].url \notin Urls(SubSeq(s, 1, i - 1))}
           Kept(g) == g = [i \in 0 .. Len(s) |->
                             IF i = 0 THEN <<>>
                             ELSE IF s[i].url \in Urls(SubSeq(s, 1, i - 1)) THEN g[i - 1]
                             ELSE Append(g[i - 1], s[i])]
<1>1. Len(s) \in Nat
  OBVIOUS
<1>2. \A i \in 1 .. Len(s) : i \in at <=> \A m \in 1 .. i - 1 : s[m].url # s[i].url
  <2> SUFFICES ASSUME NEW i \in 1 .. Len(s)
               PROVE  i \in at <=> \A m \in 1 .. i - 1 : s[m].url # s[i].url
    OBVIOUS
  <2> DEFINE t == SubSeq(s, 1, i - 1)
  <2>1. t \in Seq(Items) /\ Len(t) = i - 1 /\ \A m \in 1 .. i - 1 : t[m] = s[m]
    BY <1>1
  <2>2. i \in at <=> s[i].url \notin Urls(t)
    OBVIOUS
  <2> HIDE DEF t, at
  <2>3. Urls(t) = {t[m].url : m \in 1 .. Len(t)}
    BY <2>1, UrlsOf
  <2> QED BY <2>1, <2>2, <2>3
<1>3. ASSUME NEW g PROVE Kept(g) <=> Picks(g, s, at)
  <2>1. \A i \in 0 .. Len(s) :
          i # 0 => (s[i].url \in Urls(SubSeq(s, 1, i - 1)) <=> i \notin at)
    BY <1>1
  <2>2. ASSUME NEW i \in 0 .. Len(s)
        PROVE  (IF i = 0 THEN <<>>
                ELSE IF s[i].url \in Urls(SubSeq(s, 1, i - 1)) THEN g[i - 1]
                ELSE Append(g[i - 1], s[i]))
               = (IF i = 0 THEN <<>> ELSE IF i \in at THEN Append(g[i - 1], s[i]) ELSE g[i - 1])
    BY <2>1
  <2> HIDE DEF at
  <2> QED BY <2>2 DEF Picks
<1>4. \E g : Kept(g)
  BY <1>3, PicksExists
<1>5. Distinct[s] = (CHOOSE g : Kept(g))[Len(s)]
  BY DEF Distinct
<1> HIDE DEF Kept, at
<1>6. PICK g : Kept(g) /\ Distinct[s] = g[Len(s)]
  BY <1>4, <1>5
<1>7. Picks(g, s, at)
  BY <1>3, <1>6
<1>8. \A i \in 0 .. Len(s) :
        g[i] \in Seq(Items) /\ Picked(g[i], s, at, i) /\ Begins(g[i], g[Len(s)])
  BY <1>7, PicksArePicked, PicksGrow
<1>9. ASSUME NEW n \in 0 .. Len(s) PROVE ToSet(g[n]) \subseteq ToSet(s)
  <2>1. /\ ToSet(g[n]) = {g[n][k] : k \in 1 .. Len(g[n])}
        /\ ToSet(s) = {s[k] : k \in 1 .. Len(s)}
    BY <1>8, ElementsOf
  <2>2. \A k \in 1 .. Len(g[n]) : \E m \in 1 .. Len(s) : g[n][k] = s[m]
    <3>1. \A k \in 1 .. Len(g[n]) : \E m \in at : g[n][k] = s[m]
      BY <1>8 DEF Picked
    <3> QED BY <3>1 DEF at
  <2> QED BY <2>1, <2>2
<1>10. \A m \in 1 .. Len(s) : \E o \in at : o <= m /\ s[o].url = s[m].url
  <2> SUFFICES ASSUME NEW m \in 1 .. Len(s) PROVE \E o \in at : o <= m /\ s[o].url = s[m].url
    OBVIOUS
  <2> DEFINE T == {i \in 0 .. Len(s) :
                     \A l \in 1 .. i : \E o \in at : o <= l /\ s[o].url = s[l].url}
  <2>1. 0 \in T
    BY <1>1
  <2>2. ASSUME NEW i \in 1 .. m, i - 1 \in T PROVE i \in T
    <3>1. i \in 1 .. Len(s) /\ i <= i
      BY <1>1
    <3>2. \E o \in at : o <= i /\ s[o].url = s[i].url
      <4>1. CASE i \in at
        BY <3>1, <4>1
      <4>2. CASE i \notin at
        <5>1. PICK l \in 1 .. i - 1 : s[l].url = s[i].url
          BY <1>2, <3>1, <4>2
        <5>2. PICK o \in at : o <= l /\ s[o].url = s[l].url
          BY <2>2, <5>1
        <5>3. o \in Int
          BY DEF at
        <5> QED BY <5>1, <5>2, <5>3
      <4> QED BY <4>1, <4>2
    <3>3. \A l \in 1 .. i : l \in 1 .. i - 1 \/ l = i
      OBVIOUS
    <3> QED BY <2>2, <3>1, <3>2, <3>3
  <2> HIDE DEF T
  <2>3. m \in T
    BY <2>1, <2>2, IndexInduction
  <2> QED BY <2>3 DEF T
<1>11. ASSUME NEW n \in 0 .. Len(s), NEW m \in 1 .. n
       PROVE  \E k \in 1 .. Len(g[n]) : g[n][k].url = s[m].url
  <2>1. PICK o \in at : o <= m /\ s[o].url = s[m].url
    <3>1. m \in 1 .. Len(s)
      BY <1>1
    <3> QED BY <1>10, <3>1
  <2>2. o \in 1 .. n
    BY <2>1 DEF at
  <2>3. PICK k \in 1 .. Len(g[n]) : g[n][k] = s[o]
    BY <1>8, <2>2 DEF Picked
  <2> QED BY <2>1, <2>3
<1>12. Injective(g[Len(s)])
  <2> DEFINE q == g[Len(s)]
  <2>1. q \in Seq(Items) /\ Picked(q, s, at, Len(s)) /\ Len(q) \in Nat
    BY <1>1, <1>8
  <2> HIDE DEF q
  <2>2. ASSUME NEW k \in 1 .. Len(q), NEW l \in 1 .. Len(q), k < l PROVE q[k].url # q[l].url
    <3>1. \E m, o \in at : m < o /\ q[k] = s[m] /\ q[l] = s[o]
      BY <2>1, <2>2 DEF Picked
    <3>2. PICK m \in at : \E o \in at : m < o /\ q[k] = s[m] /\ q[l] = s[o]
      BY <3>1
    <3>3. PICK o \in at : m < o /\ q[k] = s[m] /\ q[l] = s[o]
      BY <3>2
    <3>4. o \in 1 .. Len(s) /\ m \in 1 .. o - 1
      BY <3>3 DEF at
    <3> QED BY <1>2, <3>3, <3>4
  <2>3. \A k, l \in 1 .. Len(q) : k < l \/ l < k \/ k = l
    BY <2>1
  <2> QED BY <2>2, <2>3 DEF Injective, q
<1>13. Len(s) \in 0 .. Len(s) /\ \A n \in 0 .. Len(s) : Len(g[n]) <= n
  BY <1>1, <1>8 DEF Picked
<1> QED BY <1>6, <1>8, <1>9, <1>11, <1>12, <1>13

LEMMA ConcatenationHas ==
    ASSUME NEW X, NEW q \in Seq(X), NEW r \in Seq(X)
    PROVE  q \o r \in Seq(X) /\ ToSet(q \o r) = ToSet(q) \cup ToSet(r)
<1> DEFINE s == q \o r
<1>1. Len(q) \in Nat /\ Len(r) \in Nat
  OBVIOUS
<1>2. /\ s \in Seq(X) /\ Len(s) = Len(q) + Len(r)
      /\ \A k \in 1 .. Len(q) : s[k] = q[k]
      /\ \A k \in 1 .. Len(r) : s[k + Len(q)] = r[k]
  OBVIOUS
<1> HIDE DEF s
<1>3. /\ \A k \in 1 .. Len(s) : k \in 1 .. Len(q) \/ k - Len(q) \in 1 .. Len(r)
      /\ \A k \in 1 .. Len(s) : (k - Len(q)) + Len(q) = k
      /\ \A k \in 1 .. Len(q) : k \in 1 .. Len(s)
      /\ \A k \in 1 .. Len(r) : k + Len(q) \in 1 .. Len(s)
  BY <1>1, <1>2
<1>4. ASSUME NEW k \in 1 .. Len(s) PROVE s[k] \in ToSet(q) \cup ToSet(r)
  <2>1. CASE k \in 1 .. Len(q)
    BY <1>2, <2>1, ElementsOf
  <2>2. CASE k - Len(q) \in 1 .. Len(r)
    <3>1. s[k] = r[k - Len(q)]
      BY <1>2, <1>3, <2>2
    <3> QED BY <2>2, <3>1, ElementsOf
  <2> QED BY <1>3, <2>1, <2>2
<1>5. ToSet(s) = {s[k] : k \in 1 .. Len(s)} /\ ToSet(q) = {q[k] : k \in 1 .. Len(q)}
      /\ ToSet(r) = {r[k] : k \in 1 .. Len(r)}
  BY <1>2, ElementsOf
<1>6. ASSUME NEW x \in ToSet(q) \cup ToSet(r) PROVE x \in ToSet(s)
  <2>1. CASE x \in ToSet(q)
    <3>1. PICK k \in 1 .. Len(q) : x = q[k]
      BY <1>5, <2>1
    <3> QED BY <1>2, <1>3, <1>5, <3>1
  <2>2. CASE x \in ToSet(r)
    <3>1. PICK k \in 1 .. Len(r) : x = r[k]
      BY <1>5, <2>2
    <3> QED BY <1>2, <1>3, <1>5, <3>1
  <2> QED BY <2>1, <2>2
<1> QED BY <1>2, <1>4, <1>5, <1>6 DEF s

\* As many elements, and URLs, as places
LEMMA InjectiveCounts ==
    ASSUME NEW X, NEW s \in Seq(X), Injective(s)
    PROVE  IsFiniteSet(ToSet(s)) /\ Cardinality(ToSet(s)) = Len(s)
<1> DEFINE f == [k \in 1 .. Len(s) |-> s[k]]
<1>1. Len(s) \in Nat /\ ToSet(s) = {s[k] : k \in 1 .. Len(s)}
  BY ElementsOf
<1>2. f \in Bijection(1 .. Len(s), ToSet(s))
  <2>1. f \in [1 .. Len(s) -> ToSet(s)]
    BY <1>1
  <2>2. \A i, j \in 1 .. Len(s) : f[i] = f[j] => i = j
    BY DEF Injective
  <2>3. \A x \in ToSet(s) : \E k \in 1 .. Len(s) : f[k] = x
    BY <1>1
  <2> QED BY <2>1, <2>2, <2>3, Fun_IsBij
<1>3. ExistsBijection(1 .. Len(s), ToSet(s))
  BY <1>2 DEF ExistsBijection
<1> QED BY <1>1, <1>3, FS_CountingElements, FS_NatBijection

LEMMA UrlsCount ==
    ASSUME NEW X, NEW s \in Seq(X), Injective(s)
    PROVE  Cardinality(Urls(s)) = Len(s)
<1> DEFINE f == [k \in 1 .. Len(s) |-> s[k].url]
<1>1. Len(s) \in Nat /\ Urls(s) = {s[k].url : k \in 1 .. Len(s)}
  BY UrlsOf
<1>2. f \in Bijection(1 .. Len(s), Urls(s))
  <2>1. f \in [1 .. Len(s) -> Urls(s)]
    BY <1>1
  <2>2. \A i, j \in 1 .. Len(s) : f[i] = f[j] => i = j
    BY DEF Injective
  <2>3. \A x \in Urls(s) : \E k \in 1 .. Len(s) : f[k] = x
    BY <1>1
  <2> QED BY <2>1, <2>2, <2>3, Fun_IsBij
<1>3. ExistsBijection(1 .. Len(s), Urls(s))
  BY <1>2 DEF ExistsBijection
<1> QED BY <1>1, <1>3, FS_CountingElements

\* The beginning of a sequence without duplicates has none.
LEMMA FirstKeeps ==
    ASSUME NEW s \in Seq(Items), NEW n \in Nat
    PROVE  /\ First(s, n) \in Seq(Items) /\ Len(First(s, n)) <= n /\ Begins(First(s, n), s)
           /\ Len(First(s, n)) = n \/ First(s, n) = s
           /\ ToSet(First(s, n)) \subseteq ToSet(s)
           /\ Injective(s) => Injective(First(s, n))
<1> DEFINE m == IF n < Len(s) THEN n ELSE Len(s)
           q == First(s, n)
<1>1. m \in 0 .. Len(s) /\ m <= n /\ (m = n \/ m = Len(s)) /\ q = SubSeq(s, 1, m)
  BY DEF First
<1> HIDE DEF m, q
<1>2. q \in Seq(Items) /\ Len(q) = m /\ \A k \in 1 .. m : q[k] = s[k]
  BY <1>1
<1>3. m = Len(s) => q = s
  BY <1>2
<1>4. \A k \in 1 .. m : k \in 1 .. Len(s)
  BY <1>1
<1>5. ToSet(q) \subseteq ToSet(s)
  BY <1>2, <1>4, ElementsOf
<1>6. Injective(s) => Injective(q)
  BY <1>2, <1>4 DEF Injective
<1> QED BY <1>1, <1>2, <1>3, <1>5, <1>6 DEF Begins, q
-----------------------------------------------------------------------------
\* The exits a request is given

LEMMA ProxiesAreExits == Proxies \in Seq(Exits) /\ <<"direct">> \in Seq(Exits)
<1>1. Proxies \in Seq(STRING)
  BY RouterAssumption
<1>2. ToSet(Proxies) = {Proxies[k] : k \in 1 .. Len(Proxies)}
  BY <1>1 DEF ToSet
<1>3. \A k \in 1 .. Len(Proxies) : Proxies[k] \in Exits
  BY <1>2 DEF Exits
<1> QED BY <1>1, <1>3 DEF Exits

LEMMA FirstOfKeeps ==
    ASSUME NEW routes \in Seq(Exits), NEW r
    PROVE  /\ FirstOf(r, routes) \in Seq(Exits) /\ ToSet(FirstOf(r, routes)) = ToSet(routes)
           /\ r \in ToSet(routes) => FirstOf(r, routes)[1] = r
<1>1. CASE r \notin ToSet(routes)
  BY <1>1 DEF FirstOf
<1>2. CASE r \in ToSet(routes)
  <2> DEFINE rest == Among(routes, Exits \ {r})
  <2>1. rest \in Seq(Exits) /\ ToSet(rest) = ToSet(routes) \cap (Exits \ {r})
    BY AmongKeeps
  <2>2. ToSet(routes) \subseteq Exits
    BY DEF ToSet
  <2>3. FirstOf(r, routes) = <<r>> \o rest
    BY <1>2 DEF FirstOf
  <2> HIDE DEF rest
  <2>4. <<r>> \in Seq(Exits) /\ ToSet(<<r>>) = {r}
    BY <1>2, <2>2 DEF ToSet
  <2>5. <<r>> \o rest \in Seq(Exits) /\ ToSet(<<r>> \o rest) = {r} \cup ToSet(rest)
    <3>1. \A q, t \in Seq(Exits) : q \o t \in Seq(Exits) /\ ToSet(q \o t) = ToSet(q) \cup ToSet(t)
      BY ConcatenationHas
    <3> QED BY <2>1, <2>4, <3>1
  <2>6. (<<r>> \o rest)[1] = r
    BY <2>1, <2>4
  <2> QED BY <1>2, <2>1, <2>2, <2>3, <2>5, <2>6
<1> QED BY <1>1, <1>2

LEMMA HealthyKeeps ==
    ASSUME NEW routes \in Seq(Exits)
    PROVE  /\ Healthy(routes) \in Seq(Exits) /\ ToSet(Healthy(routes)) \subseteq ToSet(routes)
           /\ \A r \in ToSet(routes) : Open(r) => r \in ToSet(Healthy(routes))
<1>1. ToSet(routes) \subseteq Exits
  BY DEF ToSet
<1>2. CASE \E r \in ToSet(routes) : Open(r)
  <2> DEFINE open == {r \in Exits : Open(r)}
  <2>1. /\ Among(routes, open) \in Seq(Exits)
        /\ ToSet(Among(routes, open)) = ToSet(routes) \cap open
    BY AmongKeeps
  <2>2. Healthy(routes) = Among(routes, open)
    BY <1>2 DEF Healthy
  <2> QED BY <1>1, <2>1, <2>2
<1>3. CASE ~\E r \in ToSet(routes) : Open(r)
  BY <1>3 DEF Healthy
<1> QED BY <1>2, <1>3

\* What _routes promises: none of the exits of the mode that would work is missing,
\* and outside the vpn mode the exit of the host comes first.
LEMMA RoutesForKeeps ==
    ASSUME NEW h, \A r \in Reliable \cap Exits : Open(r)
    PROVE  /\ RoutesFor(h) \in Seq(Exits)
           /\ Reliable \cap Usable \subseteq ToSet(RoutesFor(h))
           /\ Mode # "vpn" /\ sticky[h] \in ToSet(RoutesFor(h)) => RoutesFor(h)[1] = sticky[h]
<1>1. ToSet(<<"direct">>) = {"direct"}
  BY DEF ToSet
<1>2. CASE Mode = "direct"
  <2>1. RoutesFor(h) = <<"direct">> /\ Usable = {"direct"} /\ <<"direct">>[1] = "direct"
    BY <1>2 DEF RoutesFor, Usable
  <2> QED BY <1>1, <2>1, ProxiesAreExits
<1>3. CASE Mode = "vpn"
  <2>1. RoutesFor(h) = Healthy(Proxies) /\ Usable = ToSet(Proxies)
    BY <1>3 DEF RoutesFor, Usable
  <2> QED BY <1>3, <2>1, ProxiesAreExits, HealthyKeeps DEF Exits
<1>4. CASE Mode = "auto"
  <2> DEFINE all == <<"direct">> \o Proxies
             healthy == Healthy(all)
  <2>1. RoutesFor(h) = FirstOf(sticky[h], healthy) /\ Usable = Exits
    BY <1>4 DEF RoutesFor, Usable
  <2>2. all \in Seq(Exits) /\ ToSet(all) = Exits
    <3>1. \A q, r \in Seq(Exits) : q \o r \in Seq(Exits) /\ ToSet(q \o r) = ToSet(q) \cup ToSet(r)
      BY ConcatenationHas
    <3> QED BY <1>1, <3>1, ProxiesAreExits DEF Exits
  <2> HIDE DEF all
  <2>3. /\ healthy \in Seq(Exits)
        /\ Reliable \cap Exits \subseteq ToSet(healthy)
    BY <2>2, HealthyKeeps
  <2> HIDE DEF healthy
  <2> QED BY <2>1, <2>3, FirstOfKeeps
<1> QED BY <1>2, <1>3, <1>4, RouterAssumption

-----------------------------------------------------------------------------
\* Where a request is on its way: the exits that would work are still ahead, and
\* outside the vpn mode the exit of its host was the first.
OnItsWay(q) ==
    /\ q.pc \in {"check", "sent"} =>
         /\ q.host \in Hosts /\ q.target \in Hosts
         /\ \/ q.pc = "check" /\ q.i = 0
            \/ /\ q.i \in 1 .. Len(q.routes)
               /\ Reliable \cap Usable \subseteq {q.routes[k] : k \in q.i .. Len(q.routes)}
               /\ Mode # "vpn" /\ q.stuck \in ToSet(q.routes) => q.routes[1] = q.stuck
    /\ q.pc = "done" /\ q.out = "transport" => Reliable \cap Usable = {}

Sound(q) == q \in Request /\ OnItsWay(q)

MapsTypeOK ==
    /\ streak \in [Exits -> 0 .. MaxStreak] /\ cool \in [Exits -> 0 .. 12]
    /\ sticky \in [Hosts -> Exits \cup {None}]
    /\ ruling \in [Hosts -> {"unknown", "allowed", "refused"}]

\* An exit that works is never blocked.
RouterInv ==
    /\ MapsTypeOK
    /\ \A r \in Reliable \cap Exits : cool[r] = 0
    /\ req \in [Requests -> Request]
    /\ \A c \in Requests : OnItsWay(req[c])

LEMMA DoneSound ==
    ASSUME NEW out \in Outcomes, out = "transport" => Reliable \cap Usable = {}
    PROVE  Sound(Done(out)) /\ Sound(Unsent)
<1>1. /\ Unsent \in Request /\ Unsent.pc = "idle" /\ Done(out) \in Request
      /\ Done(out).pc = "done" /\ Done(out).out = out
  <2>1. 0 \in 0 .. MaxRedirects /\ <<>> \in Seq(Exits) /\ 0 \in Nat
    BY RouterAssumption
  <2> QED BY <2>1 DEF Done, Unsent, Request
<1> QED BY <1>1 DEF Sound, OnItsWay

LEMMA RoutedSound ==
    ASSUME RouterInv, NEW q \in Request, q.host \in Hosts, q.target \in Hosts
    PROVE  Sound(Routed(q))
<1>1. /\ RoutesFor(q.host) \in Seq(Exits)
      /\ Reliable \cap Usable \subseteq ToSet(RoutesFor(q.host))
      /\ Mode # "vpn" /\ sticky[q.host] \in ToSet(RoutesFor(q.host)) =>
           RoutesFor(q.host)[1] = sticky[q.host]
  BY RoutesForKeeps DEF RouterInv, Open
<1>2. CASE RoutesFor(q.host) = <<>>
  <2>1. Routed(q) = Done("other") /\ "other" \in Outcomes
    BY <1>2 DEF Routed, Outcomes
  <2> QED BY <2>1, DoneSound
<1>3. CASE RoutesFor(q.host) # <<>>
  <2> DEFINE routes == RoutesFor(q.host)
             at == sticky[q.host]
             r == [q EXCEPT !.pc = "sent", !.routes = routes, !.i = 1, !.stuck = at]
  <2>1. Routed(q) = r
    BY <1>3 DEF Routed
  <2>2. at \in Exits \cup {None}
    BY DEF RouterInv, MapsTypeOK
  <2>3. routes \in Seq(Exits) /\ 1 \in 1 .. Len(routes)
        /\ ToSet(routes) = {routes[k] : k \in 1 .. Len(routes)}
    BY <1>1, <1>3 DEF ToSet
  <2> HIDE DEF routes, at
  <2>4. r \in Request /\ r.pc = "sent" /\ r.host = q.host /\ r.target = q.target
        /\ r.routes = routes /\ r.i = 1 /\ r.stuck = at
    BY <2>2, <2>3 DEF Request
  <2> HIDE DEF r
  <2> QED BY <1>1, <2>1, <2>3, <2>4 DEF Sound, OnItsWay, routes, at
<1> QED BY <1>2, <1>3

\* The request goes on through the exit it has, to h.
LEMMA VisitSound ==
    ASSUME RouterInv, NEW q \in Request, q.host \in Hosts, NEW h \in Hosts,
           q.i \in 1 .. Len(q.routes),
           Reliable \cap Usable \subseteq {q.routes[k] : k \in q.i .. Len(q.routes)},
           Mode # "vpn" /\ q.stuck \in ToSet(q.routes) => q.routes[1] = q.stuck
    PROVE  Sound(Visit(q, h))
<1>1. CASE ruling[h] = "refused"
  <2>1. Visit(q, h) = Done("target") /\ "target" \in Outcomes
    BY <1>1 DEF Visit, Outcomes
  <2> QED BY <2>1, DoneSound
<1>2. CASE ruling[h] # "refused"
  <2> DEFINE pc == IF ruling[h] = "allowed" THEN "sent" ELSE "check"
             r == [q EXCEPT !.pc = pc, !.target = h]
  <2>1. Visit(q, h) = r
    BY <1>2 DEF Visit
  <2>2. pc \in {"sent", "check"}
    OBVIOUS
  <2> HIDE DEF pc
  <2>3. r \in Request /\ r.pc = pc /\ r.host = q.host /\ r.target = h /\ r.routes = q.routes
        /\ r.i = q.i /\ r.stuck = q.stuck
    BY <2>2 DEF Request
  <2> HIDE DEF r
  <2> QED BY <2>1, <2>2, <2>3 DEF Sound, OnItsWay
<1> QED BY <1>1, <1>2

\* The exit of a request that is on its way
Ready(q) ==
    /\ q \in Request /\ q.host \in Hosts /\ q.i \in 1 .. Len(q.routes)
    /\ Reliable \cap Usable \subseteq {q.routes[k] : k \in q.i .. Len(q.routes)}
    /\ Mode # "vpn" /\ q.stuck \in ToSet(q.routes) => q.routes[1] = q.stuck

LEMMA SentIsReady == ASSUME RouterInv, NEW c \in Requests, req[c].pc = "sent"
                     PROVE  Ready(req[c]) /\ req[c].target \in Hosts
<1>1. req[c] \in Request /\ OnItsWay(req[c])
  BY DEF RouterInv
<1> QED BY <1>1 DEF OnItsWay, Ready

LEMMA NextRouteSound ==
    ASSUME RouterInv, NEW q, Ready(q), q.routes[q.i] \notin Reliable,
           NEW out \in {"status", "transport"}
    PROVE  Sound(NextRoute(q, out))
<1>1. q.routes \in Seq(Exits) /\ Len(q.routes) \in Nat /\ q.i \in 1 .. Len(q.routes)
  BY DEF Ready, Request
<1>2. Reliable \cap Usable \subseteq {q.routes[k] : k \in q.i + 1 .. Len(q.routes)}
  <2>1. \A k \in q.i .. Len(q.routes) : k = q.i \/ k \in q.i + 1 .. Len(q.routes)
    BY <1>1
  <2> QED BY <2>1 DEF Ready
<1>3. CASE q.i < Len(q.routes)
  <2> DEFINE r == [q EXCEPT !.i = @ + 1, !.hops = 0]
  <2>1. NextRoute(q, out) = Visit(r, q.host)
    BY <1>3 DEF NextRoute
  <2>2. /\ r \in Request /\ r.host = q.host /\ r.routes = q.routes /\ r.i = q.i + 1
        /\ r.stuck = q.stuck
    <3>1. q.i + 1 \in Nat /\ 0 \in 0 .. MaxRedirects
      BY <1>1, RouterAssumption
    <3> QED BY <3>1 DEF Ready, Request
  <2> HIDE DEF r
  <2>3. r.i \in 1 .. Len(r.routes)
    BY <1>1, <1>3, <2>2
  <2> QED BY <1>2, <2>1, <2>2, <2>3, VisitSound DEF Ready
<1>4. CASE ~(q.i < Len(q.routes))
  <2>1. NextRoute(q, out) = Done(out) /\ out \in Outcomes
    BY <1>4 DEF NextRoute, Outcomes
  <2>2. Reliable \cap Usable = {}
    <3>1. q.i + 1 .. Len(q.routes) = {}
      BY <1>1, <1>4
    <3> QED BY <1>2, <3>1
  <2> QED BY <2>1, <2>2, DoneSound
<1> QED BY <1>3, <1>4

\* One request goes on, and the maps change within what RouterInv says of them.
LEMMA OneGoesOn ==
    ASSUME RouterInv, NEW c \in Requests, NEW q, req' = [req EXCEPT ![c] = q], Sound(q),
           MapsTypeOK', \A r \in Reliable \cap Exits : cool'[r] = 0
    PROVE  RouterInv'
<1>1. \A d \in Requests : req'[d] = IF d = c THEN q ELSE req[d]
  BY DEF RouterInv
<1>2. req' \in [Requests -> Request]
  BY DEF RouterInv, Sound
<1>3. \A d \in Requests : OnItsWay(req'[d])
  BY <1>1 DEF RouterInv, Sound
<1> QED BY <1>2, <1>3 DEF RouterInv, OnItsWay, Usable

LEMMA CooldownIsBounded == \A n \in 0 .. MaxStreak : Cooldown(n) \in 0 .. 12
<1> SUFFICES ASSUME NEW n \in 0 .. MaxStreak PROVE Cooldown(n) \in 0 .. 12
  OBVIOUS
<1>1. n \in {0, 1, 2, 3, 4, 5, 6}
  BY DEF MaxStreak
<1> QED BY <1>1 DEF Cooldown

LEMMA AnswerIsSound == ASSUME RouterInv, NEW c \in Requests, Answer(c)
                       PROVE  RouterInv'
<1>1. req[c] \in Request /\ OnItsWay(req[c]) /\ MapsTypeOK
  BY DEF RouterInv
<1>2. ASSUME NEW q, req' = [req EXCEPT ![c] = q], Sound(q),
             UNCHANGED <<streak, cool, sticky, ruling>>
      PROVE  RouterInv'
  BY <1>2, OneGoesOn DEF RouterInv, MapsTypeOK
<1>3. ASSUME NEW answer \in {"allowed", "refused"}, Lookup(c, answer) PROVE RouterInv'
  <2>1. /\ req[c].pc = "check" /\ ruling' = [ruling EXCEPT ![req[c].target] = answer]
        /\ UNCHANGED <<streak, cool, sticky>>
    BY <1>3 DEF Lookup
  <2>2. MapsTypeOK' /\ \A r \in Reliable \cap Exits : cool'[r] = 0
    BY <2>1 DEF RouterInv, MapsTypeOK
  <2>3. req[c].host \in Hosts /\ req[c].target \in Hosts
    BY <1>1, <2>1 DEF OnItsWay
  <2>4. CASE answer = "refused"
    <3>1. req' = [req EXCEPT ![c] = Done("target")] /\ "target" \in Outcomes
      BY <1>3, <2>4 DEF Lookup, Outcomes
    <3>2. Sound(Done("target"))
      BY <3>1, DoneSound
    <3> QED BY <2>2, <3>1, <3>2, OneGoesOn
  <2>5. CASE answer # "refused" /\ req[c].i = 0
    <3>1. req' = [req EXCEPT ![c] = Routed(req[c])]
      BY <1>3, <2>5 DEF Lookup
    <3>2. Sound(Routed(req[c]))
      BY <1>1, <2>3, RoutedSound
    <3> QED BY <2>2, <3>1, <3>2, OneGoesOn
  <2>6. CASE answer # "refused" /\ req[c].i # 0
    <3> DEFINE q == [req[c] EXCEPT !.pc = "sent"]
    <3>1. req' = [req EXCEPT ![c] = q]
      BY <1>3, <2>6 DEF Lookup
    <3>2. /\ q \in Request /\ q.pc = "sent" /\ q.host = req[c].host
          /\ q.target = req[c].target /\ q.routes = req[c].routes /\ q.i = req[c].i
          /\ q.stuck = req[c].stuck
      BY <1>1 DEF Request
    <3> HIDE DEF q
    <3>3. Sound(q)
      BY <1>1, <2>1, <2>6, <3>2 DEF Sound, OnItsWay
    <3> QED BY <2>2, <3>1, <3>3, OneGoesOn
  <2> QED BY <2>4, <2>5, <2>6
<1>4. CASE Succeed(c)
  <2>1. req[c].pc = "sent" /\ Ready(req[c]) /\ req' = [req EXCEPT ![c] = Done("ok")]
        /\ "ok" \in Outcomes
    BY <1>4, SentIsReady DEF Succeed, Outcomes
  <2> DEFINE r == Route(c)
  <2>2. r \in Exits
    BY <2>1 DEF Ready, Request, Route
  <2> HIDE DEF r
  <2>3. /\ streak' = [streak EXCEPT ![r] = 0] /\ cool' = [cool EXCEPT ![r] = 0]
        /\ sticky' = [sticky EXCEPT ![req[c].host] = r] /\ ruling' = ruling
    BY <1>4 DEF Succeed, r
  <2>4. MapsTypeOK'
    <3>1. 0 \in 0 .. MaxStreak /\ 0 \in 0 .. 12
      BY DEF MaxStreak
    <3>2. sticky' \in [Hosts -> Exits \cup {None}]
      BY <1>1, <2>2, <2>3 DEF MapsTypeOK
    <3>3. streak' \in [Exits -> 0 .. MaxStreak] /\ cool' \in [Exits -> 0 .. 12]
      BY <1>1, <2>2, <2>3, <3>1 DEF MapsTypeOK
    <3> QED BY <1>1, <2>3, <3>2, <3>3 DEF MapsTypeOK
  <2>5. \A x \in Reliable \cap Exits : cool'[x] = 0
    BY <1>1, <2>3 DEF RouterInv, MapsTypeOK
  <2> QED BY <2>1, <2>4, <2>5, DoneSound, OneGoesOn
<1>5. CASE Deny(c) \/ BreakOff(c)
  <2>1. PICK out \in {"status", "other"} : req' = [req EXCEPT ![c] = Done(out)]
    BY <1>5 DEF Deny, BreakOff
  <2>2. UNCHANGED <<streak, cool, sticky, ruling>> /\ out \in Outcomes
    BY <1>5 DEF Deny, BreakOff, Outcomes
  <2>3. Sound(Done(out))
    BY <2>2, DoneSound
  <2> QED BY <1>2, <2>1, <2>2, <2>3
<1>6. CASE DenyLegally(c)
  <2>1. /\ req[c].pc = "sent" /\ Route(c) \notin Reliable
        /\ req' = [req EXCEPT ![c] = NextRoute(req[c], "status")]
        /\ UNCHANGED <<streak, cool, sticky, ruling>>
    BY <1>6 DEF DenyLegally
  <2>2. Sound(NextRoute(req[c], "status"))
    BY <2>1, SentIsReady, NextRouteSound DEF Route
  <2> QED BY <1>2, <2>1, <2>2
<1>7. CASE Fail(c)
  <2>1. /\ req[c].pc = "sent" /\ Route(c) \notin Reliable /\ Block(Route(c))
        /\ req' = [req EXCEPT ![c] = NextRoute(req[c], "transport")]
        /\ UNCHANGED <<sticky, ruling>>
    BY <1>7 DEF Fail
  <2>2. Sound(NextRoute(req[c], "transport"))
    BY <2>1, SentIsReady, NextRouteSound DEF Route
  <2> DEFINE r == Route(c)
  <2>3. r \in Exits
    BY <2>1, SentIsReady DEF Ready, Request, Route
  <2> HIDE DEF r
  <2>4. Block(r) /\ r \notin Reliable
    BY <2>1 DEF r
  <2>5. streak' \in [Exits -> 0 .. MaxStreak]
    <3>1. (IF streak[r] < MaxStreak THEN streak[r] + 1 ELSE streak[r]) \in 0 .. MaxStreak
      BY <1>1, <2>3 DEF MaxStreak, MapsTypeOK
    <3> QED BY <1>1, <2>4, <3>1 DEF Block, MapsTypeOK
  <2>6. cool' \in [Exits -> 0 .. 12]
    <3>1. Cooldown(streak'[r]) \in 0 .. 12
      BY <2>3, <2>5, CooldownIsBounded
    <3> QED BY <1>1, <2>4, <3>1 DEF Block, MapsTypeOK
  <2>7. \A x \in Reliable \cap Exits : cool'[x] = 0
    BY <1>1, <2>4 DEF Block, RouterInv, MapsTypeOK
  <2>8. MapsTypeOK'
    BY <1>1, <2>1, <2>5, <2>6 DEF MapsTypeOK
  <2> QED BY <2>1, <2>2, <2>7, <2>8, OneGoesOn
<1>8. ASSUME NEW h \in Hosts, Redirect(c, h) PROVE RouterInv'
  <2>1. Ready(req[c]) /\ UNCHANGED <<streak, cool, sticky, ruling>>
    BY <1>8, SentIsReady DEF Redirect
  <2> DEFINE q == [req[c] EXCEPT !.hops = @ + 1]
  <2>2. req' = [req EXCEPT ![c] = IF req[c].hops = MaxRedirects THEN Done("redirects")
                                  ELSE Visit(q, h)]
    BY <1>8 DEF Redirect
  <2>3. CASE req[c].hops = MaxRedirects
    <3>1. Sound(Done("redirects"))
      BY DoneSound DEF Outcomes
    <3> QED BY <1>2, <2>1, <2>2, <2>3, <3>1
  <2>4. CASE req[c].hops # MaxRedirects
    <3>1. req[c].hops + 1 \in 0 .. MaxRedirects
      BY <1>1, <2>4, RouterAssumption DEF Request
    <3>2. /\ q \in Request /\ q.host = req[c].host /\ q.routes = req[c].routes
          /\ q.i = req[c].i /\ q.stuck = req[c].stuck
      BY <1>1, <3>1 DEF Request
    <3> HIDE DEF q
    <3>3. Sound(Visit(q, h))
      BY <2>1, <3>2, VisitSound DEF Ready
    <3> QED BY <1>2, <2>1, <2>2, <2>4, <3>3
  <2> QED BY <2>3, <2>4
<1> QED BY <1>3, <1>4, <1>5, <1>6, <1>7, <1>8 DEF Answer

LEMMA BeginIsSound == ASSUME RouterInv, NEW c \in Requests, NEW h \in Hosts, Begin(c, h)
                      PROVE  RouterInv'
<1> DEFINE q == [Unsent EXCEPT !.host = h]
           r == Visit(q, h)
<1>1. req' = [req EXCEPT ![c] = IF r.pc = "sent" THEN Routed(r) ELSE r]
      /\ UNCHANGED <<streak, cool, sticky, ruling>>
  BY DEF Begin
<1>2. q \in Request /\ q.host = h /\ q.i = 0
  <2>1. Unsent \in Request
    <3>1. "ok" \in Outcomes
      BY DEF Outcomes
    <3> QED BY <3>1, DoneSound DEF Sound
  <2> QED BY <2>1 DEF Request, Unsent
<1> HIDE DEF q
<1>3. ASSUME NEW x, req' = [req EXCEPT ![c] = x], Sound(x) PROVE RouterInv'
  BY <1>1, <1>3, OneGoesOn DEF RouterInv, MapsTypeOK
<1>4. CASE ruling[h] = "refused"
  <2>1. r = Done("target") /\ r.pc = "done" /\ "target" \in Outcomes
    BY <1>4 DEF Visit, Done, Unsent, Outcomes
  <2> QED BY <1>1, <1>3, <2>1, DoneSound
<1>5. CASE ruling[h] # "refused"
  <2> DEFINE pc == IF ruling[h] = "allowed" THEN "sent" ELSE "check"
  <2>1. r = [q EXCEPT !.pc = pc, !.target = h]
    BY <1>5 DEF Visit
  <2>2. pc \in {"sent", "check"}
    OBVIOUS
  <2> HIDE DEF pc, r
  <2>3. r \in Request /\ r.pc = pc /\ r.host = h /\ r.target = h /\ r.i = 0
    BY <1>2, <2>1, <2>2 DEF Request
  <2>4. CASE pc = "sent"
    <3>1. Sound(Routed(r))
      BY <2>3, RoutedSound
    <3> QED BY <1>1, <1>3, <2>3, <2>4, <3>1
  <2>5. CASE pc = "check"
    <3>1. Sound(r)
      BY <2>3, <2>5 DEF Sound, OnItsWay
    <3> QED BY <1>1, <1>3, <2>3, <2>5, <3>1
  <2> QED BY <2>2, <2>4, <2>5
<1> QED BY <1>4, <1>5

LEMMA GatherIsSound ==
    ASSUME RouterInv, NEW without, NEW cached, Gather(without, cached),
           UNCHANGED <<streak, cool, sticky, ruling>>
    PROVE  RouterInv'
<1>1. /\ req' = [u \in Requests |-> req'[u]]
      /\ \A u \in Requests : req'[u] \in {Unsent, Done("other"), Done("cached")}
  BY DEF Gather
<1>2. \A q \in {Unsent, Done("other"), Done("cached")} : Sound(q)
  <2>1. Sound(Unsent) /\ Sound(Done("other")) /\ Sound(Done("cached"))
    BY DoneSound DEF Outcomes
  <2> QED BY <2>1
<1>3. \A u \in Requests : req'[u] \in Request /\ OnItsWay(req'[u])
  BY <1>1, <1>2 DEF Sound
<1>4. req' \in [Requests -> Request]
  BY <1>1, <1>3
<1> QED BY <1>3, <1>4 DEF RouterInv, MapsTypeOK, OnItsWay, Usable

LEMMA RouterInvInit == Init => RouterInv
<1> SUFFICES ASSUME Init PROVE RouterInv
  OBVIOUS
<1>1. RouterInit
  BY DEF Init
<1>2. Sound(Unsent)
  BY DoneSound DEF Outcomes
<1>3. MapsTypeOK
  <2>1. 0 \in 0 .. MaxStreak /\ 0 \in 0 .. 12
    BY DEF MaxStreak
  <2> QED BY <1>1, <2>1 DEF RouterInit, MapsTypeOK
<1> QED BY <1>1, <1>2, <1>3 DEF RouterInit, RouterInv, Sound

LEMMA RouterInvStep == ASSUME RouterInv, [Next]_vars PROVE RouterInv'
<1>1. ASSUME UNCHANGED routerVars PROVE RouterInv'
  <2>1. req' = req /\ \A c \in Requests : OnItsWay(req'[c])
    BY <1>1 DEF routerVars, RouterInv
  <2>2. MapsTypeOK' /\ \A r \in Reliable \cap Exits : cool'[r] = 0
    BY <1>1 DEF routerVars, RouterInv, MapsTypeOK
  <2> QED BY <2>1, <2>2 DEF RouterInv
<1>2. ASSUME NEW u \in Requests, Fetch(u) PROVE RouterInv'
  BY <1>2, AnswerIsSound DEF Fetch
<1>3. CASE Start
  <2>1. PICK i \in DOMAIN found : Begin(found[i].url, HostOf(found[i].url))
    BY <1>3 DEF Start
  <2> DEFINE u == found[i].url
  <2> HIDE DEF u
  <2>2. Begin(u, HostOf(u))
    BY <2>1 DEF u
  <2>3. CASE u \in Requests
    <3>1. HostOf(u) \in Hosts
      BY <2>3, ResearchAssumption DEF HostOf
    <3> QED BY <2>2, <2>3, <3>1, BeginIsSound
  <2>4. CASE u \notin Requests
    <3>1. UNCHANGED <<streak, cool, sticky, ruling>> /\ \E q : req' = [req EXCEPT ![u] = q]
      BY <2>2 DEF Begin
    <3>2. UNCHANGED req
      BY <2>4, <3>1 DEF RouterInv
    <3> QED BY <1>1, <3>1, <3>2 DEF routerVars
  <2> QED BY <2>3, <2>4
<1>4. CASE EndSearch \/ EndImages
  <2>1. UNCHANGED <<streak, cool, sticky, ruling>>
        /\ \E without, cached : Gather(without, cached)
    BY <1>4 DEF EndSearch, EndImages, FetchImages, FetchPages
  <2> QED BY <2>1, GatherIsSound
<1>5. CASE Pass
  <2>1. UNCHANGED <<streak, sticky, ruling, req>>
        /\ cool' = [r \in Exits |-> IF cool[r] > 0 THEN cool[r] - 1 ELSE 0]
    BY <1>5 DEF Pass, Cool
  <2>2. cool' \in [Exits -> 0 .. 12] /\ \A r \in Reliable \cap Exits : cool'[r] = 0
    BY <2>1 DEF RouterInv, MapsTypeOK
  <2>3. MapsTypeOK'
    BY <2>1, <2>2 DEF RouterInv, MapsTypeOK
  <2>4. req' = req /\ \A c \in Requests : OnItsWay(req'[c])
    BY <2>1 DEF RouterInv
  <2> QED BY <2>2, <2>3, <2>4 DEF RouterInv
<1>6. CASE Search \/ NoSearch \/ EndPages
  BY <1>1, <1>6 DEF Search, NoSearch, EndPages
<1>7. CASE UNCHANGED vars
  BY <1>1, <1>7 DEF vars
<1> QED BY <1>2, <1>3, <1>4, <1>5, <1>6, <1>7 DEF Next, Round

\* docs/VPN.md:98: of any number of requests that fail, are redirected and block
\* exits around each other, none comes back with a transport failure while the mode
\* has an exit that would have carried it: that exit is never blocked, is among those
\* of every request, and stays ahead of the request until it is tried.
THEOREM WorkingExitIsAlwaysFound == Spec => []WorkingExitIsFound
<1>1. RouterInv => WorkingExitIsFound
  BY DEF RouterInv, OnItsWay, WorkingExitIsFound
<1> QED BY RouterInvInit, RouterInvStep, <1>1, PTL DEF Spec

LEMMA StickyStep ==
    ASSUME RouterInv, Mode # "vpn", [Next]_vars, NEW h \in Hosts, sticky[h] # None,
           sticky'[h] # sticky[h]
    PROVE  \E c \in Requests :
             /\ req[c].pc = "sent" /\ req[c].host = h /\ sticky'[h] = Route(c)
             /\ sticky[h] \in ToSet(req[c].routes) /\ req[c].stuck = sticky[h] =>
                  sticky[h] \in ToSet(SubSeq(req[c].routes, 1, req[c].i))
<1>1. PICK c \in Requests : Succeed(c)
  BY DEF Next, Round, Search, NoSearch, EndSearch, Start, Begin, EndImages, EndPages, Pass, Cool,
         Fetch, Answer, Lookup, Deny, DenyLegally, BreakOff, Redirect, Fail, vars, routerVars
<1>2. /\ req[c].pc = "sent" /\ sticky' = [sticky EXCEPT ![req[c].host] = Route(c)]
      /\ sticky \in [Hosts -> Exits \cup {None}]
  BY <1>1 DEF Succeed, RouterInv, MapsTypeOK
<1>3. req[c].host = h /\ sticky'[h] = Route(c)
  BY <1>2
<1>4. ASSUME sticky[h] \in ToSet(req[c].routes), req[c].stuck = sticky[h]
      PROVE  sticky[h] \in ToSet(SubSeq(req[c].routes, 1, req[c].i))
  <2> DEFINE s == req[c].routes
             n == req[c].i
  <2>1. s \in Seq(Exits) /\ n \in 1 .. Len(s) /\ s[1] = sticky[h]
    BY <1>2, <1>4, SentIsReady DEF Ready, Request
  <2> HIDE DEF s, n
  <2>2. /\ SubSeq(s, 1, n) \in Seq(Exits) /\ Len(SubSeq(s, 1, n)) = n
        /\ SubSeq(s, 1, n)[1] = s[1]
    BY <2>1
  <2>3. s[1] \in ToSet(SubSeq(s, 1, n))
    <3> DEFINE t == SubSeq(s, 1, n)
    <3>1. t \in Seq(Exits) /\ 1 \in 1 .. Len(t) /\ t[1] = s[1]
      BY <2>1, <2>2
    <3> HIDE DEF t
    <3>2. t[1] \in ToSet(t)
      BY <3>1 DEF ToSet
    <3> QED BY <3>1, <3>2 DEF t
  <2> QED BY <2>1, <2>3 DEF s, n
<1> QED BY <1>2, <1>3, <1>4

\* docs/VPN.md:95: while requests to one host overlap, the host leaves an exit only by
\* way of a request that had tried it, had found it blocked, or was under way before
\* it was the exit.  In the vpn mode _routes does not look at the exit of the host
\* (egress.py:176-180), and with two proxies the property is false.
THEOREM StickyExitMoves == ASSUME Mode # "vpn" PROVE Spec => StickyMoves
<1>1. RouterInv /\ [Next]_vars =>
        [\A h \in Hosts : sticky[h] # None /\ sticky'[h] # sticky[h] =>
           \E c \in Requests :
             /\ req[c].pc = "sent" /\ req[c].host = h /\ sticky'[h] = Route(c)
             /\ sticky[h] \in ToSet(req[c].routes) /\ req[c].stuck = sticky[h] =>
                  sticky[h] \in ToSet(SubSeq(req[c].routes, 1, req[c].i))]_routerVars
  BY StickyStep
<1> QED BY RouterInvInit, RouterInvStep, <1>1, PTL DEF Spec, StickyMoves

-----------------------------------------------------------------------------
\* The candidates of a search: no URL twice, and no more than the budget allows
Raws == {s \in Seq(Items) : Injective(s) /\ Len(s) <= MaxCandidates}

LEMMA MergeIsItem == ASSUME NEW x \in Items, NEW y \in Items
                     PROVE  Merge(x, y) \in Items /\ Merge(x, y).url = x.url
<1>1. Better(x, y) \in 0 .. 1 /\ (x.image \/ y.image) \in BOOLEAN
  BY DEF Items, Better
<1> QED BY <1>1 DEF Items, Merge

LEMMA AddKeeps == ASSUME NEW raw \in Raws, NEW item \in Items
                  PROVE  Add(raw, item) \in Raws
<1>1. raw \in Seq(Items) /\ Injective(raw) /\ Len(raw) <= MaxCandidates /\ Len(raw) \in Nat
      /\ MaxCandidates \in Nat
  BY ResearchAssumption DEF Raws
<1>2. Urls(raw) = {raw[k].url : k \in 1 .. Len(raw)}
  BY <1>1, UrlsOf
<1>3. CASE Len(raw) >= MaxCandidates
  BY <1>3 DEF Add
<1>4. CASE Len(raw) < MaxCandidates /\ item.url \in Urls(raw)
  <2> DEFINE r == [i \in 1 .. Len(raw) |-> IF raw[i].url = item.url THEN Merge(raw[i], item)
                                           ELSE raw[i]]
  <2>1. Add(raw, item) = r
    <3>1. DOMAIN raw = 1 .. Len(raw)
      BY <1>1
    <3> QED BY <1>1, <1>4, <3>1 DEF Add
  <2>2. \A i \in 1 .. Len(raw) : r[i] \in Items /\ r[i].url = raw[i].url
    BY <1>1, MergeIsItem
  <2>3. r \in Seq(Items) /\ Len(r) = Len(raw)
    BY <1>1, <2>2
  <2> HIDE DEF r
  <2>4. Injective(r)
    BY <1>1, <2>2, <2>3 DEF Injective
  <2> QED BY <1>1, <2>1, <2>3, <2>4 DEF Raws
<1>5. CASE Len(raw) < MaxCandidates /\ item.url \notin Urls(raw)
  <2> DEFINE r == Append(raw, item)
  <2>1. Add(raw, item) = r
    BY <1>1, <1>5 DEF Add
  <2>2. /\ r \in Seq(Items) /\ Len(r) = Len(raw) + 1 /\ r[Len(raw) + 1] = item
        /\ \A k \in 1 .. Len(raw) : r[k] = raw[k]
    BY <1>1
  <2> HIDE DEF r
  <2>3. \A k \in 1 .. Len(r) : k \in 1 .. Len(raw) \/ k = Len(raw) + 1
    BY <1>1, <2>2
  <2>4. Injective(r)
    BY <1>1, <1>2, <1>5, <2>2, <2>3 DEF Injective
  <2> QED BY <1>1, <1>5, <2>1, <2>2, <2>4 DEF Raws
<1> QED BY <1>1, <1>3, <1>4, <1>5

\* All the items of a batch, one after the other
LEMMA AddAllKeeps == ASSUME NEW raw \in Raws, NEW batch, batch # None => batch \in Seq(Items)
                     PROVE  AddAll(raw, batch) \in Raws
<1> DEFINE n    == Len(batch)
           st   == [p \in Raws \X Items |-> Add(p[1], p[2])]
           iter == CHOOSE g : g = [t \in SUBSET (1 .. n) |->
                     IF t = {} THEN raw ELSE Add(g[t \ {Max(t)}], batch[Max(t)])]
<1> SUFFICES ASSUME batch # None PROVE AddAll(raw, batch) \in Raws
  BY DEF AddAll
<1>1. n \in Nat /\ DOMAIN batch = 1 .. n /\ batch \in [1 .. n -> Items]
  OBVIOUS
<1>2. AddAll(raw, batch) = iter[1 .. n]
  BY <1>1 DEF AddAll, FoldLeft, MapThenFoldSet
<1>3. st \in [Raws \X Items -> Raws]
  BY AddKeeps
<1> HIDE DEF n
<1>4. PICK g : Rec(g, st, raw, batch, n)
  BY <1>1, RecExists
<1>5. \A t \in SUBSET (1 .. n) : g[t] \in Raws
  BY <1>1, <1>3, <1>4, RecStays
<1>6. ASSUME NEW t \in SUBSET (1 .. n)
      PROVE g[t] = IF t = {} THEN raw ELSE Add(g[t \ {Max(t)}], batch[Max(t)])
  <2>1. CASE t # {}
    <3>1. Max(t) \in 1 .. n /\ t \ {Max(t)} \in SUBSET (1 .. n)
      BY <1>1, <2>1, MaxIsIndex
    <3>2. <<g[t \ {Max(t)}], batch[Max(t)]>> \in Raws \X Items
      BY <1>1, <1>5, <3>1
    <3> QED BY <1>4, <2>1, <3>2 DEF Rec
  <2> QED BY <1>4, <2>1 DEF Rec
<1>7. g = [t \in SUBSET (1 .. n) |->
             IF t = {} THEN raw ELSE Add(g[t \ {Max(t)}], batch[Max(t)])]
  <2>1. g = [t \in SUBSET (1 .. n) |-> g[t]]
    BY <1>4 DEF Rec
  <2> QED BY <1>6, <2>1
<1>8. iter = [t \in SUBSET (1 .. n) |->
             IF t = {} THEN raw ELSE Add(iter[t \ {Max(t)}], batch[Max(t)])]
  BY <1>7
<1> HIDE DEF iter, st
<1> DEFINE T == {i \in 0 .. n : iter[1 .. i] \in Raws}
<1>9. 0 \in T
  <2>1. iter[1 .. 0] = raw
    BY <1>1, <1>8
  <2> QED BY <1>1, <2>1
<1>10. ASSUME NEW i \in 1 .. n, i - 1 \in T PROVE i \in T
  <2>1. /\ 1 .. i \in SUBSET (1 .. n) /\ 1 .. i # {}
        /\ Max(1 .. i) = i /\ (1 .. i) \ {i} = 1 .. (i - 1)
    BY <1>1, MaxOfPrefix
  <2>2. iter[1 .. i] = Add(iter[1 .. (i - 1)], batch[i])
    BY <1>8, <2>1
  <2>3. iter[1 .. (i - 1)] \in Raws /\ batch[i] \in Items
    BY <1>1, <1>10
  <2> QED BY <2>2, <2>3, AddKeeps
<1> HIDE DEF T
<1>11. n \in T
  BY <1>1, <1>9, <1>10, IndexInduction
<1> QED BY <1>2, <1>11 DEF T

-----------------------------------------------------------------------------
\* The order by the text has the candidates it was given.
LEMMA ByTextKeeps == ASSUME NEW s \in Seq(Items)
                     PROVE  ByText[s] \in Seq(Items) /\ ToSet(ByText[s]) \subseteq ToSet(s)
<1> DEFINE q == Among(s, Good)
           r == Among(s, Items \ Good)
<1>1. ByText[s] = q \o r
  BY DEF ByText
<1>2. /\ q \in Seq(Items) /\ ToSet(q) \subseteq ToSet(s)
      /\ r \in Seq(Items) /\ ToSet(r) \subseteq ToSet(s)
  BY AmongKeeps
<1> HIDE DEF q, r
<1>3. \A x \in ToSet(q \o r) : x \in ToSet(q) \/ x \in ToSet(r)
  BY <1>2, ConcatenationHas
<1> QED BY <1>1, <1>2, <1>3

LEMMA RankedKeeps ==
    ASSUME NEW s \in Seq(Items), NEW isNear, NEW alike
    PROVE  /\ Ranked(s, isNear, alike) \in Seq(Items) /\ Injective(Ranked(s, isNear, alike))
           /\ Len(Ranked(s, isNear, alike)) <= VerifyPages
           /\ ToSet(Ranked(s, isNear, alike)) \subseteq ToSet(s)
<1> DEFINE b == ByText[s]
           k == Among(b, Of(alike)) \o b
           q == Among(k, Of(isNear))
<1>1. b \in Seq(Items) /\ ToSet(b) \subseteq ToSet(s)
  BY ByTextKeeps
<1>2. Ranked(s, isNear, alike) = First(Distinct[q \o k], VerifyPages)
  BY DEF Ranked
<1> HIDE DEF b
<1>3. Among(b, Of(alike)) \in Seq(Items) /\ ToSet(Among(b, Of(alike))) \subseteq ToSet(b)
  BY <1>1, AmongKeeps
<1>4. k \in Seq(Items) /\ ToSet(k) \subseteq ToSet(s)
  BY <1>1, <1>3, ConcatenationHas
<1> HIDE DEF k
<1>9. q \in Seq(Items) /\ ToSet(q) \subseteq ToSet(k)
  BY <1>4, AmongKeeps
<1> HIDE DEF q
<1>5. q \o k \in Seq(Items) /\ ToSet(q \o k) \subseteq ToSet(s)
  BY <1>4, <1>9, ConcatenationHas
<1> DEFINE d == Distinct[q \o k]
<1>6. d \in Seq(Items) /\ Injective(d) /\ ToSet(d) \subseteq ToSet(s)
  BY <1>5, DistinctKeeps
<1> HIDE DEF d
<1>7. VerifyPages \in Nat
  BY ResearchAssumption
<1>8. /\ First(d, VerifyPages) \in Seq(Items) /\ Len(First(d, VerifyPages)) <= VerifyPages
      /\ Injective(First(d, VerifyPages)) /\ ToSet(First(d, VerifyPages)) \subseteq ToSet(d)
  BY <1>6, <1>7, FirstKeeps
<1> QED BY <1>2, <1>6, <1>8 DEF d

\* The candidates whose images are fetched.  The reserve: as many of raw with an
\* image as pages will be read, or all of them.
LEMMA PreliminaryKeeps ==
    ASSUME NEW raw \in Seq(Items)
    PROVE  /\ Preliminary(raw) \in Seq(Items)
           /\ visual => Injective(Preliminary(raw)) /\ Len(Preliminary(raw)) <= 2 * VerifyPages
           /\ ToSet(Preliminary(raw)) \subseteq ToSet(raw)
<1> DEFINE b == ByText[raw]
           s == (First(b, VerifyPages) \o Among(raw, WithImage)) \o b
<1>1. VerifyPages \in Nat /\ 2 * VerifyPages \in Nat
  BY ResearchAssumption
<1>2. b \in Seq(Items) /\ ToSet(b) \subseteq ToSet(raw)
  BY ByTextKeeps
<1>3. Preliminary(raw) = First(IF visual THEN Distinct[s] ELSE b, 2 * VerifyPages)
  BY DEF Preliminary
<1> HIDE DEF b
<1>4. /\ First(b, VerifyPages) \in Seq(Items) /\ ToSet(First(b, VerifyPages)) \subseteq ToSet(b)
      /\ Among(raw, WithImage) \in Seq(Items)
      /\ ToSet(Among(raw, WithImage)) \subseteq ToSet(raw)
  <2>1. /\ First(b, VerifyPages) \in Seq(Items)
        /\ ToSet(First(b, VerifyPages)) \subseteq ToSet(b)
    BY <1>1, <1>2, FirstKeeps
  <2> QED BY <2>1, AmongKeeps
<1>5. s \in Seq(Items) /\ ToSet(s) \subseteq ToSet(raw)
  <2>1. \A q, r \in Seq(Items) : q \o r \in Seq(Items) /\ ToSet(q \o r) = ToSet(q) \cup ToSet(r)
    BY ConcatenationHas
  <2> DEFINE p == First(b, VerifyPages) \o Among(raw, WithImage)
  <2>2. p \in Seq(Items) /\ ToSet(p) \subseteq ToSet(raw)
    BY <1>2, <1>4, <2>1
  <2> HIDE DEF p
  <2>3. p \o b \in Seq(Items) /\ ToSet(p \o b) \subseteq ToSet(raw)
    BY <1>2, <2>1, <2>2
  <2> QED BY <2>3 DEF p
<1> HIDE DEF s
<1>6. CASE visual
  <2>1. /\ Distinct[s] \in Seq(Items) /\ Injective(Distinct[s])
        /\ ToSet(Distinct[s]) \subseteq ToSet(s)
    BY <1>5, DistinctKeeps
  <2>2. Preliminary(raw) = First(Distinct[s], 2 * VerifyPages)
    BY <1>3, <1>6
  <2> QED BY <1>1, <1>5, <2>1, <2>2, FirstKeeps
<1>7. CASE ~visual
  <2>1. Preliminary(raw) = First(b, 2 * VerifyPages)
    BY <1>3, <1>7
  <2> QED BY <1>1, <1>2, <1>7, <2>1, FirstKeeps
<1> QED BY <1>6, <1>7

-----------------------------------------------------------------------------
\* The bookkeeping of a round
FoundInv ==
    /\ found \in Raws
    /\ phase = "images" => Len(found) <= 2 * VerifyPages
    /\ phase \in {"pages", "over"} => Len(found) <= VerifyPages

RoundTypeInv ==
    /\ phase \in {"search", "images", "pages", "over", "failed"}
    /\ visual \in BOOLEAN
    /\ asked \in 0 .. Queries /\ answered \in 0 .. 2 * asked
    /\ near \subseteq Requests

RoundInv == FoundInv /\ RoundTypeInv

LEMMA FewerUrls ==
    ASSUME NEW X, NEW s \in Seq(X), NEW t \in Seq(X), Injective(s), Injective(t),
           ToSet(t) \subseteq ToSet(s)
    PROVE  Len(t) <= Len(s)
<1>1. /\ IsFiniteSet(ToSet(s)) /\ Cardinality(ToSet(s)) = Len(s)
      /\ IsFiniteSet(ToSet(t)) /\ Cardinality(ToSet(t)) = Len(t)
  BY InjectiveCounts
<1> QED BY <1>1, FS_Subset

LEMMA RoundInvInit == Init => RoundInv
<1>1. <<>> \in Seq(Items) /\ Len(<<>>) = 0 /\ MaxCandidates \in Nat /\ VerifyPages \in Nat
      /\ Queries \in Nat
  BY ResearchAssumption
<1>2. Injective(<<>>)
  BY <1>1 DEF Injective
<1> QED BY <1>1, <1>2 DEF Init, RoundInv, FoundInv, RoundTypeInv, Raws

LEMMA RoundInvStep == ASSUME RoundInv, [Next]_vars PROVE RoundInv'
<1>1. found \in Seq(Items) /\ Injective(found) /\ Len(found) <= MaxCandidates
      /\ Len(found) \in Nat /\ MaxCandidates \in Nat /\ VerifyPages \in Nat
  BY ResearchAssumption DEF RoundInv, FoundInv, Raws
<1>2. ASSUME UNCHANGED researchVars PROVE RoundInv'
  BY <1>2 DEF researchVars, RoundInv, FoundInv, RoundTypeInv
<1>3. CASE Search
  <2>1. PICK text, images : /\ text \in Batches \cup {None} /\ images \in Batches \cup {None}
                            /\ answered' = answered + Successes(text) + Successes(images)
                            /\ found' = AddAll(AddAll(found, text), images)
    <3>1. \E text \in Batches \cup {None},
             images \in IF visual /\ asked < ImageQueries THEN Batches \cup {None} ELSE {None} :
            /\ answered' = answered + Successes(text) + Successes(images)
            /\ found' = AddAll(AddAll(found, text), images)
      BY <1>3 DEF Search
    <3> QED BY <3>1
  <2>2. found' \in Raws
    <3>1. \A b \in Batches \cup {None} : b # None => b \in Seq(Items)
      BY ResearchAssumption
    <3>2. AddAll(found, text) \in Raws
      BY <2>1, <3>1, AddAllKeeps DEF RoundInv, FoundInv
    <3> QED BY <2>1, <3>1, <3>2, AddAllKeeps
  <2>3. /\ phase = "search" /\ phase' = phase /\ asked < Queries /\ asked' = asked + 1
        /\ visual' = visual /\ near' = near
    BY <1>3 DEF Search
  <2>4. Successes(text) \in 0 .. 1 /\ Successes(images) \in 0 .. 1
    BY DEF Successes
  <2>5. RoundTypeInv'
    BY <2>1, <2>3, <2>4, ResearchAssumption DEF RoundInv, RoundTypeInv
  <2> QED BY <2>2, <2>3, <2>5 DEF RoundInv, FoundInv
<1>4. CASE NoSearch
  BY <1>4 DEF NoSearch, RoundInv, FoundInv, RoundTypeInv
<1>5. ASSUME NEW s \in Seq(Items), Injective(s), ToSet(s) \subseteq ToSet(found),
             found' = s
      PROVE  found' \in Raws
  <2>1. Len(s) \in Nat /\ Len(s) <= Len(found)
    BY <1>1, <1>5, FewerUrls
  <2> QED BY <1>1, <1>5, <2>1 DEF Raws
<1>6. CASE EndSearch
  <2>1. UNCHANGED <<visual, asked, answered, near>>
    BY <1>6 DEF EndSearch
  <2>2. CASE visual
    <3>1. phase' = "images" /\ found' = Preliminary(found)
      BY <1>6, <2>2 DEF EndSearch, FetchImages
    <3>2. /\ Preliminary(found) \in Seq(Items) /\ Injective(Preliminary(found))
          /\ Len(Preliminary(found)) <= 2 * VerifyPages
          /\ ToSet(Preliminary(found)) \subseteq ToSet(found)
      BY <1>1, <2>2, PreliminaryKeeps
    <3> QED BY <1>5, <2>1, <3>1, <3>2 DEF RoundInv, FoundInv, RoundTypeInv
  <2>3. CASE ~visual
    <3> DEFINE p == Preliminary(found)
    <3>1. phase' = "pages" /\ found' = Ranked(p, {}, {})
      BY <1>6, <2>3 DEF EndSearch, FetchPages
    <3>2. p \in Seq(Items) /\ ToSet(p) \subseteq ToSet(found)
      BY <1>1, PreliminaryKeeps
    <3> HIDE DEF p
    <3>3. /\ Ranked(p, {}, {}) \in Seq(Items) /\ Injective(Ranked(p, {}, {}))
          /\ Len(Ranked(p, {}, {})) <= VerifyPages
          /\ ToSet(Ranked(p, {}, {})) \subseteq ToSet(p)
      BY <3>2, RankedKeeps
    <3> QED BY <1>5, <2>1, <3>1, <3>2, <3>3 DEF RoundInv, FoundInv, RoundTypeInv
  <2> QED BY <2>2, <2>3
<1>7. CASE EndImages
  <2>1. /\ UNCHANGED <<visual, asked, answered>> /\ near' \in SUBSET Answered
        /\ phase' = "pages" /\ \E alike : found' = Ranked(found, near', alike)
    BY <1>7 DEF EndImages, FetchPages
  <2>2. PICK alike : found' = Ranked(found, near', alike)
    BY <2>1
  <2>3. /\ found' \in Seq(Items) /\ Injective(found') /\ Len(found') <= VerifyPages
        /\ ToSet(found') \subseteq ToSet(found)
    BY <1>1, <2>2, RankedKeeps
  <2>4. Answered \subseteq Requests
    <3>1. Urls(found) = {found[k].url : k \in 1 .. Len(found)}
      BY <1>1, UrlsOf
    <3>2. \A k \in 1 .. Len(found) : found[k].url \in Requests
      <4>1. \A k \in 1 .. Len(found) : found[k] \in Items
        BY <1>1
      <4> QED BY <4>1 DEF Items
    <3> QED BY <3>1, <3>2 DEF Answered
  <2> QED BY <1>5, <2>1, <2>3, <2>4 DEF RoundInv, FoundInv, RoundTypeInv
<1>8. CASE EndPages
  <2>1. PICK verified : found' = Among(found, verified)
    BY <1>8 DEF EndPages
  <2>2. phase = "pages" /\ phase' = "over" /\ UNCHANGED <<visual, asked, answered, near>>
    BY <1>8 DEF EndPages
  <2>3. /\ found' \in Seq(Items) /\ Len(found') <= Len(found) /\ Injective(found')
        /\ ToSet(found') \subseteq ToSet(found)
    BY <1>1, <2>1, AmongKeeps
  <2>4. Len(found') \in Nat /\ Len(found') <= VerifyPages
    BY <1>1, <2>2, <2>3 DEF RoundInv, FoundInv
  <2> QED BY <1>5, <2>2, <2>3, <2>4 DEF RoundInv, FoundInv, RoundTypeInv
<1>9. CASE Start \/ Pass \/ \E u \in Requests : Fetch(u)
  BY <1>2, <1>9 DEF Start, Pass, Fetch
<1>10. CASE UNCHANGED vars
  BY <1>2, <1>10 DEF vars
<1> QED BY <1>3, <1>4, <1>6, <1>7, <1>8, <1>9, <1>10 DEF Next, Round

\* Whatever the searches bring and the requests meet, every
\* request that is under way has an exit, and every counter its bounds.
THEOREM ResearchTypeCorrect == Spec => []TypeOK
<1>1. RouterInv /\ RoundInv => TypeOK
  <2> SUFFICES ASSUME RouterInv, RoundInv PROVE TypeOK
    OBVIOUS
  <2>1. RouterTypeOK
    BY DEF RouterInv, MapsTypeOK, OnItsWay, RouterTypeOK
  <2>2. found \in Seq(Items)
    BY DEF RoundInv, FoundInv, Raws
  <2>3. ToSet(found) \subseteq Items
    BY <2>2, ElementsOf
  <2>4. answered \in 0 .. 2 * Queries
    BY ResearchAssumption DEF RoundInv, RoundTypeInv
  <2> QED BY <2>1, <2>3, <2>4 DEF RoundInv, RoundTypeInv, TypeOK
<1> QED BY RouterInvInit, RouterInvStep, RoundInvInit, RoundInvStep, <1>1, PTL DEF Spec

\* research.py:398: however the batches overlap and the candidates are ranked, the
\* limits of the budget hold at every stage and no URL is there twice.
THEOREM BudgetIsKept == Spec => []WithinBudget
<1>1. RoundInv => WithinBudget
  <2> SUFFICES ASSUME RoundInv PROVE WithinBudget
    OBVIOUS
  <2>1. found \in Seq(Items) /\ Injective(found) /\ Len(found) <= MaxCandidates
    BY DEF RoundInv, FoundInv, Raws
  <2>2. Cardinality(Urls(found)) = Len(found)
    BY <2>1, UrlsCount
  <2> QED BY <2>1, <2>2 DEF RoundInv, FoundInv, WithinBudget
<1> QED BY RoundInvInit, RoundInvStep, <1>1, PTL DEF Spec

-----------------------------------------------------------------------------
LEMMA SameUrl ==
    ASSUME NEW raw \in Seq(Items), Injective(raw), NEW x \in ToSet(raw), NEW y \in ToSet(raw),
           x.url = y.url
    PROVE  x = y
<1>1. ToSet(raw) = {raw[k] : k \in 1 .. Len(raw)}
  BY ElementsOf
<1>2. PICK k \in 1 .. Len(raw) : x = raw[k]
  BY <1>1
<1>3. PICK l \in 1 .. Len(raw) : y = raw[l]
  BY <1>1
<1> QED BY <1>2, <1>3 DEF Injective

\* The candidates by text take at most half of the places, so that the first of
\* those with an image are all among the preliminary ones.
LEMMA ReserveIsKept ==
    ASSUME NEW raw \in Seq(Items), Injective(raw), visual
    PROVE  LET images(s) == Len(Among(s, WithImage))
           IN  \/ images(Preliminary(raw)) >= VerifyPages
               \/ images(Preliminary(raw)) = images(raw)
<1> DEFINE b == ByText[raw]
           im == Among(raw, WithImage)
           p == First(b, VerifyPages)
           s == (p \o im) \o b
           d == Distinct[s]
           f == First(d, 2 * VerifyPages)
           shown == Among(f, WithImage)
<1>1. VerifyPages \in Nat /\ 2 * VerifyPages \in Nat
  BY ResearchAssumption
<1>2. Preliminary(raw) = f
  BY DEF Preliminary
<1>3. b \in Seq(Items) /\ ToSet(b) \subseteq ToSet(raw)
  BY ByTextKeeps
<1> HIDE DEF b
<1>4. /\ im \in Seq(Items) /\ Len(im) \in Nat /\ Injective(im)
      /\ ToSet(im) = ToSet(raw) \cap WithImage
  BY AmongKeeps
<1> HIDE DEF im
<1>5. p \in Seq(Items) /\ Len(p) \in Nat /\ Len(p) <= VerifyPages /\ ToSet(p) \subseteq ToSet(b)
  <2>1. /\ p \in Seq(Items) /\ Len(p) <= VerifyPages /\ ToSet(p) \subseteq ToSet(b)
    BY <1>1, <1>3, FirstKeeps
  <2> HIDE DEF p
  <2> QED BY <2>1
<1> HIDE DEF p
<1>6. s \in Seq(Items) /\ ToSet(s) \subseteq ToSet(raw)
  <2>1. \A q, r \in Seq(Items) : q \o r \in Seq(Items) /\ ToSet(q \o r) = ToSet(q) \cup ToSet(r)
    BY ConcatenationHas
  <2> DEFINE t == p \o im
  <2>2. t \in Seq(Items) /\ ToSet(t) \subseteq ToSet(raw)
    BY <1>3, <1>4, <1>5, <2>1
  <2> HIDE DEF t
  <2>3. t \o b \in Seq(Items) /\ ToSet(t \o b) \subseteq ToSet(raw)
    BY <1>3, <2>1, <2>2
  <2> QED BY <2>3 DEF t
<1>7. /\ Len(p) + Len(im) <= Len(s) /\ Len(s) \in Nat
      /\ \A m \in 1 .. Len(im) : s[Len(p) + m] = im[m]
  <2> DEFINE t == p \o im
  <2>1. /\ t \in Seq(Items) /\ Len(t) = Len(p) + Len(im)
        /\ \A m \in 1 .. Len(im) : t[Len(p) + m] = im[m]
    BY <1>4, <1>5
  <2> HIDE DEF t
  <2>2. /\ Len(t \o b) = Len(t) + Len(b) /\ Len(b) \in Nat
        /\ \A k \in 1 .. Len(t) : (t \o b)[k] = t[k]
    BY <1>3, <2>1
  <2>3. \A m \in 1 .. Len(im) : Len(p) + m \in 1 .. Len(t)
    BY <1>4, <1>5, <2>1
  <2> QED BY <1>4, <1>5, <2>1, <2>2, <2>3 DEF t
<1> HIDE DEF s
<1>8. /\ d \in Seq(Items) /\ Injective(d) /\ ToSet(d) \subseteq ToSet(s)
      /\ \A n \in 0 .. Len(s) : \E q \in Seq(Items) :
           /\ Begins(q, d) /\ Len(q) <= n /\ ToSet(q) \subseteq ToSet(s)
           /\ \A m \in 1 .. n : \E k \in 1 .. Len(q) : q[k].url = s[m].url
  BY <1>6, DistinctKeeps
<1> HIDE DEF d
<1>9. /\ f \in Seq(Items) /\ Begins(f, d) /\ (Len(f) = 2 * VerifyPages \/ f = d)
      /\ ToSet(f) \subseteq ToSet(d) /\ Injective(f)
  BY <1>1, <1>8, FirstKeeps
<1> HIDE DEF f
<1>10. /\ shown \in Seq(Items) /\ Len(shown) \in Nat /\ Injective(shown)
       /\ ToSet(shown) = ToSet(f) \cap WithImage
  BY <1>9, AmongKeeps
<1> DEFINE j == IF Len(im) < VerifyPages THEN Len(im) ELSE VerifyPages
           first == First(im, j)
<1>11. j \in Nat /\ j <= Len(im) /\ j <= VerifyPages /\ (j = Len(im) \/ j = VerifyPages)
  BY <1>1, <1>4
<1> HIDE DEF j, shown
<1>12. /\ first \in Seq(Items) /\ Len(first) = j /\ Injective(first)
       /\ \A m \in 1 .. j : first[m] = im[m]
  <2>1. /\ first \in Seq(Items) /\ Begins(first, im) /\ (Len(first) = j \/ first = im)
        /\ Injective(first) /\ Len(first) <= j
    BY <1>4, <1>11, FirstKeeps
  <2>2. Len(first) = j
    BY <1>4, <1>11, <2>1
  <2> QED BY <2>1, <2>2 DEF Begins
<1> HIDE DEF first
<1>13. PICK q \in Seq(Items) :
         /\ Begins(q, d) /\ Len(q) <= Len(p) + j /\ ToSet(q) \subseteq ToSet(s)
         /\ \A m \in 1 .. Len(p) + j : \E k \in 1 .. Len(q) : q[k].url = s[m].url
  <2>1. Len(p) + j \in 0 .. Len(s)
    BY <1>4, <1>5, <1>7, <1>11
  <2> QED BY <1>8, <2>1
<1>14. ToSet(q) \subseteq ToSet(f)
  <2>1. ToSet(q) = {q[k] : k \in 1 .. Len(q)} /\ ToSet(f) = {f[k] : k \in 1 .. Len(f)}
    BY <1>9, ElementsOf
  <2>2. Len(q) \in Nat /\ Len(f) \in Nat /\ Len(q) <= Len(f)
    <3>1. Len(q) \in Nat /\ Len(f) \in Nat /\ Len(q) <= Len(d)
      BY <1>9, <1>13 DEF Begins
    <3>2. Len(q) <= 2 * VerifyPages
      BY <1>1, <1>5, <1>11, <1>13, <3>1
    <3> QED BY <1>9, <3>1, <3>2
  <2>3. \A k \in 1 .. Len(q) : k \in 1 .. Len(f) /\ q[k] = f[k]
    BY <1>9, <1>13, <2>2 DEF Begins
  <2> QED BY <2>1, <2>3
<1>15. ToSet(first) \subseteq ToSet(shown)
  <2>1. ToSet(first) = {first[m] : m \in 1 .. j}
    BY <1>12, ElementsOf
  <2>2. ASSUME NEW m \in 1 .. j PROVE first[m] \in ToSet(shown)
    <3>1. m \in 1 .. Len(im) /\ Len(p) + m \in 1 .. Len(p) + j
      BY <1>4, <1>5, <1>11
    <3>2. PICK k \in 1 .. Len(q) : q[k].url = im[m].url
      BY <1>7, <1>13, <3>1
    <3>3. im[m] \in ToSet(im)
      BY <1>4, <3>1, ElementsOf
    <3>4. q[k] \in ToSet(q)
      BY <1>13, ElementsOf
    <3>5. q[k] = im[m]
      BY <1>4, <1>6, <1>13, <3>2, <3>3, <3>4, SameUrl
    <3> QED BY <1>4, <1>10, <1>12, <1>14, <3>3, <3>4, <3>5
  <2> QED BY <2>1, <2>2
<1>16. j <= Len(shown)
  BY <1>10, <1>12, <1>15, FewerUrls
<1>17. Len(shown) <= Len(im)
  <2>1. ToSet(shown) \subseteq ToSet(im)
    BY <1>4, <1>6, <1>8, <1>9, <1>10
  <2> QED BY <1>4, <1>10, <2>1, FewerUrls
<1>18. Len(shown) >= VerifyPages \/ Len(shown) = Len(im)
  BY <1>1, <1>4, <1>10, <1>11, <1>16, <1>17
<1> QED BY <1>2, <1>18 DEF shown, im

\* research.py:336: whatever the text says of the candidates, those with an image
\* are compared with the references, as many as pages will be read or all of them.
THEOREM ReserveIsForImages == Spec => VisualReserve
<1>1. RoundInv /\ [Next]_vars =>
        [phase = "search" /\ phase' = "images" =>
           LET images(s) == Len(Among(s, WithImage))
           IN  images(found') >= VerifyPages \/ images(found') = images(found)]_vars
  <2> SUFFICES ASSUME RoundInv, [Next]_vars, phase = "search", phase' = "images"
               PROVE  LET images(s) == Len(Among(s, WithImage))
                      IN  images(found') >= VerifyPages \/ images(found') = images(found)
    OBVIOUS
  <2>1. EndSearch
    BY DEF Next, Round, Search, NoSearch, Start, EndImages, EndPages, Pass, Fetch, vars,
           researchVars
  <2>2. visual /\ found' = Preliminary(found)
    BY <2>1 DEF EndSearch, FetchImages, FetchPages
  <2>3. found \in Seq(Items) /\ Injective(found)
    BY DEF RoundInv, FoundInv, Raws
  <2> QED BY <2>2, <2>3, ReserveIsKept
<1> QED BY RoundInvInit, RoundInvStep, <1>1, PTL DEF Spec, VisualReserve

=============================================================================
