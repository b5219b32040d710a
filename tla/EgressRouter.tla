---------------------------- MODULE EgressRouter ----------------------------
(***************************************************************************)
(* EgressRouter (backend/app/egress.py): the requests of one research      *)
(* round, under way at the same time, go out through the direct exit or a  *)
(* proxy.  The router remembers the exit a host last answered through, how *)
(* often an exit has failed, until when it is blocked, and which targets   *)
(* have been looked up.                                                    *)
(*                                                                         *)
(* get and get_bytes differ in what they read, not in how they route: one  *)
(* request stands for either.  It takes a step wherever the code awaits: a *)
(* lookup of an unknown target, an answer.  A target is a host, with its   *)
(* port.  Cooldowns are in units of 5 seconds.  Research.tla has the       *)
(* requests, and the next-state relation.                                  *)
(***************************************************************************)
EXTENDS Integers, SequencesExt

CONSTANTS
    Requests, Hosts, None,
    Proxies,        \* the names of the proxy profiles, in their order
    Mode,           \* EGRESS_MODE
    Reliable,       \* exits that carry every request, and have no legal limits
    MaxRedirects    \* _MAX_REDIRECTS

Exits == {"direct"} \cup ToSet(Proxies)

ASSUME RouterAssumption ==
    /\ Proxies \in Seq(STRING)
    /\ Mode \in {"auto", "direct", "vpn"}
    /\ "direct" \notin ToSet(Proxies)
    /\ None \notin Exits \cup Hosts
    /\ MaxRedirects \in Nat

VARIABLES
    streak,    \* _failure_streak: transport failures since the last success
    cool,      \* _blocked_until, as what is left of it
    sticky,    \* _sticky: the exit the host last answered through
    ruling,    \* _safe_targets: "unknown" until the first lookup is over
    req        \* req[c]: where request c is

routerVars == <<streak, cool, sticky, ruling, req>>

Outcomes == {"ok", "cached", "status", "transport", "target", "redirects", "other"}

\* i: the exit under way, hops: the redirects followed through it; stuck: the
\* exit the host was stuck to when the request was routed.
Request == [pc : {"idle", "check", "sent", "done"}, out : Outcomes \cup {None},
            host : Hosts \cup {None}, target : Hosts \cup {None},
            routes : Seq(Exits), i : Nat, hops : 0 .. MaxRedirects,
            stuck : Exits \cup {None}]

Unsent == [pc |-> "idle", out |-> None, host |-> None, target |-> None,
           routes |-> <<>>, i |-> 0, hops |-> 0, stuck |-> None]

RouterInit ==
    /\ streak = [r \in Exits |-> 0]
    /\ cool = [r \in Exits |-> 0]
    /\ sticky = [h \in Hosts |-> None]
    /\ ruling = [h \in Hosts |-> "unknown"]
    /\ req = [c \in Requests |-> Unsent]

-----------------------------------------------------------------------------
\* More failures than these make no difference.
MaxStreak == 6

\* 60 seconds at most, twice as long after every failure from the second on
Cooldown(n) == IF n < 2 THEN 0 ELSE <<1, 2, 4, 8, 12>>[n - 1]

\* Mutant of Open: the test is the wrong way round.
OpenIfBlocked(r) == cool[r] > 0

\* _route_is_open
Open(r) == cool[r] = 0

\* The elements of s that are in keep, in their order
Among(s, keep) ==
    LET kept[i \in 0 .. Len(s)] ==
          IF i = 0 THEN <<>>
          ELSE IF s[i] \in keep THEN Append(kept[i - 1], s[i]) ELSE kept[i - 1]
    IN  kept[Len(s)]

\* Mutant of FirstOf: the exit of the host is not preferred.
FirstOfNone(r, routes) == routes

\* The exit r before the others, if it is one of them
FirstOf(r, routes) ==
    IF r \in ToSet(routes) THEN <<r>> \o Among(routes, Exits \ {r}) ELSE routes

\* Those that are not blocked; if all are, all of them
Healthy(routes) ==
    IF \E r \in ToSet(routes) : Open(r) THEN Among(routes, {r \in Exits : Open(r)})
    ELSE routes

\* _routes
RoutesFor(h) ==
    CASE Mode = "direct" -> <<"direct">>
      [] Mode = "vpn"    -> Healthy(Proxies)
      [] Mode = "auto"   -> FirstOf(sticky[h], Healthy(<<"direct">> \o Proxies))

-----------------------------------------------------------------------------
\* The caller gets the answer, and nothing of the way to it.
Done(out) == [Unsent EXCEPT !.pc = "done", !.out = out]

\* _target_allowed: a target that is known is not looked up again.
Visit(q, h) ==
    IF ruling[h] = "refused" THEN Done("target")
    ELSE [q EXCEPT !.pc = IF ruling[h] = "allowed" THEN "sent" ELSE "check",
                   !.target = h]

\* get after its own check: the exits, and off through the first of them; a vpn
\* mode without a proxy has none.
Routed(q) ==
    IF RoutesFor(q.host) = <<>> THEN Done("other")
    ELSE [q EXCEPT !.pc = "sent", !.routes = RoutesFor(q.host), !.i = 1,
                   !.stuck = sticky[q.host]]

Begin(c, h) ==
    /\ req[c].pc = "idle"
    /\ LET q == Visit([Unsent EXCEPT !.host = h], h)
       IN  req' = [req EXCEPT ![c] = IF q.pc = "sent" THEN Routed(q) ELSE q]
    /\ UNCHANGED <<streak, cool, sticky, ruling>>

\* public_web_target, in a thread: the answer replaces any that came before.
Lookup(c, answer) ==
    /\ req[c].pc = "check"
    /\ ruling' = [ruling EXCEPT ![req[c].target] = answer]
    /\ req' = [req EXCEPT ![c] = IF answer = "refused" THEN Done("target")
                                 ELSE IF @.i = 0 THEN Routed(@)
                                 ELSE [@ EXCEPT !.pc = "sent"]]
    /\ UNCHANGED <<streak, cool, sticky>>

Route(c) == req[c].routes[req[c].i]

\* The next exit gets the request from the start; after the last one the
\* request fails.
NextRoute(q, out) ==
    IF q.i < Len(q.routes) THEN Visit([q EXCEPT !.i = @ + 1, !.hops = 0], q.host)
    ELSE Done(out)

\* _record_success, _sticky
Succeed(c) ==
    /\ req[c].pc = "sent"
    /\ streak' = [streak EXCEPT ![Route(c)] = 0]
    /\ cool' = [cool EXCEPT ![Route(c)] = 0]
    /\ sticky' = [sticky EXCEPT ![req[c].host] = Route(c)]
    /\ req' = [req EXCEPT ![c] = Done("ok")]
    /\ UNCHANGED <<ruling>>

\* Any status that is no success but 451: it goes back to the caller.
Deny(c) ==
    /\ req[c].pc = "sent"
    /\ req' = [req EXCEPT ![c] = Done("status")]
    /\ UNCHANGED <<streak, cool, sticky, ruling>>

\* HTTP 451
DenyLegally(c) ==
    /\ req[c].pc = "sent"
    /\ Route(c) \notin Reliable
    /\ req' = [req EXCEPT ![c] = NextRoute(@, "status")]
    /\ UNCHANGED <<streak, cool, sticky, ruling>>

\* An answer that is over the limit, or breaks off
BreakOff(c) ==
    /\ req[c].pc = "sent"
    /\ req' = [req EXCEPT ![c] = Done("other")]
    /\ UNCHANGED <<streak, cool, sticky, ruling>>

\* Mutant of Redirect: nobody counts.
RedirectUncounted(c, h) ==
    /\ req[c].pc = "sent"
    /\ req' = [req EXCEPT ![c] = Visit(@, h)]
    /\ UNCHANGED <<streak, cool, sticky, ruling>>

\* Mutant of Redirect: one more is followed.
RedirectOneMore(c, h) ==
    /\ req[c].pc = "sent"
    /\ req' = [req EXCEPT ![c] = IF @.hops > MaxRedirects THEN Done("redirects")
                                 ELSE Visit([@ EXCEPT !.hops = @ + 1], h)]
    /\ UNCHANGED <<streak, cool, sticky, ruling>>

\* Mutant of Redirect: only the first target is checked.
RedirectUnchecked(c, h) ==
    /\ req[c].pc = "sent"
    /\ req' = [req EXCEPT ![c] = IF @.hops = MaxRedirects THEN Done("redirects")
                                 ELSE [@ EXCEPT !.hops = @ + 1, !.target = h]]
    /\ UNCHANGED <<streak, cool, sticky, ruling>>

Redirect(c, h) ==
    /\ req[c].pc = "sent"
    /\ LET q == [req[c] EXCEPT !.hops = @ + 1]
       IN  req' = [req EXCEPT ![c] = IF @.hops = MaxRedirects THEN Done("redirects")
                                     ELSE Visit(q, h)]
    /\ UNCHANGED <<streak, cool, sticky, ruling>>

\* Mutant of Block: the cooldown is not the exit's own.
BlockEverything(r) ==
    /\ streak' = [streak EXCEPT ![r] = IF @ < MaxStreak THEN @ + 1 ELSE @]
    /\ cool' = [x \in Exits |-> IF streak'[r] < 2 THEN cool[x] ELSE Cooldown(streak'[r])]

\* _record_transport_failure
Block(r) ==
    /\ streak' = [streak EXCEPT ![r] = IF @ < MaxStreak THEN @ + 1 ELSE @]
    /\ cool' = [cool EXCEPT ![r] = IF streak'[r] < 2 THEN @ ELSE Cooldown(streak'[r])]

\* One of _NETWORK_ERRORS, wherever the redirects have led
Fail(c) ==
    /\ req[c].pc = "sent"
    /\ Route(c) \notin Reliable
    /\ Block(Route(c))
    /\ req' = [req EXCEPT ![c] = NextRoute(@, "transport")]
    /\ UNCHANGED <<sticky, ruling>>

\* Five seconds
Cool ==
    /\ \E r \in Exits : cool[r] > 0
    /\ cool' = [r \in Exits |-> IF cool[r] > 0 THEN cool[r] - 1 ELSE 0]
    /\ UNCHANGED <<streak, sticky, ruling, req>>

\* What the network does to request c
Answer(c) ==
    \/ \E answer \in {"allowed", "refused"} : Lookup(c, answer)
    \/ Succeed(c) \/ Deny(c) \/ DenyLegally(c) \/ BreakOff(c) \/ Fail(c)
    \/ \E h \in Hosts : Redirect(c, h)

-----------------------------------------------------------------------------
RouterTypeOK ==
    /\ streak \in [Exits -> 0 .. MaxStreak]
    /\ cool \in [Exits -> 0 .. 12]
    /\ sticky \in [Hosts -> Exits \cup {None}]
    /\ ruling \in [Hosts -> {"unknown", "allowed", "refused"}]
    /\ req \in [Requests -> Request]
    /\ \A c \in Requests : req[c].pc = "sent" => req[c].i \in 1 .. Len(req[c].routes)

\* docs/VPN.md:99: an exit is blocked for failing again and again, and for no
\* longer than its failures since the last success allow, whichever of the
\* requests under way come back in what order.
BlockedByFailures == \A r \in Exits : cool[r] <= Cooldown(streak[r])

\* The exits of the mode
Usable == CASE Mode = "direct" -> {"direct"}
            [] Mode = "vpn"    -> ToSet(Proxies)
            [] Mode = "auto"   -> Exits

\* docs/VPN.md:98: a transport failure is an answer only if the mode has no exit
\* that carries every request: neither the failures of the other exits, nor the
\* exit the host is stuck to, nor a blocked exit keeps a request from one that does.
WorkingExitIsFound ==
    \A c \in Requests :
      req[c].pc = "done" /\ req[c].out = "transport" => Reliable \cap Usable = {}

\* egress.py:112: a request goes only to a target whose latest lookup, whichever
\* request made it, has allowed it, and so does every redirect.
SentOnlyToAllowed ==
    [][\A c \in Requests :
         req'[c].pc = "sent" /\ req'[c] # req[c] =>
           ruling'[req'[c].target] = "allowed"]_routerVars

\* docs/VPN.md:95: a host changes its exit only through a request that had first
\* tried the old one, found it blocked, or left before it was the exit.
StickyMoves ==
    [][\A h \in Hosts : sticky[h] # None /\ sticky'[h] # sticky[h] =>
         \E c \in Requests :
           /\ req[c].pc = "sent" /\ req[c].host = h /\ sticky'[h] = Route(c)
           /\ sticky[h] \in ToSet(req[c].routes) /\ req[c].stuck = sticky[h] =>
                sticky[h] \in ToSet(SubSeq(req[c].routes, 1, req[c].i))]_routerVars
=============================================================================
