------------------------------ MODULE Research ------------------------------
(***************************************************************************)
(* One research round after the other (run_research, backend/app/          *)
(* research.py): the searches, the candidates they bring, the fetches of   *)
(* their images and then of their pages, as many at a time as the          *)
(* semaphore lets through, each by way of the EgressRouter of the round.   *)
(*                                                                         *)
(* Relevance has two grades, an image is near the references or it is not. *)
(* Which answers the caches hold, what a page says and which verified      *)
(* candidates reach the minimum score is left open.                        *)
(***************************************************************************)
EXTENDS EgressRouter, FiniteSets

CONSTANTS
    PageHost,       \* PageHost[u]: the host of page u
    ImageHost,      \* ImageHost[u]: the host of its image
    Queries,        \* len(queries) of make_queries
    ImageQueries,   \* searched for images as well: the first six
    MaxCandidates, VerifyPages, HttpConcurrency,   \* ResearchBudget
    Batches         \* what a search can bring: sequences of items

Items == [url : Requests, score : 0 .. 1, image : BOOLEAN]

ASSUME ResearchAssumption ==
    /\ {PageHost, ImageHost} \subseteq [Requests -> Hosts]
    /\ Queries \in Nat \ {0} /\ ImageQueries \in Nat
    /\ MaxCandidates \in Nat \ {0}
    /\ VerifyPages \in Nat \ {0} /\ HttpConcurrency \in Nat \ {0}
    /\ Batches \subseteq Seq(Items)

VARIABLES
    phase,     \* what run_research waits for
    visual,    \* the job has reference hashes
    asked,     \* query_index
    answered,  \* successful_search_requests
    found,     \* raw, then prelim, then ranked, then verified
    near       \* pages whose image is near the references

researchVars == <<phase, visual, asked, answered, found, near>>
vars == <<routerVars, researchVars>>

Init ==
    /\ RouterInit
    /\ phase = "search" /\ visual \in BOOLEAN
    /\ asked = 0 /\ answered = 0 /\ found = <<>> /\ near = {}

Urls(s) == {s[i].url : i \in DOMAIN s}

-----------------------------------------------------------------------------
Better(x, y) == IF x.score < y.score THEN y.score ELSE x.score

Merge(x, y) == [x EXCEPT !.score = Better(x, y), !.image = x.image \/ y.image]

\* Mutant of Add: the limit of the candidates stops only the search.
AddPast(raw, item) ==
    IF item.url \in Urls(raw)
    THEN [i \in DOMAIN raw |-> IF raw[i].url = item.url THEN Merge(raw[i], item)
                               ELSE raw[i]]
    ELSE Append(raw, item)

\* One item of a batch; at the limit the loops are left.
Add(raw, item) ==
    IF Len(raw) >= MaxCandidates THEN raw
    ELSE IF item.url \in Urls(raw)
    THEN [i \in DOMAIN raw |-> IF raw[i].url = item.url THEN Merge(raw[i], item)
                               ELSE raw[i]]
    ELSE Append(raw, item)

\* A search that fails leaves no batch.
AddAll(raw, batch) == IF batch = None THEN raw ELSE FoldLeft(Add, raw, batch)

Successes(batch) == IF batch = None THEN 0 ELSE 1

\* One query: the search for pages, and one for images.
Search ==
    /\ phase = "search"
    /\ asked < Queries /\ Len(found) < MaxCandidates
    /\ \E text \in Batches \cup {None},
          images \in IF visual /\ asked < ImageQueries THEN Batches \cup {None} ELSE {None} :
         /\ answered' = answered + Successes(text) + Successes(images)
         /\ found' = AddAll(AddAll(found, text), images)
    /\ asked' = asked + 1
    /\ UNCHANGED <<routerVars, phase, visual, near>>

-----------------------------------------------------------------------------
First(s, n) == SubSeq(s, 1, IF n < Len(s) THEN n ELSE Len(s))

Good == {x \in Items : x.score = 1}

WithImage == {x \in Items : x.image}

\* Those of the pages in urls
Of(urls) == {x \in Items : x.url \in urls}

\* sorted(..., reverse=True): the order of equals stays.
ByText[s \in Seq(Items)] == Among(s, Good) \o Among(s, Items \ Good)

\* add, without its limit: each URL once
Distinct[s \in Seq(Items)] ==
    LET kept[i \in 0 .. Len(s)] ==
          IF i = 0 THEN <<>>
          ELSE IF s[i].url \in Urls(SubSeq(s, 1, i - 1)) THEN kept[i - 1]
          ELSE Append(kept[i - 1], s[i])
    IN  kept[Len(s)]

\* Mutant of Preliminary: the text alone counts.
PreliminaryByText(raw) == First(ByText[raw], 2 * VerifyPages)

\* _preliminary_candidates
Preliminary(raw) ==
    First(IF visual
          THEN Distinct[First(ByText[raw], VerifyPages) \o Among(raw, WithImage) \o ByText[raw]]
          ELSE ByText[raw], 2 * VerifyPages)

\* The pages whose image is near the references before the others; within both,
\* those whose image is so alike that it outweighs the text, then by the text
Ranked(s, isNear, alike) ==
    LET first == Among(ByText[s], Of(alike)) \o ByText[s]
    IN  First(Distinct[Among(first, Of(isNear)) \o first], VerifyPages)

\* asyncio.gather over a task for every candidate: one without a URL, or with its
\* answer in the cache, is over at once.
Gather(without, cached) ==
    req' = [u \in Requests |-> IF u \notin Urls(found') THEN Unsent
                               ELSE IF u \in without THEN Done("other")
                               ELSE IF u \in cached THEN Done("cached")
                               ELSE Unsent]

FetchPages(s) ==
    /\ phase' = "pages" /\ found' = s
    /\ \E cached \in SUBSET Urls(found') : Gather({}, cached)

FetchImages(s) ==
    /\ phase' = "images" /\ found' = s
    /\ \E cached \in SUBSET Urls(found') :
         Gather(Urls(Among(found', Items \ WithImage)), cached)

SearchOver == asked = Queries \/ Len(found) >= MaxCandidates

\* The searches are over: RuntimeError("search_backend_unavailable") ...
NoSearch ==
    /\ phase = "search" /\ SearchOver /\ answered = 0
    /\ phase' = "failed"
    /\ UNCHANGED <<routerVars, visual, asked, answered, found, near>>

\* ... or on with the preliminary candidates, by their images if the job has
\* some.
EndSearch ==
    /\ phase = "search" /\ SearchOver /\ answered > 0
    /\ IF visual THEN FetchImages(Preliminary(found))
       ELSE FetchPages(Ranked(Preliminary(found), {}, {}))
    /\ UNCHANGED <<streak, cool, sticky, ruling, visual, asked, answered, near>>

\* A fetch that has not been begun
Waiting(u) == u \in Urls(found) /\ req[u].pc = "idle"

Fetching == phase \in {"images", "pages"}

\* The tasks in `async with sem`
Busy == {u \in Requests : req[u].pc \in {"check", "sent"}}

\* Where the fetch for the candidate goes
HostOf(u) == IF phase = "images" THEN ImageHost[u] ELSE PageHost[u]

\* _image_phashes, _fetch_page: the waiters of a semaphore get it in order.
Start ==
    /\ Fetching
    /\ Cardinality(Busy) < HttpConcurrency
    /\ \E i \in DOMAIN found :
         /\ Waiting(found[i].url)
         /\ \A k \in 1 .. i - 1 : ~Waiting(found[k].url)
         /\ Begin(found[i].url, HostOf(found[i].url))
    /\ UNCHANGED researchVars

\* What a fetch answers, failures included, it gives back to the gather.
Fetch(u) == Answer(u) /\ UNCHANGED researchVars

AllDone == \A u \in Urls(found) : req[u].pc = "done"

Answered == {u \in Urls(found) : req[u].out \in {"ok", "cached"}}

\* An image that came may be near the references.
EndImages ==
    /\ phase = "images" /\ AllDone
    /\ near' \in SUBSET Answered
    /\ \E alike \in SUBSET Answered : FetchPages(Ranked(found, near', alike))
    /\ UNCHANGED <<streak, cool, sticky, ruling, visual, asked, answered>>

\* What is left has the text of its page or a near image, and reaches the minimum
\* score; its order is left out.
EndPages ==
    /\ phase = "pages" /\ AllDone
    /\ phase' = "over"
    /\ \E verified \in SUBSET {x \in ToSet(found) : x.url \in Answered \cup near} :
         found' = Among(found, verified)
    /\ UNCHANGED <<routerVars, visual, asked, answered, near>>

\* Five seconds pass while something is fetched.
Pass == Fetching /\ Cool /\ UNCHANGED researchVars

Round == Search \/ NoSearch \/ EndSearch \/ Start \/ EndImages \/ EndPages

Next == Round \/ (\E u \in Requests : Fetch(u)) \/ Pass

Spec == Init /\ [][Next]_vars

\* The one event loop of the round goes on, and the timeouts of the client and
\* of the resolver end every wait.
FairSpec == Spec /\ WF_vars(Round) /\ \A u \in Requests : WF_vars(Fetch(u))

-----------------------------------------------------------------------------
TypeOK ==
    /\ RouterTypeOK
    /\ phase \in {"search", "images", "pages", "over", "failed"}
    /\ visual \in BOOLEAN
    /\ asked \in 0 .. Queries /\ answered \in 0 .. 2 * Queries
    /\ ToSet(found) \subseteq Items /\ near \subseteq Requests

\* The limit of the budget (max_candidates) holds wherever in the three loops
\* it is reached, and no URL is verified twice.
WithinBudget ==
    /\ Len(found) <= MaxCandidates
    /\ Cardinality(Urls(found)) = Len(found)
    /\ phase = "images" => Len(found) <= 2 * VerifyPages
    /\ phase \in {"pages", "over"} => Len(found) <= VerifyPages

\* research.py:336: however the text ranks them, as many candidates with an
\* image as pages will be read are compared with the references.
VisualReserve ==
    [][phase = "search" /\ phase' = "images" =>
         LET images(s) == Len(Among(s, WithImage))
         IN  images(found') >= VerifyPages \/ images(found') = images(found)]_vars

\* Every round ends, whatever fails, is refused, or is redirected in circles.
RoundEnds == <>(phase \in {"over", "failed"})
=============================================================================
