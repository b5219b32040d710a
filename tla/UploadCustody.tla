---------------------------- MODULE UploadCustody ----------------------------
(***************************************************************************)
(* What the user is promised about an upload (README.md:59-69, docs/       *)
(* ARCHITECTURE.md:30-40), without rows, requests or processes: it is      *)
(* stored once, a job is given it once, at its creation, and the job gives *)
(* it up only when it is gone from the disk, both for good.                *)
(***************************************************************************)
CONSTANTS Jobs, Files, None

VARIABLES
    upload,    \* upload[f]: "none" before it is made, then "stored", then "gone"
    created,   \* the jobs there have been
    holds      \* holds[j]: the upload job j refers to, or None

vars == <<upload, created, holds>>

Init ==
    /\ upload = [f \in Files |-> "none"]
    /\ created = {}
    /\ holds = [j \in Jobs |-> None]

Store(f) ==
    /\ upload[f] = "none"
    /\ upload' = [upload EXCEPT ![f] = "stored"]
    /\ UNCHANGED <<created, holds>>

\* A new job, with an upload or without; another job may have ended with the
\* same upload a moment before.
Take(j, f) ==
    /\ j \notin created
    /\ f # None => upload[f] # "none"
    /\ created' = created \cup {j}
    /\ holds' = [holds EXCEPT ![j] = f]
    /\ UNCHANGED upload

\* An upload goes, or is gone, and so do the references of some of its jobs.
Discard(f, released) ==
    /\ upload[f] # "none"
    /\ released \subseteq {j \in Jobs : holds[j] = f}
    /\ upload' = [upload EXCEPT ![f] = "gone"]
    /\ holds' = [j \in Jobs |-> IF j \in released THEN None ELSE holds[j]]
    /\ UNCHANGED created

Next ==
    \/ \E f \in Files : Store(f)
    \/ \E j \in Jobs, f \in Files \cup {None} : Take(j, f)
    \/ \E f \in Files, released \in SUBSET Jobs : Discard(f, released)

Spec == Init /\ [][Next]_vars
=============================================================================
