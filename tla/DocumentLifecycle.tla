------------------------- MODULE DocumentLifecycle -------------------------
(***************************************************************************)
(* What the ingest queue promises of an upload, whatever crashes, retries  *)
(* and races happen below: a document is pending until it is indexed or    *)
(* given up, each at most once and for good; its index appears as a whole; *)
(* and a removed document never comes back.                                *)
(***************************************************************************)
CONSTANTS Docs, Empty, Whole

VARIABLES phase, index

vars == <<phase, index>>

Init ==
    /\ phase = [d \in Docs |-> "absent"]
    /\ index = [d \in Docs |-> Empty]

Submit(d) ==
    /\ phase[d] = "absent"
    /\ phase' = [phase EXCEPT ![d] = "pending"]
    /\ UNCHANGED index

Publish(d) ==
    /\ phase[d] = "pending"
    /\ phase' = [phase EXCEPT ![d] = "indexed"]
    /\ index' = [index EXCEPT ![d] = Whole]

GiveUp(d) ==
    /\ phase[d] = "pending"
    /\ phase' = [phase EXCEPT ![d] = "dead"]
    /\ UNCHANGED index

Remove(d) ==
    /\ phase[d] \in {"pending", "indexed", "dead"}
    /\ phase' = [phase EXCEPT ![d] = "gone"]
    /\ index' = [index EXCEPT ![d] = Empty]

\* One statement of _reap_exhausted_jobs gives up every exhausted job at once.
GiveUpAll(S) ==
    /\ \A d \in S : phase[d] = "pending"
    /\ phase' = [d \in Docs |-> IF d \in S THEN "dead" ELSE phase[d]]
    /\ UNCHANGED index

Next ==
    \/ \E d \in Docs : Submit(d) \/ Publish(d) \/ GiveUp(d) \/ Remove(d)
    \/ \E S \in SUBSET Docs : GiveUpAll(S)

Spec == Init /\ [][Next]_vars
=============================================================================
