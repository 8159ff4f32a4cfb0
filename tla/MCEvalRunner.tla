---------------------------- MODULE MCEvalRunner ----------------------------
EXTENDS EvalRunner, TLC

CONSTANTS nA, nB, gA, gB, g1

\* Two naive runs and two gate runs with a question in common, and an n1 run.
MCRecords == [r \in {nA, nB, gA, gB, g1} |-> IF r \in {gA, gB} THEN <<"q2", "q1">> ELSE <<"q1">>]
MCRuns == DOMAIN MCRecords
MCNaive == {nA, nB}
MCAblated == {g1}

\* Bound: when it is past midnight the whole document is not torn (the ablated one may
\* be); the budget and the index do not meet.
WholeOverMidnight == day > 0 => DocKey(gA) \notin torn

\* Bound: a naive and a gate runner are not at work at once: they share the call log
\* only, as two of a kind do beside their cache or index.
OneKind == \A p, q \in Procs :
    proc[p] # Off /\ proc[q] # Off => (Run(p) \in Naive <=> Run(q) \in Naive)

\* The two processes are interchangeable, and so are the runs of a kind.
Symmetry == Permutations(Procs) \cup Permutations({nA, nB}) \cup Permutations({gA, gB})
=============================================================================
