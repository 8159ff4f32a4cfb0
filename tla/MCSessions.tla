---------------------------- MODULE MCSessions ----------------------------
EXTENDS Sessions, TLC

\* Accounts, tabs and requests are interchangeable.
SessionSymmetry == Permutations(Users) \cup Permutations(Tabs) \cup Permutations(Requests)

\* Bound: tabs and accounts meet while time stands still; once it moves, one tab
\* and one account are followed (pages that were left may still have requests).
TabsInUse == {t \in Tabs : tab[t] # Blank} \cup ({req[r].tab : r \in InFlight(Kinds)} \ {None})
OneOverTime == now > 0 => Cardinality(TabsInUse) <= 1 /\ Cardinality(accounts) <= 1
=============================================================================
