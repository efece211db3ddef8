---------------------------- MODULE MCChangeFeed ----------------------------
(* A small instance of ChangeFeed: run slots are interchangeable. *)
EXTENDS ChangeFeed, TLC

Entities == {1}
Slots == Permutations(Run)

Begun == {t \in Tx : tx[t] # "idle"}
Active == {r \in Run : run[r].phase # "idle"}

\* Transactions, which are alike, begin in the order of their names.
InTurn == \A t \in Begun : \A u \in Tx : u < t => u \in Begun

\* Two runs overlap while two transactions have begun, with two entries; beyond that
\* there is one run, and three transactions have one entry each.
Bound == IF Cardinality(Begun) > 2
         THEN Cardinality(Active) <= 1 /\ \A t \in Tx : Cardinality(Of(t, Stream)) <= 1
         ELSE seq[Stream] <= 2
=============================================================================
