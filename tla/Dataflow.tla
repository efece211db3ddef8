----------------------------- MODULE Dataflow -----------------------------
(***************************************************************************)
(* What the walk over a Data Channel graph promises, without any order of  *)
(* its own: a node is decided once its predecessors are, it runs when one  *)
(* of the edges that enter it is live and is dead otherwise, a Container   *)
(* runs its body in rounds that start afresh, and neither a round nor the  *)
(* run ends before everything in its scope is decided.                     *)
(***************************************************************************)
EXTENDS FiniteSets

CONSTANTS Graphs, Outside

VARIABLES graph,      \* the published graph
          reachable,  \* the nodes the run may execute
          verdict,    \* what has become of each node
          rounds,     \* the Containers that have a round open, and Outside
          over        \* the run has succeeded

vars == <<graph, reachable, verdict, rounds, over>>

-----------------------------------------------------------------------------
\* A verdict is undecided, dead, or ran with a set of live output ports.
Undecided == [is |-> "undecided", live |-> {}]
Dead == [is |-> "dead", live |-> {}]
Ran(ports) == [is |-> "ran", live |-> ports]

In(n) == {x \in graph.edges : x.to = n}
Scope(l) == {n \in reachable : graph.parent[n] = l}

\* The each edges of a Container are live while a round is open.
Enters(x) == graph.parent[x.to] = x.from
Settled(x) == Enters(x) \/ verdict[x.from] # Undecided
Live(x) == Enters(x) \/ x.port \in verdict[x.from].live

Due(n) == /\ n \in reachable /\ graph.parent[n] \in rounds /\ n \notin rounds
          /\ verdict[n] = Undecided
          /\ \A x \in In(n) : Settled(x)
Wanted(n) == In(n) = {} \/ \E x \in In(n) : Live(x)

Init ==
  /\ graph \in Graphs /\ reachable \subseteq graph.nodes
  /\ verdict = [n \in graph.nodes |-> Undecided]
  /\ rounds = {Outside} /\ over = FALSE

Decide(n) ==
  /\ Due(n)
  /\ IF Wanted(n) THEN \E ports \in SUBSET graph.ports[n] : verdict' = [verdict EXCEPT ![n] = Ran(ports)]
                  ELSE verdict' = [verdict EXCEPT ![n] = Dead]
  /\ UNCHANGED <<graph, reachable, rounds, over>>

OpenRound(l) ==
  /\ l \in graph.loops /\ Due(l) /\ Wanted(l)
  /\ rounds' = rounds \cup {l}
  /\ verdict' = [n \in graph.nodes |-> IF graph.parent[n] = l THEN Undecided ELSE verdict[n]]
  /\ UNCHANGED <<graph, reachable, over>>

CloseRound(l) ==
  /\ l \in rounds \ {Outside}
  /\ \A n \in Scope(l) : verdict[n] # Undecided
  /\ rounds' = rounds \ {l}
  /\ UNCHANGED <<graph, reachable, verdict, over>>

Complete ==
  /\ ~over
  /\ \A n \in Scope(Outside) : verdict[n] # Undecided
  /\ over' = TRUE
  /\ UNCHANGED <<graph, reachable, verdict, rounds>>

Next == Complete \/ \E n \in graph.nodes : Decide(n) \/ OpenRound(n) \/ CloseRound(n)

Spec == Init /\ [][Next]_vars
=============================================================================
