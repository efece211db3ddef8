---------------------------- MODULE ChannelWalk ----------------------------
(***************************************************************************)
(* The walk of a Data Channel run over its graph (backend/channel/         *)
(* engine.py), for the graphs that validation admits (graph.py).           *)
(*                                                                         *)
(* The walk keeps a state for every edge and a stack of nodes that became  *)
(* ready; it goes depth first, the smaller canvas position first.  A       *)
(* Container (For, Until, Batch Read) runs its body in rounds, each a walk *)
(* of its own on top of the one that reached the Container.  Nodes are     *)
(* numbered by canvas position.  What a node computes is abstracted to the *)
(* output ports it leaves live, which on_error and the status skipped      *)
(* reduce to as well, and to failures that stop the run.                   *)
(***************************************************************************)
EXTENDS Integers, FiniteSets, SequencesExt

CONSTANTS Graphs,     \* the graphs considered, out of ValidGraphs
          MaxRounds,  \* bound on the rounds of one execution of a Container
          MaxTries    \* retry.max_tries of every Container

Outside == 0

ASSUME WalkAssumption == MaxRounds \in Nat /\ MaxTries \in Nat \ {0}

VARIABLES graph,      \* nodes, ports, edges, parent, loops, trigger and stop node
          reachable,  \* the nodes the run may execute
          edge,       \* state of each edge
          frames,     \* the walks in progress: the run's, then one for each Container
          verdict,    \* what has become of each node: its walk's done, and live ports
          out,        \* the round in which a node's output was stored, -1 for none
          begun,      \* rounds begun so far
          outcome     \* of the run

walkVars == <<graph, reachable, edge, frames, verdict, out, begun, outcome>>

-----------------------------------------------------------------------------
(* Graphs (validate, ancestor_closure) *)

Undecided == [is |-> "undecided", live |-> {}]
Dead == [is |-> "dead", live |-> {}]
Ran(ports) == [is |-> "ran", live |-> ports]

\* S and what paths along E reach from it: the least set with S that E does not leave.
Closure(E, S) ==
  LET To == {a[2] : a \in E} IN
  S \cup {t \in To : \A C \in SUBSET To : (\A a \in E : a[1] \in S \cup C => a[2] \in C) => t \in C}

Arrows(g) == {<<x.from, x.to>> : x \in g.edges}
Reverse2(E) == {<<a[2], a[1]>> : a \in E}

\* Ends in different frames, and not from a Container into its own.
CrossesFrame(g, x) == g.parent[x.from] # g.parent[x.to] /\ g.parent[x.to] # x.from

Acyclic(g) ==
  \A n \in g.nodes : n \notin Closure(Arrows(g), {x[2] : x \in {a \in Arrows(g) : a[1] = n}})

Parents(g) == {<<n, g.parent[n]>> : n \in {m \in g.nodes : g.parent[m] # Outside}}

FramesAreSound(g) ==
  /\ \A n \in g.nodes : g.parent[n] = Outside \/ g.parent[n] \in g.loops
  /\ \A n \in g.nodes : g.parent[n] # Outside => n \notin Closure(Parents(g), {g.parent[n]})
  /\ \A x \in g.edges : /\ ~CrossesFrame(g, x)
                        /\ x.from \in g.loops => (x.port = "each" <=> g.parent[x.to] = x.from)

ValidGraph(g) ==
  /\ \A x \in g.edges : x.port \in g.ports[x.from] /\ x.to # g.trigger
  /\ Closure(Arrows(g), {g.trigger}) = g.nodes
  /\ Acyclic(g) /\ FramesAreSound(g)

\* The nodes a run may execute: all, or the stop node and its ancestors.
AncestorClosure(g, n) == Closure(Reverse2({<<x.from, x.to>> : x \in {y \in g.edges : ~CrossesFrame(g, y)}}), {n})
Executable(g) ==
  Closure(Arrows(g), {g.trigger})
    \cap (IF g.stop = Outside THEN g.nodes ELSE AncestorClosure(g, g.stop))

\* Nodes are numbered, and a Container ends by done.
ASSUME GraphsAssumption ==
  \A g \in Graphs :
    /\ IsFiniteSet(g.nodes) /\ g.nodes \subseteq Nat \ {Outside} /\ g.trigger \in g.nodes
    /\ \A x \in g.edges : x.from \in g.nodes /\ x.to \in g.nodes
    /\ g.loops \subseteq g.nodes /\ \A l \in g.loops : {"each", "done"} \subseteq g.ports[l]
    /\ ValidGraph(g)

-----------------------------------------------------------------------------
Inside(l) == {n \in graph.nodes : graph.parent[n] = l}
In(n) == {x \in graph.edges : x.to = n}
Out(n) == {x \in graph.edges : x.from = n}

\* What a walk visits: its scope without the bodies of the Containers in it.
Scope(l) == IF l = Outside THEN reachable ELSE Inside(l)
Direct(l) == (Scope(l) \cap reachable) \ UNION {Inside(m) : m \in graph.loops \cap Scope(l)}

Ready(n, e) == \A x \in In(n) : e[x] # "pending"
LiveIncoming(n) == In(n) = {} \/ \E x \in In(n) : edge[x] = "live"

\* The top of the stack is what is explored next.
Ordered(ns) == CHOOSE s \in [1..Cardinality(ns) -> ns] : \A i, j \in DOMAIN s : i < j => s[i] > s[j]

NewWalk(l, stack, round, tries) ==
  [loop |-> l, walking |-> TRUE, stack |-> stack, round |-> round, tries |-> tries, id |-> begun]

Top == Last(frames)
Here == Last(Top.stack)
Popped == [Top EXCEPT !.stack = Front(@)]
Walking == outcome = "running" /\ Top.walking /\ Top.stack # <<>>

WalkInit ==
  /\ graph \in Graphs
  /\ reachable = Executable(graph)
  /\ edge = [x \in graph.edges |-> "pending"]
  /\ verdict = [n \in graph.nodes |-> Undecided]
  /\ out = [n \in graph.nodes |-> -1] /\ begun = 0
  /\ frames = <<NewWalk(Outside, <<graph.trigger>>, 0, 1)>>
  /\ outcome = "running"

-----------------------------------------------------------------------------
(* One turn of the walk *)

\* _push: the targets of n that have become ready, in the walk w.
Pushes(w, n, e, v) ==
  [w EXCEPT !.stack = @ \o Ordered({m \in Direct(w.loop) :
       /\ \E x \in Out(n) : x.to = m
       /\ v[m] = Undecided /\ Ready(m, e)})]

\* _settle: an edge of a live port is live, the others dead; a Container's each is skipped.
Settled(n, live) ==
  [x \in graph.edges |->
     IF x.from = n /\ ~(n \in graph.loops /\ x.port = "each")
     THEN IF x.port \in live THEN "live" ELSE "dead" ELSE edge[x]]
Killed(n) == [x \in graph.edges |-> IF x.from = n THEN "dead" ELSE edge[x]]

\* n is decided; below is the rest of the frames, w the walk that goes on.
Decide(below, w, n, e, v) ==
  /\ edge' = e
  /\ verdict' = [verdict EXCEPT ![n] = v]
  /\ frames' = Append(below, Pushes(w, n, e, verdict'))

\* The walk takes n from the stack.
Takes(n) == verdict[n] = Undecided /\ n \in Direct(Top.loop) /\ Ready(n, edge)
Executes(n) == Walking /\ n = Here /\ Takes(n) /\ LiveIncoming(n)

\* A node that is decided or not ready is passed over.  One that no live edge
\* enters does not execute.
KillOrPass(n) ==
  /\ Walking /\ n = Here /\ ~Executes(n)
  /\ IF Takes(n) THEN Decide(Front(frames), Popped, n, Killed(n), Dead)
                 ELSE frames' = Append(Front(frames), Popped) /\ UNCHANGED <<edge, verdict>>
  /\ UNCHANGED <<graph, reachable, out, begun, outcome>>

\* _run: n executes, retries included, and does not stop the run.
RunNode(n) ==
  /\ Executes(n) /\ n \notin graph.loops
  /\ \E live \in SUBSET graph.ports[n] :
       Decide(Front(frames), Popped, n, Settled(n, live), Ran(live))
  /\ out' = [out EXCEPT ![n] = Top.id]
  /\ UNCHANGED <<graph, reachable, begun, outcome>>

\* A failure with on_error stop ends the run, from within any round.
FailNode(n) ==
  /\ Executes(n)
  /\ outcome' = "failed"
  /\ UNCHANGED <<graph, reachable, edge, frames, verdict, out, begun>>

-----------------------------------------------------------------------------
(* Containers *)

NoRound(l, tries) == [NewWalk(l, <<>>, 0, tries) EXCEPT !.walking = FALSE]

EnterLoop(n) ==
  /\ Executes(n) /\ n \in graph.loops
  /\ frames' = Append(Front(frames), Popped) \o <<NoRound(n, 1)>>
  /\ UNCHANGED <<graph, reachable, edge, verdict, out, begun, outcome>>

Between == outcome = "running" /\ ~Top.walking
Below == frames[Len(frames) - 1]

\* _arm: the edges in the body wait again, those of each are live.
Armed_Wrong(l) ==
  [x \in graph.edges |-> IF x.from = l /\ x.port = "each" THEN "live" ELSE edge[x]]
Armed(l) ==
  [x \in graph.edges |->
     IF x.from = l /\ x.port = "each" THEN "live"
     ELSE IF x.from \in Inside(l) /\ x.to \in Inside(l) THEN "pending" ELSE edge[x]]

\* _drop: no output of an earlier round is left to be read.
Dropped_Wrong(l) == out
Dropped(l) == [n \in graph.nodes |-> IF n \in Inside(l) THEN -1 ELSE out[n]]

\* run_round; _seeds are the body's nodes that are ready at once.
RunRound ==
  LET l == Top.loop IN
  /\ Between /\ Top.round < MaxRounds
  /\ begun' = begun + 1
  /\ edge' = Armed(l) /\ out' = [Dropped(l) EXCEPT ![l] = Below.id]
  /\ verdict' = [n \in graph.nodes |-> IF n \in Inside(l) THEN Undecided ELSE verdict[n]]
  /\ frames' = Append(Front(frames),
       [Top EXCEPT !.walking = TRUE, !.round = @ + 1, !.id = begun',
                   !.stack = Ordered({n \in Direct(l) : Ready(n, edge')})])
  /\ UNCHANGED <<graph, reachable, outcome>>

EndRound ==
  /\ outcome = "running" /\ Top.walking /\ Top.stack = <<>> /\ Top.loop # Outside
  /\ frames' = Append(Front(frames), [Top EXCEPT !.walking = FALSE])
  /\ UNCHANGED <<graph, reachable, edge, verdict, out, begun, outcome>>

\* The Container failed and is tried again: its rounds start over.
RetryLoop ==
  /\ Between /\ Top.tries < MaxTries
  /\ frames' = Append(Front(frames), NoRound(Top.loop, Top.tries + 1))
  /\ UNCHANGED <<graph, reachable, edge, verdict, out, begun, outcome>>

\* _run_loop: the Container ends and leaves done live, or fails with on_error
\* continue, which leaves each and done live.
FinishLoop ==
  /\ Between
  /\ \E live \in {{"done"}, {"each", "done"}} :
       Decide(Front(Front(frames)), Below, Top.loop, Settled(Top.loop, live), Ran(live))
  /\ out' = [out EXCEPT ![Top.loop] = Below.id]
  /\ UNCHANGED <<graph, reachable, begun, outcome>>

FailLoop ==
  /\ Between
  /\ outcome' = "failed"
  /\ UNCHANGED <<graph, reachable, edge, frames, verdict, out, begun>>

\* Cancelled, superseded or timed out, seen before a node or an attempt.
Halt ==
  /\ Walking \/ (Between /\ Top.tries < MaxTries)
  /\ outcome' \in {"cancelled", "failed"}
  /\ UNCHANGED <<graph, reachable, edge, frames, verdict, out, begun>>

EndWalk ==
  /\ outcome = "running" /\ Top.walking /\ Top.stack = <<>> /\ Top.loop = Outside
  /\ outcome' = "succeeded"
  /\ UNCHANGED <<graph, reachable, edge, frames, verdict, out, begun>>

-----------------------------------------------------------------------------
WalkNext ==
  \/ Halt \/ RunRound \/ EndRound \/ RetryLoop \/ FinishLoop \/ FailLoop \/ EndWalk
  \/ \E n \in graph.nodes : KillOrPass(n) \/ RunNode(n) \/ FailNode(n) \/ EnterLoop(n)

WalkSpec == WalkInit /\ [][WalkNext]_walkVars

-----------------------------------------------------------------------------
(* Properties *)

WalkRecord == [loop : Nat, walking : BOOLEAN, stack : Seq(Nat), round : Nat, tries : Nat, id : Nat]

\* Types, and walks nested as the frames are.
WalkTypeOK ==
  /\ graph \in Graphs /\ reachable \subseteq graph.nodes
  /\ edge \in [graph.edges -> {"pending", "live", "dead"}]
  /\ \A n \in graph.nodes : verdict[n] \in {Undecided, Dead} \cup {Ran(p) : p \in SUBSET graph.ports[n]}
  /\ \A i \in DOMAIN frames :
       /\ frames[i] \in WalkRecord
       /\ IF i = 1 THEN frames[i].loop = Outside ELSE graph.parent[frames[i].loop] = frames[i - 1].loop
  /\ outcome \in {"running", "succeeded", "failed", "cancelled"}

\* The states of the edges and the stack decide what the graph alone promises: a node
\* after its predecessors, once, exactly when a live edge enters it, afresh in
\* each round, and none left out when a round or the run ends.
D == INSTANCE Dataflow WITH
       rounds <- {frames[i].loop : i \in {j \in DOMAIN frames : frames[j].walking}},
       over <- outcome = "succeeded"
FollowsDataflow == D!Spec

\* What n can read of the round in progress: a node's stored output is from this very
\* round of the walk it belongs to, never from an earlier round or attempt.
OutputsAreFresh ==
  \A i \in DOMAIN frames : frames[i].walking =>
    \A n \in Direct(frames[i].loop) : out[n] \in {-1, frames[i].id}
=============================================================================
