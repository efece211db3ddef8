------------------------------- MODULE MCRows -------------------------------
(***************************************************************************)
(* Small instances of the two components in which several processes write  *)
(* back whole rows they read before: Jobs and the definitions of Data      *)
(* Channels.  The two share no state; focus picks the one whose steps a    *)
(* behaviour takes.                                                        *)
(***************************************************************************)
EXTENDS Jobs, Publication, TLC

CONSTANTS main, other, x1, p1, p2, hourly

VARIABLE focus

view == <<focus, IF focus = "jobs" THEN vars ELSE publicationVars>>

\* Drafts: a schedule, an inbound trigger that is not filled in yet, and each of
\* the two paths with the one account.
Graphs ==
  [trigger : {hourly, "inbound"}, path : {NoPath}, account : {NoAccount}]
  \cup [trigger : {"inbound"}, path : {p1, p2}, account : {x1}]

RowsInit == focus \in {"jobs", "publication"} /\ Init /\ PublicationInit

RowsNext ==
  /\ UNCHANGED focus
  /\ \/ focus = "jobs" /\ Next /\ UNCHANGED publicationVars
     \/ focus = "publication" /\ PublicationNext /\ UNCHANGED vars

RowsSpec == RowsInit /\ [][RowsNext]_<<focus, vars, publicationVars>>

\* Workers and requesters are interchangeable.
Slots == Permutations(Worker) \cup Permutations(Requester)

\* Nothing is asked of channels after a request crossed another.  The other
\* channel only publishes the first path, once.
Few ==
  /\ ~crossed
  /\ channels[other].revision <= 2 /\ Len(channels[other].versions) <= 1
  /\ channels[other].draft = Empty \/ channels[other].draft.path = p1
  /\ \A r \in Requester : request[r].of = other => request[r].at \in {"draft", "store", "schedule", "path"}
=============================================================================
