--------------------------- MODULE JobLifecycle ---------------------------
(***************************************************************************)
(* What the Job primitive promises its callers: one durable execution that *)
(* goes queued -> running -> terminal, whose domain work starts at most    *)
(* once and only while the Job is running, whose result exists exactly on  *)
(* success, and whose terminal status is final.                            *)
(***************************************************************************)

CONSTANT Job

VARIABLES status,   \* Job -> lifecycle status, "absent" before the row exists
          started,  \* the Jobs whose domain work has begun
          result    \* the Jobs whose row carries a result document

vars == <<status, started, result>>

Init == /\ status = [j \in Job |-> "absent"]
        /\ started = {}
        /\ result = {}

Mint(j) == /\ status[j] = "absent"
           /\ status' = [status EXCEPT ![j] = "queued"]
           /\ UNCHANGED <<started, result>>

Take(j) == /\ status[j] = "queued"
           /\ status' = [status EXCEPT ![j] = "running"]
           /\ UNCHANGED <<started, result>>

Begin(j) == /\ status[j] = "running"
            /\ j \notin started
            /\ started' = started \cup {j}
            /\ UNCHANGED <<status, result>>

Succeed(j) == /\ status[j] = "running"
              /\ status' = [status EXCEPT ![j] = "succeeded"]
              /\ result' = result \cup {j}
              /\ UNCHANGED started

Abandon(j, to) == /\ status[j] \in {"queued", "running"}
                  /\ status' = [status EXCEPT ![j] = to]
                  /\ UNCHANGED <<started, result>>

Next == \E j \in Job : \/ Mint(j)
                       \/ Take(j)
                       \/ Begin(j)
                       \/ Succeed(j)
                       \/ \E to \in {"failed", "cancelled"} : Abandon(j, to)

Spec == Init /\ [][Next]_vars
=============================================================================
