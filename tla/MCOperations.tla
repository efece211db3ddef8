--------------------------- MODULE MCOperations ---------------------------
(***************************************************************************)
(* Small instances of what administrators change under running Jobs: the   *)
(* lost-detection window, a schedule, and Business Entity definitions with *)
(* a Dictionary.  The components share no state; focus picks the one whose *)
(* steps a behaviour takes.                                                *)
(***************************************************************************)
EXTENDS LostDetection, Schedules, Definitions

CONSTANTS referrer, target, k1, k2

VARIABLE focus

\* Of an occupancy that has ended and a timer that is not armed nothing is read.
detectionView ==
  <<now, parameterVars, status, [j \in RunningJobs |-> locked_at[j]], orphans, suspects, beatVars,
    phase, IF phase = "waiting" THEN renewAt ELSE 0, missed>>

view == <<focus, CASE focus = "detection" -> detectionView
                   [] focus = "schedule" -> scheduleVars
                   [] focus = "definitions" -> definitionVars>>

\* 15, 30 and 60 seconds in units of 5, 60 being the seed.
Values == {3, 6, 12}

Starts == {3}

\* One entity refers to the other, with the Dictionary and without, or has only
\* a key; the other has one key or another.
Shapes == [e \in {referrer, target} |->
             IF e = referrer
               THEN [key : {NoKey}, refs : {{target}}, dict : BOOLEAN] \cup [key : {k1}, refs : {{}}, dict : {FALSE}]
               ELSE [key : {k1, k2}, refs : {{}}, dict : {FALSE}]]

OperationsInit ==
  /\ focus \in {"detection", "schedule", "definitions"}
  /\ Init
  /\ SchedulesInit /\ (focus # "schedule" => row.cadence = "cron")
  /\ DefinitionsInit

OperationsNext ==
  /\ UNCHANGED focus
  /\ \/ focus = "detection" /\ Next /\ UNCHANGED <<scheduleVars, definitionVars>>
     \/ focus = "schedule" /\ SchedulesNext /\ UNCHANGED <<vars, definitionVars>>
     \/ focus = "definitions" /\ DefinitionsNext /\ UNCHANGED <<vars, scheduleVars>>

OperationsSpec == OperationsInit /\ [][OperationsNext]_<<focus, vars, scheduleVars, definitionVars>>

\* Nothing is asked of definitions after a request crossed another.
Uncrossed == ~crossed
=============================================================================
