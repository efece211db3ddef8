---------------------------- MODULE MCSchedules ----------------------------
(* Small instances of Schedules. *)
EXTENDS Schedules

Starts == {3}
=============================================================================
