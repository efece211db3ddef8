-------------------------- MODULE MCLostDetection --------------------------
(* Small instances of LostDetection: 15, 30 and 60 seconds (3, 6 and 12     *)
(* units of 5 seconds), 60 being the seed.                                  *)
EXTENDS LostDetection

Values == {3, 6, 12}
=============================================================================
