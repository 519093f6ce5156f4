--------------------------- MODULE MCServoDamper ----------------------------
(* TLC instance of ServoDamper.  The stroke is longer than two confirm     *)
(* windows of slew, so that an error of the believed position that grew    *)
(* from stall to stall would show.                                         *)
EXTENDS ServoDamper
=============================================================================
