--------------------------- MODULE MCRoomControl ----------------------------
(* TLC instance of RoomControl.  Full leaves two ramp steps above the      *)
(* default and one below it.                                               *)
EXTENDS RoomControl
=============================================================================
