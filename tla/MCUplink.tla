------------------------------- MODULE MCUplink -------------------------------
(* An instance of Uplink for TLC; MCUplink.cfg gives the bounds.           *)
EXTENDS Uplink

=============================================================================
