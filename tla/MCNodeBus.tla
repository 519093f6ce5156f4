----------------------------- MODULE MCNodeBus ------------------------------
(* TLC instance of NodeBus: two nodes, so that one restarts while the other *)
(* is polled, and one lost frame.                                           *)
EXTENDS NodeBus
=============================================================================
