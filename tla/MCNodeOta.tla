------------------------------ MODULE MCNodeOta ------------------------------
(* NodeOta for TLC: pushes that go wrong in one or two ways each.          *)
EXTENDS NodeOta

Good == [losses |-> 0, restarts |-> 0, faults |-> 0, room |-> 4, resumes |-> 1,
         patient |-> TRUE]

Trying ==
    {[Good EXCEPT !.losses = 2, !.restarts = 1],
     [Good EXCEPT !.losses = 1, !.faults = 1],
     [Good EXCEPT !.room = 2, !.resumes = 0, !.patient = FALSE]}

OneLoss == {[Good EXCEPT !.losses = 1]}

=============================================================================
