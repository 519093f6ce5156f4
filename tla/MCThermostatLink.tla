-------------------------- MODULE MCThermostatLink --------------------------
(* ThermostatLink for TLC: one outage or loss per behaviour, beside one    *)
(* push or one change of what there is to show and to measure.             *)
EXTENDS ThermostatLink

Calm == [losses |-> 0, cuts |-> 0, lapses |-> 0, pushes |-> {}, turns |-> 0]
Push == [version |-> "new", force |-> FALSE]

SomeMishaps ==
    {[Calm EXCEPT !.losses = 1, !.turns = 1],
     [Calm EXCEPT !.lapses = 1, !.turns = 1],
     [Calm EXCEPT !.cuts = 1, !.turns = 1],
     [Calm EXCEPT !.losses = 1, !.pushes = {Push}],
     [Calm EXCEPT !.cuts = 1, !.pushes = {Push}],
     [Calm EXCEPT !.pushes = {[Push EXCEPT !.version = "old"]}]}

JustAPush == {[Calm EXCEPT !.pushes = {Push}]}
=============================================================================
