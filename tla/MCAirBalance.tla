---------------------------- MODULE MCAirBalance ----------------------------
(* AirBalance with the houses it may start from.                           *)
EXTENDS AirBalance

SmallTemps == {-2, 1}

(* Something that a damper cannot open past, and one that it is seized by. *)
SmallReaches == {0..3, {Neutral}}

Room(temp, mode, target, dumpRoom, reach) ==
    [temp |-> temp, mode |-> mode, target |-> target, dumpRoom |-> dumpRoom, reach |-> reach]

House(air, r1, r2, r3) == [supply |-> air, rooms |-> <<r1, r2, r3>>]

(* Air that suits all rooms, one of them far too warm, and the dump room   *)
(* at a higher address; no reading, and a room that somebody closed as far *)
(* as it can be.                                                           *)
SmallHouses ==
    { House(-2, Room(1, "Auto", Neutral, FALSE, Positions),
                Room(None, "Auto", Neutral, TRUE, Positions),
                Room(2, "Auto", Neutral, FALSE, Positions)),
      House(None, Room(1, "Manual", 0, FALSE, {Neutral}),
                  Room(-2, "Auto", Neutral, TRUE, Positions),
                  Room(None, "Auto", Neutral, FALSE, Positions)) }

=============================================================================
