---------------------------- MODULE ServoDamper -----------------------------
(***************************************************************************)
(* The Damper class driving a servo that can jam.                          *)
(*                                                                         *)
(* The servo follows the pulse much faster than the pulse slews            *)
(* (fullStrokeMs is ten times the servo's own stroke), unless something    *)
(* between the horn and the pulse blocks it: then it draws stall current.  *)
(* A horn without power stays where it is, held by the gearing.            *)
(*                                                                         *)
(* The commands are those of any caller: a new target at any time, or the  *)
(* blocking ParkNeutral() before a reset.  The reset itself is left out;   *)
(* after it the class assumes the horn to be at Neutral.                   *)
(***************************************************************************)
EXTENDS Damper

(* A jam at the end of a move must have time to be confirmed before the    *)
(* move has settled: settleMs outlasts stallConfirmMs by 100 ms, which     *)
(* bounds the pause between two Loop()s that the driver tolerates.         *)
ASSUME ServoTiming == SettleFrames >= ConfirmFrames + MaxPass

NoJam == -1

VARIABLES
    driver,     \* the Damper object
    horn,       \* where the servo really is
    jam,        \* NoJam, or j: nothing gets from j to j + 1 or back
    parking,    \* inside ParkNeutral(), which runs until the servo is off
    overFor,    \* history: frames of stall current since the servo got power
                \*          or the current was last seen normal
    poweredFor  \* history: frames the servo has been powered while parking

servoVars == <<driver, horn, jam, parking, overFor, poweredFor>>

Blocked(h, p) == (h <= jam /\ jam < p) \/ (p <= jam /\ jam < h)

(* Where a powered servo ends up that is told to go from h to p.           *)
Reach(h, p) ==
    IF h <= jam /\ jam < p THEN jam
    ELSE IF p <= jam /\ jam < h THEN jam + 1
    ELSE p

ServoInit ==
    /\ driver = InitialDamper
    /\ horn = Neutral
    /\ jam = NoJam
    /\ parking = FALSE
    /\ overFor = 0
    /\ poweredFor = 0

Command(p) ==
    /\ ~parking
    /\ driver' = SetTarget(driver, p)
    /\ overFor' = IF Moving(driver) THEN overFor ELSE 0
    /\ UNCHANGED <<horn, jam, parking, poweredFor>>

Park ==
    /\ ~parking
    /\ driver' = StartPark(driver)
    /\ parking' = Moving(driver')
    /\ overFor' = IF Moving(driver) THEN overFor ELSE 0
    /\ poweredFor' = 0
    /\ UNCHANGED <<horn, jam>>

(* One Loop(), e frames after the one before it.                           *)
LoopAfter(e) ==
    LET h    == IF Moving(driver) THEN Reach(horn, driver.position) ELSE horn
        over == Moving(driver) /\ Blocked(h, driver.position)
    IN  /\ driver' = Loop(Elapse(driver, e), over)
        /\ horn' = h
        /\ overFor' = IF over THEN overFor + e ELSE 0
        /\ parking' = (parking /\ Moving(driver'))
        /\ poweredFor' = IF parking THEN poweredFor + e ELSE 0
        /\ UNCHANGED jam

(* Something gets in the way of the blade, or out of it again.             *)
Obstruct ==
    /\ jam' \in NoJam..(Full - 1)
    /\ UNCHANGED <<driver, horn, parking, overFor, poweredFor>>

ServoNext ==
    \/ \E p \in 0..(Full + 1) : Command(p)
    \/ Park
    \/ \E e \in 0..MaxPass : LoopAfter(e)
    \/ Obstruct

(* The main loop keeps calling Loop(), and time passes.                    *)
ServoSpec ==
    /\ ServoInit /\ [][ServoNext]_servoVars
    /\ WF_servoVars(\E e \in 1..MaxPass : LoopAfter(e))

-----------------------------------------------------------------------------
ServoTypeOK ==
    /\ driver \in Dampers
    /\ horn \in Positions
    /\ jam \in NoJam..(Full - 1)
    /\ parking \in BOOLEAN
    /\ overFor \in Nat
    /\ poweredFor \in Nat

(* A damper at rest is where it says it is and where it was told to be:    *)
(* however often the move was re-aimed, the target adopted as the actual   *)
(* position is the one the pulse has reached and settled on.               *)
RestIsConsistent ==
    driver.state = "Off" => /\ driver.actual = driver.target
                            /\ driver.position = driver.target

(* The servo never pushes against a jam for longer than the confirm window *)
(* and the two passes of the main loop around it, even when a new target   *)
(* re-aims the move over and over.                                         *)
StallExposureBounded == overFor < ConfirmFrames + 2 * MaxPass

(* The pulse a servo is powered up with is near where its horn was left:   *)
(* no more than the slew of one confirm window and a pass away, however    *)
(* many stalls and retries came before.                                    *)
NoJumpAtPowerUp ==
    [][(~Moving(driver) /\ Moving(driver')) =>
          /\ driver'.position - horn <= (ConfirmFrames + MaxPass) * SlewStep
          /\ horn - driver'.position <= (ConfirmFrames + MaxPass) * SlewStep
      ]_servoVars

(* ParkNeutral() blocks the main loop, and nobody feeds the watchdog, for  *)
(* no longer than half a stroke and the settle time (and the two passes    *)
(* they end in), whatever the blade meets on the way.                      *)
ParkIsBounded ==
    poweredFor * SlewStep <
        Full - Neutral + (SettleFrames + 2 * MaxPass) * SlewStep

(* A commanded move ends, settled or stalled, unless it is re-aimed for    *)
(* ever: the servo is not left powered.                                    *)
MoveEnds ==
    []<>~Moving(driver) \/ []<><<driver'.target # driver.target>>_servoVars

=============================================================================
