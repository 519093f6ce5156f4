------------------------------- MODULE Damper -------------------------------
(***************************************************************************)
(* The damper servo driver of the ControllerNode, class Damper             *)
(* (Software/Modules/ControllerNode/Damper.cpp), as operators on its       *)
(* state.  ServoDamper drives a servo with them, RoomControl calls them    *)
(* the way the ControllerNode's main loop does.                            *)
(*                                                                         *)
(* A position is a servo pulse counted from the closed end, 0..Full.       *)
(* PulseFor() is exact (20 us per percent), so a target is a position too. *)
(* Time is counted in servo frames of 20 ms.  A timer holds the frames it  *)
(* has been running, no more than its delay: DelayTimer::Finished() asks   *)
(* whether they have reached it.                                           *)
(*                                                                         *)
(* The operators marked "Bug" are not the code: each is the definition     *)
(* that follows it with one plausible mistake, kept to show that a         *)
(* property notices.                                                       *)
(*                                                                         *)
(* Not modelled: the diagnostic line of LogSense(), and the enable and PWM *)
(* outputs, which are functions of the state (the servo is powered, with   *)
(* the pulse at the position, exactly while Moving()).                     *)
(***************************************************************************)
EXTENDS Integers

CONSTANTS
    Full,           \* openPulseUs - closedPulseUs: the 100 % position
    Neutral,        \* PulseFor(NeutralPercent), 50 %
    SlewStep,       \* slewStepUs: how far the pulse moves in one frame
    SettleFrames,   \* settleMs
    ConfirmFrames,  \* stallConfirmMs
    MaxPass         \* the longest time between two Loop()s, in frames

ASSUME DamperConstants ==
    /\ Full \in Nat \ {0}
    /\ Neutral \in 0..Full
    /\ SlewStep \in Nat \ {0}
    /\ SettleFrames \in Nat \ {0}
    /\ ConfirmFrames \in Nat \ {0}
    /\ MaxPass \in Nat \ {0}

Positions == 0..Full

Stopped == -1       \* a DelayTimer that is not running

Dampers == [target     : Positions,
            actual     : Positions,
            state      : {"Off", "Moving", "Settling", "Stalled"},
            position   : Positions,               \* positionUs
            stallStart : Positions,               \* stallStartUs
            settle     : Stopped..SettleFrames,   \* settleTimer
            stall      : Stopped..ConfirmFrames,  \* stallTimer
            sinceSlew  : 0..MaxPass]              \* now - lastSlewMs

(* Damper() and Init().                                                    *)
InitialDamper == [target     |-> Neutral,
                  actual     |-> Neutral,
                  state      |-> "Off",
                  position   |-> Neutral,
                  stallStart |-> Neutral,
                  settle     |-> Stopped,
                  stall      |-> Stopped,
                  sinceSlew  |-> 0]

Moving(d) == d.state \in {"Moving", "Settling"}

-----------------------------------------------------------------------------
(* Starting a move.                                                        *)

(* Bug: every re-aim opens a fresh overcurrent window.                     *)
StartMoveFreshWindow(d) ==
    [d EXCEPT !.state = "Moving", !.stall = Stopped, !.settle = Stopped,
              !.sinceSlew = 0]

(* A re-aim of a running move keeps the power, the slew and the stall      *)
(* timer; a move from rest starts with no stale overcurrent window.        *)
StartMove(d) ==
    [d EXCEPT !.state     = "Moving",
              !.stall     = IF Moving(d) THEN @ ELSE Stopped,
              !.settle    = Stopped,
              !.sinceSlew = 0]

Clamp100(p) == IF p > Full THEN Full ELSE p

(* Bug: a re-aim while settling leaves the settle timer running.           *)
SetTargetKeepSettling(d, percent) ==
    LET clamped == Clamp100(percent) IN
    IF clamped = d.target /\ d.state # "Stalled" THEN d
    ELSE IF Moving(d) THEN [d EXCEPT !.target = clamped]
    ELSE StartMove([d EXCEPT !.target = clamped])

(* Bug: a repeated target restarts the move.                               *)
SetTargetAlways(d, percent) ==
    StartMove([d EXCEPT !.target = Clamp100(percent)])

(* After a stall the same target is a retry.                               *)
SetTarget(d, percent) ==
    LET clamped == Clamp100(percent) IN
    IF clamped = d.target /\ d.state # "Stalled" THEN d
    ELSE StartMove([d EXCEPT !.target = clamped])

(* ParkNeutral() up to its blocking loop.                                  *)
Parked(d) == d.state = "Off" /\ d.target = Neutral /\ d.actual = Neutral

StartPark(d) ==
    IF Parked(d) THEN d ELSE StartMove([d EXCEPT !.target = Neutral])

-----------------------------------------------------------------------------
(* Loop().                                                                 *)

PowerOff(d, next) ==
    [d EXCEPT !.state = next, !.settle = Stopped, !.stall = Stopped]

(* Bug: the slew that ran on past the jam is not taken back.               *)
CheckStallRunOn(d, over) ==
    IF ~over THEN [d EXCEPT !.stall = Stopped]
    ELSE IF d.stall = Stopped
    THEN [d EXCEPT !.stall = 0, !.stallStart = d.position]
    ELSE IF d.stall < ConfirmFrames THEN d
    ELSE PowerOff(d, "Stalled")

(* One reading of the servo current, over the threshold or not.            *)
CheckStall(d, over) ==
    IF ~over THEN [d EXCEPT !.stall = Stopped]
    ELSE IF d.stall = Stopped
    THEN [d EXCEPT !.stall = 0, !.stallStart = d.position]
    ELSE IF d.stall < ConfirmFrames THEN d
    ELSE PowerOff([d EXCEPT !.position = d.stallStart], "Stalled")

(* Bug: one step per Loop(), however long ago the last one was.            *)
SlewPerLoop(d) ==
    LET next == IF d.position < d.target
                THEN IF d.target - d.position <= SlewStep THEN d.target
                     ELSE d.position + SlewStep
                ELSE IF d.position - d.target <= SlewStep THEN d.target
                     ELSE d.position - SlewStep
    IN  IF d.sinceSlew = 0 THEN d
        ELSE [d EXCEPT !.sinceSlew = 0,
                       !.position  = next,
                       !.state     = IF next = d.target THEN "Settling" ELSE @,
                       !.settle    = IF next = d.target THEN 0 ELSE @]

(* The pulse moves toward the target by a step for every whole frame since *)
(* it last did.                                                            *)
Slew(d) ==
    LET step == d.sinceSlew * SlewStep
        next == IF d.position < d.target
                THEN IF d.target - d.position <= step THEN d.target
                     ELSE d.position + step
                ELSE IF d.position - d.target <= step THEN d.target
                     ELSE d.position - step
    IN  IF d.sinceSlew = 0 THEN d
        ELSE [d EXCEPT !.sinceSlew = 0,
                       !.position  = next,
                       !.state     = IF next = d.target THEN "Settling" ELSE @,
                       !.settle    = IF next = d.target THEN 0 ELSE @]

Settle(d) ==
    IF d.settle = SettleFrames
    THEN PowerOff([d EXCEPT !.actual = d.target], "Off")
    ELSE d

Loop(d, over) ==
    LET checked == CheckStall(d, over) IN
    IF ~Moving(d) THEN d
    ELSE CASE checked.state = "Stalled"  -> checked
           [] checked.state = "Moving"   -> Slew(checked)
           [] checked.state = "Settling" -> Settle(checked)

-----------------------------------------------------------------------------
(* The clock: e frames pass between two Loop()s.                           *)

Run(timer, e, delay) ==
    IF timer = Stopped THEN Stopped
    ELSE IF timer + e >= delay THEN delay ELSE timer + e

Elapse(d, e) ==
    [d EXCEPT !.settle    = Run(@, e, SettleFrames),
              !.stall     = Run(@, e, ConfirmFrames),
              !.sinceSlew = IF d.state = "Moving" THEN @ + e ELSE @]

=============================================================================
