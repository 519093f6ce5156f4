---------------------------- MODULE RoomControl -----------------------------
(***************************************************************************)
(* One ControllerNode as the MainController and the room see it:           *)
(* RoomControlLoop, the damper endpoints of ControllerHandler, the Damper  *)
(* they drive, the persisted DumpRoom flag and the bus heartbeat of Node   *)
(* (Software/Modules/ControllerNode, Software/Lib/NodeLib).                *)
(*                                                                         *)
(* Percentages are the positions of Damper.  What the room asks for, the   *)
(* value of RoomDemandPercent() or Neutral without the data for it, is a   *)
(* variable of its own that may change at any time.  The current sensor    *)
(* may read anything while the servo is powered.                           *)
(*                                                                         *)
(* The operators marked "Bug" are not the code: each is the definition     *)
(* that follows it with one plausible mistake, kept to show that a         *)
(* property notices.                                                       *)
(***************************************************************************)
EXTENDS Damper

CONSTANTS
    DefaultBudget,   \* defaultBudget: the ceiling without a MainController
    RampStep,        \* rampStepPercent
    Demands          \* what the room may come to ask for; a bound

ASSUME RoomConstants ==
    /\ DefaultBudget \in Neutral..Full
    /\ RampStep \in Nat \ {0}
    /\ Demands \subseteq Positions

Modes == {"Closed", "Open", "Auto", "Manual"}

VARIABLES
    d,            \* the Damper object
    mode,         \* Damper::mode
    budgetMax,
    budgetMin,
    dumpRoom,
    lost,         \* connectionLost
    saved,        \* the flag that ControllerHandler::Init() would load
    demand,       \* what the room asks for
    heard,        \* hearthBeatTimer is running: a Poll came within its window
    masterUp      \* the MainController is there to poll

vars == <<d, mode, budgetMax, budgetMin, dumpRoom, lost, saved, demand, heard,
          masterUp>>

roomVars == <<budgetMax, budgetMin, lost>>
flashVars == <<dumpRoom, saved>>
busVars == <<heard, masterUp>>

Larger(a, b)  == IF a > b THEN a ELSE b
Smaller(a, b) == IF a < b THEN a ELSE b

-----------------------------------------------------------------------------
(* Start-up: the constructors and ControllerHandler::Init().               *)

Init ==
    /\ d = InitialDamper
    /\ mode = "Auto"
    /\ budgetMax = DefaultBudget
    /\ budgetMin = 0
    /\ saved \in BOOLEAN
    /\ dumpRoom = saved
    /\ lost = FALSE
    /\ heard = FALSE
    /\ demand = Neutral
    /\ masterUp = TRUE

(* A reset for any reason: commanded, watchdog or power.                   *)
Reboot ==
    /\ d' = InitialDamper
    /\ mode' = "Auto"
    /\ budgetMax' = DefaultBudget
    /\ budgetMin' = 0
    /\ dumpRoom' = saved
    /\ lost' = FALSE
    /\ heard' = FALSE
    /\ UNCHANGED <<saved, demand, masterUp>>

-----------------------------------------------------------------------------
(* The budget.                                                             *)

Clamped(p, max, min) == Larger(Smaller(p, max), min)

(* ClampIntoRange(), for the range that is about to hold.                  *)
ClampIntoRange(max, min) ==
    IF mode = "Auto" /\ d.target > max THEN SetTarget(d, max)
    ELSE IF mode = "Auto" /\ d.target < min THEN SetTarget(d, min)
    ELSE d

(* Set DamperBudget {max, min}: a min above the max wins.                  *)
SetBudget(max, min) ==
    /\ masterUp
    /\ budgetMin' = Clamp100(min)
    /\ budgetMax' = Larger(Clamp100(max), Clamp100(min))
    /\ lost' = FALSE
    /\ d' = ClampIntoRange(budgetMax', budgetMin')
    /\ UNCHANGED <<mode, demand>>
    /\ UNCHANGED flashVars /\ UNCHANGED busVars

(* Bug: the new range waits for the next pass of the room loop.            *)
ConnectionLostUnclamped ==
    /\ lost' = TRUE
    /\ budgetMin' = IF dumpRoom THEN Full ELSE 0
    /\ budgetMax' = Larger(budgetMax, budgetMin')
    /\ d' = d

(* Bug: the dump room drops its minimum like every other room.             *)
ConnectionLostNoDumpRoom ==
    /\ lost' = TRUE
    /\ budgetMin' = 0
    /\ budgetMax' = budgetMax
    /\ d' = ClampIntoRange(budgetMax', budgetMin')

(* RoomControlLoop::ConnectionLost().                                      *)
ConnectionLost ==
    /\ lost' = TRUE
    /\ budgetMin' = IF dumpRoom THEN Full ELSE 0
    /\ budgetMax' = Larger(budgetMax, budgetMin')
    /\ d' = ClampIntoRange(budgetMax', budgetMin')

(* Bug: the ceiling only ramps down.                                       *)
RampedDown ==
    IF budgetMax > DefaultBudget /\ budgetMax > budgetMin
    THEN Larger(Larger(budgetMax - RampStep, DefaultBudget), budgetMin)
    ELSE budgetMax

(* StepBudgetRamp(), when its timer has run out.                           *)
RampedMax ==
    IF budgetMax < DefaultBudget
    THEN Smaller(budgetMax + RampStep, DefaultBudget)
    ELSE IF budgetMax > DefaultBudget /\ budgetMax > budgetMin
    THEN Larger(Larger(budgetMax - RampStep, DefaultBudget), budgetMin)
    ELSE budgetMax

-----------------------------------------------------------------------------
(* The main loop.                                                          *)

(* Bug: the target is repeated on every pass.                              *)
DecideAlways(damper, max, min) ==
    IF mode = "Auto" THEN SetTarget(damper, Clamped(demand, max, min))
    ELSE damper

(* RoomControlLoop::Loop() from the damper's side.  It leaves a target     *)
(* alone that the damper already has, so a stalled damper is not retried.  *)
Decide(damper, max, min) ==
    LET target == Clamped(demand, max, min) IN
    IF mode = "Auto" /\ target # damper.target
    THEN SetTarget(damper, target) ELSE damper

(* ControllerHandler::Loop(), e frames after the one before: first decide  *)
(* the target, then let the damper take its step.                          *)
Pass(e, over, rampDue) ==
    LET max == IF lost /\ rampDue THEN RampedMax ELSE budgetMax
    IN  /\ budgetMax' = max
        /\ d' = Loop(Decide(Elapse(d, e), max, budgetMin), over)
        /\ UNCHANGED <<mode, budgetMin, lost, demand>>
        /\ UNCHANGED flashVars /\ UNCHANGED busVars

RoomChanges(p) ==
    /\ demand' = p
    /\ UNCHANGED <<d, mode>>
    /\ UNCHANGED roomVars /\ UNCHANGED flashVars /\ UNCHANGED busVars

-----------------------------------------------------------------------------
(* HandleDamper(): the other endpoints that can be set.                    *)

(* Set DamperTarget is a manual override in any mode.                      *)
SetDamperTarget(p) ==
    /\ masterUp
    /\ mode' = "Manual"
    /\ d' = SetTarget(d, p)
    /\ UNCHANGED demand
    /\ UNCHANGED roomVars /\ UNCHANGED flashVars /\ UNCHANGED busVars

SetDamperMode(m) ==
    /\ masterUp
    /\ mode' = m
    /\ d' = CASE m = "Closed" -> SetTarget(d, 0)
              [] m = "Open"   -> SetTarget(d, Full)
              [] OTHER        -> d
    /\ UNCHANGED demand
    /\ UNCHANGED roomVars /\ UNCHANGED flashVars /\ UNCHANGED busVars

(* Set DumpRoom: saved before it is taken over, and refused with a Nack    *)
(* when that fails; Settings has what a failed Save() leaves in flash.     *)
(* The budget stays as it is until the next one, or until the master is    *)
(* lost.                                                                   *)
SetDumpRoom(isDumpRoom) ==
    /\ masterUp
    /\ isDumpRoom # dumpRoom
    /\ \/ saved' = isDumpRoom /\ dumpRoom' = isDumpRoom
       \/ saved' \in {saved, FALSE} /\ UNCHANGED dumpRoom
    /\ UNCHANGED <<d, mode, demand>>
    /\ UNCHANGED roomVars /\ UNCHANGED busVars

-----------------------------------------------------------------------------
(* The bus, as far as Node::Loop() sees it.                                *)

Poll ==
    /\ masterUp
    /\ heard' = TRUE
    /\ UNCHANGED <<d, mode, masterUp, demand>>
    /\ UNCHANGED roomVars /\ UNCHANGED flashVars

(* hearthBeatTimer.Finished(): no Poll for a second, with or without a     *)
(* master that is merely slow to come round.                               *)
HeartbeatLapses ==
    /\ heard
    /\ heard' = FALSE
    /\ ConnectionLost
    /\ UNCHANGED <<mode, masterUp, demand>>
    /\ UNCHANGED flashVars

MasterComesOrGoes ==
    /\ masterUp' = ~masterUp
    /\ UNCHANGED <<d, mode, heard, demand>>
    /\ UNCHANGED roomVars /\ UNCHANGED flashVars

-----------------------------------------------------------------------------
Passes == \E e \in 0..MaxPass, over \in BOOLEAN, rampDue \in BOOLEAN :
              Pass(e, over, rampDue)

Budgets == \E max \in 0..(Full + 1), min \in 0..(Full + 1) : SetBudget(max, min)

Overrides ==
    \/ \E p \in 0..(Full + 1) : SetDamperTarget(p)
    \/ \E m \in Modes : SetDamperMode(m)

Next ==
    \/ Passes
    \/ \E p \in Demands : RoomChanges(p)
    \/ Budgets
    \/ Overrides
    \/ \E isDumpRoom \in BOOLEAN : SetDumpRoom(isDumpRoom)
    \/ Poll
    \/ HeartbeatLapses
    \/ MasterComesOrGoes
    \/ Reboot

(* Time passes, the ramp timer runs out and the main loop comes round; a   *)
(* heartbeat that nobody renews runs out.                                  *)
Fairness ==
    /\ WF_vars(\E e \in 1..MaxPass, over \in BOOLEAN : Pass(e, over, TRUE))
    /\ WF_vars(HeartbeatLapses /\ ~masterUp)

Spec == Init /\ [][Next]_vars /\ Fairness

-----------------------------------------------------------------------------
TypeOK ==
    /\ d \in Dampers
    /\ mode \in Modes
    /\ budgetMax \in Positions
    /\ budgetMin \in Positions
    /\ dumpRoom \in BOOLEAN
    /\ lost \in BOOLEAN
    /\ saved \in BOOLEAN
    /\ demand \in Positions
    /\ heard \in BOOLEAN
    /\ masterUp \in BOOLEAN

(* In Auto the damper is told to be inside the budget at once, not only    *)
(* after the next pass of the room loop: after a pass, after a new budget  *)
(* and after the loss of the master alike, through the ramp and through a  *)
(* min that exceeds the max.                                               *)
AutoInsideBudget ==
    [][mode' = "Auto" /\ (Passes \/ Budgets \/ HeartbeatLapses)
          => d'.target \in budgetMin'..budgetMax']_vars

(* A stalled damper is powered up again for a target it was not given yet, *)
(* or because somebody repeats the command -- never by the room loop       *)
(* running into the same jam pass after pass.                              *)
StallIsNotRetriedBlindly ==
    [][(d.state = "Stalled" /\ Moving(d') /\ d'.target = d.target)
          => Overrides]_vars

(* Without a MainController the ceiling ends at the default, or at the     *)
(* floor where that is higher, and stays there.                            *)
RampConverges ==
    <>[](lost /\ ~heard) => <>[](budgetMax = Larger(DefaultBudget, budgetMin))

(* When the master disappears that had been polling it, the dump room in   *)
(* Auto ends up fully open, or stalled on the way.  The exceptions are the *)
(* return of the master and a reset of the node.                           *)
DumpRoomOpens ==
    (dumpRoom /\ heard /\ ~masterUp) ~>
        \/ d.actual = Full \/ d.state = "Stalled"
        \/ masterUp
        \/ mode # "Auto"
        \/ ~heard /\ ~lost

(* "The minimum is enforced from MainController, so the node-side fallback *)
(* covers the time it is gone: the dump room opens fully on its own"       *)
(* (Damper-Budget-Spec.md 5.5).                                            *)
DumpRoomCoversAbsence ==
    (dumpRoom /\ ~masterUp) ~>
        \/ d.actual = Full \/ d.state = "Stalled"
        \/ masterUp
        \/ mode # "Auto"

=============================================================================
