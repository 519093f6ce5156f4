---------------------------- MODULE DamperProofs -----------------------------
(***************************************************************************)
(* First, lemmas about the operators of Damper, for every stroke and       *)
(* timer: what each returns for a damper in range.  The proofs of          *)
(* RoomControl rest on them, too, and on nothing else in this module.      *)
(*                                                                         *)
(* Then ServoDamper, for every stroke, timer, jam and sequence of          *)
(* commands: where the damper is at rest, how long it may push, how long   *)
(* it parks, and how far it may jump.                                      *)
(***************************************************************************)
EXTENDS ServoDamper, TLAPS

(* A damper between two calls: in range, with its last slew accounted for. *)
Rested(x) == x \in Dampers /\ (x.state = "Moving" => x.sinceSlew = 0)

-----------------------------------------------------------------------------
(* The operators of Damper.                                                *)

(* A percentage from the wire becomes a position.                          *)
LEMMA Clamp100Type ==
    ASSUME NEW p \in Nat
    PROVE  Clamp100(p) \in Positions
BY DamperConstants DEF Positions, Clamp100

(* A move starts with its slew accounted for, wherever it is to end.       *)
LEMMA StartMoveType ==
    ASSUME NEW x \in Dampers
    PROVE  Rested(StartMove(x)) /\ StartMove(x).target = x.target
<1>. DEFINE stall == IF Moving(x) THEN x.stall ELSE Stopped
<1>1. stall \in Stopped..ConfirmFrames
    BY DamperConstants DEF Dampers, Stopped
<1>2. Stopped \in Stopped..SettleFrames /\ 0 \in 0..MaxPass
    BY DamperConstants DEF Stopped
<1>3. StartMove(x) = [x EXCEPT !.state = "Moving", !.stall = stall,
                               !.settle = Stopped, !.sinceSlew = 0]
    BY DEF StartMove, Dampers
<1>. HIDE DEF stall
<1>. QED
    BY <1>1, <1>2, <1>3 DEF Rested, Dampers

(* A new target keeps the damper in range and is taken over as it is.      *)
LEMMA SetTargetType ==
    ASSUME NEW x, Rested(x), NEW p \in Nat
    PROVE  /\ Rested(SetTarget(x, p))
           /\ SetTarget(x, p).target = Clamp100(p)
<1>1. Clamp100(p) \in Positions
    BY Clamp100Type
<1>2. CASE Clamp100(p) = x.target /\ x.state # "Stalled"
    BY <1>1, <1>2 DEF SetTarget, Rested
<1>3. CASE ~(Clamp100(p) = x.target /\ x.state # "Stalled")
  <2>1. SetTarget(x, p) = StartMove([x EXCEPT !.target = Clamp100(p)])
    BY <1>3 DEF SetTarget
  <2>2. [x EXCEPT !.target = Clamp100(p)] \in Dampers
    BY <1>1 DEF Rested, Dampers
  <2>. QED
    BY <2>1, <2>2, StartMoveType DEF Rested, Dampers
<1>. QED
    BY <1>2, <1>3

(* The same, in the middle of a pass, when time has passed since the slew. *)
LEMMA SetTargetInPass ==
    ASSUME NEW x \in Dampers, NEW p \in Nat
    PROVE  /\ SetTarget(x, p) \in Dampers
           /\ SetTarget(x, p).target = Clamp100(p)
<1>1. Clamp100(p) \in Positions
    BY Clamp100Type
<1>2. CASE Clamp100(p) = x.target /\ x.state # "Stalled"
    BY <1>1, <1>2 DEF SetTarget
<1>3. CASE ~(Clamp100(p) = x.target /\ x.state # "Stalled")
  <2>1. SetTarget(x, p) = StartMove([x EXCEPT !.target = Clamp100(p)])
    BY <1>3 DEF SetTarget
  <2>2. [x EXCEPT !.target = Clamp100(p)] \in Dampers
    BY <1>1 DEF Dampers
  <2>. QED
    BY <2>1, <2>2, StartMoveType DEF Rested, Dampers
<1>. QED
    BY <1>2, <1>3

(* A timer stays within its delay.                                         *)
LEMMA RunType ==
    ASSUME NEW delay \in Nat, NEW timer \in Stopped..delay, NEW e \in Nat
    PROVE  Run(timer, e, delay) \in Stopped..delay
BY DEF Run, Stopped

(* Time passes: no timer leaves its range, and no target moves.            *)
LEMMA ElapseType ==
    ASSUME NEW x, Rested(x), NEW e \in 0..MaxPass
    PROVE  Elapse(x, e) \in Dampers /\ Elapse(x, e).target = x.target
<1>1. Run(x.settle, e, SettleFrames) \in Stopped..SettleFrames
    BY RunType, DamperConstants DEF Rested, Dampers
<1>2. Run(x.stall, e, ConfirmFrames) \in Stopped..ConfirmFrames
    BY RunType, DamperConstants DEF Rested, Dampers
<1>3. (IF x.state = "Moving" THEN x.sinceSlew + e ELSE x.sinceSlew) \in 0..MaxPass
    BY DamperConstants DEF Rested, Dampers
<1>. QED
    BY <1>1, <1>2, <1>3 DEF Elapse, Rested, Dampers

(* The power goes off, and the timers with it.                             *)
LEMMA PowerOffType ==
    ASSUME NEW x \in Dampers, NEW next \in {"Off", "Stalled"}
    PROVE  /\ PowerOff(x, next) \in Dampers
           /\ PowerOff(x, next).target = x.target
           /\ PowerOff(x, next).state = next
<1>1. /\ Stopped \in Stopped..SettleFrames
      /\ Stopped \in Stopped..ConfirmFrames
      /\ next \in {"Off", "Moving", "Settling", "Stalled"}
    BY DamperConstants DEF Stopped
<1>. QED
    BY <1>1 DEF PowerOff, Dampers

(* A reading of the servo current.                                         *)
LEMMA CheckStallType ==
    ASSUME NEW x \in Dampers, NEW over \in BOOLEAN
    PROVE  /\ CheckStall(x, over) \in Dampers
           /\ CheckStall(x, over).target = x.target
           /\ CheckStall(x, over).state \in {x.state, "Stalled"}
<1>1. Stopped \in Stopped..ConfirmFrames /\ 0 \in Stopped..ConfirmFrames
    BY DamperConstants DEF Stopped
<1>2. CASE ~over
  <2>1. CheckStall(x, over) = [x EXCEPT !.stall = Stopped]
    BY <1>2 DEF CheckStall
  <2>. QED
    BY <1>1, <2>1 DEF Dampers
<1>3. CASE over /\ x.stall = Stopped
  <2>1. CheckStall(x, over) = [x EXCEPT !.stall = 0, !.stallStart = x.position]
    BY <1>3 DEF CheckStall
  <2>. QED
    BY <1>1, <2>1 DEF Dampers
<1>4. CASE over /\ x.stall # Stopped /\ x.stall < ConfirmFrames
    BY <1>4 DEF CheckStall
<1>5. CASE over /\ x.stall # Stopped /\ ~(x.stall < ConfirmFrames)
  <2>. DEFINE back == [x EXCEPT !.position = x.stallStart]
  <2>1. CheckStall(x, over) = PowerOff(back, "Stalled")
    BY <1>5 DEF CheckStall
  <2>2. back \in Dampers /\ back.target = x.target
    BY DEF Dampers
  <2>. HIDE DEF back
  <2>3. /\ PowerOff(back, "Stalled") \in Dampers
        /\ PowerOff(back, "Stalled").target = back.target
        /\ PowerOff(back, "Stalled").state = "Stalled"
    BY <2>2, PowerOffType
  <2>. QED
    BY <2>1, <2>2, <2>3
<1>. QED
    BY <1>2, <1>3, <1>4, <1>5

(* However many frames have passed, the pulse stops at the target.         *)
LEMMA SlewType ==
    ASSUME NEW x \in Dampers, x.state = "Moving"
    PROVE  Rested(Slew(x)) /\ Slew(x).target = x.target
<1>. DEFINE step == x.sinceSlew * SlewStep
            next == IF x.position < x.target
                    THEN IF x.target - x.position <= step THEN x.target
                         ELSE x.position + step
                    ELSE IF x.position - x.target <= step THEN x.target
                         ELSE x.position - step
<1>1. step \in Nat
    BY DamperConstants DEF Dampers
<1>2. x.position \in 0..Full /\ x.target \in 0..Full /\ Full \in Nat
    BY DamperConstants DEF Dampers, Positions
<1>. HIDE DEF step
<1>3. next \in Positions
    BY <1>1, <1>2 DEF Positions
<1>. USE DEF step
<1>4. CASE x.sinceSlew = 0
    BY <1>4 DEF Slew, Rested
<1>5. CASE x.sinceSlew # 0
  <2>. DEFINE after  == IF next = x.target THEN "Settling" ELSE x.state
              settle == IF next = x.target THEN 0 ELSE x.settle
  <2>1. Slew(x) = [x EXCEPT !.sinceSlew = 0, !.position = next,
                            !.state = after, !.settle = settle]
    BY <1>5 DEF Slew
  <2>2. /\ after \in {"Off", "Moving", "Settling", "Stalled"}
        /\ settle \in Stopped..SettleFrames
        /\ 0 \in 0..MaxPass
    BY DamperConstants DEF Dampers, Stopped
  <2>. HIDE DEF next, after, settle
  <2>. QED
    BY <1>3, <2>1, <2>2 DEF Rested, Dampers
<1>. QED
    BY <1>4, <1>5

(* Loop() leaves the damper at rest between calls, with its target.        *)
LEMMA LoopType ==
    ASSUME NEW x \in Dampers, NEW over \in BOOLEAN
    PROVE  Rested(Loop(x, over)) /\ Loop(x, over).target = x.target
<1>. DEFINE checked == CheckStall(x, over)
<1>1. /\ checked \in Dampers
      /\ checked.target = x.target
      /\ checked.state \in {x.state, "Stalled"}
    BY CheckStallType
<1>2. x.state \in {"Off", "Moving", "Settling", "Stalled"}
    BY DEF Dampers
<1>. HIDE DEF checked
<1>3. CASE ~Moving(x)
    BY <1>3 DEF Loop, Rested, Moving
<1>4. CASE Moving(x) /\ checked.state = "Stalled"
  <2>1. Loop(x, over) = checked
    BY <1>4 DEF Loop, checked
  <2>. QED
    BY <2>1, <1>1, <1>4 DEF Rested
<1>5. CASE Moving(x) /\ checked.state = "Moving"
  <2>1. Loop(x, over) = Slew(checked)
    BY <1>5 DEF Loop, checked
  <2>. QED
    BY <2>1, <1>1, <1>5, SlewType
<1>6. CASE Moving(x) /\ checked.state = "Settling"
  <2>1. Loop(x, over) = Settle(checked)
    BY <1>6 DEF Loop, checked
  <2>. DEFINE there == [checked EXCEPT !.actual = checked.target]
  <2>2. there \in Dampers /\ there.target = checked.target
    BY <1>1 DEF Dampers
  <2>3. CASE checked.settle = SettleFrames
    <3>1. Settle(checked) = PowerOff(there, "Off")
      BY <2>3 DEF Settle
    <3>. HIDE DEF there
    <3>2. /\ PowerOff(there, "Off") \in Dampers
          /\ PowerOff(there, "Off").target = there.target
          /\ PowerOff(there, "Off").state = "Off"
      BY <2>2, PowerOffType
    <3>. QED
      BY <1>1, <2>1, <2>2, <3>1, <3>2 DEF Rested
  <2>4. CASE checked.settle # SettleFrames
    BY <1>1, <1>6, <2>1, <2>4 DEF Settle, Rested
  <2>. QED
    BY <2>3, <2>4
<1>. QED
    BY <1>1, <1>2, <1>3, <1>4, <1>5, <1>6 DEF Moving

-----------------------------------------------------------------------------
(* Where the pulse is.                                                     *)

(* At rest it is where it was told to go, which takes that it was there    *)
(* when the settle time began.                                             *)
Arrived(x) ==
    /\ x.state = "Off" => x.actual = x.target /\ x.position = x.target
    /\ x.state = "Settling" => x.position = x.target

(* A move starts moving, whatever the damper was doing.                    *)
LEMMA StartMoveArrives ==
    ASSUME NEW x \in Dampers
    PROVE  StartMove(x).state = "Moving"
BY DEF StartMove, Dampers

(* A new target leaves rest only by starting a move.                       *)
LEMMA SetTargetArrives ==
    ASSUME NEW x, Rested(x), Arrived(x), NEW p \in Nat
    PROVE  Arrived(SetTarget(x, p))
<1>1. CASE Clamp100(p) = x.target /\ x.state # "Stalled"
  BY <1>1 DEF SetTarget
<1>2. CASE ~(Clamp100(p) = x.target /\ x.state # "Stalled")
  <2>1. SetTarget(x, p) = StartMove([x EXCEPT !.target = Clamp100(p)])
    BY <1>2 DEF SetTarget
  <2>2. [x EXCEPT !.target = Clamp100(p)] \in Dampers
    BY Clamp100Type DEF Rested, Dampers
  <2> QED
    BY <2>1, <2>2, StartMoveArrives DEF Arrived
<1> QED
  BY <1>1, <1>2

(* So does parking, and it keeps the damper in range.                      *)
LEMMA StartParkType ==
    ASSUME NEW x, Rested(x), Arrived(x)
    PROVE  Rested(StartPark(x)) /\ Arrived(StartPark(x))
<1>1. CASE Parked(x)
  BY <1>1 DEF StartPark
<1>2. CASE ~Parked(x)
  <2>1. StartPark(x) = StartMove([x EXCEPT !.target = Neutral])
    BY <1>2 DEF StartPark
  <2>2. [x EXCEPT !.target = Neutral] \in Dampers
    BY DamperConstants DEF Rested, Dampers, Positions
  <2> QED
    BY <2>1, <2>2, StartMoveType, StartMoveArrives DEF Arrived
<1> QED
  BY <1>1, <1>2

(* Loop() begins to settle at the target, and powers off there.            *)
LEMMA LoopArrives ==
    ASSUME NEW x \in Dampers, Arrived(x), NEW over \in BOOLEAN
    PROVE  Arrived(Loop(x, over))
<1> DEFINE checked == CheckStall(x, over)
<1>1. checked \in Dampers /\ checked.state \in {x.state, "Stalled"}
  BY CheckStallType
<1>2. checked.state = "Settling" => checked.position = checked.target
  BY DEF CheckStall, PowerOff, Arrived, Dampers
<1>3. x.state \in {"Off", "Moving", "Settling", "Stalled"}
  BY DEF Dampers
<1>4. ~Moving(x) => Arrived(Loop(x, over))
  BY DEF Loop
<1>5. Moving(x) /\ checked.state = "Stalled" => Arrived(Loop(x, over))
  <2>1. Moving(x) /\ checked.state = "Stalled" => Loop(x, over) = checked
    BY DEF Loop
  <2> QED
    BY <2>1 DEF Arrived
<1>6. Moving(x) /\ checked.state = "Moving" => Arrived(Loop(x, over))
  <2>1. Moving(x) /\ checked.state = "Moving" => Loop(x, over) = Slew(checked)
    BY DEF Loop
  <2> HIDE DEF checked
  <2>2. checked.state = "Moving" => Arrived(Slew(checked))
    BY <1>1 DEF Slew, Arrived, Dampers
  <2> QED
    BY <2>1, <2>2
<1>7. Moving(x) /\ checked.state = "Settling" => Arrived(Loop(x, over))
  <2>1. Moving(x) /\ checked.state = "Settling" => Loop(x, over) = Settle(checked)
    BY DEF Loop
  <2> HIDE DEF checked
  <2>2. checked.state = "Settling" => Arrived(Settle(checked))
    BY <1>1, <1>2 DEF Settle, PowerOff, Arrived, Dampers
  <2> QED
    BY <2>1, <2>2
<1> QED
  BY <1>1, <1>3, <1>4, <1>5, <1>6, <1>7 DEF Moving

(* Time moves no pulse.                                                    *)
LEMMA ElapseArrives ==
    ASSUME NEW x, Rested(x), Arrived(x), NEW e \in 0..MaxPass
    PROVE  Arrived(Elapse(x, e)) /\ Elapse(x, e).state = x.state
BY DEF Elapse, Arrived, Rested, Dampers

-----------------------------------------------------------------------------
(* How long the servo has been pushing.                                    *)

(* The stall timer runs whenever stall current has been seen since the     *)
(* servo got power, and started no more than a pass after it.              *)
Counted(x, pushed) ==
    Moving(x) => /\ x.stall = Stopped => pushed = 0
                 /\ x.stall # Stopped => /\ x.stall < ConfirmFrames
                                         /\ pushed <= x.stall + MaxPass

Exposure == ConfirmFrames + 2 * MaxPass

(* A re-aimed move keeps its timer, one from rest starts without.          *)
LEMMA StartMoveCounts ==
    ASSUME NEW x \in Dampers, NEW p \in Positions, NEW pushed \in Nat,
           Counted(x, pushed)
    PROVE  Counted(StartMove([x EXCEPT !.target = p]),
                   IF Moving(x) THEN pushed ELSE 0)
BY DEF Counted, StartMove, Moving, Dampers

(* A new target opens no fresh window for a move under way.                *)
LEMMA SetTargetCounts ==
    ASSUME NEW x \in Dampers, NEW p \in Nat, NEW pushed \in Nat, Counted(x, pushed)
    PROVE  Counted(SetTarget(x, p), IF Moving(x) THEN pushed ELSE 0)
<1>1. Clamp100(p) \in Positions
  BY Clamp100Type
<1>2. Counted(x, IF Moving(x) THEN pushed ELSE 0)
  BY DEF Counted
<1> QED
  BY <1>1, <1>2, StartMoveCounts DEF SetTarget

(* Nor does parking.                                                       *)
LEMMA StartParkCounts ==
    ASSUME NEW x \in Dampers, NEW pushed \in Nat, Counted(x, pushed)
    PROVE  Counted(StartPark(x), IF Moving(x) THEN pushed ELSE 0)
<1>1. Neutral \in Positions
  BY DamperConstants DEF Positions
<1>2. Counted(x, IF Moving(x) THEN pushed ELSE 0)
  BY DEF Counted
<1> QED
  BY <1>1, <1>2, StartMoveCounts DEF StartPark

(* What Loop() makes of the timer of a servo it leaves powered.            *)
LEMMA LoopStall ==
    ASSUME NEW x \in Dampers, NEW over \in BOOLEAN, Moving(Loop(x, over))
    PROVE  /\ Moving(x)
           /\ ~over => Loop(x, over).stall = Stopped
           /\ over /\ x.stall = Stopped => Loop(x, over).stall = 0
           /\ over /\ x.stall # Stopped => /\ x.stall < ConfirmFrames
                                           /\ Loop(x, over).stall = x.stall
<1> DEFINE checked == CheckStall(x, over)
<1>1. checked \in Dampers /\ checked.state \in {x.state, "Stalled"}
  BY CheckStallType
<1>2. Moving(x)
  BY DEF Loop
<1>3. checked.state # "Stalled" =>
        checked.stall = IF ~over THEN Stopped
                        ELSE IF x.stall = Stopped THEN 0 ELSE x.stall
  BY DEF CheckStall, PowerOff, Dampers
<1>4. checked.state # "Stalled" /\ over /\ x.stall # Stopped => x.stall < ConfirmFrames
  BY DEF CheckStall, PowerOff, Dampers
<1>5. checked.state # "Stalled"
  <2>1. checked.state = "Stalled" => Loop(x, over) = checked
    BY <1>2 DEF Loop
  <2> QED
    BY <2>1 DEF Moving
<1>6. Loop(x, over).stall = checked.stall
  <2>1. checked.state = "Moving" => Loop(x, over) = Slew(checked)
    BY <1>2 DEF Loop
  <2>2. checked.state = "Settling" => Loop(x, over) = Settle(checked)
    BY <1>2 DEF Loop
  <2>3. checked.state \in {"Moving", "Settling"}
    BY <1>1, <1>2, <1>5 DEF Moving
  <2> HIDE DEF checked
  <2>4. Slew(checked).stall = checked.stall
    BY <1>1 DEF Slew, Dampers
  <2>5. Moving(Settle(checked)) => Settle(checked).stall = checked.stall
    BY <1>1 DEF Settle, PowerOff, Moving, Dampers
  <2> QED
    BY <2>1, <2>2, <2>3, <2>4, <2>5
<1> QED
  BY <1>2, <1>3, <1>4, <1>5, <1>6

(* A pass adds its frames to both clocks, or stalls.                       *)
LEMMA PassCounts ==
    ASSUME NEW x, Rested(x), NEW pushed \in Nat, Counted(x, pushed),
           NEW e \in 0..MaxPass, NEW over \in BOOLEAN, over => Moving(x)
    PROVE  LET after == IF over THEN pushed + e ELSE 0
           IN  /\ Counted(Loop(Elapse(x, e), over), after)
               /\ after < Exposure
<1> DEFINE elapsed == Elapse(x, e)
           after == IF over THEN pushed + e ELSE 0
<1>1. elapsed \in Dampers
  BY ElapseType
<1>2. elapsed.state = x.state /\ elapsed.stall = Run(x.stall, e, ConfirmFrames)
  BY DEF Elapse, Rested, Dampers
<1>3. x.stall \in Stopped..ConfirmFrames /\ MaxPass \in Nat /\ ConfirmFrames \in Nat \ {0}
  BY DamperConstants DEF Rested, Dampers
<1>4. after < Exposure
  BY <1>3 DEF Counted, Exposure, Stopped
<1> HIDE DEF elapsed
<1>5. Counted(Loop(elapsed, over), after)
  <2> SUFFICES ASSUME Moving(Loop(elapsed, over))
               PROVE  /\ Loop(elapsed, over).stall = Stopped => after = 0
                      /\ Loop(elapsed, over).stall # Stopped =>
                             /\ Loop(elapsed, over).stall < ConfirmFrames
                             /\ after <= Loop(elapsed, over).stall + MaxPass
    BY DEF Counted
  <2>1. Moving(x)
    BY <1>1, <1>2, LoopStall DEF Moving
  <2>2. CASE ~over
    BY <1>1, <2>2, LoopStall
  <2> HIDE DEF after
  <2>3. CASE over /\ elapsed.stall = Stopped
    <3>1. Loop(elapsed, over).stall = 0
      BY <1>1, <2>3, LoopStall
    <3>2. x.stall = Stopped
      BY <1>2, <1>3, <2>3 DEF Run, Stopped
    <3>3. after = e
      BY <2>1, <2>3, <3>2 DEF after, Counted
    <3> QED
      BY <1>3, <3>1, <3>3 DEF Stopped
  <2>4. CASE over /\ elapsed.stall # Stopped
    <3>1. elapsed.stall < ConfirmFrames /\ Loop(elapsed, over).stall = elapsed.stall
      BY <1>1, <2>4, LoopStall
    <3>2. x.stall # Stopped /\ elapsed.stall = x.stall + e
      BY <1>2, <1>3, <2>4, <3>1 DEF Run, Stopped
    <3>3. after = pushed + e /\ pushed <= x.stall + MaxPass
      BY <2>1, <2>4, <3>2 DEF after, Counted
    <3> QED
      BY <1>3, <3>1, <3>2, <3>3 DEF Stopped
  <2> QED
    BY <2>2, <2>3, <2>4
<1> QED
  BY <1>4, <1>5 DEF elapsed

-----------------------------------------------------------------------------
(* The bound on the exposure is not inductive: it needs to know that the   *)
(* stall timer has been running along.                                     *)
ServoInv ==
    /\ ServoTypeOK
    /\ Rested(driver)
    /\ Arrived(driver)
    /\ Counted(driver, overFor)
    /\ StallExposureBounded

(* The horn stays within the stroke, jam or not.                           *)
LEMMA ReachType ==
    ASSUME ServoTypeOK, NEW h \in Positions, NEW p \in Positions
    PROVE  Reach(h, p) \in Positions
BY DamperConstants DEF ServoTypeOK, Reach, Positions, NoJam

(* The initial state satisfies the invariant.                              *)
LEMMA ServoInitHolds == ServoInit => ServoInv
<1> SUFFICES ASSUME ServoInit PROVE ServoInv
  OBVIOUS
<1>1. InitialDamper \in Dampers /\ InitialDamper.state = "Off"
  BY DamperConstants DEF InitialDamper, Dampers, Positions, Stopped
<1>2. Neutral \in Positions /\ NoJam \in NoJam..(Full - 1)
  BY DamperConstants DEF Positions, NoJam
<1>3. Arrived(driver) /\ Counted(driver, overFor)
  BY DEF ServoInit, InitialDamper, Arrived, Counted, Moving
<1>4. parking \in BOOLEAN
  BY DEF ServoInit
<1> QED
  BY <1>1, <1>2, <1>3, <1>4, DamperConstants
     DEF ServoInit, ServoInv, ServoTypeOK, Rested, StallExposureBounded

(* A new target preserves the invariant.                                   *)
LEMMA CommandHolds ==
    ASSUME ServoInv, NEW p \in 0..(Full + 1), Command(p)
    PROVE  ServoInv'
<1>1. p \in Nat /\ overFor \in Nat
  BY DamperConstants DEF ServoInv, ServoTypeOK
<1>2. /\ driver' = SetTarget(driver, p) /\ overFor' = IF Moving(driver) THEN overFor ELSE 0
      /\ UNCHANGED <<horn, jam, parking, poweredFor>>
  BY DEF Command
<1>3. Rested(driver') /\ Arrived(driver')
  BY <1>1, <1>2, SetTargetType, SetTargetArrives DEF ServoInv
<1>4. Counted(driver', overFor')
  BY <1>1, <1>2, SetTargetCounts DEF ServoInv, Rested
<1> QED
  BY <1>1, <1>2, <1>3, <1>4, DamperConstants
     DEF ServoInv, ServoTypeOK, Rested, StallExposureBounded

(* Parking preserves it.                                                   *)
LEMMA ParkHolds ==
    ASSUME ServoInv, Park
    PROVE  ServoInv'
<1>1. overFor \in Nat
  BY DEF ServoInv, ServoTypeOK
<1>2. /\ driver' = StartPark(driver) /\ overFor' = IF Moving(driver) THEN overFor ELSE 0
      /\ parking' = Moving(driver') /\ poweredFor' = 0 /\ UNCHANGED <<horn, jam>>
  BY DEF Park
<1>3. Rested(driver') /\ Arrived(driver')
  BY <1>2, StartParkType DEF ServoInv
<1>4. Counted(driver', overFor')
  BY <1>1, <1>2, StartParkCounts DEF ServoInv, Rested
<1>5. parking' \in BOOLEAN
  BY <1>2 DEF Moving
<1> QED
  BY <1>1, <1>2, <1>3, <1>4, <1>5, DamperConstants
     DEF ServoInv, ServoTypeOK, Rested, StallExposureBounded

(* A pass of the main loop preserves it.                                   *)
LEMMA PassHolds ==
    ASSUME ServoInv, NEW e \in 0..MaxPass, LoopAfter(e)
    PROVE  ServoInv'
<1> DEFINE h == IF Moving(driver) THEN Reach(horn, driver.position) ELSE horn
           over == Moving(driver) /\ Blocked(h, driver.position)
<1>1. /\ driver' = Loop(Elapse(driver, e), over) /\ horn' = h
      /\ overFor' = IF over THEN overFor + e ELSE 0
      /\ parking' = (parking /\ Moving(driver'))
      /\ poweredFor' = IF parking THEN poweredFor + e ELSE 0
      /\ UNCHANGED jam
  BY DEF LoopAfter
<1>2. h \in Positions
  BY ReachType DEF ServoInv, ServoTypeOK, Dampers
<1>3. over \in BOOLEAN /\ (over => Moving(driver)) /\ parking' \in BOOLEAN
  BY <1>1 DEF Moving, Blocked, ServoInv, ServoTypeOK
<1> HIDE DEF h, over
<1>4. overFor \in Nat /\ poweredFor \in Nat /\ e \in Nat
  BY DamperConstants DEF ServoInv, ServoTypeOK
<1>5. Elapse(driver, e) \in Dampers /\ Arrived(Elapse(driver, e))
  BY ElapseType, ElapseArrives DEF ServoInv
<1>6. Rested(driver') /\ Arrived(driver')
  BY <1>1, <1>3, <1>5, LoopType, LoopArrives
<1>7. Counted(driver', overFor') /\ overFor' < Exposure
  BY <1>1, <1>3, <1>4, PassCounts DEF ServoInv
<1>8. overFor' \in Nat /\ poweredFor' \in Nat
  BY <1>1, <1>3, <1>4
<1> QED
  BY <1>1, <1>2, <1>3, <1>6, <1>7, <1>8
     DEF ServoInv, ServoTypeOK, Rested, StallExposureBounded, Exposure

(* Every step preserves it.                                                *)
LEMMA ServoStepHolds == ServoInv /\ [ServoNext]_servoVars => ServoInv'
<1> SUFFICES ASSUME ServoInv, [ServoNext]_servoVars PROVE ServoInv'
  OBVIOUS
<1>1. (\E p \in 0..(Full + 1) : Command(p)) => ServoInv'
  BY CommandHolds
<1>2. Park => ServoInv'
  BY ParkHolds
<1>3. (\E e \in 0..MaxPass : LoopAfter(e)) => ServoInv'
  BY PassHolds
<1>4. Obstruct => ServoInv'
  BY DEF Obstruct, ServoInv, ServoTypeOK, StallExposureBounded
<1>5. UNCHANGED servoVars => ServoInv'
  BY DEF servoVars, ServoInv, ServoTypeOK, StallExposureBounded
<1> QED
  BY <1>1, <1>2, <1>3, <1>4, <1>5 DEF ServoNext

(* The invariant holds throughout.                                         *)
LEMMA ServoInvariance == ServoSpec => []ServoInv
BY ServoInitHolds, ServoStepHolds, PTL DEF ServoSpec

-----------------------------------------------------------------------------
(* Every member of the Damper object and its horn stay in range.           *)
THEOREM ServoTypeCorrect == ServoSpec => []ServoTypeOK
<1>1. ServoInv => ServoTypeOK
  BY DEF ServoInv
<1> QED
  BY <1>1, ServoInvariance, PTL

(* A damper that is off is where it was told to be (Damper::Loop() adopts  *)
(* the target as the actual position), however often the move was re-aimed *)
(* on the way.                                                             *)
THEOREM RestsWhereTold == ServoSpec => []RestIsConsistent
<1>1. ServoInv => RestIsConsistent
  BY DEF ServoInv, Arrived, RestIsConsistent
<1> QED
  BY <1>1, ServoInvariance, PTL

(* The servo never pushes against a jam for longer than the confirm window *)
(* and two passes (Damper::CheckStall()), whatever is re-aimed meanwhile.  *)
THEOREM PushesBriefly == ServoSpec => []StallExposureBounded
<1>1. ServoInv => StallExposureBounded
  BY DEF ServoInv
<1> QED
  BY <1>1, ServoInvariance, PTL

-----------------------------------------------------------------------------
(* How long a park takes.                                                  *)

(* Neutral is no more than half way up; NeutralPercent is 50.              *)
InTheMiddle == 2 * Neutral <= Full

Half == Full - Neutral

Away(x) == IF x.position < Neutral THEN Neutral - x.position ELSE x.position - Neutral

(* The pulse has been on its way to Neutral since the park began; there,   *)
(* the settle timer has been running for all but one pass of the rest.     *)
Parks(x, powered) ==
    /\ Moving(x) /\ x.target = Neutral
    /\ x.state = "Moving" => powered * SlewStep + Away(x) <= Half
    /\ x.state = "Settling" =>
           /\ x.settle \in 0..(SettleFrames - 1)
           /\ powered * SlewStep <= Half + (MaxPass + x.settle) * SlewStep

(* What the pulse slews in a number of frames.                             *)
LEMMA Frames ==
    /\ \A a \in Nat : a * SlewStep \in Nat
    /\ \A a, b \in Nat : (a + b) * SlewStep = a * SlewStep + b * SlewStep
    /\ \A a, b \in Nat : a <= b => a * SlewStep <= b * SlewStep
    /\ \A a, b \in Nat : a < b => a * SlewStep < b * SlewStep
<1> USE DamperConstants
<1>1. \A a \in Nat : a * SlewStep \in Nat
  OBVIOUS
<1>2. \A a, b \in Nat : (a + b) * SlewStep = a * SlewStep + b * SlewStep
  OBVIOUS
<1>3. ASSUME NEW a \in Nat, NEW b \in Nat, a <= b
      PROVE  /\ a * SlewStep <= b * SlewStep
             /\ a < b => a * SlewStep < b * SlewStep
  <2> DEFINE c == b - a
  <2>1. c \in Nat /\ b = a + c /\ (a < b => c \in Nat \ {0})
    BY <1>3
  <2>2. c * SlewStep \in Nat /\ (c \in Nat \ {0} => c * SlewStep > 0)
    BY <2>1
  <2> HIDE DEF c
  <2> QED
    BY <1>1, <1>2, <2>1, <2>2
<1> QED
  BY <1>1, <1>2, <1>3

(* A park starts no further away than half a stroke.                       *)
LEMMA StartParkParks ==
    ASSUME InTheMiddle, NEW x \in Dampers
    PROVE  Moving(StartPark(x)) => Parks(StartPark(x), 0)
<1>1. CASE Parked(x)
  BY <1>1 DEF StartPark, Parked, Parks, Moving
<1>2. CASE ~Parked(x)
  <2>1. StartPark(x) = StartMove([x EXCEPT !.target = Neutral])
    BY <1>2 DEF StartPark
  <2>2. /\ StartPark(x).state = "Moving" /\ StartPark(x).target = Neutral
        /\ StartPark(x).position = x.position
    BY <2>1 DEF StartMove, Dampers
  <2>3. x.position \in 0..Full /\ Neutral \in 0..Full /\ Full \in Nat
    BY DamperConstants DEF Dampers, Positions
  <2>4. Away(StartPark(x)) <= Half /\ 0 * SlewStep = 0 /\ Away(StartPark(x)) \in Nat
    BY <2>2, <2>3, DamperConstants DEF Away, Half, InTheMiddle
  <2> QED
    BY <2>2, <2>4 DEF Parks, Moving
<1> QED
  BY <1>1, <1>2

(* A reading of the current that is no stall moves nothing.                *)
LEMMA CheckStallKeeps ==
    ASSUME NEW x \in Dampers, NEW over \in BOOLEAN,
           CheckStall(x, over).state # "Stalled"
    PROVE  /\ CheckStall(x, over).position = x.position
           /\ CheckStall(x, over).settle = x.settle
           /\ CheckStall(x, over).sinceSlew = x.sinceSlew
           /\ CheckStall(x, over).state = x.state
BY DEF CheckStall, PowerOff, Dampers

(* What the way and the settling take, and the two passes they end in.     *)
Whole == Half + (SettleFrames + 2 * MaxPass) * SlewStep

(* A park that has just begun is short of it.                              *)
LEMMA NothingIsShort == 0 * SlewStep < Whole
<1>1. SettleFrames + 2 * MaxPass \in Nat /\ 0 < SettleFrames + 2 * MaxPass /\ Half \in Nat
  BY DamperConstants DEF Half
<1>2. /\ 0 * SlewStep = 0 /\ 0 * SlewStep < (SettleFrames + 2 * MaxPass) * SlewStep
      /\ (SettleFrames + 2 * MaxPass) * SlewStep \in Nat
  BY <1>1, Frames, DamperConstants
<1> QED
  BY <1>1, <1>2 DEF Whole

(* A park is short of it, and so is one more pass.                         *)
LEMMA PassIsShort ==
    ASSUME NEW x \in Dampers, NEW powered \in Nat, Parks(x, powered),
           NEW e \in 0..MaxPass
    PROVE  (powered + e) * SlewStep < Whole
<1> DEFINE k == powered * SlewStep
           ke == e * SlewStep
           km == MaxPass * SlewStep
           whole == (SettleFrames + 2 * MaxPass) * SlewStep
<1>1. /\ MaxPass \in Nat /\ SettleFrames \in Nat \ {0} /\ Full \in Nat /\ Neutral \in 0..Full
      /\ e \in Nat /\ e <= MaxPass /\ x.position \in 0..Full /\ Half \in Nat
      /\ SettleFrames + 2 * MaxPass \in Nat /\ MaxPass < SettleFrames + 2 * MaxPass
  BY DamperConstants DEF Dampers, Positions, Half
<1>2. k \in Nat /\ ke \in Nat /\ km \in Nat /\ whole \in Nat
  BY <1>1, Frames
<1>3. ke <= km /\ km < whole
  BY <1>1, Frames
<1>4. (powered + e) * SlewStep = k + ke
  BY <1>1, Frames
<1>5. Whole = Half + whole
  BY DEF Whole
<1>6. CASE x.state = "Moving"
  <2>1. k + Away(x) <= Half
    BY <1>6 DEF Parks
  <2>2. Away(x) \in Nat
    BY <1>1 DEF Away
  <2> HIDE DEF k, ke, km, whole
  <2>3. k + ke < Half + whole
    BY <1>1, <1>2, <1>3, <2>1, <2>2
  <2> QED
    BY <1>4, <1>5, <2>3
<1>7. CASE x.state = "Settling"
  <2> DEFINE m == MaxPass + x.settle
             ks == m * SlewStep
  <2>1. x.settle \in 0..(SettleFrames - 1) /\ k <= Half + ks
    BY <1>7 DEF Parks
  <2>2. m \in Nat /\ m + MaxPass \in Nat /\ m + MaxPass < SettleFrames + 2 * MaxPass
    BY <1>1, <2>1
  <2> HIDE DEF m
  <2>3. ks \in Nat /\ (m + MaxPass) * SlewStep = ks + km
    BY <1>1, <2>2, Frames
  <2>4. (m + MaxPass) * SlewStep < whole
    BY <1>1, <2>2, Frames
  <2> HIDE DEF k, ke, km, whole, ks
  <2>5. ks + km < whole
    BY <2>3, <2>4
  <2>6. k + ke < Half + whole
    BY <1>1, <1>2, <1>3, <2>1, <2>3, <2>5
  <2> QED
    BY <1>4, <1>5, <2>6
<1> QED
  BY <1>6, <1>7 DEF Parks, Moving

(* A pass slews for every frame it took, or settles for every one, but for *)
(* the pass in which the pulse arrives.                                    *)
LEMMA PassParks ==
    ASSUME NEW x, Rested(x), NEW powered \in Nat, Parks(x, powered),
           NEW e \in 0..MaxPass, NEW over \in BOOLEAN,
           Moving(Loop(Elapse(x, e), over))
    PROVE  Parks(Loop(Elapse(x, e), over), powered + e)
<1> DEFINE z == Elapse(x, e)
           c == CheckStall(z, over)
           y == Loop(z, over)
           k == powered * SlewStep
           ke == e * SlewStep
           km == MaxPass * SlewStep
<1>1. x \in Dampers /\ Moving(x) /\ x.target = Neutral /\ x.state \in {"Moving", "Settling"}
  BY DEF Rested, Parks, Moving
<1>2. /\ MaxPass \in Nat /\ SettleFrames \in Nat \ {0} /\ Full \in Nat /\ Neutral \in 0..Full
      /\ e \in Nat /\ e <= MaxPass /\ x.position \in 0..Full /\ Half \in Nat
  BY <1>1, DamperConstants DEF Dampers, Positions, Half
<1>3. k \in Nat /\ ke \in Nat /\ km \in Nat /\ ke <= km
  BY <1>2, Frames
<1>4. (powered + e) * SlewStep = k + ke
  BY <1>2, Frames
<1>5. z \in Dampers /\ z.target = Neutral
  BY <1>1, ElapseType
<1>6. /\ z.position = x.position /\ z.state = x.state
      /\ z.settle = Run(x.settle, e, SettleFrames)
      /\ x.state = "Moving" => z.sinceSlew = e
  BY <1>1, <1>2 DEF Elapse, Rested, Dampers
<1>7. Moving(z)
  BY <1>1, <1>6 DEF Moving
<1> HIDE DEF z
<1>8. c \in Dampers /\ c.target = Neutral /\ c.state \in {z.state, "Stalled"}
  BY <1>5, CheckStallType
<1>9. c.state # "Stalled"
  <2>1. c.state = "Stalled" => y = c
    BY <1>7 DEF Loop
  <2> QED
    BY <2>1 DEF Moving, z
<1>10. c.state = x.state /\ c.position = x.position /\ c.settle = z.settle
       /\ c.sinceSlew = z.sinceSlew
  BY <1>5, <1>6, <1>9, CheckStallKeeps
<1>11. c.state = "Moving" => y = Slew(c)
  BY <1>7 DEF Loop
<1>12. c.state = "Settling" => y = Settle(c)
  BY <1>7 DEF Loop
<1>13. Moving(y)
  BY DEF z
<1> HIDE DEF c, y
<1>14. SUFFICES Parks(y, powered + e)
  BY DEF y, z
<1>15. CASE x.state = "Moving"
  <2>1. y = Slew(c) /\ c.sinceSlew = e /\ c.position = x.position /\ c.state = "Moving"
    BY <1>6, <1>10, <1>11, <1>15
  <2>2. k + Away(x) <= Half
    BY <1>15 DEF Parks
  <2>3. Away(x) \in Nat /\ Away(c) = Away(x)
    BY <1>2, <2>1 DEF Away
  <2>4. CASE e = 0
    <3>1. y = c
      BY <2>1, <2>4 DEF Slew
    <3>2. powered + e = powered
      BY <2>4
    <3> QED
      BY <1>8, <1>13, <2>1, <2>2, <2>3, <3>1, <3>2 DEF Parks
  <2>5. CASE e # 0
    <3> DEFINE next == IF c.position < Neutral
                       THEN IF Neutral - c.position <= ke THEN Neutral ELSE c.position + ke
                       ELSE IF c.position - Neutral <= ke THEN Neutral ELSE c.position - ke
    <3>1. y = [c EXCEPT !.sinceSlew = 0, !.position = next,
                        !.state = IF next = Neutral THEN "Settling" ELSE @,
                        !.settle = IF next = Neutral THEN 0 ELSE @]
      BY <1>8, <2>1, <2>5 DEF Slew
    <3> HIDE DEF next
    <3>2. /\ y.target = Neutral /\ y.position = next
          /\ next = Neutral => y.state = "Settling" /\ y.settle = 0
          /\ next # Neutral => y.state = "Moving"
      BY <1>8, <2>1, <3>1 DEF Dampers
    <3>3. CASE next = Neutral
      <4> HIDE DEF k, ke, km
      <4>1. k + ke <= Half + km
        BY <1>2, <1>3, <2>2, <2>3
      <4>2. 0 \in 0..(SettleFrames - 1) /\ MaxPass + 0 = MaxPass
        BY <1>2
      <4>3. (powered + e) * SlewStep <= Half + (MaxPass + 0) * SlewStep
        BY <1>4, <4>1, <4>2 DEF km
      <4> QED
        BY <1>13, <3>2, <3>3, <4>2, <4>3 DEF Parks
    <3>4. CASE next # Neutral
      <4> HIDE DEF k, ke, km
      <4>1. Away(y) = Away(c) - ke
        BY <1>2, <1>3, <2>1, <3>2, <3>4 DEF Away, next
      <4>2. k + ke + Away(y) <= Half
        BY <1>2, <1>3, <2>2, <2>3, <4>1
      <4>3. (powered + e) * SlewStep + Away(y) <= Half
        BY <1>4, <4>2
      <4> QED
        BY <1>13, <3>2, <3>4, <4>3 DEF Parks
    <3> QED
      BY <3>3, <3>4
  <2> QED
    BY <2>4, <2>5
<1>16. CASE x.state = "Settling"
  <2> DEFINE m == MaxPass + x.settle
             ks == m * SlewStep
  <2>1. y = Settle(c) /\ c.state = "Settling" /\ c.settle = Run(x.settle, e, SettleFrames)
    BY <1>6, <1>10, <1>12, <1>16
  <2>2. c.settle # SettleFrames
    BY <1>8, <1>13, <2>1 DEF Settle, PowerOff, Moving, Dampers
  <2>3. y = c
    BY <2>1, <2>2 DEF Settle
  <2>4. x.settle \in 0..(SettleFrames - 1) /\ k <= Half + ks
    BY <1>16 DEF Parks
  <2>5. c.settle = x.settle + e /\ c.settle \in 0..(SettleFrames - 1)
    BY <1>2, <2>1, <2>2, <2>4 DEF Run, Stopped
  <2>6. m \in Nat /\ MaxPass + c.settle = m + e
    BY <1>2, <2>4, <2>5
  <2> HIDE DEF m
  <2>7. (MaxPass + c.settle) * SlewStep = ks + ke /\ ks \in Nat
    BY <1>2, <2>6, Frames
  <2> HIDE DEF k, ke, km, ks
  <2>8. k + ke <= Half + (ks + ke)
    BY <1>2, <1>3, <2>4, <2>7
  <2>9. (powered + e) * SlewStep <= Half + (MaxPass + c.settle) * SlewStep
    BY <1>4, <2>7, <2>8
  <2> QED
    BY <1>8, <1>13, <2>1, <2>3, <2>5, <2>9 DEF Parks
<1> QED
  BY <1>1, <1>15, <1>16

(* While the main loop is inside ParkNeutral(), the park is on its way.     *)
ParkInv ==
    /\ parking => Parks(driver, poweredFor)
    /\ ParkIsBounded

(* Every step keeps a park within its time.                                *)
LEMMA ParkStepHolds ==
    ASSUME InTheMiddle, ServoInv, ParkInv, [ServoNext]_servoVars
    PROVE  ParkInv'
<1>1. driver \in Dampers /\ Rested(driver) /\ poweredFor \in Nat /\ parking \in BOOLEAN
  BY DEF ServoInv, ServoTypeOK
<1>2. ParkIsBounded <=> poweredFor * SlewStep < Whole
  BY DEF ParkIsBounded, Whole, Half
<1>3. ParkIsBounded' <=> poweredFor' * SlewStep < Whole
  BY DEF ParkIsBounded, Whole, Half
<1>4. 0 * SlewStep < Whole
  BY NothingIsShort
<1>5. ASSUME NEW p \in 0..(Full + 1), Command(p) PROVE ParkInv'
  BY <1>2, <1>3, <1>5 DEF Command, ParkInv
<1>6. ASSUME Park PROVE ParkInv'
  <2>1. driver' = StartPark(driver) /\ parking' = Moving(driver') /\ poweredFor' = 0
    BY <1>6 DEF Park
  <2>2. parking' => Parks(driver', 0)
    BY <1>1, <2>1, StartParkParks
  <2> QED
    BY <1>3, <1>4, <2>1, <2>2 DEF ParkInv
<1>7. ASSUME NEW e \in 0..MaxPass, LoopAfter(e) PROVE ParkInv'
  <2> DEFINE h == IF Moving(driver) THEN Reach(horn, driver.position) ELSE horn
             over == Moving(driver) /\ Blocked(h, driver.position)
  <2>1. /\ driver' = Loop(Elapse(driver, e), over)
        /\ parking' = (parking /\ Moving(driver'))
        /\ poweredFor' = IF parking THEN poweredFor + e ELSE 0
    BY <1>7 DEF LoopAfter
  <2>2. over \in BOOLEAN
    BY DEF Moving, Blocked
  <2> HIDE DEF over
  <2>3. CASE ~parking
    BY <1>3, <1>4, <2>1, <2>3 DEF ParkInv
  <2>4. CASE parking
    <3>1. Parks(driver, poweredFor) /\ poweredFor' = poweredFor + e
      BY <2>1, <2>4 DEF ParkInv
    <3>2. ParkIsBounded'
      BY <1>1, <1>3, <3>1, PassIsShort
    <3>3. parking' => Parks(driver', poweredFor')
      BY <1>1, <2>1, <2>2, <3>1, PassParks
    <3> QED
      BY <3>2, <3>3 DEF ParkInv
  <2> QED
    BY <1>1, <2>3, <2>4
<1>8. ASSUME Obstruct \/ UNCHANGED servoVars PROVE ParkInv'
  BY <1>2, <1>3, <1>8 DEF Obstruct, servoVars, ParkInv
<1> QED
  BY <1>5, <1>6, <1>7, <1>8 DEF ServoNext

(* ParkNeutral() keeps the main loop for no longer than half a stroke, the *)
(* settle time and the two passes they end in, whatever the blade meets.   *)
THEOREM ParksInTime ==
    ASSUME InTheMiddle
    PROVE  ServoSpec => []ParkIsBounded
<1>1. ServoInit => ParkInv
  <2> SUFFICES ASSUME ServoInit PROVE ParkInv
    OBVIOUS
  <2> QED
    BY NothingIsShort DEF ServoInit, ParkInv, ParkIsBounded, Whole, Half
<1>2. ServoInv /\ ServoInv' /\ ParkInv /\ [ServoNext]_servoVars => ParkInv'
  BY ParkStepHolds
<1>3. ParkInv => ParkIsBounded
  BY DEF ParkInv
<1> QED
  BY <1>1, <1>2, <1>3, ServoInvariance, PTL DEF ServoSpec

-----------------------------------------------------------------------------
(* How far the pulse is from the horn.                                     *)

Within(a, b, g) == a - b <= g /\ b - a <= g

Leap == (ConfirmFrames + MaxPass) * SlewStep

(* At rest, and until the current is first seen, the horn is a leap away   *)
(* from the pulse at most; from then on it stays that close to where the   *)
(* pulse was then, to which a stall takes the pulse back.  A pulse that    *)
(* settles with the horn not there has been stalling nearly as long.       *)
Near(x, h) ==
    /\ ~Moving(x) => Within(x.position, h, Leap)
    /\ Moving(x) /\ x.stall = Stopped =>
           /\ Within(x.position, h, Leap)
           /\ x.state = "Settling" => h = x.position \/ x.settle = 0
    /\ Moving(x) /\ x.stall # Stopped =>
           /\ x.stall < ConfirmFrames
           /\ Within(x.position, x.stallStart, (x.stall + MaxPass) * SlewStep)
           /\ Within(h, x.stallStart, Leap)
           /\ x.state = "Settling" => x.settle <= x.stall + MaxPass

(* A servo under power goes toward the pulse, and all the way unless       *)
(* something blocks it.                                                    *)
LEMMA ReachTends ==
    ASSUME ServoTypeOK, NEW h \in Positions, NEW p \in Positions
    PROVE  /\ Reach(h, p) \in Positions
           /\ \/ h <= Reach(h, p) /\ Reach(h, p) <= p
              \/ p <= Reach(h, p) /\ Reach(h, p) <= h
           /\ Blocked(Reach(h, p), p) <=> Reach(h, p) # p
<1>1. jam \in Int /\ h \in 0..Full /\ p \in 0..Full /\ Full \in Nat
  BY DamperConstants DEF ServoTypeOK, Positions, NoJam
<1>2. Reach(h, p) \in Positions
  BY ReachType
<1>3. CASE h <= jam /\ jam < p
  BY <1>1, <1>2, <1>3 DEF Reach, Blocked
<1>4. CASE p <= jam /\ jam < h
  BY <1>1, <1>2, <1>4 DEF Reach, Blocked
<1>5. CASE ~(h <= jam /\ jam < p) /\ ~(p <= jam /\ jam < h)
  BY <1>1, <1>2, <1>5 DEF Reach, Blocked
<1> QED
  BY <1>3, <1>4, <1>5

(* A new target moves no pulse and keeps what is known of a jam.           *)
LEMMA StartMoveNear ==
    ASSUME NEW x \in Dampers, NEW h \in Positions, NEW p \in Positions, Near(x, h)
    PROVE  LET y == StartMove([x EXCEPT !.target = p])
           IN  Near(y, h) /\ y.position = x.position
<1> DEFINE y == StartMove([x EXCEPT !.target = p])
<1>1. /\ y.position = x.position /\ y.stallStart = x.stallStart
      /\ y.state = "Moving" /\ y.stall = IF Moving(x) THEN x.stall ELSE Stopped
  BY DEF StartMove, Moving, Dampers
<1> HIDE DEF y
<1>2. Moving(x) => Near(y, h)
  BY <1>1 DEF Near, Moving
<1>3. ~Moving(x) => Near(y, h)
  BY <1>1 DEF Near, Moving
<1> QED
  BY <1>1, <1>2, <1>3 DEF y

(* What a pass does that ends in a stall.                                  *)
LEMMA PassStalls ==
    ASSUME NEW x, Rested(x), Moving(x), NEW e \in 0..MaxPass, NEW over \in BOOLEAN,
           Loop(Elapse(x, e), over).state = "Stalled"
    PROVE  x.stall # Stopped /\ Loop(Elapse(x, e), over).position = x.stallStart
<1> DEFINE z == Elapse(x, e)
           c == CheckStall(z, over)
           y == Loop(z, over)
<1>1. z \in Dampers
  BY ElapseType
<1>2. /\ z.position = x.position /\ z.state = x.state /\ z.stallStart = x.stallStart
      /\ z.stall = Run(x.stall, e, ConfirmFrames)
  BY DEF Elapse, Rested, Dampers
<1>3. Moving(z) /\ z.state # "Stalled"
  BY <1>2 DEF Moving
<1> HIDE DEF z
<1>4. c \in Dampers /\ c.state \in {z.state, "Stalled"}
  BY <1>1, CheckStallType
<1>5. c.state = "Stalled" => y = c
  BY <1>3 DEF Loop
<1>6. c.state = "Moving" => y = Slew(c)
  BY <1>3 DEF Loop
<1>7. c.state = "Settling" => y = Settle(c)
  BY <1>3 DEF Loop
<1>8. c.state = "Stalled" => z.stall # Stopped /\ c.position = z.stallStart
  BY <1>1, <1>3 DEF CheckStall, PowerOff, Dampers
<1>9. y.state = "Stalled"
  BY DEF z
<1> HIDE DEF c, y
<1>10. c.state = "Stalled"
  <2>1. c.state = "Moving" => y.state # "Stalled"
    BY <1>4, <1>6 DEF Slew, Dampers
  <2>2. c.state = "Settling" => y.state # "Stalled"
    BY <1>4, <1>7 DEF Settle, PowerOff, Dampers
  <2> QED
    BY <1>3, <1>4, <1>9, <2>1, <2>2 DEF Moving
<1>11. z.stall # Stopped => x.stall # Stopped
  BY <1>2 DEF Run
<1> QED
  BY <1>2, <1>5, <1>8, <1>10, <1>11 DEF y, z

(* And one that does not.                                                  *)
LEMMA PassMoves ==
    ASSUME NEW x, Rested(x), Moving(x), NEW e \in 0..MaxPass, NEW over \in BOOLEAN,
           Loop(Elapse(x, e), over).state # "Stalled"
    PROVE  LET y == Loop(Elapse(x, e), over)
           IN  /\ x.state = "Moving" =>
                      /\ Moving(y)
                      /\ Within(y.position, x.position, e * SlewStep)
                      /\ y.state = "Settling" => y.settle = 0
               /\ x.state = "Settling" =>
                      /\ y.position = x.position
                      /\ y.state = "Settling" => y.settle = Run(x.settle, e, SettleFrames)
                      /\ ~Moving(y) => Run(x.settle, e, SettleFrames) = SettleFrames
               /\ Moving(y) =>
                      y.stallStart = IF over /\ x.stall = Stopped
                                     THEN x.position ELSE x.stallStart
               /\ over /\ x.stall # Stopped =>
                      Run(x.stall, e, ConfirmFrames) < ConfirmFrames
<1> DEFINE z == Elapse(x, e)
           c == CheckStall(z, over)
           y == Loop(z, over)
           k == e * SlewStep
<1>1. z \in Dampers
  BY ElapseType
<1>2. /\ z.position = x.position /\ z.state = x.state /\ z.stallStart = x.stallStart
      /\ z.stall = Run(x.stall, e, ConfirmFrames)
      /\ z.settle = Run(x.settle, e, SettleFrames)
      /\ x.state = "Moving" => z.sinceSlew = e
  BY DamperConstants DEF Elapse, Rested, Dampers
<1>3. x \in Dampers /\ x.stall \in Stopped..ConfirmFrames
  BY DEF Rested, Dampers
<1>4. x.stall = Stopped <=> z.stall = Stopped
  BY <1>2, <1>3, DamperConstants DEF Run, Stopped
<1>5. Moving(z)
  BY <1>2 DEF Moving
<1> HIDE DEF z
<1>6. c \in Dampers /\ c.state \in {z.state, "Stalled"}
  BY <1>1, CheckStallType
<1>7. c.state = "Stalled" => y = c
  BY <1>5 DEF Loop
<1>8. c.state = "Moving" => y = Slew(c)
  BY <1>5 DEF Loop
<1>9. c.state = "Settling" => y = Settle(c)
  BY <1>5 DEF Loop
<1>10. c.state # "Stalled"
  BY <1>7 DEF z
<1>11. /\ c.position = z.position /\ c.settle = z.settle
       /\ c.sinceSlew = z.sinceSlew /\ c.state = z.state
  BY <1>1, <1>10, CheckStallKeeps
<1>12. c.stallStart = IF over /\ z.stall = Stopped THEN z.position ELSE z.stallStart
  BY <1>1, <1>10 DEF CheckStall, PowerOff, Dampers
<1>13. over /\ z.stall # Stopped => z.stall < ConfirmFrames
  BY <1>1, <1>10 DEF CheckStall, PowerOff, Dampers
<1> HIDE DEF c, y
<1>14. k \in Nat /\ c.position \in Int /\ c.target \in Int
  BY <1>6, Frames, DamperConstants DEF Dampers, Positions
<1>15. ASSUME x.state = "Moving"
       PROVE  /\ Moving(y) /\ Within(y.position, x.position, k)
              /\ y.state = "Settling" => y.settle = 0
              /\ y.stallStart = c.stallStart
  <2>1. y = Slew(c) /\ c.sinceSlew = e /\ c.state = "Moving" /\ c.position = x.position
    BY <1>2, <1>8, <1>11, <1>15
  <2>2. CASE e = 0
    <3>1. y = c
      BY <2>1, <2>2 DEF Slew
    <3> QED
      BY <1>14, <2>1, <3>1 DEF Moving, Within
  <2>3. CASE e # 0
    <3> DEFINE next == IF c.position < c.target
                       THEN IF c.target - c.position <= k THEN c.target ELSE c.position + k
                       ELSE IF c.position - c.target <= k THEN c.target ELSE c.position - k
    <3>1. y = [c EXCEPT !.sinceSlew = 0, !.position = next,
                        !.state = IF next = c.target THEN "Settling" ELSE @,
                        !.settle = IF next = c.target THEN 0 ELSE @]
      BY <2>1, <2>3 DEF Slew
    <3> HIDE DEF k
    <3>2. Within(next, c.position, k)
      BY <1>14 DEF Within
    <3> HIDE DEF next
    <3>3. /\ y.position = next /\ y.stallStart = c.stallStart
          /\ y.state = IF next = c.target THEN "Settling" ELSE "Moving"
          /\ next = c.target => y.settle = 0
      BY <1>6, <2>1, <3>1 DEF Dampers
    <3> QED
      BY <2>1, <3>2, <3>3 DEF Moving
  <2> QED
    BY <2>2, <2>3
<1>16. ASSUME x.state = "Settling"
       PROVE  /\ y.position = x.position
              /\ y.state = "Settling" => y.settle = z.settle
              /\ ~Moving(y) => z.settle = SettleFrames
              /\ Moving(y) => y.stallStart = c.stallStart
  <2>1. y = Settle(c) /\ c.state = "Settling"
    BY <1>2, <1>9, <1>11, <1>16
  <2>2. c.settle = SettleFrames => y.position = c.position /\ y.state = "Off"
    BY <1>6, <2>1 DEF Settle, PowerOff, Dampers
  <2>3. c.settle # SettleFrames => y = c
    BY <2>1 DEF Settle
  <2>4. CASE c.settle = SettleFrames
    BY <1>2, <1>11, <2>2, <2>4 DEF Moving
  <2>5. CASE c.settle # SettleFrames
    BY <1>2, <1>11, <2>1, <2>3, <2>5 DEF Moving
  <2> QED
    BY <2>4, <2>5
<1>17. Moving(y) => y.stallStart = IF over /\ x.stall = Stopped
                                   THEN x.position ELSE x.stallStart
  BY <1>2, <1>4, <1>12, <1>15, <1>16 DEF Moving
<1>18. over /\ x.stall # Stopped => Run(x.stall, e, ConfirmFrames) < ConfirmFrames
  BY <1>2, <1>4, <1>13
<1> HIDE DEF k
<1> QED
  BY <1>2, <1>15, <1>16, <1>17, <1>18 DEF y, z, k

(* A pass of a powered servo, whose horn goes toward the pulse, to r, and  *)
(* draws stall current unless it gets there.                               *)
LEMMA PassNear ==
    ASSUME NEW x, Rested(x), Moving(x), NEW h \in Positions, Near(x, h),
           NEW r \in Positions,
           \/ h <= r /\ r <= x.position
           \/ x.position <= r /\ r <= h,
           NEW e \in 0..MaxPass
    PROVE  Near(Loop(Elapse(x, e), r # x.position), r)
<1> DEFINE over == r # x.position
           y == Loop(Elapse(x, e), over)
           ke == e * SlewStep
           km == MaxPass * SlewStep
<1>1. /\ x \in Dampers /\ x.position \in Nat /\ x.stallStart \in Nat
      /\ x.stall \in Stopped..ConfirmFrames /\ x.settle \in Stopped..SettleFrames
      /\ x.state \in {"Moving", "Settling"} /\ h \in Nat /\ r \in Nat
      /\ e \in Nat /\ e <= MaxPass /\ MaxPass \in Nat /\ ConfirmFrames \in Nat \ {0}
      /\ SettleFrames \in Nat \ {0} /\ SettleFrames >= ConfirmFrames + MaxPass
  BY DamperConstants, ServoTiming DEF Rested, Dampers, Positions, Moving
<1>2. y \in Dampers /\ y.stall \in Stopped..ConfirmFrames
  <2>1. Elapse(x, e) \in Dampers
    BY ElapseType
  <2>2. y \in Dampers
    BY <2>1, LoopType DEF Rested
  <2> QED
    BY <2>2 DEF Dampers
<1>3. /\ ke \in Nat /\ km \in Nat /\ Leap \in Nat /\ ke <= km /\ km <= Leap
      /\ (0 + MaxPass) * SlewStep = km
  <2>1. /\ ConfirmFrames + MaxPass \in Nat /\ MaxPass <= ConfirmFrames + MaxPass
        /\ 0 + MaxPass = MaxPass
    BY <1>1
  <2>2. ke \in Nat /\ km \in Nat /\ ke <= km
    BY <1>1, Frames
  <2>3. Leap \in Nat /\ km <= Leap
    BY <1>1, <2>1, Frames DEF Leap
  <2> QED
    BY <2>1, <2>2, <2>3
<1>4. over \in BOOLEAN
  OBVIOUS
<1>5. ~over => r = x.position
  OBVIOUS
<1>6. y.state = "Stalled" => x.stall # Stopped /\ y.position = x.stallStart
  BY <1>4, PassStalls
<1>7. y.state # "Stalled" =>
        /\ x.state = "Moving" =>
              /\ Moving(y)
              /\ Within(y.position, x.position, ke)
              /\ y.state = "Settling" => y.settle = 0
        /\ x.state = "Settling" =>
              /\ y.position = x.position
              /\ y.state = "Settling" => y.settle = Run(x.settle, e, SettleFrames)
              /\ ~Moving(y) => Run(x.settle, e, SettleFrames) = SettleFrames
        /\ Moving(y) =>
              y.stallStart = IF over /\ x.stall = Stopped
                             THEN x.position ELSE x.stallStart
        /\ over /\ x.stall # Stopped =>
              Run(x.stall, e, ConfirmFrames) < ConfirmFrames
  BY <1>4, PassMoves
<1>8. Moving(y) =>
        /\ ~over => y.stall = Stopped
        /\ over /\ x.stall = Stopped => y.stall = 0
        /\ over /\ x.stall # Stopped => y.stall = Run(x.stall, e, ConfirmFrames)
  <2>1. Elapse(x, e) \in Dampers /\ Elapse(x, e).stall = Run(x.stall, e, ConfirmFrames)
    BY ElapseType DEF Elapse, Rested, Dampers
  <2>2. x.stall = Stopped <=> Elapse(x, e).stall = Stopped
    BY <1>1, <2>1 DEF Run, Stopped
  <2> QED
    BY <1>4, <2>1, <2>2, LoopStall
<1> HIDE DEF over, y, ke, km
<1>9. SUFFICES Near(y, r)
  BY DEF y, over
<1>10. x.stall # Stopped => Within(x.position, x.stallStart, Leap)
  <2> SUFFICES ASSUME x.stall # Stopped
               PROVE  Within(x.position, x.stallStart, Leap)
    OBVIOUS
  <2>1. /\ x.stall \in Nat /\ x.stall < ConfirmFrames
        /\ Within(x.position, x.stallStart, (x.stall + MaxPass) * SlewStep)
    BY <1>1 DEF Near, Stopped
  <2>2. (x.stall + MaxPass) * SlewStep <= Leap /\ (x.stall + MaxPass) * SlewStep \in Nat
    <3>1. /\ x.stall + MaxPass \in Nat /\ ConfirmFrames + MaxPass \in Nat
          /\ x.stall + MaxPass <= ConfirmFrames + MaxPass
      BY <1>1, <2>1
    <3> QED
      BY <3>1, Frames DEF Leap
  <2> QED
    BY <1>1, <1>3, <2>1, <2>2 DEF Within
<1>11. x.stall # Stopped => Within(r, x.stallStart, Leap)
  BY <1>1, <1>3, <1>10 DEF Near, Within
<1>12. x.stall = Stopped => Within(r, x.position, Leap) /\ Within(x.position, r, Leap)
  BY <1>1, <1>3 DEF Near, Within
<1>13. CASE y.state = "Stalled"
  <2>1. Within(y.position, r, Leap)
    BY <1>1, <1>3, <1>6, <1>11, <1>13 DEF Within
  <2> QED
    BY <1>13, <2>1 DEF Near, Moving
<1>14. CASE y.state # "Stalled" /\ ~over
  <2>1. r = x.position
    BY <1>5, <1>14
  <2>2. Within(y.position, r, Leap)
    <3>1. y.position \in Nat
      BY <1>2, DamperConstants DEF Dampers, Positions
    <3>2. x.state = "Moving" => Within(y.position, x.position, ke)
      BY <1>7, <1>14
    <3>3. x.state = "Settling" => y.position = x.position
      BY <1>7, <1>14
    <3> QED
      BY <1>1, <1>3, <2>1, <3>1, <3>2, <3>3 DEF Within
  <2>3. y.state = "Settling" => r = y.position \/ y.settle = 0
    BY <1>1, <1>7, <1>14, <2>1
  <2>4. Moving(y) => y.stall = Stopped
    BY <1>8, <1>14
  <2> QED
    BY <2>2, <2>3, <2>4 DEF Near
<1>15. CASE y.state # "Stalled" /\ over /\ x.stall = Stopped
  <2>1. x.state = "Settling" => x.settle = 0
    <3>1. x.state = "Settling" /\ h = x.position => r = x.position
      BY <1>1
    <3> QED
      BY <1>15, <3>1 DEF Near, over
  <2>2. x.state = "Settling" => Run(x.settle, e, SettleFrames) = e /\ e < SettleFrames
    BY <1>1, <2>1 DEF Run, Stopped
  <2>3. Moving(y)
    BY <1>1, <1>7, <1>15, <2>2
  <2>4. y.stall = 0 /\ y.stallStart = x.position
    BY <1>7, <1>8, <1>15, <2>3
  <2>5. Within(y.position, x.position, km)
    <3>1. y.position \in Nat
      BY <1>2, DamperConstants DEF Dampers, Positions
    <3>2. x.state = "Moving" => Within(y.position, x.position, ke)
      BY <1>7, <1>15
    <3>3. x.state = "Settling" => y.position = x.position
      BY <1>7, <1>15
    <3> QED
      BY <1>1, <1>3, <3>1, <3>2, <3>3 DEF Within
  <2>6. y.state = "Settling" => y.settle <= 0 + MaxPass
    BY <1>1, <1>7, <1>15, <2>2
  <2>7. 0 # Stopped /\ 0 < ConfirmFrames
    BY <1>1 DEF Stopped
  <2>8. Within(y.position, y.stallStart, (y.stall + MaxPass) * SlewStep)
    BY <1>3, <2>4, <2>5
  <2> QED
    BY <1>12, <1>15, <2>3, <2>4, <2>6, <2>7, <2>8 DEF Near
<1>16. CASE y.state # "Stalled" /\ over /\ x.stall # Stopped
  <2>1. Run(x.stall, e, ConfirmFrames) < ConfirmFrames
    BY <1>7, <1>16
  <2>2. x.stall \in Nat /\ Run(x.stall, e, ConfirmFrames) = x.stall + e
    BY <1>1, <1>16, <2>1 DEF Run, Stopped
  <2>3. x.state = "Settling" => x.settle <= x.stall + MaxPass
    BY <1>16 DEF Near
  <2>4. x.state = "Settling" =>
          /\ Run(x.settle, e, SettleFrames) <= x.stall + e + MaxPass
          /\ Run(x.settle, e, SettleFrames) < SettleFrames
    BY <1>1, <2>1, <2>2, <2>3 DEF Run, Stopped
  <2>5. Moving(y)
    BY <1>1, <1>7, <1>16, <2>4
  <2>6. y.stall = x.stall + e /\ y.stallStart = x.stallStart
    BY <1>7, <1>8, <1>16, <2>2, <2>5
  <2>7. Within(y.position, x.stallStart, (x.stall + MaxPass) * SlewStep + ke)
    <3>1. y.position \in Nat
      BY <1>2, DamperConstants DEF Dampers, Positions
    <3>2. x.state = "Moving" => Within(y.position, x.position, ke)
      BY <1>7, <1>16
    <3>3. x.state = "Settling" => y.position = x.position
      BY <1>7, <1>16
    <3>4. Within(x.position, x.stallStart, (x.stall + MaxPass) * SlewStep)
      BY <1>16 DEF Near
    <3> DEFINE ks == (x.stall + MaxPass) * SlewStep
    <3>5. ks \in Nat
      <4>1. x.stall + MaxPass \in Nat
        BY <1>1, <2>2
      <4> QED
        BY <4>1, Frames
    <3> HIDE DEF ks
    <3>6. Within(x.position, x.stallStart, ks) => Within(y.position, x.stallStart, ks + ke)
      BY <1>1, <1>3, <3>1, <3>2, <3>3, <3>5 DEF Within
    <3> QED
      BY <3>4, <3>6 DEF ks
  <2>8. (y.stall + MaxPass) * SlewStep = (x.stall + MaxPass) * SlewStep + ke
    <3>1. x.stall + MaxPass \in Nat /\ y.stall + MaxPass = (x.stall + MaxPass) + e
      BY <1>1, <2>2, <2>6
    <3> QED
      BY <1>1, <3>1, Frames DEF ke
  <2>9. Within(y.position, y.stallStart, (y.stall + MaxPass) * SlewStep)
    BY <2>6, <2>7, <2>8
  <2>10. y.state = "Settling" => y.settle <= y.stall + MaxPass
    BY <1>1, <1>7, <1>16, <2>2, <2>4, <2>6
  <2>11. y.stall # Stopped /\ y.stall < ConfirmFrames
    BY <1>1, <2>1, <2>2, <2>6 DEF Stopped
  <2>12. Within(r, y.stallStart, Leap)
    BY <1>11, <1>16, <2>6
  <2> QED
    BY <2>5, <2>9, <2>10, <2>11, <2>12 DEF Near
<1> QED
  BY <1>13, <1>14, <1>15, <1>16

(* A pass of a servo without power leaves it so, and where it is.          *)
LEMMA RestingPass ==
    ASSUME NEW x, Rested(x), ~Moving(x), NEW e \in 0..MaxPass, NEW over \in BOOLEAN
    PROVE  /\ ~Moving(Loop(Elapse(x, e), over))
           /\ Loop(Elapse(x, e), over).position = x.position
<1>1. /\ Elapse(x, e).position = x.position /\ Elapse(x, e).state = x.state
  BY DEF Elapse, Rested, Dampers
<1>2. ~Moving(Elapse(x, e))
  BY <1>1 DEF Moving
<1>3. Loop(Elapse(x, e), over) = Elapse(x, e)
  BY <1>2 DEF Loop
<1> QED
  BY <1>1, <1>2, <1>3

(* A command, and the beginning of a park, move no pulse.                  *)
LEMMA CommandNear ==
    ASSUME NEW x \in Dampers, NEW h \in Positions, NEW p \in Nat, Near(x, h)
    PROVE  /\ Near(SetTarget(x, p), h) /\ SetTarget(x, p).position = x.position
           /\ Near(StartPark(x), h) /\ StartPark(x).position = x.position
<1>1. Clamp100(p) \in Positions /\ Neutral \in Positions
  BY Clamp100Type, DamperConstants DEF Positions
<1>2. \/ SetTarget(x, p) = x
      \/ SetTarget(x, p) = StartMove([x EXCEPT !.target = Clamp100(p)])
  BY DEF SetTarget
<1>3. \/ StartPark(x) = x
      \/ StartPark(x) = StartMove([x EXCEPT !.target = Neutral])
  BY DEF StartPark
<1> QED
  BY <1>1, <1>2, <1>3, StartMoveNear

(* Every step keeps horn and pulse together, and starts no servo with the  *)
(* pulse further from its horn than a leap.                                *)
LEMMA NearStepHolds ==
    ASSUME ServoInv, Near(driver, horn), [ServoNext]_servoVars
    PROVE  /\ Near(driver', horn')
           /\ ~Moving(driver) /\ Moving(driver') => driver'.position = driver.position
<1>1. driver \in Dampers /\ Rested(driver) /\ horn \in Positions /\ driver.position \in Positions
  BY DEF ServoInv, ServoTypeOK, Dampers
<1>2. ASSUME NEW p \in 0..(Full + 1), Command(p)
      PROVE  Near(driver', horn') /\ driver'.position = driver.position
  <2>1. p \in Nat /\ driver' = SetTarget(driver, p) /\ horn' = horn
    BY <1>2, DamperConstants DEF Command
  <2> QED
    BY <1>1, <2>1, CommandNear
<1>3. ASSUME Park
      PROVE  Near(driver', horn') /\ driver'.position = driver.position
  <2>1. 0 \in Nat /\ driver' = StartPark(driver) /\ horn' = horn
    BY <1>3 DEF Park
  <2> QED
    BY <1>1, <2>1, CommandNear
<1>4. ASSUME NEW e \in 0..MaxPass, LoopAfter(e)
      PROVE  Near(driver', horn') /\ (~Moving(driver) => ~Moving(driver'))
  <2> DEFINE h == IF Moving(driver) THEN Reach(horn, driver.position) ELSE horn
             over == Moving(driver) /\ Blocked(h, driver.position)
  <2>1. driver' = Loop(Elapse(driver, e), over) /\ horn' = h
    BY <1>4 DEF LoopAfter
  <2>2. over \in BOOLEAN
    BY DEF Moving, Blocked
  <2>3. CASE ~Moving(driver)
    <3>1. ~Moving(driver') /\ driver'.position = driver.position
      BY <1>1, <2>1, <2>2, <2>3, RestingPass
    <3> QED
      BY <2>1, <2>3, <3>1 DEF Near
  <2>4. CASE Moving(driver)
    <3> DEFINE r == Reach(horn, driver.position)
    <3>1. ServoTypeOK
      BY DEF ServoInv
    <3>2. /\ r \in Positions
          /\ \/ horn <= r /\ r <= driver.position
             \/ driver.position <= r /\ r <= horn
          /\ Blocked(r, driver.position) <=> r # driver.position
      BY <1>1, <3>1, ReachTends
    <3>3. horn' = r /\ over = (r # driver.position)
      BY <2>1, <2>4, <3>2
    <3> HIDE DEF r, over
    <3>4. Near(Loop(Elapse(driver, e), r # driver.position), r)
      BY <1>1, <2>4, <3>2, PassNear
    <3> QED
      BY <2>1, <2>4, <3>3, <3>4
  <2> QED
    BY <2>3, <2>4
<1>5. ASSUME Obstruct \/ UNCHANGED servoVars
      PROVE  Near(driver', horn') /\ driver' = driver
  BY <1>5 DEF Obstruct, servoVars
<1> QED
  BY <1>2, <1>3, <1>4, <1>5 DEF ServoNext

(* The pulse a servo is powered up with (Damper::StartMove()) is no more   *)
(* than the slew of one confirm window and a pass away from where its horn *)
(* was left, however many stalls and retries came before.                  *)
THEOREM PowersUpNear == ServoSpec => NoJumpAtPowerUp
<1> DEFINE Small == (~Moving(driver) /\ Moving(driver')) =>
                       /\ driver'.position - horn <= Leap
                       /\ horn - driver'.position <= Leap
<1>1. ServoInit => Near(driver, horn)
  <2> SUFFICES ASSUME ServoInit PROVE Near(driver, horn)
    OBVIOUS
  <2>1. ~Moving(driver) /\ driver.position = Neutral /\ horn = Neutral
    BY DEF ServoInit, InitialDamper, Moving
  <2>2. Leap \in Nat /\ Neutral \in Nat
    <3>1. ConfirmFrames + MaxPass \in Nat
      BY DamperConstants
    <3> QED
      BY <3>1, Frames, DamperConstants DEF Leap
  <2> QED
    BY <2>1, <2>2 DEF Near, Within
<1>2. ServoInv /\ Near(driver, horn) /\ [ServoNext]_servoVars => Near(driver, horn)'
  BY NearStepHolds
<1>3. ServoInv /\ Near(driver, horn) /\ [ServoNext]_servoVars => [Small]_servoVars
  BY NearStepHolds DEF Near, Within
<1>4. [][Small]_servoVars => NoJumpAtPowerUp
  BY PTL DEF NoJumpAtPowerUp, Leap, Small
<1> QED
  BY <1>1, <1>2, <1>3, <1>4, ServoInvariance, PTL DEF ServoSpec

=============================================================================
