-------------------------- MODULE RoomControlProofs --------------------------
(* Proofs about RoomControl, for every stroke, timer, budget and demand.   *)
EXTENDS RoomControl, DamperProofs

-----------------------------------------------------------------------------
(* The inductive invariant: the damper is in range and accounted for, and  *)
(* the range of the budget is one.                                         *)
IInv ==
    /\ TypeOK
    /\ d.state = "Moving" => d.sinceSlew = 0
    /\ budgetMin <= budgetMax

(* The room loop's steps leave the target inside the range they leave.     *)
Inside == d'.target \in budgetMin'..budgetMax'

(* A target is put into any range there is.                                *)
LEMMA ClampedType ==
    ASSUME NEW p \in Positions, NEW max \in Positions,
           NEW min \in Positions, min <= max
    PROVE  /\ Clamped(p, max, min) \in Positions
           /\ Clamped(p, max, min) \in min..max
           /\ Clamped(p, max, min) \in Nat
           /\ Clamp100(Clamped(p, max, min)) = Clamped(p, max, min)
BY DamperConstants DEF Clamped, Larger, Smaller, Positions, Clamp100

(* The new range moves a damper in Auto to its nearer end.                 *)
LEMMA ClampIntoRangeType ==
    ASSUME Rested(d), NEW max \in Positions, NEW min \in Positions,
           min <= max
    PROVE  /\ Rested(ClampIntoRange(max, min))
           /\ mode = "Auto" => ClampIntoRange(max, min).target \in min..max
<1>1. d.target \in Positions
    BY DEF Rested, Dampers
<1>2. /\ max \in Nat /\ min \in Nat /\ d.target \in Nat
      /\ Clamp100(max) = max /\ Clamp100(min) = min
    BY <1>1, DamperConstants DEF Positions, Clamp100
<1>3. /\ Rested(SetTarget(d, max)) /\ SetTarget(d, max).target = max
      /\ Rested(SetTarget(d, min)) /\ SetTarget(d, min).target = min
    BY <1>2, SetTargetType
<1>4. CASE mode = "Auto" /\ d.target > max
    BY <1>2, <1>3, <1>4 DEF ClampIntoRange
<1>5. CASE mode = "Auto" /\ ~(d.target > max) /\ d.target < min
    BY <1>2, <1>3, <1>5 DEF ClampIntoRange
<1>6. CASE ~(mode = "Auto" /\ (d.target > max \/ d.target < min))
    BY <1>2, <1>6 DEF ClampIntoRange
<1>. QED
    BY <1>4, <1>5, <1>6

(* The ramp neither leaves the positions nor undercuts the minimum.        *)
LEMMA RampedMaxType ==
    ASSUME budgetMax \in Positions, budgetMin \in Positions,
           budgetMin <= budgetMax
    PROVE  RampedMax \in Positions /\ budgetMin <= RampedMax
BY DamperConstants, RoomConstants DEF RampedMax, Larger, Smaller, Positions

(* One pass of the main loop, in any mode.                                 *)
LEMMA PassType ==
    ASSUME IInv, NEW e \in 0..MaxPass, NEW over \in BOOLEAN,
           NEW rampDue \in BOOLEAN, Pass(e, over, rampDue)
    PROVE  IInv' /\ (mode' = "Auto" => Inside)
<1>. DEFINE max == IF lost /\ rampDue THEN RampedMax ELSE budgetMax
            elapsed == Elapse(d, e)
            decided == Decide(elapsed, max, budgetMin)
<1>1. max \in Positions /\ budgetMin \in Positions /\ budgetMin <= max
    BY RampedMaxType DEF IInv, TypeOK
<1>2. elapsed \in Dampers
    BY ElapseType DEF IInv, TypeOK, Rested
<1>3. /\ budgetMax' = max /\ budgetMin' = budgetMin /\ mode' = mode
      /\ d' = Loop(decided, over)
      /\ UNCHANGED <<lost, demand, dumpRoom, saved, heard, masterUp>>
    BY DEF Pass, flashVars, busVars
<1>. HIDE DEF max, elapsed
<1>. DEFINE target == Clamped(demand, max, budgetMin)
<1>4. /\ target \in Positions /\ target \in Nat
      /\ target \in budgetMin..max /\ Clamp100(target) = target
    BY <1>1, ClampedType DEF IInv, TypeOK
<1>. HIDE DEF target
<1>5. /\ SetTarget(elapsed, target) \in Dampers
      /\ SetTarget(elapsed, target).target = target
    BY <1>2, <1>4, SetTargetInPass
<1>6. decided \in Dampers /\ (mode = "Auto" => decided.target = target)
  <2>1. decided = IF mode = "Auto" /\ target # elapsed.target
                  THEN SetTarget(elapsed, target) ELSE elapsed
    BY DEF Decide, target
  <2>. QED
    BY <2>1, <1>2, <1>5
<1>. HIDE DEF decided
<1>7. Rested(d') /\ d'.target = decided.target
    BY <1>3, <1>6, LoopType
<1>. QED
    BY <1>1, <1>3, <1>4, <1>6, <1>7 DEF IInv, TypeOK, Rested, Inside

(* A new budget.                                                           *)
LEMMA BudgetType ==
    ASSUME IInv, NEW max \in 0..(Full + 1), NEW min \in 0..(Full + 1),
           SetBudget(max, min)
    PROVE  IInv' /\ (mode' = "Auto" => Inside)
<1>1. max \in Nat /\ min \in Nat
    BY DamperConstants
<1>2. Clamp100(max) \in Positions /\ Clamp100(min) \in Positions
    BY <1>1, Clamp100Type
<1>3. /\ budgetMin' \in Positions /\ budgetMax' \in Positions
      /\ budgetMin' <= budgetMax'
    BY <1>2 DEF SetBudget, Larger, Positions
<1>4. /\ Rested(ClampIntoRange(budgetMax', budgetMin'))
      /\ mode = "Auto" =>
             ClampIntoRange(budgetMax', budgetMin').target \in budgetMin'..budgetMax'
    BY <1>3, ClampIntoRangeType DEF IInv, TypeOK, Rested
<1>5. /\ d' = ClampIntoRange(budgetMax', budgetMin')
      /\ lost' = FALSE /\ mode' = mode
      /\ UNCHANGED <<demand, dumpRoom, saved, heard, masterUp>>
    BY DEF SetBudget, flashVars, busVars
<1>. QED
    BY <1>3, <1>4, <1>5 DEF IInv, TypeOK, Rested, Inside

(* No Poll for a second.                                                   *)
LEMMA LapseType ==
    ASSUME IInv, HeartbeatLapses
    PROVE  IInv' /\ (mode' = "Auto" => Inside)
<1>1. /\ budgetMin' = IF dumpRoom THEN Full ELSE 0
      /\ budgetMax' = Larger(budgetMax, budgetMin')
    BY DEF HeartbeatLapses, ConnectionLost
<1>2. /\ budgetMin' \in Positions /\ budgetMax' \in Positions
      /\ budgetMin' <= budgetMax'
    BY <1>1, DamperConstants DEF IInv, TypeOK, Larger, Positions
<1>3. /\ Rested(ClampIntoRange(budgetMax', budgetMin'))
      /\ mode = "Auto" =>
             ClampIntoRange(budgetMax', budgetMin').target \in budgetMin'..budgetMax'
    BY <1>2, ClampIntoRangeType DEF IInv, TypeOK, Rested
<1>4. /\ d' = ClampIntoRange(budgetMax', budgetMin')
      /\ lost' = TRUE /\ heard' = FALSE
      /\ UNCHANGED <<mode, demand, dumpRoom, saved, masterUp>>
    BY DEF HeartbeatLapses, ConnectionLost, flashVars
<1>. QED
    BY <1>2, <1>3, <1>4 DEF IInv, TypeOK, Rested, Inside

-----------------------------------------------------------------------------
(* What a node starts with.                                                *)
LEMMA StartUpType ==
    /\ InitialDamper \in Dampers /\ InitialDamper.state = "Off"
    /\ DefaultBudget \in Positions /\ Neutral \in Positions
    /\ 0 \in Positions /\ 0 <= DefaultBudget
    /\ "Auto" \in Modes
BY DamperConstants, RoomConstants
   DEF InitialDamper, Dampers, Positions, Modes, Stopped

(* The initial state satisfies the invariant.                              *)
LEMMA InitIInv ==
    ASSUME Init
    PROVE  IInv
<1>1. saved \in BOOLEAN /\ dumpRoom \in BOOLEAN
    BY Zenon DEF Init
<1>2. lost \in BOOLEAN /\ heard \in BOOLEAN /\ masterUp \in BOOLEAN
    BY DEF Init
<1>. QED
    BY <1>1, <1>2, StartUpType DEF Init, IInv, TypeOK

(* An override keeps the damper in range.                                  *)
LEMMA OverridesType ==
    ASSUME IInv, Overrides
    PROVE  IInv'
<1>. UNCHANGED <<budgetMax, budgetMin, lost, demand, dumpRoom, saved, heard, masterUp>>
    BY DEF Overrides, SetDamperTarget, SetDamperMode, roomVars, flashVars, busVars
<1>1. Rested(d) /\ 0 \in Nat /\ Full \in Nat
    BY DamperConstants DEF IInv, TypeOK, Rested
<1>2. CASE \E p \in 0..(Full + 1) : SetDamperTarget(p)
  <2>1. PICK p \in 0..(Full + 1) : SetDamperTarget(p)
    BY <1>2
  <2>2. p \in Nat
    BY <1>1
  <2>3. Rested(SetTarget(d, p))
    BY <1>1, <2>2, SetTargetType
  <2>4. d' = SetTarget(d, p) /\ mode' = "Manual"
    BY <2>1 DEF SetDamperTarget
  <2>. QED
    BY <2>3, <2>4 DEF IInv, TypeOK, Rested, Modes
<1>3. CASE \E m \in Modes : SetDamperMode(m)
  <2>1. PICK m \in Modes : SetDamperMode(m)
    BY <1>3
  <2>2. Rested(SetTarget(d, 0)) /\ Rested(SetTarget(d, Full))
    BY <1>1, SetTargetType
  <2>3. mode' \in Modes /\ d' \in {d, SetTarget(d, 0), SetTarget(d, Full)}
    BY <2>1 DEF SetDamperMode, Modes
  <2>4. Rested(d')
    BY <1>1, <2>2, <2>3
  <2>. QED
    BY <2>3, <2>4 DEF IInv, TypeOK, Rested
<1>. QED
    BY <1>2, <1>3 DEF Overrides

(* Every step preserves the invariant and, where the room loop or the      *)
(* budget takes it, leaves the target inside the range.                    *)
LEMMA NextIInv ==
    ASSUME IInv, [Next]_vars
    PROVE  /\ IInv'
           /\ mode' = "Auto" /\ (Passes \/ Budgets \/ HeartbeatLapses) => Inside
<1>1. Passes => IInv' /\ (mode' = "Auto" => Inside)
    BY PassType DEF Passes
<1>2. Budgets => IInv' /\ (mode' = "Auto" => Inside)
    BY BudgetType DEF Budgets
<1>3. HeartbeatLapses => IInv' /\ (mode' = "Auto" => Inside)
    BY LapseType
<1>4. (\E p \in Demands : RoomChanges(p)) => IInv'
    BY RoomConstants DEF RoomChanges, IInv, TypeOK, roomVars, flashVars, busVars
<1>5. Overrides => IInv'
    BY OverridesType
<1>6. (\E isDumpRoom \in BOOLEAN : SetDumpRoom(isDumpRoom)) => IInv'
    BY DEF SetDumpRoom, IInv, TypeOK, roomVars, busVars
<1>7. Poll => IInv'
    BY DEF Poll, IInv, TypeOK, roomVars, flashVars
<1>8. MasterComesOrGoes => IInv'
    BY DEF MasterComesOrGoes, IInv, TypeOK, roomVars, flashVars
<1>9. Reboot => IInv'
  <2>. SUFFICES ASSUME Reboot
                PROVE  IInv'
    OBVIOUS
  <2>1. saved' \in BOOLEAN /\ dumpRoom' \in BOOLEAN
    BY Zenon DEF Reboot, IInv, TypeOK
  <2>2. lost' \in BOOLEAN /\ heard' \in BOOLEAN /\ masterUp' \in BOOLEAN
    BY DEF Reboot, IInv, TypeOK
  <2>. QED
    BY <2>1, <2>2, StartUpType DEF Reboot, IInv, TypeOK
<1>10. UNCHANGED vars => IInv'
    BY DEF vars, IInv, TypeOK
<1>11. IInv'
    BY <1>1, <1>2, <1>3, <1>4, <1>5, <1>6, <1>7, <1>8, <1>9, <1>10 DEF Next
<1>. QED
    BY <1>1, <1>2, <1>3, <1>11

-----------------------------------------------------------------------------
(* The invariant holds throughout.                                         *)
LEMMA Invariance == Spec => []IInv
<1>1. Init => IInv
    BY InitIInv
<1>2. IInv /\ [Next]_vars => IInv'
    BY NextIInv
<1>. QED
    BY <1>1, <1>2, PTL DEF Spec

(* Every variable of the room control, and every member and timer of the   *)
(* Damper object, stays in its range: no position leaves 0..Full, however  *)
(* late a pass comes (Damper::Slew()) and whatever the wire says.          *)
THEOREM RoomTypeCorrect == Spec => []TypeOK
<1>1. IInv => TypeOK
    BY DEF IInv
<1>. QED
    BY <1>1, Invariance, PTL

(* In Auto a pass, a new budget and the loss of the master each leave the  *)
(* damper's target inside the range of the budget                          *)
(* (RoomControlLoop::Loop(), SetBudget(), ConnectionLost()).               *)
THEOREM StaysInsideBudget == Spec => AutoInsideBudget
<1>1. IInv /\ [Next]_vars =>
          [mode' = "Auto" /\ (Passes \/ Budgets \/ HeartbeatLapses)
              => d'.target \in budgetMin'..budgetMax']_vars
    BY NextIInv DEF Inside
<1>. QED
    BY <1>1, Invariance, PTL DEF Spec, AutoInsideBudget

-----------------------------------------------------------------------------
(* What a stalled damper does without a new target: nothing.               *)
Retried == d.state = "Stalled" /\ Moving(d') /\ d'.target = d.target

(* A pass powers a stalled damper up for another target only.              *)
LEMMA PassDoesNotRetry ==
    ASSUME IInv, NEW e \in 0..MaxPass, NEW over \in BOOLEAN,
           NEW rampDue \in BOOLEAN, Pass(e, over, rampDue)
    PROVE  ~Retried
<1>. SUFFICES ASSUME d.state = "Stalled", d'.target = d.target
              PROVE  ~Moving(d')
    BY DEF Retried
<1>. DEFINE max == IF lost /\ rampDue THEN RampedMax ELSE budgetMax
            elapsed == Elapse(d, e)
            target == Clamped(demand, max, budgetMin)
<1>1. max \in Positions /\ budgetMin \in Positions /\ budgetMin <= max
    BY RampedMaxType DEF IInv, TypeOK
<1>2. elapsed \in Dampers /\ elapsed.target = d.target
    BY ElapseType DEF IInv, TypeOK, Rested
<1>3. elapsed.state = "Stalled"
    BY DEF IInv, TypeOK, Dampers, Elapse
<1>4. d' = Loop(Decide(elapsed, max, budgetMin), over)
    BY DEF Pass
<1>. HIDE DEF max, elapsed
<1>5. target \in Nat /\ Clamp100(target) = target
    BY <1>1, ClampedType DEF IInv, TypeOK
<1>. HIDE DEF target
<1>6. CASE mode = "Auto" /\ target # elapsed.target
  <2>1. Decide(elapsed, max, budgetMin) = SetTarget(elapsed, target)
    BY <1>6 DEF Decide, target
  <2>2. /\ SetTarget(elapsed, target) \in Dampers
        /\ SetTarget(elapsed, target).target = target
    BY <1>2, <1>5, SetTargetInPass
  <2>3. d'.target = target
    BY <1>4, <2>1, <2>2, LoopType
  <2>. QED
    BY <1>2, <1>6, <2>3
<1>7. CASE ~(mode = "Auto" /\ target # elapsed.target)
  <2>1. Decide(elapsed, max, budgetMin) = elapsed
    BY <1>7 DEF Decide, target
  <2>2. ~Moving(elapsed)
    BY <1>3 DEF Moving
  <2>3. Loop(elapsed, over) = elapsed
    BY <2>2 DEF Loop
  <2>. QED
    BY <1>4, <2>1, <2>2, <2>3
<1>. QED
    BY <1>6, <1>7

(* A range that the target is outside of moves it; any other leaves the    *)
(* damper alone.                                                           *)
LEMMA ClampDoesNotRetry ==
    ASSUME IInv, NEW max \in Positions, NEW min \in Positions,
           d' = ClampIntoRange(max, min)
    PROVE  ~Retried
<1>. SUFFICES ASSUME d.state = "Stalled", d'.target = d.target
              PROVE  ~Moving(d')
    BY DEF Retried
<1>1. Rested(d) /\ d.target \in Nat
    BY DEF IInv, TypeOK, Rested, Dampers, Positions
<1>2. /\ max \in Nat /\ min \in Nat
      /\ Clamp100(max) = max /\ Clamp100(min) = min
    BY DamperConstants DEF Positions, Clamp100
<1>3. SetTarget(d, max).target = max /\ SetTarget(d, min).target = min
    BY <1>1, <1>2, SetTargetType
<1>4. ~(mode = "Auto" /\ d.target > max)
    BY <1>1, <1>2, <1>3 DEF ClampIntoRange
<1>5. ~(mode = "Auto" /\ d.target < min)
    BY <1>1, <1>2, <1>3, <1>4 DEF ClampIntoRange
<1>. QED
    BY <1>4, <1>5 DEF ClampIntoRange, Moving

(* A damper that has stalled is powered up again for a target it did not   *)
(* have, or by an override: no pass of the room loop, no new budget, no    *)
(* loss of the master and no reset drives it into the same jam again       *)
(* (RoomControlLoop::Loop(), ClampIntoRange(), Damper::SetTarget()).       *)
THEOREM NoBlindRetry == Spec => StallIsNotRetriedBlindly
<1>1. ASSUME IInv, [Next]_vars
      PROVE  Retried => Overrides
  <2>1. Passes => ~Retried
    BY <1>1, PassDoesNotRetry DEF Passes
  <2>2. Budgets => ~Retried
    <3>. SUFFICES ASSUME NEW max \in 0..(Full + 1), NEW min \in 0..(Full + 1),
                         SetBudget(max, min)
                  PROVE  ~Retried
        BY DEF Budgets
    <3>1. budgetMin' \in Positions /\ budgetMax' \in Positions
        BY <1>1, BudgetType DEF IInv, TypeOK
    <3>2. d' = ClampIntoRange(budgetMax', budgetMin')
        BY DEF SetBudget
    <3>. QED
        BY <1>1, <3>1, <3>2, ClampDoesNotRetry
  <2>3. HeartbeatLapses => ~Retried
    <3>. SUFFICES ASSUME HeartbeatLapses
                  PROVE  ~Retried
        OBVIOUS
    <3>1. budgetMin' \in Positions /\ budgetMax' \in Positions
        BY <1>1, LapseType DEF IInv, TypeOK
    <3>2. d' = ClampIntoRange(budgetMax', budgetMin')
        BY DEF HeartbeatLapses, ConnectionLost
    <3>. QED
        BY <1>1, <3>1, <3>2, ClampDoesNotRetry
  <2>4. Reboot => ~Retried
    BY DEF Reboot, Retried, InitialDamper, Moving
  <2>5. UNCHANGED d => ~Retried
    BY DEF Retried, Moving
  <2>6. (\E p \in Demands : RoomChanges(p)) => UNCHANGED d
    BY DEF RoomChanges
  <2>7. (\E isDumpRoom \in BOOLEAN : SetDumpRoom(isDumpRoom)) => UNCHANGED d
    BY DEF SetDumpRoom
  <2>8. Poll \/ MasterComesOrGoes \/ UNCHANGED vars => UNCHANGED d
    BY DEF Poll, MasterComesOrGoes, vars
  <2>. QED
    BY <1>1, <2>1, <2>2, <2>3, <2>4, <2>5, <2>6, <2>7, <2>8 DEF Next
<1>2. IInv /\ [Next]_vars =>
          [d.state = "Stalled" /\ Moving(d') /\ d'.target = d.target
              => Overrides]_vars
    BY <1>1 DEF Retried
<1>. QED
    BY <1>2, Invariance, PTL DEF Spec, StallIsNotRetriedBlindly

=============================================================================
