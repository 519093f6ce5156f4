-------------------------- MODULE BudgetAllocator ---------------------------
(***************************************************************************)
(* How the MainController shares out the air: the functions of             *)
(* BudgetAllocator (Software/Modules/MainController) and the demand of one *)
(* room (Software/Lib/NodeLib/RoomDemand.cpp), without state.  AirBalance  *)
(* puts them between reports that get lost and nodes that come and go.     *)
(*                                                                         *)
(* A share is [max, min].  What the allocator remembers of a room (SRoom)  *)
(* is a record with the last report of every endpoint, or None; a room's   *)
(* temperature is counted from its setpoint, the two being reported        *)
(* together here.  Positions and temperatures keep their unit but not      *)
(* their resolution.                                                       *)
(***************************************************************************)
EXTENDS Integers, FiniteSets, Functions

CONSTANTS
    Nodes,          \* bus addresses, 1..MAX_NODES
    Full,           \* a damper fully open: 100 percent
    Neutral,        \* NeutralPercent, the position without data
    DefaultBudget,  \* defaultBudgetPerNode
    Floor,          \* minTotalOpenPercent
    BudgetStep,     \* budgetStepPercent
    Deadband,       \* roomDeadbandCentiC
    Authority,      \* fullAuthorityCentiC
    None            \* nothing was reported

ASSUME AllocatorConstants ==
    /\ Nodes \subseteq Nat \ {0} /\ IsFiniteSet(Nodes)
    /\ Full \in Nat \ {0} /\ Neutral \in 0..Full /\ DefaultBudget \in 0..Full
    /\ Floor \in Nat /\ BudgetStep \in Nat \ {0}
    /\ Deadband \in Nat /\ Authority \in Nat
    /\ None \notin Int

Bigger(a, b)   == IF a > b THEN a ELSE b
Lesser(a, b)   == IF a < b THEN a ELSE b
Magnitude(n)   == IF n < 0 THEN -n ELSE n

(* Rounds to the nearest share.                                            *)
DivRoundNearest(a, b) == (a + b \div 2) \div b

-----------------------------------------------------------------------------
(* One room: does this air help it, and how much of it does it want.       *)

SupplyHelpsRoom(supply, temp) ==
    \/ temp > Deadband  /\ supply < temp
    \/ temp < -Deadband /\ supply > temp

RoomDemand(supply, temp) ==
    LET want == Magnitude(temp) - Deadband
        span == Authority - Deadband
    IN  IF ~SupplyHelpsRoom(supply, temp) THEN 0
        ELSE IF want >= span THEN Full
        ELSE DivRoundNearest(want * Full, span)

-----------------------------------------------------------------------------
(* What is known of a room.                                                *)

Endpoints == {"RoomTemp", "DamperBudget", "DamperMode", "DamperTarget", "DumpRoom"}

(* SRoom().                                                                *)
Unseen == [e \in Endpoints |-> None]

(* The mode counts as Auto until one is reported.                          *)
SeenMode(r) == IF r["DamperMode"] = None THEN "Auto" ELSE r["DamperMode"]

(* Known(), for a supply reading that may be missing.                      *)
Judged(r, supply) == supply # None /\ r["RoomTemp"] # None

-----------------------------------------------------------------------------
(* The fair shares.                                                        *)

(* Bug: the pool counts the rooms that hold a fixed share, too.            *)
PoolOfAll(online, known) == DefaultBudget * Cardinality(online)

Pool(online, known) == DefaultBudget * Cardinality(known)

(* A pass of the water-fill: what a full damper has too much goes to the   *)
(* ones that are still open, by weight, or evenly where nobody asks.       *)
FillPass(fill, weight) ==
    LET over == {n \in fill.open : fill.give[n] > Full}
        open == fill.open \ over
        excess == SumFunctionOnSet(fill.give, over) - Full * Cardinality(over)
        openWeight == SumFunctionOnSet(weight, open)
        Extra(n) == IF openWeight > 0
                    THEN DivRoundNearest(excess * weight[n], openWeight)
                    ELSE DivRoundNearest(excess, Cardinality(open))
    IN  [open |-> open,
         give |-> [n \in DOMAIN fill.give |->
                     IF n \in over THEN Full
                     ELSE IF n \in open /\ excess > 0 THEN fill.give[n] + Extra(n)
                     ELSE fill.give[n]]]

(* Recompute() with a supply reading.  Rooms without data hold the default *)
(* and stay out of the split; the others share the pool by demand.         *)
FairShares(online, seen, supply) ==
    LET known == {n \in online : Judged(seen[n], supply)}
        weight == [n \in online |-> IF n \in known
                                    THEN RoomDemand(supply, seen[n]["RoomTemp"]) ELSE 0]
        weights == SumFunctionOnSet(weight, known)
        pool == Pool(online, known)
        Share(n) == IF weights > 0 THEN DivRoundNearest(pool * weight[n], weights)
                                   ELSE DivRoundNearest(pool, Cardinality(known))
        start == [open |-> known,
                  give |-> [n \in online |->
                              IF n \in known THEN Share(n) ELSE DefaultBudget]]
        fill[pass \in 0..Cardinality(online)] ==
            IF pass = 0 THEN start ELSE FillPass(fill[pass - 1], weight)
    IN  [n \in online |-> Lesser(fill[Cardinality(online)].give[n], Full)]

(* Bug: budgets above the default stay where they are.                     *)
StepUpOnly(online, seen) ==
    [n \in online |->
        LET b == IF seen[n]["DamperBudget"] = None THEN DefaultBudget
                 ELSE seen[n]["DamperBudget"]
        IN  IF b + BudgetStep < DefaultBudget THEN b + BudgetStep
            ELSE Bigger(b, DefaultBudget)]

(* StepBudgetsTowardDefault(): without a supply reading there is nothing   *)
(* to allocate by, and every budget walks back to the default.             *)
StepTowardDefault(online, seen) ==
    [n \in online |->
        LET b == IF seen[n]["DamperBudget"] = None THEN DefaultBudget
                 ELSE seen[n]["DamperBudget"]
        IN  IF b + BudgetStep < DefaultBudget THEN b + BudgetStep
            ELSE IF b > DefaultBudget + BudgetStep THEN b - BudgetStep
            ELSE DefaultBudget]

Maxes(online, seen, supply) ==
    IF supply = None THEN StepTowardDefault(online, seen)
    ELSE FairShares(online, seen, supply)

-----------------------------------------------------------------------------
(* The minimums that keep the duct open.                                   *)

(* Where the damper would sit without a minimum.                           *)
Unfloored(r, supply, max) ==
    CASE SeenMode(r) = "Stalled" -> 0
      [] SeenMode(r) = "Auto" ->
           Lesser(IF Judged(r, supply) THEN RoomDemand(supply, r["RoomTemp"])
                  ELSE Neutral, max)
      [] OTHER -> IF r["DamperTarget"] = None THEN 0 ELSE r["DamperTarget"]

(* How far the supply air already pushed the room past its setpoint.       *)
PastSetpoint(r, supply) ==
    IF supply >= r["RoomTemp"] THEN r["RoomTemp"] ELSE -r["RoomTemp"]

(* SurplusRank() as a pair: the dump room first, the rooms that nobody can *)
(* judge last.                                                             *)
SurplusRank(r, supply) ==
    IF r["DumpRoom"] = TRUE THEN <<0, 0>>
    ELSE IF Judged(r, supply) THEN <<1, PastSetpoint(r, supply)>>
    ELSE <<2, 0>>

(* The order of the selection, the lower address breaking a tie.           *)
RanksBefore(seen, supply, n, o) ==
    LET rank  == SurplusRank(seen[n], supply)
        other == SurplusRank(seen[o], supply)
    IN  \/ rank[1] < other[1]
        \/ rank[1] = other[1] /\ rank[2] < other[2]
        \/ rank = other /\ n < o

(* Bug: a room that has to open gets the difference as its minimum.        *)
TakesDifference(acc, n, base) ==
    LET add == Lesser(Full - base[n], acc.shortfall)
    IN  [left |-> acc.left \ {n},
         shortfall |-> acc.shortfall - add,
         mins |-> IF add > 0 THEN [acc.mins EXCEPT ![n] = add] ELSE acc.mins]

(* One room is filled up before the next takes any.                        *)
TakesSurplus(acc, n, base) ==
    LET add == Lesser(Full - base[n], acc.shortfall)
    IN  [left |-> acc.left \ {n},
         shortfall |-> acc.shortfall - add,
         mins |-> IF add > 0 THEN [acc.mins EXCEPT ![n] = base[n] + add] ELSE acc.mins]

(* A selection pass over the rooms that took nothing yet.                  *)
SelectionPass(acc, seen, supply, base) ==
    LET best == CHOOSE n \in acc.left :
                    \A o \in acc.left \ {n} : RanksBefore(seen, supply, n, o)
    IN  IF acc.shortfall = 0 \/ acc.left = {} THEN acc
        ELSE TakesSurplus(acc, best, base)

(* AssignMinimumsAndSend().  Only rooms in Auto take any.                  *)
Minimums(online, seen, supply, maxes) ==
    LET base  == [n \in online |-> Unfloored(seen[n], supply, maxes[n])]
        auto  == {n \in online : SeenMode(seen[n]) = "Auto"}
        start == [left |-> auto,
                  shortfall |-> Bigger(Floor - SumFunction(base), 0),
                  mins |-> [n \in online |-> 0]]
        takes[pass \in 0..Cardinality(auto)] ==
            IF pass = 0 THEN start
            ELSE SelectionPass(takes[pass - 1], seen, supply, base)
    IN  takes[Cardinality(auto)].mins

(* What Recompute() sends to every node that is online.                    *)
Allocation(online, seen, supply) ==
    LET maxes == Maxes(online, seen, supply)
        mins  == Minimums(online, seen, supply, maxes)
    IN  [n \in online |-> [max |-> maxes[n], min |-> mins[n]]]

=============================================================================
