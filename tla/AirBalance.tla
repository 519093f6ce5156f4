----------------------------- MODULE AirBalance -----------------------------
(***************************************************************************)
(* The air of the house: the MainController's BudgetAllocator, the rooms   *)
(* whose dampers it limits, and the reports and budgets between them, any  *)
(* of which can get lost (Software/Modules/MainController,                 *)
(* Software/Modules/ControllerNode, Software/Lib/NodeLib/Publisher.cpp).   *)
(*                                                                         *)
(* A ControllerNode is the part of RoomControl that the balance depends    *)
(* on: a damper gets where it was told to be, or stalls on the way against *)
(* an obstacle and stays until it is told something else.  Its Publisher   *)
(* reports what changed with the next poll and believes to have told what  *)
(* it handed over, whether or not it arrived; only the keepalive repeats   *)
(* it.  Both sides snoop the same supply temperature.                      *)
(*                                                                         *)
(* "Bug" marks a definition that is not the code but the one after it with *)
(* a plausible mistake.                                                    *)
(***************************************************************************)
EXTENDS BudgetAllocator, FiniteSetsExt

CONSTANTS
    Temps,        \* the temperatures a room and the supply may have; a bound
    Houses,       \* temp, mode, target, dumpRoom and reach of every node, and
                  \* the supply, as they may be when the master starts; a bound
    Reaches,      \* where a damper can get to, for obstacles; a bound
    Lively,       \* the nodes that something may happen to; a bound
    MaxLosses,    \* reports and budgets that get lost; a bound
    MaxChanges    \* what happens to the house from outside; a bound

(* No obstacle keeps a damper from Neutral, where it starts.               *)
ASSUME AirConstants ==
    /\ Temps \subseteq Int /\ Lively \subseteq Nodes
    /\ \A reach \in Reaches : reach \subseteq 0..Full /\ Neutral \in reach
    /\ MaxLosses \in Nat /\ MaxChanges \in Nat

VARIABLES
    node,      \* what every ControllerNode is and does
    told,      \* Publisher::SEntry::reported, None without reportedValid
    roster,    \* ControllerNodes that NodeMaster polls, in their app
    seen,      \* BudgetAllocator::room
    supply,    \* the valid supply reading, or None
    pending,   \* DamperBudget Set on its way to the node, or None
    due,       \* recomputeTimer has run out
    losses, changes

vars == <<node, told, roster, seen, supply, pending, due, losses, changes>>

Positions == 0..Full
Climates  == Temps \cup {None}
NodeModes == {"Auto", "Manual"}

(* A house has rooms, with or without a temperature.                       *)
ASSUME HousesAreHouses ==
    \A house \in Houses :
        /\ house.supply \in Int \cup {None}
        /\ \A n \in Nodes : /\ house.rooms[n].temp \in Int \cup {None}
                             /\ house.rooms[n].mode \in NodeModes
                             /\ house.rooms[n].target \in Positions
                             /\ house.rooms[n].dumpRoom \in BOOLEAN
                             /\ house.rooms[n].reach \in Reaches \cup {0..Full}

-----------------------------------------------------------------------------
(* A room.                                                                 *)

(* ControllerHandler and RoomControlLoop when the node starts: no data yet. *)
Started(dumpRoom, reach) ==
    [temp |-> None, mode |-> "Auto", target |-> Neutral, stalled |-> FALSE,
     reach |-> reach, dumpRoom |-> dumpRoom, max |-> DefaultBudget, min |-> 0]

(* Damper::SetTarget(): a stalled damper tries again.                      *)
SetTarget(r, p) == [r EXCEPT !.target = p, !.stalled = FALSE]

(* Damper::ReportedMode().                                                 *)
ReportedMode(r) == IF r.stalled THEN "Stalled" ELSE r.mode

(* The range around what the room wants.                                   *)
RoomTarget(r, air) ==
    LET desired == IF air # None /\ r.temp # None THEN RoomDemand(air, r.temp) ELSE Neutral
    IN  Bigger(Lesser(desired, r.max), r.min)

(* RoomControlLoop::Loop(), at once after everything that it looks at: a   *)
(* target is passed on when it is new.                                     *)
Looped(r, air) ==
    IF r.mode = "Auto" /\ RoomTarget(r, air) # r.target
    THEN SetTarget(r, RoomTarget(r, air)) ELSE r

(* SetBudget() and ClampIntoRange().  A clamp that moves the damper leaves *)
(* it nearer to where the loop puts it, never back where it was.           *)
SetBudget(r, max, min, air) ==
    Looped([r EXCEPT !.max = Bigger(max, min), !.min = min], air)

(* ConnectionLost(): the minimum is dropped, or the dump room opens.       *)
ConnectionLost(r, air) == SetBudget(r, r.max, IF r.dumpRoom THEN Full ELSE 0, air)

(* Nobody knows where a damper is that something stopped.                  *)
Stuck(r) == r.stalled \/ r.target \notin r.reach
Opening(r) == IF Stuck(r) THEN 0 ELSE r.target

-----------------------------------------------------------------------------
Init ==
    /\ \E house \in Houses :
         /\ node = [n \in Nodes |->
                      LET room == house.rooms[n]
                      IN  Looped([Started(room.dumpRoom, room.reach) EXCEPT
                                    !.temp = room.temp, !.mode = room.mode,
                                    !.target = room.target], house.supply)]
         /\ supply = house.supply
    /\ told = [n \in Nodes |-> Unseen]
    /\ seen = [n \in Nodes |-> Unseen]
    /\ roster = Nodes
    /\ pending = [n \in Nodes |-> None]
    /\ due = TRUE
    /\ losses = 0 /\ changes = 0

-----------------------------------------------------------------------------
(* What a room reports.                                                    *)

(* ControllerHandler::Publish().                                           *)
Value(n) ==
    [e \in Endpoints |-> CASE e = "RoomTemp"     -> node[n].temp
                           [] e = "DamperBudget" -> node[n].max
                           [] e = "DamperMode"   -> ReportedMode(node[n])
                           [] e = "DamperTarget" -> node[n].target
                           [] e = "DumpRoom"     -> node[n].dumpRoom]

(* Publisher::Due().                                                       *)
Due(n) == {e \in Endpoints : Value(n)[e] # None /\ told[n][e] # Value(n)[e]}

-----------------------------------------------------------------------------
(* The bus.                                                                *)

(* The master polls every node of the roster in turn, which takes far less *)
(* time than anything else here.  A node hands over everything that is due *)
(* and takes it as reported; the frames in lost do not arrive.  Observe()  *)
(* keeps the others.                                                       *)
Reports == {r \in roster \X Endpoints : r[2] \in Due(r[1])}

PollRound ==
    /\ Reports # {}
    /\ \E lost \in UNION {kSubset(k, Reports) : k \in 0..(MaxLosses - losses)} :
         /\ losses' = losses + Cardinality(lost)
         /\ told' = [n \in Nodes |-> IF n \in roster THEN Value(n) ELSE told[n]]
         /\ seen' = [n \in Nodes |-> [e \in Endpoints |->
                        IF <<n, e>> \in Reports \ lost THEN Value(n)[e] ELSE seen[n][e]]]
    /\ UNCHANGED <<node, roster, supply, pending, changes, due>>

(* Bug: only the temperature is repeated.                                  *)
RepeatsTemp(n) == {e \in {"RoomTemp"} : Value(n)[e] \notin {None, seen[n][e]}}

(* The keepalive of one node, value by value within a minute.  Repeating   *)
(* what the master has changes nothing, and is left out.                   *)
Repeats(n) == {e \in Endpoints : Value(n)[e] \notin {None, seen[n][e]}}

Keepalive ==
    /\ Reports = {}
    /\ told' = [n \in Nodes |-> [e \in Endpoints |->
                   IF n \in roster /\ e \in Repeats(n) THEN None ELSE told[n][e]]]
    /\ \E n \in roster : Repeats(n) # {}
    /\ UNCHANGED <<node, roster, seen, supply, pending, losses, changes, due>>

(* Known() without a fresh RoomTemp: only a temperature that the node no   *)
(* longer reports, or a node that is no longer polled, gets that old.      *)
TempGoesStale(n) ==
    /\ seen[n]["RoomTemp"] # None
    /\ node[n].temp = None \/ n \notin roster
    /\ seen' = [seen EXCEPT ![n]["RoomTemp"] = None]
    /\ UNCHANGED <<node, told, roster, supply, pending, losses, changes, due>>

(* The queue goes out before the next poll: Set DamperBudget {max, min} is *)
(* RoomControlLoop::SetBudget() for the nodes that get it.                 *)
QueueFlushed ==
    LET sent == {n \in Nodes : pending[n] # None} IN
    /\ sent # {}
    /\ \E lost \in UNION {kSubset(k, sent) : k \in 0..(MaxLosses - losses)} :
         /\ losses' = losses + Cardinality(lost)
         /\ node' = [n \in Nodes |->
                       IF n \in sent \ lost
                       THEN SetBudget(node[n], pending[n].max, pending[n].min, supply)
                       ELSE node[n]]
    /\ pending' = [n \in Nodes |-> None]
    /\ UNCHANGED <<told, roster, seen, supply, changes, due>>

-----------------------------------------------------------------------------
(* The allocator.                                                          *)

RecomputeTimerFinishes ==
    /\ ~due
    /\ due' = TRUE
    /\ UNCHANGED <<node, told, roster, seen, supply, pending, losses, changes>>

(* Recompute(): what is known of a node that is not there is forgotten,    *)
(* the others get their share, sent whether or not it is new.              *)
Recompute ==
    /\ due
    /\ due' = FALSE
    /\ LET share == Allocation(roster, seen, supply)
       IN  pending' = [n \in Nodes |-> IF n \in roster THEN share[n] ELSE pending[n]]
    /\ seen' = [n \in Nodes |->
                  IF n \notin roster THEN Unseen
                  ELSE [seen[n] EXCEPT !["DamperBudget"] = pending'[n].max]]
    /\ UNCHANGED <<node, told, roster, supply, losses, changes>>

-----------------------------------------------------------------------------
(* From outside, at most MaxChanges times.                                 *)

Change == changes < MaxChanges /\ changes' = changes + 1

(* The master gives the node up after polls it did not answer.             *)
NodeLost(n) ==
    /\ Change
    /\ n \in roster
    /\ roster' = roster \ {n}
    /\ UNCHANGED <<node, told, seen, supply, pending, losses, due>>

NodeFound(n) ==
    /\ n \notin roster
    /\ roster' = roster \cup {n}
    /\ UNCHANGED <<node, told, seen, supply, pending, losses, changes, due>>

(* A node that is not polled drops its minimum, or opens if it is the dump *)
(* room, and tells everything afresh once it is polled again.  It may be   *)
(* back before it noticed.                                                 *)
HeartbeatLapses(n) ==
    /\ n \notin roster
    /\ told' = [told EXCEPT ![n] = Unseen]
    /\ node' = [node EXCEPT ![n] = ConnectionLost(@, supply)]
    /\ UNCHANGED <<roster, seen, supply, pending, losses, changes, due>>

Restart(n) ==
    /\ Change
    /\ node' = [node EXCEPT ![n] = Looped(Started(@.dumpRoom, @.reach), supply)]
    /\ told' = [told EXCEPT ![n] = Unseen]
    /\ UNCHANGED <<roster, seen, supply, pending, losses, due>>

(* Set DamperMode, which leaves a stall as it is; Set DamperTarget, and    *)
(* the modes Closed and Open, which are positions of Manual here.          *)
ModeChanges(n) ==
    /\ Change
    /\ \/ \E m \in NodeModes \ {node[n].mode} :
            node' = [node EXCEPT ![n] = Looped([@ EXCEPT !.mode = m], supply)]
       \/ \E p \in {0, Full} :
            node' = [node EXCEPT ![n] = SetTarget([@ EXCEPT !.mode = "Manual"], p)]
    /\ UNCHANGED <<told, roster, seen, supply, pending, losses, due>>

(* Something gets in the way of a damper that is not stuck, on one side of *)
(* where it is or on both, or is taken out of it.                          *)
ObstacleMoves(n) ==
    /\ Change
    /\ \E reach \in {q \in Reaches : ~Stuck(node[n]) /\ node[n].target \in q}
                     \cup {Positions} :
         /\ reach # node[n].reach
         /\ node' = [node EXCEPT ![n].reach = reach]
    /\ UNCHANGED <<told, roster, seen, supply, pending, losses, due>>

(* CheckStall(), on the way to where the damper cannot get.                *)
Stalls(n) ==
    /\ ~node[n].stalled /\ node[n].target \notin node[n].reach
    /\ node' = [node EXCEPT ![n].stalled = TRUE]
    /\ UNCHANGED <<told, roster, seen, supply, pending, losses, changes, due>>

(* The Thermostat's reading; without one the node clears what it published. *)
RoomTempChanges(n) ==
    /\ Change
    /\ \E t \in Climates \ {node[n].temp} :
         /\ node' = [node EXCEPT ![n] = Looped([@ EXCEPT !.temp = t], supply)]
         /\ told' = IF t = None THEN [told EXCEPT ![n]["RoomTemp"] = None] ELSE told
    /\ UNCHANGED <<roster, seen, supply, pending, losses, due>>

(* A SupplyTemp report, or none for staleTimeoutMs.                        *)
SupplyChanges ==
    /\ Change
    /\ supply' \in Climates \ {supply}
    /\ node' = [n \in Nodes |-> Looped(node[n], supply')]
    /\ UNCHANGED <<told, roster, seen, pending, losses, due>>

-----------------------------------------------------------------------------
Next ==
    \/ RecomputeTimerFinishes
    \/ Recompute
    \/ SupplyChanges
    \/ PollRound
    \/ Keepalive
    \/ QueueFlushed
    \/ \E n \in Nodes : Stalls(n)
    \/ \E n \in Lively :
        \/ TempGoesStale(n)
        \/ NodeLost(n) \/ NodeFound(n) \/ HeartbeatLapses(n) \/ Restart(n)
        \/ ModeChanges(n) \/ ObstacleMoves(n) \/ RoomTempChanges(n)

(* The allocator keeps its interval, a move that is stopped is given up,   *)
(* and everything on the bus gets its turn: rediscovery, polls, keepalives *)
(* and queued budgets.  The four that come first leave nothing of their    *)
(* own to do, so that for them weak fairness is the same as having nothing *)
(* to do again and again.                                                  *)
Fairness ==
    /\ []<>~due
    /\ []<>(Reports = {})
    /\ []<>(Reports # {} \/ \A n \in roster : Repeats(n) = {})
    /\ []<>(\A n \in Nodes : pending[n] = None)
    /\ WF_vars(RecomputeTimerFinishes)
    /\ \A n \in Nodes : WF_vars(Stalls(n))
    /\ \A n \in Lively : WF_vars(TempGoesStale(n)) /\ WF_vars(NodeFound(n))

Spec == Init /\ [][Next]_vars /\ Fairness

-----------------------------------------------------------------------------
(* Where a room would be with a share, for all that is known of it.        *)
Opens(n, share) ==
    LET r == seen[n]
        room == [temp |-> r["RoomTemp"], max |-> Bigger(share.max, share.min), min |-> share.min]
    IN  CASE SeenMode(r) = "Stalled" -> 0
          [] SeenMode(r) = "Auto" -> RoomTarget(room, supply)
          [] OTHER -> IF r["DamperTarget"] = None THEN 0 ELSE r["DamperTarget"]

(* Room o minds extra air less than n.                                     *)
MindsLess(o, n) ==
    LET Dump(r) == seen[r]["DumpRoom"] = TRUE
        Past(r) == PastSetpoint(seen[r], supply)
    IN  ~Dump(n) /\ \/ Dump(o)
                    \/ /\ Judged(seen[o], supply)
                       /\ Judged(seen[n], supply) => Past(o) < Past(n)

(* Whatever was last reported and whoever is there: the openings that an   *)
(* allocation asks for keep the duct open, or every room in Auto is fully  *)
(* open; and where it opens a room further than that room would, it opens  *)
(* no more than needed, and only after every room that minds it less.      *)
FloorIsAllocated ==
    LET share == Allocation(roster, seen, supply)
        total == SumFunction([n \in roster |-> Opens(n, share[n])])
        auto  == {n \in roster : SeenMode(seen[n]) = "Auto"}
        raised == {n \in roster : share[n].min > 0}
    IN  /\ total >= Floor \/ \A n \in auto : Opens(n, share[n]) = Full
        /\ raised # {} => total <= Floor
        /\ raised \subseteq auto
        /\ \A n \in raised, o \in auto : MindsLess(o, n) => Opens(o, share[o]) = Full

(* Rooms without data get the default and no more; the rooms with data     *)
(* share a pool of as many defaults as there are of them, so that air      *)
(* nobody can use is not lost and no air is handed out twice.  What        *)
(* remains is the rounding: a share is rounded to the nearest percent when *)
(* the pool is split, and again in every pass that hands air to its room.  *)
(* A pass that does has closed at least one more room before, so at worst  *)
(* half a percent goes astray in all of them once, in all but one once     *)
(* more, and so on.                                                        *)
PoolIsShared ==
    LET known == {n \in roster : Judged(seen[n], supply)}
        rooms == Cardinality(known)
        share == Maxes(roster, seen, supply)
        given == SumFunctionOnSet(share, known)
    IN  supply # None =>
          /\ \A n \in roster \ known : share[n] = DefaultBudget
          /\ \A n \in known : share[n] \in Positions
          /\ 4 * Magnitude(given - DefaultBudget * rooms) <= rooms * (rooms + 1)

(* The dampers really do keep the duct open, or are all the way open as    *)
(* far as they can be moved.                                               *)
AirFlows ==
    \/ SumFunction([n \in Nodes |-> Opening(node[n])]) >= Floor
    \/ \A n \in Nodes : node[n].mode = "Auto" /\ ~Stuck(node[n]) => node[n].target = Full

(* The dampers in Auto that cannot be moved everywhere.                    *)
Obstructed == {n \in Nodes : node[n].mode = "Auto" /\ node[n].reach # Positions}

(* Once nothing changes any more the dampers keep the duct open, whatever  *)
(* report or budget was lost, however stale the mode, target or            *)
(* temperature the allocator had of a room.  With an obstacle in the way   *)
(* of one in Auto they do so again and again, and no more than that: a     *)
(* room that stalled is asked for nothing, which is another target, so it  *)
(* moves, is in Auto again, and is the next to be opened against the       *)
(* obstacle in place of the others.  With two of them even that fails, as  *)
(* they take turns.                                                        *)
AirFindsItsWay ==
    /\ <>[](Cardinality(Obstructed) <= 1) => []<>AirFlows
    /\ <>[](Obstructed = {}) => <>[]AirFlows

(* Without a supply reading no budget ends below the default, which would  *)
(* keep the room from neutral; it ends at the default, or at the minimum   *)
(* that a node was told to keep: the node reports the ceiling that its     *)
(* minimum raised, and the walk starts over from there.  An obstacle makes *)
(* it start over and over.                                                 *)
BudgetsWalkBack ==
    <>[](supply = None) =>
      /\ <>[](\A n \in Nodes : node[n].max >= DefaultBudget)
      /\ <>[](Obstructed = {}) =>
           <>[](\A n \in Nodes : node[n].max \in {DefaultBudget, node[n].min})

=============================================================================
