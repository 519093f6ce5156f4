-------------------------- MODULE NodeMasterProofs --------------------------
(***************************************************************************)
(* The bus master is correct for every number of slaves, every queue size  *)
(* and every bootloader grace: type correctness, the cached nodesFound,    *)
(* and the bounded bypass of the round robin -- whatever it receives, and  *)
(* so on the bus of NodeBus too.  There, with the slaves and the wire, a   *)
(* node that follows the protocol keeps its place through a restart into   *)
(* its bootloader (KeepsItsPlace, by the invariant BusInv).                *)
(***************************************************************************)
EXTENDS NodeBus, SequenceTheorems, WellFoundedInduction, TLAPS

-----------------------------------------------------------------------------
(* Every nonempty set of natural numbers has a least element.              *)
LEMMA LeastNatural ==
    ASSUME NEW T, T \subseteq Nat, T # {}
    PROVE  \E x \in T : \A y \in T : x <= y
<1>1. PICK x \in T : \A y \in T : <<y, x>> \notin OpToRel(<, Nat)
  BY NatLessThanWellFounded, WFMin
<1>2. \A y \in T : x \in Nat /\ y \in Nat /\ ~(y < x)
  BY <1>1 DEF OpToRel
<1>3. \A y \in T : x <= y
  BY <1>2
<1> QED
  BY <1>3

(* Gap() is a distance on the ring of addresses.                           *)
LEMMA GapType ==
    ASSUME NEW a \in 0..MaxNodes, NEW n \in Nodes
    PROVE  Gap(a, n) \in 1..MaxNodes
BY MasterConstants DEF Gap, Nodes

(* A distance on the ring is a natural number.                             *)
LEMMA GapIsNatural ==
    ASSUME NEW a, a \in Nodes \/ a \in 0..MaxNodes, NEW n \in Nodes
    PROVE  Gap(a, n) \in Nat
<1>1. a \in 0..MaxNodes
  BY MasterConstants DEF Nodes
<1>2. Gap(a, n) \in 1..MaxNodes
  BY <1>1, GapType
<1> QED
  BY <1>2, MasterConstants

(* The search of PollNextNode() ends, on an active node that no active     *)
(* node precedes, whenever there is an active node at all.                 *)
LEMMA NextActiveNearest ==
    ASSUME NEW prev \in 0..MaxNodes, AnyActive
    PROVE  /\ NextActive(prev) \in Nodes
           /\ active[NextActive(prev)]
           /\ \A k \in Nodes :
                 active[k] => Gap(prev, NextActive(prev)) <= Gap(prev, k)
<1> DEFINE T == {Gap(prev, n) : n \in {m \in Nodes : active[m]}}
<1>1. T \subseteq Nat
  <2>1. \A n \in Nodes : Gap(prev, n) \in Nat
    BY GapType, MasterConstants
  <2> QED
    BY <2>1
<1>2. T # {}
  BY DEF AnyActive
<1>3. PICK d \in T : \A e \in T : d <= e
  BY <1>1, <1>2, LeastNatural
<1>4. PICK n \in Nodes : active[n] /\ d = Gap(prev, n)
  BY <1>3
<1>5. \A k \in Nodes : active[k] => Gap(prev, n) <= Gap(prev, k)
  BY <1>3, <1>4
<1> QED
  BY <1>4, <1>5 DEF NextActive

(* Whatever is polled next is nearer to a waiting node than everything     *)
(* that was polled before it: the arithmetic of the round robin.           *)
LEMMA GapShrinks ==
    ASSUME NEW p \in 0..MaxNodes, NEW m \in Nodes, NEW n \in Nodes,
           m # n, Gap(p, m) <= Gap(p, n)
    PROVE  Gap(m, n) < Gap(p, n)
BY MasterConstants DEF Gap, Nodes

-----------------------------------------------------------------------------
(* The strengthening that NoBypass needs: everything polled since n was    *)
(* polled lies at least as far behind n as the node polled last.           *)
WaitersAhead ==
    \A n \in Nodes : active[n] =>
        \A k \in polledSince[n] : k # n /\ Gap(k, n) >= Gap(pendingPollNode, n)

IInv ==
    /\ TypeOK
    /\ NodesFoundExact
    /\ PollingAnActiveNode
    /\ WaitersAhead

-----------------------------------------------------------------------------
(* The invariant holds after Init(): nobody is on the roster yet.          *)
LEMMA InitIInv == Init => IInv
<1> SUFFICES ASSUME Init PROVE IInv
  OBVIOUS
<1> USE DEF Init, MasterInit
<1>1. TypeOK
  <2>1. tx \in {<<>>} \cup {<<f>> : f \in Frames}
    BY DEF Frames
  <2>2. inBootloader \in [Nodes -> 0..BootGrace] /\ messagesQueued \in 0..QueueSize
    BY MasterConstants
  <2>3. pendingPollNode \in 0..MaxNodes
    BY MasterConstants
  <2> QED
    BY <2>1, <2>2, <2>3 DEF TypeOK, MasterStates
<1>2. NodesFoundExact
  BY DEF NodesFoundExact, AnyActive
<1>3. PollingAnActiveNode
  BY DEF PollingAnActiveNode
<1>4. WaitersAhead
  BY DEF WaitersAhead
<1> QED
  BY <1>1, <1>2, <1>3, <1>4 DEF IInv

(* What a poll does to the state, and that it follows the round robin.     *)
LEMMA PollStep ==
    ASSUME IInv, NEW due \in BOOLEAN, PollNextNode(due),
           NEW k \in Nodes, tx' = <<Poll(k)>>
    PROVE  /\ k = NextActive(pendingPollNode)
           /\ pendingPollNode' = k
           /\ AnyActive
BY DEF PollNextNode, DetectNodes, IInv, NodesFoundExact, Discover, Poll

(* The types a poll, or the detection sweep it makes, leaves the state in.  *)
LEMMA PollNextNodeType ==
    ASSUME IInv, NEW due \in BOOLEAN, PollNextNode(due)
    PROVE  /\ state' \in MasterStates
           /\ pendingPollNode' \in 0..MaxNodes
           /\ tx' \in {<<>>} \cup {<<f>> : f \in Frames}
           /\ UNCHANGED <<nodesFound, messagesQueued>>
           /\ state' = "Polling" =>
                 /\ AnyActive
                 /\ pendingPollNode' = NextActive(pendingPollNode)
                 /\ pendingPollNode' \in Nodes
                 /\ tx' = <<Poll(pendingPollNode')>>
           /\ state' # "Polling" =>
                 /\ pendingPollNode' = pendingPollNode
                 /\ \A k \in Nodes : tx' # <<Poll(k)>>
<1>1. CASE due
  BY <1>1 DEF PollNextNode, DetectNodes, IInv, TypeOK, MasterStates, Frames,
              Discover, Poll
<1>2. CASE ~due /\ ~nodesFound
  BY <1>2 DEF PollNextNode, IInv, TypeOK, MasterStates
<1>3. CASE ~due /\ nodesFound
  <2>1. AnyActive
    BY <1>3 DEF IInv, NodesFoundExact
  <2>2. NextActive(pendingPollNode) \in Nodes
    BY <2>1, NextActiveNearest DEF IInv, TypeOK
  <2>3. NextActive(pendingPollNode) \in 0..MaxNodes
    BY <2>2, MasterConstants DEF Nodes
  <2> QED
    BY <1>3, <2>1, <2>2, <2>3
       DEF PollNextNode, IInv, TypeOK, MasterStates, Frames
<1> QED
  BY <1>1, <1>2, <1>3

(* A step that polls nobody keeps every waiting node's account as it is... *)
LEMMA WaitersWithoutPoll ==
    ASSUME IInv, RecordPolls, pendingPollNode' = pendingPollNode,
           \A k \in Nodes : tx' # <<Poll(k)>>
    PROVE  WaitersAhead'
<1>1. \A n \in Nodes : polledSince'[n] = IF ~active[n] THEN {} ELSE polledSince[n]
  BY DEF RecordPolls
<1> QED
  BY <1>1 DEF IInv, WaitersAhead, Gap

(* ... and a step that polls k adds k to it, which is nearer than all that *)
(* were polled before.                                                     *)
LEMMA WaitersAfterPoll ==
    ASSUME IInv, RecordPolls, AnyActive,
           NEW k \in Nodes, k = NextActive(pendingPollNode),
           pendingPollNode' = k, tx' = <<Poll(k)>>
    PROVE  WaitersAhead'
<1> SUFFICES ASSUME NEW n \in Nodes, NEW j \in polledSince'[n]
             PROVE  j # n /\ Gap(j, n) >= Gap(k, n)
  BY DEF WaitersAhead, Gap
<1>1. \A m \in Nodes : tx' = <<Poll(m)>> <=> m = k
  BY DEF Poll
<1>2. active[n] /\ n # k /\ (j = k \/ j \in polledSince[n])
  BY <1>1 DEF RecordPolls
<1>3. CASE j = k
  BY <1>2, <1>3, GapType, MasterConstants DEF Nodes
<1>4. CASE j \in polledSince[n]
  <2>1. j # n /\ Gap(j, n) >= Gap(pendingPollNode, n) /\ j \in Nodes
    BY <1>2, <1>4 DEF IInv, WaitersAhead, TypeOK
  <2>2. Gap(pendingPollNode, k) <= Gap(pendingPollNode, n)
    BY <1>2, NextActiveNearest DEF IInv, TypeOK
  <2>3. Gap(k, n) < Gap(pendingPollNode, n)
    BY <1>2, <2>2, GapShrinks DEF IInv, TypeOK
  <2>4. /\ Gap(k, n) \in Nat
        /\ Gap(pendingPollNode, n) \in Nat
        /\ Gap(j, n) \in Nat
    BY <2>1, GapIsNatural DEF IInv, TypeOK
  <2> QED
    BY <2>1, <2>3, <2>4
<1> QED
  BY <1>2, <1>3, <1>4

(* FlushEmpty() and PollGapOver() keep the invariant: both are a call of   *)
(* PollNextNode() that leaves the roster alone.                            *)
LEMMA PollNextNodeIInv ==
    ASSUME IInv, RecordPolls, NEW due \in BOOLEAN, PollNextNode(due),
           UNCHANGED <<active, inBootloader>>
    PROVE  IInv'
<1>1. TypeOK'
  <2>1. polledSince' \in [Nodes -> SUBSET Nodes]
    BY DEF RecordPolls, IInv, TypeOK
  <2> QED
    BY <2>1, PollNextNodeType DEF IInv, TypeOK
<1>2. NodesFoundExact'
  BY PollNextNodeType DEF IInv, NodesFoundExact, AnyActive
<1>3. PollingAnActiveNode'
  BY PollNextNodeType, NextActiveNearest DEF IInv, PollingAnActiveNode, TypeOK
<1>4. WaitersAhead'
  <2>1. CASE state' = "Polling"
    BY <2>1, PollNextNodeType, WaitersAfterPoll
  <2>2. CASE state' # "Polling"
    BY <2>2, PollNextNodeType, WaitersWithoutPoll
  <2> QED
    BY <2>1, <2>2
<1> QED
  BY <1>1, <1>2, <1>3, <1>4 DEF IInv

(* What the steps that poll nobody have in common.                         *)
LEMMA QuietStep ==
    ASSUME IInv, RecordPolls, pendingPollNode' = pendingPollNode,
           \/ tx' = <<>>
           \/ tx' = <<Queued>>
    PROVE  /\ tx' \in {<<>>} \cup {<<f>> : f \in Frames}
           /\ polledSince' \in [Nodes -> SUBSET Nodes]
           /\ pendingPollNode' \in 0..MaxNodes
           /\ WaitersAhead'
<1>1. tx' \in {<<>>} \cup {<<f>> : f \in Frames}
  BY DEF Frames
<1>2. \A k \in Nodes : tx' # <<Poll(k)>>
  BY DEF Queued, Poll
<1>3. polledSince' \in [Nodes -> SUBSET Nodes]
  BY DEF RecordPolls, IInv, TypeOK
<1> QED
  BY <1>1, <1>2, <1>3, WaitersWithoutPoll DEF IInv, TypeOK

(* Every step of the master preserves the invariant.                       *)
LEMMA NextIInv == IInv /\ [Next]_vars => IInv'
<1> SUFFICES ASSUME IInv, [Next]_vars PROVE IInv'
  OBVIOUS
<1> USE DEF IInv, TypeOK, MasterStates
<1>1. CASE DetectWindowOver /\ RecordPolls
  BY <1>1, QuietStep DEF DetectWindowOver, NodesFoundExact, AnyActive,
     PollingAnActiveNode
<1>2. CASE FlushQueue /\ RecordPolls
  <2>1. messagesQueued' \in 0..QueueSize
    BY <1>2, MasterConstants DEF FlushQueue
  <2> QED
    BY <1>2, <2>1, QuietStep DEF FlushQueue, NodesFoundExact, AnyActive,
       PollingAnActiveNode
<1>3. ASSUME NEW due \in BOOLEAN, FlushEmpty(due), RecordPolls
      PROVE  IInv'
  BY <1>3, PollNextNodeIInv DEF FlushEmpty
<1>4. ASSUME NEW due \in BOOLEAN, PollGapOver(due), RecordPolls
      PROVE  IInv'
  BY <1>4, PollNextNodeIInv DEF PollGapOver
<1>5. CASE PollTimeoutForgiven /\ RecordPolls
  <2>1. inBootloader' \in [Nodes -> 0..BootGrace]
    BY <1>5, MasterConstants DEF PollTimeoutForgiven, PollingAnActiveNode
  <2> QED
    BY <1>5, <2>1, QuietStep DEF PollTimeoutForgiven, NodesFoundExact,
       AnyActive, PollingAnActiveNode
<1>6. CASE PollTimeoutLost /\ RecordPolls
  BY <1>6, QuietStep DEF PollTimeoutLost, NodesFoundExact, AnyActive,
     PollingAnActiveNode
<1>7. ASSUME NEW n \in Nodes, NEW b \in BOOLEAN, ReceiveAnnounce(n, b),
             RecordPolls
      PROVE  IInv'
  <2>1. inBootloader' \in [Nodes -> 0..BootGrace]
    BY <1>7, MasterConstants DEF ReceiveAnnounce
  <2> QED
    BY <1>7, <2>1, QuietStep DEF ReceiveAnnounce, NodesFoundExact, AnyActive,
       PollingAnActiveNode
<1>8. ASSUME NEW n \in Nodes, ReceiveDone(n), RecordPolls
      PROVE  IInv'
  BY <1>8, QuietStep DEF ReceiveDone, NodesFoundExact, AnyActive,
     PollingAnActiveNode
<1>9. CASE QueueMessage /\ RecordPolls
  <2>1. messagesQueued' \in 0..QueueSize
    BY <1>9, MasterConstants DEF QueueMessage
  <2> QED
    BY <1>9, <2>1, QuietStep DEF QueueMessage, NodesFoundExact, AnyActive,
       PollingAnActiveNode
<1>10. CASE UNCHANGED vars
  BY <1>10 DEF vars, mvars, NodesFoundExact, AnyActive, PollingAnActiveNode,
     WaitersAhead, Gap
<1> QED
  BY <1>1, <1>2, <1>3, <1>4, <1>5, <1>6, <1>7, <1>8, <1>9, <1>10
     DEF Next, MasterNext, LoopStep

(* The invariant holds throughout.                                         *)
LEMMA Invariance == Spec => []IInv
BY InitIInv, NextIInv, PTL DEF Spec

-----------------------------------------------------------------------------
(* The state of the master stays within its types: roster, countdown,      *)
(* queue and cursor never leave their ranges.                              *)
THEOREM TypeCorrect == Spec => []TypeOK
BY Invariance, PTL DEF IInv

(* nodesFound never disagrees with the roster, so the search of            *)
(* PollNextNode() for the next active node always ends.                    *)
THEOREM SearchEnds == Spec => []NodesFoundExact
BY Invariance, PTL DEF IInv

(* The master only ever waits for a node that is on its roster.            *)
THEOREM PollsTheRoster == Spec => []PollingAnActiveNode
BY Invariance, PTL DEF IInv

(* Between two polls of any node, every node that stayed on the roster is  *)
(* polled: PollNextNode() bypasses a node at most once.                    *)
THEOREM BoundedBypass == Spec => NoBypass
<1> DEFINE Fair == \A n \in Nodes, k \in Nodes :
              (active[n] /\ k # n /\ tx' = <<Poll(k)>>) => k \notin polledSince[n]
<1>1. IInv /\ Next => Fair
  <2> SUFFICES ASSUME IInv, Next, NEW n \in Nodes, NEW k \in Nodes,
                      active[n], k # n, tx' = <<Poll(k)>>
               PROVE  k \notin polledSince[n]
    OBVIOUS
  <2>1. \E due \in BOOLEAN : PollNextNode(due)
    BY DEF Next, MasterNext, LoopStep, DetectWindowOver, FlushQueue, FlushEmpty,
       PollGapOver, PollTimeoutForgiven, PollTimeoutLost, ReceiveAnnounce,
       ReceiveDone, QueueMessage, Queued, Poll
  <2>2. k = NextActive(pendingPollNode) /\ AnyActive
    BY <2>1, PollStep
  <2>3. Gap(pendingPollNode, k) <= Gap(pendingPollNode, n)
    BY <2>2, NextActiveNearest DEF IInv, TypeOK
  <2>4. Gap(k, n) < Gap(pendingPollNode, n)
    BY <2>3, GapShrinks DEF IInv, TypeOK
  <2>5. Gap(k, n) \in Nat /\ Gap(pendingPollNode, n) \in Nat
    BY GapIsNatural DEF IInv, TypeOK
  <2>6. k \in polledSince[n] => Gap(k, n) >= Gap(pendingPollNode, n)
    BY DEF IInv, WaitersAhead
  <2> QED
    BY <2>4, <2>5, <2>6
<1>2. IInv /\ [Next]_vars => [Fair]_vars
  BY <1>1
<1> QED
  BY <1>2, Invariance, PTL DEF Spec, NoBypass

-----------------------------------------------------------------------------
(* On the bus the master takes no step that it may not take on its own.    *)
LEMMA BusMoves == [BusNext]_allVars => [Next]_vars
<1> SUFFICES ASSUME BusNext PROVE [Next]_vars
  BY DEF allVars, busVars, vars
<1>1. CASE MasterLoops
  BY <1>1 DEF MasterLoops, Next, MasterNext
<1>2. CASE CommandArrives
  BY <1>2 DEF CommandArrives, Next, MasterNext
<1>3. CASE MasterHears
  BY <1>3 DEF MasterHears, Next, MasterNext, vars
<1>4. CASE SlaveHears \/ LoseFrame
  BY <1>4 DEF SlaveHears, LoseFrame, vars
<1>5. CASE \E n \in Nodes :
               Publishes(n) \/ ComesUp(n) \/ PowerOff(n) \/ PowerOn(n)
  BY <1>5 DEF Publishes, ComesUp, PowerOff, PowerOn, vars
<1> QED
  BY <1>1, <1>2, <1>3, <1>4, <1>5 DEF BusNext

(* On the bus the master is the same: with real slaves on a wire that can  *)
(* lose frames it does nothing that it may not do on its own.              *)
THEOREM BusIsMaster == BusSpec => Spec
<1>1. BusInit => Init
  BY DEF BusInit, Init
<1> QED
  BY <1>1, BusMoves, PTL DEF BusSpec, Spec

(* So no slave waits for a second turn of another, and the search for the  *)
(* next one ends, whoever restarts and whatever is lost.                   *)
THEOREM BusIsFair == BusSpec => []NodesFoundExact /\ NoBypass
BY BusIsMaster, SearchEnds, BoundedBypass, PTL

-----------------------------------------------------------------------------
(* The place of a node on the roster.                                      *)

(* The frame f is in the sequence s.                                       *)
On(f, s) == \E i \in 1..Len(s) : s[i] = f

Questions == {Discover} \cup {Poll(n) : n \in Nodes}

(* The rest of an answer of node n: it ends with a Done.                   *)
Answers(s, n) ==
    /\ s # <<>> /\ s[Len(s)] = Done(n)
    /\ \A i \in 1..Len(s) : s[i] \in {Reply(n), Announce(n, TRUE), Done(n)}

(* A node that will announce its restart has the Announce in its queue.    *)
SlavesOK ==
    /\ slave \in [Nodes -> Slaves]
    /\ \A n \in Nodes :
           /\ Len(slave[n].queue) <= SlaveQueue
           /\ slave[n].face = "App" /\ slave[n].told =>
                  On("Announce", slave[n].queue)
           /\ slave[n].face = "Off" => ~slave[n].told

(* A question is alone on the wire.                                        *)
WireOK ==
    /\ wire \in Seq(WireFrames)
    /\ Len(wire) <= QueueSize + SlaveQueue + MaxNodes + 1
    /\ \A i \in 1..Len(wire) : wire[i] \in Questions => Len(wire) = 1

CountsOK == losses \in 0..MaxLosses /\ excused \subseteq Nodes

(* While the master waits for an answer the wire has nothing else.         *)
InTurn ==
    state = "Polling" =>
        \/ wire = <<>>
        \/ wire = <<Poll(pendingPollNode)>>
        \/ Answers(wire, pendingPollNode)

(* An Announce on the wire is from a node that is what it says, or is just *)
(* going to be, or is excused.                                             *)
Sincere(n) ==
    /\ On(Announce(n, FALSE), wire) =>
           slave[n].face = "App" \/ (slave[n].face = "Off" /\ n \in excused)
    /\ On(Announce(n, TRUE), wire) =>
           \/ Speaks(n)
           \/ slave[n].face = "Down" /\ slave[n].told
           \/ n \in excused

(* The polls a node may still miss on its way through an update, and the   *)
(* one it has just missed.                                                 *)
Owed(s) ==
    IF s.face = "Boot" THEN MaxMissed
    ELSE IF s.face # "Down" THEN 0
    ELSE IF s.into = "Boot" THEN 2 * MaxMissed - s.missed
    ELSE MaxMissed - s.missed

Unanswered(n) ==
    IF state = "Polling" /\ pendingPollNode = n /\ wire = <<>> THEN 1 ELSE 0

(* Gone, or restarting unannounced.                                        *)
Silent(s) == s.face = "Off" \/ (s.face = "Down" /\ ~s.told)

(* A node on the roster is excused, is about to announce its restart, or   *)
(* has as many polls forgiven as it can miss.                              *)
Kept(n) ==
    \/ n \in excused
    \/ ~active[n]
    \/ slave[n].face = "Down" /\ slave[n].told /\ On(Announce(n, TRUE), wire)
    \/ ~Silent(slave[n]) /\ inBootloader[n] >= Owed(slave[n]) + Unanswered(n)

Placed ==
    /\ SlavesOK /\ WireOK /\ CountsOK /\ InTurn
    /\ \A n \in Nodes : Sincere(n) /\ Kept(n)

BusInv == IInv /\ Placed

-----------------------------------------------------------------------------
(* Frames and sequences of them.                                           *)

(* No frame is taken for another.                                          *)
LEMMA FramesDiffer ==
    /\ \A n, m \in Nodes : /\ Poll(n) = Poll(m) => n = m
                           /\ Done(n) = Done(m) => n = m
                           /\ Poll(n) # Done(m) /\ Poll(n) # Reply(m)
                           /\ Done(n) # Reply(m)
                           /\ Done(n) \notin Questions /\ Reply(n) \notin Questions
                           /\ Poll(n) # Discover
    /\ \A n, m \in Nodes : \A b \in BOOLEAN :
           /\ Announce(n, b) \notin Questions
           /\ Announce(n, b) # Poll(m) /\ Announce(n, b) # Done(m)
           /\ Announce(n, b) # Reply(m)
           /\ \A d \in BOOLEAN : Announce(n, b) = Announce(m, d) => n = m /\ b = d
    /\ \A c \in Commands :
           /\ c \notin Questions
           /\ \A n \in Nodes : /\ c # Done(n) /\ c # Reply(n)
                               /\ \A b \in BOOLEAN : c # Announce(n, b)
<1>1. \A n, m \in Nodes : /\ Poll(n) = Poll(m) => n = m
                          /\ Done(n) = Done(m) => n = m
                          /\ Poll(n) # Done(m) /\ Poll(n) # Reply(m)
                          /\ Done(n) # Reply(m) /\ Poll(n) # Discover
                          /\ Done(n) \notin Questions /\ Reply(n) \notin Questions
  BY DEF Poll, Done, Reply, Discover, Questions
<1>2. ASSUME NEW n \in Nodes, NEW m \in Nodes, NEW b \in BOOLEAN
      PROVE  /\ Announce(n, b) \notin Questions
             /\ Announce(n, b) # Poll(m) /\ Announce(n, b) # Done(m)
             /\ Announce(n, b) # Reply(m)
             /\ \A d \in BOOLEAN : Announce(n, b) = Announce(m, d) => n = m /\ b = d
  BY DEF Poll, Done, Reply, Discover, Questions, Announce
<1>3. ASSUME NEW c \in Commands
      PROVE  /\ c \notin Questions
             /\ \A n \in Nodes : /\ c # Done(n) /\ c # Reply(n)
                                 /\ \A b \in BOOLEAN : c # Announce(n, b)
  BY BusConstants DEF Poll, Done, Reply, Discover, Questions, Announce, Commands
<1> QED
  BY <1>1, <1>2, <1>3

(* All of them are frames of the wire.                                     *)
LEMMA FramesAre ==
    /\ Discover \in WireFrames
    /\ \A n \in Nodes : /\ Poll(n) \in WireFrames /\ Done(n) \in WireFrames
                        /\ Reply(n) \in WireFrames
                        /\ \A b \in BOOLEAN : Announce(n, b) \in WireFrames
    /\ Commands \subseteq WireFrames
BY DEF WireFrames, Frames

(* What is left behind the first frame.                                    *)
LEMMA Rest ==
    ASSUME NEW S, NEW s \in Seq(S), s # <<>>
    PROVE  /\ Len(s) \in Nat \ {0} /\ Head(s) = s[1] /\ On(Head(s), s)
           /\ Tail(s) \in Seq(S) /\ Len(Tail(s)) = Len(s) - 1
           /\ \A i \in 1..Len(Tail(s)) : Tail(s)[i] = s[i + 1] /\ i + 1 \in 1..Len(s)
           /\ \A f : On(f, Tail(s)) => On(f, s)
           /\ \A f : On(f, s) /\ f # Head(s) => On(f, Tail(s))
<1>1. Len(s) \in Nat \ {0}
  BY EmptySeq
<1>2. /\ Tail(s) \in Seq(S) /\ Len(Tail(s)) = Len(s) - 1
      /\ \A i \in 1..Len(Tail(s)) : Tail(s)[i] = s[i + 1]
  BY HeadTailProperties
<1>3. Head(s) = s[1] /\ 1 \in 1..Len(s)
  BY <1>1
<1>4. \A i \in 1..Len(Tail(s)) : i + 1 \in 1..Len(s)
  BY <1>1, <1>2
<1>5. ASSUME NEW f, On(f, Tail(s)) PROVE On(f, s)
  <2>1. PICK i \in 1..Len(Tail(s)) : Tail(s)[i] = f
    BY <1>5 DEF On
  <2>2. s[i + 1] = f /\ i + 1 \in 1..Len(s)
    BY <1>2, <1>4, <2>1
  <2> QED
    BY <2>2 DEF On
<1>6. ASSUME NEW f, On(f, s), f # Head(s) PROVE On(f, Tail(s))
  <2>1. PICK i \in 1..Len(s) : s[i] = f
    BY <1>6 DEF On
  <2>2. i # 1
    BY <1>3, <1>6, <2>1
  <2> DEFINE j == i - 1
  <2>3. j \in 1..Len(Tail(s)) /\ j + 1 = i
    BY <1>1, <1>2, <2>2
  <2> HIDE DEF j
  <2>4. Tail(s)[j] = f
    BY <1>2, <2>1, <2>3
  <2> QED
    BY <2>3, <2>4 DEF On
<1>7. On(Head(s), s)
  BY <1>3 DEF On
<1> QED
  BY <1>1, <1>2, <1>3, <1>4, <1>5, <1>6, <1>7

(* Nothing is on an empty wire, one frame on that of a question.           *)
LEMMA Alone ==
    /\ \A f : ~On(f, <<>>)
    /\ \A f, g : On(f, <<g>>) => f = g
<1>1. Len(<<>>) = 0
  BY EmptySeq
<1> DEFINE e == <<>>
<1> HIDE DEF e
<1>2. Len(e) = 0
  BY <1>1 DEF e
<1>3. \A f : ~On(f, e)
  BY <1>2 DEF On
<1>4. ASSUME NEW f, NEW g, On(f, <<g>>) PROVE f = g
  BY <1>4 DEF On
<1> QED
  BY <1>3, <1>4 DEF e

-----------------------------------------------------------------------------
(* A frame is taken off the wire.                                          *)
LEMMA WireTail ==
    ASSUME WireOK, wire # <<>>, wire' = Tail(wire)
    PROVE  /\ WireOK' /\ Len(wire') < Len(wire)
           /\ Head(wire) \in Questions => wire' = <<>>
           /\ \A f : On(f, wire') => On(f, wire)
           /\ \A f : On(f, wire) /\ f # Head(wire) => On(f, wire')
<1>1. /\ Len(wire) \in Nat \ {0} /\ Head(wire) = wire[1]
      /\ wire' \in Seq(WireFrames) /\ Len(wire') = Len(wire) - 1
      /\ \A i \in 1..Len(wire') : wire'[i] = wire[i + 1] /\ i + 1 \in 1..Len(wire)
      /\ \A f : On(f, wire') => On(f, wire)
      /\ \A f : On(f, wire) /\ f # Head(wire) => On(f, wire')
  BY Rest DEF WireOK
<1>2. Len(wire') <= QueueSize + SlaveQueue + MaxNodes + 1
  BY <1>1, MasterConstants, BusConstants DEF WireOK
<1>3. \A i \in 1..Len(wire') : wire'[i] \notin Questions
  <2> SUFFICES ASSUME NEW i \in 1..Len(wire'), wire'[i] \in Questions PROVE FALSE
    OBVIOUS
  <2>1. Len(wire) = 1
    BY <1>1 DEF WireOK
  <2> QED
    BY <1>1, <2>1
<1>4. Head(wire) \in Questions => wire' = <<>>
  <2> SUFFICES ASSUME Head(wire) \in Questions PROVE wire' = <<>>
    OBVIOUS
  <2>1. Len(wire) = 1
    BY <1>1 DEF WireOK
  <2> QED
    BY <1>1, <2>1, EmptySeq
<1> QED
  BY <1>1, <1>2, <1>3, <1>4 DEF WireOK

(* An answer goes on or is over.                                           *)
LEMMA AnswerTail ==
    ASSUME NEW S, NEW s \in Seq(S), NEW n, Answers(s, n)
    PROVE  \/ Head(s) = Done(n) /\ Tail(s) = <<>>
           \/ Answers(Tail(s), n)
<1>1. /\ Len(s) \in Nat \ {0} /\ Head(s) = s[1]
      /\ Tail(s) \in Seq(S) /\ Len(Tail(s)) = Len(s) - 1
      /\ \A i \in 1..Len(Tail(s)) : Tail(s)[i] = s[i + 1] /\ i + 1 \in 1..Len(s)
  BY Rest DEF Answers
<1>2. CASE Len(s) = 1
  <2>1. Head(s) = Done(n)
    BY <1>1, <1>2 DEF Answers
  <2>2. Len(Tail(s)) = 0
    BY <1>1, <1>2
  <2>3. Tail(s) = <<>>
    BY <1>1, <2>2, EmptySeq
  <2> QED
    BY <2>1, <2>3
<1>3. CASE Len(s) # 1
  <2> DEFINE m == Len(Tail(s))
  <2>1. m \in 1..Len(Tail(s)) /\ m + 1 = Len(s)
    BY <1>1, <1>3
  <2>2. Tail(s) # <<>>
    <3>1. Len(Tail(s)) # 0
      BY <1>1, <1>3
    <3> DEFINE e == <<>>
    <3>2. Len(e) = 0
      BY EmptySeq
    <3> HIDE DEF e
    <3>3. Tail(s) # e
      BY <3>1, <3>2
    <3> QED
      BY <3>3 DEF e
  <2> HIDE DEF m
  <2>3. Tail(s)[m] = Done(n)
    BY <1>1, <2>1 DEF Answers
  <2>4. \A i \in 1..Len(Tail(s)) : Tail(s)[i] \in {Reply(n), Announce(n, TRUE), Done(n)}
    BY <1>1 DEF Answers
  <2> QED
    BY <2>2, <2>3, <2>4 DEF Answers, m
<1> QED
  BY <1>2, <1>3

(* While the master waits it hears the node it polled, until its Done.     *)
LEMMA TurnTail ==
    ASSUME BusInv, state = "Polling", wire # <<>>
    PROVE  /\ pendingPollNode \in Nodes /\ active[pendingPollNode]
           /\ \/ Head(wire) = Poll(pendingPollNode)
              \/ Head(wire) \in {Reply(pendingPollNode), Announce(pendingPollNode, TRUE),
                                 Done(pendingPollNode)}
           /\ \/ Head(wire) = Poll(pendingPollNode) /\ Tail(wire) = <<>>
              \/ Head(wire) = Done(pendingPollNode) /\ Tail(wire) = <<>>
              \/ Answers(Tail(wire), pendingPollNode)
<1>1. pendingPollNode \in Nodes /\ active[pendingPollNode]
  BY DEF BusInv, IInv, PollingAnActiveNode
<1>2. wire \in Seq(WireFrames)
  BY DEF BusInv, Placed, WireOK
<1>3. CASE wire = <<Poll(pendingPollNode)>>
  <2>1. Head(wire) = Poll(pendingPollNode) /\ Tail(wire) = <<>>
    BY <1>3
  <2> QED
    BY <1>1, <2>1
<1>4. CASE Answers(wire, pendingPollNode)
  <2>1. Head(wire) = wire[1] /\ 1 \in 1..Len(wire)
    BY <1>2, Rest
  <2>2. Head(wire) \in {Reply(pendingPollNode), Announce(pendingPollNode, TRUE),
                        Done(pendingPollNode)}
    BY <1>4, <2>1 DEF Answers
  <2> QED
    BY <1>1, <1>2, <1>4, <2>2, AnswerTail
<1> QED
  BY <1>3, <1>4 DEF BusInv, Placed, InTurn

(* A node to which nothing happens keeps its place.                        *)
LEMMA KeptOn ==
    ASSUME NEW n \in Nodes, Kept(n), slave'[n] = slave[n],
           inBootloader'[n] = inBootloader[n], active'[n] => active[n],
           inBootloader[n] \in Int, Owed(slave[n]) \in Int,
           n \in excused => n \in excused',
           On(Announce(n, TRUE), wire) => On(Announce(n, TRUE), wire') \/ n \in excused',
           Unanswered(n)' = 0 \/ Unanswered(n)' = Unanswered(n) \/ n \in excused'
    PROVE  Kept(n)'
<1>1. Unanswered(n) \in {0, 1}
  BY DEF Unanswered
<1>2. CASE n \in excused'
  BY <1>2 DEF Kept
<1>3. CASE ~active'[n]
  BY <1>3 DEF Kept
<1>4. CASE slave[n].face = "Down" /\ slave[n].told /\ On(Announce(n, TRUE), wire')
  BY <1>4 DEF Kept
<1>5. CASE /\ ~Silent(slave[n]) /\ inBootloader[n] >= Owed(slave[n]) + Unanswered(n)
           /\ n \notin excused'
  <2> DEFINE u == Unanswered(n)
             v == Unanswered(n)'
             o == Owed(slave[n])
  <2>1. v = 0 \/ v = u
    BY <1>5
  <2>2. u \in {0, 1} /\ o \in Int /\ inBootloader[n] >= o + u
    BY <1>1, <1>5
  <2> HIDE DEF u, v, o
  <2>3. inBootloader[n] >= o + v
    BY <2>1, <2>2
  <2> QED
    BY <1>5, <2>3 DEF Kept, o, v
<1> QED
  BY <1>2, <1>3, <1>4, <1>5 DEF Kept

(* Nobody owes more polls than are forgiven to one that announces itself.  *)
LEMMA OwedIs ==
    ASSUME NEW s \in Slaves
    PROVE  Owed(s) \in Int /\ 0 <= Owed(s) /\ Owed(s) <= BootGrace
BY BusConstants, MasterConstants DEF Owed, Slaves

-----------------------------------------------------------------------------
(* The record of a slave.                                                  *)

(* QueueMessage() of a slave.                                              *)
LEMMA QueuedIs ==
    ASSUME NEW s \in Slaves, Len(s.queue) <= SlaveQueue,
           NEW m \in {"Message", "Announce"}
    PROVE  LET q == Queue(s, m)
           IN  /\ q \in Slaves /\ Len(q.queue) <= SlaveQueue
               /\ q.face = s.face /\ q.told = s.told
               /\ \A f : On(f, s.queue) => On(f, q.queue)
               /\ ~Full(s) => On(m, q.queue)
<1> DEFINE M == {"Message", "Announce"}
           l == Append(s.queue, m)
           q == [s EXCEPT !.queue = l]
<1>1. CASE Full(s)
  BY <1>1 DEF Queue
<1>2. CASE ~Full(s)
  <2>1. s.queue \in Seq(M) /\ Len(s.queue) \in Nat
    BY DEF Slaves
  <2>2. /\ l \in Seq(M) /\ Len(l) = Len(s.queue) + 1
        /\ \A i \in 1..Len(s.queue) : l[i] = s.queue[i]
        /\ l[Len(s.queue) + 1] = m
    BY <2>1, AppendProperties
  <2> HIDE DEF l
  <2>3. /\ q \in Slaves /\ q.queue = l /\ q.face = s.face /\ q.told = s.told
    BY <2>2 DEF Slaves
  <2>4. Len(l) <= SlaveQueue
    BY <1>2, <2>1, <2>2, BusConstants DEF Full
  <2>5. On(m, l)
    <3>1. Len(s.queue) + 1 \in 1..Len(l)
      BY <2>1, <2>2
    <3> QED
      BY <2>2, <3>1 DEF On
  <2>6. \A f : On(f, s.queue) => On(f, l)
    <3>1. \A i \in 1..Len(s.queue) : i \in 1..Len(l)
      BY <2>1, <2>2
    <3> QED
      BY <2>2, <3>1 DEF On
  <2>7. Queue(s, m) = q
    BY <1>2 DEF Queue, l
  <2> HIDE DEF q
  <2> QED
    BY <2>3, <2>4, <2>5, <2>6, <2>7
<1> QED
  BY <1>1, <1>2

(* One with a reset pending, and one that has told of it.                  *)
LEMMA ResetEdited ==
    ASSUME NEW s \in Slaves, NEW to \in {"App", "Boot"}, NEW e, e = [s EXCEPT !.reset = to]
    PROVE  /\ e \in Slaves /\ e.queue = s.queue /\ e.face = s.face
           /\ e.told = s.told
BY DEF Slaves

(* One that missed a poll.                                                 *)
LEMMA MissedEdited ==
    ASSUME NEW s \in Slaves, NEW k \in 0..MaxMissed
    PROVE  LET e == [s EXCEPT !.missed = k]
           IN  /\ e \in Slaves /\ e.queue = s.queue /\ e.face = s.face
               /\ e.told = s.told /\ e.into = s.into /\ e.missed = k
BY DEF Slaves

(* One that runs, is gone, or goes down.                                   *)
LEMMA FacesAre ==
    /\ \A face \in {"App", "Boot", "Off"} :
           /\ Running(face) \in Slaves /\ Running(face).face = face
           /\ ~Running(face).told /\ Len(Running(face).queue) = 0
    /\ \A into \in {"App", "Boot"} : \A told \in BOOLEAN :
           /\ Down(into, told) \in Slaves /\ Down(into, told).face = "Down"
           /\ Down(into, told).told = told /\ Down(into, told).into = into
           /\ Down(into, told).missed = 0 /\ Len(Down(into, told).queue) = 0
<1> DEFINE e == <<>>
<1>1. e \in Seq({"Message", "Announce"}) /\ Len(e) = 0
  BY EmptySeq
<1>2. 0 \in 0..MaxMissed
  BY BusConstants
<1>3. \A f \in {"App", "Boot", "Down", "Off"}, into \in {"App", "Boot"}, told \in BOOLEAN :
          /\ Face(f, into, told) \in Slaves /\ Face(f, into, told).face = f
          /\ Face(f, into, told).into = into /\ Face(f, into, told).told = told
          /\ Face(f, into, told).missed = 0 /\ Face(f, into, told).queue = e
  <2> HIDE DEF e
  <2>1. \A f \in {"App", "Boot", "Down", "Off"}, into \in {"App", "Boot"}, told \in BOOLEAN :
            Face(f, into, told) = [face |-> f, queue |-> e, reset |-> "No",
                                   into |-> into, told |-> told, missed |-> 0]
    BY DEF Face, e
  <2> QED
    <3> SUFFICES ASSUME NEW f \in {"App", "Boot", "Down", "Off"},
                        NEW into \in {"App", "Boot"}, NEW told \in BOOLEAN
                 PROVE  /\ Face(f, into, told) \in Slaves /\ Face(f, into, told).face = f
                        /\ Face(f, into, told).into = into
                        /\ Face(f, into, told).told = told
                        /\ Face(f, into, told).missed = 0
                        /\ Face(f, into, told).queue = e
      OBVIOUS
    <3> DEFINE r == [face |-> f, queue |-> e, reset |-> "No", into |-> into,
                     told |-> told, missed |-> 0]
    <3>1. Face(f, into, told) = r
      BY <2>1
    <3>2. /\ r \in Slaves /\ r.face = f /\ r.into = into /\ r.told = told
          /\ r.missed = 0 /\ r.queue = e
      BY <1>1, <1>2 DEF Slaves
    <3> HIDE DEF r
    <3> QED
      BY <3>1, <3>2
<1> HIDE DEF e
<1>4. \A face \in {"App", "Boot", "Off"} : Running(face) = Face(face, "App", FALSE)
  BY DEF Running
<1>5. \A into, told : Down(into, told) = Face("Down", into, told)
  BY DEF Down
<1>6. Len(e) = 0
  BY <1>1
<1>7. \A face \in {"App", "Boot", "Off"} :
          /\ Running(face) \in Slaves /\ Running(face).face = face
          /\ ~Running(face).told /\ Len(Running(face).queue) = 0
  <2> SUFFICES ASSUME NEW face \in {"App", "Boot", "Off"}
               PROVE  /\ Running(face) \in Slaves /\ Running(face).face = face
                      /\ ~Running(face).told /\ Len(Running(face).queue) = 0
    OBVIOUS
  <2> DEFINE r == Face(face, "App", FALSE)
  <2>1. Running(face) = r
    BY <1>4
  <2>2. r \in Slaves /\ r.face = face /\ r.told = FALSE /\ r.queue = e
    BY <1>3
  <2> HIDE DEF r
  <2> QED
    BY <1>6, <2>1, <2>2
<1>8. \A into \in {"App", "Boot"} : \A told \in BOOLEAN :
          /\ Down(into, told) \in Slaves /\ Down(into, told).face = "Down"
          /\ Down(into, told).told = told /\ Down(into, told).into = into
          /\ Down(into, told).missed = 0 /\ Len(Down(into, told).queue) = 0
  BY <1>3, <1>5, <1>6
<1> QED
  BY <1>7, <1>8

(* A running application stays one, whatever it is ordered, and has told   *)
(* of a restart only if the Announce is queued.                            *)
LEMMA AppHearsIs ==
    ASSUME NEW s \in Slaves, s.face = "App", Len(s.queue) <= SlaveQueue,
           s.told => On("Announce", s.queue), NEW op
    PROVE  LET h == AppHears(s, op)
           IN  /\ h \in Slaves /\ h.face = "App" /\ Len(h.queue) <= SlaveQueue
               /\ h.told => On("Announce", h.queue)
<1> DEFINE q == Queue(s, "Message")
           a == Queue(q, "Announce")
           h == AppHears(s, op)
           told == a.told \/ ~Full(q)
<1>1. /\ q \in Slaves /\ Len(q.queue) <= SlaveQueue /\ q.face = "App"
      /\ q.told = s.told /\ \A f : On(f, s.queue) => On(f, q.queue)
  BY QueuedIs
<1> HIDE DEF q
<1>2. /\ a \in Slaves /\ Len(a.queue) <= SlaveQueue /\ a.face = "App"
      /\ a.told = s.told /\ \A f : On(f, q.queue) => On(f, a.queue)
      /\ ~Full(q) => On("Announce", a.queue)
  BY <1>1, QueuedIs
<1>3. CASE op = "EnterBootloader"
  <2>1. h = EnterBootloader(s)
    BY <1>3, Zenon DEF AppHears
  <2>2. h = [a EXCEPT !.reset = "Boot", !.told = told]
    BY <2>1 DEF EnterBootloader, q
  <2>3. told \in BOOLEAN
    BY <1>2 DEF Slaves
  <2>4. told => On("Announce", a.queue)
    BY <1>1, <1>2
  <2> HIDE DEF told, h, a
  <2>5. h \in Slaves /\ h.queue = a.queue /\ h.face = a.face /\ h.told = told
    BY <1>2, <2>2, <2>3 DEF Slaves
  <2> QED
    BY <1>2, <2>4, <2>5 DEF h
<1>4. CASE op \in {"ResetApp", "ResetBoot"}
  <2> DEFINE to == IF op = "ResetApp" THEN "App" ELSE "Boot"
  <2>1. h = [q EXCEPT !.reset = to]
    <3>1. CASE op = "ResetApp"
      <4>1. h = [Queue(s, "Message") EXCEPT !.reset = "App"]
        BY <3>1, Zenon DEF AppHears
      <4> QED
        BY <3>1, <4>1 DEF q
    <3>2. CASE op = "ResetBoot"
      <4>1. h = [Queue(s, "Message") EXCEPT !.reset = "Boot"]
        BY <3>2, Zenon DEF AppHears
      <4> QED
        BY <3>2, <4>1 DEF q
    <3> QED
      BY <1>4, <3>1, <3>2
  <2>2. to \in {"App", "Boot"}
    OBVIOUS
  <2> HIDE DEF to, h
  <2>3. h \in Slaves /\ h.queue = q.queue /\ h.face = q.face /\ h.told = q.told
    BY <1>1, <2>1, <2>2, ResetEdited
  <2> QED
    BY <1>1, <2>3 DEF h
<1>5. CASE op \notin {"EnterBootloader", "ResetApp", "ResetBoot"}
  <2>1. op # "EnterBootloader" /\ op # "ResetApp" /\ op # "ResetBoot"
    BY <1>5
  <2>2. h = Queue(s, "Message")
    BY <2>1, Zenon DEF AppHears
  <2> QED
    BY <1>1, <2>2 DEF q
<1> QED
  BY <1>3, <1>4, <1>5

(* What a command does to the slave it is for.                             *)
LEMMA CommandIs ==
    ASSUME NEW c, HearCommand(c)
    PROVE  LET s == slave[c.node]
           IN  \E heard :
                   /\ slave' = [slave EXCEPT ![c.node] = heard]
                   /\ \/ s.face = "App" /\ heard = AppHears(s, c.op)
                      \/ s.face = "Boot" /\ heard = Down("App", TRUE)
                      \/ heard = s
<1> DEFINE s == slave[c.node]
           H == CASE s.face = "App" -> {AppHears(s, c.op)}
                  [] s.face = "Boot" /\ c.op = "Activate" -> {s, Down("App", TRUE)}
                  [] OTHER -> {s}
<1>1. PICK heard \in H : slave' = [slave EXCEPT ![c.node] = heard]
  BY DEF HearCommand
<1>2. CASE s.face = "App"
  <2>1. ~(s.face = "Boot" /\ c.op = "Activate")
    BY <1>2
  <2>2. H = {AppHears(s, c.op)}
    BY <1>2, <2>1, Zenon
  <2> HIDE DEF H
  <2> QED
    BY <1>1, <1>2, <2>2
<1>3. CASE s.face = "Boot" /\ c.op = "Activate"
  <2>1. s.face # "App"
    BY <1>3
  <2>2. H = {s, Down("App", TRUE)}
    BY <1>3, <2>1, Zenon
  <2> HIDE DEF H
  <2> QED
    BY <1>1, <1>3, <2>2
<1>4. CASE s.face # "App" /\ ~(s.face = "Boot" /\ c.op = "Activate")
  <2>1. H = {s}
    BY <1>4, Zenon
  <2> HIDE DEF H
  <2> QED
    BY <1>1, <2>1
<1> QED
  BY <1>2, <1>3, <1>4

-----------------------------------------------------------------------------
(* Induction by hand: what holds of 0 and of every next one.               *)
LEMMA UpTo ==
    ASSUME NEW L \in Nat, NEW T, 0 \in T,
           \A k \in 1..L : k - 1 \in T => k \in T
    PROVE  0..L \subseteq T
<1> DEFINE Left == {k \in 0..L : k \notin T}
<1>1. SUFFICES ASSUME Left # {} PROVE FALSE
  OBVIOUS
<1>2. Left \subseteq Nat
  OBVIOUS
<1>3. PICK x \in Left : \A y \in Left : x <= y
  <2> HIDE DEF Left
  <2> QED
    BY <1>1, <1>2, LeastNatural
<1>4. x \in 1..L /\ x - 1 \in 0..L /\ ~(x <= x - 1)
  BY <1>3
<1>5. x - 1 \in T
  BY <1>3, <1>4
<1> QED
  BY <1>3, <1>4, <1>5

(* The k-th step of the way g leads by F, from s0.                         *)
Leads(g, L, s0, F) == \A k \in 0..L : g[k] = IF k = 0 THEN s0 ELSE F[k][g[k - 1]]

(* There is a way of L steps of F from s0, and it stays in S.              *)
LEMMA Ways ==
    ASSUME NEW L \in Nat, NEW S, NEW s0 \in S, NEW F \in [1..L -> [S -> S]]
    PROVE  \E g \in [0..L -> S] : Leads(g, L, s0, F)
<1> DEFINE Way(g, l) == \A k \in 0..l : g[k] = IF k = 0 THEN s0 ELSE F[k][g[k - 1]]
           T == {l \in 0..L : \E g \in [0..l -> S] : Way(g, l)}
<1>1. 0 \in T
  <2> DEFINE h == [k \in 0..0 |-> s0]
  <2>1. h \in [0..0 -> S] /\ Way(h, 0)
    OBVIOUS
  <2>2. \E g \in [0..0 -> S] : Way(g, 0)
    <3> HIDE DEF h, Way
    <3> QED
      BY <2>1
  <2> QED
    BY <2>2
<1>2. ASSUME NEW l \in 1..L, l - 1 \in T PROVE l \in T
  <2>1. PICK g \in [0..(l - 1) -> S] : Way(g, l - 1)
    BY <1>2
  <2> DEFINE h == [k \in 0..l |-> IF k = l THEN F[l][g[l - 1]] ELSE g[k]]
  <2>2. g[l - 1] \in S /\ F[l] \in [S -> S] /\ l \in 0..L
    BY <2>1
  <2>3. h \in [0..l -> S]
    BY <2>1, <2>2
  <2>4. Way(h, l)
    <3> SUFFICES ASSUME NEW k \in 0..l
                 PROVE  h[k] = IF k = 0 THEN s0 ELSE F[k][h[k - 1]]
      OBVIOUS
    <3>1. CASE k = l
      BY <3>1
    <3>2. CASE k # l
      <4>1. k \in 0..(l - 1) /\ (k # 0 => k - 1 \in 0..l /\ k - 1 # l)
        BY <3>2
      <4> QED
        BY <2>1, <3>2, <4>1
    <3> QED
      BY <3>1, <3>2
  <2> HIDE DEF h, Way
  <2> QED
    BY <2>2, <2>3, <2>4
<1>3. 0..L \subseteq T
  <2> HIDE DEF T
  <2> QED
    BY <1>1, <1>2, UpTo
<1>4. PICK g \in [0..L -> S] : Way(g, L)
  BY <1>3
<1>5. Leads(g, L, s0, F)
  BY <1>4 DEF Leads
<1> QED
  BY <1>5

(* The answers to a Discover: each from a node that is what it says.       *)
LEMMA AnnouncementsAre ==
    /\ Announcements \in Seq({Announce(k, slave[k].face = "Boot") :
                                  k \in {j \in Nodes : Speaks(j)}})
    /\ Len(Announcements) \in Nat /\ Len(Announcements) <= MaxNodes
<1> DEFINE B == {j \in Nodes : Speaks(j)}
           a == [k \in Nodes |-> Announce(k, slave[k].face = "Boot")]
           A == {Announce(k, slave[k].face = "Boot") : k \in B}
           Ann(g) == [k \in 0..MaxNodes |->
                          IF k = 0 THEN <<>>
                          ELSE IF Speaks(k)
                               THEN Append(g[k - 1], Announce(k, slave[k].face = "Boot"))
                               ELSE g[k - 1]]
           c == CHOOSE g : g = Ann(g)
           Coll(g) == [k \in 0..MaxNodes |->
                          IF k = 0 THEN <<>>
                          ELSE IF k \in B THEN Append(g[k - 1], a[k])
                                          ELSE g[k - 1]]
<1>01. MaxNodes \in Nat /\ Nodes = 1..MaxNodes
  BY MasterConstants DEF Nodes
<1>02. \A k \in 1..MaxNodes : k \in B => a[k] \in A
  BY <1>01
<1>03. \A g : Ann(g) = Coll(g)
  <2> SUFFICES ASSUME NEW g PROVE Ann(g) = Coll(g)
    OBVIOUS
  <2>1. \A k \in 1..MaxNodes :
            /\ k \in B <=> Speaks(k)
            /\ k \in B => a[k] = Announce(k, slave[k].face = "Boot")
    BY <1>01
  <2>2. \A k \in 0..MaxNodes : k # 0 => k \in 1..MaxNodes
    BY <1>01
  <2> HIDE DEF B, a
  <2> QED
    BY <2>1, <2>2
<1>04. Announcements = c[MaxNodes]
  BY DEF Announcements
<1>05. MaxNodes \in Nat
  BY <1>01
<1> USE <1>05
<1> HIDE DEF A, B, a, c, Ann
<1> DEFINE S == Seq(A)
           e == <<>>
           F == [k \in 1..MaxNodes |-> [s \in S |-> IF k \in B THEN Append(s, a[k]) ELSE s]]
           Step(g) == [k \in 0..MaxNodes |-> IF k = 0 THEN e
                                      ELSE IF k \in B THEN Append(g[k - 1], a[k])
                                                      ELSE g[k - 1]]
<1>1. e \in S /\ Len(e) = 0
  BY EmptySeq
<1>2. \A k \in 1..MaxNodes : k \in B => \A s \in S :
          Append(s, a[k]) \in S /\ Len(Append(s, a[k])) = Len(s) + 1
  BY <1>02, AppendProperties
<1>3. \A s \in S : Len(s) \in Nat
  BY LenProperties
<1> HIDE DEF e, S
<1>4. F \in [1..MaxNodes -> [S -> S]]
  BY <1>2
<1>5. PICK w \in [0..MaxNodes -> S] : Leads(w, MaxNodes, e, F)
  <2> HIDE DEF F
  <2> QED
    BY ONLY <1>01, <1>1, <1>4, Ways
<1>6. \A k \in 0..MaxNodes : w[k] = Step(w)[k]
  <2> SUFFICES ASSUME NEW k \in 0..MaxNodes PROVE w[k] = Step(w)[k]
    OBVIOUS
  <2> w[k] = IF k = 0 THEN e ELSE F[k][w[k - 1]]
    BY <1>5 DEF Leads
  <2>1. CASE k = 0
    BY <2>1
  <2>2. CASE k # 0
    <3>1. k \in 1..MaxNodes /\ k - 1 \in 0..MaxNodes
      BY <2>2
    <3>2. w[k - 1] \in S
      BY <1>5, <3>1
    <3>3. w[k] = F[k][w[k - 1]]
      BY <2>2
    <3>4. F[k][w[k - 1]] = IF k \in B THEN Append(w[k - 1], a[k]) ELSE w[k - 1]
      BY <3>1, <3>2
    <3>5. Step(w)[k] = IF k \in B THEN Append(w[k - 1], a[k]) ELSE w[k - 1]
      BY <2>2
    <3> HIDE DEF F, Step
    <3> QED
      BY <3>3, <3>4, <3>5
  <2> QED
    BY <2>1, <2>2
<1>7. w = Step(w)
  <2>1. w = [k \in 0..MaxNodes |-> w[k]]
    BY <1>5
  <2>2. Step(w) = [k \in 0..MaxNodes |-> Step(w)[k]]
    OBVIOUS
  <2> HIDE DEF Step
  <2> QED
    BY <1>6, <2>1, <2>2
<1>8. ASSUME NEW g, g = Step(g)
      PROVE  g[MaxNodes] \in S /\ Len(g[MaxNodes]) \in Nat /\ Len(g[MaxNodes]) <= MaxNodes
  <2> DEFINE T == {k \in 0..MaxNodes : g[k] \in S /\ Len(g[k]) <= k}
  <2>1. g[0] = e
    BY <1>8
  <2>2. \A k \in 1..MaxNodes : g[k] = IF k \in B THEN Append(g[k - 1], a[k]) ELSE g[k - 1]
    <3> SUFFICES ASSUME NEW k \in 1..MaxNodes
                 PROVE  g[k] = IF k \in B THEN Append(g[k - 1], a[k]) ELSE g[k - 1]
      OBVIOUS
    <3>1. g[k] = Step(g)[k]
      BY <1>8
    <3>2. k \in 0..MaxNodes /\ k # 0
      OBVIOUS
    <3> QED
      BY <3>1, <3>2
  <2>3. 0 \in T
    BY <1>1, <2>1
  <2>4. ASSUME NEW k \in 1..MaxNodes, k - 1 \in T PROVE k \in T
    <3> DEFINE s == g[k - 1]
    <3>1. s \in S /\ Len(s) <= k - 1 /\ Len(s) \in Nat
      BY <1>3, <2>4
    <3>2. g[k] = IF k \in B THEN Append(s, a[k]) ELSE s
      BY <2>2
    <3> HIDE DEF s
    <3>3. CASE k \in B
      <4> DEFINE x == Append(s, a[k])
      <4>1. x \in S /\ Len(x) = Len(s) + 1
        BY <1>2, <3>1, <3>3
      <4>2. g[k] = x /\ k \in 0..MaxNodes
        BY <3>2, <3>3
      <4> HIDE DEF x
      <4> QED
        BY <3>1, <4>1, <4>2
    <3>4. CASE k \notin B
      BY <3>1, <3>2, <3>4
    <3> QED
      BY <3>3, <3>4
  <2>5. 0..MaxNodes \subseteq T
    <3> HIDE DEF T
    <3> QED
      BY <2>3, <2>4, UpTo
  <2> QED
    BY <1>3, <2>5
<1>9. \E g : g = Step(g)
  <2> HIDE DEF Step
  <2> QED
    BY <1>7
<1>10. \A g : Step(g) = Coll(g)
  BY DEF e
<1> HIDE DEF Step, Coll
<1>11. c = Ann(c)
  <2>1. \E g : g = Ann(g)
    BY <1>03, <1>9, <1>10
  <2> QED
    BY <2>1 DEF c
<1>12. c[MaxNodes] \in S /\ Len(c[MaxNodes]) \in Nat /\ Len(c[MaxNodes]) <= MaxNodes
  BY <1>03, <1>8, <1>10, <1>11
<1> QED
  BY <1>04, <1>12 DEF S, A, B

-----------------------------------------------------------------------------
(* The invariant, step by step.                                            *)

(* What every slave and its countdown are.                                 *)
LEMMA Ranges ==
    ASSUME BusInv
    PROVE  /\ slave \in [Nodes -> Slaves]
           /\ wire \in Seq(WireFrames) /\ Len(wire) \in Nat /\ (wire = <<>> <=> Len(wire) = 0)
           /\ \A n \in Nodes :
                  /\ slave[n] \in Slaves
                  /\ inBootloader[n] \in 0..BootGrace
                  /\ inBootloader[n] \in Int
                  /\ Owed(slave[n]) \in Int
                  /\ 0 <= Owed(slave[n]) /\ Owed(slave[n]) <= BootGrace
                  /\ Sincere(n) /\ Kept(n)
<1>1. slave \in [Nodes -> Slaves] /\ wire \in Seq(WireFrames)
  BY DEF BusInv, Placed, SlavesOK, WireOK
<1>2. \A n \in Nodes : slave[n] \in Slaves
  BY <1>1
<1>3. \A n \in Nodes : inBootloader[n] \in 0..BootGrace
  BY DEF BusInv, IInv, TypeOK
<1>4. \A n \in Nodes : inBootloader[n] \in Int
  BY <1>3, MasterConstants
<1>5. \A n \in Nodes : /\ Owed(slave[n]) \in Int
                       /\ 0 <= Owed(slave[n]) /\ Owed(slave[n]) <= BootGrace
  BY <1>2, OwedIs
<1>6. \A n \in Nodes : Sincere(n) /\ Kept(n)
  BY DEF BusInv, Placed
<1>7. Len(wire) \in Nat /\ (wire = <<>> <=> Len(wire) = 0)
  BY <1>1, EmptySeq
<1> QED
  BY <1>1, <1>2, <1>3, <1>4, <1>5, <1>6, <1>7

(* One slave changes.                                                      *)
LEMMA SlaveSet ==
    ASSUME SlavesOK, NEW n \in Nodes, NEW v \in Slaves, Len(v.queue) <= SlaveQueue,
           v.face = "App" /\ v.told => On("Announce", v.queue),
           v.face = "Off" => ~v.told,
           slave' = [slave EXCEPT ![n] = v]
    PROVE  /\ SlavesOK' /\ slave'[n] = v
           /\ \A m \in Nodes : m # n => slave'[m] = slave[m]
<1>1. slave \in [Nodes -> Slaves]
  BY DEF SlavesOK
<1>2. slave' \in [Nodes -> Slaves] /\ slave'[n] = v
  BY <1>1
<1>3. \A m \in Nodes : m # n => slave'[m] = slave[m]
  BY <1>1
<1>4. ASSUME NEW m \in Nodes
      PROVE  /\ Len(slave'[m].queue) <= SlaveQueue
             /\ slave'[m].face = "App" /\ slave'[m].told => On("Announce", slave'[m].queue)
             /\ slave'[m].face = "Off" => ~slave'[m].told
  <2>1. CASE m = n
    BY <1>2, <2>1
  <2>2. CASE m # n
    BY <1>3, <2>2 DEF SlavesOK
  <2> QED
    BY <2>1, <2>2
<1>5. SlavesOK'
  <2>1. \A m \in Nodes :
            /\ Len(slave'[m].queue) <= SlaveQueue
            /\ slave'[m].face = "App" /\ slave'[m].told =>
                   On("Announce", slave'[m].queue)
            /\ slave'[m].face = "Off" => ~slave'[m].told
    BY <1>4
  <2> QED
    BY <1>2, <2>1 DEF SlavesOK, On
<1> QED
  BY <1>2, <1>3, <1>5

(* A question is the only frame on the wire.                               *)
LEMMA AQuestion ==
    ASSUME BusInv, wire # <<>>, Head(wire) \in Questions
    PROVE  /\ Tail(wire) = <<>>
           /\ \A n \in Nodes, b \in BOOLEAN : ~On(Announce(n, b), wire)
           /\ \A n \in Nodes : Unanswered(n) = 0
           /\ state = "Polling" => pendingPollNode \in Nodes /\ Head(wire) = Poll(pendingPollNode)
<1>1. /\ Tail(wire) \in Seq(WireFrames) /\ Len(Tail(wire)) = Len(wire) - 1
      /\ Head(wire) = wire[1] /\ Len(wire) \in Nat \ {0}
      /\ \A f : On(f, wire) /\ f # Head(wire) => On(f, Tail(wire))
  BY Ranges, Rest
<1>2. Len(wire) = 1
  BY <1>1 DEF BusInv, Placed, WireOK
<1>3. Tail(wire) = <<>>
  BY <1>1, <1>2, EmptySeq
<1>4. \A n \in Nodes, b \in BOOLEAN : ~On(Announce(n, b), wire)
  <2> SUFFICES ASSUME NEW n \in Nodes, NEW b \in BOOLEAN, On(Announce(n, b), wire)
               PROVE  FALSE
    OBVIOUS
  <2>1. Announce(n, b) # Head(wire)
    BY FramesDiffer
  <2>2. On(Announce(n, b), <<>>)
    BY <1>1, <1>3, <2>1
  <2> QED
    BY <2>2, Alone
<1>5. \A n \in Nodes : Unanswered(n) = 0
  BY DEF Unanswered
<1>6. state = "Polling" => pendingPollNode \in Nodes /\ Head(wire) = Poll(pendingPollNode)
  <2> SUFFICES ASSUME state = "Polling"
               PROVE  pendingPollNode \in Nodes /\ Head(wire) = Poll(pendingPollNode)
    OBVIOUS
  <2> DEFINE p == pendingPollNode
  <2>1. /\ p \in Nodes
        /\ Head(wire) = Poll(p) \/ Head(wire) \in {Reply(p), Announce(p, TRUE), Done(p)}
    BY TurnTail
  <2> HIDE DEF p
  <2>2. Reply(p) \notin Questions /\ Announce(p, TRUE) \notin Questions
        /\ Done(p) \notin Questions
    BY <2>1, FramesDiffer
  <2>3. p \in Nodes /\ Head(wire) = Poll(p)
    BY <2>1, <2>2
  <2> QED
    BY <2>3 DEF p
<1> QED
  BY <1>3, <1>4, <1>5, <1>6

(* What a pass of the master's loop writes, and what it does to the roster. *)
LEMMA LoopWrites ==
    ASSUME BusInv, LoopStep
    PROVE  \/ /\ tx' = <<Queued>> /\ messagesQueued > 0 /\ state' # "Polling"
              /\ UNCHANGED <<active, inBootloader>>
           \/ /\ tx' \in {<<>>, <<Discover>>} /\ state' # "Polling"
              /\ UNCHANGED <<active, inBootloader>>
           \/ /\ tx' = <<Poll(pendingPollNode')>> /\ pendingPollNode' \in Nodes
              /\ UNCHANGED <<active, inBootloader>>
           \/ /\ tx' = <<>> /\ state = "Polling" /\ state' # "Polling"
              /\ pendingPollNode \in Nodes
              /\ inBootloader[pendingPollNode] > 0
              /\ inBootloader' = [inBootloader EXCEPT ![pendingPollNode] = @ - 1]
              /\ UNCHANGED active
           \/ /\ tx' = <<>> /\ state = "Polling" /\ state' # "Polling"
              /\ pendingPollNode \in Nodes /\ active[pendingPollNode]
              /\ inBootloader[pendingPollNode] = 0
              /\ active' = [active EXCEPT ![pendingPollNode] = FALSE]
              /\ UNCHANGED inBootloader
<1>1. state = "Polling" => pendingPollNode \in Nodes /\ active[pendingPollNode]
  BY DEF BusInv, IInv, PollingAnActiveNode
<1>2. ASSUME NEW due \in BOOLEAN, PollNextNode(due)
      PROVE  \/ tx' \in {<<>>, <<Discover>>} /\ state' # "Polling"
             \/ tx' = <<Poll(pendingPollNode')>> /\ pendingPollNode' \in Nodes
  <2>1. CASE due
    BY <1>2, <2>1 DEF PollNextNode, DetectNodes
  <2>2. CASE ~due /\ nodesFound
    <3>1. AnyActive /\ pendingPollNode \in 0..MaxNodes
      BY <2>2 DEF BusInv, IInv, NodesFoundExact, TypeOK
    <3>2. NextActive(pendingPollNode) \in Nodes
      BY <3>1, NextActiveNearest
    <3> QED
      BY <1>2, <2>2, <3>2 DEF PollNextNode
  <2>3. CASE ~due /\ ~nodesFound
    BY <1>2, <2>3 DEF PollNextNode
  <2> QED
    BY <2>1, <2>2, <2>3
<1>3. CASE DetectWindowOver
  BY <1>3 DEF DetectWindowOver
<1>4. CASE FlushQueue
  BY <1>4 DEF FlushQueue
<1>5. CASE \E due \in BOOLEAN : FlushEmpty(due)
  BY <1>2, <1>5 DEF FlushEmpty
<1>6. CASE \E due \in BOOLEAN : PollGapOver(due)
  BY <1>2, <1>6 DEF PollGapOver
<1>7. CASE PollTimeoutForgiven
  BY <1>1, <1>7 DEF PollTimeoutForgiven
<1>8. CASE PollTimeoutLost
  BY <1>1, <1>8 DEF PollTimeoutLost
<1> QED
  BY <1>3, <1>4, <1>5, <1>6, <1>7, <1>8 DEF LoopStep

(* What the master writes are questions, one at a time, or commands.       *)
LEMMA WrittenIs ==
    ASSUME BusInv, MasterLoops
    PROVE  /\ WireOK'
           /\ \A n \in Nodes, b \in BOOLEAN : ~On(Announce(n, b), wire')
           /\ state' = "Polling" =>
                  wire' = <<Poll(pendingPollNode')>> /\ pendingPollNode' \in Nodes
<1>1. /\ LoopStep
      /\ IF tx' = <<Queued>> THEN wire' \in [1..messagesQueued -> Commands]
         ELSE wire' = tx'
  BY DEF MasterLoops
<1>2. Queued # Discover /\ \A n \in Nodes : Queued # Poll(n)
  BY DEF Queued, Discover, Poll
<1>3. QueueSize \in Nat \ {0} /\ SlaveQueue \in Nat \ {0} /\ MaxNodes \in Nat \ {0}
  BY MasterConstants, BusConstants
<1>4. CASE tx' = <<Queued>> /\ messagesQueued > 0 /\ state' # "Polling"
  <2>1. messagesQueued \in Nat /\ messagesQueued <= QueueSize
    BY <1>3 DEF BusInv, IInv, TypeOK
  <2>2. wire' \in [1..messagesQueued -> Commands]
    BY <1>1, <1>4
  <2>3. wire' \in Seq(Commands)
    BY <2>1, <2>2, SeqDef
  <2>4. Len(wire') = messagesQueued
    BY <2>1, <2>2, <2>3, LenProperties
  <2>5. \A i \in 1..Len(wire') : wire'[i] \in Commands
    BY <2>2, <2>4
  <2>6. wire' \in Seq(WireFrames)
    BY <2>3, FramesAre, SeqMonotonic
  <2>7. \A i \in 1..Len(wire') : wire'[i] \notin Questions
    BY <2>5, FramesDiffer
  <2>8. Len(wire') <= QueueSize + SlaveQueue + MaxNodes + 1
    BY <1>3, <2>1, <2>4
  <2>9. \A n \in Nodes, b \in BOOLEAN : ~On(Announce(n, b), wire')
    BY <2>5, FramesDiffer DEF On
  <2> QED
    BY <1>4, <2>6, <2>7, <2>8, <2>9 DEF WireOK
<1>5. ASSUME NEW q \in Questions, wire' = <<q>>
      PROVE  /\ WireOK' /\ \A n \in Nodes, b \in BOOLEAN : ~On(Announce(n, b), wire')
  <2>1. q \in WireFrames
    BY FramesAre DEF Questions
  <2>2. wire' \in Seq(WireFrames) /\ Len(wire') = 1
    BY <1>5, <2>1
  <2>3. \A n \in Nodes, b \in BOOLEAN : ~On(Announce(n, b), wire')
    <3> SUFFICES ASSUME NEW n \in Nodes, NEW b \in BOOLEAN, On(Announce(n, b), <<q>>)
                 PROVE  FALSE
      BY <1>5
    <3>1. Announce(n, b) = q
      BY Alone
    <3> QED
      BY <3>1, FramesDiffer
  <2>4. Len(wire') <= QueueSize + SlaveQueue + MaxNodes + 1
    BY <1>3, <2>2
  <2> QED
    BY <2>2, <2>3, <2>4 DEF WireOK
<1>6. ASSUME wire' = <<>>
      PROVE  /\ WireOK' /\ \A n \in Nodes, b \in BOOLEAN : ~On(Announce(n, b), wire')
  <2>1. wire' \in Seq(WireFrames) /\ Len(wire') = 0
    BY <1>6, EmptySeq
  <2>2. \A n \in Nodes, b \in BOOLEAN : ~On(Announce(n, b), wire')
    BY <1>6, Alone
  <2>3. 0 <= QueueSize + SlaveQueue + MaxNodes + 1 /\ 1..0 = {}
    BY <1>3
  <2> QED
    BY <2>1, <2>2, <2>3 DEF WireOK
<1>7. tx' # <<Queued>> => wire' = tx'
  BY <1>1
<1>8. CASE tx' \in {<<>>, <<Discover>>} /\ state' # "Polling"
  <2>1. CASE tx' = <<>>
    <3>1. wire' = <<>>
      BY <1>7, <2>1
    <3> QED
      BY <1>6, <1>8, <3>1
  <2>2. CASE tx' = <<Discover>>
    <3>1. wire' = <<Discover>>
      BY <1>2, <1>7, <2>2
    <3> QED
      BY <1>5, <1>8, <3>1 DEF Questions
  <2> QED
    BY <1>8, <2>1, <2>2
<1>9. CASE tx' = <<Poll(pendingPollNode')>> /\ pendingPollNode' \in Nodes
  <2>1. wire' = <<Poll(pendingPollNode')>>
    BY <1>2, <1>7, <1>9
  <2>2. Poll(pendingPollNode') \in Questions
    BY <1>9 DEF Questions
  <2> QED
    BY <1>5, <1>9, <2>1, <2>2
<1>10. CASE tx' = <<>> /\ state' # "Polling"
  BY <1>8, <1>10
<1> QED
  BY <1>1, <1>4, <1>8, <1>9, <1>10, LoopWrites

(* The master's loop: it gives up only a node that is excused.             *)
LEMMA MasterLoopsPlaces ==
    ASSUME BusInv, MasterLoops
    PROVE  /\ Placed'
           /\ \A n \in Nodes : active[n] /\ ~active'[n] => n \in excused
<1>1. wire = <<>> /\ LoopStep /\ UNCHANGED <<slave, losses, excused>>
  BY DEF MasterLoops
<1>2. /\ WireOK'
      /\ \A n \in Nodes, b \in BOOLEAN : ~On(Announce(n, b), wire')
      /\ state' = "Polling" =>
             wire' = <<Poll(pendingPollNode')>> /\ pendingPollNode' \in Nodes
  BY WrittenIs
<1>3. SlavesOK' /\ CountsOK'
  BY <1>1 DEF BusInv, Placed, SlavesOK, CountsOK
<1>4. InTurn'
  BY <1>2 DEF InTurn
<1>5. \A n \in Nodes : Sincere(n)'
  <2>1. \A n \in Nodes : ~On(Announce(n, TRUE), wire') /\ ~On(Announce(n, FALSE), wire')
    BY <1>2
  <2> QED
    BY <2>1 DEF Sincere
<1>6. \A n \in Nodes : Unanswered(n)' = 0
  <2> SUFFICES ASSUME state' = "Polling" PROVE wire' # <<>>
    BY DEF Unanswered
  <2> DEFINE q == <<Poll(pendingPollNode')>>
             e == <<>>
  <2>1. Len(e) = 0 /\ Len(q) = 1
    BY EmptySeq
  <2>2. wire' = q
    BY <1>2
  <2> HIDE DEF q, e
  <2>3. wire' # e
    BY <2>1, <2>2
  <2> QED
    BY <2>3 DEF e
<1>7. \A n \in Nodes :
          \/ n \in excused \/ ~active[n]
          \/ /\ ~Silent(slave[n])
             /\ inBootloader[n] >= Owed(slave[n]) + Unanswered(n)
  <2>1. \A n \in Nodes : ~On(Announce(n, TRUE), wire)
    BY <1>1, Alone
  <2> QED
    BY <2>1, Ranges DEF Kept
<1>8. CASE UNCHANGED <<active, inBootloader>>
  <2>1. ASSUME NEW n \in Nodes PROVE Kept(n)'
    <3>1. Unanswered(n) \in {0, 1}
      BY DEF Unanswered
    <3>2. Unanswered(n)' = 0 \/ Unanswered(n)' = Unanswered(n) \/ n \in excused'
      BY <1>6
    <3>3. /\ slave'[n] = slave[n] /\ inBootloader'[n] = inBootloader[n]
          /\ active'[n] => active[n]
          /\ n \in excused => n \in excused'
      BY <1>1, <1>8
    <3>4. On(Announce(n, TRUE), wire) => On(Announce(n, TRUE), wire') \/ n \in excused'
      BY <1>1, Alone
    <3> QED
      BY <3>2, <3>3, <3>4, Ranges, KeptOn
  <2> QED
    BY <1>2, <1>3, <1>4, <1>5, <1>8, <2>1 DEF Placed
<1>9. CASE /\ state = "Polling" /\ pendingPollNode \in Nodes
           /\ inBootloader[pendingPollNode] > 0
           /\ inBootloader' = [inBootloader EXCEPT ![pendingPollNode] = @ - 1]
           /\ UNCHANGED active
  <2>1. ASSUME NEW n \in Nodes PROVE Kept(n)'
    <3> DEFINE s == slave[n]
               i == inBootloader[n]
               o == Owed(s)
               j == inBootloader'[n]
    <3>1. i \in Int /\ o \in Int
      BY Ranges
    <3>2. j = IF n = pendingPollNode THEN i - 1 ELSE i
      BY <1>9 DEF BusInv, IInv, TypeOK
    <3>3. Unanswered(n) = IF n = pendingPollNode THEN 1 ELSE 0
      BY <1>1, <1>9 DEF Unanswered
    <3>4. slave'[n] = s /\ Unanswered(n)' = 0 /\ excused' = excused /\ active' = active
      BY <1>1, <1>6, <1>9
    <3>5. CASE n \in excused \/ ~active[n]
      BY <3>4, <3>5 DEF Kept
    <3>6. CASE ~Silent(s) /\ i >= o + Unanswered(n)
      <4> HIDE DEF s, i, o, j
      <4>1. j >= o + 0
        BY <3>1, <3>2, <3>3, <3>6
      <4>2. Owed(slave'[n]) = o /\ ~Silent(slave'[n])
        BY <3>4, <3>6 DEF o
      <4> QED
        BY <3>4, <4>1, <4>2 DEF Kept, j
    <3> QED
      BY <1>7, <3>5, <3>6
  <2> QED
    BY <1>2, <1>3, <1>4, <1>5, <1>9, <2>1 DEF Placed
<1>10. CASE /\ state = "Polling" /\ pendingPollNode \in Nodes
            /\ active[pendingPollNode] /\ inBootloader[pendingPollNode] = 0
            /\ active' = [active EXCEPT ![pendingPollNode] = FALSE]
            /\ UNCHANGED inBootloader
  <2> DEFINE p == pendingPollNode
  <2>1. active \in [Nodes -> BOOLEAN]
    BY DEF BusInv, IInv, TypeOK
  <2>2. p \in Nodes /\ ~active'[p] /\ \A n \in Nodes : n # p => active'[n] = active[n]
    BY <1>10, <2>1
  <2>3. p \in excused
    <3>1. Unanswered(p) = 1
      BY <1>1, <1>10 DEF Unanswered
    <3>2. Owed(slave[p]) \in Int /\ 0 <= Owed(slave[p])
      BY <2>2, Ranges
    <3>3. ~(inBootloader[p] >= Owed(slave[p]) + Unanswered(p))
      BY <1>10, <3>1, <3>2
    <3> QED
      BY <1>7, <1>10, <2>2, <3>3
  <2> HIDE DEF p
  <2>4. ASSUME NEW n \in Nodes PROVE Kept(n)'
    <3>1. CASE n = p
      BY <2>2, <3>1 DEF Kept
    <3>2. CASE n # p
      <4>1. Unanswered(n)' = 0 \/ Unanswered(n)' = Unanswered(n) \/ n \in excused'
        BY <1>6
      <4>2. /\ slave'[n] = slave[n] /\ inBootloader'[n] = inBootloader[n]
            /\ active'[n] => active[n]
            /\ n \in excused => n \in excused'
        BY <1>1, <1>10, <2>2, <3>2
      <4>3. On(Announce(n, TRUE), wire) => On(Announce(n, TRUE), wire') \/ n \in excused'
        BY <1>1, Alone
      <4> QED
        BY <4>1, <4>2, <4>3, Ranges, KeptOn
    <3> QED
      BY <3>1, <3>2
  <2>5. \A n \in Nodes : active[n] /\ ~active'[n] => n \in excused
    BY <2>2, <2>3
  <2> QED
    BY <1>2, <1>3, <1>4, <1>5, <2>4, <2>5 DEF Placed
<1> QED
  BY <1>1, <1>8, <1>9, <1>10, LoopWrites

(* A step that leaves the wire, the slaves and the master's turn alone.    *)
LEMMA NothingMoves ==
    ASSUME BusInv, UNCHANGED <<state, active, inBootloader, pendingPollNode,
                               slave, wire, losses, excused>>
    PROVE  Placed'
<1>1. SlavesOK' /\ WireOK' /\ CountsOK'
  BY DEF BusInv, Placed, SlavesOK, WireOK, CountsOK
<1>2. InTurn'
  BY DEF BusInv, Placed, InTurn
<1>3. ASSUME NEW n \in Nodes PROVE Sincere(n)'
  BY Ranges DEF Sincere, Speaks
<1>4. ASSUME NEW n \in Nodes PROVE Kept(n)'
  <2>1. Kept(n)
    BY Ranges
  <2> QED
    BY <2>1 DEF Kept, Unanswered
<1> QED
  BY <1>1, <1>2, <1>3, <1>4 DEF Placed

(* A Discover: each node announces what it is.                             *)
LEMMA DiscoverPlaces ==
    ASSUME BusInv, wire # <<>>, Head(wire) = Discover, HearDiscover,
           UNCHANGED <<mvars, losses>>
    PROVE  Placed'
<1>1. /\ wire' = Tail(wire) \o Announcements
      /\ slave' = slave /\ excused' = excused /\ losses' = losses
      /\ state' = state /\ active' = active /\ inBootloader' = inBootloader
  BY DEF HearDiscover, mvars
<1>2. Discover \in Questions
  BY DEF Questions
<1>3. /\ Tail(wire) = <<>>
      /\ \A n \in Nodes, b \in BOOLEAN : ~On(Announce(n, b), wire)
      /\ \A n \in Nodes : Unanswered(n) = 0
      /\ state # "Polling"
  BY <1>2, AQuestion, FramesDiffer
<1> DEFINE A == {Announce(k, slave[k].face = "Boot") : k \in {j \in Nodes : Speaks(j)}}
<1>4. Announcements \in Seq(A) /\ Len(Announcements) \in Nat /\ Len(Announcements) <= MaxNodes
  BY AnnouncementsAre
<1>5. wire' = Announcements
  <2> HIDE DEF A
  <2>1. <<>> \o Announcements = Announcements
    BY <1>4, ConcatEmptySeq
  <2> QED
    BY <1>1, <1>3, <2>1
<1>6. \A i \in 1..Len(wire') : wire'[i] \in A
  <2> HIDE DEF A
  <2> QED
    BY <1>4, <1>5, ElementOfSeq
<1>7. \A f \in A : \E k \in Nodes : Speaks(k) /\ f = Announce(k, slave[k].face = "Boot")
  OBVIOUS
<1>8. \A f \in A : f \in WireFrames /\ f \notin Questions
  <2> SUFFICES ASSUME NEW f \in A PROVE f \in WireFrames /\ f \notin Questions
    OBVIOUS
  <2>1. PICK k \in Nodes : f = Announce(k, slave[k].face = "Boot")
    BY <1>7
  <2> DEFINE b == slave[k].face = "Boot"
  <2>2. b \in BOOLEAN /\ f = Announce(k, b)
    BY <2>1
  <2> HIDE DEF A, b
  <2> QED
    BY <2>2, FramesAre, FramesDiffer
<1>9. WireOK'
  <2>1. wire' \in Seq(WireFrames)
    <3> HIDE DEF A
    <3>1. A \subseteq WireFrames
      BY <1>8
    <3> QED
      BY <1>4, <1>5, <3>1, SeqMonotonic
  <2>2. Len(wire') <= QueueSize + SlaveQueue + MaxNodes + 1
    BY <1>4, <1>5, MasterConstants, BusConstants
  <2>3. \A i \in 1..Len(wire') : wire'[i] \notin Questions
    <3> HIDE DEF A
    <3> QED
      BY <1>6, <1>8
  <2> QED
    BY <2>1, <2>2, <2>3 DEF WireOK
<1>10. SlavesOK' /\ CountsOK' /\ InTurn'
  BY <1>1, <1>3 DEF BusInv, Placed, SlavesOK, CountsOK, InTurn
<1>11. ASSUME NEW n \in Nodes PROVE Sincere(n)'
  <2>1. ASSUME NEW b \in BOOLEAN, On(Announce(n, b), wire')
        PROVE  Speaks(n) /\ b = (slave[n].face = "Boot")
    <3>1. PICK i \in 1..Len(wire') : wire'[i] = Announce(n, b)
      BY <2>1 DEF On
    <3>2. PICK k \in Nodes : Speaks(k) /\ Announce(n, b) = Announce(k, slave[k].face = "Boot")
      <4> HIDE DEF A
      <4> QED
        BY <1>6, <1>7, <3>1
    <3>3. n = k /\ b = (slave[k].face = "Boot")
      BY FramesDiffer, <3>2
    <3> QED
      BY <3>2, <3>3
  <2> HIDE DEF A
  <2>2. On(Announce(n, FALSE), wire') => slave[n].face = "App"
    BY <2>1 DEF Speaks
  <2>3. On(Announce(n, TRUE), wire') => slave[n].face \in {"App", "Boot"}
    BY <2>1 DEF Speaks
  <2> QED
    BY <1>1, <2>2, <2>3 DEF Sincere, Speaks
<1>12. ASSUME NEW n \in Nodes PROVE Kept(n)'
  <2>1. Unanswered(n)' = 0
    BY <1>1, <1>3 DEF Unanswered
  <2> QED
    BY <1>1, <1>3, <2>1, Ranges, KeptOn
<1> QED
  BY <1>9, <1>10, <1>11, <1>12 DEF Placed

(* A command is no question, and the master is not waiting.                *)
LEMMA ACommand ==
    ASSUME BusInv, wire # <<>>, Head(wire) \in Commands
    PROVE  state # "Polling"
<1> SUFFICES ASSUME state = "Polling" PROVE FALSE
  OBVIOUS
<1> DEFINE p == pendingPollNode
<1>1. /\ p \in Nodes
      /\ Head(wire) = Poll(p) \/ Head(wire) \in {Reply(p), Announce(p, TRUE), Done(p)}
  BY TurnTail
<1> HIDE DEF p
<1>2. Poll(p) \in Questions /\ Head(wire) \notin Questions
  BY <1>1, FramesDiffer DEF Questions
<1>3. /\ Head(wire) # Reply(p) /\ Head(wire) # Done(p) /\ Head(wire) # Announce(p, TRUE)
  BY <1>1, FramesDiffer
<1> QED
  BY <1>1, <1>2, <1>3

(* A command: the application does as it is told, a bootloader may leave.  *)
LEMMA CommandPlaces ==
    ASSUME BusInv, wire # <<>>, NEW c \in Commands, Head(wire) = c, HearCommand(c),
           UNCHANGED <<mvars, losses>>
    PROVE  Placed'
<1> DEFINE n == c.node
           s == slave[n]
<1>1. /\ wire' = Tail(wire) /\ excused' = excused /\ losses' = losses
      /\ state' = state /\ active' = active /\ inBootloader' = inBootloader
  BY DEF HearCommand, mvars
<1>2. state # "Polling"
  BY ACommand
<1>3. /\ WireOK'
      /\ \A f : On(f, wire') => On(f, wire)
      /\ \A f : On(f, wire) /\ f # Head(wire) => On(f, wire')
  BY <1>1, WireTail DEF BusInv, Placed
<1>4. n \in Nodes
  BY DEF Commands
<1>5. PICK h : /\ slave' = [slave EXCEPT ![n] = h]
               /\ \/ s.face = "App" /\ h = AppHears(s, c.op)
                  \/ s.face = "Boot" /\ h = Down("App", TRUE)
                  \/ h = s
  BY CommandIs
<1> HIDE DEF n
<1>6. SlavesOK /\ s \in Slaves /\ Len(s.queue) <= SlaveQueue
      /\ (s.face = "App" /\ s.told => On("Announce", s.queue))
      /\ (s.face = "Off" => ~s.told)
  BY <1>4, Ranges DEF BusInv, Placed, SlavesOK
<1>7. /\ h \in Slaves /\ Len(h.queue) <= SlaveQueue
      /\ h.face = "App" /\ h.told => On("Announce", h.queue)
      /\ h.face = "Off" => ~h.told
      /\ \/ h.face = "App" /\ s.face = "App"
         \/ s.face = "Boot" /\ h.face = "Down" /\ h.told /\ h.into = "App" /\ h.missed = 0
         \/ h = s
  <2> HIDE DEF s
  <2>1. CASE s.face = "App" /\ h = AppHears(s, c.op)
    BY <1>6, <2>1, AppHearsIs
  <2>2. CASE s.face = "Boot" /\ h = Down("App", TRUE)
    <3>1. \A into \in {"App", "Boot"} : \A told \in BOOLEAN :
              /\ Down(into, told) \in Slaves /\ Down(into, told).face = "Down"
              /\ Down(into, told).told = told /\ Down(into, told).into = into
              /\ Down(into, told).missed = 0 /\ Len(Down(into, told).queue) = 0
      BY FacesAre
    <3>2. /\ h \in Slaves /\ h.face = "Down" /\ h.told = TRUE /\ h.into = "App"
          /\ h.missed = 0 /\ Len(h.queue) = 0
      BY <2>2, <3>1, Zenon
    <3>3. Len(h.queue) <= SlaveQueue /\ h.face # "App" /\ h.face # "Off"
      BY <3>2, BusConstants
    <3> QED
      BY <2>2, <3>2, <3>3, Zenon
  <2>3. CASE h = s
    BY <1>6, <2>3
  <2> QED
    BY <1>5, <2>1, <2>2, <2>3
<1>8. SlavesOK' /\ slave'[n] = h /\ \A m \in Nodes : m # n => slave'[m] = slave[m]
  <2> HIDE DEF s
  <2> QED
    BY <1>4, <1>5, <1>6, <1>7, SlaveSet
<1>9. CountsOK' /\ InTurn'
  BY <1>1, <1>2 DEF BusInv, Placed, CountsOK, InTurn
<1>10. ASSUME NEW m \in Nodes, NEW b \in BOOLEAN
       PROVE  On(Announce(m, b), wire) <=> On(Announce(m, b), wire')
  <2>1. Head(wire) # Announce(m, b)
    BY FramesDiffer
  <2> QED
    BY <1>3, <2>1
<1>11. ASSUME NEW m \in Nodes PROVE Sincere(m)'
  <2>1. Sincere(m)
    BY Ranges
  <2>2. CASE m # n \/ h = s
    <3>1. slave'[m] = slave[m]
      BY <1>8, <2>2
    <3> QED
      BY <1>1, <1>10, <2>1, <3>1 DEF Sincere, Speaks
  <2>3. CASE m = n /\ h.face = "App" /\ s.face = "App"
    BY <1>1, <1>8, <1>10, <2>1, <2>3 DEF Sincere, Speaks
  <2>4. CASE m = n /\ s.face = "Boot" /\ h.face = "Down" /\ h.told
    BY <1>1, <1>8, <1>10, <2>1, <2>4 DEF Sincere, Speaks
  <2> QED
    BY <1>7, <2>2, <2>3, <2>4
<1>12. ASSUME NEW m \in Nodes PROVE Kept(m)'
  <2>1. Kept(m) /\ Unanswered(m)' = 0 /\ Unanswered(m) = 0
    BY <1>1, <1>2, Ranges DEF Unanswered
  <2>2. CASE m # n \/ h = s
    <3>1. slave'[m] = slave[m]
      BY <1>8, <2>2
    <3> QED
      BY <1>1, <1>10, <2>1, <3>1, Ranges, KeptOn
  <2>3. CASE m = n /\ h.face = "App" /\ s.face = "App"
    <3>1. Owed(h) = 0 /\ ~Silent(h) /\ inBootloader[m] >= 0
      BY <2>3, Ranges, MasterConstants DEF Owed, Silent
    <3>2. inBootloader'[m] >= Owed(slave'[m]) + Unanswered(m)' /\ ~Silent(slave'[m])
      BY <1>1, <1>8, <2>1, <2>3, <3>1
    <3> QED
      BY <3>2 DEF Kept
  <2>4. CASE m = n /\ s.face = "Boot" /\ h.face = "Down" /\ h.told
             /\ h.into = "App" /\ h.missed = 0
    <3>1. Owed(s) = MaxMissed /\ Owed(h) = MaxMissed - 0 /\ ~Silent(h)
      BY <2>4 DEF Owed, Silent
    <3>2. n \in excused \/ ~active[n] \/ inBootloader[n] >= Owed(s) + 0
      BY <2>1, <2>4 DEF Kept
    <3>3. \/ n \in excused' \/ ~active'[n]
          \/ ~Silent(slave'[n]) /\ inBootloader'[n] >= Owed(slave'[n]) + Unanswered(n)'
      BY <1>1, <1>8, <2>1, <2>4, <3>1, <3>2, BusConstants
    <3> QED
      BY <2>4, <3>3 DEF Kept
  <2> QED
    BY <1>7, <2>2, <2>3, <2>4
<1> QED
  BY <1>3, <1>8, <1>9, <1>11, <1>12 DEF Placed

(* What an answer says, and does not.                                      *)
LEMMA AnswerIs ==
    ASSUME NEW n \in Nodes, NEW w, Answers(w, n)
    PROVE  /\ w # <<>>
           /\ \A i \in 1..Len(w) : w[i] \notin Questions
           /\ \A m \in Nodes, b \in BOOLEAN : On(Announce(m, b), w) => m = n /\ b = TRUE
<1>1. \A i \in 1..Len(w) : w[i] \in {Reply(n), Announce(n, TRUE), Done(n)}
  BY DEF Answers
<1>2. \A i \in 1..Len(w) : w[i] \notin Questions
  <2>1. Reply(n) \notin Questions /\ Announce(n, TRUE) \notin Questions
        /\ Done(n) \notin Questions
    BY FramesDiffer
  <2> QED
    BY <1>1, <2>1
<1>3. ASSUME NEW m \in Nodes, NEW b \in BOOLEAN, On(Announce(m, b), w)
      PROVE  m = n /\ b = TRUE
  <2>1. PICK i \in 1..Len(w) : w[i] = Announce(m, b)
    BY <1>3 DEF On
  <2>2. Announce(m, b) # Reply(n) /\ Announce(m, b) # Done(n)
    BY FramesDiffer
  <2>3. Announce(m, b) = Announce(n, TRUE)
    BY <1>1, <2>1, <2>2
  <2> QED
    BY <2>3, FramesDiffer
<1> QED
  BY <1>2, <1>3 DEF Answers

(* What an application answers: all that it has queued.                    *)
LEMMA FlushedIs ==
    ASSUME NEW n \in Nodes, slave[n] \in Slaves
    PROVE  /\ Flushed(n) \in Seq(WireFrames)
           /\ Len(Flushed(n)) = Len(slave[n].queue) + 1
           /\ Answers(Flushed(n), n)
           /\ On("Announce", slave[n].queue) => On(Announce(n, TRUE), Flushed(n))
<1> DEFINE q == slave[n].queue
           L == Len(q)
           r == [i \in 1..L |-> IF q[i] = "Announce" THEN Announce(n, TRUE) ELSE Reply(n)]
           d == <<Done(n)>>
           F == {Reply(n), Announce(n, TRUE), Done(n)}
<1>1. q \in Seq({"Message", "Announce"}) /\ L \in Nat
  BY DEF Slaves
<1>2. F \subseteq WireFrames
  BY FramesAre
<1>3. r \in [1..L -> F]
  OBVIOUS
<1>4. r \in Seq(F) /\ Len(r) = L
  <2> HIDE DEF r, F, L
  <2>1. r \in Seq(F)
    BY <1>1, <1>3, SeqDef
  <2> QED
    BY <1>1, <1>3, <2>1, LenProperties
<1>5. d \in Seq(F) /\ Len(d) = 1 /\ d[1] = Done(n)
  OBVIOUS
<1> DEFINE w == Flushed(n)
<1>6. w = r \o d
  BY DEF Flushed
<1>7. /\ w \in Seq(F) /\ Len(w) = L + 1
      /\ \A i \in 1..(L + 1) : w[i] = IF i <= L THEN r[i] ELSE d[i - L]
  <2> HIDE DEF w, r, d, F, L
  <2> QED
    BY <1>1, <1>4, <1>5, <1>6, ConcatProperties
<1>8. w # <<>>
  <2> DEFINE e == <<>>
  <2>1. Len(e) = 0
    BY EmptySeq
  <2> HIDE DEF w, e, L
  <2>2. w # e
    BY <1>1, <1>7, <2>1
  <2> QED
    BY <2>2 DEF e
<1>9. w[Len(w)] = Done(n)
  <2>1. L + 1 \in 1..(L + 1) /\ ~(L + 1 <= L) /\ (L + 1) - L = 1
    BY <1>1
  <2> HIDE DEF w, d, r, L
  <2> QED
    BY <1>5, <1>7, <2>1
<1>10. \A i \in 1..Len(w) : w[i] \in F
  <2> HIDE DEF w, F
  <2> QED
    BY <1>7, ElementOfSeq
<1>11. ASSUME On("Announce", q) PROVE On(Announce(n, TRUE), w)
  <2>1. PICK i \in 1..L : q[i] = "Announce"
    BY <1>11 DEF On
  <2>2. r[i] = Announce(n, TRUE)
    BY <2>1
  <2>3. i \in 1..(L + 1) /\ i <= L
    BY <1>1
  <2> HIDE DEF w, r, d, L
  <2>4. w[i] = Announce(n, TRUE) /\ i \in 1..Len(w)
    BY <1>7, <2>2, <2>3
  <2> QED
    BY <2>4 DEF On
<1>12. w \in Seq(WireFrames)
  <2> HIDE DEF w, F
  <2> QED
    BY <1>2, <1>7, SeqMonotonic
<1> HIDE DEF w, r, d
<1>13. Answers(w, n)
  BY <1>8, <1>9, <1>10 DEF Answers
<1> QED
  BY <1>7, <1>11, <1>12, <1>13 DEF w

(* The node that is polled changes, and the wire has its answer, or        *)
(* nothing.                                                                *)
LEMMA PolledPlaces ==
    ASSUME BusInv, wire # <<>>, NEW n \in Nodes, Head(wire) = Poll(n),
           UNCHANGED <<mvars, losses>>, NEW v \in Slaves, Len(v.queue) <= SlaveQueue,
           v.face = "App" /\ v.told => On("Announce", v.queue),
           v.face = "Off" => ~v.told,
           slave' = [slave EXCEPT ![n] = v], NEW w, wire' = w,
           w = <<>> \/ (w \in Seq(WireFrames) /\ Len(w) <= SlaveQueue + 2 /\ Answers(w, n)),
           excused' = excused \/ excused' = excused \cup {n},
           On(Announce(n, TRUE), w) => v.face \in {"App", "Boot"} \/ n \in excused'
                                       \/ (v.face = "Down" /\ v.told),
           \/ n \in excused' \/ ~active[n]
           \/ v.face = "Down" /\ v.told /\ On(Announce(n, TRUE), w)
           \/ /\ ~Silent(v)
              /\ inBootloader[n] >= Owed(v) + (IF w = <<>> THEN 1 ELSE 0)
    PROVE  Placed'
<1>1. Poll(n) \in Questions
  BY DEF Questions
<1>2. /\ \A m \in Nodes, b \in BOOLEAN : ~On(Announce(m, b), wire)
      /\ \A m \in Nodes : Unanswered(m) = 0
      /\ state = "Polling" => pendingPollNode = n
  BY <1>1, AQuestion, FramesDiffer
<1>3. /\ SlavesOK' /\ slave'[n] = v
      /\ \A m \in Nodes : m # n => slave'[m] = slave[m]
  BY SlaveSet DEF BusInv, Placed
<1>4. state' = state /\ active' = active /\ inBootloader' = inBootloader
      /\ pendingPollNode' = pendingPollNode /\ losses' = losses
  BY DEF mvars
<1>5. CountsOK' /\ excused \subseteq excused'
  BY <1>4 DEF BusInv, Placed, CountsOK
<1>6. WireOK'
  <2>1. QueueSize \in Nat \ {0} /\ SlaveQueue \in Nat \ {0} /\ MaxNodes \in Nat \ {0}
    BY MasterConstants, BusConstants
  <2>2. CASE w = <<>>
    <3>1. wire' \in Seq(WireFrames) /\ Len(wire') = 0
      BY <2>2, EmptySeq
    <3>2. 0 <= QueueSize + SlaveQueue + MaxNodes + 1 /\ 1..0 = {}
      BY <2>1
    <3> QED
      BY <3>1, <3>2 DEF WireOK
  <2>3. CASE w \in Seq(WireFrames) /\ Len(w) <= SlaveQueue + 2 /\ Answers(w, n)
    <3>1. \A i \in 1..Len(wire') : wire'[i] \notin Questions
      BY <2>3, AnswerIs
    <3>2. Len(w) \in Nat
      BY <2>3, LenProperties
    <3>3. Len(wire') <= QueueSize + SlaveQueue + MaxNodes + 1
      BY <2>1, <2>3, <3>2
    <3> QED
      BY <2>3, <3>1, <3>3 DEF WireOK
  <2> QED
    BY <2>2, <2>3
<1>7. InTurn'
  <2>1. state' = "Polling" => pendingPollNode' = n
    BY <1>2, <1>4
  <2>2. wire' = <<>> \/ Answers(wire', n)
    OBVIOUS
  <2> QED
    BY <2>1, <2>2 DEF InTurn, Answers, Reply, Done, Announce
<1>8. \A m \in Nodes, b \in BOOLEAN : On(Announce(m, b), wire') => m = n /\ b = TRUE
  BY AnswerIs, Alone
<1>9. ASSUME NEW m \in Nodes PROVE Sincere(m)'
  <2>1. ~On(Announce(m, FALSE), wire')
    BY <1>8
  <2>2. On(Announce(m, TRUE), wire') => m = n
    BY <1>8
  <2> QED
    BY <1>3, <2>1, <2>2 DEF Sincere, Speaks
<1>10. ASSUME NEW m \in Nodes PROVE Kept(m)'
  <2>1. CASE m # n
    <3>1. Unanswered(m)' = 0
      BY <1>2, <1>4, <2>1 DEF Unanswered
    <3> QED
      BY <1>2, <1>3, <1>4, <1>5, <2>1, <3>1, Ranges, KeptOn
  <2>2. CASE m = n
    <3> DEFINE u == Unanswered(n)'
               x == IF w = <<>> THEN 1 ELSE 0
               o == Owed(v)
               i == inBootloader[n]
    <3>1. (u = 0 \/ u = x) /\ x \in {0, 1}
      BY DEF Unanswered
    <3>2. o \in Int /\ i \in Int
      BY Ranges, OwedIs
    <3>3. inBootloader'[n] = i /\ slave'[n] = v /\ active' = active
      BY <1>3, <1>4
    <3>4. CASE \/ n \in excused' \/ ~active[n]
               \/ v.face = "Down" /\ v.told /\ On(Announce(n, TRUE), w)
      BY <2>2, <3>3, <3>4 DEF Kept
    <3>5. CASE ~Silent(v) /\ i >= o + x
      <4> HIDE DEF u, x, o, i
      <4>1. i >= o + u
        BY <3>1, <3>2, <3>5
      <4> QED
        BY <2>2, <3>3, <3>5, <4>1 DEF Kept, u, o
    <3> QED
      BY <3>4, <3>5
  <2> QED
    BY <2>1, <2>2
<1> QED
  BY <1>3, <1>5, <1>6, <1>7, <1>9, <1>10 DEF Placed

(* An application is polled: it answers, and restarts if it was told to.   *)
LEMMA AppPlaces ==
    ASSUME BusInv, wire # <<>>, NEW n \in Nodes, Head(wire) = Poll(n), AppPolled(n),
           UNCHANGED <<mvars, losses>>
    PROVE  Placed'
<1> DEFINE s == slave[n]
           v == IF s.reset = "No" THEN Running("App") ELSE Down(s.reset, s.told)
           w == Flushed(n)
<1>1. /\ s.face = "App"
      /\ wire' = Tail(wire) \o w
      /\ slave' = [slave EXCEPT ![n] = v]
      /\ excused' = IF s.reset = "No" \/ s.told THEN excused ELSE excused \cup {n}
  BY DEF AppPolled
<1>2. s \in Slaves /\ Len(s.queue) \in Nat /\ Len(s.queue) <= SlaveQueue
      /\ (s.told => On("Announce", s.queue))
  <2>1. s \in Slaves
    BY Ranges
  <2>2. Len(s.queue) \in Nat
    BY <2>1, LenProperties DEF Slaves
  <2> QED
    BY <1>1, <2>1, <2>2 DEF BusInv, Placed, SlavesOK
<1>3. s.reset \in {"No", "App", "Boot"} /\ s.told \in BOOLEAN
  BY <1>2 DEF Slaves
<1>4. /\ w \in Seq(WireFrames) /\ Len(w) = Len(s.queue) + 1 /\ Answers(w, n)
      /\ On("Announce", s.queue) => On(Announce(n, TRUE), w)
  BY <1>2, FlushedIs
<1> HIDE DEF w
<1>5. Tail(wire) = <<>>
  BY AQuestion DEF Questions
<1>6. wire' = w
  BY <1>1, <1>4, <1>5, ConcatEmptySeq
<1>7. Len(w) <= SlaveQueue + 2
  BY <1>2, <1>4, BusConstants
<1>8. w # <<>>
  BY <1>4, AnswerIs
<1>9. inBootloader[n] \in Int /\ inBootloader[n] >= 0
  BY Ranges, MasterConstants
<1>10. CASE s.reset = "No"
  <2>1. /\ v \in Slaves /\ v.face = "App" /\ ~v.told /\ Len(v.queue) = 0
    <3>1. \A face \in {"App", "Boot", "Off"} :
              /\ Running(face) \in Slaves /\ Running(face).face = face
              /\ ~Running(face).told /\ Len(Running(face).queue) = 0
      BY FacesAre
    <3> QED
      BY <1>10, <3>1
  <2> HIDE DEF v
  <2>2. Owed(v) = 0 /\ ~Silent(v)
    BY <2>1 DEF Owed, Silent
  <2>3. inBootloader[n] >= Owed(v) + (IF w = <<>> THEN 1 ELSE 0)
    BY <1>8, <1>9, <2>2
  <2>4. Len(v.queue) <= SlaveQueue /\ v.face # "Off" /\ excused' = excused
    BY <1>1, <1>10, <2>1, BusConstants
  <2> QED
    BY <1>1, <1>4, <1>6, <1>7, <2>1, <2>2, <2>3, <2>4, PolledPlaces
<1>11. CASE s.reset # "No"
  <2>1. /\ v \in Slaves /\ v.face = "Down" /\ v.told = s.told /\ Len(v.queue) = 0
    <3>1. \A into \in {"App", "Boot"} : \A told \in BOOLEAN :
              /\ Down(into, told) \in Slaves /\ Down(into, told).face = "Down"
              /\ Down(into, told).told = told /\ Down(into, told).into = into
              /\ Down(into, told).missed = 0 /\ Len(Down(into, told).queue) = 0
      BY FacesAre
    <3>2. s.reset \in {"App", "Boot"} /\ v = Down(s.reset, s.told)
      BY <1>3, <1>11
    <3> HIDE DEF v, s
    <3> QED
      BY <1>3, <3>1, <3>2
  <2> HIDE DEF v, s
  <2>2. Len(v.queue) <= SlaveQueue /\ v.face # "Off" /\ v.face # "App"
    BY <2>1, BusConstants
  <2>3. CASE s.told
    <3>1. v.told /\ On(Announce(n, TRUE), w) /\ excused' = excused
      BY <1>1, <1>2, <1>4, <2>1, <2>3
    <3> QED
      BY <1>1, <1>4, <1>6, <1>7, <2>1, <2>2, <3>1, PolledPlaces
  <2>4. CASE ~s.told
    <3>1. n \in excused' /\ excused' = excused \cup {n}
      BY <1>1, <1>11, <2>4
    <3> QED
      BY <1>1, <1>4, <1>6, <1>7, <2>1, <2>2, <3>1, PolledPlaces
  <2> QED
    BY <2>3, <2>4
<1> QED
  BY <1>10, <1>11

(* A bootloader is polled.                                                 *)
LEMMA BootPlaces ==
    ASSUME BusInv, wire # <<>>, NEW n \in Nodes, Head(wire) = Poll(n), BootPolled(n),
           UNCHANGED <<mvars, losses>>
    PROVE  Placed'
<1> DEFINE v == slave[n]
           w == <<Reply(n), Done(n)>>
<1>1. v.face = "Boot" /\ wire' = Tail(wire) \o w /\ slave' = slave /\ excused' = excused
  BY DEF BootPolled
<1>2. /\ slave \in [Nodes -> Slaves] /\ v \in Slaves /\ Len(v.queue) <= SlaveQueue
      /\ inBootloader[n] \in Int /\ Owed(v) \in Int
  BY Ranges DEF BusInv, Placed, SlavesOK
<1>3. slave' = [slave EXCEPT ![n] = v]
  BY <1>1, <1>2
<1>4. w \in Seq(WireFrames) /\ Len(w) = 2
  BY FramesAre
<1>5. Answers(w, n)
  <2>1. w[1] = Reply(n) /\ w[2] = Done(n) /\ Len(w) = 2
    OBVIOUS
  <2>2. w # <<>>
    OBVIOUS
  <2>3. 1..2 = {1, 2}
    OBVIOUS
  <2> HIDE DEF w
  <2>4. \A i \in 1..Len(w) : w[i] \in {Reply(n), Announce(n, TRUE), Done(n)}
    BY <2>1, <2>3
  <2> QED
    BY <2>1, <2>2, <2>4 DEF Answers
<1>6. Tail(wire) = <<>> /\ Unanswered(n) = 0
      /\ ~On(Announce(n, TRUE), wire)
  BY AQuestion DEF Questions
<1> HIDE DEF w
<1>7. wire' = w /\ w # <<>>
  BY <1>1, <1>4, <1>5, <1>6, ConcatEmptySeq, AnswerIs
<1>8. Len(w) <= SlaveQueue + 2
  BY <1>4, BusConstants
<1>9. \/ n \in excused' \/ ~active[n]
      \/ ~Silent(v) /\ inBootloader[n] >= Owed(v) + (IF w = <<>> THEN 1 ELSE 0)
  <2>1. Kept(n)
    BY Ranges
  <2>2. CASE n \in excused \/ ~active[n]
    BY <1>1, <2>2
  <2>3. CASE ~Silent(v) /\ inBootloader[n] >= Owed(v) + Unanswered(n)
    BY <1>2, <1>6, <1>7, <2>3
  <2>4. \/ n \in excused \/ ~active[n]
        \/ ~Silent(v) /\ inBootloader[n] >= Owed(v) + Unanswered(n)
    <3>1. v.face # "Down"
      BY <1>1
    <3> QED
      BY <2>1, <3>1 DEF Kept
  <2> HIDE DEF v
  <2> QED
    BY <2>2, <2>3, <2>4
<1> HIDE DEF v
<1> QED
  BY <1>1, <1>2, <1>3, <1>4, <1>5, <1>7, <1>8, <1>9, PolledPlaces

(* A poll that is missed: by a node that is gone, or on its way.           *)
LEMMA MissedPlaces ==
    ASSUME BusInv, wire # <<>>, NEW n \in Nodes, Head(wire) = Poll(n), PollMissed(n),
           UNCHANGED <<mvars, losses>>
    PROVE  Placed'
<1> DEFINE s == slave[n]
           k == IF s.face = "Down" THEN s.missed + 1 ELSE s.missed
           v == [s EXCEPT !.missed = k]
           e == <<>>
<1>1. /\ s.face = "Off" \/ (s.face = "Down" /\ s.missed < MaxMissed)
      /\ wire' = Tail(wire) /\ excused' = excused
  BY DEF PollMissed
<1>2. /\ slave \in [Nodes -> Slaves] /\ s \in Slaves /\ Len(s.queue) <= SlaveQueue
      /\ inBootloader[n] \in Int /\ Owed(s) \in Int
      /\ s.face = "Off" => ~s.told
  BY Ranges DEF BusInv, Placed, SlavesOK
<1>3. s.missed \in 0..MaxMissed /\ MaxMissed \in Nat
  BY <1>2, BusConstants DEF Slaves
<1>4. slave' = [slave EXCEPT ![n] = v]
  BY <1>2 DEF PollMissed
<1>5. k \in 0..MaxMissed
  BY <1>1, <1>3
<1>6. /\ v \in Slaves /\ v.queue = s.queue /\ v.face = s.face
      /\ v.told = s.told /\ v.into = s.into /\ v.missed = k
  <2> HIDE DEF s, k
  <2> QED
    BY <1>2, <1>5, MissedEdited
<1>7. /\ Tail(wire) = e /\ Unanswered(n) = 0
      /\ ~On(Announce(n, TRUE), wire)
  BY AQuestion DEF Questions
<1>8. ~On(Announce(n, TRUE), e)
  BY Alone
<1> HIDE DEF e
<1>9. \/ n \in excused \/ ~active[n]
      \/ ~Silent(s) /\ inBootloader[n] >= Owed(s)
  <2>1. Kept(n)
    BY Ranges
  <2>2. \/ n \in excused \/ ~active[n]
        \/ ~Silent(s) /\ inBootloader[n] >= Owed(s) + Unanswered(n)
    BY <1>7, <2>1 DEF Kept
  <2> HIDE DEF s
  <2>3. CASE ~Silent(s) /\ inBootloader[n] >= Owed(s) + Unanswered(n)
    BY <1>2, <1>7, <2>3
  <2> QED
    BY <2>2, <2>3
<1>10. ASSUME ~Silent(s), inBootloader[n] >= Owed(s)
       PROVE  ~Silent(v) /\ inBootloader[n] >= Owed(v) + 1
  <2>1. s.face = "Down" /\ s.told /\ k = s.missed + 1
    BY <1>1, <1>10 DEF Silent
  <2>2. ~Silent(v)
    <3> HIDE DEF v, s
    <3> QED
      BY <1>6, <2>1 DEF Silent
  <2>3. Owed(s) = (IF s.into = "Boot" THEN 2 * MaxMissed ELSE MaxMissed) - s.missed
    BY <2>1, <1>3 DEF Owed
  <2>4. Owed(v) = (IF s.into = "Boot" THEN 2 * MaxMissed ELSE MaxMissed) - (s.missed + 1)
    <3> HIDE DEF v, s, k
    <3> QED
      BY <1>3, <1>6, <2>1 DEF Owed
  <2> HIDE DEF s, v
  <2>5. inBootloader[n] >= Owed(v) + 1
    BY <1>2, <1>3, <1>10, <2>3, <2>4
  <2> QED
    BY <2>2, <2>5
<1>11. Len(v.queue) <= SlaveQueue /\ v.face # "App" /\ (v.face = "Off" => ~v.told)
  <2> HIDE DEF v, s
  <2> QED
    BY <1>1, <1>2, <1>6
<1> HIDE DEF v, s, k
<1>12. \/ n \in excused' \/ ~active[n]
       \/ /\ ~Silent(v)
          /\ inBootloader[n] >= Owed(v) + (IF e = <<>> THEN 1 ELSE 0)
  <2>1. e = <<>>
    BY DEF e
  <2> QED
    BY <1>1, <1>9, <1>10, <2>1
<1>13. wire' = e /\ e = <<>>
  BY <1>1, <1>7 DEF e
<1> QED
  BY <1>1, <1>4, <1>6, <1>8, <1>11, <1>12, <1>13, PolledPlaces

(* Whatever a slave hears.                                                 *)
LEMMA HearsPlaces ==
    ASSUME BusInv, SlaveHears
    PROVE  Placed'
<1>1. /\ wire # <<>> /\ UNCHANGED <<mvars, losses>>
      /\ \/ Head(wire) = Discover /\ HearDiscover
         \/ \E n \in Nodes : Head(wire) = Poll(n) /\ HearPoll(n)
         \/ \E c \in Commands : Head(wire) = c /\ HearCommand(c)
  BY DEF SlaveHears
<1>2. CASE Head(wire) = Discover /\ HearDiscover
  BY <1>1, <1>2, DiscoverPlaces
<1>3. CASE \E n \in Nodes : Head(wire) = Poll(n) /\ HearPoll(n)
  <2>1. PICK n \in Nodes : Head(wire) = Poll(n) /\ HearPoll(n)
    BY <1>3
  <2>2. CASE AppPolled(n)
    BY <1>1, <2>1, <2>2, AppPlaces
  <2>3. CASE BootPolled(n)
    BY <1>1, <2>1, <2>3, BootPlaces
  <2>4. CASE PollMissed(n)
    BY <1>1, <2>1, <2>4, MissedPlaces
  <2> QED
    BY <2>1, <2>2, <2>3, <2>4 DEF HearPoll
<1>4. CASE \E c \in Commands : Head(wire) = c /\ HearCommand(c)
  BY <1>1, <1>4, CommandPlaces
<1> QED
  BY <1>1, <1>2, <1>3, <1>4

(* The first frame is taken off the wire while the master waits: what is   *)
(* left is the rest of the answer, or the exchange is over.                *)
LEMMA TurnGoesOn ==
    ASSUME BusInv, wire # <<>>, wire' = Tail(wire),
           UNCHANGED <<state, pendingPollNode>>
    PROVE  /\ InTurn'
           /\ \A n \in Nodes : \/ Unanswered(n)' = 0
                               \/ Head(wire) \in {Poll(n), Done(n)}
<1>1. CASE state = "Polling"
  <2> DEFINE p == pendingPollNode
  <2>1. /\ p \in Nodes
        /\ \/ Head(wire) = Poll(p) /\ Tail(wire) = <<>>
           \/ Head(wire) = Done(p) /\ Tail(wire) = <<>>
           \/ Answers(Tail(wire), p)
    BY <1>1, TurnTail
  <2>2. InTurn'
    <3>1. wire' = <<>> \/ Answers(wire', p)
      BY <2>1
    <3> QED
      BY <3>1 DEF InTurn, Answers, Reply, Done, Announce
  <2>3. \A n \in Nodes : \/ Unanswered(n)' = 0
                         \/ n = p /\ wire' = <<>>
    BY DEF Unanswered
  <2>4. wire' = <<>> => Head(wire) \in {Poll(p), Done(p)}
    <3> HIDE DEF p
    <3> QED
      BY <2>1, AnswerIs
  <2> QED
    BY <2>2, <2>3, <2>4
<1>2. CASE state # "Polling"
  BY <1>2 DEF InTurn, Unanswered
<1> QED
  BY <1>1, <1>2

(* The master takes in what it is told.                                    *)
LEMMA AnnouncePlaces ==
    ASSUME BusInv, wire # <<>>, wire' = Tail(wire), NEW n \in Nodes, NEW b \in BOOLEAN,
           Head(wire) = Announce(n, b), ReceiveAnnounce(n, b),
           excused' = IF Speaks(n) \/ slave[n].told THEN excused \ {n} ELSE excused,
           UNCHANGED <<slave, losses>>
    PROVE  Placed'
<1>1. /\ state' = state /\ pendingPollNode' = pendingPollNode
      /\ active' = [active EXCEPT ![n] = TRUE]
      /\ inBootloader' = [inBootloader EXCEPT ![n] = IF b THEN BootGrace ELSE 0]
  BY DEF ReceiveAnnounce
<1>2. /\ WireOK'
      /\ \A f : On(f, wire') => On(f, wire)
      /\ \A f : On(f, wire) /\ f # Head(wire) => On(f, wire')
  BY WireTail DEF BusInv, Placed
<1>3. SlavesOK' /\ CountsOK'
  BY DEF BusInv, Placed, SlavesOK, CountsOK
<1>4. /\ InTurn' /\ \A m \in Nodes : Unanswered(m)' = 0
  <2>1. \A m \in Nodes : Head(wire) # Poll(m) /\ Head(wire) # Done(m)
    BY FramesDiffer
  <2> QED
    BY <1>1, <2>1, TurnGoesOn
<1>5. /\ active \in [Nodes -> BOOLEAN] /\ inBootloader \in [Nodes -> 0..BootGrace]
  BY DEF BusInv, IInv, TypeOK
<1>6. /\ slave' = slave
      /\ slave[n] \in Slaves /\ (slave[n].face = "Off" => ~slave[n].told)
  BY Ranges DEF BusInv, Placed, SlavesOK
<1>7. ASSUME NEW m \in Nodes PROVE Sincere(m)'
  <2>1. Sincere(m)
    BY Ranges
  <2>2. /\ On(Announce(m, FALSE), wire') => On(Announce(m, FALSE), wire)
        /\ On(Announce(m, TRUE), wire') => On(Announce(m, TRUE), wire)
    BY <1>2
  <2>3. m \in excused /\ m \notin excused' => m = n /\ (Speaks(n) \/ slave[n].told)
    OBVIOUS
  <2>4. Speaks(n) <=> slave[n].face \in {"App", "Boot"}
    BY DEF Speaks
  <2>5. slave[n].face \in {"App", "Boot", "Down", "Off"}
    BY <1>6 DEF Slaves
  <2>6. /\ On(Announce(m, FALSE), wire') =>
               slave'[m].face = "App" \/ (slave'[m].face = "Off" /\ m \in excused')
        /\ On(Announce(m, TRUE), wire') =>
               \/ slave'[m].face \in {"App", "Boot"}
               \/ slave'[m].face = "Down" /\ slave'[m].told
               \/ m \in excused'
    BY <1>6, <2>1, <2>2, <2>3, <2>4, <2>5 DEF Sincere, Speaks
  <2> QED
    BY <2>6 DEF Sincere, Speaks
<1>8. ASSUME NEW m \in Nodes PROVE Kept(m)'
  <2>1. CASE m # n
    <3>1. /\ slave'[m] = slave[m] /\ inBootloader'[m] = inBootloader[m]
          /\ active'[m] => active[m]
          /\ m \in excused => m \in excused'
      BY <1>1, <1>5, <2>1
    <3>2. On(Announce(m, TRUE), wire) => On(Announce(m, TRUE), wire') \/ m \in excused'
      <4>1. Announce(m, TRUE) # Head(wire)
        BY <2>1, FramesDiffer
      <4> QED
        BY <1>2, <4>1
    <3> QED
      BY <1>4, <3>1, <3>2, Ranges, KeptOn
  <2>2. CASE m = n
    <3> DEFINE s == slave[n]
               o == Owed(s)
    <3>1. inBootloader'[n] = (IF b THEN BootGrace ELSE 0) /\ slave'[n] = s
      BY <1>1, <1>5
    <3>2. Sincere(n) /\ On(Announce(n, b), wire)
      <4>1. On(Head(wire), wire)
        BY Ranges, Rest
      <4> QED
        BY <4>1, Ranges
    <3>3. o \in Int /\ 0 <= o /\ o <= BootGrace
      BY Ranges
    <3>4. s.face \in {"App", "Boot", "Down", "Off"}
      BY <1>6 DEF Slaves
    <3>5. CASE Speaks(n) \/ s.told
      <4>1. ~Silent(s)
        BY <1>6, <3>4, <3>5 DEF Silent, Speaks
      <4>2. ~b => o = 0
        <5>1. ~b => s.face = "App"
          BY <1>6, <3>2, <3>5 DEF Sincere, Speaks
        <5> QED
          BY <5>1 DEF Owed
      <4> HIDE DEF s, o
      <4>3. inBootloader'[n] >= o + 0
        BY <3>1, <3>3, <4>2, MasterConstants
      <4>4. Owed(slave'[n]) = o /\ ~Silent(slave'[n]) /\ Unanswered(n)' = 0
        BY <1>4, <3>1, <4>1 DEF o
      <4> QED
        BY <2>2, <4>3, <4>4 DEF Kept
    <3>6. CASE ~(Speaks(n) \/ s.told)
      <4>1. excused' = excused
        BY <3>6
      <4>2. n \in excused
        BY <3>2, <3>6 DEF Sincere, Speaks
      <4> QED
        BY <2>2, <4>1, <4>2 DEF Kept
    <3> QED
      BY <3>5, <3>6
  <2> QED
    BY <2>1, <2>2
<1> QED
  BY <1>2, <1>3, <1>4, <1>7, <1>8 DEF Placed

(* It hears a Done or another reply; or nobody hears what is lost.         *)
LEMMA FrameGonePlaces ==
    ASSUME BusInv, wire # <<>>, wire' = Tail(wire), SlavesOK', CountsOK', InTurn',
           UNCHANGED <<slave, active, inBootloader>>, excused \subseteq excused',
           \A n \in Nodes : /\ Unanswered(n)' = 0 \/ n \in excused'
                            /\ Head(wire) # Announce(n, TRUE) \/ n \in excused'
    PROVE  Placed'
<1>1. /\ WireOK'
      /\ \A f : On(f, wire') => On(f, wire)
      /\ \A f : On(f, wire) /\ f # Head(wire) => On(f, wire')
  BY WireTail DEF BusInv, Placed
<1>2. ASSUME NEW n \in Nodes PROVE Sincere(n)'
  <2>1. Sincere(n)
    BY Ranges
  <2>2. /\ On(Announce(n, FALSE), wire') => On(Announce(n, FALSE), wire)
        /\ On(Announce(n, TRUE), wire') => On(Announce(n, TRUE), wire)
    BY <1>1
  <2> QED
    BY <2>1, <2>2 DEF Sincere, Speaks
<1>3. ASSUME NEW n \in Nodes PROVE Kept(n)'
  <2>1. On(Announce(n, TRUE), wire) => On(Announce(n, TRUE), wire') \/ n \in excused'
    BY <1>1
  <2>2. /\ slave'[n] = slave[n] /\ inBootloader'[n] = inBootloader[n]
        /\ active'[n] => active[n] /\ (n \in excused => n \in excused')
    OBVIOUS
  <2>3. Unanswered(n)' = 0 \/ Unanswered(n)' = Unanswered(n) \/ n \in excused'
    OBVIOUS
  <2> QED
    BY <2>1, <2>2, <2>3, Ranges, KeptOn
<1> QED
  BY <1>1, <1>2, <1>3 DEF Placed

(* The master hears the frame that is next.                                *)
LEMMA MasterHearsPlaces ==
    ASSUME BusInv, MasterHears
    PROVE  /\ Placed'
           /\ \A n \in Nodes : active[n] => active'[n]
<1>1. wire # <<>> /\ wire' = Tail(wire) /\ slave' = slave /\ losses' = losses
  BY DEF MasterHears
<1>2. PICK n \in Nodes :
       \/ /\ \E b \in BOOLEAN : Head(wire) = Announce(n, b) /\ ReceiveAnnounce(n, b)
          /\ excused' = IF Speaks(n) \/ slave[n].told THEN excused \ {n} ELSE excused
       \/ Head(wire) = Done(n) /\ ReceiveDone(n) /\ excused' = excused
       \/ Head(wire) = Reply(n) /\ UNCHANGED <<mvars, excused>>
  BY DEF MasterHears
<1>3. ASSUME NEW b \in BOOLEAN, Head(wire) = Announce(n, b), ReceiveAnnounce(n, b),
             excused' = IF Speaks(n) \/ slave[n].told THEN excused \ {n} ELSE excused
      PROVE  /\ Placed'
             /\ \A m \in Nodes : active[m] => active'[m]
  <2>1. Placed'
    BY <1>1, <1>3, AnnouncePlaces
  <2>2. active \in [Nodes -> BOOLEAN] /\ active' = [active EXCEPT ![n] = TRUE]
    BY <1>3 DEF ReceiveAnnounce, BusInv, IInv, TypeOK
  <2> QED
    BY <2>1, <2>2
<1>4. ASSUME Head(wire) \in {Done(n), Reply(n)}, excused' = excused,
             UNCHANGED <<active, inBootloader>>, InTurn',
             \A m \in Nodes : Unanswered(m)' = 0
      PROVE  Placed'
  <2>1. SlavesOK' /\ CountsOK'
    BY <1>1, <1>4 DEF BusInv, Placed, SlavesOK, CountsOK
  <2>2. \A m \in Nodes : Head(wire) # Announce(m, TRUE)
    BY <1>4, FramesDiffer
  <2> QED
    BY <1>1, <1>4, <2>1, <2>2, FrameGonePlaces
<1>5. CASE Head(wire) = Done(n) /\ ReceiveDone(n) /\ excused' = excused
  <2>1. /\ state' = IF n = pendingPollNode THEN "Flush" ELSE state
        /\ pendingPollNode' = pendingPollNode
        /\ UNCHANGED <<active, inBootloader>>
    BY <1>5 DEF ReceiveDone
  <2>2. state' # "Polling"
    <3> SUFFICES ASSUME state' = "Polling" PROVE FALSE
      OBVIOUS
    <3> DEFINE p == pendingPollNode
    <3>1. state = "Polling" /\ n # p
      BY <2>1
    <3>2. /\ p \in Nodes
          /\ Head(wire) = Poll(p) \/ Head(wire) \in {Reply(p), Announce(p, TRUE), Done(p)}
      BY <1>1, <3>1, TurnTail
    <3> HIDE DEF p
    <3>3. Done(n) # Poll(p) /\ Done(n) # Reply(p) /\ Done(n) # Announce(p, TRUE)
          /\ Done(n) # Done(p)
      BY <3>1, <3>2, FramesDiffer
    <3> QED
      BY <1>5, <3>2, <3>3
  <2>3. InTurn' /\ \A m \in Nodes : Unanswered(m)' = 0
    BY <2>2 DEF InTurn, Unanswered
  <2>4. Placed'
    BY <1>4, <1>5, <2>1, <2>3
  <2> QED
    BY <2>1, <2>4
<1>6. CASE Head(wire) = Reply(n) /\ UNCHANGED <<mvars, excused>>
  <2>1. UNCHANGED <<state, pendingPollNode, active, inBootloader>>
    BY <1>6 DEF mvars
  <2>2. InTurn' /\ \A m \in Nodes : \/ Unanswered(m)' = 0
                                    \/ Head(wire) \in {Poll(m), Done(m)}
    BY <1>1, <2>1, TurnGoesOn
  <2>3. \A m \in Nodes : Head(wire) # Poll(m) /\ Head(wire) # Done(m)
    BY <1>6, FramesDiffer
  <2>4. \A m \in Nodes : Unanswered(m)' = 0
    BY <2>2, <2>3
  <2>5. Placed'
    BY <1>4, <1>6, <2>1, <2>2, <2>4
  <2> QED
    BY <2>1, <2>5
<1> QED
  BY <1>2, <1>3, <1>5, <1>6

(* A frame is lost: the master may now give up whom it was for or from.    *)
LEMMA LosePlaces ==
    ASSUME BusInv, LoseFrame
    PROVE  Placed'
<1>1. /\ wire # <<>> /\ wire' = Tail(wire) /\ slave' = slave
      /\ losses < MaxLosses /\ losses' = losses + 1
      /\ excused' = excused \cup
             {n \in Nodes : Head(wire) \in {Poll(n), Done(n), Announce(n, TRUE)}}
      /\ UNCHANGED <<state, pendingPollNode, active, inBootloader>>
  BY DEF LoseFrame, mvars
<1>2. SlavesOK' /\ CountsOK' /\ excused \subseteq excused'
  <2>1. SlavesOK'
    BY <1>1 DEF BusInv, Placed, SlavesOK
  <2>2. losses \in 0..MaxLosses /\ excused \subseteq Nodes /\ MaxLosses \in Nat
    BY BusConstants DEF BusInv, Placed, CountsOK
  <2>3. losses' \in 0..MaxLosses
    BY <1>1, <2>2
  <2>4. excused' \subseteq Nodes /\ excused \subseteq excused'
    BY <1>1, <2>2
  <2> QED
    BY <2>1, <2>3, <2>4 DEF CountsOK
<1>3. /\ InTurn'
      /\ \A n \in Nodes : \/ Unanswered(n)' = 0
                          \/ Head(wire) \in {Poll(n), Done(n)}
  BY <1>1, TurnGoesOn
<1>4. \A n \in Nodes : /\ Unanswered(n)' = 0 \/ n \in excused'
                       /\ Head(wire) # Announce(n, TRUE) \/ n \in excused'
  BY <1>1, <1>3
<1> QED
  BY <1>1, <1>2, <1>3, <1>4, FrameGonePlaces

(* A node changes by itself.                                               *)
LEMMA NodePlaces ==
    ASSUME BusInv, NEW n \in Nodes, NEW v \in Slaves, Len(v.queue) <= SlaveQueue,
           v.face = "App" /\ v.told => On("Announce", v.queue),
           v.face = "Off" => ~v.told,
           slave' = [slave EXCEPT ![n] = v], UNCHANGED <<mvars, wire, losses>>,
           excused' = excused \/ excused' = excused \cup {n},
           /\ On(Announce(n, FALSE), wire) =>
                  v.face = "App" \/ (v.face = "Off" /\ n \in excused')
           /\ On(Announce(n, TRUE), wire) =>
                  \/ v.face \in {"App", "Boot"}
                  \/ v.face = "Down" /\ v.told
                  \/ n \in excused',
           \/ n \in excused' \/ ~active[n]
           \/ ~Silent(v) /\ inBootloader[n] >= Owed(v) + Unanswered(n)
    PROVE  Placed'
<1>1. /\ SlavesOK' /\ slave'[n] = v
      /\ \A m \in Nodes : m # n => slave'[m] = slave[m]
  BY SlaveSet DEF BusInv, Placed
<1>2. /\ UNCHANGED <<state, pendingPollNode, active, inBootloader, wire, losses>>
      /\ excused \subseteq excused' /\ \A m \in Nodes : Unanswered(m)' = Unanswered(m)
  BY DEF mvars, Unanswered
<1>3. WireOK' /\ CountsOK' /\ InTurn'
  BY <1>2 DEF BusInv, Placed, WireOK, CountsOK, InTurn
<1>4. ASSUME NEW m \in Nodes PROVE Sincere(m)'
  <2>1. Sincere(m)
    BY Ranges
  <2>2. CASE m # n
    BY <1>1, <1>2, <2>1, <2>2 DEF Sincere, Speaks
  <2>3. CASE m = n
    BY <1>1, <1>2, <2>3 DEF Sincere, Speaks
  <2> QED
    BY <2>2, <2>3
<1>5. ASSUME NEW m \in Nodes PROVE Kept(m)'
  <2>1. CASE m # n
    BY <1>1, <1>2, <2>1, Ranges, KeptOn
  <2>2. CASE m = n
    BY <1>1, <1>2, <2>2 DEF Kept
  <2> QED
    BY <2>1, <2>2
<1> QED
  BY <1>1, <1>3, <1>4, <1>5 DEF Placed

(* A node that goes on as an application, has its power cut or comes on.   *)
LEMMA AlonePlaces ==
    ASSUME BusInv, NEW n \in Nodes,
           Publishes(n) \/ ComesUp(n) \/ PowerOff(n) \/ PowerOn(n)
    PROVE  Placed' /\ UNCHANGED active
<1> DEFINE s == slave[n]
<1>1. /\ slave \in [Nodes -> Slaves] /\ s \in Slaves /\ Len(s.queue) <= SlaveQueue
      /\ (s.face = "App" /\ s.told => On("Announce", s.queue))
      /\ inBootloader[n] \in Int /\ inBootloader[n] >= 0
      /\ Sincere(n) /\ Kept(n)
  BY Ranges, MasterConstants DEF BusInv, Placed, SlavesOK
<1>2. \A face \in {"App", "Boot", "Off"} :
          /\ Running(face) \in Slaves /\ Running(face).face = face
          /\ ~Running(face).told /\ Len(Running(face).queue) = 0
  BY FacesAre
<1>3. \A into \in {"App", "Boot"} : \A told \in BOOLEAN :
          /\ Down(into, told) \in Slaves /\ Down(into, told).face = "Down"
          /\ Down(into, told).told = told /\ Len(Down(into, told).queue) = 0
  BY FacesAre
<1>4. 0 <= SlaveQueue /\ Unanswered(n) \in {0, 1}
  BY BusConstants DEF Unanswered
<1>5. CASE Publishes(n)
  <2> DEFINE v == Queue(s, "Message")
  <2>1. /\ wire = <<>> /\ s.face = "App" /\ UNCHANGED <<mvars, wire, losses, excused>>
        /\ slave' = [slave EXCEPT ![n] = v]
    BY <1>1, <1>5 DEF Publishes
  <2>2. /\ v \in Slaves /\ Len(v.queue) <= SlaveQueue /\ v.face = "App"
        /\ v.told = s.told /\ \A f : On(f, s.queue) => On(f, v.queue)
    <3> HIDE DEF s
    <3> QED
      BY <1>1, <2>1, QueuedIs
  <2>3. ~On(Announce(n, FALSE), wire) /\ ~On(Announce(n, TRUE), wire)
    BY <2>1, Alone
  <2>4. \/ n \in excused \/ ~active[n]
        \/ inBootloader[n] >= 0 + Unanswered(n)
    <3>1. Owed(s) = 0 /\ s.face # "Down"
      BY <2>1 DEF Owed
    <3> QED
      BY <1>1, <3>1 DEF Kept
  <2> HIDE DEF v
  <2>5. Owed(v) = 0 /\ ~Silent(v)
    BY <2>2 DEF Owed, Silent
  <2>6. v.face = "App" /\ v.told => On("Announce", v.queue)
    BY <1>1, <2>1, <2>2
  <2>7. Placed'
    BY <2>1, <2>2, <2>3, <2>4, <2>5, <2>6, NodePlaces
  <2> QED
    BY <2>1, <2>7 DEF mvars
<1>6. CASE ComesUp(n)
  <2> DEFINE v == Running(s.into)
  <2>1. /\ s.face = "Down" /\ UNCHANGED <<mvars, wire, losses, excused>>
        /\ \A i \in 1..Len(wire) :
               wire[i] # Announce(n, TRUE) /\ wire[i] # Announce(n, FALSE)
        /\ slave' = [slave EXCEPT ![n] = v]
    BY <1>6 DEF ComesUp
  <2>2. s.into \in {"App", "Boot"} /\ s.missed \in 0..MaxMissed /\ MaxMissed \in Nat
    BY <1>1, BusConstants DEF Slaves
  <2>3. v \in Slaves /\ v.face = s.into /\ ~v.told /\ Len(v.queue) = 0
    <3> HIDE DEF s
    <3> QED
      BY <1>2, <2>2
  <2>4. ~On(Announce(n, FALSE), wire) /\ ~On(Announce(n, TRUE), wire)
    BY <2>1 DEF On
  <2> HIDE DEF v
  <2>5. ~Silent(v) /\ Owed(v) = IF s.into = "Boot" THEN MaxMissed ELSE 0
    BY <2>2, <2>3 DEF Silent, Owed
  <2>6. \/ n \in excused \/ ~active[n]
        \/ inBootloader[n] >= Owed(v) + Unanswered(n)
    <3>1. Owed(s) = IF s.into = "Boot" THEN 2 * MaxMissed - s.missed
                                       ELSE MaxMissed - s.missed
      BY <2>1 DEF Owed
    <3>2. n \in excused \/ ~active[n] \/ inBootloader[n] >= Owed(s) + Unanswered(n)
      BY <1>1, <2>4 DEF Kept
    <3> QED
      BY <1>1, <1>4, <2>2, <2>5, <3>1, <3>2
  <2>7. v.face # "Off" /\ Len(v.queue) <= SlaveQueue
    BY <1>4, <2>2, <2>3
  <2>8. Placed'
    BY <2>1, <2>3, <2>4, <2>5, <2>6, <2>7, NodePlaces
  <2> QED
    BY <2>1, <2>8 DEF mvars
<1>7. CASE PowerOff(n)
  <2> DEFINE v == Running("Off")
  <2>1. /\ UNCHANGED <<mvars, wire, losses>> /\ excused' = excused \cup {n}
        /\ slave' = [slave EXCEPT ![n] = v]
    BY <1>7 DEF PowerOff
  <2>2. v \in Slaves /\ v.face = "Off" /\ ~v.told /\ Len(v.queue) = 0
    BY <1>2
  <2> HIDE DEF v
  <2>3. Len(v.queue) <= SlaveQueue /\ n \in excused'
    BY <1>4, <2>1, <2>2
  <2>4. Placed'
    BY <2>1, <2>2, <2>3, NodePlaces
  <2> QED
    BY <2>1, <2>4 DEF mvars
<1>8. CASE PowerOn(n)
  <2>1. PICK face \in {"App", "Boot"} :
            /\ wire = <<>> /\ s.face = "Off" /\ UNCHANGED <<mvars, wire, losses, excused>>
            /\ slave' = [slave EXCEPT ![n] = Down(face, FALSE)]
    BY <1>8 DEF PowerOn
  <2> DEFINE v == Down(face, FALSE)
  <2>2. v \in Slaves /\ v.face = "Down" /\ Len(v.queue) = 0
    BY <1>3
  <2>3. ~On(Announce(n, FALSE), wire) /\ ~On(Announce(n, TRUE), wire)
    BY <2>1, Alone
  <2>4. n \in excused \/ ~active[n]
    <3>1. Silent(s) /\ s.face # "Down"
      BY <2>1 DEF Silent
    <3> QED
      BY <1>1, <3>1 DEF Kept
  <2>5. slave' = [slave EXCEPT ![n] = v]
    BY <2>1
  <2> HIDE DEF v
  <2>6. Len(v.queue) <= SlaveQueue /\ v.face # "Off" /\ v.face # "App"
    BY <1>4, <2>2
  <2>7. Placed'
    BY <2>1, <2>2, <2>3, <2>4, <2>5, <2>6, NodePlaces
  <2> QED
    BY <2>1, <2>7 DEF mvars
<1> QED
  BY <1>5, <1>6, <1>7, <1>8

-----------------------------------------------------------------------------
(* The bus starts with everybody in place...                               *)
LEMMA BusStarts == BusInit => BusInv
<1> SUFFICES ASSUME BusInit PROVE BusInv
  OBVIOUS
<1>1. IInv
  BY InitIInv DEF BusInit, Init
<1>2. /\ MasterInit /\ slave \in [Nodes -> {Running("App"), Running("Off")}]
      /\ wire = <<Discover>> /\ losses = 0 /\ excused = {}
  BY DEF BusInit
<1>3. \A face \in {"App", "Boot", "Off"} :
          /\ Running(face) \in Slaves /\ Running(face).face = face
          /\ ~Running(face).told /\ Len(Running(face).queue) = 0
  BY FacesAre
<1>4. SlavesOK
  <2>1. slave \in [Nodes -> Slaves]
    BY <1>2, <1>3
  <2>2. \A n \in Nodes : Len(slave[n].queue) <= SlaveQueue /\ ~slave[n].told
    BY <1>2, <1>3, BusConstants
  <2> QED
    BY <2>1, <2>2 DEF SlavesOK
<1>5. WireOK
  <2>1. wire \in Seq(WireFrames) /\ Len(wire) = 1
    BY <1>2, FramesAre
  <2>2. 1 <= QueueSize + SlaveQueue + MaxNodes + 1
    BY MasterConstants, BusConstants
  <2> QED
    BY <2>1, <2>2 DEF WireOK
<1>6. CountsOK /\ InTurn
  BY <1>2, BusConstants DEF CountsOK, InTurn, MasterInit
<1>7. ASSUME NEW n \in Nodes PROVE Sincere(n) /\ Kept(n)
  <2>1. \A b \in BOOLEAN : ~On(Announce(n, b), wire)
    <3> SUFFICES ASSUME NEW b \in BOOLEAN, On(Announce(n, b), <<Discover>>) PROVE FALSE
      BY <1>2
    <3>1. Announce(n, b) = Discover /\ Discover \in Questions
      BY Alone DEF Questions
    <3> QED
      BY <3>1, FramesDiffer
  <2>2. ~active[n]
    BY <1>2 DEF MasterInit
  <2> QED
    BY <2>1, <2>2 DEF Sincere, Kept
<1> QED
  BY <1>1, <1>4, <1>5, <1>6, <1>7 DEF BusInv, Placed

(* ... and stays so, and whoever is given up is excused.                   *)
LEMMA BusGoesOn ==
    ASSUME BusInv, [BusNext]_allVars
    PROVE  /\ BusInv'
           /\ \A n \in Nodes : active[n] /\ ~active'[n] => n \in excused
<1>1. IInv'
  BY BusMoves, NextIInv DEF BusInv
<1>2. CASE MasterLoops
  BY <1>1, <1>2, MasterLoopsPlaces DEF BusInv
<1>3. CASE CommandArrives
  BY <1>1, <1>3, NothingMoves DEF BusInv, CommandArrives, QueueMessage
<1>4. CASE SlaveHears
  <2>1. Placed' /\ active' = active
    BY <1>4, HearsPlaces DEF SlaveHears, mvars
  <2> QED
    BY <1>1, <2>1 DEF BusInv
<1>5. CASE MasterHears
  BY <1>1, <1>5, MasterHearsPlaces DEF BusInv
<1>6. CASE LoseFrame
  <2>1. Placed' /\ active' = active
    BY <1>6, LosePlaces DEF LoseFrame, mvars
  <2> QED
    BY <1>1, <2>1 DEF BusInv
<1>7. CASE \E n \in Nodes : Publishes(n) \/ ComesUp(n) \/ PowerOff(n) \/ PowerOn(n)
  <2>1. Placed' /\ active' = active
    BY <1>7, AlonePlaces
  <2> QED
    BY <1>1, <2>1 DEF BusInv
<1>8. CASE UNCHANGED allVars
  <2>1. Placed'
    BY <1>8, NothingMoves DEF allVars, busVars, mvars
  <2> QED
    BY <1>1, <1>8, <2>1 DEF BusInv, allVars, busVars, mvars
<1> QED
  BY <1>2, <1>3, <1>4, <1>5, <1>6, <1>7, <1>8 DEF BusNext

(* On every bus, with any number of nodes and losses.                      *)
LEMMA BusInvariance == BusSpec => []BusInv
BY BusStarts, BusGoesOn, PTL DEF BusSpec

(* Every slave, frame and count of the bus stays in its range.             *)
THEOREM BusTypeCorrect == BusSpec => []BusTypeOK
<1>1. BusInv => BusTypeOK
  <2> SUFFICES ASSUME BusInv PROVE BusTypeOK
    OBVIOUS
  <2>1. \A n \in Nodes : slave[n] \in Slaves /\ Len(slave[n].queue) <= SlaveQueue
    BY DEF BusInv, Placed, SlavesOK
  <2> QED
    BY <2>1 DEF BusInv, IInv, Placed, WireOK, CountsOK, BusTypeOK
<1> QED
  BY <1>1, BusInvariance, PTL

(* The master gives up only a node it has a reason to give up: whoever is  *)
(* updated on command keeps its place, into its bootloader and out of it.  *)
THEOREM KeepsItsPlace == BusSpec => BootloaderKeepsItsPlace
<1> DEFINE Excused == \A n \in Nodes : active[n] /\ ~active'[n] => n \in excused
<1>1. BusInv /\ [BusNext]_allVars => [Excused]_allVars
  BY BusGoesOn
<1> QED
  BY <1>1, BusInvariance, PTL DEF BusSpec, BootloaderKeepsItsPlace

=============================================================================
