----------------------------- MODULE NodeMaster -----------------------------
(***************************************************************************)
(* The RS485 bus master of the MainController: NodeLib::NodeMaster and the *)
(* transmit queue it inherits from NodeLib::Node                           *)
(* (Software/Lib/NodeLib/NodeMaster.cpp, Node.cpp).                        *)
(*                                                                         *)
(* The master enumerates the slaves with a broadcast Discover, then grants *)
(* the bus to one slave at a time with a Poll and waits for that slave's   *)
(* Done or for the poll timeout.  This module has the master alone, with   *)
(* an environment that may hand it any Announce or Done at any time: late, *)
(* repeated or from a node that was given up.  NodeBus gives it a wire     *)
(* and real slaves.                                                        *)
(*                                                                         *)
(* Timers are abstract: a running timer may expire at any Loop().  Left    *)
(* out of SNode are the module type and the time of the last contact,      *)
(* which no decision here depends on, and the master's own heartbeat,      *)
(* whose lapse is only logged.                                             *)
(*                                                                         *)
(* The operators marked "Bug" are not the code: each is the definition     *)
(* that follows it with one plausible mistake, kept to show that a         *)
(* property notices.                                                       *)
(***************************************************************************)
EXTENDS Integers, Sequences

CONSTANTS
    MaxNodes,    \* MAX_NODES: slaves have the bus addresses 1..MaxNodes
    QueueSize,   \* Node::queueSize, messages the transmit queue holds
    BootGrace    \* missed polls forgiven to a node in its bootloader (200)

ASSUME MasterConstants ==
    /\ MaxNodes \in Nat \ {0}
    /\ QueueSize \in Nat \ {0}
    /\ BootGrace \in Nat \ {0}

Nodes == 1..MaxNodes

VARIABLES
    state,            \* EMasterState
    active,           \* SNode::active of every slave
    inBootloader,     \* SNode::inBootloader of every slave, a countdown
    nodesFound,
    pendingPollNode,  \* the slave polled last, 0 before the first poll
    messagesQueued,
    tx                \* the frames written to the UART by the last step

mvars == <<state, active, inBootloader, nodesFound, pendingPollNode,
           messagesQueued, tx>>

MasterStates == {"Start", "Detecting", "Flush", "Pollgap", "Polling"}

Discover == [op |-> "Discover", node |-> 0]
Poll(n)  == [op |-> "Poll", node |-> n]
Queued   == [op |-> "Queued", node |-> 0]   \* the flushed messages, as one

Frames == {Discover, Queued} \cup {Poll(n) : n \in Nodes}

-----------------------------------------------------------------------------
(* The round robin: distance from address a to address n, going upwards    *)
(* and wrapping after MaxNodes; MaxNodes when a = n.                       *)

Gap(a, n) == IF n > a THEN n - a ELSE n - a + MaxNodes

(* Bug: the search starts over at the first address.                       *)
FirstActive(prev) ==
    CHOOSE n \in Nodes : active[n] /\ \A k \in Nodes : active[k] => n <= k

NextActive(prev) ==
    CHOOSE n \in Nodes :
        active[n] /\ \A k \in Nodes : active[k] => Gap(prev, n) <= Gap(prev, k)

AnyActive == \E n \in Nodes : active[n]

-----------------------------------------------------------------------------
(* NodeMaster() and Init(), which runs DetectNodes().                      *)

MasterInit ==
    /\ state = "Detecting"
    /\ active = [n \in Nodes |-> FALSE]
    /\ inBootloader = [n \in Nodes |-> 0]
    /\ nodesFound = FALSE
    /\ pendingPollNode = 0
    /\ messagesQueued = 0
    /\ tx = <<Discover>>

DetectNodes ==
    /\ state' = "Detecting"
    /\ tx' = <<Discover>>
    /\ UNCHANGED <<nodesFound, pendingPollNode, messagesQueued>>

(* PollNextNode(pendingPollNode); detectDue is detectTimer.Finished().     *)
PollNextNode(detectDue) ==
    IF detectDue THEN DetectNodes
    ELSE IF nodesFound
    THEN LET n == NextActive(pendingPollNode) IN
         /\ state' = "Polling"
         /\ tx' = <<Poll(n)>>
         /\ pendingPollNode' = n
         /\ UNCHANGED <<nodesFound, messagesQueued>>
    ELSE /\ state' = "Flush"
         /\ tx' = <<>>
         /\ UNCHANGED <<nodesFound, pendingPollNode, messagesQueued>>

-----------------------------------------------------------------------------
(* The state switch of NodeMaster::Loop(), one action per case.            *)

DetectWindowOver ==
    /\ state = "Detecting"
    /\ state' = "Flush"
    /\ tx' = <<>>
    /\ UNCHANGED <<active, inBootloader, nodesFound, pendingPollNode,
                   messagesQueued>>

(* flushQueue(): everything queued goes out, then the poll gap starts.     *)
FlushQueue ==
    /\ state = "Flush"
    /\ messagesQueued > 0
    /\ state' = "Pollgap"
    /\ messagesQueued' = 0
    /\ tx' = <<Queued>>
    /\ UNCHANGED <<active, inBootloader, nodesFound, pendingPollNode>>

FlushEmpty(detectDue) ==
    /\ state = "Flush"
    /\ messagesQueued = 0
    /\ PollNextNode(detectDue)
    /\ UNCHANGED <<active, inBootloader>>

PollGapOver(detectDue) ==
    /\ state = "Pollgap"
    /\ PollNextNode(detectDue)
    /\ UNCHANGED <<active, inBootloader>>

(* Bug: it is forgiven for ever.                                           *)
ForgivenForEver ==
    /\ state = "Polling"
    /\ inBootloader[pendingPollNode] > 0
    /\ state' = "Flush"
    /\ tx' = <<>>
    /\ UNCHANGED <<active, inBootloader, nodesFound, pendingPollNode,
                   messagesQueued>>

(* pollTimeout.Finished() for a node forgiven because it is flashing...    *)
PollTimeoutForgiven ==
    /\ state = "Polling"
    /\ inBootloader[pendingPollNode] > 0
    /\ state' = "Flush"
    /\ inBootloader' = [inBootloader EXCEPT ![pendingPollNode] = @ - 1]
    /\ tx' = <<>>
    /\ UNCHANGED <<active, nodesFound, pendingPollNode, messagesQueued>>

(* Bug: the cached nodesFound is left as it was.                           *)
TimeoutKeepsNodesFound ==
    /\ state = "Polling"
    /\ inBootloader[pendingPollNode] = 0
    /\ state' = "Flush"
    /\ active' = [active EXCEPT ![pendingPollNode] = FALSE]
    /\ tx' = <<>>
    /\ UNCHANGED <<inBootloader, nodesFound, pendingPollNode, messagesQueued>>

(* ... and for any other node, which is lost.                              *)
PollTimeoutLost ==
    /\ state = "Polling"
    /\ inBootloader[pendingPollNode] = 0
    /\ state' = "Flush"
    /\ active' = [active EXCEPT ![pendingPollNode] = FALSE]
    /\ nodesFound' = \E n \in Nodes : active'[n]
    /\ tx' = <<>>
    /\ UNCHANGED <<inBootloader, pendingPollNode, messagesQueued>>

-----------------------------------------------------------------------------
(* Frames received: HandleInternalOperation() and NodeHello().             *)

(* Bug: the cached nodesFound is left as it was.                           *)
AnnounceKeepsNodesFound(n, bootloader) ==
    /\ active' = [active EXCEPT ![n] = TRUE]
    /\ inBootloader' = [inBootloader EXCEPT ![n] =
                            IF bootloader THEN BootGrace ELSE 0]
    /\ tx' = <<>>
    /\ UNCHANGED <<state, nodesFound, pendingPollNode, messagesQueued>>

ReceiveAnnounce(n, bootloader) ==
    /\ active' = [active EXCEPT ![n] = TRUE]
    /\ inBootloader' = [inBootloader EXCEPT ![n] =
                            IF bootloader THEN BootGrace ELSE 0]
    /\ nodesFound' = TRUE
    /\ tx' = <<>>
    /\ UNCHANGED <<state, pendingPollNode, messagesQueued>>

(* A Done moves the round robin on only if it is from the node polled last *)
(* -- whatever the master is doing by the time it arrives.                 *)
ReceiveDone(n) ==
    /\ state' = IF n = pendingPollNode THEN "Flush" ELSE state
    /\ tx' = <<>>
    /\ UNCHANGED <<active, inBootloader, nodesFound, pendingPollNode,
                   messagesQueued>>

(* QueueMessage(), from UplinkHandler and BudgetAllocator; a message that  *)
(* finds the queue full is dropped and counted in queueDrops.              *)
QueueMessage ==
    /\ messagesQueued' = IF messagesQueued < QueueSize
                         THEN messagesQueued + 1 ELSE messagesQueued
    /\ tx' = <<>>
    /\ UNCHANGED <<state, active, inBootloader, nodesFound, pendingPollNode>>

LoopStep ==
    \/ DetectWindowOver
    \/ FlushQueue
    \/ \E due \in BOOLEAN : FlushEmpty(due)
    \/ \E due \in BOOLEAN : PollGapOver(due)
    \/ PollTimeoutForgiven
    \/ PollTimeoutLost

MasterNext ==
    \/ LoopStep
    \/ \E n \in Nodes, bootloader \in BOOLEAN : ReceiveAnnounce(n, bootloader)
    \/ \E n \in Nodes : ReceiveDone(n)
    \/ QueueMessage

-----------------------------------------------------------------------------
(* History, for the fairness of the round robin: the nodes polled since n  *)
(* was last polled or (re)joined the roster.                               *)

VARIABLE polledSince

vars == <<mvars, polledSince>>

Init == MasterInit /\ polledSince = [n \in Nodes |-> {}]

RecordPolls ==
    polledSince' =
        [n \in Nodes |->
            IF ~active[n] \/ tx' = <<Poll(n)>> THEN {}
            ELSE polledSince[n] \cup {k \in Nodes : tx' = <<Poll(k)>>}]

Next == MasterNext /\ RecordPolls

Spec == Init /\ [][Next]_vars

-----------------------------------------------------------------------------
TypeOK ==
    /\ state \in MasterStates
    /\ active \in [Nodes -> BOOLEAN]
    /\ inBootloader \in [Nodes -> 0..BootGrace]
    /\ nodesFound \in BOOLEAN
    /\ pendingPollNode \in 0..MaxNodes
    /\ messagesQueued \in 0..QueueSize
    /\ tx \in {<<>>} \cup {<<f>> : f \in Frames}
    /\ polledSince \in [Nodes -> SUBSET Nodes]

(* nodesFound is a cached "some node is active".  PollNextNode()'s search  *)
(* for the next active node has no other bound: were the cache ever stale, *)
(* the main loop would spin in it until the watchdog bites.                *)
NodesFoundExact == nodesFound <=> AnyActive

(* While the master waits for an answer, the node it waits for is on the   *)
(* roster: the timeout that follows always removes or forgives a real one. *)
PollingAnActiveNode ==
    state = "Polling" => pendingPollNode \in Nodes /\ active[pendingPollNode]

(* Bounded bypass: no node is polled a second time while a node that is on *)
(* the roster all along is still waiting for its first -- whatever         *)
(* Announces, late Dones, losses and rediscoveries come in between.        *)
NoBypass ==
    [][\A n \in Nodes, k \in Nodes :
          (active[n] /\ k # n /\ tx' = <<Poll(k)>>) => k \notin polledSince[n]]_vars

=============================================================================
