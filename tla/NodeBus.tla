------------------------------ MODULE NodeBus -------------------------------
(***************************************************************************)
(* The RS485 bus: the master of NodeMaster and the slaves of NodeLib::Node *)
(* and Boot::FirmwareSlave, on one wire that can lose frames.              *)
(*                                                                         *)
(* The wire holds the frames of the current exchange in the order they are *)
(* sent.  It is half duplex and a slave only talks when it is asked, so    *)
(* the exchange is over when the wire is empty, and only then does one of  *)
(* the master's timers run out: the Discover window is wider than the last *)
(* announce slot and the poll timeout longer than an answer.  A slave that *)
(* answers later than that is one that does not answer.  (NodeMaster alone *)
(* allows late answers.)                                                   *)
(*                                                                         *)
(* What a message says is left out, except for the Announce and the        *)
(* commands that restart a node.  What the master has queued is a count,   *)
(* as in NodeMaster: which commands they are is chosen as they go out.     *)
(*                                                                         *)
(* What is queued, and a node that is switched on, matters to the next     *)
(* exchange only, so those steps are taken between two exchanges.          *)
(***************************************************************************)
EXTENDS NodeMaster

CONSTANTS
    Orders,       \* the commands the server gives; a bound
    SlaveQueue,   \* Node::queueSize (30)
    MaxMissed,    \* polls a restarting node misses; a bound
    MaxLosses     \* frames that get lost; a bound

ASSUME BusConstants ==
    /\ Orders \subseteq {"EnterBootloader", "ResetApp", "ResetBoot", "Activate"}
    /\ SlaveQueue \in Nat \ {0}
    /\ MaxMissed \in Nat
    /\ MaxLosses \in Nat
    /\ 2 * MaxMissed <= BootGrace   \* into the bootloader and out again

VARIABLES
    slave,      \* every node, in Slaves
    wire,       \* the frames under way
    losses,     \* frames lost so far
    excused     \* history: the nodes the master has a reason to give up

busVars == <<mvars, slave, wire, losses, excused>>
allVars == <<busVars, polledSince>>

(* A node runs its application or its bootloader, is restarting (Down), or *)
(* is gone (Off).                                                          *)
Slaves ==
    [face   : {"App", "Boot", "Down", "Off"},
     queue  : Seq({"Message", "Announce"}),   \* App: messageQueue
     reset  : {"No", "App", "Boot"},          \* App: resetPending and where to
     into   : {"App", "Boot"},                \* Down: what is being started
     told   : BOOLEAN,                        \* history: a restart announced
     missed : 0..MaxMissed]                   \* Down: the polls missed

Face(face, into, told) ==
    [face |-> face, queue |-> <<>>, reset |-> "No", into |-> into,
     told |-> told, missed |-> 0]

Running(face) == Face(face, "App", FALSE)
Down(into, told) == Face("Down", into, told)

Commands == [op : Orders, node : Nodes]

Announce(n, bootloader) ==
    [op |-> IF bootloader THEN "AnnounceBoot" ELSE "AnnounceApp", node |-> n]
Done(n)  == [op |-> "Done", node |-> n]
Reply(n) == [op |-> "Reply", node |-> n]

WireFrames ==
    Frames \cup Commands \cup
    {Announce(n, b) : n \in Nodes, b \in BOOLEAN} \cup
    {Done(n) : n \in Nodes} \cup {Reply(n) : n \in Nodes}

BusInit ==
    /\ MasterInit
    /\ polledSince = [n \in Nodes |-> {}]
    /\ slave \in [Nodes -> {Running("App"), Running("Off")}]
    /\ wire = <<Discover>>
    /\ losses = 0
    /\ excused = {}

-----------------------------------------------------------------------------
(* The master between two exchanges.                                       *)

MasterLoops ==
    /\ wire = <<>>
    /\ LoopStep
    /\ IF tx' = <<Queued>> THEN wire' \in [1..messagesQueued -> Commands]
       ELSE wire' = tx'
    /\ RecordPolls
    /\ UNCHANGED <<slave, losses, excused>>

(* A command from the server, by way of UplinkHandler.                     *)
CommandArrives ==
    /\ wire = <<>>
    /\ QueueMessage
    /\ RecordPolls
    /\ UNCHANGED <<slave, wire, losses, excused>>

-----------------------------------------------------------------------------
(* A slave hears a frame: Node::HandleMessage(), FirmwareSlave::OnMessage().*)

Speaks(n) == slave[n].face \in {"App", "Boot"}

(* HandleDiscoverRequest(), SendAnnounce(): each node in its own slot.     *)
Announcements ==
    LET upTo[k \in 0..MaxNodes] ==
            IF k = 0 THEN <<>>
            ELSE IF Speaks(k)
                 THEN Append(upTo[k - 1], Announce(k, slave[k].face = "Boot"))
                 ELSE upTo[k - 1]
    IN  upTo[MaxNodes]

HearDiscover ==
    /\ wire' = Tail(wire) \o Announcements
    /\ UNCHANGED <<slave, excused>>

Full(s) == Len(s.queue) = SlaveQueue

(* Node::QueueMessage(): what finds the queue full is dropped.             *)
Queue(s, m) == IF Full(s) THEN s ELSE [s EXCEPT !.queue = Append(@, m)]

(* Bug: the master is not told.                                            *)
EnterBootloaderUntold(s) ==
    LET acked == Queue(s, "Message")
    IN  [acked EXCEPT !.reset = "Boot", !.told = @ \/ ~Full(acked)]

(* HandleFirmwareMessage(): Ack and Announce, ahead of the reset.          *)
EnterBootloader(s) ==
    LET acked == Queue(s, "Message")
    IN  [Queue(acked, "Announce") EXCEPT !.reset = "Boot",
                                         !.told = @ \/ ~Full(acked)]

(* SystemControl resets with an Ack only; anything else is refused.        *)
AppHears(s, op) ==
    CASE op = "EnterBootloader" -> EnterBootloader(s)
      [] op = "ResetApp"  -> [Queue(s, "Message") EXCEPT !.reset = "App"]
      [] op = "ResetBoot" -> [Queue(s, "Message") EXCEPT !.reset = "Boot"]
      [] OTHER -> Queue(s, "Message")

(* A resident bootloader leaves by Activate, if its image is valid; of the *)
(* other orders it knows none.                                             *)
HearCommand(c) ==
    /\ wire' = Tail(wire)
    /\ LET s == slave[c.node] IN
       \E heard \in CASE s.face = "App" -> {AppHears(s, c.op)}
                      [] s.face = "Boot" /\ c.op = "Activate" ->
                             {s, Down("App", TRUE)}
                      [] OTHER -> {s} :
           slave' = [slave EXCEPT ![c.node] = heard]
    /\ UNCHANGED excused

(* flushQueue(): what is queued, and the Done that gives the bus back.     *)
Flushed(n) ==
    [i \in 1..Len(slave[n].queue) |->
        IF slave[n].queue[i] = "Announce" THEN Announce(n, TRUE)
        ELSE Reply(n)] \o <<Done(n)>>

(* An application restarts once its replies are out, on command.           *)
AppPolled(n) ==
    LET s == slave[n] IN
        /\ s.face = "App"
        /\ wire' = Tail(wire) \o Flushed(n)
        /\ slave' = [slave EXCEPT ![n] = IF s.reset = "No" THEN Running("App")
                                         ELSE Down(s.reset, s.told)]
        /\ excused' = IF s.reset = "No" \/ s.told THEN excused
                      ELSE excused \cup {n}

(* A bootloader programs what it staged and answers.                       *)
BootPolled(n) ==
    /\ slave[n].face = "Boot"
    /\ wire' = Tail(wire) \o <<Reply(n), Done(n)>>
    /\ UNCHANGED <<slave, excused>>

PollMissed(n) ==
    /\ \/ slave[n].face = "Off"
       \/ slave[n].face = "Down" /\ slave[n].missed < MaxMissed
    /\ wire' = Tail(wire)
    /\ slave' = [slave EXCEPT ![n].missed =
                    IF slave[n].face = "Down" THEN @ + 1 ELSE @]
    /\ UNCHANGED excused

HearPoll(n) == AppPolled(n) \/ BootPolled(n) \/ PollMissed(n)

SlaveHears ==
    /\ wire # <<>>
    /\ \/ Head(wire) = Discover /\ HearDiscover
       \/ \E n \in Nodes : Head(wire) = Poll(n) /\ HearPoll(n)
       \/ \E c \in Commands : Head(wire) = c /\ HearCommand(c)
    /\ UNCHANGED <<mvars, polledSince, losses>>

-----------------------------------------------------------------------------
(* The master hears a frame.  An Announce from a node that is up, or that  *)
(* goes down with it, ends the excuse.                                     *)

MasterHears ==
    /\ wire # <<>>
    /\ wire' = Tail(wire)
    /\ \E n \in Nodes :
       \/ /\ \E b \in BOOLEAN : Head(wire) = Announce(n, b) /\ ReceiveAnnounce(n, b)
          /\ RecordPolls
          /\ excused' = IF Speaks(n) \/ slave[n].told THEN excused \ {n} ELSE excused
       \/ Head(wire) = Done(n) /\ ReceiveDone(n) /\ RecordPolls /\ UNCHANGED excused
       \/ Head(wire) = Reply(n) /\ UNCHANGED <<mvars, polledSince, excused>>
    /\ UNCHANGED <<slave, losses>>

(* A frame is garbled: its CRC fails and whoever hears it drops it.        *)
LoseFrame ==
    /\ wire # <<>>
    /\ losses < MaxLosses
    /\ losses' = losses + 1
    /\ wire' = Tail(wire)
    /\ excused' = excused \cup
           {n \in Nodes : Head(wire) \in {Poll(n), Done(n), Announce(n, TRUE)}}
    /\ UNCHANGED <<mvars, polledSince, slave>>

-----------------------------------------------------------------------------
(* What a node does by itself.                                             *)

(* A status or a published value is queued until the next poll.            *)
Publishes(n) ==
    /\ wire = <<>>
    /\ slave[n].face = "App"
    /\ slave' = [slave EXCEPT ![n] = Queue(@, "Message")]
    /\ UNCHANGED <<mvars, polledSince, wire, losses, excused>>

(* Starting up takes far longer than a frame: what the node said before it *)
(* went down has arrived.                                                  *)
ComesUp(n) ==
    /\ slave[n].face = "Down"
    /\ \A i \in 1..Len(wire) :
           wire[i] \notin {Announce(n, TRUE), Announce(n, FALSE), Done(n), Reply(n)}
    /\ slave' = [slave EXCEPT ![n] = Running(slave[n].into)]
    /\ UNCHANGED <<mvars, polledSince, wire, losses, excused>>

PowerOff(n) ==
    /\ slave[n].face # "Off"
    /\ slave' = [slave EXCEPT ![n] = Running("Off")]
    /\ excused' = excused \cup {n}
    /\ UNCHANGED <<mvars, polledSince, wire, losses>>

PowerOn(n) ==
    /\ wire = <<>>
    /\ slave[n].face = "Off"
    /\ \E face \in {"App", "Boot"} :
           slave' = [slave EXCEPT ![n] = Down(face, FALSE)]
    /\ UNCHANGED <<mvars, polledSince, wire, losses, excused>>

BusNext ==
    \/ MasterLoops \/ CommandArrives
    \/ SlaveHears \/ MasterHears \/ LoseFrame
    \/ \E n \in Nodes :
           Publishes(n) \/ ComesUp(n) \/ PowerOff(n) \/ PowerOn(n)

(* The master's loop and the wire go on, and a restart ends.  The          *)
(* rediscovery (every 15 s) comes round again and again, and in between    *)
(* (the Discover window is 230 ms) so does a poll, unless the master keeps *)
(* running out of nodes.                                                   *)
BusFairness ==
    /\ WF_allVars(MasterLoops)
    /\ WF_allVars(SlaveHears \/ MasterHears)
    /\ \A n \in Nodes : WF_allVars(ComesUp(n))
    /\ []<><<MasterLoops /\ wire' = <<Discover>>>>_allVars
    /\ \/ []<>~nodesFound
       \/ []<><<MasterLoops /\ state' = "Polling" /\ wire' # <<>>>>_allVars

BusSpec == BusInit /\ [][BusNext]_allVars /\ BusFairness

-----------------------------------------------------------------------------
BusTypeOK ==
    /\ TypeOK
    /\ \A n \in Nodes : slave[n] \in Slaves /\ Len(slave[n].queue) <= SlaveQueue
    /\ wire \in Seq(WireFrames)
    /\ Len(wire) <= QueueSize + SlaveQueue + MaxNodes + 1
    /\ losses \in 0..MaxLosses
    /\ excused \subseteq Nodes

(* A node keeps its place on the roster through a commanded update -- into *)
(* the bootloader by EnterBootloader, and out of it by Activate -- whoever *)
(* else is restarting, polled or rediscovered meanwhile.  The master gives *)
(* up only a node that lost its power or a frame of its poll, or restarted *)
(* with its announcement dropped or by a plain reset (Node.cpp:398-410).   *)
BootloaderKeepsItsPlace ==
    [][\A n \in Nodes : active[n] /\ ~active'[n] => n \in excused]_allVars

(* A node that stays up is polled for ever, and so are all its neighbours: *)
(* whatever was lost before, and whoever else leaves or restarts, it is    *)
(* found again and gets its turn.                                          *)
UpNodeIsPolled ==
    \A n \in Nodes : <>[]Speaks(n) => []<>(wire = <<Poll(n)>>)

(* A node that is gone leaves the roster for good, from its bootloader     *)
(* too: the polls forgiven to it run out.                                  *)
GoneNodeLeaves ==
    \A n \in Nodes : <>[](slave[n].face = "Off") => <>[]~active[n]

=============================================================================
