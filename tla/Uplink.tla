-------------------------------- MODULE Uplink --------------------------------
(***************************************************************************)
(* The uplink: how the server learns which nodes are on the bus.  The      *)
(* MainController's side is UplinkHandler and ThermostatMonitor            *)
(* (Software/Modules/MainController) over the link of NinaLink; the        *)
(* server's side is uplink.Server (Webserver/internal/uplink/server.go)    *)
(* and the handlers of service.go it calls.                                *)
(*                                                                         *)
(* The server runs one goroutine per connection (serveConn), and a         *)
(* connection the module was reset out of is still there, half open, when  *)
(* the next one arrives: a slot of conns is one such goroutine with what   *)
(* is on the wire to it.                                                   *)
(*                                                                         *)
(* The bus is left to NodeMaster: here its nodes come, go and change       *)
(* program as they please.  The downlink carries nothing but the answer to *)
(* a keepalive.                                                            *)
(***************************************************************************)
EXTENDS NinaLink, FiniteSets

CONSTANTS
    Nodes,       \* the bus nodes
    Paired,      \* the ControllerNode whose Thermostat is watched
    QueueSize,   \* outboundQueueSize (32)
    Ring,        \* frames the port and the module hold
    Slots        \* connections the server can be serving at a time; a bound

ASSUME UplinkConstants ==
    /\ IsFiniteSet(Nodes) /\ Paired \in Nodes
    /\ QueueSize \in Nat /\ QueueSize >= Cardinality(Nodes) + 2
    /\ Ring \in Nat \ {0}
    /\ Slots \in Nat \ {0}

VARIABLES
    bus,        \* NodeMaster: what is known of each node
    presence,   \* nodePresenceActive and nodePresenceBootloader
    monitor,    \* ThermostatMonitor's entry of Paired
    queue,      \* outboundQueue
    awaiting,   \* keepaliveReplyTimer is running
    peer,       \* the connection the module is in, 0 for none
    conns,      \* the server's connections
    active,     \* Server.active, 0 for nil
    rosterIDs,  \* Service.rosterIDs
    store,      \* the nodes table: online, and state = bootloader
    thermostat, \* the stored ThermostatStatus of Paired
    shown,      \* the hub shows the uplink as up
    lost,       \* a frame about a node was dropped in this session
    clean       \* the session had the server to itself from its first frame

link    == <<nina, modem, happened>>
master  == <<bus, presence, monitor, queue, awaiting>>
server  == <<active, rosterIDs, store, thermostat, shown, clean>>
vars    == <<link, master, peer, conns, server, lost>>

Presences == {"gone", "app", "boot"}

(* The frames for the server.                                              *)
Hello            == [is |-> "Hello"]
RosterEntry(n)   == [is |-> "Entry", node |-> n, as |-> bus[n]]
RosterEnd        == [is |-> "End"]
NodePresence(n)  == [is |-> "Presence", node |-> n, as |-> bus[n]]
Relayed(n)       == [is |-> "Relayed", node |-> n]
ThermostatStatus == [is |-> "Thermostat", link |-> monitor.link]
Keepalive        == [is |-> "Keepalive"]

News == {"Entry", "End", "Presence"}

NoConn == [phase |-> "free", open |-> FALSE, wire |-> <<>>, chunk |-> <<>>,
           back |-> FALSE]

(* The module is started when the nodes have been discovered.              *)
Init ==
    /\ NinaInit
    /\ bus = [n \in Nodes |-> "app"]
    /\ presence = [n \in Nodes |-> "gone"]
    /\ monitor = [link |-> "unknown", due |-> FALSE]
    /\ queue = <<>>
    /\ awaiting = FALSE
    /\ peer = 0
    /\ conns = [c \in 1..Slots |-> NoConn]
    /\ active = 0
    /\ rosterIDs = {}
    /\ store = [n \in Nodes |-> [online |-> FALSE, boot |-> FALSE]]
    /\ thermostat = "unknown"
    /\ shown = FALSE
    /\ lost = FALSE
    /\ clean = TRUE

InDataMode == nina.state = "DataMode"

(* The intervals of the keepalive and of the monitor are long against what *)
(* a frame takes to be dealt with.                                         *)
Quiet == queue \o conns[peer].wire \o conns[peer].chunk = <<>>

-----------------------------------------------------------------------------
(* The MainController: what goes out.                                      *)

(* Send(), for each of a sequence of frames.                               *)
Staged(q, frames) == SubSeq(q \o frames, 1,
    IF Len(q) + Len(frames) < QueueSize THEN Len(q) + Len(frames) ELSE QueueSize)

Drops(q, frames) ==
    \E i \in 1..Len(frames) : Len(q) + i > QueueSize /\ frames[i].is \in News

(* SendRoster(): the active nodes and the terminator.  The code goes       *)
(* through the nodes by their ids, which nothing here depends on.          *)
Roster ==
    LET listed == SetToSeq({n \in Nodes : bus[n] # "gone"})
    IN  [i \in 1..Len(listed) |-> RosterEntry(listed[i])] \o <<RosterEnd>>

(* Dumping the roster makes it the snapshot.                               *)
Snapshot == bus

(* Bug: a node whose program changed is not reported.                      *)
ChangedComesAndGoes(n) == (bus[n] = "gone") # (presence[n] = "gone")

Changed(n) == bus[n] # presence[n]

(* CheckNodePresence(): the frames.                                        *)
PresenceNews ==
    LET changed == SetToSeq({n \in Nodes : Changed(n)})
    IN  [i \in 1..Len(changed) |-> NodePresence(changed[i])]

(* Bug: a status is taken from the monitor whatever room there is.         *)
StatusFitsAlways(q) == monitor.due

(* PushThermostatStatus(): only under half full.                           *)
StatusFits(q) == monitor.due /\ Len(q) < QueueSize \div 2

(* The relays of DrainDataMode(): what changed is staged, and as much of   *)
(* the queue as the port takes is written.  In a connection that is no     *)
(* longer open it goes nowhere.                                            *)
Passes ==
    LET checked == Staged(queue, PresenceNews)
        full    == IF StatusFits(checked)
                   THEN Staged(checked, <<ThermostatStatus>>) ELSE checked
        takes   == IF ~conns[peer].open THEN Len(full)
                   ELSE Min({Len(full), Ring - Len(conns[peer].wire)})
    IN  /\ InDataMode
        /\ takes > 0 \/ PresenceNews # <<>> \/ StatusFits(checked)
        /\ presence' = bus
        /\ monitor' = [monitor EXCEPT !.due = @ /\ ~StatusFits(checked)]
        /\ queue' = SubSeq(full, takes + 1, Len(full))
        /\ conns' = IF conns[peer].open
                    THEN [conns EXCEPT ![peer].wire = @ \o SubSeq(full, 1, takes)]
                    ELSE conns
        /\ lost' = (lost \/ Drops(queue, PresenceNews))
        /\ UNCHANGED <<link, bus, awaiting, peer, server>>

(* Bug: what was staged for the last connection stays in front.            *)
OpeningKeepsQueue == Staged(queue, <<Hello>> \o Roster)

(* StartSession(): the hello, then OnConnected().                          *)
Opening == Staged(<<>>, <<Hello>> \o Roster)

(* ResendAll().                                                            *)
Resend == [monitor EXCEPT !.due = monitor.link # "unknown"]

StartsSession ==
    /\ nina.state = "DataModeSettle"
    /\ nina' = To("DataMode")
    /\ queue' = Opening
    /\ presence' = Snapshot
    /\ monitor' = Resend
    /\ awaiting' = FALSE
    /\ lost' = FALSE
    /\ UNCHANGED <<modem, happened, bus, peer, conns, server>>

-----------------------------------------------------------------------------
(* The MainController: what it hears from the bus.                         *)

BusChanges ==
    \E n \in Nodes, as \in Presences :
        /\ Happens
        /\ as # bus[n]
        /\ bus' = [bus EXCEPT ![n] = as]
        /\ UNCHANGED <<nina, modem, presence, monitor, queue, awaiting, peer, conns,
                       server, lost>>

(* ReceivedMessage(): a report of a node is relayed while the link is up.  *)
(* Those about the Thermostat are watched as they pass, link or not.  A    *)
(* node reports when it is polled, and is polled after it was found: the   *)
(* relays have had a pass of the main loop to see it in between.           *)
BusReports ==
    \E n \in Nodes :
        /\ Happens
        /\ bus[n] = "app"
        /\ InDataMode => presence[n] = "app"
        /\ IF n = Paired
           THEN \E l \in {"up", "down"} :
                    monitor' = [link |-> l, due |-> monitor.due \/ l # monitor.link]
           ELSE UNCHANGED monitor
        /\ queue' = IF InDataMode THEN Staged(queue, <<Relayed(n)>>) ELSE queue
        /\ UNCHANGED <<nina, modem, bus, presence, awaiting, peer, conns, server, lost>>

(* ThermostatMonitor::Loop(), every keepaliveMs.                           *)
MonitorTurns ==
    /\ InDataMode /\ Quiet /\ monitor.link # "unknown"
    /\ monitor' = IF bus[Paired] = "gone" THEN [link |-> "unknown", due |-> FALSE]
                  ELSE [monitor EXCEPT !.due = TRUE]
    /\ monitor' # monitor
    /\ UNCHANGED <<link, bus, presence, queue, awaiting, peer, conns, server,
                   lost>>

-----------------------------------------------------------------------------
(* The MainController: making and losing the link.                         *)

(* Fail() leaves the server with a connection that nobody ends.            *)
HangsUp ==
    /\ peer' = 0
    /\ conns' = IF peer = 0 THEN conns ELSE [conns EXCEPT ![peer].open = FALSE]

HangsUpIfFailed ==
    IF nina'.state = "Backoff" THEN HangsUp ELSE UNCHANGED <<peer, conns>>

(* Every command but the one that dials; ATO needs a connection.           *)
CommandAnswered ==
    LET dead == nina.state = "EnteringDataMode" /\ ~conns[peer].open
    IN  /\ nina.state \in Commands \ {"ConnectingPeer"}
        /\ \/ ~dead /\ Accepted /\ UNCHANGED happened
           \/ dead /\ Refused /\ UNCHANGED happened
           \/ Happens /\ Refused
        /\ HangsUpIfFailed
        /\ UNCHANGED <<master, server, lost>>

Waits ==
    /\ Boots \/ NetworkComesUp \/ NetworkStaysDown \/ NetworkSettles
    /\ UNCHANGED <<master, peer, conns, server, lost>>

WifiChanges ==
    /\ Joins \/ LosesNetwork
    /\ UNCHANGED <<master, peer, conns, server, lost>>

(* ConnectingPeer: the module dials, and the server accepts.               *)
Dials ==
    /\ nina.state = "ConnectingPeer"
    /\ modem.network
    /\ \E c \in 1..Slots :
           /\ conns[c].phase = "free"
           /\ \A d \in 1..(c - 1) : conns[d].phase # "free"
           /\ conns' = [conns EXCEPT ![c] =
                  [NoConn EXCEPT !.phase = "greeting", !.open = TRUE]]
           /\ peer' = c
    /\ nina' = [To("WaitingPeerConnected") EXCEPT
                   !.events = Queued(@, "PeerConnected")]
    /\ UNCHANGED <<modem, happened, master, server, lost>>

CannotDial ==
    /\ nina.state = "ConnectingPeer"
    /\ IF modem.network THEN Happens ELSE UNCHANGED happened
    /\ Refused
    /\ UNCHANGED <<master, peer, conns, server, lost>>

(* WaitingPeerConnected.                                                   *)
PeerAnswers ==
    /\ nina.state = "WaitingPeerConnected"
    /\ nina.events # <<>>
    /\ IF NetworkEvents # <<>> /\ Last(NetworkEvents) = "NetworkDown"
       THEN Fail /\ HangsUp
       ELSE /\ nina' = IF Contains(nina.events, "PeerConnected")
                       THEN Drained("EnteringDataMode")
                       ELSE [nina EXCEPT !.events = <<>>]
            /\ UNCHANGED <<modem, peer, conns>>
    /\ UNCHANGED <<happened, master, server, lost>>

(* The server closes it at once, or PeerConnectedWaitMs pass without word. *)
PeerFails ==
    /\ nina.state = "WaitingPeerConnected"
    /\ IF nina.events = <<>> THEN UNCHANGED happened ELSE Happens
    /\ Fail /\ HangsUp
    /\ UNCHANGED <<master, server, lost>>

(* The Wi-Fi or the module loses the connection: what is on its way may    *)
(* still get there, and neither side is told.                              *)
LinkDies ==
    /\ peer # 0 /\ conns[peer].open
    /\ Happens
    /\ \E arrives \in BOOLEAN :
           conns' = [conns EXCEPT ![peer].open = FALSE, ![peer].back = FALSE,
                                  ![peer].wire = IF arrives THEN @ ELSE <<>>]
    /\ UNCHANGED <<nina, modem, master, peer, server, lost>>

-----------------------------------------------------------------------------
(* The keepalive.                                                          *)

KeepaliveDue ==
    /\ InDataMode /\ Quiet /\ ~awaiting
    /\ queue' = Staged(queue, <<Keepalive>>)
    /\ awaiting' = TRUE
    /\ UNCHANGED <<link, bus, presence, monitor, peer, conns, server, lost>>

KeepaliveAnswered ==
    /\ InDataMode /\ conns[peer].back
    /\ awaiting' = FALSE
    /\ conns' = [conns EXCEPT ![peer].back = FALSE]
    /\ UNCHANGED <<link, bus, presence, monitor, queue, peer, server, lost>>

(* An answer that is on its way arrives within KeepaliveReplyMs.           *)
AnswerComes ==
    LET c == conns[peer]
    IN  c.open /\ (c.back \/ Contains(queue \o c.wire \o c.chunk, Keepalive))

(* The interval and the reply time end together: one more keepalive is     *)
(* staged in the pass that resets the module.                              *)
KeepaliveFails ==
    /\ InDataMode /\ awaiting /\ ~AnswerComes
    /\ queue' = Staged(queue, <<Keepalive>>)
    /\ Fail
    /\ HangsUp
    /\ UNCHANGED <<happened, bus, presence, monitor, awaiting, server, lost>>

-----------------------------------------------------------------------------
(* The server: one connection.                                             *)

ServerOnly == UNCHANGED <<link, master, peer, lost>>

(* readHello(): the first frame, and what came with it.                    *)
Greets(c) ==
    LET wire == conns[c].wire
    IN  /\ conns[c].phase = "greeting" /\ wire # <<>>
        /\ conns' = [conns EXCEPT ![c] =
               IF Head(wire) = Hello
               THEN [@ EXCEPT !.phase = "greeted", !.chunk = Tail(wire), !.wire = <<>>]
               ELSE NoConn]
        /\ UNCHANGED server

(* No hello in ten seconds.                                                *)
NoHello(c) ==
    /\ conns[c].phase = "greeting"
    /\ conns[c].wire = <<>> /\ ~conns[c].open
    /\ conns' = [conns EXCEPT ![c] = NoConn]
    /\ UNCHANGED server

(* It takes the place of the connection that was active, and closes it.    *)
TakesOver(c) ==
    /\ conns[c].phase = "greeted"
    /\ conns' = [d \in 1..Slots |->
           IF d = c THEN [conns[d] EXCEPT !.phase = "joined"]
           ELSE IF d = active
           THEN [conns[d] EXCEPT !.open = FALSE, !.wire = <<>>, !.back = FALSE]
           ELSE conns[d]]
    /\ active' = c
    /\ UNCHANGED <<rosterIDs, store, thermostat, shown, clean>>

(* No other goroutine has anything left to do but find itself closed.      *)
Alone(c) == \A d \in 1..Slots \ {c} :
    conns[d].chunk = <<>> /\ conns[d].phase # "leaving"

(* OnConnect().                                                            *)
OnConnect(c) ==
    /\ conns[c].phase = "joined"
    /\ conns' = [conns EXCEPT ![c].phase = "serving"]
    /\ shown' = TRUE
    /\ clean' = IF active = c THEN rosterIDs = {} /\ Alone(c) ELSE clean
    /\ UNCHANGED <<active, rosterIDs, store, thermostat>>

Reads(c) ==
    /\ conns[c].phase = "serving"
    /\ conns[c].chunk = <<>> /\ conns[c].wire # <<>>
    /\ conns' = [conns EXCEPT ![c] = [@ EXCEPT !.chunk = conns[c].wire,
                                              !.wire = <<>>]]
    /\ UNCHANGED server

(* OnRosterEnd(): who was not listed has gone.                             *)
AtRosterEnd ==
    [n \in Nodes |-> [store[n] EXCEPT !.online = @ /\ n \in rosterIDs]]

(* OnRosterEntry(), OnPresence() and OnNodeFrame() on the nodes table.     *)
Seen(f) ==
    CASE f.is = "Entry" ->
             [store EXCEPT ![f.node] = [online |-> TRUE, boot |-> f.as = "boot"]]
      [] f.is = "Presence" ->
             [store EXCEPT ![f.node] = [online |-> f.as # "gone",
                                        boot |-> f.as = "boot"]]
      [] f.is = "Relayed" -> [store EXCEPT ![f.node].online = TRUE]
      [] f.is = "End"     -> AtRosterEnd
      [] OTHER            -> store

(* dispatch().                                                             *)
Dispatches(c) ==
    LET f == Head(conns[c].chunk)
    IN  /\ conns[c].phase = "serving" /\ conns[c].chunk # <<>>
        /\ conns' = [conns EXCEPT
               ![c].chunk = Tail(@),
               ![c].back = @ \/ (f = Keepalive /\ conns[c].open)]
        /\ rosterIDs' = CASE f.is = "Entry" -> rosterIDs \cup {f.node}
                          [] f.is = "End"   -> {}
                          [] OTHER          -> rosterIDs
        /\ store' = Seen(f)
        /\ thermostat' = IF f.is = "Thermostat" THEN f.link ELSE thermostat
        /\ UNCHANGED <<active, shown, clean>>

(* Bug: every connection that ends takes the uplink down.                  *)
WasAlwaysActive(c) == TRUE

WasActive(c) == active = c

(* The read fails: a reset, 90 s of silence, or closed by TakesOver.       *)
Ends(c) ==
    /\ conns[c].phase = "serving" /\ ~conns[c].open
    /\ conns[c].wire = <<>> /\ conns[c].chunk = <<>>
    /\ conns' = [conns EXCEPT ![c] =
           IF WasActive(c) THEN [@ EXCEPT !.phase = "leaving"] ELSE NoConn]
    /\ active' = IF active = c THEN 0 ELSE active
    /\ UNCHANGED <<rosterIDs, store, thermostat, shown, clean>>

(* OnDisconnect().                                                         *)
OnDisconnect(c) ==
    /\ conns[c].phase = "leaving"
    /\ conns' = [conns EXCEPT ![c] = NoConn]
    /\ shown' = FALSE
    /\ rosterIDs' = {}
    /\ UNCHANGED <<active, store, thermostat, clean>>

ServeConn(c) ==
    /\ \/ Greets(c) \/ NoHello(c) \/ TakesOver(c) \/ OnConnect(c) \/ Reads(c)
       \/ Dispatches(c) \/ Ends(c) \/ OnDisconnect(c)
    /\ ServerOnly

(* The server starts again, with the nodes table it had.                   *)
ServerRestarts ==
    /\ Happens
    /\ conns' = [c \in 1..Slots |-> NoConn]
    /\ active' = 0 /\ rosterIDs' = {} /\ shown' = FALSE
    /\ UNCHANGED <<nina, modem, master, peer, store, thermostat, clean, lost>>

-----------------------------------------------------------------------------

BringsUp == CommandAnswered \/ Waits \/ Dials \/ CannotDial \/ PeerAnswers
                \/ PeerFails \/ StartsSession

Next ==
    \/ BringsUp \/ WifiChanges \/ LinkDies \/ ServerRestarts
    \/ BusChanges \/ BusReports \/ MonitorTurns
    \/ Passes \/ KeepaliveDue \/ KeepaliveAnswered \/ KeepaliveFails
    \/ \E c \in 1..Slots : ServeConn(c)

(* The MainController's loop and the server's goroutines keep running, and *)
(* the module joins the network it is told to.                             *)
Fairness ==
    /\ WF_vars(BringsUp) /\ WF_vars(WifiChanges)
    /\ WF_vars(Passes) /\ WF_vars(KeepaliveDue)
    /\ WF_vars(KeepaliveAnswered) /\ WF_vars(KeepaliveFails)
    /\ \A c \in 1..Slots : WF_vars(ServeConn(c))

Spec == Init /\ [][Next]_vars /\ Fairness

-----------------------------------------------------------------------------
(* Properties.                                                             *)

(* The session the module is in is the one the server serves.              *)
Serving == InDataMode /\ active = peer /\ conns[peer].phase = "serving"

(* Everything that was said in it has been heard.                          *)
Heard ==
    /\ Serving /\ conns[peer].open /\ Quiet

(* The server knows which nodes are on the bus, and which of them run      *)
(* their bootloader, as soon as it has heard what it was sent: whatever    *)
(* came and went while the link was down, and whichever of roster,         *)
(* presence and relayed frames told it last (SendRoster, OnRosterEnd).     *)
(* Not promised, and not kept: after an overflow of outboundQueue, or      *)
(* when an earlier connection had left half a roster behind or was still   *)
(* being dispatched or taken down.                                         *)
KnowsTheBus ==
    Heard /\ PresenceNews = <<>> /\ ~lost /\ clean =>
        \A n \in Nodes : /\ store[n].online = (bus[n] # "gone")
                         /\ store[n].online => store[n].boot = (bus[n] = "boot")

(* A ThermostatStatus that was taken from the monitor reaches the server,  *)
(* however full the queue gets: it does not wait for the next change or    *)
(* keepalive (PushThermostatStatus, ResendAll).                            *)
ThermostatIsTold ==
    Heard /\ clean /\ ~monitor.due /\ monitor.link # "unknown" =>
        thermostat = monitor.link

(* A connection that ends late does not show the uplink down when another  *)
(* has taken its place (serveConn's wasActive).                            *)
ShownWhileServing == Serving /\ clean => shown

(* Whatever goes wrong, the MainController ends up being served again: no  *)
(* command, wait or half-open connection holds the bring-up for good.      *)
UplinkComesBack == <>[]Serving

=============================================================================
