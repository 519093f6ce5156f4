--------------------------- MODULE ThermostatLink ---------------------------
(***************************************************************************)
(* A ControllerNode and the Thermostat behind its private link:            *)
(* LinkMaster and ThermostatLink on one side, the Thermostat's application *)
(* (Node, Publisher, ThermostatHandler) or its bootloader on the other,    *)
(* and the server's driver that pushes firmware through both               *)
(* (Software/Lib/NodeLib/LinkMaster.cpp, Software/Modules/ControllerNode,  *)
(* Software/Modules/Thermostat, Webserver/internal/service/ota.go).        *)
(*                                                                         *)
(* The link is a FIFO queue each way; any frame can get lost.  The bus     *)
(* between the server and the ControllerNode is left out: a request of the *)
(* driver is the call it ends in, and what the node answers is heard at    *)
(* once.  (NodeOta has the bus, and the bootloader's flash that fails.)    *)
(* The values on the display and in the room are reduced to one each.      *)
(*                                                                         *)
(* "Bug" marks a definition that is not the code but the one after it with *)
(* a plausible mistake.                                                    *)
(***************************************************************************)
EXTENDS FirmwareSlave, FiniteSets

CONSTANTS
    None,
    Openings,    \* damper positions worth showing; a bound
    Neutral,     \* NeutralPercent, where the damper starts (50)
    QueueSize,   \* Node::queueSize of the link master (30)
    BeginTries,  \* otaThermostatBeginTries (3)
    WriteRetries,\* otaWriteRetries (3)
    MaxResumes,  \* otaMaxResumes (20)
    ReportCap,   \* capacity of the driver's reports channel (8)
    Mishaps      \* what may go wrong or change, together: records of
                 \* losses, cuts, lapses, pushes and turns; a bound

ASSUME LinkConstants ==
    /\ {QueueSize, BeginTries, ReportCap} \subseteq Nat \ {0}
    /\ {WriteRetries, MaxResumes} \subseteq Nat
    /\ Neutral \in Openings /\ None \notin Openings

VARIABLES
    slave,     \* the Thermostat as FirmwareSlave has it
    image,     \* the version of the last Begin that reached its bootloader
    mcu,       \* the Thermostat runs, or is deaf behind a reset or a power cut
    screen,    \* ThermostatHandler::damperActual, None since it started
    told,      \* Publisher: endpoints with nothing left to report
    sensing,   \* ThermostatHandler::roomValid
    link,      \* LinkMaster
    relay,     \* ThermostatLink
    room,      \* ThermostatLink::room
    pushed,    \* lastPushedActual, None for 0xFF
    damper,    \* Damper::Actual()
    driver,    \* otaDriver
    reports,   \* its channel
    down, up,  \* frames on the link
    left,      \* the Mishaps still to come
    whole      \* history: End found image complete since its Begin

vars == <<slave, image, mcu, screen, told, sensing, link, relay, room,
          pushed, damper, driver, reports, down, up, left, whole>>

thermostat == <<slave, image, mcu, screen, told, sensing, whole>>
controller == <<link, relay, room, pushed>>

RoomData == {"RoomTemp", "RoomSetpoint"}

Frame(op) == [op |-> op]

(* What the application in the slot is.                                    *)
Running == IF slave.slot = OldImage THEN "old" ELSE image
Booting == mcu # "Runs"
InApp   == slave.face = "App" /\ ~Booting

Init ==
    /\ slave = Started("App", OldImage) /\ image = "old" /\ mcu = "Runs"
    /\ screen = None /\ told = {} /\ sensing = TRUE
    /\ link = [up |-> FALSE, inBootloader |-> FALSE, sendOk |-> TRUE,
               discovering |-> TRUE, queue |-> <<>>]
    /\ relay = [ota |-> "Idle", peer |-> "App", pending |-> "None", hint |-> FALSE,
                begin |-> "old", expected |-> 0, current |-> FALSE, fw |-> None,
                fwKnown |-> FALSE, changed |-> FALSE, reply |-> None]
    /\ room = [temp |-> FALSE, setpoint |-> FALSE, valid |-> FALSE]
    /\ pushed = None
    /\ damper = Neutral
    /\ driver = [step |-> "Idle", version |-> "old", force |-> FALSE, offset |-> 0,
                 tries |-> 0, resumes |-> 0, outcome |-> "None"]
    /\ reports = <<>>
    /\ down = <<Frame("Discover")>> /\ up = <<>>
    /\ left \in Mishaps
    /\ whole = FALSE

-----------------------------------------------------------------------------
(* LinkMaster.                                                             *)

(* QueueMessage(): a full queue drops it.                                  *)
Queue(l, m) ==
    IF Len(l.queue) < QueueSize THEN [l EXCEPT !.queue = Append(@, m)] ELSE l

Rediscover ==
    /\ link' = [link EXCEPT !.inBootloader = FALSE, !.discovering = TRUE]
    /\ down' = Append(down, Frame("Discover"))

Quiet == down = <<>> /\ up = <<>>

(* Every timer is long against a frame on the link and a pass of a loop:   *)
(* when one runs out there is nothing left to be done at once.             *)
Settled ==
    /\ Quiet
    /\ link.sendOk /\ ~link.discovering => link.queue = <<>>
    /\ ~relay.changed /\ relay.reply = None
    /\ ~(relay.ota = "EnteringBootloader" /\ link.inBootloader)

Discovers ==
    /\ Settled
    /\ down' = <<Frame("Discover")>>
    /\ link' = [link EXCEPT !.discovering = TRUE]
    /\ UNCHANGED <<thermostat, relay, room, pushed, damper, driver, reports, up, left>>

FlushesQueue ==
    /\ link.sendOk /\ ~link.discovering /\ link.queue # <<>>
    /\ down' = down \o link.queue
    /\ link' = [link EXCEPT !.queue = <<>>]
    /\ UNCHANGED <<thermostat, relay, room, pushed, damper, driver, reports, up, left>>

Polls ==
    /\ Settled
    /\ down' = <<Frame("Poll")>>
    /\ link' = [link EXCEPT !.sendOk = FALSE]
    /\ UNCHANGED <<thermostat, relay, room, pushed, damper, driver, reports, up, left>>

(* linkTimer: nothing was heard through three polls.  The Thermostat boots *)
(* or erases its flash, or several frames in a row were lost; then it may  *)
(* have missed the polls as well, for its own hearthBeatTimer.             *)
ForgetsRoom == room' = [temp |-> FALSE, setpoint |-> FALSE, valid |-> FALSE]

LinkLapses ==
    /\ link.up
    /\ \/ Booting /\ UNCHANGED <<left, told>>
       \/ down # <<>> /\ Head(down).op = "Begin" /\ UNCHANGED <<left, told>>
       \/ /\ left.lapses > 0
          /\ left' = [left EXCEPT !.lapses = @ - 1]
          /\ told' \in {told, {}}
    /\ link' = [link EXCEPT !.up = FALSE, !.inBootloader = FALSE]
    /\ ForgetsRoom
    /\ relay' = [relay EXCEPT !.fwKnown = FALSE]
    /\ pushed' = None
    /\ UNCHANGED <<slave, image, mcu, screen, sensing, whole, damper, driver, reports, down, up>>

-----------------------------------------------------------------------------
(* ThermostatLink: what the Thermostat says.                               *)

(* Bug: a version learned before the bootloader is still believed.         *)
SetPeerStateOnly(r, state) ==
    IF state = r.peer THEN r ELSE [r EXCEPT !.peer = state, !.changed = TRUE]

SetPeerState(r, state) ==
    IF state = r.peer THEN r
    ELSE [r EXCEPT !.peer = state, !.changed = TRUE,
                   !.fwKnown = IF state = "App" THEN @ ELSE FALSE]

(* Begin, End and Abort are told apart by what was sent last.              *)
OnOpReply(r, nack) ==
    LET answered == [r EXCEPT !.pending = "None"]
    IN  CASE nack                -> SetPeerState([r EXCEPT !.current = FALSE], "Error")
          [] ~nack /\ r.pending = "Begin" ->
                 SetPeerState([answered EXCEPT !.expected = 0], "Receiving")
          [] ~nack /\ r.pending = "End"   -> SetPeerState(answered, "Valid")
          [] ~nack /\ r.pending = "Abort" -> SetPeerState(answered, "Idle")
          [] OTHER               -> answered

(* Every chunk is one step of the offset (pendingWriteLen).                *)
OnWriteReply(r, m) ==
    IF r.ota # "Transferring" THEN r
    ELSE [r EXCEPT !.expected = IF m.op = "WriteNack" THEN m.off ELSE m.off + 1,
                   !.reply = m]

Known(r, version) == [r EXCEPT !.fw = version, !.fwKnown = TRUE]

(* Report of the room.                                                     *)
RoomReport(data) ==
    room' = IF data = "RoomTemp"
            THEN [room EXCEPT !.temp = TRUE, !.valid = room.setpoint]
            ELSE [room EXCEPT !.setpoint = TRUE, !.valid = room.temp]

(* Bug: the display is sent again only after the link was lost.            *)
RememberPushed(m) == pushed

(* ForgetPushedDisplay() at an Announce of the application.                *)
AnnouncedDisplay(m) ==
    IF m.op = "Announce" /\ m.state = "App" THEN None ELSE pushed

(* LinkMaster::HandleMasterMessage() and ThermostatLink::ReceivedMessage() *)
Hears ==
    /\ up # <<>>
    /\ up' = Tail(up)
    /\ LET m     == Head(up)
           alive == [link EXCEPT !.up = TRUE]
       IN  /\ link' = CASE m.op = "Announce" -> [alive EXCEPT !.discovering = FALSE,
                                                   !.inBootloader = m.state # "App"]
                        [] m.op = "Done"     -> [alive EXCEPT !.sendOk = TRUE]
                        [] OTHER             -> alive
           /\ relay' = CASE m.op = "Announce" -> SetPeerState(relay, m.state)
                         [] m.op = "Info"     -> Known(relay, m.version)
                         [] m.op \in {"OpAck", "OpNack"} -> OnOpReply(relay, m.op = "OpNack")
                         [] m.op \in {"WriteAck", "WriteNack"} -> OnWriteReply(relay, m)
                         [] OTHER             -> relay
           /\ pushed' = AnnouncedDisplay(m)
           /\ IF m.op = "Room" THEN RoomReport(m.data) ELSE UNCHANGED room
    /\ UNCHANGED <<thermostat, damper, driver, reports, down, left>>

-----------------------------------------------------------------------------
(* ThermostatLink::Loop().                                                 *)

(* roomTempTimer: only a Thermostat that stopped reporting takes that long.*)
TempGoesStale ==
    /\ room.temp /\ ~sensing
    /\ room' = [room EXCEPT !.temp = FALSE, !.valid = FALSE]
    /\ UNCHANGED <<thermostat, link, relay, pushed, damper, driver, reports, down, up, left>>

SendBegin(r, l, version) ==
    /\ relay' = [r EXCEPT !.pending = "Begin", !.ota = "Transferring"]
    /\ link' = Queue(l, [op |-> "Begin", version |-> version])

Entering ==
    /\ relay.ota = "EnteringBootloader"
    /\ UNCHANGED <<thermostat, room, pushed, damper, driver, reports, up, left>>

(* Bug: the first Announce of a bootloader is believed.                    *)
EntersAtOnce ==
    /\ Entering /\ link.inBootloader
    /\ SendBegin(relay, link, relay.begin)
    /\ UNCHANGED down

(* The first Announce of a bootloader is only a hint.                      *)
Enters ==
    /\ Entering /\ link.inBootloader
    /\ IF relay.hint
       THEN SendBegin(relay, link, relay.begin) /\ UNCHANGED down
       ELSE Rediscover /\ relay' = [relay EXCEPT !.hint = TRUE]

(* enterBlDiscoverTimer.                                                   *)
AsksAgain ==
    /\ Entering /\ ~link.inBootloader
    /\ Settled /\ Rediscover
    /\ UNCHANGED relay

(* enterBlTimer outlasts the reset, and eight Discovers: what was asked    *)
(* never arrived.                                                          *)
GivesUpEntering ==
    /\ Entering /\ ~link.inBootloader
    /\ Settled /\ link.queue = <<>>
    /\ InApp /\ ~slave.resetPending
    /\ relay' = [relay EXCEPT !.current = FALSE, !.ota = "Failed", !.changed = TRUE]
    /\ UNCHANGED <<link, down>>

(* QueryFirmwareVersion().                                                 *)
Queried(l) ==
    IF relay.ota = "Transferring" \/ relay.fwKnown \/ ~l.up \/ l.inBootloader THEN l
    ELSE Queue(l, Frame("GetInfo"))

(* PushDisplay(), which sends what changed.                                *)
Shows == relay.ota = "Idle" /\ link.up /\ pushed # damper

(* Loop(), when fwQueryTimer and displayTimer have run out.                *)
RelayLoop ==
    /\ Settled /\ relay.ota # "EnteringBootloader"
    /\ Frame("GetInfo") \notin ToSet(link.queue)
    /\ Shows \/ Queried(link) # link
    /\ link' = IF Shows THEN Queue(Queried(link), [op |-> "Show", value |-> damper])
               ELSE Queried(link)
    /\ pushed' = IF Shows THEN damper ELSE pushed
    /\ UNCHANGED <<thermostat, relay, room, damper, driver, reports, down, up, left>>

-----------------------------------------------------------------------------
(* ThermostatLink: what the driver asks.                                   *)

(* ReportThermostatFirmwareStatus(), onto the driver's channel.            *)
Status == [state |-> relay.peer, expected |-> relay.expected, current |-> relay.current]

Reported(channel) ==
    reports' = IF Len(channel) < ReportCap THEN Append(channel, Status') ELSE channel

(* HandleThermostatFirmware() answers all but a Write with the status.     *)
Send(m) == link' = Queue(link, m)

OtaBegin(version, force, rest) ==
    LET fresh == [relay EXCEPT !.begin = version, !.current = FALSE, !.expected = 0]
    IN  /\ \/ /\ ~force /\ relay.fw = version
              /\ relay' = [relay EXCEPT !.current = TRUE, !.ota = "Idle"]
              /\ UNCHANGED link
           \/ /\ force \/ relay.fw # version
              /\ link.inBootloader
              /\ SendBegin(fresh, link, version)
           \/ /\ force \/ relay.fw # version
              /\ ~link.inBootloader
              /\ Send(Frame("EnterBootloader"))
              /\ relay' = [fresh EXCEPT !.ota = "EnteringBootloader", !.hint = FALSE]
        /\ Reported(rest)

OtaWrite(r, off, rest) ==
    /\ relay' = r
    /\ IF r.ota = "Transferring"
       THEN Send([op |-> "Write", off |-> off]) ELSE UNCHANGED link
    /\ reports' = rest

OtaEnd(r, rest) ==
    /\ IF r.ota = "Transferring"
       THEN Send(Frame("End")) /\ relay' = [r EXCEPT !.pending = "End"]
       ELSE UNCHANGED link /\ relay' = r
    /\ Reported(rest)

OtaActivate(rest) ==
    /\ Send(Frame("Activate"))
    /\ relay' = SetPeerState([relay EXCEPT !.ota = "Done"], "App")
    /\ Reported(rest)

OtaAbort(rest) ==
    /\ Send(Frame("Abort"))
    /\ relay' = [relay EXCEPT !.pending = "Abort", !.current = FALSE, !.ota = "Idle"]
    /\ Reported(rest)

-----------------------------------------------------------------------------
(* otaDriver.run() for a Thermostat.                                       *)

Job(steps) == driver.step \in steps
Untouched == UNCHANGED <<thermostat, room, pushed, damper, down, up>>

Starts ==
    /\ Settled /\ Job({"Idle"}) /\ left.pushes # {}
    /\ \E p \in left.pushes :
         /\ left' = [left EXCEPT !.pushes = @ \ {p}]
         /\ OtaBegin(p.version, p.force, <<>>)
         /\ driver' = [step |-> "Beginning", version |-> p.version, force |-> p.force,
                       offset |-> 0, tries |-> 1, resumes |-> 0, outcome |-> "None"]
    /\ Untouched

(* done(): an error aborts the transfer.                                   *)
Over(outcome) == driver' = [driver EXCEPT !.step = "Idle", !.outcome = outcome]
Fails(rest)   == Over("error") /\ OtaAbort(rest)

(* writeImage() goes on with the chunk at offset, run() after it with End. *)
Continues(r, offset, rest) ==
    IF offset < Chunks
    THEN /\ driver' = [driver EXCEPT !.step = "Writing", !.offset = offset, !.tries = 0]
         /\ OtaWrite(r, offset, rest)
    ELSE /\ driver' = [driver EXCEPT !.step = "Verifying", !.offset = offset]
         /\ OtaEnd(r, rest)

Waiting == {"Beginning", "Resuming", "Restarting", "Verifying"}

(* Bug: the report that settled Begin settles End.                         *)
SettlesLoosely(r) ==
    \/ r.state = "Error"
    \/ Job({"Beginning", "Restarting", "Verifying"}) /\ r.state = "Receiving"
    \/ Job({"Beginning"}) /\ r.current
    \/ Job({"Resuming"})

(* Bug: only a transfer that still runs ends the wait for the link.        *)
SettlesReceiving(r) ==
    \/ r.state = "Error"
    \/ Job({"Beginning", "Restarting", "Resuming"}) /\ r.state = "Receiving"
    \/ Job({"Beginning"}) /\ r.current
    \/ Job({"Verifying"}) /\ r.state = "Valid"

(* waitForWithProbe(), resumeNode(): the reports that end the wait.        *)
Settles(r) ==
    \/ r.state = "Error"
    \/ Job({"Beginning", "Restarting"}) /\ r.state = "Receiving"
    \/ Job({"Beginning"}) /\ r.current
    \/ Job({"Resuming"})
    \/ Job({"Verifying"}) /\ r.state = "Valid"

(* What run(), resumeNode() and restartNodePush() make of it.              *)
Acts(r, rest) ==
    \/ /\ Job({"Beginning"}) /\ r.current
       /\ Over("skipped")
       /\ reports' = rest /\ UNCHANGED <<link, relay>>
    \/ r.state = "Error" /\ ~(Job({"Beginning"}) /\ r.current) /\ Fails(rest)
    \/ /\ Job({"Beginning", "Restarting"}) /\ r.state # "Error"
       /\ ~(Job({"Beginning"}) /\ r.current)
       /\ Continues(relay, 0, rest)
    \/ Job({"Resuming"}) /\ r.state = "Receiving" /\ Continues(relay, r.expected, rest)
    \/ /\ Job({"Resuming"}) /\ r.state \notin {"Receiving", "Error"}
       /\ OtaBegin(driver.version, TRUE, rest)
       /\ driver' = [driver EXCEPT !.step = "Restarting"]
    \/ Job({"Verifying"}) /\ r.state # "Error" /\ Over("done") /\ OtaActivate(rest)

Reads ==
    /\ Job(Waiting) /\ reports # <<>>
    /\ IF Settles(Head(reports)) THEN Acts(Head(reports), Tail(reports))
       ELSE reports' = Tail(reports) /\ UNCHANGED <<link, relay, driver>>
    /\ UNCHANGED left
    /\ Untouched

(* The probe every otaBootPoll: a Get, answered from the relay's cache.    *)
Probes ==
    /\ Settled /\ Job(Waiting) /\ reports = <<>> /\ Settles(Status)
    /\ reports' = <<Status>>
    /\ UNCHANGED <<link, relay, driver, left>>
    /\ Untouched

(* Nothing is under way that could still answer the driver: its timers are *)
(* longer than the entry, a reset or an erase take.                        *)
NothingUnderWay ==
    /\ Settled /\ ~Booting /\ relay.ota # "EnteringBootloader"
    /\ slave.out = <<>> /\ slave.opReply = <<>> /\ slave.staged = <<>>
    /\ slave.replies = <<>>

TimesOut ==
    /\ Job(Waiting \ {"Resuming"}) /\ reports = <<>> /\ ~Settles(Status)
    /\ NothingUnderWay /\ link.queue = <<>>
    /\ \/ /\ Job({"Beginning"}) /\ driver.tries < BeginTries
          /\ OtaBegin(driver.version, driver.force, <<>>)
          /\ driver' = [driver EXCEPT !.tries = @ + 1]
       \/ (Job({"Beginning"}) => driver.tries = BeginTries) /\ Fails(<<>>)
    /\ UNCHANGED left
    /\ Untouched

(* otaWriteWait: the chunk, or its reply, is lost, or the chunk is stuck   *)
(* behind an Announce that is.                                             *)
WriteTimesOut ==
    /\ Job({"Writing"}) /\ NothingUnderWay
    /\ \/ /\ driver.tries < WriteRetries
          /\ OtaWrite(relay, driver.offset, reports)
          /\ driver' = [driver EXCEPT !.tries = @ + 1]
       \/ /\ driver.tries = WriteRetries /\ driver.resumes < MaxResumes
          /\ driver' = [driver EXCEPT !.step = "Resuming", !.resumes = @ + 1]
          /\ UNCHANGED <<link, relay, reports>>
       \/ /\ driver.tries = WriteRetries /\ driver.resumes = MaxResumes
          /\ Fails(reports)
    /\ UNCHANGED left
    /\ Untouched

(* ControllerHandler::Loop() passes on what arrived; writeImage() goes on. *)
HandlerLoop ==
    /\ relay.changed \/ relay.reply # None
    /\ LET m      == relay.reply
           passed == [relay EXCEPT !.changed = FALSE, !.reply = None]
           told_  == IF relay.changed /\ Len(reports) < ReportCap
                     THEN Append(reports, Status) ELSE reports
       IN  IF m # None /\ Job({"Writing"}) /\ (m.op = "WriteNack" \/ m.off = driver.offset)
           THEN Continues(passed, IF m.op = "WriteNack" THEN m.off ELSE m.off + 1, told_)
           ELSE relay' = passed /\ reports' = told_ /\ UNCHANGED <<link, driver>>
    /\ UNCHANGED left
    /\ Untouched

-----------------------------------------------------------------------------
(* The Thermostat.                                                         *)

Announce(state) == [op |-> "Announce", state |-> state]

(* ThermostatHandler::PublishRoom().                                       *)
Reportable == {"RoomSetpoint"} \cup (IF sensing THEN {"RoomTemp"} ELSE {})

(* What a Poll of the application gets: its replies, the Announce of the   *)
(* bootloader behind the Ack to EnterBootloader, the room as far as it is  *)
(* not told yet.                                                           *)
AppAnswers ==
    LET Replied(m) == IF m.op = "OpAck" THEN <<m, Announce("Idle")>> ELSE <<m>>
        due        == SetToSeq(Reportable \ told)
    IN  FlattenSeq([i \in 1..Len(slave.out) |-> Replied(slave.out[i])])
            \o [i \in 1..Len(due) |-> [op |-> "Room", data |-> due[i]]]

AppHears(m) ==
    /\ up' = up \o CASE m.op = "Discover" -> <<Announce("App")>>
                      [] m.op = "Poll"     -> Append(AppAnswers, Frame("Done"))
                      [] OTHER             -> <<>>
    /\ slave' = CASE m.op = "Poll"    -> AppPolled(slave)
                  [] m.op = "GetInfo" -> QueueMessage(slave, [op |-> "Info", version |-> Running])
                  [] m.op \in {"Discover", "Show"} -> slave
                  [] OTHER            -> AppReceive(slave, m.op)
    /\ mcu' = IF m.op = "Poll" /\ slave.resetPending THEN "Resets" ELSE "Runs"
    /\ screen' = IF m.op = "Show" THEN m.value ELSE screen
    /\ told' = IF m.op = "Poll" THEN told \cup Reportable ELSE told
    /\ UNCHANGED <<image, whole>>

BootHears(m) ==
    LET committed == CommitStagedWrites(slave, 0, 0)
    IN  /\ up' = up \o CASE m.op = "Discover" -> <<Announce(slave.state)>>
                          [] m.op = "Poll"     -> Append(BootReplies(committed), Frame("Done"))
                          [] OTHER             -> <<>>
        /\ slave' = CASE m.op = "Poll"     -> BootPolled(committed)
                      [] m.op = "Discover" -> slave
                      [] OTHER             -> BootReceive(slave, m, 0, 0)
        /\ mcu' = IF m.op = "Activate" /\ slave.state = "Valid" THEN "Resets" ELSE "Runs"
        /\ image' = IF m.op = "Begin" THEN m.version ELSE image
        /\ whole' = (m.op # "Begin" /\ (whole \/ slave'.state = "Valid"))
        /\ UNCHANGED <<screen, told>>

ThermostatHears ==
    /\ down # <<>>
    /\ down' = Tail(down)
    /\ CASE Booting -> UNCHANGED <<slave, image, mcu, screen, told, whole, up>>
         [] ~Booting /\ slave.face = "App"  -> AppHears(Head(down))
         [] ~Booting /\ slave.face = "Boot" -> BootHears(Head(down))
    /\ UNCHANGED <<sensing, controller, damper, driver, reports, left>>

ThermostatStarts ==
    /\ Booting
    /\ mcu' = "Runs" /\ screen' = None /\ told' = {}
    /\ UNCHANGED <<slave, image, sensing, whole, controller, damper, driver, reports, down, up, left>>

Repeats(data) ==
    /\ InApp /\ data \in told
    /\ ~(IF data = "RoomTemp" THEN room.temp ELSE room.setpoint)
    /\ told' = told \ {data}
    /\ UNCHANGED <<slave, image, mcu, screen, sensing, whole, controller, damper, driver, reports,
                   down, up, left>>

(* Bug: keepaliveCursor does not advance.                                  *)
KeepaliveFirst(data) == data = "RoomSetpoint" /\ Repeats(data)

(* Publisher::keepaliveTimer.  (What the relay knows is not repeated.)     *)
Keepalive(data) == Repeats(data)

-----------------------------------------------------------------------------
(* What happens to them.                                                   *)

Loses ==
    /\ left.losses > 0
    /\ left' = [left EXCEPT !.losses = @ - 1]
    /\ \/ down # <<>> /\ down' = Tail(down) /\ UNCHANGED up
       \/ up # <<>> /\ up' = Tail(up) /\ UNCHANGED down
    /\ UNCHANGED <<thermostat, controller, damper, driver, reports>>

PowerCut ==
    /\ left.cuts > 0
    /\ left' = [left EXCEPT !.cuts = @ - 1]
    /\ slave' \in Boots(slave)
    /\ mcu' = "PowersUp"
    /\ UNCHANGED <<image, screen, told, sensing, whole, controller, damper, driver, reports, down, up>>

(* The damper moves, the sensor fails or is back.                          *)
Turns ==
    /\ Settled /\ left.turns > 0
    /\ left' = [left EXCEPT !.turns = @ - 1]
    /\ \/ damper' \in Openings \ {damper} /\ UNCHANGED <<sensing, told>>
       \/ /\ sensing' = ~sensing
          /\ told' = told \ {"RoomTemp"}
          /\ UNCHANGED damper
    /\ UNCHANGED <<slave, image, mcu, screen, whole, controller, driver, reports, down, up>>

Deadlines == GivesUpEntering \/ Probes \/ TimesOut \/ WriteTimesOut
Driver == Starts \/ Reads
Link   == Discovers \/ FlushesQueue \/ Polls \/ LinkLapses \/ Hears
Relay  == TempGoesStale \/ Enters \/ AsksAgain \/ RelayLoop \/ HandlerLoop
Peer   == ThermostatHears \/ ThermostatStarts \/ \E data \in RoomData : Keepalive(data)

Next == Deadlines \/ Driver \/ Link \/ Relay \/ Peer \/ Loses \/ PowerCut \/ Turns

(* Every loop keeps turning and every timer keeps running out; somebody    *)
(* has to ask for a push, and nothing has to go wrong.                     *)
Fairness ==
    /\ []<><<Polls>>_vars /\ []<><<Discovers>>_vars
    /\ SF_vars(RelayLoop) /\ SF_vars(Deadlines)
    /\ WF_vars(FlushesQueue) /\ WF_vars(Hears)
    /\ WF_vars(ThermostatHears) /\ WF_vars(ThermostatStarts)
    /\ WF_vars(Enters) /\ WF_vars(HandlerLoop) /\ WF_vars(TempGoesStale)
    /\ WF_vars(Reads)
    /\ \A data \in RoomData : WF_vars(Keepalive(data))

Spec == Init /\ [][Next]_vars /\ Fairness

-----------------------------------------------------------------------------
(* Properties.                                                             *)

(* A push is done only when the bootloader of the Thermostat has found the *)
(* image it was begun with whole: acknowledgements that the relay tells    *)
(* apart by the last request, and cached states that it answers from, are  *)
(* never those of another step (ThermostatLink.cpp OnOpReply, ota.go       *)
(* waitForWithProbe).                                                      *)
DoneMeansWhole == driver.outcome = "done" => whole /\ image = driver.version

(* A Begin that ends the wait for the bootloader is not sent while the     *)
(* application is still resetting into it (ThermostatLink.h                *)
(* bootloaderHintSeen).                                                    *)
BeginIsHeard ==
    [][relay.ota = "EnteringBootloader" /\ relay'.ota = "Transferring"
           => mcu # "Resets"]_vars

(* Whatever was lost or restarted, the display comes to show the damper as *)
(* long as no push is on (ForgetPushedDisplay).                            *)
DisplayCatchesUp == []<>(InApp /\ relay.ota = "Idle" => screen = damper)

(* The same, with every push over.                                         *)
DisplayOutlivesPush == []<>(InApp /\ Job({"Idle"}) => screen = damper)

(* The room is known exactly when the Thermostat measures it, after every  *)
(* outage, also one too short for the Thermostat to notice (Publisher's    *)
(* keepalive, RoomTempStaleMs).                                            *)
RoomIsTold == []<>(InApp => room.valid = sensing)

(* The version that decides about an already current push is that of the   *)
(* application that runs (QueryFirmwareVersion).                           *)
VersionIsLearned == []<>(InApp => relay.fw = Running)

(* A push to the Thermostat is the same FirmwareUpdate as one to a node on *)
(* the bus, with two more programs in between: whatever was lost or        *)
(* restarted it ends, and "done" it leaves the whole image in the flash.   *)
Update == INSTANCE FirmwareUpdate WITH
    Whole <- NewImage,
    flash <- slave.slot,
    runs  <- slave.face = "App",
    job   <- IF ~Job({"Idle"}) THEN "open"
             ELSE IF driver.outcome = "done" THEN "done" ELSE "none"

ImplementsUpdate == Update!Spec

=============================================================================
