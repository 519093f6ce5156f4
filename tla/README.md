# ClimateControl: the TLA+ verification project

ClimateControl balances the air of a house: a central unit blows conditioned air
into ducts, each room has a damper, and the firmware on an RS485 bus, a
MainController and a server decide how far each damper opens. This directory
holds models of its control logic, the TLC runs that check them on small
instances, and TLAPS proofs for every value of the constants. `PROJECT.json`
lists components, runs, findings, hazards and theorems, and maps every
definition to the source lines it models. Paths below are relative to the
repository; `NodeLib` stands for `Software/Lib/NodeLib` and so on.

1. [Inventory](#1-inventory)
2. [Plan](#2-plan)
3. [The modules and the code](#3-the-modules-and-the-code)
4. [The runs](#4-the-runs)
5. [Fairness](#5-fairness)
6. [Refinement](#6-refinement)
7. [What is proved](#7-what-is-proved)
8. [What the code does not do](#8-what-the-code-does-not-do)
9. [Not modelled](#9-not-modelled)

Run everything from this directory: `tlc -config X.cfg M` for a run of section 4,
`tlapm M.tla` for each module whose name ends in `Proofs`.

## 1. Inventory

The repository has three programs: the firmware (C++ on STM32G030/G0B1), the
server (Go) and its web pages. `Software/Lib/HAL/Vendor` is third party.

| Part | State it keeps | Operations | What makes it correct |
|---|---|---|---|
| Bus master `NodeLib/NodeMaster` | state machine, roster (`active`, `inBootloader`), `pendingPollNode`, transmit queue | `Loop`, discovery, poll timeout, `NodeHello`, Done, `QueueMessage` | polls only nodes on the roster, in fair turns; the search for the next node ends; a lost answer wedges nothing |
| Bus slave `NodeLib/Node`, `Publisher` | message queue, heartbeat timer, pending reset, published values | answer Discover and Poll, queue, commanded reset, publish on change | keeps its place on the bus through an update; nothing is reported that was not true, nothing changed stays unreported |
| Bootloader `Modules/Bootloader` | transfer state, expected offset, staged writes, queued replies; the flash slot | Begin, Write, End, Activate, Abort, Get, Poll | a chunk is acknowledged only when it is in flash; only a whole image runs |
| Damper driver `ControllerNode/Damper` | target, actual, pulse, timers | `SetTarget`, `Loop` (slew, stall, settle), `ParkNeutral` | not left powered, bounded stall current, no jump at power-up |
| Room control `ControllerNode/RoomControlLoop`, `ControllerHandler` | budget, mode, DumpRoom, lost flag, heartbeat | budgets, overrides, ramp without a master | in Auto stays in the budget; a stall is not retried blindly; the dump room opens when nobody controls |
| Settings `NodeLib/SettingsPage`, `Calibration` | RAM copy and one flash page | Set, Load, Save (erase, program) | what loads is what runs; an untroubled reset loses nothing |
| Budget allocator `MainController/BudgetAllocator` | last report of every room, budgets | observe, recompute, keep the airflow floor | the floor is met whenever enough rooms are there; stale rooms hold no air |
| Thermostat link `ControllerNode/ThermostatLink`, `NodeLib/LinkMaster` | peer state, link cache, relayed update | poll the one peer, relay the update, push the display | the cache follows the peer; a relayed update answers each request once |
| Uplink `MainController/UplinkHandler`, `ThermostatMonitor`, `Lib/Nina` | connection state, presence snapshot, outbound queue, log ring | relay commands and reports, presence events | the server's roster ends up equal to the master's |
| Server push `internal/service/ota*.go` | job, window, channels, retries | job queue, windowed push, resume, re-entry | one push at a time, every job gets its turn and ends; Done means the image is in flash |
| Server service and store `internal/service`, `internal/store` | node table, overrides, faults, refill | apply reports, re-assert overrides, jobs | what the user set survives a rejoin |
| Server uplink, hub, web `internal/uplink`, `hub`, `ws`, `httpapi`, `web` | connections, subscribers | fan out, request decoding | a slow browser stalls nobody |
| Temperature sensing `TemperatureNode/DuctChannel`, `Ds18b20`; frame codec; HAL; displays | driver state | read, filter, encode | unit tests fit; see section 9 |

How they interact. The **bus** is half duplex: the master writes commands it
has queued, then polls one node; the node empties its queue, says Done, and only
then the master goes on. A node that hears no Poll for a second calls
`ConnectionLost()`. The **uplink** (Wi-Fi module NINA, one TCP connection)
relays commands and reports both ways through bounded queues. The **private
link** between a ControllerNode and its Thermostat repeats the bus protocol with
one peer. A **firmware push** crosses all of it: server driver, uplink,
MainController, bus, bootloader -- and for a Thermostat one hop more. All
firmware is single threaded (interrupts fill ring buffers); the server has one
goroutine per connection and job.

What is hard: messages lost between any two parts, answers that arrive in a
later phase than the one that asked, nodes that restart in the middle of
anything, flash that is erased and not yet programmed, timers of one part
against the round time of another, full queues that drop silently, and a servo
that meets an obstacle. `PROJECT.json` has each at its line under `hazards`.

## 2. Plan

Most important behaviour first; each step ended with its runs green.

1. **NodeMaster**, the arbiter everything depends on, and its proofs.
2. **Damper**, **ServoDamper** (driver on a servo that can jam), **RoomControl**
   (the same operators under the room loop, budgets and the heartbeat).
3. **Settings**.
4. **FirmwareSlave** and **NodeOta**: bootloader and push driver.
5. **NodeBus**: NodeMaster composed with slaves on one wire.
6. **BudgetAllocator** and **AirBalance**: the allocation functions, and their
   composition with rooms over a bus that loses reports and budgets.
7. **ThermostatLink**: link master, relay and the Thermostat, composed with
   FirmwareSlave and the server's driver. **FirmwareUpdate**: what any push
   promises, implemented by NodeOta and ThermostatLink.
8. **NinaLink** and **Uplink**: the link's bring-up under the presence snapshot,
   the bounded queue and the server's overlapping connections.
9. **Commands**: what an operator sets, composed with Settings, which it implements.
10. **OtaJobs**: the server's queue of pushes, and who wakes it.
11. Proofs of NodeMaster, RoomControl, ServoDamper, Settings, Commands, OtaJobs and
    FirmwareUpdate; that NodeBus implements NodeMaster.
12. Proofs of a push to a node (FirmwareSlave and NodeOta, and that it is a
    FirmwareUpdate), of the servo's park and power-up, of what the server knows
    through the Uplink, and that a node keeps its place on NodeBus.
13. Proofs of AirBalance's allocation, and that RoomControl does not retry a stall.

All of these are done. Left, in this order: the MainController's self-update as a
third implementation of FirmwareUpdate; the refill of the server's cache; the status
report on the queue of NodeBus (the hazard at `Node.cpp:204`); the bytes of a push in
ThermostatLink, without which its safety is no theorem (section 7).

How the modules build on each other (an arrow reads "extends"):

    ServoDamper, RoomControl -> Damper          NodeBus -> NodeMaster
    NodeOta, ThermostatLink -> FirmwareSlave    AirBalance -> BudgetAllocator
    Uplink -> NinaLink                          Commands -> Settings
    NodeOta, ThermostatLink instantiate FirmwareUpdate; OtaJobs stands alone

## 3. The modules and the code

**NodeMaster** (`NodeMaster.cpp`, the queue of `Node.cpp`). One action per case
of the switch in `Loop()` -- `DetectWindowOver`, `FlushQueue`, `FlushEmpty`,
`PollGapOver`, `PollTimeoutForgiven`, `PollTimeoutLost` -- and one per received
frame or call (`ReceiveAnnounce`, `ReceiveDone`, `QueueMessage`). Timers may run
out at any `Loop()`. The environment may deliver any Announce or Done at any
time, so the module covers late, repeated and forged frames; the price is that
it says nothing about what slaves do. `tx` is what the last step wrote. The
history variable `polledSince` serves `NoBypass` alone. TLC checks the module's
properties inside NodeBus; this wider environment is what the proofs are about.

**NodeBus** (also `Node.cpp`, `FirmwareSlave.cpp`, `Bootloader/main.cpp`).
NodeMaster's actions, driven by frames on `wire`; each slave is in its App, its
Boot(loader), Down (restarting) or Off. An exchange is over when the wire is
empty, and only then do the master's timers run out: an answer later than the
timeout is one that did not come. EnterBootloader queues an Ack and an Announce
and resets once the next poll has taken them; SystemControl resets queue an Ack
only; a full queue drops. Queueing and power-on happen between exchanges: they
only change what the next one finds. `excused` is history: nodes the master has a
reason to give up (power, a lost frame of theirs, a restart that was not or
could not be announced).

**Damper** (`Damper.cpp`): operators on the record of the driver's members;
time is counted in servo frames of 20 ms, a position is a servo pulse. **ServoDamper**
adds a servo horn that follows the pulse unless something is in the way, a
stall current where it cannot, targets, parking and passes of the main loop up
to `MaxPass` frames apart. **RoomControl** (`RoomControlLoop.cpp`,
`ControllerHandler.cpp`, the heartbeat of `Node.cpp`) calls the same operators:
`Pass` is one main loop, in the code's order (ramp, decide, damper). The
overcurrent reading is free, and so is the demand of the room, which AirBalance
computes. A reset can come at any time and loads the saved DumpRoom flag.

**BudgetAllocator** (`BudgetAllocator.cpp`, `RoomDemand.cpp`): the allocation as
functions of the last reports -- fair shares, the walk back without a reading, the
minimums by rank with their integer rounding. **AirBalance** puts them between
rooms that report what changed (`Publisher.cpp`) and a queue of Sets. A round of polls
is one step, as it takes far less time than the allocator's interval; what is
lost in it is a set of reports. A room is RoomControl without its damper's
travel: a damper is where it was told to be, or stalls if that is past an obstacle
(`reach`). As in the code a stall is no mode of its own: the node reports it in place of
the mode until the damper gets another target, from the loop, a budget or the loss of the
master, and then tries again. Rooms come, go, restart, are overridden, get an obstacle or
lose it, or lose their reading.

**Settings** (`SettingsPage.cpp`, `Calibration.cpp`): Save is an erase and a
program step; each can fail, and a reset can come in either.

**Commands** (`service.go`, `store.go`, `api.go`, `ControllerHandler.cpp`). Every HTTP
request runs in a goroutine of its own: `SendCommand` (the Set is on its way), `Hold`
(the override is stored) and `Mirror` (the other override is brought in line) are
three steps that other requests, `DeleteOverride` and the goroutine that reads the
uplink (`OnPresence`, `SendOverride`, `OnConnect`, `OnDisconnect`) come between. The
node restarts, enters its bootloader and comes up; `Misses` and `Announces` are what
the master learns of it. A DumpRoom Set goes through Settings' own actions. Lost are
only the Sets on a dead uplink, or for a node that is not in its application: a Set has
no retry, and full queues are in Uplink and NodeBus. `unsure` is history, explained in
section 8.

**FirmwareSlave** (`FirmwareSlave.cpp`, `AppImage.cpp`, the application's side in
`Node.cpp`): operators on the record of one node; the slot is the number of
double-words programmed in order. **NodeOta** (`ota.go`): the driver for a bus
node as a machine whose states are the places where its Go code waits, over two
FIFO links that lose frames and the driver's three channels with their
capacities. What a push has to put up with is a record of bounds (`Conditions`), chosen
once per behaviour, so that one run covers several kinds of trouble without their
product.

**ThermostatLink** (`ThermostatLink.cpp`, `LinkMaster.cpp`, `ControllerHandler.cpp`,
`ThermostatHandler.cpp`, `ota.go`). The link master discovers, flushes its queue and
polls its one peer; the relay keeps what it has heard (room, version, transfer
state), pushes the display, enters the bootloader on behalf of the server and passes
each write and its one reply through; the peer is the Thermostat's application or
the FirmwareSlave operators; the server's driver waits on Begin, Writing, Resuming,
Restarting and Verifying. It does not empty its reply channels when it resumes or begins
again (`ota.go:639`, 656, 705), so the model has more stale reports than the code.
`Mishaps` is one record of bounds per behaviour, as in NodeOta.

**NinaLink** (`Lib/Nina`): every state of the module's bring-up, its retries, failures
and event queue; a command and its answer are one step. **Uplink** (`UplinkHandler.cpp`,
`ThermostatMonitor.cpp`, `server.go`, `service.go`) adds the roster and the presence
snapshot, the outbound queue, the monitor of the Thermostat, the keepalive, and on the
other side one goroutine per connection: hello, take-over, `OnConnect`, reading a
chunk, dispatching its frames one at a time, and the teardown. A connection that the
module was reset out of stays half open beside its successor. A report of a node is
relayed only when the relays have seen the node on the roster before (`BusReports`): a
node is discovered in one pass of the main loop, polled and heard in later ones, and
every pass has the relays in it (`Software/Modules/MainController/main.cpp:46`). Without that guard
a report could reach the server ahead of its node's announcement and be undone by it.

**OtaJobs** (`ota.go`, `store/ota.go`): the rows of `ota_jobs`, and the goroutines that
act on them. A request asks for a pending job (`Press`) and queues its own
(`CreateOtaJob`) in two steps; whoever may have changed what the queue can do leaves a
`Kick` behind, which `kickOta()` takes under the lock: it leaves the queue alone while a
push runs or the uplink is down, else ends the jobs without an image and starts the
first other one. A push is five states of its goroutine, among them the gap of `done()`
between the row and `doneCh`. Connections come, are taken over and go; a restart of the
server keeps the table and nothing else. What a push does is FirmwareUpdate's.

Operators marked "Bug" are not the code; each is the definition after it with
one plausible mistake, and shows that a property notices that mistake.

## 4. The runs

Bounds are in the `.cfg` files. The `violation` runs are in section 8.

| Run | What it shows | Bounds and why they are enough |
|---|---|---|
| `node_bus` | the search for the next node ends and turns are fair; a node keeps its roster place through a commanded update, with the other node restarting, losing power or being rediscovered; one that stays up is polled for ever, one that is gone leaves | two nodes, one frame lost, queues of 1 and 2 (so that Ack fits and Announce does not), restarts miss one poll, grace for two; the proofs of section 7 lift the bounds of the first three |
| `servo_damper` | at rest only where it was told to be; bounded stall current; a park ends within half a stroke, the settle time and two passes; no jump at power-up; moves end | a stroke of a few slew steps, both timers, passes of up to two frames |
| `room_control` | in Auto inside the budget after every step that changes either; no blind retries; without a master the ceiling converges and the dump room opens | three positions, so that budget, demand and target can all differ; one demand, as the ramp does not depend on it |
| `air_balance` | every allocation keeps the duct open at the least cost and hands no air out twice; the dampers really end up where it is, and with one of them obstructed get there again and again (section 8); budgets walk back | three rooms, a floor that one open room does not reach and two do; two starting houses, with a reading, and without one and with a damper seized where it is; one frame lost and one change, each anywhere; two of the rooms change; obstacles that a damper cannot open past, or move from at all. What an allocation hands out is proved for any number of rooms |
| `commands` | the page holds what runs through every restart; held overrides never contradict each other; the damper ends up as they say | two requests at a time, two positions, one setting, three commands, restarts or broken links: a command, something that undoes it and something that interferes. With four of them (4.2 million states) all of it holds too |
| `node_ota` | acknowledged is programmed and stays acknowledged, a good flash never fails, the push is a FirmwareUpdate, and well when nothing fails | three chunks of two double-words, a window of three over a stage and reply queue of two (so both overflow); two losses and a power cut, a loss and a flash fault, or timers that are shorter than the answers |
| `thermostat_link` | a push is a FirmwareUpdate and its "done" is true; a Begin is not sent into a reset; display, room reading and version catch up | two chunks, one resume, one retry; one loss, lapse or power cut beside one push or one change |
| `uplink` | the node table follows the bus, the Thermostat's status arrives, old connections disturb no new one, the link comes back | two nodes, two connections, a queue of five (roster, hello and one frame more), a wire of two frames; three failures or changes: two connections to break and one change between them. What a server that heard everything knows is proved for any number; the order of the reports and rosters of several nodes needs four changes to go wrong |
| `ota_jobs` | one push at a time, none twice, every queued job gets its turn | three jobs (one runs, one waits, one comes late) for two targets, two requests at a time, one finished row kept; three restarts, broken or taken-over connections or lost images |

Deadlock is checked everywhere but in the pushes, which end, and in `commands` and
`ota_jobs`, whose bounded systems have nothing to do once everything that may happen has.

Every property has a mutant in `PROJECT.json`: a mistake in a mapped
definition that makes TLC find the property violated under the same bounds.

Two conditions of the models deserve a word.

*Patience.* In NodeOta with `patient`, and in ThermostatLink, a timer of the driver
runs out only when no answer to it is still under way, which 3 s and 20 s against a
bus round of tens of milliseconds make the normal case. The third record of `Trying`
shows what holds without it, when nothing is resumed. It matters: with short
timers, a push that is started over after a resume can take Acks of its first attempt
for its own, and `AcksAreHonest` then fails.

*Long intervals.* Keepalives, monitors and display refreshes turn (`Quiet`, `Settled`)
only when the frames before them have been dealt with: seconds against milliseconds.

## 5. Fairness

- ServoDamper, RoomControl: the main loop keeps running and time passes (weak
  fairness of a pass of at least one frame), the ramp timer runs out, a heartbeat
  nobody renews lapses. Nothing is assumed of the master, the room or the sensor.
- NodeBus: weak fairness of the master's loop, of the wire and of a restart. The master
  discovers again and again, and polls again and again unless it keeps running out of
  nodes: which of the two a pass does depends on whether the 15 s timer has run out, a
  choice the model leaves open; as the Discover window takes 230 ms, neither ever shuts
  out the other.
- AirBalance: the allocator's timer and everything on the bus gets its turn, and a damper
  that cannot get where it is told stalls in the end (`CheckStall()`). Obstacles
  need not go away; none keeps a damper from neutral, where it starts. For the timer and
  the bus it is stated as "again and again there is nothing to report, repeat or send",
  which for actions that leave nothing of their own to do is the same as their weak
  fairness.
- Commands: the goroutines of the server run, the MainController reconnects and keeps
  discovering, and the node comes up again and gets its frames. Not that a missed
  poll is noticed (`Misses`), nor anything that an operator does.
- NodeOta: the bus and the server's goroutine keep running and an armed timer
  fires, weak fairness each. Losses, power cuts and faults are bounded and not fair.
- ThermostatLink: the link master polls and discovers again and again (two timers of one
  loop, each stated by itself for the reason given for NodeBus); the relay's loop and the
  deadlines are strongly fair, as their turn comes between frames that keep
  disabling them and a running timer does not start over for those; weak fairness of
  everything else. Nobody has to ask for a push.
- Uplink: MainController's main loop, the goroutines of the server, and a network that
  comes back; breaking it is bounded.
- OtaJobs: the server's goroutines run, a push ends (what NodeOta and ThermostatLink
  show), and the MainController dials back in. Nobody has to press anything; restarts
  and broken connections are bounded.
- NodeMaster and Settings state safety only.

## 6. Refinement

**FirmwareUpdate** is the promise of a push in seven actions: a slot of flash that is
erased, filled in order and started whole; a processor that runs it or not; a job that
may fail at any time, always ends, and ends well only with the whole image in the slot,
where it stays. `ImplementsUpdate` (its safety and its liveness) is a property of
two runs:

| | `flash` | `runs` | `job` |
|---|---|---|---|
| NodeOta | double-words programmed | the node is in its application | open while the driver waits or writes; done; none after a failure |
| ThermostatLink | the same of the Thermostat | the same of the Thermostat | open outside `Idle`; done or none by `outcome` |

So a push through two more programs and a private link is the same update. That the
promise follows is proved (`PromiseKept`), and so is, for every image, window and number
of mishaps, that NodeOta starts and moves like an update (`MovesLikeAnUpdate`) and therefore
keeps it (`PushKeepsPromise`). TLC alone checks that ThermostatLink does, and the liveness
half of both: that a push ends.

**Commands implements Settings.** The mapping is the identity on the variables of
Settings; that every step of Commands is a step of Settings or leaves the page
alone is proved (`SettingsInside`), and Settings' theorems hold of Commands for that
reason (`SettingsHoldInside`). **NodeBus implements NodeMaster** in the same way: the
slaves and the wire are one of the environments that NodeMaster allows (`BusIsMaster`),
so fair turns and the end of the search hold on every bus (`BusIsFair`).

## 7. What is proved

Each theorem holds for every value of the constants, from the named assumptions on
them, which only give ranges. The module `XProofs` extends `X`; NodeMasterProofs extends
NodeBus, DamperProofs ServoDamper, and CommandsProofs holds the proofs of Settings too.

**NodeMasterProofs**
- `TypeCorrect`: `Spec => []TypeOK`.
- `SearchEnds`: `Spec => []NodesFoundExact`. The cached flag is exact, so the
  unbounded search in `PollNextNode()` ends. Lemma `NextActiveNearest` shows that a
  nearest active node exists, by minimality of `Gap`.
- `PollsTheRoster`: the master only waits for a node on its roster. The two together
  are inductive; the second alone is not, as the poll relies on the search having
  found a node.
- `BoundedBypass`: `Spec => NoBypass`. The inductive invariant adds `WaitersAhead`:
  every node polled since n was last polled is at least as far behind n, going
  round, as the node polled last. The next poll goes to n or to a node strictly
  nearer to n (`GapShrinks`), so never to one polled since.
- `BusIsMaster`, `BusIsFair`: section 6.
- `BusTypeCorrect`, `KeepsItsPlace`: `BusSpec => BootloaderKeepsItsPlace`, for any number
  of nodes, losses and queue sizes. The property speaks of one step, the timeout at which
  the master drops a node; what makes it hold was decided many exchanges before, so the
  invariant `BusInv` carries it there. `Kept`: a node on the roster is excused, or its
  announcement of a restart is on the wire, or the master forgives it at least as many
  polls as it may still miss (`Owed`), counting the one it has not answered
  (`Unanswered`). That it starts to be true takes three more facts: an application that
  told of its restart still has the Announce in its queue (`SlavesOK`; the full queue is
  the case where the Announce is dropped and the node is excused), an Announce on the
  wire is `Sincere`, so none that is late takes the grace back, and while the master
  waits the wire holds only the question or the answer of the node it waits for
  (`InTurn`), so a timeout says something about that node. The one assumption on the
  constants is that the grace covers two restarts, into the bootloader and back
  (`2 * MaxMissed <= BootGrace`; the code's grace is 200 polls).

**DamperProofs** has a lemma for each operator of Damper: it returns a damper in range
(`SetTargetType`, `LoopType`, ...). RoomControlProofs builds on these, and so do the
theorems about ServoDamper in the same module, below.

**RoomControlProofs**: `RoomTypeCorrect` and `StaysInsideBudget`: whenever the mode is
Auto, a pass, a budget or the loss of the master leaves the target inside the range.
The argument needs the range to be well formed, `budgetMin <= budgetMax`, which is the
inductive part: a minimum above the maximum wins in `SetBudget`, and the ramp never
goes below the minimum. The type needs one fact more: a damper that is moving between
two calls has no time since its last slew left over (`Rested`), or the clock of
`Slew()` would not be bounded by a pass. `NoBlindRetry`: a stalled damper is started for
the target it has only by a command that repeats it (`StallIsNotRetriedBlindly`). A pass
decides for another target or for none (`PassDoesNotRetry`), and so does the range that
a budget or the loss of the master brings (`ClampDoesNotRetry`).

Of ServoDamper, in **DamperProofs**: `ServoTypeCorrect`; `RestsWhereTold`: a damper that
is off is where it was told to be; `PushesBriefly`: no jam is pushed against for longer
than the confirm window and two passes. The last needs that the driver's stall timer has
been running along with the exposure (`Counted`). `ParksInTime`: the time a park has
taken is bounded by the distance the pulse has come, plus the settle timer and what a
pass adds to each; its hypothesis `InTheMiddle` says that Neutral is at most half way up
(`NeutralPercent` is 50), or the way down would be the longer one. `PowersUpNear`:
between the first sight of a stall current and the moment it is believed, the pulse has
gone no further than the slew of that window from where a stall takes it back to
(`Near`).

**AirBalanceProofs**, of the allocator with any number of rooms, whatever they want and
whatever was last heard of them: `FloorIsKept` and `PoolIsHandedOut`. Both are about one
call of `Recompute()`, whose two loops are recursive functions in BudgetAllocator; the
lemma `Iteration` makes such a function one that applies a step again and again,
and what the step keeps is then carried along by counting up.
- *The pool.* A pass of the water-fill rounds every open room's part to the nearest
  percent, half a percent off at most. While `j` of `k` rooms are open, the sum of the
  shares is off the pool by at most a quarter of `Slack(k, j)`, `k(k+1) - j(j-1)`
  (`FillOK`): a pass that hands something out has closed a room first, which makes the
  slack grow by twice the rooms that stay open (`SlackGrows`), and that is what their
  rounding takes (`PartsAddUp`). There are as many passes as rooms, so in the end no
  room is above fully open (`Settled`): the final clamp of the code takes nothing away.
  The sums are `SumFunctionOnSet` of the community modules, whose recursion is
  unfolded once (`SumEquation`); the rest about sums follows from taking one
  element out (`SumRemoves`).
- *The floor.* A selection pass keeps (`TakesOK`): what is open and what is still missing
  add up to the same; while something is missing, every room that had its turn is
  fully open; and whoever took a minimum comes after rooms that are. After as many passes
  as rooms in Auto, nothing is missing or nobody is left (`SelectionServes`). That there
  is a first one to select takes `RanksAreOrdered`. `OpensAtMinimum` connects the
  allocator's books to the room's loop: `RoomControlLoop` clamps into the range, which
  puts the damper where `Unfloored()` expects it or at its minimum.
- `AirInvariant` is the inductive part: whatever gets lost and whoever comes or goes, the
  allocator only remembers what a room may report, and a room is only told a range. It
  needs the types of an allocation, as what is allocated is remembered as reported, and
  what a room makes of it comes back as a report.

The bound on the rounding, `rooms * (rooms + 1) / 4`, came out of the proof: one
percent for each room, which `PoolIsShared` allowed before, holds with three rooms and
fails with eleven (a default of 31, and demands of 42, 55, 97 and eight times 1, hand
out 15 too many).

**CommandsProofs**, of the page alone: `SettingsTypeCorrect`, `PageIsWhatRuns`, `ReportsAreStored`,
`ResetLosesNothing`. The properties say nothing of a save under way; the invariant
adds what the page holds in each phase: what runs until the erase is over, then nothing.
`ReportIsStored` (a Report is of what is stored, until a save fails) is in no run.
Of the node that is commanded: `CommandsTypeCorrect`, with it `SettingsInside` and
`SettingsHoldInside` (section 6), and `HeldIsConsistent`: between commands a held target
stands beside Manual or no mode, for any number of requests. The strengthening
(`Resolved`): while there is a contradiction, some request is at its mirror step and
will resolve it; a request that stores one is, and one that mirrors
leaves none behind.

**UplinkProofs**: `StaysShown`: a served session that had the server to itself is shown
as up, for any number of connections and failures. Only the active connection can come
to leave, so that none is left that could still take the display down (`NobodyLeaves`);
that takes the phase of the active connection and, as `Serving` speaks of both sides,
that a module past dialling has a connection. `KnowsWhoIsThere` and `StatusArrives`: a
server that has heard such a session out knows who is on the bus, what they run and the
Thermostat's status. "Heard out" is a statement about a stream that is empty; the
invariant (`TInv`) speaks of one that is not. The frames the server has read, those on
the wire and those in the module's queue, in a row, lead from what the server knows to
what the module's side said last, frame by frame. A frame that is sent is added at one
end, one that is dispatched taken off at the other; a roster in the middle makes what
came before it irrelevant. It needs that a slot is not dialled again while frames of its
last connection are left (`Slot`, `Fresh`), that no other connection writes to the
same tables (`OthersSilent`) and that both sides mean the same one (`OneEnd`).

**OtaJobsProofs**: `JobsTypeCorrect`; `OneAtATime`: the push that runs is the one replies
are fed to; `NeverTwice`: no push that is over is started again. The strengthening
(`Recorded`): a push that has not begun is still in the queue, one whose goroutine is at
its end has left it, so that neither a kick nor pruning can disturb the one or start the
other.

**NodeOtaProofs**, of a push to a node, in three layers, each inductive on top of the one
before. `TypeCorrect`: beside the types, the node's flash is where its program says
(`Sound`): while it receives, the slot holds the chunks it expects no more, and the
double-words of the next one that it has programmed; an application runs only on a
valid slot. `FlashFaultsAreReal`: no Nack for a failed program, in a channel, on the wire or
counted, while the flash has not failed (`FaultsAreReal`). `AcksHonest`: what the driver
counts as acknowledged is in the flash. `Phases` says for each wait of the driver what the
flash and everything under way can be: nothing of a transfer before it begins
(`BeforeWriting`, `BeginComesFirst`), a resume offset that is no more than the slot
(`ResumesHonestly`), Acks of programmed chunks only (`WritesHonestly`), and a whole image
from End on (`EndsWhole`). The third layer has the hypothesis `Patient`: under every
Condition the timers outlast the answers or a push never resumes, as
section 4 explains; those of the runs are. From it follow `MovesLikeAnUpdate` and
`PushKeepsPromise`. Write stages a window of chunks in one recursive function; as no
induction theorem of the library can be used, its lemma (`Iteration`) argues by the
least step that is not as claimed. `UpdateTypeCorrect` and `PromiseKept` are about the
abstract push.

Only model-checked: everything temporal (`MoveEnds`, `RampConverges`, `DumpRoomOpens`,
`UpNodeIsPolled`, `GoneNodeLeaves`, `AirFindsItsWay`, `BudgetsWalkBack`, `NewImageRuns`,
`NodeFollowsHeld`, `DisplayCatchesUp`, `RoomIsTold`, `VersionIsLearned`, `UplinkComesBack`,
`QueuedJobsEnd` and the liveness in `ImplementsUpdate`), because liveness under fairness is outside the
prover; `AckedStaysAcked` (true of the bounds only: once as many losses as
`ReenterAfter` may come, a push begins again and erases what was acknowledged),
`NewImageRuns` and `DoneMeansVerified` of NodeOta; and of ThermostatLink the safety, and that
it implements FirmwareUpdate.

Of ThermostatLink no theorem for every value of `Mishaps` exists: `DoneMeansWhole` and
`BeginIsHeard` hold of one push with one mishap, as in the run, and TLC refutes both with
two pushes and two or three losses. A second push can begin while the Activate of the
first is still queued behind a lost Discover, and its Begin then meets the reset. And a
Begin that is lost can leave the node with the transfer of the first push, which takes
the chunks of the second: the CRC at End would tell them apart, but the model has no
bytes to compute it of. Nor does the driver empty its status reports before it verifies
(`Webserver/internal/service/ota.go:898`), so that a late "Valid" of the first push can
settle the second: the stale channel of section 8 again.

## 8. What the code does not do

Three places promise more than the code does; each run has one property and
TLC finds it violated.

- `room_absence`: the dump room is said to open while the MainController is gone.
  A node that starts while it is gone never starts the heartbeat timer, so it
  never notices. `room_control` shows the promise does hold for a node that had
  been polled.
- `node_ota_verified`: a push is said to send Activate after End was answered. The Ack
  of the application to EnterBootloader is still in the reply channel when Begin
  waits, settles that wait, and leaves Begin's Ack to settle End's. `node_ota` shows
  that the image is whole all the same: the bootloader refuses what is not. The same
  stale queue lets an application's Nack fail a healthy push.
- `thermostat_display`: after a push that succeeded the relay stays in Done, and sends the
  Thermostat's display nothing again until something makes it Idle. `thermostat_link`
  shows that the display catches up in Idle.

Smaller ones met while modelling. The properties say where they stop for these.

- *Settings.* A failed save is said to leave the old value in place
  (`Spec/TemperatureNode-Spec.md:95`). The page is then blank and RAM has the new value,
  so an equal Set is answered with a Report of what is not stored
  (`Calibration.cpp:55`). `ReportIsStored` holds up to the first failed save.
- *Budgets.* Without a reading they are said to be back at the default within 25 minutes
  (`Spec/Damper-Budget-Spec.md:223`). A ceiling that a minimum had raised is reported by
  the node, and the walk starts over from there: `BudgetsWalkBack` allows the minimum,
  and with an obstacle only promises that no ceiling ends below the default.
- *A jammed damper.* "A stalled node counts as 0" (`Spec/Damper-Budget-Spec.md:315`), so
  that others open in its place. That does not last. A dump room that stalls on its way
  up to a minimum is passed over by the next `Recompute()` and sent the minimum 0, which
  is another target: `SetTarget()` ends the stall (`Damper.cpp:81`), the damper moves
  back and the node reports Auto. The `Recompute()` after that finds a dump room in Auto
  and gives it the minimum again, in place of the others, and so on every 30 s. The floor
  is met and missed by turns: `AirFindsItsWay` promises `[]<>AirFlows` with one obstructed
  room in Auto, and only without any `<>[]AirFlows`. TLC refutes the latter with one
  obstacle, and the former with two, where the two rooms take turns. The ceilings of the
  rooms that stand in are raised every time, reported, and do not come back to the default
  either; without a reading TLC finds that also for a room that nothing is in the way of.
- *Overrides.* "Re-asserting them after a rejoin can't contradict itself"
  (`service.go:386`) holds of what is stored (`HeldIsConsistent`). The order of two
  overlapping commands on the link can differ from that in the store, and so can that of
  a command and a re-assert: the node then does not do what is held until it rejoins.
  An override is "re-applied if the node reboots" (`Webserver/README.md:192`) unless
  the reboot misses no poll. An out-of-range override is not to be persisted
  (`Spec/MainController-Server-Link-Spec.md:277`) but is stored before any Nack can
  come. `unsure` marks the first two; values out of range are not modelled.
- *Uplink.* The roster is said to be a snapshot (`Spec/MainController-Server-Link-Spec.md:91`).
  What a connection that broke in the middle of a roster had listed is only forgotten in
  `OnDisconnect` (`service.go:189`), which a connection that was taken over skips, and
  a goroutine between its unlock and its `OnDisconnect` can undo what its
  successor has begun. `clean` marks sessions that had the server to themselves. The
  presence snapshot is updated before the frame is known to be queued
  (`UplinkHandler.cpp:328`): after an overflow the server is wrong until the next
  roster (`lost`).
- *Thermostat.* A Begin that was lost leaves its pending operation, which a later Ack can
  settle; a push is skipped as already current by the version that was cached before
  an earlier push failed (`ThermostatLink.cpp:416`), so pushing the old version back
  without force does nothing; two EnterBootloaders leave two Announces, the second of
  which can be taken for news. `DoneMeansWhole` holds in spite of all three.
- *Job queue.* After a node drops out of a push the "server retries from
  `ota_jobs.last_offset`" (`Spec/MainController-Server-Link-Spec.md:275`). The driver does,
  while it lives. A push that a restart of the server cuts off does not: `main()` only
  prunes (`main.go:85`), the queue takes only rows that are "queued"
  (`store/ota.go:147`), and the row, left in a running state, makes
  `HasPendingOtaJob()` (`store/ota.go:165`) refuse every later push to that target, which
  the Firmware page shows as "update writing". `QueuedJobsEnd` exempts these (`orphans`).
  "One press = one job" (`ota.go:128`): two requests at once can both ask before either
  queues, and both queue: the image is pushed twice, one push after the other.
- *Timers.* A push started over while Acks of its first attempt are in flight counts them
  (`ota.go:846`; see *Patience* in section 4).

## 9. Not modelled

`components` in `PROJECT.json` has every part with its status and reason.

- The MainController's self-update and the server's refill: in the plan.
- Durations across parts: five silent nodes make a bus round longer than the heartbeat
  window (`NodeMaster.cpp:192`), which needs a timed model.
- The status report through a full queue (`Node.cpp:204`).
- Of the Thermostat: humidity, offset, RoomMode, buttons and menus. Of the uplink:
  downlink requests, the log ring, and the watchdog of the link, which the keepalive
  forestalls. Of the server: the fan-out to browsers, the web API and its pages.
- Temperature sensing, the frame codec, displays: filters, bytes and drawing, with unit
  tests of their own; the models take frames as whole messages that get lost.
- Everywhere: diagnostics, logging, the identify light, wording.

Most of the repository's lines are the vendor's hardware abstraction
(`Software/Lib/HAL/Vendor`: register definitions, CMSIS, ST drivers), which has
no protocol of this program; the models cover the control logic beside it.

`NodeBus.BusTypeOK` is proved and not in a run; the type invariants of NodeMaster,
RoomControl, ServoDamper, Settings, Commands, OtaJobs and NodeOta are proved as well.
Bounded, each by a named constant: losses, restarts, faults, changes and the
messages under way.
