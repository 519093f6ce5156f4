------------------------------- MODULE NodeOta -------------------------------
(***************************************************************************)
(* A firmware push to a bus node: the server's driver                      *)
(* (Webserver/internal/service/ota.go, otaDriver for target "node") and    *)
(* the node of FirmwareSlave, over the uplink and the bus.                 *)
(*                                                                         *)
(* The two directions of the link are FIFO queues that can lose a frame:   *)
(* the uplink is one connection, the MainController relays in order, and   *)
(* it is the bus, a full queue or a reconnect that loses.  The driver's    *)
(* three channels (reports, opReplies, writeReplies) are queues of their   *)
(* own: what arrives while the driver is not reading stays there.          *)
(*                                                                         *)
(* A step of the driver is one turn of a select in its Go code, with the   *)
(* sends that follow from it.                                              *)
(***************************************************************************)
EXTENDS FirmwareSlave

CONSTANTS
    Window,       \* otaNodeWindow (4)
    Retries,      \* otaWriteRetries (3)
    ReenterAfter, \* otaNodeReenterAfter (90)
    StepProbes,   \* Gets that fit in a wait: otaStepWait / otaBootPoll (20)
    ReportCap,    \* capacity of the reports channel (8)
    OpCap,        \* of opReplies (8)
    WriteCap,     \* of writeReplies (32)
    MaxUp,        \* frames on their way to the server; a bound
    Conditions    \* what a push may have to put up with; records of bounds:
                  \*   losses    frames that get lost
                  \*   restarts  power cuts of the node
                  \*   faults    flash operations that fail
                  \*   room      frames that the uplink takes towards the node
                  \*   resumes   otabounds.resumes (20), or less
                  \*   patient   the driver's timers outlast every answer

ASSUME DriverConstants ==
    /\ Window \in Nat \ {0}
    /\ Retries \in Nat
    /\ ReenterAfter \in Nat \ {0}
    /\ StepProbes \in Nat
    /\ {ReportCap, OpCap, WriteCap, MaxUp} \subseteq Nat \ {0}
    /\ Conditions \subseteq [losses : Nat, restarts : Nat, faults : Nat,
                              room : Nat \ {0}, resumes : Nat, patient : BOOLEAN]

VARIABLES
    n,            \* the node, in SlaveNodes
    down,         \* frames from the driver to the node
    up,           \* frames from the node to the driver
    pc,           \* what the driver is waiting for
    reason,       \* why the job failed
    base,         \* first chunk not acknowledged
    next,         \* next chunk to send
    held,         \* nackHoldUntil has been set
    timeouts,     \* stalls in a row without an Ack
    resumes,      \* times the driver went through resumeNode
    probes,       \* Gets sent in this wait; in resumeNode, since a report
    reports,      \* the channels
    opReplies,
    writeReplies,
    bounds,       \* one of Conditions, for the whole of the push
    losses,       \* what went wrong so far: frames lost,
    restarts,     \* power cuts,
    faults,       \* flash faults
    verified      \* history: End found the image whole

link     == <<down, up>>
position == <<base, next, held>>
counters == <<timeouts, resumes, probes>>
channels == <<reports, opReplies, writeReplies>>
mishaps  == <<bounds, losses, restarts, faults>>
vars == <<n, link, pc, reason, position, counters, channels, mishaps, verified>>

Waiting == {"Entering", "Beginning", "Resuming", "Reentering", "Restarting",
            "Verifying"}
Over    == {"Done", "Error"}
Reasons == {"none", "program", "reported", "timeout"}

Simple == {"Get", "EnterBootloader", "Begin", "End", "Activate", "Abort"}
Get    == [op |-> "Get"]
Set(op) == [op |-> op]
Write(off) == [op |-> "Write", off |-> off]
Requests == {Set(op) : op \in Simple} \cup {Write(o) : o \in 0..(Chunks - 1)}

TypeOK ==
    /\ n \in SlaveNodes /\ SlaveBounds(n)
    /\ down \in Seq(Requests) /\ Len(down) <= bounds.room
    /\ up \in Seq(Answers) /\ Len(up) <= MaxUp
    /\ pc \in Waiting \cup Over \cup {"Writing"}
    /\ reason \in Reasons
    /\ base \in Offsets /\ next \in Offsets
    /\ held \in BOOLEAN
    /\ timeouts \in 0..(Retries + 1)
    /\ resumes \in 0..bounds.resumes
    /\ probes \in 0..(StepProbes + ReenterAfter)
    /\ reports \in Seq(Reports) /\ Len(reports) <= ReportCap
    /\ opReplies \in Seq(OpReplies) /\ Len(opReplies) <= OpCap
    /\ writeReplies \in Seq(WriteReplies) /\ Len(writeReplies) <= WriteCap
    /\ bounds \in Conditions
    /\ losses \in 0..bounds.losses
    /\ restarts \in 0..bounds.restarts
    /\ faults \in 0..bounds.faults
    /\ verified \in BOOLEAN

(* run() has sent its first request.  The node runs its application, or    *)
(* sits in the bootloader without one since an earlier push failed.        *)
Init ==
    /\ n \in {Started("App", OldImage), Started("Boot", 0)}
    /\ down = <<Set("EnterBootloader")>> /\ up = <<>>
    /\ pc = "Entering" /\ reason = "none"
    /\ base = 0 /\ next = 0 /\ held = FALSE
    /\ timeouts = 0 /\ resumes = 0 /\ probes = 0
    /\ reports = <<>> /\ opReplies = <<>> /\ writeReplies = <<>>
    /\ bounds \in Conditions
    /\ losses = 0 /\ restarts = 0 /\ faults = 0
    /\ verified = FALSE

-----------------------------------------------------------------------------
(* The node and the link.                                                  *)

Recorded == verified' = (verified \/ n'.state = "Valid")

NodeUnchanged == UNCHANGED <<n, verified>>
DriverUnchanged == UNCHANGED <<pc, reason, position, counters, channels>>

(* The flash fails at the bad-th write it has to program, or the erase.    *)
Flash(most, bad) ==
    /\ bad \in 0..most
    /\ faults' = IF bad = 0 THEN faults ELSE faults + 1
    /\ faults' <= bounds.faults

Touches(m) ==
    CASE m.op = "Begin" -> 1
      [] m.op = "Write" -> IF Len(n.staged) = MaxStaged THEN MaxStaged ELSE 0
      [] m.op = "End"   -> Len(n.staged)
      [] OTHER          -> 0

NodeReceives ==
    /\ down # <<>>
    /\ down' = Tail(down)
    /\ IF n.face = "App"
       THEN n' = AppReceive(n, Head(down).op) /\ UNCHANGED faults
       ELSE \E bad \in 0..MaxStaged, limit \in 0..(Words - 1) :
                /\ Flash(Touches(Head(down)), bad)
                /\ n' = BootReceive(n, Head(down), bad, limit)
    /\ Recorded
    /\ DriverUnchanged
    /\ UNCHANGED <<up, bounds, losses, restarts>>

(* The MainController polls the node and relays what it says.              *)
AppIsPolled ==
    /\ n.face = "App"
    /\ n.out # <<>> \/ n.resetPending
    /\ Len(up) + Len(n.out) <= MaxUp
    /\ up' = up \o n.out
    /\ n' = AppPolled(n)
    /\ Recorded
    /\ DriverUnchanged
    /\ UNCHANGED <<down, mishaps>>

BootHasNews == n.staged # <<>> \/ BootReplies(n) # <<>>

BootIsPolled ==
    /\ n.face = "Boot"
    /\ BootHasNews
    /\ \E bad \in 0..MaxStaged, limit \in 0..(Words - 1) :
           LET programmed == CommitStagedWrites(n, bad, limit)
           IN  /\ Flash(Len(n.staged), bad)
               /\ Len(up) + Len(BootReplies(programmed)) <= MaxUp
               /\ up' = up \o BootReplies(programmed)
               /\ n' = BootPolled(programmed)
    /\ Recorded
    /\ DriverUnchanged
    /\ UNCHANGED <<down, bounds, losses, restarts>>

LoseRequest ==
    /\ losses < bounds.losses /\ down # <<>>
    /\ down' = Tail(down)
    /\ losses' = losses + 1
    /\ NodeUnchanged /\ DriverUnchanged
    /\ UNCHANGED <<up, bounds, restarts, faults>>

LoseAnswer ==
    /\ losses < bounds.losses /\ up # <<>>
    /\ up' = Tail(up)
    /\ losses' = losses + 1
    /\ NodeUnchanged /\ DriverUnchanged
    /\ UNCHANGED <<down, bounds, restarts, faults>>

PowerCut ==
    /\ restarts < bounds.restarts
    /\ n' \in Boots(n)
    /\ restarts' = restarts + 1
    /\ Recorded
    /\ DriverUnchanged
    /\ UNCHANGED <<link, bounds, losses, faults>>

-----------------------------------------------------------------------------
(* The driver: sending and its channels.                                   *)

(* sendFrame(): false, and nothing sent, when the uplink has no room.      *)
CanSend == Len(down) < bounds.room
Send(m) == down' = IF CanSend THEN Append(down, m) ELSE down

Offer(channel, cap, m) ==
    IF Len(channel) < cap THEN Append(channel, m) ELSE channel

(* onReport() and onWriteReply(): a full channel drops the newest.         *)
AnswerArrives ==
    /\ up # <<>>
    /\ up' = Tail(up)
    /\ LET m == Head(up)
       IN  /\ reports' = IF m.op = "Report"
                         THEN Offer(reports, ReportCap, m) ELSE reports
           /\ opReplies' = IF m.op \in {"OpAck", "OpNack"}
                           THEN Offer(opReplies, OpCap, m) ELSE opReplies
           /\ writeReplies' = IF m.op \in {"WriteAck", "WriteNack"}
                              THEN Offer(writeReplies, WriteCap, m)
                              ELSE writeReplies
    /\ NodeUnchanged
    /\ UNCHANGED <<down, pc, reason, position, counters, mishaps>>

DrainReplies == reports' = <<>> /\ opReplies' = <<>> /\ writeReplies' = <<>>

(* done(): a failed push is aborted once Begin may have been sent.         *)
Fail(why) ==
    /\ pc' = "Error"
    /\ reason' = why
    /\ IF pc = "Entering" THEN UNCHANGED down ELSE Send(Set("Abort"))

(* The channels that the select of the current wait reads.                 *)
Unread ==
    CASE pc \in {"Entering", "Reentering", "Resuming"} -> reports
      [] pc \in {"Beginning", "Restarting", "Verifying"} -> reports \o opReplies
      [] OTHER -> writeReplies

(* Nothing is on its way, so nothing is going to arrive.                   *)
Quiet ==
    /\ down = <<>> /\ up = <<>> /\ Unread = <<>>
    /\ IF n.face = "App" THEN n.out = <<>> /\ ~n.resetPending ELSE ~BootHasNews

Timer == bounds.patient => Quiet

-----------------------------------------------------------------------------
(* enterBootloader(), from run() or from resumeNode().                     *)

(* Any report proves that the bootloader is there: Begin goes out.         *)
BootloaderAnswers ==
    /\ pc \in {"Entering", "Reentering"}
    /\ reports # <<>>
    /\ reports' = Tail(reports)
    /\ Send(Set("Begin"))
    /\ pc' = IF pc = "Entering" THEN "Beginning" ELSE "Restarting"
    /\ probes' = 0
    /\ NodeUnchanged
    /\ UNCHANGED <<up, reason, position, timeouts, resumes, opReplies,
                   writeReplies, mishaps>>

(* The ticker of every wait but resumeNode's; one Get at a time is enough. *)
Probe ==
    /\ pc \in Waiting \ {"Resuming"}
    /\ Timer
    /\ probes < StepProbes
    /\ CanSend /\ ~Contains(down, Get)
    /\ probes' = probes + 1
    /\ Send(Get)
    /\ NodeUnchanged
    /\ UNCHANGED <<up, pc, reason, position, timeouts, resumes, channels, mishaps>>

(* The deadline of every wait.  otaResumeWait is longer than ReenterAfter  *)
(* Gets take, so it only passes when the link holds Gets back.             *)
Deadline ==
    /\ pc \in Waiting
    /\ bounds.patient => Quiet /\ pc # "Resuming" /\ probes = StepProbes
    /\ Fail("timeout")
    /\ NodeUnchanged
    /\ UNCHANGED <<up, position, counters, channels, mishaps>>

-----------------------------------------------------------------------------
(* waitForWithProbe(), for the state that Begin or End leads to.           *)

Awaited == IF pc = "Verifying" THEN "Valid" ELSE "Receiving"

(* What follows the wait: the first chunk, or Activate.                    *)
Settled ==
    /\ probes' = 0
    /\ CASE pc = "Beginning"  -> /\ pc' = "Writing"
                                 /\ UNCHANGED <<down, position, timeouts>>
         [] pc = "Restarting" -> /\ pc' = "Writing"
                                 /\ base' = 0 /\ next' = 0 /\ timeouts' = 0
                                 /\ UNCHANGED <<down, held>>
         [] pc = "Verifying"  -> /\ pc' = "Done"
                                 /\ Send(Set("Activate"))
                                 /\ UNCHANGED <<position, timeouts>>

(* restartNodePush() drops what is left in the channels.                   *)
LeftOver(channel) == IF pc = "Restarting" THEN <<>> ELSE channel

StepReported ==
    /\ pc \in {"Beginning", "Restarting", "Verifying"}
    /\ reports # <<>>
    /\ LET state == Head(reports).state
       IN  CASE state = Awaited ->
                   /\ Settled
                   /\ reports' = LeftOver(Tail(reports))
                   /\ opReplies' = LeftOver(opReplies)
                   /\ writeReplies' = LeftOver(writeReplies)
                   /\ UNCHANGED reason
             [] state = "Error" ->
                   /\ Fail("reported")
                   /\ reports' = Tail(reports)
                   /\ UNCHANGED <<position, timeouts, probes, opReplies,
                                  writeReplies>>
             [] OTHER ->
                   /\ reports' = Tail(reports)
                   /\ UNCHANGED <<pc, reason, down, position, timeouts, probes,
                                  opReplies, writeReplies>>
    /\ NodeUnchanged
    /\ UNCHANGED <<up, resumes, mishaps>>

StepAnswered ==
    /\ pc \in {"Beginning", "Restarting", "Verifying"}
    /\ opReplies # <<>>
    /\ IF Head(opReplies) = OpReply(FALSE)
       THEN /\ Settled
            /\ opReplies' = LeftOver(Tail(opReplies))
            /\ reports' = LeftOver(reports)
            /\ writeReplies' = LeftOver(writeReplies)
            /\ UNCHANGED reason
       ELSE /\ Fail("reported")
            /\ opReplies' = Tail(opReplies)
            /\ UNCHANGED <<position, timeouts, probes, reports, writeReplies>>
    /\ NodeUnchanged
    /\ UNCHANGED <<up, resumes, mishaps>>

-----------------------------------------------------------------------------
(* writeImageWindowed().                                                   *)

WindowOpen == next < Chunks /\ next - base < Window

SendChunk ==
    /\ pc = "Writing" /\ base < Chunks
    /\ WindowOpen /\ CanSend
    /\ Send(Write(next))
    /\ next' = next + 1
    /\ NodeUnchanged
    /\ UNCHANGED <<up, pc, reason, base, held, counters, channels, mishaps>>

(* The window is filled, as far as the uplink takes it, before each read.  *)
Listening == pc = "Writing" /\ base < Chunks /\ (WindowOpen => ~CanSend)

ChunkAnswered ==
    /\ Listening
    /\ writeReplies # <<>>
    /\ writeReplies' = Tail(writeReplies)
    /\ LET r == Head(writeReplies)
       IN  \/ /\ r.op = "WriteAck" /\ r.off \in base..(next - 1)
              /\ base' = r.off + 1
              /\ timeouts' = 0
              /\ UNCHANGED <<next, held, pc, reason, down>>
           \/ /\ r.op = "WriteAck" /\ r.off \notin base..(next - 1)
              /\ UNCHANGED <<position, timeouts, pc, reason, down>>
           \/ /\ r.op = "WriteNack" /\ ~r.failed
              /\ base' = r.off /\ next' = r.off /\ held' = TRUE
              /\ UNCHANGED <<timeouts, pc, reason, down>>
           \/ /\ r.op = "WriteNack" /\ ~r.failed
              /\ held /\ r.off = base       \* within nackHoldUntil
              /\ UNCHANGED <<position, timeouts, pc, reason, down>>
           \/ /\ r.op = "WriteNack" /\ r.failed
              /\ Fail("program")
              /\ UNCHANGED <<position, timeouts>>
    /\ NodeUnchanged
    /\ UNCHANGED <<up, resumes, probes, reports, opReplies, mishaps>>

(* otaWriteWait without progress: resend from base, in the end resume.     *)
Stall ==
    /\ Listening
    /\ Timer
    /\ \/ /\ timeouts < Retries
          /\ next' = base
          /\ timeouts' = timeouts + 1
          /\ UNCHANGED <<pc, reason, down, resumes, probes, channels>>
       \/ /\ timeouts = Retries /\ resumes < bounds.resumes
          /\ pc' = "Resuming"
          /\ resumes' = resumes + 1
          /\ probes' = 0
          /\ timeouts' = timeouts + 1
          /\ DrainReplies
          /\ UNCHANGED <<next, reason, down>>
       \/ /\ timeouts = Retries /\ resumes = bounds.resumes
          /\ Fail("timeout")
          /\ timeouts' = timeouts + 1
          /\ UNCHANGED <<next, resumes, probes, channels>>
    /\ NodeUnchanged
    /\ UNCHANGED <<up, base, held, mishaps>>

SendEnd ==
    /\ pc = "Writing" /\ base = Chunks
    /\ Send(Set("End"))
    /\ pc' = "Verifying"
    /\ NodeUnchanged
    /\ UNCHANGED <<up, reason, position, counters, channels, mishaps>>

-----------------------------------------------------------------------------
(* resumeNode().                                                           *)

ResumeReported ==
    /\ pc = "Resuming"
    /\ reports # <<>>
    /\ probes' = 0
    /\ LET r == Head(reports)
       IN  CASE r.state = "Receiving" ->
                   /\ pc' = "Writing"
                   /\ base' = r.off /\ next' = r.off /\ timeouts' = 0
                   /\ DrainReplies
                   /\ UNCHANGED <<reason, down>>
             [] r.state = "Error" ->
                   /\ Fail("reported")
                   /\ reports' = Tail(reports)
                   /\ UNCHANGED <<base, next, timeouts, opReplies, writeReplies>>
             [] OTHER ->
                   /\ pc' = "Restarting"
                   /\ Send(Set("Begin"))
                   /\ reports' = Tail(reports)
                   /\ UNCHANGED <<reason, base, next, timeouts, opReplies,
                                  writeReplies>>
    /\ NodeUnchanged
    /\ UNCHANGED <<up, held, resumes, mishaps>>

ResumeProbe ==
    /\ pc = "Resuming"
    /\ Timer
    /\ CanSend /\ ~Contains(down, Get)
    /\ IF probes + 1 < ReenterAfter
       THEN /\ probes' = probes + 1
            /\ Send(Get)
            /\ UNCHANGED pc
       ELSE /\ probes' = 0
            /\ down' = IF Len(down) + 1 < bounds.room
                       THEN down \o <<Get, Set("EnterBootloader")>>
                       ELSE Append(down, Get)
            /\ pc' = "Reentering"
    /\ NodeUnchanged
    /\ UNCHANGED <<up, reason, position, timeouts, resumes, channels, mishaps>>

-----------------------------------------------------------------------------

Node  == NodeReceives \/ AppIsPolled \/ BootIsPolled
Mishap == LoseRequest \/ LoseAnswer \/ PowerCut
Reading == \/ AnswerArrives \/ BootloaderAnswers \/ StepReported \/ StepAnswered
           \/ SendChunk \/ ChunkAnswered \/ SendEnd \/ ResumeReported
Timers == Probe \/ Deadline \/ Stall \/ ResumeProbe

Next == Node \/ Mishap \/ Reading \/ Timers

(* The bus and the server keep running, and a timer that is armed fires.   *)
Fairness ==
    /\ WF_vars(NodeReceives) /\ WF_vars(AppIsPolled) /\ WF_vars(BootIsPolled)
    /\ WF_vars(Reading)
    /\ WF_vars(Probe) /\ WF_vars(ResumeProbe) /\ WF_vars(Deadline) /\ WF_vars(Stall)

Spec == Init /\ [][Next]_vars /\ Fairness

-----------------------------------------------------------------------------
(* Properties.                                                             *)

(* What the node's bootloader programmed is never acknowledged early:      *)
(* the driver's base (writeImageWindowed) is never past the chunks that    *)
(* are in the flash of a node in the middle of a transfer, whatever was    *)
(* lost, repeated or dropped from a full reply queue on the way.           *)
AcksAreHonest ==
    pc = "Writing" /\ n.face = "Boot" /\ n.state = "Receiving" =>
        base <= n.expected

(* A push fails with a flash program failure only if the flash failed: a   *)
(* resent chunk is never programmed a second time (HandleWrite).           *)
GoodFlashNeverFails == reason = "program" => faults > 0

(* A push is "done", and Activate sent, only after End found the image     *)
(* whole (run(), waitForWithProbe).                                        *)
DoneMeansVerified == pc = "Done" => verified

(* The driver only goes back behind what was acknowledged when the node    *)
(* was restarted or commanded to start over (writeImageWindowed).          *)
AckedStaysAcked == [][base' < base => restarts > 0]_vars

(* Every push is a FirmwareUpdate, whatever is lost, repeated or cut off:  *)
(* the flash changes only under the bootloader and only forwards from an   *)
(* erase, no slot is started that was only partly programmed, the push     *)
(* ends, and when it is "done" the image is in the flash, for good         *)
(* (HandleActivate, main(), and run() with its deadlines and retries).     *)
Update == INSTANCE FirmwareUpdate WITH
    Whole <- NewImage,
    flash <- n.slot,
    runs  <- n.face = "App",
    job   <- IF pc = "Done" THEN "done" ELSE IF pc = "Error" THEN "none" ELSE "open"

ImplementsUpdate == Update!Spec

(* When nothing is lost, late or failing the node ends up running the new  *)
(* image, whether the push found it in its application or its bootloader.  *)
NewImageRuns ==
    <>[](\/ losses > 0 \/ restarts > 0 \/ faults > 0 \/ ~bounds.patient
         \/ n.face = "App" /\ n.slot = NewImage)

=============================================================================
