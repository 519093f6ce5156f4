---------------------------- MODULE FirmwareSlave ----------------------------
(***************************************************************************)
(* A bus node during a firmware update, as operators on its state: the     *)
(* part of the running application that answers Endpoint::Firmware         *)
(* (Node::HandleFirmwareMessage in Software/Lib/NodeLib/Node.cpp) and the  *)
(* resident bootloader (Boot::FirmwareSlave and main() in                  *)
(* Software/Modules/Bootloader).  NodeOta drives it.                       *)
(*                                                                         *)
(* The image is counted in chunks, the payload of one Write, and the flash *)
(* in double-words, the unit that can be programmed once per erase.  The   *)
(* bytes themselves are left out: every frame has a CRC, so what arrives   *)
(* is what was sent, and the image check of End comes down to every chunk  *)
(* being there.                                                            *)
(*                                                                         *)
(* The operators marked "Bug" are not the code: each is the definition     *)
(* that follows it with one plausible mistake, kept to show that a         *)
(* property notices.                                                       *)
(***************************************************************************)
EXTENDS Integers, SequencesExt

CONSTANTS
    Chunks,      \* Writes the image takes
    Words,       \* double-words in a chunk (4)
    MaxStaged,   \* maxStagedWrites (8)
    MaxReplies,  \* maxWriteReplies (8)
    AppQueue     \* Node::queueSize, replies the application can hold (30)

ASSUME SlaveConstants ==
    /\ Chunks \in Nat \ {0}
    /\ Words \in Nat \ {0}
    /\ MaxStaged \in Nat \ {0}
    /\ MaxReplies \in Nat \ {0}
    /\ AppQueue \in Nat \ {0}

(* The application slot: the image that was there before the update, or    *)
(* the number of double-words programmed since the slot was last erased.   *)
OldImage == -1
NewImage == Chunks * Words
Slots    == OldImage..NewImage

(* AppImage::IsValid(): an image with its CRC.                             *)
IsValid(slot) == slot \in {OldImage, NewImage}

States == {"Idle", "Receiving", "Valid", "Error"}

Offsets == 0..Chunks

(* What a node sends on Endpoint::Firmware.  An operation's reply and the  *)
(* application's answer have the same one-byte payload.                    *)
Report(state, off) == [op |-> "Report", state |-> state, off |-> off]
OpReply(nack)      == [op |-> IF nack THEN "OpNack" ELSE "OpAck"]
WriteAck(off)      == [op |-> "WriteAck", off |-> off]
WriteNack(off, failed) == [op |-> "WriteNack", off |-> off, failed |-> failed]

WriteReplies == {WriteAck(o) : o \in Offsets} \cup
                {WriteNack(o, f) : o \in Offsets, f \in BOOLEAN}
OpReplies    == {OpReply(nack) : nack \in BOOLEAN}
Reports      == {Report(s, o) : s \in States, o \in Offsets}
Answers      == WriteReplies \cup OpReplies \cup Reports

SlaveNodes ==
    [face          : {"App", "Boot"},
     slot          : Slots,
     out           : Seq(OpReplies),        \* App: messageQueue
     resetPending  : BOOLEAN,                         \* App
     state         : States,                          \* Boot, as are the rest
     expected      : Offsets,                         \* expectedOffset
     partial       : 0..(Words - 1),                  \* partialCommitted
     statusPending : BOOLEAN,
     opReply       : {<<>>} \cup {<<r>> : r \in OpReplies},
     staged        : Seq(0..(Chunks - 1)),
     replies       : Seq(WriteReplies)]

SlaveBounds(n) ==
    /\ Len(n.out) <= AppQueue
    /\ Len(n.staged) <= MaxStaged
    /\ Len(n.replies) <= MaxReplies

(* Either program just started, with its RAM in the initial state.         *)
Started(face, slot) ==
    [face |-> face, slot |-> slot, out |-> <<>>, resetPending |-> FALSE,
     state |-> "Idle", expected |-> 0, partial |-> 0, statusPending |-> FALSE,
     opReply |-> <<>>, staged |-> <<>>, replies |-> <<>>]

-----------------------------------------------------------------------------
(* The running application.                                                *)

QueueMessage(n, m) ==
    IF Len(n.out) < AppQueue THEN [n EXCEPT !.out = Append(@, m)] ELSE n

(* It honours EnterBootloader and refuses everything else.  (The Announce  *)
(* that goes with the Ack stays on the bus.)                               *)
AppReceive(n, op) ==
    IF op = "EnterBootloader"
    THEN [QueueMessage(n, OpReply(FALSE)) EXCEPT !.resetPending = TRUE]
    ELSE QueueMessage(n, OpReply(TRUE))

(* Bug: the reset leads back into the application.                         *)
AppPolledIntoApp(n) ==
    IF n.resetPending THEN Started("App", n.slot) ELSE [n EXCEPT !.out = <<>>]

(* flushQueue(): the reset waits for the poll that takes the replies, and  *)
(* leads into the bootloader by way of EnterBootloaderMagic.               *)
AppPolled(n) ==
    IF n.resetPending THEN Started("Boot", n.slot) ELSE [n EXCEPT !.out = <<>>]

-----------------------------------------------------------------------------
(* The bootloader.                                                         *)

Fault(n) == [n EXCEPT !.state = "Error"]

QueueOpReply(n, nack) == [n EXCEPT !.opReply = <<OpReply(nack)>>]

FaultOp(n) == QueueOpReply(Fault(n), TRUE)

(* When the master outran its window the oldest reply is dropped.          *)
QueueWriteReply(n, r) ==
    [n EXCEPT !.replies = Append(IF Len(@) = MaxReplies THEN Tail(@) ELSE @, r)]

(* Flash::Program() of count double-words from address on, on flash that   *)
(* would take limit of them: the number it did program.  A double-word     *)
(* that is programmed already is refused (PROGERR).                        *)
Programmed(n, address, count, limit) ==
    IF address # n.slot THEN 0 ELSE IF count < limit THEN count ELSE limit

(* New data, or the rest of a chunk that was only partly programmed.       *)
ProgramChunk(n, off, limit) ==
    LET done      == Programmed(n, off * Words + n.partial, Words - n.partial, limit)
        committed == n.partial + done
        after     == [n EXCEPT !.slot = @ + done]
    IN  IF committed < Words
        THEN QueueWriteReply([after EXCEPT !.partial = committed],
                             WriteNack(off, TRUE))
        ELSE QueueWriteReply([after EXCEPT !.partial = 0, !.expected = @ + 1],
                             WriteAck(off))

(* Bug: a duplicate is programmed again.                                   *)
HandleWriteAgain(n, off, limit) ==
    CASE n.state # "Receiving" -> n
      [] n.state = "Receiving" /\ off > n.expected ->
             QueueWriteReply(n, WriteNack(n.expected, FALSE))
      [] OTHER -> ProgramChunk(n, off, limit)

(* Bug: a chunk behind a gap is acknowledged as if it were a duplicate.    *)
HandleWriteGap(n, off, limit) ==
    CASE n.state # "Receiving" -> n
      [] n.state = "Receiving" /\ off # n.expected ->
             QueueWriteReply(n, WriteAck(off))
      [] OTHER -> ProgramChunk(n, off, limit)

(* Bug: a gap is answered with the start of the image.                     *)
HandleWriteFromStart(n, off, limit) ==
    CASE n.state # "Receiving" -> n
      [] n.state = "Receiving" /\ off < n.expected ->
             QueueWriteReply(n, WriteAck(off))
      [] n.state = "Receiving" /\ off > n.expected ->
             QueueWriteReply(n, WriteNack(0, FALSE))
      [] OTHER -> ProgramChunk(n, off, limit)

(* Chunks are taken strictly in order; a duplicate is acknowledged from    *)
(* the flash, a gap is answered with the offset to resume at.              *)
HandleWrite(n, off, limit) ==
    CASE n.state # "Receiving" -> n
      [] n.state = "Receiving" /\ off < n.expected ->
             QueueWriteReply(n, WriteAck(off))
      [] n.state = "Receiving" /\ off > n.expected ->
             QueueWriteReply(n, WriteNack(n.expected, FALSE))
      [] OTHER -> ProgramChunk(n, off, limit)

(* The node after each of its staged writes, on flash that fails at the    *)
(* bad-th of them after limit double-words; none fails when bad is 0.      *)
Commits(n, bad, limit) ==
    LET After[k \in 0..Len(n.staged)] ==
            IF k = 0 THEN n
            ELSE HandleWrite(After[k - 1], n.staged[k],
                             IF k = bad THEN limit ELSE Words)
    IN  After

CommitStagedWrites(n, bad, limit) ==
    [Commits(n, bad, limit)[Len(n.staged)] EXCEPT !.staged = <<>>]

StageWrite(n, off, bad, limit) ==
    LET room == IF Len(n.staged) = MaxStaged
                THEN CommitStagedWrites(n, bad, limit) ELSE n
    IN  [room EXCEPT !.staged = Append(@, off)]

(* What an erase that worked starts.                                       *)
StartReceiving(n) ==
    QueueOpReply([n EXCEPT !.slot = 0, !.state = "Receiving", !.expected = 0,
                           !.partial = 0, !.replies = <<>>, !.staged = <<>>],
                 FALSE)

(* An erase that fails has left the old image alone or spoilt it.          *)
FailErase(n, spoilt) == FaultOp(IF spoilt THEN [n EXCEPT !.slot = 0] ELSE n)

(* HandleBegin() for this board's image: the size and module checks pass.  *)
HandleBegin(n, fails, spoilt) ==
    IF fails THEN FailErase(n, spoilt) ELSE StartReceiving(n)

HandleEnd(n) ==
    IF n.state # "Receiving" \/ n.expected # Chunks THEN FaultOp(n)
    ELSE IF n.slot = NewImage
    THEN QueueOpReply([n EXCEPT !.state = "Valid"], FALSE)
    ELSE FaultOp(n)

(* Activate resets: main() then starts the image that End accepted.        *)
HandleActivate(n) ==
    IF n.state # "Valid" THEN Fault(n) ELSE Started("App", n.slot)

HandleAbort(n) ==
    QueueOpReply([n EXCEPT !.state = "Idle", !.expected = 0, !.partial = 0,
                           !.replies = <<>>, !.staged = <<>>], FALSE)

(* OnFirmware(), the flash failing as in CommitStagedWrites.               *)
BootReceive(n, m, bad, limit) ==
    CASE m.op = "Get"      -> [n EXCEPT !.statusPending = TRUE]
      [] m.op = "Begin"    -> HandleBegin(n, bad # 0, limit # 0)
      [] m.op = "Write"    -> StageWrite(n, m.off, bad, limit)
      [] m.op = "End"      -> HandleEnd(CommitStagedWrites(n, bad, limit))
      [] m.op = "Activate" -> HandleActivate(n)
      [] m.op = "Abort"    -> HandleAbort(n)
      [] OTHER             -> n

(* A Poll: the staged chunks are programmed, then everything is told.      *)
BootReplies(n) ==
    (IF n.statusPending THEN <<Report(n.state, n.expected)>> ELSE <<>>)
        \o n.opReply \o n.replies

BootPolled(n) ==
    [n EXCEPT !.statusPending = FALSE, !.opReply = <<>>, !.replies = <<>>]

(* Bug: whatever is in the slot is started.                                *)
BootsAny(n) == {Started("Boot", n.slot), Started("App", n.slot)}

(* A power cut: a valid image runs, unless it never lived long enough to   *)
(* prove itself (BootHealth); without one the bootloader stays.            *)
Boots(n) ==
    {Started("Boot", n.slot)} \cup
    IF IsValid(n.slot) THEN {Started("App", n.slot)} ELSE {}

=============================================================================
