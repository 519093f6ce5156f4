--------------------------- MODULE NodeOtaProofs ---------------------------
(***************************************************************************)
(* Proofs about a firmware push to a bus node (NodeOta, FirmwareSlave),    *)
(* for images, windows, queues and mishaps of every size.                  *)
(*                                                                         *)
(* Three invariants, each on top of the one before:                        *)
(*   TypeOK /\ Sound(n)  the node's flash is where its program says        *)
(*   FaultsAreReal       nobody speaks of a failure before there is one    *)
(*   Phases              what the driver's wait says of the flash and of   *)
(*                       everything that is still on its way               *)
(* The last one needs a driver that is Patient.  From it follow the honest *)
(* Acks and, step by step, that a push is a FirmwareUpdate.                *)
(***************************************************************************)
EXTENDS NodeOta, SequenceTheorems, WellFoundedInduction, TLAPS

-----------------------------------------------------------------------------
(* Runs of a recursive function: the writes that are staged, one by one.   *)

(* Every nonempty set of natural numbers has a least element.              *)
LEMMA LeastNatural ==
    ASSUME NEW T, T \subseteq Nat, T # {}
    PROVE  \E x \in T : \A y \in T : x <= y
<1>1. PICK x \in T : \A y \in T : <<y, x>> \notin OpToRel(<, Nat)
  BY NatLessThanWellFounded, WFMin
<1>2. \A y \in T : x \in Nat /\ y \in Nat /\ ~(y < x)
  BY <1>1 DEF OpToRel
<1>3. \A y \in T : x <= y
  BY <1>2
<1> QED
  BY <1>3

(* Induction over an initial segment of the numbers: T is what holds of    *)
(* them.                                                                   *)
LEMMA UpTo ==
    ASSUME NEW L \in Nat, NEW T, 0 \in T,
           \A k \in 1..L : k - 1 \in T => k \in T
    PROVE  0..L \subseteq T
<1> DEFINE Rest == {k \in 0..L : k \notin T}
<1>1. SUFFICES ASSUME Rest # {} PROVE FALSE
  OBVIOUS
<1>2. Rest \subseteq Nat
  OBVIOUS
<1>3. PICK x \in Rest : \A y \in Rest : x <= y
  <2> HIDE DEF Rest
  <2> QED
    BY <1>1, <1>2, LeastNatural
<1>4. x \in 1..L /\ x - 1 \in 0..L /\ ~(x <= x - 1)
  BY <1>3
<1>5. x - 1 \in T
  BY <1>3, <1>4
<1> QED
  BY <1>3, <1>4, <1>5

(* The k-th step of the way g leads by F, from s0.                         *)
Iterates(g, L, s0, F) ==
    \A k \in 0..L : g[k] = IF k = 0 THEN s0 ELSE F[k][g[k - 1]]

(* There is a way of L steps of F from s0, and it stays in S.              *)
LEMMA Iteration ==
    ASSUME NEW L \in Nat, NEW S, NEW s0 \in S, NEW F \in [1..L -> [S -> S]]
    PROVE  \E g \in [0..L -> S] : Iterates(g, L, s0, F)
<1> DEFINE Good(g, l) == \A k \in 0..l : g[k] = IF k = 0 THEN s0 ELSE F[k][g[k - 1]]
           T == {l \in 0..L : \E g \in [0..l -> S] : Good(g, l)}
<1>1. 0 \in T
  <2> DEFINE h == [k \in 0..0 |-> s0]
  <2>1. h \in [0..0 -> S] /\ Good(h, 0)
    OBVIOUS
  <2>2. \E g \in [0..0 -> S] : Good(g, 0)
    <3> HIDE DEF h, Good
    <3> QED
      BY <2>1
  <2> QED
    BY <2>2
<1>2. ASSUME NEW l \in 1..L, l - 1 \in T PROVE l \in T
  <2>1. PICK g \in [0..(l - 1) -> S] : Good(g, l - 1)
    BY <1>2
  <2> DEFINE h == [k \in 0..l |-> IF k = l THEN F[l][g[l - 1]] ELSE g[k]]
  <2>2. g[l - 1] \in S /\ F[l] \in [S -> S] /\ l \in 0..L
    BY <2>1
  <2>3. h \in [0..l -> S]
    BY <2>1, <2>2
  <2>4. Good(h, l)
    <3> SUFFICES ASSUME NEW k \in 0..l
                 PROVE  h[k] = IF k = 0 THEN s0 ELSE F[k][h[k - 1]]
      OBVIOUS
    <3>1. CASE k = l
      BY <3>1
    <3>2. CASE k # l
      <4>1. k \in 0..(l - 1) /\ (k # 0 => k - 1 \in 0..l /\ k - 1 # l)
        BY <3>2
      <4> QED
        BY <2>1, <3>2, <4>1
    <3> QED
      BY <3>1, <3>2
  <2> HIDE DEF h, Good
  <2> QED
    BY <2>2, <2>3, <2>4
<1>3. 0..L \subseteq T
  <2> HIDE DEF T
  <2> QED
    BY <1>1, <1>2, UpTo
<1>4. PICK g \in [0..L -> S] : Good(g, L)
  BY <1>3
<1>5. Iterates(g, L, s0, F)
  BY <1>4 DEF Iterates
<1> QED
  BY <1>5

(* Whatever set of nodes HandleWrite() does not leave, the staged writes   *)
(* do not leave either.                                                    *)
LEMMA CommitsStayIn ==
    ASSUME NEW S, NEW m \in S, m.staged \in Seq(0..(Chunks - 1)), NEW bad, NEW limit,
           \A s \in S, k \in 1..Len(m.staged) :
               HandleWrite(s, m.staged[k], IF k = bad THEN limit ELSE Words) \in S
    PROVE  Commits(m, bad, limit)[Len(m.staged)] \in S
<1> DEFINE L == Len(m.staged)
           F == [k \in 1..L |-> [s \in S |->
                    HandleWrite(s, m.staged[k], IF k = bad THEN limit ELSE Words)]]
           Step(g) == [k \in 0..L |->
                    IF k = 0 THEN m
                    ELSE HandleWrite(g[k - 1], m.staged[k],
                                     IF k = bad THEN limit ELSE Words)]
<1>1. L \in Nat
  BY LenProperties
<1>2. F \in [1..L -> [S -> S]]
  OBVIOUS
<1>3. PICK g \in [0..L -> S] : Iterates(g, L, m, F)
  <2> HIDE DEF F, L
  <2> QED
    BY ONLY <1>1, <1>2, m \in S, Iteration
<1>4. \A k \in 0..L : g[k] = Step(g)[k]
  <2> SUFFICES ASSUME NEW k \in 0..L PROVE g[k] = Step(g)[k]
    OBVIOUS
  <2> g[k] = IF k = 0 THEN m ELSE F[k][g[k - 1]]
    BY <1>3 DEF Iterates
  <2>1. CASE k = 0
    BY <2>1
  <2>2. CASE k # 0
    <3>1. k \in 1..L /\ k - 1 \in 0..L
      BY <1>1, <2>2
    <3>2. g[k - 1] \in S
      BY <1>3, <3>1
    <3>3. g[k] = F[k][g[k - 1]]
      BY <2>2
    <3>4. F[k][g[k - 1]] = HandleWrite(g[k - 1], m.staged[k],
                                       IF k = bad THEN limit ELSE Words)
      BY <3>1, <3>2
    <3>5. Step(g)[k] = HandleWrite(g[k - 1], m.staged[k],
                                   IF k = bad THEN limit ELSE Words)
      BY <2>2
    <3> HIDE DEF F, Step
    <3> QED
      BY <3>3, <3>4, <3>5
  <2> QED
    BY <2>1, <2>2
<1>5. g = Step(g)
  <2>1. g = [k \in 0..L |-> g[k]]
    BY <1>3
  <2>2. Step(g) = [k \in 0..L |-> Step(g)[k]]
    OBVIOUS
  <2> HIDE DEF Step, L
  <2> QED
    BY <1>4, <2>1, <2>2
<1> DEFINE c == Commits(m, bad, limit)
<1>6. c = Step(c)
  <2>1. c = CHOOSE f : f = Step(f)
    BY DEF Commits
  <2> HIDE DEF c, Step
  <2> QED
    BY <1>5, <2>1
<1>7. c[0] = m /\ \A k \in 1..L : c[k] = HandleWrite(c[k - 1], m.staged[k],
                                             IF k = bad THEN limit ELSE Words)
  <2> HIDE DEF c
  <2>1. c[0] = m
    BY <1>1, <1>6
  <2>2. ASSUME NEW k \in 1..L
        PROVE  c[k] = HandleWrite(c[k - 1], m.staged[k], IF k = bad THEN limit ELSE Words)
    <3>1. k \in 0..L /\ k # 0
      BY <1>1
    <3>2. c[k] = Step(c)[k]
      BY <1>6
    <3>3. Step(c)[k] = HandleWrite(c[k - 1], m.staged[k], IF k = bad THEN limit ELSE Words)
      BY <3>1
    <3> QED
      BY <3>2, <3>3
  <2> QED
    BY <2>1, <2>2
<1> DEFINE T == {k \in 0..L : c[k] \in S}
<1> HIDE DEF c
<1>8. 0 \in T
  BY <1>1, <1>7
<1>9. ASSUME NEW k \in 1..L, k - 1 \in T PROVE k \in T
  <2>1. c[k - 1] \in S
    BY <1>9
  <2> QED
    BY <1>1, <1>7, <2>1
<1>10. 0..L \subseteq T
  <2> HIDE DEF T, L
  <2> QED
    BY <1>1, <1>8, <1>9, UpTo
<1> QED
  BY <1>1, <1>10 DEF c

-----------------------------------------------------------------------------
(* Chunks, and what is said about them.                                    *)

(* A node whose variables are in their ranges.                             *)
Slaves == {v \in SlaveNodes : SlaveBounds(v)}

(* The first k chunks are in a slot.                                       *)
Stored(k, slot) == k = 0 \/ k * Words <= slot

(* Replies that promise no more than the slot holds.                       *)
Honest(slot) ==
    {r \in WriteReplies : Stored(IF r.op = "WriteAck" THEN r.off + 1 ELSE r.off, slot)}

(* Replies that do not speak of the flash failing.                         *)
NoFailure == {r \in WriteReplies : r.op = "WriteNack" => ~r.failed}

(* The chunks a transfer has taken are what is in the slot.                *)
Aligned(v) == v.state = "Receiving" => v.slot = v.expected * Words + v.partial

(* Chunks and double-words.                                                *)
LEMMA WholeChunks ==
    /\ NewImage \in Nat \ {0}
    /\ \A a \in Nat : a * Words \in Nat /\ (a + 1) * Words = a * Words + Words
    /\ \A a, b \in Nat : a <= b => a * Words <= b * Words
    /\ \A a, b \in Nat, p \in 0..(Words - 1) : a * Words <= b * Words + p => a <= b
    /\ \A a \in 0..(Chunks - 1) : a * Words + Words <= NewImage
<1> USE SlaveConstants
<1>1. \A a \in Nat : a * Words \in Nat /\ (a + 1) * Words = a * Words + Words
  OBVIOUS
<1>2. \A a, b \in Nat : a <= b => a * Words <= b * Words
  <2> SUFFICES ASSUME NEW a \in Nat, NEW b \in Nat, a <= b
               PROVE  a * Words <= b * Words
    OBVIOUS
  <2> DEFINE d == b - a
  <2>1. d \in Nat /\ b = a + d
    OBVIOUS
  <2>2. (a + d) * Words = a * Words + d * Words
    BY <2>1
  <2>3. d * Words \in Nat /\ a * Words \in Nat
    BY <2>1
  <2> HIDE DEF d
  <2> QED
    BY <2>1, <2>2, <2>3
<1>3. \A a, b \in Nat, p \in 0..(Words - 1) : a * Words <= b * Words + p => a <= b
  <2> SUFFICES ASSUME NEW a \in Nat, NEW b \in Nat, NEW p \in 0..(Words - 1),
                      a * Words <= b * Words + p, ~(a <= b)
               PROVE  FALSE
    OBVIOUS
  <2>1. (b + 1) * Words <= a * Words
    BY <1>2
  <2>2. (b + 1) * Words = b * Words + Words
    BY <1>1
  <2>3. a * Words \in Nat /\ b * Words \in Nat
    BY <1>1
  <2> QED
    BY <2>1, <2>2, <2>3
<1>4. \A a \in 0..(Chunks - 1) : a * Words + Words <= NewImage
  <2> SUFFICES ASSUME NEW a \in 0..(Chunks - 1) PROVE a * Words + Words <= NewImage
    OBVIOUS
  <2>1. (a + 1) * Words <= Chunks * Words
    BY <1>2
  <2>2. (a + 1) * Words = a * Words + Words
    BY <1>1
  <2> QED
    BY <2>1, <2>2 DEF NewImage
<1>5. NewImage \in Nat \ {0}
  <2>1. 1 * Words <= Chunks * Words
    BY <1>2
  <2>2. Chunks * Words \in Nat
    BY <1>1
  <2> QED
    BY <2>1, <2>2 DEF NewImage
<1> QED
  BY <1>1, <1>2, <1>3, <1>4, <1>5

(* What the slave says is one of its answers.                              *)
LEMMA ReplyTypes ==
    /\ \A o \in Offsets : WriteAck(o) \in WriteReplies
    /\ \A o \in Offsets, f \in BOOLEAN : WriteNack(o, f) \in WriteReplies
    /\ \A f \in BOOLEAN : OpReply(f) \in OpReplies
    /\ \A s \in States, o \in Offsets : Report(s, o) \in Reports
BY DEF WriteReplies, OpReplies, Reports

(* A reply is queued behind the others, of which the oldest may go.        *)
LEMMA QueuedReply ==
    ASSUME NEW v \in Slaves, NEW r \in WriteReplies
    PROVE  /\ QueueWriteReply(v, r) \in Slaves
           /\ QueueWriteReply(v, r) =
                  [v EXCEPT !.replies = QueueWriteReply(v, r).replies]
           /\ \A R : r \in R /\ v.replies \in Seq(R) =>
                  QueueWriteReply(v, r).replies \in Seq(R)
<1> DEFINE kept == IF Len(v.replies) = MaxReplies THEN Tail(v.replies) ELSE v.replies
           w == QueueWriteReply(v, r)
<1>1. v \in SlaveNodes /\ SlaveBounds(v) /\ v.replies \in Seq(WriteReplies)
  BY DEF Slaves, SlaveNodes
<1>2. w = [v EXCEPT !.replies = Append(kept, r)]
  BY <1>1 DEF QueueWriteReply, SlaveNodes
<1>3. MaxReplies \in Nat \ {0} /\ Len(v.replies) <= MaxReplies
  BY <1>1, SlaveConstants DEF SlaveBounds
<1>4. ASSUME NEW R, v.replies \in Seq(R)
      PROVE  kept \in Seq(R) /\ Len(kept) \in Nat /\ Len(kept) < MaxReplies
  <2>1. Len(v.replies) \in Nat /\ (v.replies = <<>> => Len(v.replies) = 0)
    BY <1>4, LenProperties, EmptySeq
  <2>2. CASE Len(v.replies) = MaxReplies
    <3>1. v.replies # <<>>
      BY <1>3, <2>1, <2>2
    <3>2. Tail(v.replies) \in Seq(R) /\ Len(Tail(v.replies)) = Len(v.replies) - 1
      BY <1>4, <3>1, HeadTailProperties
    <3> QED
      BY <1>3, <2>1, <2>2, <3>2
  <2>3. CASE Len(v.replies) # MaxReplies
    BY <1>3, <1>4, <2>1, <2>3
  <2> QED
    BY <2>2, <2>3
<1>5. ASSUME NEW R, v.replies \in Seq(R), r \in R
      PROVE  Append(kept, r) \in Seq(R) /\ Len(Append(kept, r)) <= MaxReplies
  <2> HIDE DEF kept
  <2>1. kept \in Seq(R) /\ Len(kept) \in Nat /\ Len(kept) < MaxReplies
    BY <1>4, <1>5
  <2>2. Append(kept, r) \in Seq(R) /\ Len(Append(kept, r)) = Len(kept) + 1
    BY <1>5, <2>1, AppendProperties
  <2> QED
    BY <1>3, <2>1, <2>2
<1> HIDE DEF kept
<1>6. w \in SlaveNodes /\ w.replies = Append(kept, r)
  BY <1>1, <1>2, <1>5 DEF SlaveNodes
<1>7. SlaveBounds(w)
  <2>1. w.out = v.out /\ w.staged = v.staged
    BY <1>1, <1>2 DEF SlaveNodes
  <2> QED
    BY <1>1, <1>5, <1>6, <2>1 DEF SlaveBounds
<1> QED
  BY <1>2, <1>5, <1>6, <1>7 DEF Slaves

-----------------------------------------------------------------------------
(* One write.                                                              *)

(* A transfer without a fault: every chunk was taken as a whole.           *)
Clean(v) == v.partial = 0 /\ v.replies \in Seq(NoFailure)

(* What chunks that are taken do to a node v that becomes w.               *)
Taken(v, w) ==
    /\ w \in Slaves /\ Aligned(w)
    /\ w.face = v.face /\ w.state = v.state /\ w.staged = v.staged
    /\ w.opReply = v.opReply /\ w.statusPending = v.statusPending
    /\ v.slot <= w.slot
    /\ v.state # "Receiving" => w = v
    /\ v.replies \in Seq(Honest(v.slot)) => w.replies \in Seq(Honest(w.slot))

(* The variables of a node.                                                *)
LEMMA SlaveTypes ==
    ASSUME NEW v \in Slaves
    PROVE  /\ v \in SlaveNodes /\ SlaveBounds(v)
           /\ v.slot \in Int /\ v.slot \in (-1)..NewImage
           /\ v.expected \in Nat /\ v.expected \in 0..Chunks
           /\ v.partial \in Nat /\ v.partial \in 0..(Words - 1)
           /\ v.state \in States /\ v.face \in {"App", "Boot"}
           /\ v.replies \in Seq(WriteReplies)
           /\ v.staged \in Seq(0..(Chunks - 1))
           /\ v.opReply \in {<<>>} \cup {<<r>> : r \in OpReplies}
           /\ v.statusPending \in BOOLEAN
BY WholeChunks, SlaveConstants DEF Slaves, SlaveNodes, Slots, OldImage, Offsets

(* A node that got further into the image.                                 *)
LEMMA Progressed ==
    ASSUME NEW v \in SlaveNodes, NEW s \in Slots, NEW p \in 0..(Words - 1), NEW e \in Offsets
    PROVE  /\ [v EXCEPT !.slot = s, !.partial = p] \in SlaveNodes
           /\ [v EXCEPT !.slot = s, !.partial = p, !.expected = e] \in SlaveNodes
BY DEF SlaveNodes

(* What the slot holds, it holds when more is programmed.                  *)
LEMMA StoredStays ==
    ASSUME NEW a \in Int, NEW b \in Int, a <= b
    PROVE  /\ \A k \in Nat : Stored(k, a) => Stored(k, b)
           /\ Honest(a) \subseteq Honest(b)
           /\ \A s \in Seq(Honest(a)) : s \in Seq(Honest(b))
<1>1. \A k \in Nat : Stored(k, a) => Stored(k, b)
  BY WholeChunks DEF Stored
<1>2. Honest(a) \subseteq Honest(b)
  <2> SUFFICES ASSUME NEW r \in WriteReplies,
                      NEW k, k = IF r.op = "WriteAck" THEN r.off + 1 ELSE r.off,
                      Stored(k, a)
               PROVE  Stored(k, b)
    BY DEF Honest
  <2>1. r.off \in Nat
    BY SlaveConstants DEF WriteReplies, WriteAck, WriteNack, Offsets
  <2> QED
    BY <1>1, <2>1
<1> QED
  BY <1>1, <1>2, SeqMonotonic

(* The three ways a Write is taken in the middle of a transfer.            *)
LEMMA WriteCases ==
    ASSUME NEW v, NEW off, NEW limit
    PROVE  /\ v.state # "Receiving" => HandleWrite(v, off, limit) = v
           /\ v.state = "Receiving" /\ off < v.expected /\ ~(off > v.expected) =>
                  HandleWrite(v, off, limit) = QueueWriteReply(v, WriteAck(off))
           /\ v.state = "Receiving" /\ off > v.expected /\ ~(off < v.expected) =>
                  HandleWrite(v, off, limit) = QueueWriteReply(v, WriteNack(v.expected, FALSE))
           /\ v.state = "Receiving" /\ ~(off < v.expected) /\ ~(off > v.expected) =>
                  HandleWrite(v, off, limit) = ProgramChunk(v, off, limit)
<1>1. v.state # "Receiving" => HandleWrite(v, off, limit) = v
  BY Zenon DEF HandleWrite
<1>2. ASSUME v.state = "Receiving", off < v.expected, ~(off > v.expected)
      PROVE  HandleWrite(v, off, limit) = QueueWriteReply(v, WriteAck(off))
  BY <1>2, Zenon DEF HandleWrite
<1>3. ASSUME v.state = "Receiving", ~(off < v.expected), off > v.expected
      PROVE  HandleWrite(v, off, limit) = QueueWriteReply(v, WriteNack(v.expected, FALSE))
  BY <1>3, Zenon DEF HandleWrite
<1>4. ASSUME v.state = "Receiving", ~(off < v.expected), ~(off > v.expected)
      PROVE  HandleWrite(v, off, limit) = ProgramChunk(v, off, limit)
  BY <1>4, Zenon DEF HandleWrite
<1> QED
  BY <1>1, <1>2, <1>3, <1>4

(* A chunk of new data, on flash that takes limit double-words of it.      *)
LEMMA ChunkTaken ==
    ASSUME NEW v \in Slaves, v.state = "Receiving", Aligned(v),
           v.expected \in 0..(Chunks - 1), NEW limit \in 0..Words
    PROVE  /\ Taken(v, ProgramChunk(v, v.expected, limit))
           /\ limit = Words /\ Clean(v) => Clean(ProgramChunk(v, v.expected, limit))
<1> DEFINE off == v.expected
           start == off * Words
           w == ProgramChunk(v, off, limit)
           done == Programmed(v, start + v.partial, Words - v.partial, limit)
           committed == v.partial + done
<1> USE SlaveConstants
<1>1. /\ v.slot = start + v.partial /\ start \in Nat /\ start + Words <= NewImage
      /\ (off + 1) * Words = start + Words
  BY SlaveTypes, WholeChunks DEF Aligned
<1>2. v.partial \in Nat /\ v.partial < Words /\ off \in Nat
  BY SlaveTypes
<1>3. w = IF committed < Words
          THEN QueueWriteReply([v EXCEPT !.slot = @ + done, !.partial = committed],
                               WriteNack(off, TRUE))
          ELSE QueueWriteReply([v EXCEPT !.slot = @ + done, !.partial = 0,
                                         !.expected = @ + 1],
                               WriteAck(off))
  BY SlaveTypes DEF ProgramChunk, SlaveNodes
<1>4. /\ off \in Offsets /\ off + 1 \in Offsets
      /\ v \in SlaveNodes /\ SlaveBounds(v)
  BY SlaveTypes DEF Offsets
<1> HIDE DEF start, w
<1>5. done = IF Words - v.partial < limit THEN Words - v.partial ELSE limit
  BY <1>1, <1>2 DEF Programmed
<1> HIDE DEF done
<1>6. /\ done \in Nat /\ committed \in 0..Words
      /\ v.slot + done = start + committed
  BY <1>1, <1>2, <1>5
<1>7. v.slot + done \in Slots /\ v.slot <= v.slot + done /\ v.slot \in Int
  BY <1>1, <1>2, <1>6, WholeChunks DEF Slots, OldImage
<1> HIDE DEF committed
<1>8. CASE committed < Words
  <2> DEFINE u == [v EXCEPT !.slot = @ + done, !.partial = committed]
             r == WriteNack(off, TRUE)
  <2>1. w = QueueWriteReply(u, r)
    BY <1>3, <1>8
  <2>2. u \in Slaves
    <3>1. u \in SlaveNodes
      <4>1. committed \in 0..(Words - 1) /\ v.slot + done \in Slots /\ v \in SlaveNodes
        BY <1>4, <1>6, <1>7, <1>8
      <4>2. [v EXCEPT !.slot = v.slot + done, !.partial = committed] \in SlaveNodes
        BY <1>4, <4>1, Progressed
      <4> QED
        BY <4>2
    <3>2. u.out = v.out /\ u.staged = v.staged /\ u.replies = v.replies
      BY <1>4 DEF SlaveNodes
    <3> QED
      BY <1>4, <3>1, <3>2 DEF Slaves, SlaveBounds
  <2>3. r \in WriteReplies /\ r.op = "WriteNack" /\ r.off = off
    BY <1>4, ReplyTypes DEF WriteNack
  <2>4. /\ w \in Slaves /\ w = [u EXCEPT !.replies = w.replies]
        /\ \A R : r \in R /\ u.replies \in Seq(R) => w.replies \in Seq(R)
    BY <2>1, <2>2, <2>3, QueuedReply
  <2>5. /\ w.slot = v.slot + done /\ w.partial = committed /\ w.expected = off
        /\ w.face = v.face /\ w.state = v.state /\ w.staged = v.staged
        /\ w.opReply = v.opReply /\ w.statusPending = v.statusPending
        /\ u.replies = v.replies
    BY <1>4, <2>4 DEF SlaveNodes
  <2>6. Aligned(w)
    BY <1>6, <2>5 DEF Aligned, start
  <2>7. v.replies \in Seq(Honest(v.slot)) => w.replies \in Seq(Honest(w.slot))
    <3>1. r \in Honest(w.slot)
      <4>1. off * Words <= w.slot
        BY <1>1, <1>2, <1>6, <1>7, <2>5 DEF start
      <4> HIDE DEF r
      <4> QED
        BY <2>3, <4>1 DEF Honest, Stored
    <3>2. \A s \in Seq(Honest(v.slot)) : s \in Seq(Honest(w.slot))
      <4>1. v.slot \in Int /\ w.slot \in Int /\ v.slot <= w.slot
        BY <1>6, <1>7, <2>5
      <4> QED
        BY ONLY <4>1, StoredStays
    <3> HIDE DEF r, u
    <3> QED
      BY <2>4, <2>5, <3>1, <3>2
  <2>8. ~(limit = Words /\ Clean(v))
    BY <1>2, <1>5, <1>8 DEF Clean, committed
  <2> QED
    BY <1>7, <1>8, <2>4, <2>5, <2>6, <2>7, <2>8 DEF Taken, w
<1>9. CASE ~(committed < Words)
  <2> DEFINE u == [v EXCEPT !.slot = @ + done, !.partial = 0, !.expected = @ + 1]
             r == WriteAck(off)
  <2>1. w = QueueWriteReply(u, r)
    BY <1>3, <1>9
  <2>2. u \in Slaves
    <3>1. u \in SlaveNodes
      <4>1. /\ 0 \in 0..(Words - 1) /\ v.slot + done \in Slots /\ v \in SlaveNodes
            /\ v.expected + 1 \in Offsets
        BY <1>4, <1>7
      <4>2. [v EXCEPT !.slot = v.slot + done, !.partial = 0, !.expected = v.expected + 1]
                \in SlaveNodes
        BY <4>1, Progressed
      <4> QED
        BY <4>2
    <3>2. u.out = v.out /\ u.staged = v.staged /\ u.replies = v.replies
      BY <1>4 DEF SlaveNodes
    <3> QED
      BY <1>4, <3>1, <3>2 DEF Slaves, SlaveBounds
  <2>3. r \in WriteReplies /\ r.op = "WriteAck" /\ r.off = off /\ r \in NoFailure
    BY <1>4, ReplyTypes DEF WriteAck, NoFailure
  <2>4. /\ w \in Slaves /\ w = [u EXCEPT !.replies = w.replies]
        /\ \A R : r \in R /\ u.replies \in Seq(R) => w.replies \in Seq(R)
    BY <2>1, <2>2, <2>3, QueuedReply
  <2>5. /\ w.slot = v.slot + done /\ w.partial = 0 /\ w.expected = off + 1
        /\ w.face = v.face /\ w.state = v.state /\ w.staged = v.staged
        /\ w.opReply = v.opReply /\ w.statusPending = v.statusPending
        /\ u.replies = v.replies
    BY <1>4, <2>4 DEF SlaveNodes
  <2>6. w.slot = (off + 1) * Words /\ w.slot = w.expected * Words + w.partial
    <3>1. w.slot = start + Words
      BY <1>1, <1>6, <1>9, <2>5
    <3> QED
      BY <1>1, <1>7, <2>5, <3>1
  <2>7. Aligned(w)
    BY <2>6 DEF Aligned
  <2>8. v.replies \in Seq(Honest(v.slot)) => w.replies \in Seq(Honest(w.slot))
    <3>1. r \in Honest(w.slot)
      <4>1. (off + 1) * Words <= w.slot
        BY <1>6, <1>7, <2>5, <2>6
      <4> HIDE DEF r
      <4> QED
        BY <2>3, <4>1 DEF Honest, Stored
    <3>2. \A s \in Seq(Honest(v.slot)) : s \in Seq(Honest(w.slot))
      <4>1. v.slot \in Int /\ w.slot \in Int /\ v.slot <= w.slot
        BY <1>6, <1>7, <2>5
      <4> QED
        BY ONLY <4>1, StoredStays
    <3> HIDE DEF r, u
    <3> QED
      BY <2>4, <2>5, <3>1, <3>2
  <2>9. Clean(v) => Clean(w)
    <3> HIDE DEF r, u
    <3> QED
      BY <2>3, <2>4, <2>5 DEF Clean
  <2> QED
    BY <1>7, <2>4, <2>5, <2>7, <2>8, <2>9 DEF Taken, w
<1> QED
  BY <1>8, <1>9 DEF w

(* A Write, whatever chunk it brings.                                      *)
LEMMA WriteTaken ==
    ASSUME NEW v \in Slaves, Aligned(v), NEW off \in 0..(Chunks - 1),
           NEW limit \in 0..Words
    PROVE  /\ Taken(v, HandleWrite(v, off, limit))
           /\ limit = Words /\ Clean(v) => Clean(HandleWrite(v, off, limit))
<1> DEFINE w == HandleWrite(v, off, limit)
<1> USE SlaveConstants
<1>1. v.slot \in Int /\ v.expected \in Nat /\ v.partial \in Nat /\ v.expected \in Offsets
  BY SlaveTypes DEF Offsets
<1>2. CASE v.state # "Receiving"
  <2>1. w = v
    BY <1>2, WriteCases, Zenon
  <2>2. Taken(v, v)
    BY <1>1 DEF Taken
  <2> HIDE DEF w
  <2>3. Taken(v, w) /\ (Clean(v) => Clean(w))
    BY <2>1, <2>2
  <2> QED
    BY <2>3 DEF w
<1>3. ASSUME v.state = "Receiving", NEW r \in WriteReplies, w = QueueWriteReply(v, r),
             r \in NoFailure, r \in Honest(v.slot)
      PROVE  Taken(v, w) /\ (Clean(v) => Clean(w))
  <2>1. /\ w \in Slaves /\ w = [v EXCEPT !.replies = w.replies]
        /\ \A R : r \in R /\ v.replies \in Seq(R) => w.replies \in Seq(R)
    BY <1>3, QueuedReply
  <2>2. /\ w.face = v.face /\ w.state = v.state /\ w.staged = v.staged
        /\ w.opReply = v.opReply /\ w.statusPending = v.statusPending
        /\ w.slot = v.slot /\ w.expected = v.expected /\ w.partial = v.partial
    BY <2>1 DEF Slaves, SlaveNodes
  <2> QED
    BY <1>1, <1>3, <2>1, <2>2 DEF Taken, Aligned, Clean
<1>4. CASE v.state = "Receiving" /\ off < v.expected
  <2>1. w = QueueWriteReply(v, WriteAck(off))
    <3>1. ~(off > v.expected)
      BY <1>1, <1>4
    <3> QED
      BY <1>4, <3>1, WriteCases
  <2>2. WriteAck(off) \in WriteReplies /\ WriteAck(off) \in NoFailure
    BY ReplyTypes DEF WriteAck, Offsets, NoFailure
  <2>3. Stored(off + 1, v.slot)
    <3>1. (off + 1) * Words <= v.expected * Words
      BY <1>1, <1>4, WholeChunks
    <3>2. (off + 1) * Words \in Nat /\ v.expected * Words \in Nat
      BY <1>1, WholeChunks
    <3> QED
      BY <1>1, <1>4, <3>1, <3>2 DEF Stored, Aligned
  <2>4. WriteAck(off) \in Honest(v.slot)
    BY <2>2, <2>3 DEF Honest, WriteAck
  <2> QED
    BY <1>3, <1>4, <2>1, <2>2, <2>4
<1>5. CASE v.state = "Receiving" /\ off > v.expected
  <2>1. w = QueueWriteReply(v, WriteNack(v.expected, FALSE))
    <3>1. ~(off < v.expected)
      BY <1>1, <1>5
    <3> QED
      BY <1>5, <3>1, WriteCases
  <2>2. /\ WriteNack(v.expected, FALSE) \in WriteReplies
        /\ WriteNack(v.expected, FALSE) \in NoFailure
    BY <1>1, ReplyTypes DEF WriteNack, NoFailure
  <2>3. Stored(v.expected, v.slot)
    BY <1>1, <1>5, WholeChunks DEF Stored, Aligned
  <2>4. WriteNack(v.expected, FALSE) \in Honest(v.slot)
    BY <2>2, <2>3 DEF Honest, WriteNack
  <2> QED
    BY <1>3, <1>5, <2>1, <2>2, <2>4
<1>6. CASE v.state = "Receiving" /\ off = v.expected
  <2>1. w = ProgramChunk(v, off, limit)
    <3>1. ~(off > v.expected) /\ ~(off < v.expected)
      BY <1>1, <1>6
    <3> QED
      BY <1>6, <3>1, WriteCases
  <2> QED
    BY <1>6, <2>1, ChunkTaken
<1> QED
  BY <1>1, <1>2, <1>4, <1>5, <1>6

(* Chunks taken one after the other.                                       *)
LEMMA TakenOn ==
    ASSUME NEW u \in Slaves, NEW v, NEW w, Taken(u, v), Taken(v, w)
    PROVE  Taken(u, w)
<1>1. v \in Slaves /\ w \in Slaves
  BY DEF Taken
<1>2. u.slot \in Int /\ v.slot \in Int /\ w.slot \in Int
  BY <1>1, SlaveTypes
<1> QED
  BY <1>1, <1>2 DEF Taken

-----------------------------------------------------------------------------
(* All the writes that are staged.                                         *)

(* A node that is where its image and its program say.                     *)
Sound(v) ==
    /\ v \in Slaves /\ Aligned(v)
    /\ v.face = "App" => /\ v.state = "Idle" /\ v.staged = <<>> /\ v.replies = <<>>
                         /\ IsValid(v.slot)
    /\ v.state = "Valid" => v.slot = NewImage

(* What all staged writes do to a node v that becomes w.                   *)
Committed(v, w) ==
    /\ w \in Slaves /\ Aligned(w)
    /\ w.face = v.face /\ w.state = v.state /\ w.staged = <<>>
    /\ w.opReply = v.opReply /\ w.statusPending = v.statusPending
    /\ v.slot <= w.slot
    /\ v.slot = w.slot \/ v.state = "Receiving"
    /\ v.replies \in Seq(Honest(v.slot)) => w.replies \in Seq(Honest(w.slot))
    /\ v.staged = <<>> => w = v

(* With no writes staged, a node is as it was.                             *)
LEMMA EmptySlave ==
    ASSUME NEW v \in Slaves
    PROVE  /\ [v EXCEPT !.staged = <<>>] \in Slaves
           /\ v.staged = <<>> => [v EXCEPT !.staged = <<>>] = v
<1>1. v \in SlaveNodes /\ SlaveBounds(v)
  BY SlaveTypes
<1> DEFINE w == [v EXCEPT !.staged = <<>>]
<1>2. <<>> \in Seq(0..(Chunks - 1)) /\ Len(<<>>) = 0
  BY EmptySeq
<1>3. w \in SlaveNodes /\ w.staged = <<>> /\ w.out = v.out /\ w.replies = v.replies
  BY <1>1, <1>2 DEF SlaveNodes
<1>4. SlaveBounds(w)
  BY <1>1, <1>2, <1>3, SlaveConstants DEF SlaveBounds
<1>5. v.staged = <<>> => w = v
  BY <1>1 DEF SlaveNodes
<1> QED
  BY <1>3, <1>4, <1>5 DEF Slaves

(* CommitStagedWrites takes every staged write, in order.                  *)
LEMMA CommitsTaken ==
    ASSUME NEW v \in Slaves, Aligned(v), NEW bad \in Nat, NEW limit \in 0..(Words - 1)
    PROVE  /\ Committed(v, CommitStagedWrites(v, bad, limit))
           /\ bad = 0 /\ Clean(v) => Clean(CommitStagedWrites(v, bad, limit))
<1> DEFINE S == {w \in Slaves : Taken(v, w) /\ (bad = 0 /\ Clean(v) => Clean(w))}
           c == Commits(v, bad, limit)[Len(v.staged)]
           w == [c EXCEPT !.staged = <<>>]
<1> USE SlaveConstants
<1>1. v.staged \in Seq(0..(Chunks - 1)) /\ v.slot \in Int
  BY SlaveTypes
<1>2. v \in S
  BY <1>1 DEF Taken
<1>3. ASSUME NEW s \in S, NEW k \in 1..Len(v.staged)
      PROVE  HandleWrite(s, v.staged[k], IF k = bad THEN limit ELSE Words) \in S
  <2> DEFINE most == IF k = bad THEN limit ELSE Words
             u == HandleWrite(s, v.staged[k], most)
  <2>1. s \in Slaves /\ Aligned(s) /\ Taken(v, s) /\ (bad = 0 /\ Clean(v) => Clean(s))
    BY DEF Taken
  <2>2. v.staged[k] \in 0..(Chunks - 1)
    BY <1>1, ElementOfSeq
  <2>3. most \in 0..Words /\ (bad = 0 => most = Words)
    BY <1>1, LenProperties
  <2> HIDE DEF most
  <2>4. Taken(s, u) /\ (most = Words /\ Clean(s) => Clean(u))
    BY <2>1, <2>2, <2>3, WriteTaken
  <2> HIDE DEF u
  <2>5. Taken(v, u) /\ u \in Slaves
    BY <2>1, <2>4, TakenOn DEF Taken
  <2>6. u \in S
    BY <2>1, <2>3, <2>4, <2>5
  <2> QED
    BY <2>6 DEF u, most
<1>4. c \in S
  <2> HIDE DEF S
  <2> QED
    BY <1>1, <1>2, <1>3, CommitsStayIn
<1>5. CommitStagedWrites(v, bad, limit) = w
  BY DEF CommitStagedWrites
<1>6. v.staged = <<>> => c = v
  <2> SUFFICES ASSUME v.staged = <<>> PROVE c = v
    OBVIOUS
  <2> DEFINE T == {v}
  <2>1. Len(v.staged) = 0
    BY EmptySeq
  <2>2. \A s \in T, k \in 1..Len(v.staged) :
            HandleWrite(s, v.staged[k], IF k = bad THEN limit ELSE Words) \in T
    BY <2>1
  <2>3. v \in T
    OBVIOUS
  <2>4. c \in T
    <3> HIDE DEF T
    <3> QED
      BY <1>1, <2>2, <2>3, CommitsStayIn
  <2> QED
    BY <2>4
<1>7. c \in Slaves /\ Taken(v, c) /\ (bad = 0 /\ Clean(v) => Clean(c))
  BY <1>4
<1> HIDE DEF c
<1>8. w \in Slaves /\ (c.staged = <<>> => w = c)
  BY <1>7, EmptySlave
<1>9. /\ w.face = c.face /\ w.state = c.state /\ w.staged = <<>> /\ w.slot = c.slot
      /\ w.opReply = c.opReply /\ w.statusPending = c.statusPending
      /\ w.expected = c.expected /\ w.partial = c.partial /\ w.replies = c.replies
  BY <1>7 DEF Slaves, SlaveNodes
<1> HIDE DEF w
<1>10. Committed(v, w) /\ (bad = 0 /\ Clean(v) => Clean(w))
  <2>1. v.staged = <<>> => w = v
    BY <1>6, <1>7, <1>8
  <2>2. Aligned(w)
    BY <1>7, <1>9 DEF Aligned, Taken
  <2>3. v.slot = w.slot \/ v.state = "Receiving"
    BY <1>7, <1>9 DEF Taken
  <2> QED
    BY <1>7, <1>8, <1>9, <2>1, <2>2, <2>3 DEF Committed, Taken, Clean
<1> QED
  BY <1>5, <1>10

(* The application keeps its RAM empty, and its slot.                      *)
LEMMA StartedSound ==
    ASSUME NEW slot \in Slots, NEW face \in {"App", "Boot"},
           face = "App" => IsValid(slot)
    PROVE  Sound(Started(face, slot)) /\ Clean(Started(face, slot))
<1> DEFINE w == Started(face, slot)
<1> USE SlaveConstants
<1>1. /\ <<>> \in Seq(OpReplies) /\ <<>> \in Seq(WriteReplies)
      /\ <<>> \in Seq(0..(Chunks - 1)) /\ <<>> \in Seq(NoFailure)
      /\ Len(<<>>) = 0
  BY EmptySeq
<1>2. w \in SlaveNodes
  BY <1>1 DEF Started, SlaveNodes, States, Offsets
<1>3. /\ w.face = face /\ w.slot = slot /\ w.state = "Idle" /\ w.partial = 0
      /\ w.out = <<>> /\ w.staged = <<>> /\ w.replies = <<>>
  BY DEF Started
<1>4. SlaveBounds(w)
  BY <1>1, <1>3 DEF SlaveBounds
<1> QED
  BY <1>1, <1>2, <1>3, <1>4 DEF Sound, Slaves, Aligned, Clean

-----------------------------------------------------------------------------
(* A node that is where its image and its program say, and what moves it.  *)

(* No chunk and no word about one is on the node.                          *)
Blank(v) == v.staged = <<>> /\ v.replies = <<>>

(* The abstract push sees a node v become w: nothing, Program, Start or    *)
(* Leave, none of which takes anything out of the slot.                    *)
Moves(v, w) ==
    \/ w.face = v.face /\ w.slot = v.slot
    \/ v.face = "Boot" /\ w.face = "Boot" /\ v.slot # OldImage /\ v.slot < w.slot
    \/ v.face = "Boot" /\ w.face = "App" /\ IsValid(v.slot) /\ w.slot = v.slot
    \/ v.face = "App" /\ w.face = "Boot" /\ w.slot = v.slot

(* What a step of the node keeps, when it is not an erase.                 *)
Keeps(v, w) ==
    /\ Moves(v, w)
    /\ v.replies \in Seq(Honest(v.slot)) => w.replies \in Seq(Honest(w.slot))

(* Commits are such a step.                                                *)
LEMMA CommittedSound ==
    ASSUME NEW v, NEW w, Sound(v), v.face = "Boot", Committed(v, w)
    PROVE  Sound(w) /\ Keeps(v, w)
<1>1. v \in Slaves /\ Aligned(v) /\ w \in Slaves /\ Aligned(w) /\ w.face = "Boot"
  BY DEF Sound, Committed
<1>2. /\ v.slot \in Int /\ w.slot \in Int /\ v.slot <= w.slot /\ w.state = v.state
      /\ v.slot = w.slot \/ v.state = "Receiving"
  BY <1>1, SlaveTypes DEF Committed
<1>3. v.state = "Receiving" => v.slot \in Nat
  <2> SUFFICES ASSUME v.state = "Receiving" PROVE v.slot \in Nat
    OBVIOUS
  <2>1. v.expected \in Nat /\ v.partial \in Nat
    BY <1>1, SlaveTypes
  <2>2. v.expected * Words \in Nat
    BY <2>1, WholeChunks
  <2> QED
    BY <1>1, <2>1, <2>2 DEF Aligned
<1>4. Sound(w)
  BY <1>1, <1>2 DEF Sound
<1>5. Moves(v, w)
  BY <1>1, <1>2, <1>3 DEF Moves, OldImage
<1> QED
  BY <1>4, <1>5 DEF Keeps, Committed

(* Fault(), QueueOpReply() and FaultOp().                                  *)
LEMMA FaultTypes ==
    ASSUME NEW v \in Slaves, NEW nack \in BOOLEAN
    PROVE  /\ Fault(v) \in Slaves
           /\ Fault(v) = [v EXCEPT !.state = "Error"]
           /\ QueueOpReply(v, nack) \in Slaves
           /\ QueueOpReply(v, nack) = [v EXCEPT !.opReply = <<OpReply(nack)>>]
<1>1. v \in SlaveNodes /\ SlaveBounds(v)
  BY SlaveTypes
<1>2. /\ Fault(v) \in SlaveNodes
      /\ Fault(v).out = v.out /\ Fault(v).staged = v.staged /\ Fault(v).replies = v.replies
  BY <1>1 DEF Fault, SlaveNodes, States
<1> DEFINE w == QueueOpReply(v, nack)
<1>3. OpReply(nack) \in OpReplies
  BY ReplyTypes
<1>4. <<OpReply(nack)>> \in {<<>>} \cup {<<r>> : r \in OpReplies}
  BY <1>3
<1>5. w \in SlaveNodes /\ w.out = v.out /\ w.staged = v.staged /\ w.replies = v.replies
  BY <1>1, <1>4 DEF QueueOpReply, SlaveNodes
<1> QED
  BY <1>1, <1>2, <1>5 DEF Slaves, SlaveBounds, Fault, QueueOpReply

(* A fault leaves the flash, and what is queued, as they were.             *)
LEMMA FaultOpSound ==
    ASSUME NEW v, Sound(v), v.face = "Boot"
    PROVE  /\ Sound(FaultOp(v)) /\ Sound(Fault(v))
           /\ FaultOp(v).face = "Boot" /\ FaultOp(v).slot = v.slot
           /\ FaultOp(v).staged = v.staged /\ FaultOp(v).replies = v.replies
           /\ FaultOp(v).partial = v.partial
           /\ Fault(v).face = "Boot" /\ Fault(v).slot = v.slot
           /\ Fault(v).staged = v.staged /\ Fault(v).replies = v.replies
           /\ Fault(v).partial = v.partial
<1> DEFINE u == Fault(v)
           w == QueueOpReply(u, TRUE)
<1>1. v \in Slaves
  BY DEF Sound
<1>2. u \in Slaves /\ u = [v EXCEPT !.state = "Error"]
  BY <1>1, FaultTypes
<1>3. /\ u.face = "Boot" /\ u.slot = v.slot /\ u.state = "Error" /\ u.partial = v.partial
      /\ u.staged = v.staged /\ u.replies = v.replies
  BY <1>1, <1>2 DEF Slaves, SlaveNodes
<1> HIDE DEF u
<1>4. w \in Slaves /\ w = [u EXCEPT !.opReply = <<OpReply(TRUE)>>]
  BY <1>2, FaultTypes
<1>5. /\ w.face = "Boot" /\ w.slot = v.slot /\ w.state = "Error" /\ w.partial = v.partial
      /\ w.staged = v.staged /\ w.replies = v.replies
  BY <1>2, <1>3, <1>4 DEF Slaves, SlaveNodes
<1>6. Sound(u) /\ Sound(w)
  BY <1>2, <1>3, <1>4, <1>5 DEF Sound, Aligned
<1>7. FaultOp(v) = w
  BY DEF FaultOp, u
<1> QED
  BY <1>3, <1>5, <1>6, <1>7 DEF u

(* HandleBegin(): an erase, or the attempt of one.                         *)
LEMMA BeginErases ==
    ASSUME NEW v, Sound(v), v.face = "Boot", NEW fails \in BOOLEAN, NEW spoilt \in BOOLEAN
    PROVE  LET w == HandleBegin(v, fails, spoilt)
           IN  /\ Sound(w) /\ w.face = "Boot" /\ w.slot \in {v.slot, 0}
               /\ Blank(v) => Blank(w)
               /\ ~fails => Clean(w)
<1> DEFINE w == HandleBegin(v, fails, spoilt)
<1> USE SlaveConstants
<1>1. v \in Slaves /\ v \in SlaveNodes /\ SlaveBounds(v)
  BY SlaveTypes DEF Sound
<1>2. 0 \in Slots
  BY WholeChunks DEF Slots, OldImage
<1>3. CASE fails
  <2> DEFINE u == IF spoilt THEN [v EXCEPT !.slot = 0] ELSE v
             x == Fault(u)
  <2>1. w = FaultOp(u)
    BY <1>3 DEF HandleBegin, FailErase
  <2>2. /\ u \in SlaveNodes /\ u.face = "Boot" /\ u.slot \in {v.slot, 0}
        /\ u.staged = v.staged /\ u.replies = v.replies /\ u.out = v.out
    BY <1>1, <1>2 DEF SlaveNodes
  <2>3. u \in Slaves
    BY <1>1, <2>2 DEF Slaves, SlaveBounds
  <2> HIDE DEF u
  <2>4. x \in Slaves /\ x = [u EXCEPT !.state = "Error"]
    BY <2>3, FaultTypes
  <2>5. /\ x.face = "Boot" /\ x.slot \in {v.slot, 0} /\ x.state = "Error"
        /\ x.staged = v.staged /\ x.replies = v.replies
    BY <2>2, <2>4 DEF SlaveNodes
  <2> HIDE DEF x
  <2>6. w = QueueOpReply(x, TRUE)
    BY <2>1 DEF FaultOp, x
  <2>7. w \in Slaves /\ w = [x EXCEPT !.opReply = <<OpReply(TRUE)>>]
    BY <2>4, <2>6, FaultTypes
  <2>8. /\ w.face = "Boot" /\ w.slot \in {v.slot, 0} /\ w.state = "Error"
        /\ w.staged = v.staged /\ w.replies = v.replies
    BY <2>4, <2>5, <2>7 DEF Slaves, SlaveNodes
  <2> QED
    BY <1>3, <2>7, <2>8 DEF Sound, Aligned, Blank
<1>4. CASE ~fails
  <2> DEFINE u == [v EXCEPT !.slot = 0, !.state = "Receiving", !.expected = 0,
                            !.partial = 0, !.replies = <<>>, !.staged = <<>>]
  <2>1. w = QueueOpReply(u, FALSE)
    BY <1>4 DEF HandleBegin, StartReceiving
  <2>2. /\ <<>> \in Seq(WriteReplies) /\ <<>> \in Seq(0..(Chunks - 1))
        /\ <<>> \in Seq(NoFailure) /\ Len(<<>>) = 0
    BY EmptySeq
  <2>3. /\ u.face = "Boot" /\ u.slot = 0 /\ u.state = "Receiving"
        /\ u.expected = 0 /\ u.partial = 0 /\ u.replies = <<>> /\ u.staged = <<>>
        /\ u.out = v.out
    BY <1>1 DEF SlaveNodes
  <2>4. u \in SlaveNodes
    <3>1. 0 \in Offsets /\ 0 \in 0..(Words - 1) /\ "Receiving" \in States
      BY DEF Offsets, States
    <3> QED
      BY <1>1, <1>2, <2>2, <3>1 DEF SlaveNodes
  <2> HIDE DEF u
  <2>5. u \in Slaves
    BY <1>1, <2>2, <2>3, <2>4 DEF Slaves, SlaveBounds
  <2>6. w \in Slaves /\ w = [u EXCEPT !.opReply = <<OpReply(FALSE)>>]
    BY <2>1, <2>5, FaultTypes
  <2>7. /\ w.face = "Boot" /\ w.slot = 0 /\ w.state = "Receiving"
        /\ w.expected = 0 /\ w.partial = 0 /\ w.replies = <<>> /\ w.staged = <<>>
    BY <2>3, <2>4, <2>6 DEF SlaveNodes
  <2>8. w.slot = w.expected * Words + w.partial
    BY <2>7
  <2> HIDE DEF w
  <2> QED
    BY <1>4, <2>2, <2>6, <2>7, <2>8 DEF Sound, Aligned, Blank, Clean, w
<1> QED
  BY <1>3, <1>4

-----------------------------------------------------------------------------
(* The requests that the bootloader understands.                           *)

(* A chunk is staged, once there is room for it.                           *)
LEMMA WriteStaged ==
    ASSUME NEW v, Sound(v), v.face = "Boot", NEW off \in 0..(Chunks - 1),
           NEW bad \in Nat, NEW limit \in 0..(Words - 1)
    PROVE  LET w == StageWrite(v, off, bad, limit)
           IN  /\ Sound(w) /\ Keeps(v, w) /\ w.face = "Boot"
               /\ bad = 0 /\ Clean(v) => Clean(w)
<1> DEFINE w == StageWrite(v, off, bad, limit)
           c == CommitStagedWrites(v, bad, limit)
           room == IF Len(v.staged) = MaxStaged THEN c ELSE v
<1> USE SlaveConstants
<1>1. v \in Slaves /\ Aligned(v)
  BY DEF Sound
<1>2. /\ Committed(v, c) /\ Sound(c) /\ Keeps(v, c) /\ c.staged = <<>> /\ c.face = "Boot"
      /\ bad = 0 /\ Clean(v) => Clean(c)
  <2>1. Committed(v, c) /\ (bad = 0 /\ Clean(v) => Clean(c))
    BY <1>1, CommitsTaken
  <2> HIDE DEF c
  <2> QED
    BY <2>1, CommittedSound DEF Committed
<1>3. /\ Sound(room) /\ room.face = "Boot" /\ Keeps(v, room)
      /\ bad = 0 /\ Clean(v) => Clean(room)
  BY <1>2 DEF Keeps, Moves
<1>4. room \in SlaveNodes /\ SlaveBounds(room) /\ room.staged \in Seq(0..(Chunks - 1))
  BY <1>3, SlaveTypes DEF Sound
<1>5. Len(room.staged) \in Nat /\ Len(room.staged) < MaxStaged
  <2>1. Len(v.staged) \in Nat /\ Len(v.staged) <= MaxStaged
    BY <1>1, SlaveTypes, LenProperties DEF SlaveBounds
  <2>2. Len(c.staged) = 0
    BY <1>2, EmptySeq
  <2> HIDE DEF c
  <2> QED
    BY <2>1, <2>2
<1> HIDE DEF room
<1>6. /\ Append(room.staged, off) \in Seq(0..(Chunks - 1))
      /\ Len(Append(room.staged, off)) = Len(room.staged) + 1
  BY <1>4, AppendProperties
<1>7. w = [room EXCEPT !.staged = Append(room.staged, off)]
  BY <1>4 DEF StageWrite, room, SlaveNodes
<1>8. /\ w \in SlaveNodes /\ w.staged = Append(room.staged, off)
      /\ w.face = room.face /\ w.slot = room.slot /\ w.state = room.state
      /\ w.expected = room.expected /\ w.partial = room.partial
      /\ w.replies = room.replies /\ w.out = room.out
  BY <1>4, <1>6, <1>7 DEF SlaveNodes
<1> HIDE DEF w
<1>9. w \in Slaves
  BY <1>4, <1>5, <1>6, <1>8 DEF Slaves, SlaveBounds
<1>10. Sound(w) /\ Keeps(v, w) /\ w.face = "Boot"
  BY <1>3, <1>8, <1>9 DEF Sound, Aligned, Keeps, Moves
<1>11. bad = 0 /\ Clean(v) => Clean(w)
  BY <1>3, <1>8 DEF Clean
<1> QED
  BY <1>10, <1>11 DEF w

(* HandleEnd(), after the commits: only a whole image is Valid.            *)
LEMMA EndChecks ==
    ASSUME NEW v, Sound(v), v.face = "Boot"
    PROVE  LET w == HandleEnd(v)
           IN  /\ Sound(w) /\ w.face = "Boot" /\ w.slot = v.slot
               /\ w.staged = v.staged /\ w.replies = v.replies /\ w.partial = v.partial
<1> DEFINE w == HandleEnd(v)
           u == [v EXCEPT !.state = "Valid"]
<1>1. v \in Slaves /\ v \in SlaveNodes /\ SlaveBounds(v)
  BY SlaveTypes DEF Sound
<1>2. CASE w = FaultOp(v)
  BY <1>2, FaultOpSound
<1>3. CASE w = QueueOpReply(u, FALSE) /\ v.slot = NewImage
  <2>1. /\ u \in SlaveNodes /\ u.face = "Boot" /\ u.slot = NewImage /\ u.state = "Valid"
        /\ u.staged = v.staged /\ u.replies = v.replies /\ u.out = v.out
        /\ u.partial = v.partial
    BY <1>1, <1>3 DEF SlaveNodes, States
  <2>2. u \in Slaves
    BY <1>1, <2>1 DEF Slaves, SlaveBounds
  <2> HIDE DEF u
  <2>3. w \in Slaves /\ w = [u EXCEPT !.opReply = <<OpReply(FALSE)>>]
    BY <1>3, <2>2, FaultTypes
  <2>4. /\ w.face = "Boot" /\ w.slot = NewImage /\ w.state = "Valid"
        /\ w.staged = v.staged /\ w.replies = v.replies /\ w.partial = v.partial
    BY <2>1, <2>3 DEF SlaveNodes
  <2> HIDE DEF w
  <2>5. Sound(w)
    BY <2>3, <2>4 DEF Sound, Aligned
  <2> QED
    BY <1>3, <2>4, <2>5 DEF w
<1>4. w = FaultOp(v) \/ (w = QueueOpReply(u, FALSE) /\ v.slot = NewImage)
  BY DEF HandleEnd
<1> QED
  BY <1>2, <1>3, <1>4

(* HandleAbort().                                                          *)
LEMMA AbortEnds ==
    ASSUME NEW v, Sound(v), v.face = "Boot"
    PROVE  LET w == HandleAbort(v)
           IN  /\ Sound(w) /\ w.face = "Boot" /\ w.slot = v.slot
               /\ Blank(w) /\ Clean(w)
<1> DEFINE w == HandleAbort(v)
           u == [v EXCEPT !.state = "Idle", !.expected = 0, !.partial = 0,
                          !.replies = <<>>, !.staged = <<>>]
<1> USE SlaveConstants
<1>1. v \in Slaves /\ v \in SlaveNodes /\ SlaveBounds(v)
  BY SlaveTypes DEF Sound
<1>2. /\ <<>> \in Seq(WriteReplies) /\ <<>> \in Seq(0..(Chunks - 1))
      /\ <<>> \in Seq(NoFailure) /\ Len(<<>>) = 0
  BY EmptySeq
<1>3. /\ u.face = "Boot" /\ u.slot = v.slot /\ u.state = "Idle" /\ u.partial = 0
      /\ u.replies = <<>> /\ u.staged = <<>> /\ u.out = v.out
  BY <1>1 DEF SlaveNodes
<1>4. u \in SlaveNodes
  <2>1. 0 \in Offsets /\ 0 \in 0..(Words - 1) /\ "Idle" \in States
    BY DEF Offsets, States
  <2> QED
    BY <1>1, <1>2, <2>1 DEF SlaveNodes
<1>5. w = QueueOpReply(u, FALSE)
  BY DEF HandleAbort
<1> HIDE DEF u
<1>6. u \in Slaves
  BY <1>1, <1>2, <1>3, <1>4 DEF Slaves, SlaveBounds
<1>7. w \in Slaves /\ w = [u EXCEPT !.opReply = <<OpReply(FALSE)>>]
  BY <1>5, <1>6, FaultTypes
<1>8. /\ w.face = "Boot" /\ w.slot = v.slot /\ w.state = "Idle" /\ w.partial = 0
      /\ w.replies = <<>> /\ w.staged = <<>>
  BY <1>3, <1>4, <1>7 DEF SlaveNodes
<1> HIDE DEF w
<1>9. Sound(w) /\ Blank(w) /\ Clean(w)
  BY <1>2, <1>7, <1>8 DEF Sound, Aligned, Blank, Clean
<1> QED
  BY <1>8, <1>9 DEF w

(* A Get is remembered until the next Poll.                                *)
LEMMA GetRemembered ==
    ASSUME NEW v, Sound(v), v.face = "Boot"
    PROVE  LET w == [v EXCEPT !.statusPending = TRUE]
           IN  /\ Sound(w) /\ w.face = "Boot" /\ w.slot = v.slot
               /\ w.staged = v.staged /\ w.replies = v.replies /\ w.partial = v.partial
<1> DEFINE w == [v EXCEPT !.statusPending = TRUE]
<1>1. v \in Slaves /\ v \in SlaveNodes /\ SlaveBounds(v)
  BY SlaveTypes DEF Sound
<1>2. /\ w \in SlaveNodes /\ w.face = "Boot" /\ w.slot = v.slot /\ w.state = v.state
      /\ w.staged = v.staged /\ w.replies = v.replies /\ w.partial = v.partial
      /\ w.expected = v.expected /\ w.out = v.out
  BY <1>1 DEF SlaveNodes
<1> HIDE DEF w
<1>3. w \in Slaves
  BY <1>1, <1>2 DEF Slaves, SlaveBounds
<1>4. Sound(w)
  BY <1>2, <1>3 DEF Sound, Aligned
<1> QED
  BY <1>2, <1>4 DEF w

(* The cases of OnFirmware().                                              *)
LEMMA ReceiveCases ==
    ASSUME NEW v, NEW m, NEW bad, NEW limit
    PROVE  LET w == BootReceive(v, m, bad, limit)
           IN  /\ m.op = "Get"      => w = [v EXCEPT !.statusPending = TRUE]
               /\ m.op = "Begin"    => w = HandleBegin(v, bad # 0, limit # 0)
               /\ m.op = "Write"    => w = StageWrite(v, m.off, bad, limit)
               /\ m.op = "End"      => w = HandleEnd(CommitStagedWrites(v, bad, limit))
               /\ m.op = "Activate" => w = HandleActivate(v)
               /\ m.op = "Abort"    => w = HandleAbort(v)
               /\ m.op = "EnterBootloader" => w = v
<1>1. m.op = "Get" => BootReceive(v, m, bad, limit) = [v EXCEPT !.statusPending = TRUE]
  BY Zenon DEF BootReceive
<1>2. m.op = "Begin" => BootReceive(v, m, bad, limit) = HandleBegin(v, bad # 0, limit # 0)
  BY Zenon DEF BootReceive
<1>3. m.op = "Write" => BootReceive(v, m, bad, limit) = StageWrite(v, m.off, bad, limit)
  BY Zenon DEF BootReceive
<1>4. m.op = "End" =>
          BootReceive(v, m, bad, limit) = HandleEnd(CommitStagedWrites(v, bad, limit))
  BY Zenon DEF BootReceive
<1>5. m.op = "Activate" => BootReceive(v, m, bad, limit) = HandleActivate(v)
  BY Zenon DEF BootReceive
<1>6. m.op = "Abort" => BootReceive(v, m, bad, limit) = HandleAbort(v)
  BY Zenon DEF BootReceive
<1>7. m.op = "EnterBootloader" => BootReceive(v, m, bad, limit) = v
  BY Zenon DEF BootReceive
<1> QED
  BY <1>1, <1>2, <1>3, <1>4, <1>5, <1>6, <1>7

-----------------------------------------------------------------------------
(* Every request, a Poll, and a reset.                                     *)

(* The requests, and which of them brings a chunk.                         *)
LEMMA RequestOps ==
    \A m \in Requests : /\ m.op \in Simple \cup {"Write"}
                        /\ m.op = "Write" => m.off \in 0..(Chunks - 1)
BY DEF Requests, Set, Write, Simple

(* OnFirmware(): only Begin takes anything out of the slot, only a Write   *)
(* puts a chunk on the node.                                               *)
LEMMA ReceiveSound ==
    ASSUME NEW v, Sound(v), v.face = "Boot", NEW m \in Requests,
           NEW bad \in Nat, NEW limit \in 0..(Words - 1)
    PROVE  LET w == BootReceive(v, m, bad, limit)
           IN  /\ Sound(w)
               /\ bad = 0 /\ Clean(v) => Clean(w)
               /\ m.op # "Begin" => Keeps(v, w)
               /\ m.op = "Begin" => w.face = "Boot" /\ w.slot \in {v.slot, 0}
               /\ m.op # "Write" /\ Blank(v) => Blank(w)
<1> DEFINE w == BootReceive(v, m, bad, limit)
<1> USE SlaveConstants
<1>1. m.op \in Simple \cup {"Write"} /\ (m.op = "Write" => m.off \in 0..(Chunks - 1))
  BY RequestOps
<1>2. v \in Slaves /\ Aligned(v) /\ v.slot \in Slots
  BY DEF Sound, Slaves, SlaveNodes
<1>3. \A u : u.face = "Boot" /\ u.slot = v.slot /\ u.replies = v.replies => Keeps(v, u)
  BY DEF Keeps, Moves
<1>4. CASE m.op = "Get"
  <2>1. w = [v EXCEPT !.statusPending = TRUE]
    BY <1>4, ReceiveCases
  <2> HIDE DEF w
  <2>2. /\ Sound(w) /\ w.face = "Boot" /\ w.slot = v.slot
        /\ w.staged = v.staged /\ w.replies = v.replies /\ w.partial = v.partial
    BY <2>1, GetRemembered
  <2>3. Sound(w) /\ Keeps(v, w) /\ (Clean(v) => Clean(w)) /\ (Blank(v) => Blank(w))
    BY <1>3, <2>2 DEF Clean, Blank
  <2> QED
    BY <1>4, <2>3 DEF w
<1>5. CASE m.op = "Begin"
  <2>1. w = HandleBegin(v, bad # 0, limit # 0)
    BY <1>5, ReceiveCases
  <2>2. /\ Sound(w) /\ w.face = "Boot" /\ w.slot \in {v.slot, 0}
        /\ Blank(v) => Blank(w)
        /\ bad = 0 => Clean(w)
    <3> HIDE DEF w
    <3>1. (bad # 0) \in BOOLEAN /\ (limit # 0) \in BOOLEAN
      OBVIOUS
    <3> QED
      BY <2>1, <3>1, BeginErases
  <2> HIDE DEF w
  <2> QED
    BY <1>5, <2>2 DEF w
<1>6. CASE m.op = "Write"
  <2>1. w = StageWrite(v, m.off, bad, limit)
    BY <1>6, ReceiveCases
  <2> HIDE DEF w
  <2>2. Sound(w) /\ Keeps(v, w) /\ (bad = 0 /\ Clean(v) => Clean(w))
    BY <1>1, <1>6, <2>1, WriteStaged
  <2> QED
    BY <1>6, <2>2 DEF w
<1>7. CASE m.op = "End"
  <2> DEFINE c == CommitStagedWrites(v, bad, limit)
  <2>1. w = HandleEnd(c)
    BY <1>7, ReceiveCases
  <2>2. Committed(v, c) /\ (bad = 0 /\ Clean(v) => Clean(c))
    BY <1>2, CommitsTaken
  <2> HIDE DEF c, w
  <2>3. Sound(c) /\ Keeps(v, c) /\ c.face = "Boot" /\ (Blank(v) => Blank(c))
    BY <2>2, CommittedSound DEF Committed, Blank
  <2>4. /\ Sound(w) /\ w.face = "Boot" /\ w.slot = c.slot
        /\ w.staged = c.staged /\ w.replies = c.replies /\ w.partial = c.partial
    BY <2>1, <2>3, EndChecks
  <2>5. Keeps(v, w) /\ (Clean(c) => Clean(w)) /\ (Blank(c) => Blank(w))
    BY <2>3, <2>4 DEF Keeps, Moves, Clean, Blank
  <2> QED
    BY <1>7, <2>2, <2>3, <2>4, <2>5 DEF w
<1>8. CASE m.op = "Activate"
  <2>1. w = HandleActivate(v)
    BY <1>8, ReceiveCases
  <2>2. CASE v.state # "Valid"
    <3>1. w = Fault(v)
      BY <2>1, <2>2 DEF HandleActivate
    <3> HIDE DEF w
    <3>2. /\ Sound(w) /\ w.face = "Boot" /\ w.slot = v.slot
          /\ w.staged = v.staged /\ w.replies = v.replies /\ w.partial = v.partial
      BY <3>1, FaultOpSound
    <3>3. Sound(w) /\ Keeps(v, w) /\ (Clean(v) => Clean(w)) /\ (Blank(v) => Blank(w))
      BY <1>3, <3>2 DEF Clean, Blank
    <3> QED
      BY <1>8, <3>3 DEF w
  <2>3. CASE v.state = "Valid"
    <3>1. w = Started("App", v.slot)
      BY <2>1, <2>3 DEF HandleActivate
    <3> HIDE DEF w
    <3>2. v.slot = NewImage /\ IsValid(v.slot)
      BY <2>3 DEF Sound, IsValid
    <3>3. Sound(w) /\ Clean(w)
      BY <1>2, <3>1, <3>2, StartedSound
    <3>4. w.face = "App" /\ w.slot = v.slot /\ w.staged = <<>> /\ w.replies = <<>>
      BY <3>1 DEF Started
    <3>5. Keeps(v, w) /\ Blank(w)
      BY <3>2, <3>4, EmptySeq DEF Keeps, Moves, Blank
    <3> QED
      BY <1>8, <3>3, <3>5 DEF w
  <2> QED
    BY <2>2, <2>3
<1>9. CASE m.op = "Abort"
  <2>1. w = HandleAbort(v)
    BY <1>9, ReceiveCases
  <2> HIDE DEF w
  <2>2. Sound(w) /\ w.face = "Boot" /\ w.slot = v.slot /\ Blank(w) /\ Clean(w)
    BY <2>1, AbortEnds
  <2>3. Keeps(v, w)
    BY <2>2, EmptySeq DEF Keeps, Moves, Blank
  <2> QED
    BY <1>9, <2>2, <2>3 DEF w
<1>10. CASE m.op = "EnterBootloader"
  <2>1. w = v
    BY <1>10, ReceiveCases
  <2> HIDE DEF w
  <2> QED
    BY <1>3, <1>10, <2>1 DEF w
<1> QED
  BY <1>1, <1>4, <1>5, <1>6, <1>7, <1>8, <1>9, <1>10 DEF Simple

(* What a Poll is told: a report, the reply to an operation, the replies   *)
(* to the chunks.                                                          *)
LEMMA RepliesType ==
    ASSUME NEW v \in Slaves, NEW R, v.replies \in Seq(R),
           OpReplies \subseteq R, Report(v.state, v.expected) \in R
    PROVE  BootReplies(v) \in Seq(R)
<1> DEFINE status == IF v.statusPending THEN <<Report(v.state, v.expected)>> ELSE <<>>
<1>1. status \in Seq(R)
  OBVIOUS
<1>2. v.opReply \in Seq(R)
  <2>1. v.opReply = <<>> \/ \E r \in OpReplies : v.opReply = <<r>>
    BY SlaveTypes
  <2>2. \A r \in R : <<r>> \in Seq(R)
    OBVIOUS
  <2>3. <<>> \in Seq(R)
    BY EmptySeq
  <2> QED
    BY <2>1, <2>2, <2>3
<1> HIDE DEF status
<1>3. status \o v.opReply \in Seq(R)
  BY <1>1, <1>2, ConcatProperties
<1>4. (status \o v.opReply) \o v.replies \in Seq(R)
  BY <1>3, ConcatProperties
<1> QED
  BY <1>4 DEF BootReplies, status

(* A Poll takes the replies.                                               *)
LEMMA PolledSound ==
    ASSUME NEW v, Sound(v), v.face = "Boot"
    PROVE  LET w == BootPolled(v)
           IN  /\ Sound(w) /\ Keeps(v, w) /\ w.face = "Boot" /\ w.slot = v.slot
               /\ w.replies = <<>> /\ w.staged = v.staged
               /\ Clean(v) => Clean(w)
<1> DEFINE w == BootPolled(v)
<1> USE SlaveConstants
<1>1. v \in Slaves /\ v \in SlaveNodes /\ SlaveBounds(v)
  BY SlaveTypes DEF Sound
<1>2. /\ <<>> \in Seq(WriteReplies) /\ <<>> \in Seq(NoFailure)
      /\ \A R : <<>> \in Seq(R)
      /\ Len(<<>>) = 0
  BY EmptySeq
<1>3. /\ w.face = "Boot" /\ w.slot = v.slot /\ w.state = v.state
      /\ w.staged = v.staged /\ w.replies = <<>> /\ w.partial = v.partial
      /\ w.expected = v.expected /\ w.out = v.out
  BY <1>1 DEF BootPolled, SlaveNodes
<1>4. w \in SlaveNodes
  BY <1>1, <1>2 DEF BootPolled, SlaveNodes
<1> HIDE DEF w
<1>5. w \in Slaves
  BY <1>1, <1>2, <1>3, <1>4 DEF Slaves, SlaveBounds
<1>6. Sound(w) /\ Keeps(v, w) /\ (Clean(v) => Clean(w))
  BY <1>2, <1>3, <1>5 DEF Sound, Aligned, Keeps, Moves, Clean
<1> QED
  BY <1>3, <1>6 DEF w

(* The application's part: it queues answers and leaves for the            *)
(* bootloader.                                                             *)
LEMMA AppSound ==
    ASSUME NEW v, Sound(v), v.face = "App", NEW op
    PROVE  /\ LET w == AppReceive(v, op)
              IN  Sound(w) /\ Keeps(v, w) /\ Blank(w) /\ (Clean(v) => Clean(w))
           /\ LET w == AppPolled(v)
              IN  Sound(w) /\ Keeps(v, w) /\ Blank(w) /\ (Clean(v) => Clean(w))
<1> USE SlaveConstants
<1>1. v \in Slaves /\ v \in SlaveNodes /\ SlaveBounds(v) /\ v.out \in Seq(OpReplies)
  BY SlaveTypes DEF Sound, SlaveNodes
<1>2. \A R : <<>> \in Seq(R)
  BY EmptySeq
<1>3. ASSUME NEW w, w \in SlaveNodes, Len(w.out) <= AppQueue,
             w.face = "App", w.slot = v.slot, w.state = v.state, w.staged = v.staged,
             w.replies = v.replies, w.partial = v.partial
      PROVE  Sound(w) /\ Keeps(v, w) /\ Blank(w) /\ (Clean(v) => Clean(w))
  <2>1. w \in Slaves
    BY <1>1, <1>3 DEF Slaves, SlaveBounds
  <2> QED
    BY <1>2, <1>3, <2>1 DEF Sound, Aligned, Keeps, Moves, Blank, Clean
<1>4. \A nack \in BOOLEAN :
          LET out == QueueMessage(v, OpReply(nack)).out
          IN  /\ QueueMessage(v, OpReply(nack)) = [v EXCEPT !.out = out]
              /\ out \in Seq(OpReplies) /\ Len(out) <= AppQueue
  <2> SUFFICES ASSUME NEW nack \in BOOLEAN
               PROVE  LET out == QueueMessage(v, OpReply(nack)).out
                      IN  /\ QueueMessage(v, OpReply(nack)) = [v EXCEPT !.out = out]
                          /\ out \in Seq(OpReplies) /\ Len(out) <= AppQueue
    OBVIOUS
  <2> DEFINE r == OpReply(nack)
  <2>1. r \in OpReplies
    BY ReplyTypes
  <2> HIDE DEF r
  <2>2. CASE Len(v.out) < AppQueue
    <3>1. /\ Append(v.out, r) \in Seq(OpReplies)
          /\ Len(Append(v.out, r)) = Len(v.out) + 1 /\ Len(v.out) \in Nat
      BY <1>1, <2>1, AppendProperties, LenProperties
    <3>2. Len(Append(v.out, r)) <= AppQueue
      BY <2>2, <3>1
    <3>3. QueueMessage(v, r) = [v EXCEPT !.out = Append(v.out, r)]
      BY <1>1, <2>2 DEF QueueMessage, SlaveNodes
    <3>4. QueueMessage(v, r).out = Append(v.out, r)
      BY <1>1, <3>3 DEF SlaveNodes
    <3> QED
      BY <3>1, <3>2, <3>3, <3>4 DEF r
  <2>3. CASE ~(Len(v.out) < AppQueue)
    <3>1. QueueMessage(v, r) = v
      BY <2>3 DEF QueueMessage
    <3>2. v = [v EXCEPT !.out = v.out]
      BY <1>1 DEF SlaveNodes
    <3> QED
      BY <1>1, <3>1, <3>2 DEF SlaveBounds, r
  <2> QED
    BY <2>2, <2>3
<1>5. LET w == AppReceive(v, op)
      IN  Sound(w) /\ Keeps(v, w) /\ Blank(w) /\ (Clean(v) => Clean(w))
  <2> DEFINE w == AppReceive(v, op)
             nack == op # "EnterBootloader"
             u == QueueMessage(v, OpReply(nack))
  <2>1. u = [v EXCEPT !.out = u.out] /\ u.out \in Seq(OpReplies) /\ Len(u.out) <= AppQueue
    BY <1>4
  <2>2. w = IF nack THEN u ELSE [u EXCEPT !.resetPending = TRUE]
    BY DEF AppReceive
  <2> HIDE DEF u
  <2>3. u \in SlaveNodes
    BY <1>1, <2>1 DEF SlaveNodes
  <2>4. /\ u.face = v.face /\ u.slot = v.slot /\ u.state = v.state
        /\ u.staged = v.staged /\ u.replies = v.replies /\ u.partial = v.partial
    BY <1>1, <2>1 DEF SlaveNodes
  <2>5. /\ w \in SlaveNodes /\ w.out = u.out
        /\ w.face = v.face /\ w.slot = v.slot /\ w.state = v.state
        /\ w.staged = v.staged /\ w.replies = v.replies /\ w.partial = v.partial
    BY <2>2, <2>3, <2>4 DEF SlaveNodes
  <2> HIDE DEF w
  <2>6. Sound(w) /\ Keeps(v, w) /\ Blank(w) /\ (Clean(v) => Clean(w))
    BY <1>3, <2>1, <2>5
  <2> QED
    BY <2>6 DEF w
<1>6. LET w == AppPolled(v)
      IN  Sound(w) /\ Keeps(v, w) /\ Blank(w) /\ (Clean(v) => Clean(w))
  <2> DEFINE w == AppPolled(v)
  <2>1. CASE v.resetPending
    <3>1. w = Started("Boot", v.slot)
      BY <2>1 DEF AppPolled
    <3> HIDE DEF w
    <3>2. Sound(w) /\ Clean(w)
      BY <1>1, <3>1, StartedSound DEF SlaveNodes
    <3>3. w.face = "Boot" /\ w.slot = v.slot /\ w.staged = <<>> /\ w.replies = <<>>
      BY <3>1 DEF Started
    <3>4. Keeps(v, w) /\ Blank(w)
      BY <1>2, <3>3 DEF Keeps, Moves, Blank
    <3> QED
      BY <3>2, <3>4 DEF w
  <2>2. CASE ~v.resetPending
    <3>1. w = [v EXCEPT !.out = <<>>]
      BY <2>2 DEF AppPolled
    <3> HIDE DEF w
    <3>2. /\ w \in SlaveNodes /\ w.out = <<>>
          /\ w.face = v.face /\ w.slot = v.slot /\ w.state = v.state
          /\ w.staged = v.staged /\ w.replies = v.replies /\ w.partial = v.partial
      BY <1>1, <1>2, <3>1 DEF SlaveNodes
    <3>3. Len(w.out) <= AppQueue
      BY <3>2, EmptySeq
    <3>4. Sound(w) /\ Keeps(v, w) /\ Blank(w) /\ (Clean(v) => Clean(w))
      BY <1>3, <3>2, <3>3
    <3> QED
      BY <3>4 DEF w
  <2> QED
    BY <2>1, <2>2
<1> QED
  BY <1>5, <1>6

(* Either program starts with its RAM empty and the slot as it is.         *)
LEMMA BootSound ==
    ASSUME NEW v, Sound(v), NEW w \in Boots(v)
    PROVE  Sound(w) /\ Keeps(v, w) /\ Blank(w) /\ Clean(w)
<1>1. v.slot \in Slots /\ v.face \in {"App", "Boot"}
  BY DEF Sound, Slaves, SlaveNodes
<1>2. \A R : <<>> \in Seq(R)
  BY EmptySeq
<1>3. PICK face \in {"App", "Boot"} :
          w = Started(face, v.slot) /\ (face = "App" => IsValid(v.slot))
  BY DEF Boots
<1>4. Sound(w) /\ Clean(w)
  BY <1>1, <1>3, StartedSound
<1>5. w.face = face /\ w.slot = v.slot /\ w.staged = <<>> /\ w.replies = <<>>
  BY <1>3 DEF Started
<1>6. Keeps(v, w) /\ Blank(w)
  BY <1>1, <1>2, <1>3, <1>5 DEF Keeps, Moves, Blank
<1> QED
  BY <1>4, <1>6

(* Reports that promise no more than the slot holds.                       *)
HonestReports(slot) == {r \in Reports : r.state = "Receiving" => Stored(r.off, slot)}

-----------------------------------------------------------------------------
(* The cases of the driver's switches.                                     *)

(* What follows a wait, wait by wait.                                      *)
LEMMA SettledCases ==
    Settled => /\ probes' = 0
               /\ pc = "Beginning" => /\ pc' = "Writing"
                                      /\ UNCHANGED <<down, position, timeouts>>
               /\ pc = "Restarting" => /\ pc' = "Writing"
                                       /\ base' = 0 /\ next' = 0 /\ timeouts' = 0
                                       /\ UNCHANGED <<down, held>>
               /\ pc = "Verifying" => /\ pc' = "Done"
                                      /\ Send(Set("Activate"))
                                      /\ UNCHANGED <<position, timeouts>>
<1> SUFFICES ASSUME Settled
             PROVE  /\ pc = "Beginning" => /\ pc' = "Writing"
                                           /\ UNCHANGED <<down, position, timeouts>>
                    /\ pc = "Restarting" => /\ pc' = "Writing"
                                            /\ base' = 0 /\ next' = 0 /\ timeouts' = 0
                                            /\ UNCHANGED <<down, held>>
                    /\ pc = "Verifying" => /\ pc' = "Done"
                                           /\ Send(Set("Activate"))
                                           /\ UNCHANGED <<position, timeouts>>
  BY DEF Settled
<1>1. ASSUME pc = "Beginning"
      PROVE  pc' = "Writing" /\ UNCHANGED <<down, position, timeouts>>
  BY <1>1, Zenon DEF Settled
<1>2. ASSUME pc = "Restarting"
      PROVE  /\ pc' = "Writing" /\ base' = 0 /\ next' = 0 /\ timeouts' = 0
             /\ UNCHANGED <<down, held>>
  BY <1>2, Zenon DEF Settled
<1>3. ASSUME pc = "Verifying"
      PROVE  pc' = "Done" /\ Send(Set("Activate")) /\ UNCHANGED <<position, timeouts>>
  BY <1>3, Zenon DEF Settled
<1> QED
  BY <1>1, <1>2, <1>3, Zenon

(* A report ends the wait, fails the job, or is not what was awaited.      *)
LEMMA StepReportedCases ==
    StepReported =>
        /\ pc \in {"Beginning", "Restarting", "Verifying"} /\ reports # <<>>
        /\ NodeUnchanged /\ UNCHANGED <<up, resumes, mishaps>>
        /\ \/ /\ Head(reports).state = Awaited
              /\ Settled
              /\ reports' = LeftOver(Tail(reports))
              /\ opReplies' = LeftOver(opReplies)
              /\ writeReplies' = LeftOver(writeReplies)
              /\ UNCHANGED reason
           \/ /\ Fail("reported")
              /\ reports' = Tail(reports)
              /\ UNCHANGED <<position, timeouts, probes, opReplies, writeReplies>>
           \/ /\ reports' = Tail(reports)
              /\ UNCHANGED <<pc, reason, down, position, timeouts, probes,
                             opReplies, writeReplies>>
<1> SUFFICES ASSUME StepReported
             PROVE  \/ /\ Head(reports).state = Awaited
                       /\ Settled
                       /\ reports' = LeftOver(Tail(reports))
                       /\ opReplies' = LeftOver(opReplies)
                       /\ writeReplies' = LeftOver(writeReplies)
                       /\ UNCHANGED reason
                    \/ /\ Fail("reported")
                       /\ reports' = Tail(reports)
                       /\ UNCHANGED <<position, timeouts, probes, opReplies, writeReplies>>
                    \/ /\ reports' = Tail(reports)
                       /\ UNCHANGED <<pc, reason, down, position, timeouts, probes,
                                      opReplies, writeReplies>>
  BY DEF StepReported
<1>1. Awaited # "Error"
  BY DEF Awaited
<1>2. CASE Head(reports).state = Awaited
  BY <1>1, <1>2, Zenon DEF StepReported
<1>3. CASE Head(reports).state # Awaited /\ Head(reports).state = "Error"
  BY <1>1, <1>3, Zenon DEF StepReported
<1>4. CASE Head(reports).state # Awaited /\ Head(reports).state # "Error"
  BY <1>1, <1>4, Zenon DEF StepReported
<1> QED
  BY <1>2, <1>3, <1>4

(* A report lets the transfer go on, fails the job, or starts it over.     *)
LEMMA ResumeReportedCases ==
    ResumeReported =>
        /\ pc = "Resuming" /\ reports # <<>> /\ probes' = 0
        /\ NodeUnchanged /\ UNCHANGED <<up, held, resumes, mishaps>>
        /\ \/ /\ Head(reports).state = "Receiving"
              /\ pc' = "Writing"
              /\ base' = Head(reports).off /\ next' = Head(reports).off /\ timeouts' = 0
              /\ DrainReplies
              /\ UNCHANGED <<reason, down>>
           \/ /\ Fail("reported")
              /\ reports' = Tail(reports)
              /\ UNCHANGED <<base, next, timeouts, opReplies, writeReplies>>
           \/ /\ pc' = "Restarting"
              /\ Send(Set("Begin"))
              /\ reports' = Tail(reports)
              /\ UNCHANGED <<reason, base, next, timeouts, opReplies, writeReplies>>
<1> SUFFICES ASSUME ResumeReported
             PROVE  \/ /\ Head(reports).state = "Receiving"
                       /\ pc' = "Writing"
                       /\ base' = Head(reports).off /\ next' = Head(reports).off
                       /\ timeouts' = 0
                       /\ DrainReplies
                       /\ UNCHANGED <<reason, down>>
                    \/ /\ Fail("reported")
                       /\ reports' = Tail(reports)
                       /\ UNCHANGED <<base, next, timeouts, opReplies, writeReplies>>
                    \/ /\ pc' = "Restarting"
                       /\ Send(Set("Begin"))
                       /\ reports' = Tail(reports)
                       /\ UNCHANGED <<reason, base, next, timeouts, opReplies, writeReplies>>
  BY DEF ResumeReported
<1>1. "Receiving" # "Error"
  OBVIOUS
<1>2. CASE Head(reports).state = "Receiving"
  BY <1>1, <1>2, Zenon DEF ResumeReported
<1>3. CASE Head(reports).state # "Receiving" /\ Head(reports).state = "Error"
  BY <1>1, <1>3, Zenon DEF ResumeReported
<1>4. CASE Head(reports).state # "Receiving" /\ Head(reports).state # "Error"
  BY <1>1, <1>4, Zenon DEF ResumeReported
<1> QED
  BY <1>2, <1>3, <1>4

-----------------------------------------------------------------------------
(* The steps of the node.                                                  *)

(* What a request finds: only a Begin takes something out of the slot, and *)
(* only a chunk leaves something on an empty node.                         *)
LEMMA ReceiveStep ==
    ASSUME TypeOK, Sound(n), NodeReceives
    PROVE  /\ Sound(n') /\ faults' \in 0..bounds.faults
           /\ faults' = 0 => faults = 0 /\ (Clean(n) => Clean(n'))
           /\ Head(down).op # "Begin" => Keeps(n, n')
           /\ \/ Keeps(n, n')
              \/ n.face = "Boot" /\ n'.face = "Boot" /\ n'.slot \in {n.slot, 0}
           /\ Head(down).op # "Write" /\ Blank(n) => Blank(n')
<1> DEFINE m == Head(down)
<1>1. m \in Requests /\ bounds.faults \in Nat /\ faults \in 0..bounds.faults
  BY HeadTailProperties, DriverConstants DEF TypeOK, NodeReceives
<1>2. n.face \in {"App", "Boot"}
  BY SlaveTypes DEF Sound
<1>3. CASE n.face = "App"
  <2>1. n' = AppReceive(n, m.op) /\ faults' = faults
    BY <1>3 DEF NodeReceives
  <2>2. Sound(n') /\ Keeps(n, n') /\ Blank(n') /\ (Clean(n) => Clean(n'))
    BY <1>3, <2>1, AppSound
  <2> QED
    BY <1>1, <2>1, <2>2
<1>4. CASE n.face = "Boot"
  <2>1. PICK bad \in 0..MaxStaged, limit \in 0..(Words - 1) :
            /\ Flash(Touches(m), bad)
            /\ n' = BootReceive(n, m, bad, limit)
    BY <1>4 DEF NodeReceives
  <2>2. bad \in Nat
    OBVIOUS
  <2>3. faults' = (IF bad = 0 THEN faults ELSE faults + 1) /\ faults' <= bounds.faults
    BY <2>1 DEF Flash
  <2>4. faults' \in 0..bounds.faults /\ (faults' = 0 => faults = 0 /\ bad = 0)
    BY <1>1, <2>3
  <2>5. /\ Sound(n')
        /\ bad = 0 /\ Clean(n) => Clean(n')
        /\ m.op # "Begin" => Keeps(n, n')
        /\ m.op = "Begin" => n'.face = "Boot" /\ n'.slot \in {n.slot, 0}
        /\ m.op # "Write" /\ Blank(n) => Blank(n')
    BY <1>1, <1>4, <2>1, <2>2, ReceiveSound
  <2> QED
    BY <1>4, <2>4, <2>5
<1> QED
  BY <1>2, <1>3, <1>4

(* What a Poll of the bootloader finds.                                    *)
LEMMA PollStep ==
    ASSUME TypeOK, Sound(n), BootIsPolled
    PROVE  \E told \in Seq(Answers) :
               /\ up' = up \o told /\ Len(up) + Len(told) <= MaxUp
               /\ Sound(n') /\ Keeps(n, n') /\ faults' \in 0..bounds.faults
               /\ faults' = 0 => faults = 0
               /\ faults' = 0 /\ Clean(n) =>
                      Clean(n') /\ told \in Seq(NoFailure \cup OpReplies \cup Reports)
               /\ Blank(n) => Blank(n') /\ told \in Seq(OpReplies \cup HonestReports(n'.slot))
               /\ n.replies \in Seq(Honest(n.slot)) =>
                      told \in Seq(Honest(n'.slot) \cup OpReplies \cup Reports)
<1>1. PICK bad \in 0..MaxStaged, limit \in 0..(Words - 1) :
          LET programmed == CommitStagedWrites(n, bad, limit)
          IN  /\ Flash(Len(n.staged), bad)
              /\ Len(up) + Len(BootReplies(programmed)) <= MaxUp
              /\ up' = up \o BootReplies(programmed)
              /\ n' = BootPolled(programmed)
  BY DEF BootIsPolled
<1> DEFINE c == CommitStagedWrites(n, bad, limit)
           told == BootReplies(c)
<1>2. bounds.faults \in Nat /\ faults \in 0..bounds.faults
  BY DriverConstants DEF TypeOK
<1>3. bad \in Nat /\ faults' = (IF bad = 0 THEN faults ELSE faults + 1)
      /\ faults' <= bounds.faults
  BY <1>1 DEF Flash
<1>4. faults' \in 0..bounds.faults /\ (faults' = 0 => faults = 0 /\ bad = 0)
  BY <1>2, <1>3
<1>5. n.face = "Boot" /\ n \in Slaves /\ Aligned(n)
  BY DEF BootIsPolled, Sound
<1>6. Committed(n, c) /\ (bad = 0 /\ Clean(n) => Clean(c))
  BY <1>3, <1>5, CommitsTaken
<1>7. /\ up' = up \o told /\ Len(up) + Len(told) <= MaxUp
      /\ n' = BootPolled(c)
  BY <1>1
<1> HIDE DEF c
<1>8. Sound(c) /\ Keeps(n, c) /\ c.face = "Boot" /\ c \in Slaves
  BY <1>5, <1>6, CommittedSound DEF Committed
<1>9. /\ Sound(n') /\ Keeps(c, n') /\ n'.slot = c.slot /\ n'.face = "Boot"
      /\ n'.replies = <<>> /\ n'.staged = c.staged
      /\ Clean(c) => Clean(n')
  BY <1>7, <1>8, PolledSound
<1>10. Report(c.state, c.expected) \in HonestReports(c.slot)
  <2>1. /\ c.state \in States /\ c.expected \in Offsets /\ c.slot \in Int
        /\ c.expected \in Nat /\ c.partial \in Nat
    BY <1>8, SlaveTypes DEF Offsets
  <2>2. c.expected * Words \in Nat
    BY <2>1, WholeChunks
  <2>3. c.state = "Receiving" => Stored(c.expected, c.slot)
    BY <1>8, <2>1, <2>2 DEF Sound, Aligned, Stored
  <2>4. Report(c.state, c.expected) \in Reports
    BY <2>1, ReplyTypes
  <2> QED
    BY <2>3, <2>4 DEF HonestReports, Report
<1>11. ASSUME NEW R, c.replies \in Seq(R), OpReplies \subseteq R,
              HonestReports(c.slot) \subseteq R
       PROVE  told \in Seq(R)
  BY <1>8, <1>10, <1>11, RepliesType
<1> HIDE DEF told
<1>12. told \in Seq(Answers)
  <2>1. c.replies \in Seq(WriteReplies) /\ WriteReplies \subseteq Answers
    BY <1>8, SlaveTypes DEF Answers
  <2>2. c.replies \in Seq(Answers)
    BY <2>1, SeqMonotonic
  <2>3. OpReplies \subseteq Answers /\ HonestReports(c.slot) \subseteq Answers
    BY DEF Answers, HonestReports
  <2> QED
    BY <1>11, <2>2, <2>3
<1>13. faults' = 0 /\ Clean(n) =>
           Clean(n') /\ told \in Seq(NoFailure \cup OpReplies \cup Reports)
  <2> DEFINE R == NoFailure \cup OpReplies \cup Reports
  <2> SUFFICES ASSUME faults' = 0, Clean(n) PROVE Clean(n') /\ told \in Seq(R)
    OBVIOUS
  <2>1. Clean(c) /\ c.replies \in Seq(NoFailure)
    BY <1>4, <1>6 DEF Clean
  <2>2. c.replies \in Seq(R)
    BY <2>1, SeqMonotonic
  <2>3. OpReplies \subseteq R /\ HonestReports(c.slot) \subseteq R
    BY DEF HonestReports
  <2> HIDE DEF R
  <2> QED
    BY <1>9, <1>11, <2>1, <2>2, <2>3
<1>14. Blank(n) => Blank(n') /\ told \in Seq(OpReplies \cup HonestReports(n'.slot))
  <2> DEFINE R == OpReplies \cup HonestReports(c.slot)
  <2> SUFFICES ASSUME Blank(n) PROVE Blank(n') /\ told \in Seq(R)
    BY <1>9
  <2>1. c = n /\ c.replies = <<>> /\ c.staged = <<>>
    BY <1>6 DEF Committed, Blank
  <2>2. c.replies \in Seq(R)
    BY <2>1, EmptySeq
  <2>3. OpReplies \subseteq R /\ HonestReports(c.slot) \subseteq R
    OBVIOUS
  <2> HIDE DEF R
  <2> QED
    BY <1>9, <1>11, <2>1, <2>2, <2>3 DEF Blank
<1>15. n.replies \in Seq(Honest(n.slot)) =>
           told \in Seq(Honest(n'.slot) \cup OpReplies \cup Reports)
  <2> DEFINE R == Honest(c.slot) \cup OpReplies \cup Reports
  <2> SUFFICES ASSUME n.replies \in Seq(Honest(n.slot)) PROVE told \in Seq(R)
    BY <1>9
  <2>1. c.replies \in Seq(Honest(c.slot))
    BY <1>6 DEF Committed
  <2>2. c.replies \in Seq(R)
    BY <2>1, SeqMonotonic
  <2>3. OpReplies \subseteq R /\ HonestReports(c.slot) \subseteq R
    BY DEF HonestReports
  <2> HIDE DEF R
  <2> QED
    BY <1>11, <2>2, <2>3
<1>16. Keeps(n, n')
  BY <1>5, <1>8, <1>9, EmptySeq DEF Keeps, Moves
<1> QED
  BY <1>4, <1>7, <1>9, <1>12, <1>13, <1>14, <1>15, <1>16

-----------------------------------------------------------------------------
(* The type invariant.                                                     *)

(* What the conditions of a push allow.                                    *)
LEMMA BoundsType ==
    ASSUME TypeOK
    PROVE  /\ bounds \in Conditions
           /\ bounds.losses \in Nat /\ bounds.restarts \in Nat /\ bounds.faults \in Nat
           /\ bounds.room \in Nat \ {0} /\ bounds.resumes \in Nat
           /\ bounds.patient \in BOOLEAN
BY DriverConstants DEF TypeOK

(* What is sent is sent last, or not at all.                               *)
LEMMA SendType ==
    ASSUME TypeOK, NEW m \in Requests, Send(m)
    PROVE  down' \in Seq(Requests) /\ Len(down') <= bounds.room
<1>1. down \in Seq(Requests) /\ Len(down) <= bounds.room /\ bounds.room \in Nat
  BY BoundsType DEF TypeOK
<1>2. CASE CanSend
  <2>1. down' = Append(down, m)
    BY <1>2 DEF Send
  <2>2. /\ Append(down, m) \in Seq(Requests) /\ Len(Append(down, m)) = Len(down) + 1
        /\ Len(down) \in Nat
    BY <1>1, AppendProperties, LenProperties
  <2> QED
    BY <1>1, <1>2, <2>1, <2>2 DEF CanSend
<1>3. CASE ~CanSend
  BY <1>1, <1>3 DEF Send
<1> QED
  BY <1>2, <1>3

(* A channel takes what it has room for.                                   *)
LEMMA OfferType ==
    ASSUME NEW R, NEW s \in Seq(R), NEW m \in R, NEW cap \in Nat, Len(s) <= cap
    PROVE  Offer(s, cap, m) \in Seq(R) /\ Len(Offer(s, cap, m)) <= cap
<1>1. /\ Append(s, m) \in Seq(R) /\ Len(Append(s, m)) = Len(s) + 1 /\ Len(s) \in Nat
  BY AppendProperties, LenProperties
<1> QED
  BY <1>1 DEF Offer

(* What is read is gone.                                                   *)
LEMMA TailType ==
    ASSUME NEW R, NEW s \in Seq(R), s # <<>>
    PROVE  /\ Head(s) \in R /\ Tail(s) \in Seq(R)
           /\ \A k \in Int : Len(s) <= k => Len(Tail(s)) <= k
<1>1. Len(s) \in Nat /\ Len(Tail(s)) = Len(s) - 1 /\ Head(s) \in R /\ Tail(s) \in Seq(R)
  BY HeadTailProperties, LenProperties
<1> QED
  BY <1>1

(* What the driver sends is a request.                                     *)
LEMMA SimpleRequests ==
    /\ \A op \in Simple : Set(op) \in Requests /\ Set(op).op = op
    /\ Get \in Requests /\ Get.op = "Get"
    /\ \A o \in 0..(Chunks - 1) : Write(o) \in Requests /\ Write(o).op = "Write"
BY DEF Requests, Set, Get, Write, Simple

(* Ranges that hold whatever the driver does.                              *)
DriverOK ==
    /\ pc \in Waiting \cup Over \cup {"Writing"}
    /\ reason \in Reasons
    /\ base \in Offsets /\ next \in Offsets
    /\ held \in BOOLEAN
    /\ timeouts \in 0..(Retries + 1)
    /\ resumes \in 0..bounds.resumes
    /\ probes \in 0..(StepProbes + ReenterAfter)

ChannelsOK ==
    /\ reports \in Seq(Reports) /\ Len(reports) <= ReportCap
    /\ opReplies \in Seq(OpReplies) /\ Len(opReplies) <= OpCap
    /\ writeReplies \in Seq(WriteReplies) /\ Len(writeReplies) <= WriteCap

MishapsOK ==
    /\ bounds \in Conditions
    /\ losses \in 0..bounds.losses
    /\ restarts \in 0..bounds.restarts
    /\ faults \in 0..bounds.faults

DownOK == down \in Seq(Requests) /\ Len(down) <= bounds.room
UpOK   == up \in Seq(Answers) /\ Len(up) <= MaxUp

(* The type invariant is made of these ranges.                             *)
LEMMA TypeParts ==
    /\ TypeOK <=> /\ n \in Slaves /\ verified \in BOOLEAN /\ DownOK /\ UpOK
                  /\ DriverOK /\ ChannelsOK /\ MishapsOK
    /\ TypeOK' <=> /\ n' \in Slaves /\ verified' \in BOOLEAN /\ DownOK' /\ UpOK'
                   /\ DriverOK' /\ ChannelsOK' /\ MishapsOK'
BY DEF TypeOK, Slaves, DownOK, UpOK, DriverOK, ChannelsOK, MishapsOK

(* What a step leaves alone stays in its range.                            *)
LEMMA PartsStay ==
    ASSUME TypeOK
    PROVE  /\ NodeUnchanged /\ UNCHANGED bounds => n' \in Slaves /\ verified' \in BOOLEAN
           /\ UNCHANGED <<down, bounds>> => DownOK'
           /\ UNCHANGED up => UpOK'
           /\ UNCHANGED <<pc, reason, position, counters, bounds>> => DriverOK'
           /\ UNCHANGED channels => ChannelsOK'
           /\ UNCHANGED mishaps => MishapsOK' /\ UNCHANGED bounds
<1> USE TypeParts
<1>1. NodeUnchanged => n' \in Slaves /\ verified' \in BOOLEAN
  BY DEF NodeUnchanged
<1>2. UNCHANGED <<down, bounds>> => DownOK'
  BY DEF DownOK
<1>3. UNCHANGED up => UpOK'
  BY DEF UpOK
<1>4. UNCHANGED <<pc, reason, position, counters, bounds>> => DriverOK'
  BY DEF DriverOK, position, counters
<1>5. UNCHANGED channels => ChannelsOK'
  BY DEF ChannelsOK, channels
<1>6. UNCHANGED mishaps => MishapsOK' /\ UNCHANGED bounds
  BY DEF MishapsOK, mishaps
<1> QED
  BY <1>1, <1>2, <1>3, <1>4, <1>5, <1>6

(* The node's part of the type invariant, and of Sound.                    *)
LEMMA NodeTypes ==
    ASSUME TypeOK, Sound(n), Node \/ Mishap
    PROVE  TypeOK' /\ Sound(n')
<1> USE DEF Node, Mishap
<1>1. bounds.losses \in Nat /\ bounds.restarts \in Nat /\ bounds.room \in Nat
  BY BoundsType
<1>2. CASE NodeReceives
  <2>1. Sound(n') /\ faults' \in 0..bounds.faults
    BY <1>2, ReceiveStep
  <2>2. DownOK'
    <3>1. down # <<>> /\ down' = Tail(down) /\ bounds' = bounds
      BY <1>2 DEF NodeReceives
    <3>2. down \in Seq(Requests) /\ Len(down) <= bounds.room
      BY DEF TypeOK
    <3>3. Tail(down) \in Seq(Requests) /\ Len(Tail(down)) <= bounds.room
      BY <1>1, <3>1, <3>2, TailType
    <3> QED
      BY <3>1, <3>3 DEF DownOK
  <2>3. verified' \in BOOLEAN /\ UNCHANGED <<up, bounds, losses, restarts>> /\ DriverUnchanged
    BY <1>2 DEF NodeReceives, Recorded, TypeOK
  <2>4. MishapsOK'
    BY <2>1, <2>3 DEF TypeOK, MishapsOK
  <2>5. UpOK' /\ DriverOK' /\ ChannelsOK'
    BY <2>3, PartsStay DEF DriverUnchanged
  <2>6. n' \in Slaves
    BY <2>1 DEF Sound
  <2> QED
    BY <2>1, <2>2, <2>3, <2>4, <2>5, <2>6, TypeParts
<1>3. CASE AppIsPolled
  <2>1. Sound(n')
    BY <1>3, AppSound DEF AppIsPolled
  <2>2. UpOK'
    <3>1. n.out \in Seq(OpReplies) /\ up \in Seq(Answers) /\ OpReplies \subseteq Answers
      BY DEF TypeOK, SlaveNodes, Answers
    <3>2. n.out \in Seq(Answers)
      BY <3>1, SeqMonotonic
    <3>3. up \o n.out \in Seq(Answers) /\ Len(up \o n.out) = Len(up) + Len(n.out)
      BY <3>1, <3>2, ConcatProperties
    <3> QED
      BY <1>3, <3>3 DEF AppIsPolled, UpOK
  <2>3. verified' \in BOOLEAN /\ UNCHANGED <<down, mishaps>> /\ DriverUnchanged
    BY <1>3 DEF AppIsPolled, Recorded, TypeOK
  <2>4. DownOK' /\ DriverOK' /\ ChannelsOK' /\ MishapsOK'
    BY <2>3, PartsStay DEF DriverUnchanged
  <2>5. n' \in Slaves
    BY <2>1 DEF Sound
  <2> QED
    BY <2>1, <2>2, <2>3, <2>4, <2>5, TypeParts
<1>4. CASE BootIsPolled
  <2>1. PICK told \in Seq(Answers) :
            /\ up' = up \o told /\ Len(up) + Len(told) <= MaxUp
            /\ Sound(n') /\ faults' \in 0..bounds.faults
    BY <1>4, PollStep
  <2>2. UpOK'
    <3>1. up \in Seq(Answers)
      BY DEF TypeOK
    <3>2. up \o told \in Seq(Answers) /\ Len(up \o told) = Len(up) + Len(told)
      BY <3>1, ConcatProperties
    <3> QED
      BY <2>1, <3>2 DEF UpOK
  <2>3. verified' \in BOOLEAN /\ UNCHANGED <<down, bounds, losses, restarts>> /\ DriverUnchanged
    BY <1>4 DEF BootIsPolled, Recorded, TypeOK
  <2>4. MishapsOK'
    BY <2>1, <2>3 DEF TypeOK, MishapsOK
  <2>5. DownOK' /\ DriverOK' /\ ChannelsOK'
    BY <2>3, PartsStay DEF DriverUnchanged
  <2>6. n' \in Slaves
    BY <2>1 DEF Sound
  <2> QED
    BY <2>1, <2>2, <2>3, <2>4, <2>5, <2>6, TypeParts
<1>5. CASE LoseRequest
  <2>1. /\ losses < bounds.losses /\ losses' = losses + 1
        /\ UNCHANGED <<up, bounds, restarts, faults>> /\ NodeUnchanged /\ DriverUnchanged
    BY <1>5 DEF LoseRequest
  <2>2. DownOK'
    <3>1. down # <<>> /\ down' = Tail(down) /\ bounds' = bounds
      BY <1>5 DEF LoseRequest
    <3>2. down \in Seq(Requests) /\ Len(down) <= bounds.room
      BY DEF TypeOK
    <3>3. Tail(down) \in Seq(Requests) /\ Len(Tail(down)) <= bounds.room
      BY <1>1, <3>1, <3>2, TailType
    <3> QED
      BY <3>1, <3>3 DEF DownOK
  <2>3. MishapsOK'
    BY <1>1, <2>1 DEF TypeOK, MishapsOK
  <2>4. n' \in Slaves /\ verified' \in BOOLEAN /\ UpOK' /\ DriverOK' /\ ChannelsOK'
    BY <2>1, PartsStay DEF DriverUnchanged
  <2> QED
    BY <2>1, <2>2, <2>3, <2>4, TypeParts DEF NodeUnchanged
<1>6. CASE LoseAnswer
  <2>1. /\ losses < bounds.losses /\ losses' = losses + 1
        /\ UNCHANGED <<down, bounds, restarts, faults>> /\ NodeUnchanged /\ DriverUnchanged
    BY <1>6 DEF LoseAnswer
  <2>2. UpOK'
    <3>1. up # <<>> /\ up' = Tail(up) /\ up \in Seq(Answers) /\ Len(up) <= MaxUp /\ MaxUp \in Int
      BY <1>6, DriverConstants DEF LoseAnswer, TypeOK
    <3>2. Tail(up) \in Seq(Answers) /\ Len(Tail(up)) <= MaxUp
      BY <3>1, TailType
    <3> QED
      BY <3>1, <3>2 DEF UpOK
  <2>3. MishapsOK'
    BY <1>1, <2>1 DEF TypeOK, MishapsOK
  <2>4. n' \in Slaves /\ verified' \in BOOLEAN /\ DownOK' /\ DriverOK' /\ ChannelsOK'
    BY <2>1, PartsStay DEF DriverUnchanged
  <2> QED
    BY <2>1, <2>2, <2>3, <2>4, TypeParts DEF NodeUnchanged
<1>7. CASE PowerCut
  <2>1. Sound(n')
    BY <1>7, BootSound DEF PowerCut
  <2>2. /\ restarts < bounds.restarts /\ restarts' = restarts + 1 /\ verified' \in BOOLEAN
        /\ UNCHANGED <<link, bounds, losses, faults>> /\ DriverUnchanged
    BY <1>7 DEF PowerCut, Recorded, TypeOK
  <2>3. MishapsOK'
    BY <1>1, <2>2 DEF TypeOK, MishapsOK
  <2>4. UpOK' /\ DownOK' /\ DriverOK' /\ ChannelsOK'
    BY <2>2, PartsStay DEF DriverUnchanged, link
  <2>5. n' \in Slaves
    BY <2>1 DEF Sound
  <2> QED
    BY <2>1, <2>2, <2>3, <2>4, <2>5, TypeParts
<1> QED
  BY <1>2, <1>3, <1>4, <1>5, <1>6, <1>7

(* What the driver says and does next, when its job fails.                 *)
LEMMA FailTypes ==
    ASSUME TypeOK, NEW why \in Reasons, Fail(why), UNCHANGED bounds
    PROVE  DownOK' /\ pc' = "Error" /\ reason' \in Reasons
<1>1. Set("Abort") \in Requests
  BY SimpleRequests DEF Simple
<1>2. CASE pc = "Entering"
  BY <1>2 DEF Fail, DownOK, TypeOK
<1>3. CASE pc # "Entering"
  BY <1>1, <1>3, SendType DEF Fail, DownOK
<1> QED
  BY <1>2, <1>3 DEF Fail

(* A send, in a step that leaves bounds alone.                             *)
LEMMA SendKeeps ==
    ASSUME TypeOK, NEW m \in Requests, UNCHANGED bounds, Send(m)
    PROVE  DownOK'
BY SendType DEF DownOK

(* Reading one channel, the others unchanged or emptied.                   *)
LEMMA ChannelsRead ==
    ASSUME TypeOK,
           \/ reports' = reports
           \/ reports # <<>> /\ reports' = Tail(reports)
           \/ reports' = <<>>,
           \/ opReplies' = opReplies
           \/ opReplies # <<>> /\ opReplies' = Tail(opReplies)
           \/ opReplies' = <<>>,
           \/ writeReplies' = writeReplies
           \/ writeReplies # <<>> /\ writeReplies' = Tail(writeReplies)
           \/ writeReplies' = <<>>
    PROVE  ChannelsOK'
<1>1. /\ ReportCap \in Nat /\ OpCap \in Nat /\ WriteCap \in Nat
      /\ ChannelsOK
  BY DriverConstants DEF TypeOK, ChannelsOK
<1>2. \A R : <<>> \in Seq(R) /\ Len(<<>>) = 0
  BY EmptySeq
<1>3. reports' \in Seq(Reports) /\ Len(reports') <= ReportCap
  <2>1. CASE reports # <<>> /\ reports' = Tail(reports)
    BY <1>1, <2>1, TailType DEF ChannelsOK
  <2>2. CASE reports' = reports
    BY <1>1, <2>2 DEF ChannelsOK
  <2>3. CASE reports' = <<>>
    BY <1>1, <1>2, <2>3
  <2> QED
    BY <2>1, <2>2, <2>3
<1>4. opReplies' \in Seq(OpReplies) /\ Len(opReplies') <= OpCap
  <2>1. CASE opReplies # <<>> /\ opReplies' = Tail(opReplies)
    BY <1>1, <2>1, TailType DEF ChannelsOK
  <2>2. CASE opReplies' = opReplies
    BY <1>1, <2>2 DEF ChannelsOK
  <2>3. CASE opReplies' = <<>>
    BY <1>1, <1>2, <2>3
  <2> QED
    BY <2>1, <2>2, <2>3
<1>5. writeReplies' \in Seq(WriteReplies) /\ Len(writeReplies') <= WriteCap
  <2>1. CASE writeReplies # <<>> /\ writeReplies' = Tail(writeReplies)
    BY <1>1, <2>1, TailType DEF ChannelsOK
  <2>2. CASE writeReplies' = writeReplies
    BY <1>1, <2>2 DEF ChannelsOK
  <2>3. CASE writeReplies' = <<>>
    BY <1>1, <1>2, <2>3
  <2> QED
    BY <2>1, <2>2, <2>3
<1> QED
  BY <1>3, <1>4, <1>5 DEF ChannelsOK

(* The driver's part of the type invariant.                                *)
LEMMA ReadingTypes ==
    ASSUME TypeOK, Reading
    PROVE  TypeOK' /\ NodeUnchanged
<1> USE DEF Reading
<1>0. /\ DriverOK /\ ChannelsOK
      /\ 0 \in Offsets /\ 0 \in 0..(Retries + 1) /\ 0 \in 0..(StepProbes + ReenterAfter)
      /\ Chunks \in Nat \ {0}
  BY TypeParts, SlaveConstants, DriverConstants DEF Offsets
<1>1. CASE AnswerArrives
  <2>1. up # <<>> /\ up' = Tail(up) /\ up \in Seq(Answers) /\ Len(up) <= MaxUp /\ MaxUp \in Int
    BY <1>1, DriverConstants DEF AnswerArrives, TypeOK
  <2>2. Head(up) \in Answers /\ Tail(up) \in Seq(Answers) /\ Len(Tail(up)) <= MaxUp
    BY <2>1, TailType
  <2>3. UpOK'
    BY <2>1, <2>2 DEF UpOK
  <2> DEFINE m == Head(up)
  <2>4. /\ m.op = "Report" => m \in Reports
        /\ m.op \in {"OpAck", "OpNack"} => m \in OpReplies
        /\ m.op \in {"WriteAck", "WriteNack"} => m \in WriteReplies
    BY <2>2 DEF Answers, Reports, OpReplies, WriteReplies, Report, OpReply,
                WriteAck, WriteNack
  <2>5. /\ reports' = IF m.op = "Report" THEN Offer(reports, ReportCap, m) ELSE reports
        /\ opReplies' = IF m.op \in {"OpAck", "OpNack"}
                        THEN Offer(opReplies, OpCap, m) ELSE opReplies
        /\ writeReplies' = IF m.op \in {"WriteAck", "WriteNack"}
                           THEN Offer(writeReplies, WriteCap, m) ELSE writeReplies
    BY <1>1 DEF AnswerArrives
  <2>6. ReportCap \in Nat /\ OpCap \in Nat /\ WriteCap \in Nat
    BY DriverConstants
  <2> HIDE DEF m
  <2>7. ChannelsOK'
    <3>1. reports' \in Seq(Reports) /\ Len(reports') <= ReportCap
      BY <1>0, <2>4, <2>5, <2>6, OfferType DEF ChannelsOK
    <3>2. opReplies' \in Seq(OpReplies) /\ Len(opReplies') <= OpCap
      BY <1>0, <2>4, <2>5, <2>6, OfferType DEF ChannelsOK
    <3>3. writeReplies' \in Seq(WriteReplies) /\ Len(writeReplies') <= WriteCap
      BY <1>0, <2>4, <2>5, <2>6, OfferType DEF ChannelsOK
    <3> QED
      BY <3>1, <3>2, <3>3 DEF ChannelsOK
  <2>8. NodeUnchanged /\ UNCHANGED <<down, pc, reason, position, counters, mishaps>>
    BY <1>1 DEF AnswerArrives
  <2> QED
    BY <2>3, <2>7, <2>8, PartsStay, TypeParts
<1>2. CASE BootloaderAnswers
  <2>1. /\ NodeUnchanged /\ reports # <<>> /\ reports' = Tail(reports)
        /\ UNCHANGED <<up, reason, position, timeouts, resumes, opReplies,
                       writeReplies, mishaps>>
        /\ Send(Set("Begin")) /\ probes' = 0 /\ pc' \in {"Beginning", "Restarting"}
    BY <1>2 DEF BootloaderAnswers
  <2>2. DownOK'
    <3>1. Set("Begin") \in Requests
      BY SimpleRequests DEF Simple
    <3> QED
      BY <2>1, <3>1, SendKeeps DEF mishaps
  <2>3. ChannelsOK'
    BY <2>1, ChannelsRead
  <2>4. DriverOK'
    BY <1>0, <2>1 DEF DriverOK, position, mishaps, Waiting
  <2> QED
    BY <2>1, <2>2, <2>3, <2>4, PartsStay, TypeParts
<1>3. CASE StepReported \/ StepAnswered
  <2>1. /\ NodeUnchanged /\ UNCHANGED <<up, resumes, mishaps>>
        /\ pc \in {"Beginning", "Restarting", "Verifying"}
        /\ \/ Settled /\ UNCHANGED reason
           \/ Fail("reported") /\ UNCHANGED <<position, timeouts, probes>>
           \/ UNCHANGED <<pc, reason, down, position, timeouts, probes>>
    BY <1>3, StepReportedCases DEF StepAnswered
  <2>2. ChannelsOK'
    <3>1. /\ \/ reports' = reports
             \/ reports # <<>> /\ reports' = Tail(reports)
             \/ reports' = <<>>
          /\ \/ opReplies' = opReplies
             \/ opReplies # <<>> /\ opReplies' = Tail(opReplies)
             \/ opReplies' = <<>>
          /\ writeReplies' = writeReplies \/ writeReplies' = <<>>
      <4>1. CASE StepReported
        BY <4>1, StepReportedCases DEF LeftOver
      <4>2. CASE StepAnswered
        BY <4>2 DEF StepAnswered, LeftOver
      <4> QED
        BY <1>3, <4>1, <4>2
    <3> QED
      BY <3>1, ChannelsRead
  <2>3. CASE Settled /\ UNCHANGED reason
    <3>1. DownOK'
      <4>1. Set("Activate") \in Requests
        BY SimpleRequests DEF Simple
      <4>2. UNCHANGED down \/ Send(Set("Activate"))
        BY <2>1, <2>3, SettledCases
      <4>3. UNCHANGED bounds
        BY <2>1 DEF mishaps
      <4> QED
        BY <4>1, <4>2, <4>3, SendKeeps, PartsStay
    <3>2. DriverOK'
      BY <1>0, <2>1, <2>3, SettledCases DEF DriverOK, position, mishaps, Over
    <3> QED
      BY <2>1, <2>2, <3>1, <3>2, PartsStay, TypeParts
  <2>4. CASE Fail("reported") /\ UNCHANGED <<position, timeouts, probes>>
    <3>1. DownOK' /\ pc' = "Error" /\ reason' \in Reasons
      BY <2>1, <2>4, FailTypes DEF mishaps, Reasons
    <3>2. DriverOK'
      BY <1>0, <2>1, <2>4, <3>1 DEF DriverOK, position, mishaps, Over
    <3> QED
      BY <2>1, <2>2, <3>1, <3>2, PartsStay, TypeParts
  <2>5. CASE UNCHANGED <<pc, reason, down, position, timeouts, probes>>
    <3>1. DriverOK' /\ DownOK'
      BY <2>1, <2>5, PartsStay DEF counters, mishaps
    <3> QED
      BY <2>1, <2>2, <3>1, PartsStay, TypeParts
  <2> QED
    BY <2>1, <2>3, <2>4, <2>5
<1>4. CASE SendChunk
  <2>1. /\ NodeUnchanged /\ next < Chunks /\ Send(Write(next)) /\ next' = next + 1
        /\ UNCHANGED <<up, pc, reason, base, held, counters, channels, mishaps>>
    BY <1>4 DEF SendChunk, WindowOpen
  <2>2. next \in 0..(Chunks - 1) /\ next' \in Offsets
    BY <1>0, <2>1 DEF DriverOK, Offsets
  <2>3. DownOK'
    BY <2>1, <2>2, SimpleRequests, SendKeeps DEF mishaps
  <2>4. DriverOK'
    BY <1>0, <2>1, <2>2 DEF DriverOK, counters, mishaps
  <2> QED
    BY <2>1, <2>3, <2>4, PartsStay, TypeParts
<1>5. CASE ChunkAnswered
  <2> DEFINE r == Head(writeReplies)
  <2>1. /\ NodeUnchanged /\ writeReplies # <<>> /\ writeReplies' = Tail(writeReplies)
        /\ UNCHANGED <<up, resumes, probes, reports, opReplies, mishaps>>
        /\ \/ r.off \in base..(next - 1) /\ base' = r.off + 1 /\ timeouts' = 0
              /\ UNCHANGED <<next, held, pc, reason, down>>
           \/ UNCHANGED <<position, timeouts, pc, reason, down>>
           \/ base' = r.off /\ next' = r.off /\ held' = TRUE
              /\ UNCHANGED <<timeouts, pc, reason, down>>
           \/ Fail("program") /\ UNCHANGED <<position, timeouts>>
    BY <1>5 DEF ChunkAnswered
  <2>2. ChannelsOK'
    BY <2>1, ChannelsRead
  <2>3. r.off \in Offsets
    <3>1. r \in WriteReplies
      BY <1>0, <2>1, TailType DEF ChannelsOK
    <3> HIDE DEF r
    <3> QED
      BY <3>1 DEF WriteReplies, WriteAck, WriteNack
  <2> HIDE DEF r
  <2>4. CASE /\ r.off \in base..(next - 1) /\ base' = r.off + 1 /\ timeouts' = 0
             /\ UNCHANGED <<next, held, pc, reason, down>>
    <3>1. base' \in Offsets
      BY <1>0, <2>4 DEF DriverOK, Offsets
    <3>2. DriverOK' /\ DownOK'
      BY <1>0, <2>1, <2>4, <3>1, PartsStay DEF DriverOK, mishaps
    <3> QED
      BY <2>1, <2>2, <3>2, PartsStay, TypeParts
  <2>5. CASE UNCHANGED <<position, timeouts, pc, reason, down>>
    <3>1. DriverOK' /\ DownOK'
      BY <2>1, <2>5, PartsStay DEF counters, mishaps
    <3> QED
      BY <2>1, <2>2, <3>1, PartsStay, TypeParts
  <2>6. CASE /\ base' = r.off /\ next' = r.off /\ held' = TRUE
             /\ UNCHANGED <<timeouts, pc, reason, down>>
    <3>1. DriverOK' /\ DownOK'
      BY <1>0, <2>1, <2>3, <2>6, PartsStay DEF DriverOK, mishaps
    <3> QED
      BY <2>1, <2>2, <3>1, PartsStay, TypeParts
  <2>7. CASE Fail("program") /\ UNCHANGED <<position, timeouts>>
    <3>1. DownOK' /\ pc' = "Error" /\ reason' \in Reasons
      BY <2>1, <2>7, FailTypes DEF mishaps, Reasons
    <3>2. DriverOK'
      BY <1>0, <2>1, <2>7, <3>1 DEF DriverOK, position, mishaps, Over
    <3> QED
      BY <2>1, <2>2, <3>1, <3>2, PartsStay, TypeParts
  <2> QED
    BY <2>1, <2>4, <2>5, <2>6, <2>7
<1>6. CASE SendEnd
  <2>1. /\ NodeUnchanged /\ Send(Set("End")) /\ pc' = "Verifying"
        /\ UNCHANGED <<up, reason, position, counters, channels, mishaps>>
    BY <1>6 DEF SendEnd
  <2>2. DownOK'
    <3>1. Set("End") \in Requests
      BY SimpleRequests DEF Simple
    <3> QED
      BY <2>1, <3>1, SendKeeps DEF mishaps
  <2>3. DriverOK'
    BY <1>0, <2>1 DEF DriverOK, position, counters, mishaps, Waiting
  <2> QED
    BY <2>1, <2>2, <2>3, PartsStay, TypeParts
<1>7. CASE ResumeReported
  <2> DEFINE r == Head(reports)
  <2>1. /\ NodeUnchanged /\ reports # <<>> /\ probes' = 0
        /\ UNCHANGED <<up, held, resumes, mishaps>>
        /\ \/ /\ pc' = "Writing" /\ base' = r.off /\ next' = r.off /\ timeouts' = 0
              /\ DrainReplies /\ UNCHANGED <<reason, down>>
           \/ /\ Fail("reported") /\ reports' = Tail(reports)
              /\ UNCHANGED <<base, next, timeouts, opReplies, writeReplies>>
           \/ /\ pc' = "Restarting" /\ Send(Set("Begin")) /\ reports' = Tail(reports)
              /\ UNCHANGED <<reason, base, next, timeouts, opReplies, writeReplies>>
    BY <1>7, ResumeReportedCases
  <2>2. ChannelsOK'
    BY <2>1, ChannelsRead DEF DrainReplies
  <2>3. r.off \in Offsets
    <3>1. r \in Reports
      BY <1>0, <2>1, TailType DEF ChannelsOK
    <3> HIDE DEF r
    <3> QED
      BY <3>1 DEF Reports, Report
  <2> HIDE DEF r
  <2>4. CASE /\ pc' = "Writing" /\ base' = r.off /\ next' = r.off /\ timeouts' = 0
             /\ UNCHANGED <<reason, down>>
    <3>1. DriverOK' /\ DownOK'
      BY <1>0, <2>1, <2>3, <2>4, PartsStay DEF DriverOK, mishaps
    <3> QED
      BY <2>1, <2>2, <3>1, PartsStay, TypeParts
  <2>5. CASE Fail("reported") /\ UNCHANGED <<base, next, timeouts>>
    <3>1. DownOK' /\ pc' = "Error" /\ reason' \in Reasons
      BY <2>1, <2>5, FailTypes DEF mishaps, Reasons
    <3>2. DriverOK'
      BY <1>0, <2>1, <2>5, <3>1 DEF DriverOK, mishaps, Over
    <3> QED
      BY <2>1, <2>2, <3>1, <3>2, PartsStay, TypeParts
  <2>6. CASE pc' = "Restarting" /\ Send(Set("Begin")) /\ UNCHANGED <<reason, base, next, timeouts>>
    <3>1. DownOK'
      <4>1. Set("Begin") \in Requests
        BY SimpleRequests DEF Simple
      <4> QED
        BY <2>1, <2>6, <4>1, SendKeeps DEF mishaps
    <3>2. DriverOK'
      BY <1>0, <2>1, <2>6 DEF DriverOK, mishaps, Waiting
    <3> QED
      BY <2>1, <2>2, <3>1, <3>2, PartsStay, TypeParts
  <2> QED
    BY <2>1, <2>4, <2>5, <2>6
<1> QED
  BY <1>1, <1>2, <1>3, <1>4, <1>5, <1>6, <1>7

(* The timers' part of the type invariant.                                 *)
LEMMA TimersTypes ==
    ASSUME TypeOK, Timers
    PROVE  TypeOK' /\ NodeUnchanged
<1> USE DEF Timers
<1>0. /\ DriverOK /\ ChannelsOK
      /\ 0 \in Offsets /\ 0 \in 0..(Retries + 1) /\ 0 \in 0..(StepProbes + ReenterAfter)
      /\ bounds.resumes \in Nat /\ Retries \in Nat
      /\ StepProbes \in Nat /\ ReenterAfter \in Nat
      /\ Get \in Requests
  BY TypeParts, BoundsType, SlaveConstants, DriverConstants, SimpleRequests DEF Offsets
<1>1. CASE Probe
  <2>1. /\ NodeUnchanged /\ probes < StepProbes /\ probes' = probes + 1 /\ Send(Get)
        /\ UNCHANGED <<up, pc, reason, position, timeouts, resumes, channels, mishaps>>
    BY <1>1 DEF Probe
  <2>2. DownOK'
    BY <1>0, <2>1, SendKeeps DEF mishaps
  <2>3. DriverOK'
    BY <1>0, <2>1 DEF DriverOK, position, mishaps
  <2> QED
    BY <2>1, <2>2, <2>3, PartsStay, TypeParts
<1>2. CASE Deadline
  <2>1. /\ NodeUnchanged /\ Fail("timeout")
        /\ UNCHANGED <<up, position, counters, channels, mishaps>>
    BY <1>2 DEF Deadline
  <2>2. DownOK' /\ pc' = "Error" /\ reason' \in Reasons
    BY <2>1, FailTypes DEF mishaps, Reasons
  <2>3. DriverOK'
    BY <1>0, <2>1, <2>2 DEF DriverOK, position, counters, mishaps, Over
  <2> QED
    BY <2>1, <2>2, <2>3, PartsStay, TypeParts
<1>3. CASE Stall
  <2>1. NodeUnchanged /\ UNCHANGED <<up, base, held, mishaps>>
    BY <1>3 DEF Stall
  <2>2. CASE /\ timeouts < Retries /\ next' = base /\ timeouts' = timeouts + 1
             /\ UNCHANGED <<pc, reason, down, resumes, probes, channels>>
    <3>1. DownOK' /\ ChannelsOK' /\ DriverOK'
      BY <1>0, <2>1, <2>2, PartsStay DEF DriverOK, mishaps
    <3> QED
      BY <2>1, <3>1, PartsStay, TypeParts
  <2>3. CASE /\ timeouts = Retries /\ resumes < bounds.resumes /\ pc' = "Resuming"
             /\ resumes' = resumes + 1 /\ probes' = 0 /\ timeouts' = timeouts + 1
             /\ DrainReplies /\ UNCHANGED <<next, reason, down>>
    <3>1. ChannelsOK'
      BY <2>3, ChannelsRead DEF DrainReplies
    <3>2. DownOK' /\ DriverOK'
      BY <1>0, <2>1, <2>3, PartsStay DEF DriverOK, mishaps, Waiting
    <3> QED
      BY <2>1, <3>1, <3>2, PartsStay, TypeParts
  <2>4. CASE /\ timeouts = Retries /\ Fail("timeout") /\ timeouts' = timeouts + 1
             /\ UNCHANGED <<next, resumes, probes, channels>>
    <3>1. DownOK' /\ pc' = "Error" /\ reason' \in Reasons
      BY <2>1, <2>4, FailTypes DEF mishaps, Reasons
    <3>2. ChannelsOK' /\ DriverOK'
      BY <1>0, <2>1, <2>4, <3>1, PartsStay DEF DriverOK, mishaps, Over
    <3> QED
      BY <2>1, <3>1, <3>2, PartsStay, TypeParts
  <2> QED
    BY <1>3, <2>2, <2>3, <2>4 DEF Stall
<1>4. CASE ResumeProbe
  <2>1. /\ NodeUnchanged /\ CanSend
        /\ UNCHANGED <<up, reason, position, timeouts, resumes, channels, mishaps>>
    BY <1>4 DEF ResumeProbe
  <2>2. CASE probes + 1 < ReenterAfter
    <3>1. probes' = probes + 1 /\ Send(Get) /\ UNCHANGED pc
      BY <1>4, <2>2 DEF ResumeProbe
    <3>2. DownOK'
      BY <1>0, <2>1, <3>1, SendKeeps DEF mishaps
    <3>3. DriverOK'
      BY <1>0, <2>1, <2>2, <3>1 DEF DriverOK, position, mishaps
    <3> QED
      BY <2>1, <3>2, <3>3, PartsStay, TypeParts
  <2>3. CASE ~(probes + 1 < ReenterAfter)
    <3>1. /\ probes' = 0 /\ pc' = "Reentering"
          /\ down' = IF Len(down) + 1 < bounds.room
                     THEN down \o <<Get, Set("EnterBootloader")>>
                     ELSE Append(down, Get)
      BY <1>4, <2>3 DEF ResumeProbe
    <3>2. /\ down \in Seq(Requests) /\ Len(down) \in Nat /\ bounds.room \in Nat
          /\ Len(down) < bounds.room /\ Set("EnterBootloader") \in Requests
      BY <2>1, BoundsType, LenProperties, SimpleRequests DEF TypeOK, CanSend, Simple
    <3>3. /\ Append(down, Get) \in Seq(Requests) /\ Len(Append(down, Get)) = Len(down) + 1
      BY <1>0, <3>2, AppendProperties
    <3> DEFINE two == <<Get, Set("EnterBootloader")>>
    <3>4. two \in Seq(Requests) /\ Len(two) = 2
      BY <1>0, <3>2
    <3> HIDE DEF two
    <3>5. down \o two \in Seq(Requests) /\ Len(down \o two) = Len(down) + 2
      <4>1. down \o two \in Seq(Requests) /\ Len(down \o two) = Len(down) + Len(two)
        BY <3>2, <3>4, ConcatProperties
      <4> QED
        BY <3>4, <4>1
    <3>6. DownOK'
      BY <2>1, <3>1, <3>2, <3>3, <3>5 DEF DownOK, mishaps, two
    <3>7. DriverOK'
      BY <1>0, <2>1, <3>1 DEF DriverOK, position, mishaps, Waiting
    <3> QED
      BY <2>1, <3>6, <3>7, PartsStay, TypeParts
  <2> QED
    BY <2>2, <2>3
<1> QED
  BY <1>1, <1>2, <1>3, <1>4

(* The node and the driver start with nothing done.                        *)
LEMMA InitTypes == Init => TypeOK /\ Sound(n)
<1> SUFFICES ASSUME Init PROVE TypeOK /\ Sound(n)
  OBVIOUS
<1> USE SlaveConstants, DriverConstants
<1>1. Sound(n)
  <2>1. OldImage \in Slots /\ 0 \in Slots /\ IsValid(OldImage)
    BY WholeChunks DEF Slots, OldImage, IsValid
  <2> QED
    BY <2>1, StartedSound DEF Init
<1>2. DownOK
  <2>1. Set("EnterBootloader") \in Requests
    BY SimpleRequests DEF Simple
  <2>2. bounds.room \in Nat \ {0}
    BY DEF Init
  <2> DEFINE m == Set("EnterBootloader")
  <2>3. down = <<m>>
    BY DEF Init
  <2> HIDE DEF m
  <2>4. <<m>> \in Seq(Requests) /\ Len(<<m>>) = 1
    BY <2>1 DEF m
  <2> QED
    BY <2>2, <2>3, <2>4 DEF DownOK
<1>3. \A R : <<>> \in Seq(R) /\ Len(<<>>) = 0
  BY EmptySeq
<1>4. UpOK /\ ChannelsOK
  BY <1>3 DEF Init, UpOK, ChannelsOK
<1>5. DriverOK /\ MishapsOK
  <2>1. /\ bounds.losses \in Nat /\ bounds.restarts \in Nat /\ bounds.faults \in Nat
        /\ bounds.resumes \in Nat
    BY DEF Init
  <2>2. MishapsOK
    BY <2>1 DEF Init, MishapsOK
  <2>3. "Entering" \in Waiting /\ "none" \in Reasons /\ 0 \in Offsets
    BY DEF Waiting, Reasons, Offsets
  <2>4. /\ 0 \in 0..(Retries + 1) /\ 0 \in 0..bounds.resumes
        /\ 0 \in 0..(StepProbes + ReenterAfter)
    BY <2>1
  <2>5. /\ pc = "Entering" /\ reason = "none" /\ base = 0 /\ next = 0 /\ held = FALSE
        /\ timeouts = 0 /\ resumes = 0 /\ probes = 0
    BY DEF Init
  <2>6. DriverOK
    BY <2>3, <2>4, <2>5 DEF DriverOK
  <2> QED
    BY <2>2, <2>6
<1>6. n \in Slaves /\ verified \in BOOLEAN
  BY <1>1 DEF Init, Sound
<1> QED
  BY <1>1, <1>2, <1>4, <1>5, <1>6, TypeParts

(* Every step keeps the ranges, and the node sound.                        *)
LEMMA TypesKept ==
    ASSUME TypeOK, Sound(n), [Next]_vars
    PROVE  TypeOK' /\ Sound(n')
<1>1. CASE Node \/ Mishap
  BY <1>1, NodeTypes
<1>2. CASE Reading \/ Timers
  <2>1. TypeOK' /\ NodeUnchanged
    BY <1>2, ReadingTypes, TimersTypes
  <2> QED
    BY <2>1 DEF NodeUnchanged
<1>3. CASE UNCHANGED vars
  BY <1>3 DEF vars, link, position, counters, channels, mishaps, TypeOK
<1> QED
  BY <1>1, <1>2, <1>3 DEF Next

(* TypeOK and Sound(n) are the first part of the invariant.                *)
LEMMA NodeStaysSound == Spec => [](TypeOK /\ Sound(n))
<1>1. TypeOK /\ Sound(n) /\ [Next]_vars => (TypeOK /\ Sound(n))'
  BY TypesKept
<1> QED
  BY <1>1, InitTypes, PTL DEF Spec

(* Every variable of a push stays in its range, and every queue within its *)
(* capacity, for every window, queue and number of mishaps.                *)
THEOREM TypeCorrect == Spec => []TypeOK
BY NodeStaysSound, PTL

-----------------------------------------------------------------------------
(* What the node does to the link, in one lemma.                           *)

(* What steps of the node and mishaps do to the node and to what it says.  *)
LEMMA NodeEffect ==
    ASSUME TypeOK, Sound(n), Node \/ Mishap
    PROVE  /\ DriverUnchanged /\ bounds' = bounds
           /\ down' = down \/ (down # <<>> /\ down' = Tail(down))
           /\ \/ Keeps(n, n')
              \/ /\ down # <<>> /\ Head(down).op = "Begin"
                 /\ n.face = "Boot" /\ n'.face = "Boot" /\ n'.slot \in {n.slot, 0}
           /\ \/ Blank(n) => Blank(n')
              \/ down # <<>> /\ down' = Tail(down) /\ Head(down).op = "Write"
           /\ faults' = 0 =>
                  /\ faults = 0
                  /\ Clean(n) => Clean(n')
                  /\ Clean(n) /\ up \in Seq(NoFailure \cup OpReplies \cup Reports) =>
                         up' \in Seq(NoFailure \cup OpReplies \cup Reports)
           /\ Blank(n) /\ up \in Seq(OpReplies \cup Reports) => up' \in Seq(OpReplies \cup Reports)
           /\ Blank(n) /\ Keeps(n, n') /\ up \in Seq(OpReplies \cup HonestReports(n.slot)) =>
                  up' \in Seq(OpReplies \cup HonestReports(n'.slot))
           /\ /\ Keeps(n, n') /\ n.replies \in Seq(Honest(n.slot))
              /\ up \in Seq(Honest(n.slot) \cup OpReplies \cup Reports)
              => up' \in Seq(Honest(n'.slot) \cup OpReplies \cup Reports)
<1> USE DEF Node, Mishap
<1> DEFINE Good == NoFailure \cup OpReplies \cup Reports
           Plain == OpReplies \cup Reports
           True(slot) == OpReplies \cup HonestReports(slot)
           Fair(slot) == Honest(slot) \cup OpReplies \cup Reports
<1>1. n.slot \in Int /\ n \in SlaveNodes /\ faults \in Nat
  BY SlaveTypes, BoundsType DEF Sound, TypeOK
<1>2. n'.slot \in Int
  BY NodeTypes, SlaveTypes DEF Sound
<1>3. ASSUME Keeps(n, n')
      PROVE  /\ \A s \in Seq(True(n.slot)) : s \in Seq(True(n'.slot))
             /\ \A s \in Seq(Fair(n.slot)) : s \in Seq(Fair(n'.slot))
  <2>1. n.slot <= n'.slot
    BY <1>1, <1>2, <1>3 DEF Keeps, Moves
  <2>2. Honest(n.slot) \subseteq Honest(n'.slot)
    BY <1>1, <1>2, <2>1, StoredStays
  <2>3. HonestReports(n.slot) \subseteq HonestReports(n'.slot)
    <3>1. \A r \in Reports : r.off \in Nat
      BY SlaveConstants DEF Reports, Report, Offsets
    <3> QED
      BY <1>1, <1>2, <2>1, <3>1, StoredStays DEF HonestReports
  <2>4. True(n.slot) \subseteq True(n'.slot) /\ Fair(n.slot) \subseteq Fair(n'.slot)
    BY <2>2, <2>3
  <2> HIDE DEF True, Fair
  <2> QED
    BY <2>4, SeqMonotonic
<1>4. ASSUME NEW told, up' = up \o told, NEW R, up \in Seq(R), told \in Seq(R)
      PROVE  up' \in Seq(R)
  BY <1>4, ConcatProperties
<1> HIDE DEF Good, Plain, True, Fair
<1>5. CASE NodeReceives
  <2>1. down # <<>> /\ down' = Tail(down) /\ DriverUnchanged /\ UNCHANGED <<up, bounds>>
    BY <1>5 DEF NodeReceives
  <2>2. /\ Head(down).op # "Begin" => Keeps(n, n')
        /\ \/ Keeps(n, n')
           \/ n.face = "Boot" /\ n'.face = "Boot" /\ n'.slot \in {n.slot, 0}
        /\ Head(down).op # "Write" /\ Blank(n) => Blank(n')
        /\ faults' = 0 => faults = 0 /\ (Clean(n) => Clean(n'))
    BY <1>5, ReceiveStep
  <2> QED
    BY <1>3, <2>1, <2>2 DEF True, Fair
<1>6. CASE AppIsPolled
  <2>1. n.face = "App" /\ up' = up \o n.out /\ n' = AppPolled(n)
        /\ DriverUnchanged /\ UNCHANGED <<down, mishaps>>
    BY <1>6 DEF AppIsPolled
  <2>2. Keeps(n, n') /\ Blank(n') /\ (Clean(n) => Clean(n'))
    BY <2>1, AppSound
  <2>3. n.out \in Seq(OpReplies)
    BY <1>1 DEF SlaveNodes
  <2>4. \A R : OpReplies \subseteq R => n.out \in Seq(R)
    BY <2>3, SeqMonotonic
  <2>5. \A R : OpReplies \subseteq R /\ up \in Seq(R) => up' \in Seq(R)
    BY <1>4, <2>1, <2>4
  <2>6. /\ OpReplies \subseteq Good /\ OpReplies \subseteq Plain
        /\ \A slot : OpReplies \subseteq True(slot) /\ OpReplies \subseteq Fair(slot)
    BY DEF Good, Plain, True, Fair
  <2>7. /\ up \in Seq(Good) => up' \in Seq(Good)
        /\ up \in Seq(Plain) => up' \in Seq(Plain)
        /\ up \in Seq(True(n.slot)) => up' \in Seq(True(n'.slot))
        /\ up \in Seq(Fair(n.slot)) => up' \in Seq(Fair(n'.slot))
    BY <1>3, <2>2, <2>5, <2>6
  <2> QED
    BY <2>1, <2>2, <2>7 DEF mishaps, Good, Plain, True, Fair
<1>7. CASE BootIsPolled
  <2>1. DriverUnchanged /\ UNCHANGED <<down, bounds>>
    BY <1>7 DEF BootIsPolled
  <2>2. PICK told \in Seq(Answers) :
            /\ up' = up \o told /\ Keeps(n, n')
            /\ faults' = 0 => faults = 0
            /\ faults' = 0 /\ Clean(n) => Clean(n') /\ told \in Seq(Good)
            /\ Blank(n) => Blank(n') /\ told \in Seq(True(n'.slot))
            /\ n.replies \in Seq(Honest(n.slot)) => told \in Seq(Fair(n'.slot))
    BY <1>7, PollStep DEF Good, True, Fair
  <2>3. told \in Seq(True(n'.slot)) => told \in Seq(Plain)
    <3>1. True(n'.slot) \subseteq Plain
      BY DEF True, Plain, HonestReports
    <3> QED
      BY <3>1, SeqMonotonic
  <2>4. faults' = 0 /\ Clean(n) /\ up \in Seq(Good) => up' \in Seq(Good)
    BY <1>4, <2>2
  <2>5. Blank(n) /\ up \in Seq(Plain) => up' \in Seq(Plain)
    BY <1>4, <2>2, <2>3
  <2>6. Blank(n) /\ up \in Seq(True(n.slot)) => up' \in Seq(True(n'.slot))
    BY <1>3, <1>4, <2>2
  <2>7. n.replies \in Seq(Honest(n.slot)) /\ up \in Seq(Fair(n.slot)) => up' \in Seq(Fair(n'.slot))
    BY <1>3, <1>4, <2>2
  <2> QED
    BY <2>1, <2>2, <2>4, <2>5, <2>6, <2>7 DEF Good, Plain, True, Fair
<1>8. CASE LoseRequest
  <2>1. /\ down # <<>> /\ down' = Tail(down) /\ NodeUnchanged /\ DriverUnchanged
        /\ UNCHANGED <<up, bounds, restarts, faults>>
    BY <1>8 DEF LoseRequest
  <2> QED
    BY <2>1 DEF NodeUnchanged, Keeps, Moves
<1>9. CASE LoseAnswer
  <2>1. /\ up # <<>> /\ up' = Tail(up) /\ NodeUnchanged /\ DriverUnchanged
        /\ UNCHANGED <<down, bounds, restarts, faults>>
    BY <1>9 DEF LoseAnswer
  <2>2. \A R : up \in Seq(R) => up' \in Seq(R)
    BY <2>1, TailType
  <2> QED
    BY <2>1, <2>2 DEF NodeUnchanged, Keeps, Moves
<1>10. CASE PowerCut
  <2>1. n' \in Boots(n) /\ DriverUnchanged /\ UNCHANGED <<link, bounds, losses, faults>>
    BY <1>10 DEF PowerCut
  <2>2. Keeps(n, n') /\ Blank(n') /\ Clean(n')
    BY <2>1, BootSound
  <2> QED
    BY <1>3, <2>1, <2>2 DEF link, True, Fair
<1> QED
  BY <1>5, <1>6, <1>7, <1>8, <1>9, <1>10

-----------------------------------------------------------------------------
(* As long as the flash has not failed, nobody has said that it did.       *)
FaultsAreReal ==
    faults = 0 =>
        /\ Clean(n)
        /\ up \in Seq(NoFailure \cup OpReplies \cup Reports)
        /\ writeReplies \in Seq(NoFailure)
        /\ reason # "program"

(* A failure that is reported is one that happened, at every step.         *)
LEMMA FaultsStayReal ==
    ASSUME TypeOK, Sound(n), FaultsAreReal, [Next]_vars
    PROVE  FaultsAreReal'
<1> SUFFICES ASSUME faults' = 0 PROVE FaultsAreReal'
  BY DEF FaultsAreReal
<1>1. CASE Node \/ Mishap
  <2>1. writeReplies' = writeReplies /\ reason' = reason
    BY <1>1, NodeEffect DEF DriverUnchanged, channels
  <2>2. faults = 0
    BY <1>1, NodeEffect
  <2>3. /\ Clean(n) => Clean(n')
        /\ Clean(n) /\ up \in Seq(NoFailure \cup OpReplies \cup Reports) =>
               up' \in Seq(NoFailure \cup OpReplies \cup Reports)
    BY <1>1, NodeEffect
  <2> QED
    BY <2>1, <2>2, <2>3 DEF FaultsAreReal
<1> SUFFICES ASSUME Reading \/ Timers \/ UNCHANGED vars PROVE FaultsAreReal'
  BY <1>1 DEF Next
<1>2. UNCHANGED <<n, faults>>
  BY ReadingTypes, TimersTypes
     DEF NodeUnchanged, vars, mishaps, Reading, Timers, AnswerArrives, BootloaderAnswers,
         StepReported, StepAnswered, SendChunk, ChunkAnswered, SendEnd, ResumeReported,
         Probe, Deadline, Stall, ResumeProbe
<1>3. /\ faults = 0 /\ Clean(n) /\ reason # "program"
      /\ up \in Seq(NoFailure \cup OpReplies \cup Reports) /\ writeReplies \in Seq(NoFailure)
  BY <1>2 DEF FaultsAreReal
<1>4. ASSUME UNCHANGED up, reason' # "program", writeReplies' \in Seq(NoFailure)
      PROVE  FaultsAreReal'
  BY <1>2, <1>3, <1>4 DEF FaultsAreReal, Clean
<1>5. ASSUME writeReplies # <<>>
      PROVE  Head(writeReplies) \in NoFailure /\ Tail(writeReplies) \in Seq(NoFailure)
  BY <1>3, <1>5, TailType
<1>6. <<>> \in Seq(NoFailure)
  BY EmptySeq
<1>7. CASE AnswerArrives
  <2> DEFINE m == Head(up)
             Good == NoFailure \cup OpReplies \cup Reports
  <2>1. /\ up # <<>> /\ up' = Tail(up) /\ reason' = reason
        /\ writeReplies' = IF m.op \in {"WriteAck", "WriteNack"}
                           THEN Offer(writeReplies, WriteCap, m) ELSE writeReplies
    BY <1>7 DEF AnswerArrives
  <2>2. m \in Good /\ up' \in Seq(Good)
    <3> HIDE DEF Good
    <3> QED
      BY <1>3, <2>1, TailType DEF Good
  <2>3. m.op \in {"WriteAck", "WriteNack"} => m \in NoFailure
    BY <2>2 DEF OpReplies, Reports, Report, OpReply
  <2> HIDE DEF m
  <2>4. writeReplies' \in Seq(NoFailure)
    <3>1. CASE m.op \in {"WriteAck", "WriteNack"}
      <4>1. WriteCap \in Nat /\ Len(writeReplies) <= WriteCap
        BY DriverConstants DEF TypeOK
      <4> QED
        BY <1>3, <2>1, <2>3, <3>1, <4>1, OfferType
    <3> QED
      BY <1>3, <2>1, <3>1
  <2> QED
    BY <1>2, <1>3, <2>1, <2>2, <2>4 DEF FaultsAreReal, Clean
<1>8. CASE StepReported \/ StepAnswered
  <2>1. /\ UNCHANGED up /\ (reason' = reason \/ reason' = "reported")
        /\ writeReplies' = writeReplies \/ writeReplies' = <<>>
    BY <1>8, StepReportedCases DEF StepAnswered, LeftOver, Fail
  <2> QED
    BY <1>3, <1>4, <1>6, <2>1
<1>9. CASE ChunkAnswered
  <2>1. UNCHANGED up /\ writeReplies # <<>> /\ writeReplies' = Tail(writeReplies)
    BY <1>9 DEF ChunkAnswered
  <2>2. ~(Head(writeReplies).op = "WriteNack" /\ Head(writeReplies).failed)
    BY <1>5, <2>1 DEF NoFailure
  <2>3. reason' = reason
    BY <1>9, <2>2 DEF ChunkAnswered
  <2> QED
    BY <1>3, <1>4, <1>5, <2>1, <2>3
<1>10. CASE ResumeReported
  <2>1. /\ UNCHANGED up /\ (reason' = reason \/ reason' = "reported")
        /\ writeReplies' = writeReplies \/ writeReplies' = <<>>
    BY <1>10, ResumeReportedCases DEF DrainReplies, Fail
  <2> QED
    BY <1>3, <1>4, <1>6, <2>1
<1>11. CASE BootloaderAnswers \/ SendChunk \/ SendEnd
  <2>1. UNCHANGED <<up, reason, writeReplies>>
    BY <1>11 DEF BootloaderAnswers, SendChunk, SendEnd, channels
  <2> QED
    BY <1>3, <1>4, <2>1
<1>12. CASE Timers
  <2>1. /\ UNCHANGED up /\ (reason' = reason \/ reason' = "timeout")
        /\ writeReplies' = writeReplies \/ writeReplies' = <<>>
    BY <1>12 DEF Timers, Probe, Deadline, Stall, ResumeProbe, Fail, DrainReplies, channels
  <2> QED
    BY <1>3, <1>4, <1>6, <2>1
<1>13. CASE UNCHANGED vars
  BY <1>3, <1>4, <1>13 DEF vars, link, channels
<1> QED
  BY <1>7, <1>8, <1>9, <1>10, <1>11, <1>12, <1>13 DEF Reading

(* A push fails with a flash program failure only if the flash failed,     *)
(* however often a chunk is sent again (HandleWrite, writeImageWindowed):  *)
(* for every window, queue and number of retries.                          *)
THEOREM FlashFaultsAreReal == Spec => []GoodFlashNeverFails
<1>1. Init => FaultsAreReal
  <2> SUFFICES ASSUME Init PROVE FaultsAreReal
    OBVIOUS
  <2>1. \A R : <<>> \in Seq(R)
    BY EmptySeq
  <2>2. Clean(n)
    <3>1. \A face, slot : Clean(Started(face, slot))
      BY <2>1 DEF Started, Clean
    <3> QED
      BY <3>1 DEF Init
  <2> QED
    BY <2>1, <2>2 DEF Init, FaultsAreReal
<1>2. TypeOK /\ Sound(n) /\ FaultsAreReal /\ [Next]_vars => FaultsAreReal'
  BY FaultsStayReal
<1>3. TypeOK /\ FaultsAreReal => GoodFlashNeverFails
  <2>1. TypeOK => faults \in Nat
    BY BoundsType DEF TypeOK
  <2> QED
    BY <2>1 DEF FaultsAreReal, GoodFlashNeverFails
<1> QED
  BY <1>1, <1>2, <1>3, NodeStaysSound, PTL DEF Spec

-----------------------------------------------------------------------------
(* Where the push is, and what that means for the flash and the link.      *)

(* A request of a kind is in a queue.                                      *)
HasOp(op, s) == \E j \in 1..Len(s) : s[j].op = op

(* A Begin is not behind a chunk.                                          *)
Orderly(s) == \A j \in 1..Len(s) : s[j].op = "Begin" =>
                  \A i \in 1..(j - 1) : s[i].op # "Write"

(* Taking the first request off a queue.                                   *)
LEMMA TailOps ==
    ASSUME NEW R, NEW s \in Seq(R), s # <<>>
    PROVE  /\ \A op : HasOp(op, Tail(s)) => HasOp(op, s)
           /\ \A op : Head(s).op = op => HasOp(op, s)
           /\ Orderly(s) => Orderly(Tail(s))
           /\ Orderly(s) /\ HasOp("Begin", Tail(s)) => Head(s).op # "Write"
<1>1. /\ Len(s) \in Nat \ {0} /\ Len(Tail(s)) = Len(s) - 1 /\ Head(s) = s[1]
      /\ \A i \in 1..Len(Tail(s)) : Tail(s)[i] = s[i + 1]
  BY HeadTailProperties, EmptySeq
<1>2. \A i \in 1..Len(Tail(s)) : i + 1 \in 1..Len(s) /\ Tail(s)[i] = s[i + 1]
  BY <1>1
<1>3. \A op : HasOp(op, Tail(s)) => HasOp(op, s)
  BY <1>2 DEF HasOp
<1>4. \A op : Head(s).op = op => HasOp(op, s)
  <2>1. 1 \in 1..Len(s)
    BY <1>1
  <2> QED
    BY <1>1, <2>1 DEF HasOp
<1>5. ASSUME Orderly(s), NEW j \in 1..Len(Tail(s)), Tail(s)[j].op = "Begin"
      PROVE  \A i \in 1..j : s[i].op # "Write"
  <2>1. j + 1 \in 1..Len(s) /\ s[j + 1].op = "Begin" /\ (j + 1) - 1 = j
    BY <1>2, <1>5
  <2> QED
    BY <1>5, <2>1 DEF Orderly
<1>6. ASSUME Orderly(s) PROVE Orderly(Tail(s))
  <2> SUFFICES ASSUME NEW j \in 1..Len(Tail(s)), Tail(s)[j].op = "Begin",
                      NEW i \in 1..(j - 1)
               PROVE  Tail(s)[i].op # "Write"
    BY DEF Orderly
  <2>1. i + 1 \in 1..j /\ i \in 1..Len(Tail(s))
    BY <1>1
  <2>2. s[i + 1].op # "Write"
    BY <1>5, <1>6, <2>1
  <2> QED
    BY <1>2, <2>1, <2>2
<1>7. ASSUME Orderly(s), HasOp("Begin", Tail(s)) PROVE Head(s).op # "Write"
  <2>1. PICK j \in 1..Len(Tail(s)) : Tail(s)[j].op = "Begin"
    BY <1>7 DEF HasOp
  <2>2. 1 \in 1..j
    BY <1>1, <2>1
  <2> QED
    BY <1>1, <1>5, <1>7, <2>1, <2>2
<1> QED
  BY <1>3, <1>4, <1>6, <1>7

(* Putting a request behind the others.                                    *)
LEMMA AppendOps ==
    ASSUME NEW R, NEW s \in Seq(R), NEW m \in R
    PROVE  /\ \A op : HasOp(op, Append(s, m)) <=> HasOp(op, s) \/ m.op = op
           /\ Orderly(s) /\ (m.op # "Begin" \/ ~HasOp("Write", s)) => Orderly(Append(s, m))
<1> DEFINE t == Append(s, m)
           L == Len(s)
<1>1. /\ L \in Nat /\ Len(t) = L + 1
      /\ \A i \in 1..L : i \in 1..(L + 1) /\ t[i] = s[i]
      /\ t[L + 1] = m /\ L + 1 \in 1..(L + 1)
      /\ \A i \in 1..(L + 1) : i \in 1..L \/ i = L + 1
  BY AppendProperties, LenProperties
<1> HIDE DEF t
<1>2. \A op : HasOp(op, t) <=> HasOp(op, s) \/ m.op = op
  BY <1>1 DEF HasOp
<1>3. ASSUME Orderly(s), m.op # "Begin" \/ ~HasOp("Write", s) PROVE Orderly(t)
  <2> SUFFICES ASSUME NEW j \in 1..Len(t), t[j].op = "Begin", NEW i \in 1..(j - 1)
               PROVE  t[i].op # "Write"
    BY DEF Orderly
  <2>1. i \in 1..L /\ t[i] = s[i]
    BY <1>1
  <2>2. CASE j \in 1..L
    BY <1>1, <1>3, <2>1, <2>2 DEF Orderly
  <2>3. CASE j = L + 1
    BY <1>1, <1>3, <2>1, <2>3 DEF HasOp
  <2> QED
    BY <1>1, <2>2, <2>3
<1> QED
  BY <1>2, <1>3 DEF t

(* Nothing of the transfer is left, on the node or on its way to the       *)
(* driver.                                                                 *)
Untouched ==
    /\ Blank(n)
    /\ up \in Seq(OpReplies \cup Reports)
    /\ writeReplies = <<>>

(* The waits in which the transfer has not begun, or begins again.         *)
Before == {"Entering", "Beginning", "Resuming", "Reentering", "Restarting"}

(* A Begin on its way to the node is the first word of a transfer.         *)
BeginComesFirst ==
    /\ Orderly(down)
    /\ HasOp("Begin", down) => /\ pc \in {"Beginning", "Restarting", "Writing"}
                               /\ pc = "Writing" => base = 0
                               /\ Untouched

(* Nothing of a transfer is around before one begins.                      *)
BeforeWriting == pc \in Before => Untouched /\ ~HasOp("Write", down)

(* The first transfer begins at the first chunk.                           *)
FreshStart == pc \in {"Entering", "Beginning"} => base = 0

(* The report that a resume waits for is about what is in the flash.       *)
ResumesHonestly ==
    pc = "Resuming" =>
        /\ reports \in Seq(HonestReports(n.slot))
        /\ up \in Seq(OpReplies \cup HonestReports(n.slot))

(* Every Ack that the driver counts, or may still count, is of a chunk     *)
(* that is in the flash.                                                   *)
WritesHonestly ==
    pc = "Writing" =>
        /\ Stored(base, n.slot)
        /\ n.replies \in Seq(Honest(n.slot))
        /\ up \in Seq(Honest(n.slot) \cup OpReplies \cup Reports)
        /\ writeReplies \in Seq(Honest(n.slot))

(* End is sent, and the push done, with the image in the flash.            *)
EndsWhole == pc \in {"Verifying", "Done"} => n.slot = NewImage

(* The inductive invariant.                                                *)
Phases ==
    /\ BeforeWriting /\ FreshStart /\ ResumesHonestly /\ WritesHonestly /\ EndsWhole
    /\ pc # "Error" => BeginComesFirst

(* Of a push that failed nothing is claimed.                               *)
LEMMA ErrorEndsPhases ==
    pc' = "Error" => Phases'
BY DEF Phases, BeforeWriting, FreshStart, ResumesHonestly, WritesHonestly, EndsWhole, Before

(* Answers that were honest stay so while the slot fills.                  *)
LEMMA MonotoneAnswers ==
    ASSUME TypeOK, Sound(n), n'.slot \in Int, Keeps(n, n')
    PROVE  /\ n.slot <= n'.slot
           /\ Stored(base, n.slot) => Stored(base, n'.slot)
           /\ \A s \in Seq(Honest(n.slot)) : s \in Seq(Honest(n'.slot))
           /\ \A s \in Seq(HonestReports(n.slot)) : s \in Seq(HonestReports(n'.slot))
<1>1. n.slot \in Int /\ n.slot <= n'.slot /\ base \in Nat
  BY SlaveTypes, SlaveConstants DEF Sound, Keeps, Moves, TypeOK, Offsets
<1>2. HonestReports(n.slot) \subseteq HonestReports(n'.slot)
  <2>1. \A r \in Reports : r.off \in Nat
    BY SlaveConstants DEF Reports, Report, Offsets
  <2> QED
    BY <1>1, <2>1, StoredStays DEF HonestReports
<1> QED
  BY <1>1, <1>2, StoredStays, SeqMonotonic

(* The node, and what goes wrong, keep the phases.                         *)
LEMMA NodePhases ==
    ASSUME TypeOK, Sound(n), Phases, Node \/ Mishap
    PROVE  Phases'
<1> SUFFICES ASSUME pc # "Error" PROVE Phases'
  BY NodeEffect, ErrorEndsPhases DEF DriverUnchanged
<1> USE DEF Phases
<1>1. UNCHANGED <<pc, reports, writeReplies, base>>
  BY NodeEffect DEF DriverUnchanged, channels, position
<1>2. down \in Seq(Requests) /\ (down' = down \/ (down # <<>> /\ down' = Tail(down)))
  BY NodeEffect DEF TypeOK
<1>3. /\ \A op : HasOp(op, down') => HasOp(op, down)
      /\ Orderly(down) => Orderly(down')
      /\ \A op : down # <<>> /\ Head(down).op = op => HasOp(op, down)
      /\ \/ down' = down
         \/ Orderly(down) /\ HasOp("Begin", down') => Head(down).op # "Write"
  BY <1>2, TailOps
<1>4. \/ Keeps(n, n')
      \/ /\ HasOp("Begin", down)
         /\ n.face = "Boot" /\ n'.face = "Boot" /\ n'.slot \in {n.slot, 0}
  BY <1>3, NodeEffect
<1>5. ~HasOp("Write", down) \/ HasOp("Begin", down') => (Blank(n) => Blank(n'))
  BY <1>2, <1>3, NodeEffect DEF BeginComesFirst
<1>6. Untouched /\ (~HasOp("Write", down) \/ HasOp("Begin", down')) => Untouched'
  BY <1>1, <1>5, NodeEffect DEF Untouched
<1>7. BeginComesFirst'
  BY <1>1, <1>3, <1>6 DEF BeginComesFirst
<1>8. BeforeWriting' /\ FreshStart'
  BY <1>1, <1>3, <1>6 DEF BeforeWriting, FreshStart
<1>9. n'.slot \in Int /\ n'.slot <= NewImage /\ n.slot \in Int
  BY NodeTypes, SlaveTypes DEF Sound
<1>10. pc \notin {"Beginning", "Restarting", "Writing"} => Keeps(n, n')
  BY <1>4 DEF BeginComesFirst
<1>11. ResumesHonestly'
  <2> SUFFICES ASSUME pc = "Resuming"
               PROVE  /\ reports \in Seq(HonestReports(n'.slot))
                      /\ up' \in Seq(OpReplies \cup HonestReports(n'.slot))
    BY <1>1 DEF ResumesHonestly
  <2>1. Keeps(n, n') /\ Blank(n)
    BY <1>10 DEF BeforeWriting, Before, Untouched
  <2>2. reports \in Seq(HonestReports(n.slot)) /\ up \in Seq(OpReplies \cup HonestReports(n.slot))
    BY DEF ResumesHonestly
  <2> QED
    BY <1>9, <2>1, <2>2, NodeEffect, MonotoneAnswers
<1>12. EndsWhole'
  <2> SUFFICES ASSUME pc \in {"Verifying", "Done"} PROVE n'.slot = NewImage
    BY <1>1 DEF EndsWhole
  <2>1. Keeps(n, n') /\ n.slot = NewImage
    BY <1>10 DEF EndsWhole
  <2>2. n.slot <= n'.slot
    BY <1>9, <2>1, MonotoneAnswers
  <2> QED
    BY <1>9, <2>1, <2>2
<1>13. WritesHonestly'
  <2> SUFFICES ASSUME pc = "Writing"
               PROVE  /\ Stored(base, n'.slot)
                      /\ n'.replies \in Seq(Honest(n'.slot))
                      /\ up' \in Seq(Honest(n'.slot) \cup OpReplies \cup Reports)
                      /\ writeReplies \in Seq(Honest(n'.slot))
    BY <1>1 DEF WritesHonestly
  <2>1. /\ Stored(base, n.slot) /\ n.replies \in Seq(Honest(n.slot))
        /\ up \in Seq(Honest(n.slot) \cup OpReplies \cup Reports)
        /\ writeReplies \in Seq(Honest(n.slot))
    BY DEF WritesHonestly
  <2>2. CASE Keeps(n, n')
    <3>1. up' \in Seq(Honest(n'.slot) \cup OpReplies \cup Reports)
      BY <2>1, <2>2, NodeEffect
    <3>2. n'.replies \in Seq(Honest(n'.slot))
      BY <2>1, <2>2 DEF Keeps
    <3> QED
      BY <1>9, <2>1, <2>2, <3>1, <3>2, MonotoneAnswers
  <2>3. CASE ~Keeps(n, n')
    <3>1. HasOp("Begin", down) /\ base = 0 /\ Untouched
      BY <1>4, <2>3 DEF BeginComesFirst
    <3>2. Blank(n')
      <4>1. Head(down).op = "Begin"
        BY <2>3, NodeEffect
      <4> QED
        BY <3>1, <4>1, NodeEffect DEF Untouched
    <3>3. up' \in Seq(OpReplies \cup Reports)
      BY <3>1, NodeEffect DEF Untouched
    <3>4. up' \in Seq(Honest(n'.slot) \cup OpReplies \cup Reports)
      <4> DEFINE Plain == OpReplies \cup Reports
                 Fair == Honest(n'.slot) \cup OpReplies \cup Reports
      <4>1. Plain \subseteq Fair /\ up' \in Seq(Plain)
        BY <3>3
      <4> HIDE DEF Plain, Fair
      <4>2. up' \in Seq(Fair)
        BY <4>1, SeqMonotonic
      <4> QED
        BY <4>2 DEF Fair
    <3>5. <<>> \in Seq(Honest(n'.slot))
      BY EmptySeq
    <3> QED
      BY <3>1, <3>2, <3>4, <3>5 DEF Stored, Blank, Untouched
  <2> QED
    BY <2>2, <2>3
<1> QED
  BY <1>7, <1>8, <1>11, <1>12, <1>13

-----------------------------------------------------------------------------
(* The steps of the driver.                                                *)

(* A send puts its request behind the others, or nothing.                  *)
LEMMA SendOps ==
    ASSUME TypeOK, NEW m \in Requests, Send(m)
    PROVE  /\ \A op : HasOp(op, down') => HasOp(op, down) \/ m.op = op
           /\ Orderly(down) /\ (m.op # "Begin" \/ ~HasOp("Write", down)) => Orderly(down')
<1>1. down \in Seq(Requests) /\ (down' = down \/ down' = Append(down, m))
  BY DEF TypeOK, Send
<1> QED
  BY <1>1, AppendOps

(* A step that sends no Begin, and no chunk unless chunks are due, and     *)
(* that leaves the driver where it is.                                     *)
LEMMA SteadyPhases ==
    ASSUME Phases, pc # "Error",
           UNCHANGED <<n, up, pc, base, reports, writeReplies>>,
           HasOp("Begin", down') => HasOp("Begin", down),
           HasOp("Write", down') => HasOp("Write", down) \/ pc = "Writing",
           Orderly(down) => Orderly(down')
    PROVE  Phases'
<1> USE DEF Phases
<1>1. Untouched => Untouched'
  BY DEF Untouched
<1>2. BeginComesFirst'
  BY <1>1 DEF BeginComesFirst
<1>3. BeforeWriting' /\ FreshStart' /\ EndsWhole'
  BY <1>1 DEF BeforeWriting, FreshStart, EndsWhole, Before
<1>4. ResumesHonestly' /\ WritesHonestly'
  BY DEF ResumesHonestly, WritesHonestly
<1> QED
  BY <1>2, <1>3, <1>4

(* What arrives in a channel is as honest as what was on its way.          *)
LEMMA ArrivalPhases ==
    ASSUME TypeOK, Phases, AnswerArrives, pc # "Error"
    PROVE  Phases'
<1> USE DEF Phases
<1> DEFINE m == Head(up)
           Plain == OpReplies \cup Reports
           True == OpReplies \cup HonestReports(n.slot)
           Fair == Honest(n.slot) \cup OpReplies \cup Reports
<1>1. /\ up # <<>> /\ up' = Tail(up) /\ NodeUnchanged
      /\ UNCHANGED <<down, pc, reason, position, counters, mishaps>>
      /\ reports' = IF m.op = "Report" THEN Offer(reports, ReportCap, m) ELSE reports
      /\ writeReplies' = IF m.op \in {"WriteAck", "WriteNack"}
                         THEN Offer(writeReplies, WriteCap, m) ELSE writeReplies
  BY DEF AnswerArrives
<1>2. UNCHANGED <<n, base>>
  BY <1>1 DEF NodeUnchanged, position
<1>3. \A R : up \in Seq(R) => m \in R /\ up' \in Seq(R)
  BY <1>1, TailType
<1>4. /\ \A r \in OpReplies : r.op \in {"OpAck", "OpNack"}
      /\ \A r \in Reports : r.op = "Report"
      /\ \A r \in WriteReplies : r.op \in {"WriteAck", "WriteNack"}
  BY DEF OpReplies, OpReply, Reports, Report, WriteReplies, WriteAck, WriteNack
<1>5. /\ WriteCap \in Nat /\ Len(writeReplies) <= WriteCap
      /\ ReportCap \in Nat /\ Len(reports) <= ReportCap
  BY DriverConstants DEF TypeOK
<1> HIDE DEF m
<1>6. Untouched => Untouched'
  <2> SUFFICES ASSUME Untouched PROVE up' \in Seq(Plain) /\ writeReplies' = <<>>
    BY <1>2 DEF Untouched
  <2>1. m \in Plain /\ up' \in Seq(Plain)
    <3> HIDE DEF Plain
    <3> QED
      BY <1>3 DEF Untouched, Plain
  <2>2. m.op \notin {"WriteAck", "WriteNack"}
    BY <1>4, <2>1
  <2> QED
    BY <1>1, <2>1, <2>2 DEF Untouched
<1>7. BeginComesFirst' /\ BeforeWriting' /\ FreshStart' /\ EndsWhole'
  BY <1>1, <1>2, <1>6 DEF BeginComesFirst, BeforeWriting, FreshStart, EndsWhole
<1>8. ResumesHonestly'
  <2> SUFFICES ASSUME pc = "Resuming"
               PROVE  /\ reports' \in Seq(HonestReports(n.slot))
                      /\ up' \in Seq(True)
    BY <1>1, <1>2 DEF ResumesHonestly
  <2>1. reports \in Seq(HonestReports(n.slot)) /\ up \in Seq(True)
    BY DEF ResumesHonestly
  <2>2. m \in True /\ up' \in Seq(True)
    <3> HIDE DEF True
    <3> QED
      BY <1>3, <2>1
  <2>3. m.op = "Report" => m \in HonestReports(n.slot)
    BY <1>4, <2>2
  <2> QED
    BY <1>1, <1>5, <2>1, <2>2, <2>3, OfferType
<1>9. WritesHonestly'
  <2> SUFFICES ASSUME pc = "Writing"
               PROVE  up' \in Seq(Fair) /\ writeReplies' \in Seq(Honest(n.slot))
    BY <1>1, <1>2 DEF WritesHonestly
  <2>1. up \in Seq(Fair) /\ writeReplies \in Seq(Honest(n.slot))
    BY DEF WritesHonestly
  <2>2. m \in Fair /\ up' \in Seq(Fair)
    <3> HIDE DEF Fair
    <3> QED
      BY <1>3, <2>1
  <2>3. m.op \in {"WriteAck", "WriteNack"} => m \in Honest(n.slot)
    BY <1>4, <2>2
  <2> QED
    BY <1>1, <1>5, <2>1, <2>2, <2>3, OfferType
<1> QED
  BY <1>1, <1>7, <1>8, <1>9

(* Begin is sent before any chunk, with nothing of the transfer left.      *)
LEMMA BeginPhases ==
    ASSUME TypeOK, Phases, pc \in Before, Send(Set("Begin")),
           pc' \in {"Beginning", "Restarting"}, pc' = "Beginning" => base = 0,
           UNCHANGED <<n, up, base, writeReplies>>
    PROVE  Phases'
<1> USE DEF Phases
<1>1. Set("Begin") \in Requests /\ Set("Begin").op = "Begin"
  BY SimpleRequests DEF Simple
<1>2. Untouched /\ ~HasOp("Write", down) /\ Untouched' /\ Orderly(down)
  BY DEF BeforeWriting, Untouched, Before, BeginComesFirst
<1>3. Orderly(down') /\ ~HasOp("Write", down')
  BY <1>1, <1>2, SendOps
<1>4. BeginComesFirst' /\ BeforeWriting'
  BY <1>2, <1>3 DEF BeginComesFirst, BeforeWriting
<1>5. FreshStart' /\ ResumesHonestly' /\ WritesHonestly' /\ EndsWhole'
  BY DEF FreshStart, ResumesHonestly, WritesHonestly, EndsWhole
<1> QED
  BY <1>4, <1>5

(* The first chunk is due: what was not there before cannot be in doubt.   *)
LEMMA StartWriting ==
    ASSUME Phases, pc \in Before, pc' = "Writing", base' = 0,
           UNCHANGED <<n, up, down>>, writeReplies' = <<>>
    PROVE  Phases'
<1> USE DEF Phases
<1>1. Untouched /\ Untouched' /\ ~HasOp("Write", down)
  BY DEF BeforeWriting, Untouched
<1>2. BeginComesFirst' /\ BeforeWriting' /\ FreshStart' /\ ResumesHonestly' /\ EndsWhole'
  BY <1>1 DEF BeginComesFirst, BeforeWriting, FreshStart, ResumesHonestly, EndsWhole, Before
<1>3. WritesHonestly'
  <2> DEFINE Plain == OpReplies \cup Reports
             Fair == Honest(n.slot) \cup OpReplies \cup Reports
  <2>1. Plain \subseteq Fair /\ up \in Seq(Plain)
    BY <1>1 DEF Untouched
  <2> HIDE DEF Plain, Fair
  <2>2. up \in Seq(Fair) /\ <<>> \in Seq(Honest(n.slot))
    BY <2>1, SeqMonotonic, EmptySeq
  <2> QED
    BY <1>1, <2>2 DEF WritesHonestly, Stored, Untouched, Blank, Fair
<1> QED
  BY <1>2, <1>3

(* The image was found whole: Activate goes out.                           *)
LEMMA DonePhases ==
    ASSUME TypeOK, Phases, pc = "Verifying", pc' = "Done", Send(Set("Activate")),
           UNCHANGED n
    PROVE  Phases'
<1> USE DEF Phases
<1>1. Set("Activate") \in Requests /\ Set("Activate").op = "Activate"
  BY SimpleRequests DEF Simple
<1>2. Orderly(down') /\ ~HasOp("Begin", down')
  BY <1>1, SendOps DEF BeginComesFirst
<1>3. BeginComesFirst' /\ BeforeWriting' /\ FreshStart' /\ ResumesHonestly'
      /\ WritesHonestly' /\ EndsWhole'
  BY <1>2 DEF BeginComesFirst, BeforeWriting, FreshStart, ResumesHonestly, WritesHonestly,
              EndsWhole, Before
<1> QED
  BY <1>3

(* The steps of the driver that read a channel.                            *)
LEMMA ReadingPhases ==
    ASSUME TypeOK, Sound(n), Phases, Reading, pc # "Error", pc' # "Error"
    PROVE  Phases'
<1> USE DEF Reading
<1>0. UNCHANGED n /\ (TypeOK')
  BY ReadingTypes DEF NodeUnchanged
<1>1. CASE AnswerArrives
  BY <1>1, ArrivalPhases
<1>2. CASE BootloaderAnswers
  <2>1. /\ pc \in Before /\ Send(Set("Begin")) /\ pc' \in {"Beginning", "Restarting"}
        /\ pc' = "Beginning" => pc = "Entering"
        /\ UNCHANGED <<up, base, writeReplies>>
    BY <1>2 DEF BootloaderAnswers, Before, position
  <2>2. pc = "Entering" => base = 0
    BY DEF Phases, FreshStart
  <2> QED
    BY <1>0, <2>1, <2>2, BeginPhases
<1>3. CASE StepReported \/ StepAnswered
  <2>1. /\ pc \in {"Beginning", "Restarting", "Verifying"}
        /\ up' = up
        /\ \/ Settled /\ writeReplies' = LeftOver(writeReplies)
           \/ /\ UNCHANGED <<pc, down, position, writeReplies>>
              /\ pc # "Resuming"
    BY <1>3, StepReportedCases DEF StepAnswered, Fail
  <2>2. CASE pc \in {"Beginning", "Restarting"} /\ Settled /\ writeReplies' = LeftOver(writeReplies)
    <3>1. pc' = "Writing" /\ down' = down
      BY <2>2, SettledCases
    <3>2. base' = 0
      BY <2>2, SettledCases DEF Phases, FreshStart, position
    <3>3. writeReplies' = <<>>
      BY <2>2 DEF Phases, BeforeWriting, Untouched, Before, LeftOver
    <3> QED
      BY <1>0, <2>1, <2>2, <3>1, <3>2, <3>3, StartWriting DEF Before
  <2>3. CASE pc = "Verifying" /\ Settled
    <3>1. pc' = "Done" /\ Send(Set("Activate"))
      BY <2>3, SettledCases
    <3> QED
      BY <1>0, <2>3, <3>1, DonePhases
  <2>4. CASE UNCHANGED <<pc, down, position, writeReplies>>
    <3>1. Untouched => Untouched'
      BY <1>0, <2>1, <2>4 DEF Untouched
    <3> QED
      BY <1>0, <2>1, <2>4, <3>1
         DEF Phases, BeginComesFirst, BeforeWriting, FreshStart, ResumesHonestly,
             WritesHonestly, EndsWhole, position
  <2> QED
    BY <2>1, <2>2, <2>3, <2>4
<1>4. CASE SendChunk
  <2>1. /\ pc = "Writing" /\ next < Chunks /\ Send(Write(next))
        /\ UNCHANGED <<up, pc, base, reports, writeReplies>>
    BY <1>4 DEF SendChunk, WindowOpen, channels
  <2>2. next \in 0..(Chunks - 1)
    BY <2>1, SlaveConstants DEF TypeOK, Offsets
  <2>3. Write(next) \in Requests /\ Write(next).op = "Write"
    BY <2>2, SimpleRequests
  <2>4. /\ \A op : HasOp(op, down') => HasOp(op, down) \/ op = "Write"
        /\ Orderly(down) => Orderly(down')
    BY <2>1, <2>3, SendOps
  <2> QED
    BY <1>0, <2>1, <2>4, SteadyPhases
<1>5. CASE ChunkAnswered
  <2> DEFINE r == Head(writeReplies)
  <2>1. /\ pc = "Writing" /\ pc' = "Writing" /\ writeReplies # <<>>
        /\ writeReplies' = Tail(writeReplies) /\ UNCHANGED <<up, reports, down>>
        /\ \/ r.op = "WriteAck" /\ base' = r.off + 1
           \/ base' = base
           \/ r.op = "WriteNack" /\ base' = r.off
    BY <1>5 DEF ChunkAnswered, Listening, Fail, position
  <2>2. /\ Stored(base, n.slot) /\ n.replies \in Seq(Honest(n.slot))
        /\ up \in Seq(Honest(n.slot) \cup OpReplies \cup Reports)
        /\ writeReplies \in Seq(Honest(n.slot))
    BY <2>1 DEF Phases, WritesHonestly
  <2>3. r \in Honest(n.slot) /\ writeReplies' \in Seq(Honest(n.slot))
    BY <2>1, <2>2, TailType
  <2> HIDE DEF r
  <2>4. Stored(base', n.slot)
    BY <2>1, <2>2, <2>3 DEF Honest
  <2>5. ~HasOp("Begin", down) /\ Orderly(down)
    BY <2>1 DEF Phases, BeginComesFirst, Untouched
  <2> QED
    BY <1>0, <2>1, <2>2, <2>3, <2>4, <2>5
       DEF Phases, BeginComesFirst, BeforeWriting, FreshStart, ResumesHonestly,
           WritesHonestly, EndsWhole, Before
<1>6. CASE SendEnd
  <2>1. /\ pc = "Writing" /\ base = Chunks /\ pc' = "Verifying" /\ Send(Set("End"))
        /\ UNCHANGED up
    BY <1>6 DEF SendEnd
  <2>2. Set("End") \in Requests /\ Set("End").op = "End"
    BY SimpleRequests DEF Simple
  <2>3. n.slot = NewImage
    <3>1. Chunks \in Nat \ {0} /\ Stored(Chunks, n.slot)
      BY <2>1, SlaveConstants DEF Phases, WritesHonestly
    <3>2. n.slot \in Int /\ n.slot <= NewImage
      BY SlaveTypes DEF Sound
    <3>3. NewImage <= n.slot /\ NewImage \in Nat
      BY <3>1, WholeChunks DEF Stored, NewImage
    <3> QED
      BY <3>2, <3>3
  <2>4. ~HasOp("Begin", down) /\ Orderly(down)
    BY <2>1, SlaveConstants DEF Phases, BeginComesFirst
  <2>5. ~HasOp("Begin", down') /\ Orderly(down')
    BY <2>1, <2>2, <2>4, SendOps
  <2> QED
    BY <1>0, <2>1, <2>3, <2>5
       DEF Phases, BeginComesFirst, BeforeWriting, FreshStart, ResumesHonestly,
           WritesHonestly, EndsWhole, Before
<1>7. CASE ResumeReported
  <2> DEFINE r == Head(reports)
  <2>1. /\ pc = "Resuming" /\ reports # <<>> /\ up' = up
        /\ \/ /\ r.state = "Receiving" /\ pc' = "Writing" /\ base' = r.off
              /\ writeReplies' = <<>> /\ down' = down
           \/ /\ pc' = "Restarting" /\ Send(Set("Begin"))
              /\ UNCHANGED <<base, writeReplies>>
    BY <1>7, ResumeReportedCases DEF Fail, DrainReplies
  <2>2. CASE pc' = "Restarting" /\ Send(Set("Begin")) /\ UNCHANGED <<base, writeReplies>>
    BY <1>0, <2>1, <2>2, BeginPhases DEF Before
  <2>3. CASE /\ r.state = "Receiving" /\ pc' = "Writing" /\ base' = r.off
             /\ writeReplies' = <<>> /\ down' = down
    <3>1. /\ reports \in Seq(HonestReports(n.slot)) /\ Untouched
          /\ ~HasOp("Begin", down) /\ Orderly(down)
      BY <2>1 DEF Phases, ResumesHonestly, BeforeWriting, Before, BeginComesFirst
    <3>2. r \in HonestReports(n.slot)
      BY <2>1, <3>1, TailType
    <3> HIDE DEF r
    <3>3. Stored(base', n.slot)
      BY <2>3, <3>2 DEF HonestReports
    <3> DEFINE Plain == OpReplies \cup Reports
               Fair == Honest(n.slot) \cup OpReplies \cup Reports
    <3>4. Plain \subseteq Fair /\ up \in Seq(Plain)
      BY <3>1 DEF Untouched
    <3> HIDE DEF Plain, Fair
    <3>5. up \in Seq(Fair) /\ <<>> \in Seq(Honest(n.slot))
      BY <3>4, SeqMonotonic, EmptySeq
    <3>6. WritesHonestly'
      BY <1>0, <2>1, <2>3, <3>1, <3>3, <3>5
         DEF WritesHonestly, Untouched, Blank, Fair
    <3> QED
      BY <1>0, <2>1, <2>3, <3>1, <3>6
         DEF Phases, BeginComesFirst, BeforeWriting, FreshStart, ResumesHonestly,
             EndsWhole, Before
  <2> QED
    BY <2>1, <2>2, <2>3
<1> QED
  BY <1>1, <1>2, <1>3, <1>4, <1>5, <1>6, <1>7

(* The driver only asks the node where it is when nothing it said before   *)
(* can still arrive: its timers outlast every answer, or it never asks.    *)
Patient == \A c \in Conditions : c.patient \/ c.resumes = 0

(* Nothing of the transfer is on its way when nothing at all is.           *)
LEMMA QuietIsBlank ==
    ASSUME TypeOK, Sound(n), Quiet
    PROVE  down = <<>> /\ up = <<>> /\ Blank(n)
<1>1. n.face \in {"App", "Boot"} /\ n \in SlaveNodes
  BY SlaveTypes DEF Sound
<1>2. CASE n.face = "App"
  BY <1>2 DEF Quiet, Sound, Blank
<1>3. CASE n.face = "Boot"
  <2> DEFINE status == IF n.statusPending THEN <<Report(n.state, n.expected)>> ELSE <<>>
  <2>1. n.staged = <<>> /\ BootReplies(n) = <<>>
    BY <1>3 DEF Quiet, BootHasNews
  <2>2. /\ n.opReply \in Seq(OpReplies) /\ n.replies \in Seq(WriteReplies)
        /\ n.state \in States /\ n.expected \in Offsets
    <3>1. \A r \in OpReplies : <<r>> \in Seq(OpReplies)
      OBVIOUS
    <3>2. n.opReply = <<>> \/ \E r \in OpReplies : n.opReply = <<r>>
      BY <1>1 DEF SlaveNodes
    <3>3. n.replies \in Seq(WriteReplies) /\ n.state \in States /\ n.expected \in Offsets
      BY <1>1 DEF SlaveNodes
    <3> QED
      BY <3>1, <3>2, <3>3, EmptySeq, Zenon
  <2>3. status \in Seq(Reports)
    <3>1. \A r \in Reports : <<r>> \in Seq(Reports)
      OBVIOUS
    <3>2. Report(n.state, n.expected) \in Reports /\ <<>> \in Seq(Reports)
      BY <2>2, ReplyTypes, EmptySeq
    <3> QED
      BY <3>1, <3>2, Zenon
  <2>4. status \o n.opReply \o n.replies = <<>>
    BY <2>1, Zenon DEF BootReplies
  <2> HIDE DEF status
  <2>5. n.replies = <<>>
    <3>1. Reports \subseteq Answers /\ OpReplies \subseteq Answers /\ WriteReplies \subseteq Answers
      BY DEF Answers
    <3>2. status \in Seq(Answers) /\ n.opReply \in Seq(Answers) /\ n.replies \in Seq(Answers)
      BY <2>2, <2>3, <3>1, SeqMonotonic
    <3>3. status \o n.opReply \in Seq(Answers)
      BY <3>2, ConcatProperties
    <3> QED
      BY <2>4, <3>2, <3>3, ConcatEqualIffEmpty
  <2> QED
    BY <1>3, <2>1, <2>5 DEF Quiet, Blank
<1> QED
  BY <1>1, <1>2, <1>3

(* The timers of the driver.                                               *)
LEMMA TimersPhases ==
    ASSUME Patient, TypeOK, Sound(n), Phases, Timers, pc # "Error", pc' # "Error"
    PROVE  Phases'
<1> USE DEF Timers
<1>0. UNCHANGED n
  BY TimersTypes DEF NodeUnchanged
<1>9. Get \in Requests /\ Get.op = "Get"
  BY SimpleRequests
<1>1. CASE Probe
  <2>1. Send(Get) /\ UNCHANGED <<up, pc, base, reports, writeReplies>>
    BY <1>1 DEF Probe, position, channels
  <2>2. /\ \A op : HasOp(op, down') => HasOp(op, down) \/ op = "Get"
        /\ Orderly(down) => Orderly(down')
    BY <1>9, <2>1, SendOps
  <2> QED
    BY <1>0, <2>1, <2>2, SteadyPhases
<1>2. CASE Deadline
  BY <1>2 DEF Deadline, Fail
<1>3. CASE Stall
  <2>1. pc = "Writing" /\ UNCHANGED <<up, base>>
    BY <1>3 DEF Stall, Listening
  <2>2. CASE UNCHANGED <<pc, down, channels>>
    BY <1>0, <2>1, <2>2, SteadyPhases DEF channels
  <2>3. CASE /\ resumes < bounds.resumes /\ pc' = "Resuming" /\ DrainReplies
             /\ UNCHANGED down
    <3>1. bounds.patient
      BY <2>3, BoundsType DEF TypeOK, Patient
    <3>2. down = <<>> /\ up = <<>> /\ Blank(n)
      BY <1>3, <3>1, QuietIsBlank DEF Stall, Timer
    <3>3. \A R : <<>> \in Seq(R) /\ Len(<<>>) = 0
      BY EmptySeq
    <3>4. ~HasOp("Begin", down) /\ ~HasOp("Write", down) /\ Orderly(down)
      BY <3>2, <3>3 DEF HasOp, Orderly
    <3>5. Untouched'
      BY <1>0, <2>1, <2>3, <3>2, <3>3 DEF Untouched, DrainReplies, Blank
    <3>6. ResumesHonestly'
      BY <1>0, <2>1, <2>3, <3>2, <3>3 DEF ResumesHonestly, DrainReplies
    <3> QED
      BY <2>3, <3>4, <3>5, <3>6
         DEF Phases, BeginComesFirst, BeforeWriting, FreshStart, WritesHonestly, EndsWhole
  <2> QED
    BY <1>3, <2>2, <2>3 DEF Stall, Fail
<1>4. CASE ResumeProbe
  <2>1. pc = "Resuming" /\ UNCHANGED <<up, base, reports, writeReplies>>
    BY <1>4 DEF ResumeProbe, position, channels
  <2>2. Untouched /\ Untouched' /\ ~HasOp("Write", down) /\ ~HasOp("Begin", down) /\ Orderly(down)
    BY <1>0, <2>1 DEF Phases, BeforeWriting, Before, BeginComesFirst, Untouched
  <2>3. CASE UNCHANGED pc /\ Send(Get)
    <3>1. /\ \A op : HasOp(op, down') => HasOp(op, down) \/ op = "Get"
          /\ Orderly(down) => Orderly(down')
      BY <1>9, <2>3, SendOps
    <3> QED
      BY <1>0, <2>1, <2>3, <3>1, SteadyPhases
  <2>4. CASE /\ pc' = "Reentering"
             /\ down' = IF Len(down) + 1 < bounds.room
                        THEN down \o <<Get, Set("EnterBootloader")>>
                        ELSE Append(down, Get)
    <3> DEFINE one == Append(down, Get)
               e == Set("EnterBootloader")
               two == Append(one, e)
    <3>1. down \in Seq(Requests) /\ e \in Requests /\ e.op = "EnterBootloader"
      BY SimpleRequests DEF TypeOK, Simple
    <3>2. one \in Seq(Requests)
      BY <1>9, <3>1, AppendProperties
    <3>3. down \o <<Get, e>> = two
      <4> DEFINE g == Get
      <4> HIDE DEF g, e
      <4>1. down \o <<g, e>> = Append(Append(down, g), e)
        BY <1>9, <3>1 DEF g
      <4> QED
        BY <4>1 DEF g
    <3>4. down' = two \/ down' = one
      BY <2>4, <3>3
    <3> HIDE DEF e, two
    <3>5. /\ \A op : HasOp(op, one) <=> HasOp(op, down) \/ Get.op = op
          /\ Orderly(one)
      BY <1>9, <2>2, <3>1, AppendOps
    <3> HIDE DEF one
    <3>6. /\ \A op : HasOp(op, two) <=> HasOp(op, one) \/ e.op = op
          /\ Orderly(two)
      BY <3>1, <3>2, <3>5, AppendOps DEF two
    <3>7. Orderly(down') /\ ~HasOp("Write", down') /\ ~HasOp("Begin", down')
      BY <1>9, <2>2, <3>1, <3>4, <3>5, <3>6
    <3> QED
      BY <2>2, <2>4, <3>7
         DEF Phases, BeginComesFirst, BeforeWriting, FreshStart, ResumesHonestly,
             WritesHonestly, EndsWhole
  <2> QED
    BY <1>4, <2>3, <2>4 DEF ResumeProbe
<1> QED
  BY <1>1, <1>2, <1>3, <1>4

-----------------------------------------------------------------------------
(* The invariant, and what follows from it.                                *)

(* They hold at the start.                                                 *)
LEMMA InitPhases == Init => Phases
<1> SUFFICES ASSUME Init PROVE Phases
  OBVIOUS
<1>1. \A R : <<>> \in Seq(R) /\ Len(<<>>) = 0
  BY EmptySeq
<1>2. down = <<Set("EnterBootloader")>> /\ pc = "Entering" /\ base = 0
      /\ up = <<>> /\ writeReplies = <<>>
  BY DEF Init
<1>3. Len(down) = 1 /\ down[1].op = "EnterBootloader"
  BY <1>2 DEF Set
<1>4. ~HasOp("Begin", down) /\ ~HasOp("Write", down) /\ Orderly(down)
  BY <1>3 DEF HasOp, Orderly
<1>5. Blank(n)
  <2>1. \A face, slot : Blank(Started(face, slot))
    BY DEF Blank, Started
  <2> QED
    BY <2>1 DEF Init
<1>6. Untouched
  BY <1>1, <1>2, <1>5 DEF Untouched
<1> QED
  BY <1>2, <1>4, <1>6
     DEF Phases, BeginComesFirst, BeforeWriting, FreshStart, ResumesHonestly,
         WritesHonestly, EndsWhole

(* Every step keeps them.                                                  *)
LEMMA PhasesKept ==
    ASSUME Patient, TypeOK, Sound(n), Phases, [Next]_vars
    PROVE  Phases'
<1>1. CASE Node \/ Mishap
  BY <1>1, NodePhases
<1>2. CASE pc' = "Error"
  BY <1>2, ErrorEndsPhases
<1>3. CASE Reading \/ Timers
  <2>1. pc = "Error" => pc' = "Error"
    <3>1. Reading \/ Timers => pc # "Error" \/ pc' = pc
      BY StepReportedCases, ResumeReportedCases
         DEF Reading, Timers, AnswerArrives, BootloaderAnswers, StepAnswered, SendChunk,
             ChunkAnswered, Listening, SendEnd, Probe, Deadline, Stall, ResumeProbe, Waiting
    <3> QED
      BY <1>3, <3>1
  <2> QED
    BY <1>2, <1>3, <2>1, ReadingPhases, TimersPhases
<1>4. CASE UNCHANGED vars
  BY <1>4
     DEF vars, link, position, counters, channels, mishaps, Phases, BeginComesFirst,
         BeforeWriting, FreshStart, ResumesHonestly, WritesHonestly, EndsWhole, Untouched
<1> QED
  BY <1>1, <1>2, <1>3, <1>4 DEF Next

(* The invariant of every push whose driver is patient.                    *)
LEMMA PhasesHold ==
    ASSUME Patient
    PROVE  Spec => [](TypeOK /\ Sound(n) /\ Phases)
<1>1. Init => TypeOK /\ Sound(n) /\ Phases
  BY InitTypes, InitPhases
<1>2. TypeOK /\ Sound(n) /\ Phases /\ [Next]_vars => (TypeOK /\ Sound(n) /\ Phases)'
  BY TypesKept, PhasesKept
<1> QED
  BY <1>1, <1>2, PTL DEF Spec

(* The driver's base is never past the chunks in the flash of a node in    *)
(* the middle of a transfer, for every window, queue and number of losses  *)
(* (writeImageWindowed): whatever Nacks, repeats or drops there are, an    *)
(* Ack that is counted was earned in this transfer.                        *)
THEOREM AcksHonest ==
    ASSUME Patient
    PROVE  Spec => []AcksAreHonest
<1>1. TypeOK /\ Sound(n) /\ Phases => AcksAreHonest
  <2> SUFFICES ASSUME TypeOK, Sound(n), Phases, pc = "Writing", n.state = "Receiving"
               PROVE  base <= n.expected
    BY DEF AcksAreHonest
  <2>1. Stored(base, n.slot) /\ n.slot = n.expected * Words + n.partial
    BY DEF Phases, WritesHonestly, Sound, Aligned
  <2>2. n.expected \in Nat /\ n.partial \in 0..(Words - 1) /\ base \in Nat
    BY SlaveTypes, SlaveConstants DEF Sound, TypeOK, Offsets
  <2>3. base = 0 \/ base * Words <= n.expected * Words + n.partial
    BY <2>1 DEF Stored
  <2>4. CASE base = 0
    BY <2>2, <2>4
  <2>5. CASE base * Words <= n.expected * Words + n.partial
    <3>1. \A a, b \in Nat, p \in 0..(Words - 1) : a * Words <= b * Words + p => a <= b
      BY WholeChunks
    <3> QED
      BY <2>2, <2>5, <3>1, Zenon
  <2> QED
    BY <2>3, <2>4, <2>5
<1> QED
  BY <1>1, PhasesHold, PTL

-----------------------------------------------------------------------------
(* A push starts as an update does.                                        *)
LEMMA StartRefines == Init => Update!Init
<1> SUFFICES ASSUME Init PROVE Update!Init
  OBVIOUS
<1>1. \/ n.face = "App" /\ n.slot = OldImage
      \/ n.face = "Boot" /\ n.slot = 0
  <2>1. \A face, slot : Started(face, slot).face = face /\ Started(face, slot).slot = slot
    BY DEF Started
  <2> QED
    BY <2>1 DEF Init
<1>2. pc = "Entering"
  BY DEF Init
<1> QED
  BY <1>1, <1>2 DEF Update!Init, Update!Old, Update!Bootable, OldImage

(* Every step of a push is a step of FirmwareUpdate, or none.              *)
LEMMA StepRefines ==
    ASSUME TypeOK, Sound(n), Phases, Phases', [Next]_vars
    PROVE  [Update!Next]_(Update!vars)
<1> USE DEF Update!Next, Update!vars
<1>1. CASE Node \/ Mishap
  <2>1. /\ pc' = pc
        /\ \/ Moves(n, n')
           \/ /\ HasOp("Begin", down)
              /\ n.face = "Boot" /\ n'.face = "Boot" /\ n'.slot \in {n.slot, 0}
    <3>1. down \in Seq(Requests)
      BY DEF TypeOK
    <3>2. down # <<>> /\ Head(down).op = "Begin" => HasOp("Begin", down)
      BY <3>1, TailOps
    <3>3. pc' = pc
      BY <1>1, NodeEffect DEF DriverUnchanged
    <3>4. \/ Moves(n, n')
          \/ /\ down # <<>> /\ Head(down).op = "Begin"
             /\ n.face = "Boot" /\ n'.face = "Boot" /\ n'.slot \in {n.slot, 0}
      BY <1>1, NodeEffect DEF Keeps
    <3> QED
      BY <3>2, <3>3, <3>4
  <2>2. n.slot \in Int /\ n'.slot \in Int /\ n'.slot <= NewImage /\ NewImage \in Nat
    <3>1. Sound(n')
      BY <1>1, NodeTypes
    <3>2. n \in Slaves /\ n' \in Slaves
      BY <3>1 DEF Sound
    <3>3. NewImage \in Nat
      BY WholeChunks
    <3> QED
      BY <3>2, <3>3, SlaveTypes
  <2>3. pc = "Done" => n.slot = NewImage /\ ~HasOp("Begin", down)
    BY DEF Phases, EndsWhole, BeginComesFirst
  <2>4. CASE n'.face = n.face /\ n'.slot = n.slot
    BY <2>1, <2>4
  <2>5. CASE n.face = "Boot" /\ n'.face = "Boot" /\ n.slot # OldImage /\ n.slot < n'.slot
    <3>1. pc # "Done" /\ n'.slot \in (n.slot + 1)..NewImage
      BY <2>2, <2>3, <2>5
    <3>2. Update!Program
      BY <2>1, <2>5, <3>1 DEF Update!Program, Update!Old, OldImage
    <3> QED
      BY <3>2
  <2>6. CASE n.face = "Boot" /\ n'.face = "App" /\ IsValid(n.slot) /\ n'.slot = n.slot
    <3>1. Update!Start
      BY <2>1, <2>6 DEF Update!Start, Update!Bootable, Update!Old, IsValid, OldImage
    <3> QED
      BY <3>1
  <2>7. CASE n.face = "App" /\ n'.face = "Boot" /\ n'.slot = n.slot
    <3>1. Update!Leave
      BY <2>1, <2>7 DEF Update!Leave
    <3> QED
      BY <3>1
  <2>8. CASE /\ HasOp("Begin", down)
             /\ n.face = "Boot" /\ n'.face = "Boot" /\ n'.slot = 0
    <3>1. Update!Erase
      BY <2>1, <2>3, <2>8 DEF Update!Erase
    <3> QED
      BY <3>1
  <2> QED
    BY <2>1, <2>4, <2>5, <2>6, <2>7, <2>8 DEF Moves
<1>2. CASE Reading \/ Timers
  <2>1. n' = n
    BY <1>2, ReadingTypes, TimersTypes DEF NodeUnchanged
  <2>2. pc' = pc \/ pc \notin {"Done", "Error"}
    BY <1>2, StepReportedCases, ResumeReportedCases
       DEF Reading, Timers, AnswerArrives, BootloaderAnswers, StepAnswered, SendChunk,
           ChunkAnswered, Listening, SendEnd, Probe, Deadline, Stall, ResumeProbe, Waiting
  <2>3. CASE pc \notin {"Done", "Error"} /\ pc' = "Error"
    BY <2>1, <2>3 DEF Update!Fail
  <2>4. CASE pc \notin {"Done", "Error"} /\ pc' = "Done"
    <3>1. n.slot = NewImage
      BY <2>1, <2>4 DEF Phases, EndsWhole
    <3> QED
      BY <2>1, <2>4, <3>1 DEF Update!Succeed
  <2>5. CASE pc' = pc \/ (pc \notin {"Done", "Error"} /\ pc' \notin {"Done", "Error"})
    BY <2>1, <2>5
  <2> QED
    BY <2>2, <2>3, <2>4, <2>5
<1>3. CASE UNCHANGED vars
  BY <1>3 DEF vars
<1> QED
  BY <1>1, <1>2, <1>3 DEF Next

(* A push is a FirmwareUpdate but for the end it comes to: the flash is    *)
(* only written under the bootloader, in order from an erase, what is      *)
(* started is whole, and a push that is done has the image in the flash,   *)
(* where nothing that is still on its way changes it (HandleActivate,      *)
(* main(), run()).                                                         *)
THEOREM MovesLikeAnUpdate ==
    ASSUME Patient
    PROVE  Spec => Update!Init /\ [][Update!Next]_(Update!vars)
<1>1. TypeOK /\ Sound(n) /\ Phases /\ Phases' /\ [Next]_vars => [Update!Next]_(Update!vars)
  BY StepRefines
<1> QED
  BY <1>1, StartRefines, PhasesHold, PTL DEF Spec

(* A step of a push keeps its promise.                                     *)
LEMMA PromiseStep ==
    Update!Promise /\ [Update!Next]_(Update!vars) => Update!Promise'
<1> SUFFICES ASSUME Update!Promise, [Update!Next]_(Update!vars) PROVE Update!Promise'
  OBVIOUS
<1> USE DEF Update!Promise
<1>1. Update!Leave => Update!Promise'
  BY DEF Update!Leave
<1>2. Update!Start => Update!Promise'
  BY DEF Update!Start, Update!Bootable
<1>3. Update!Erase \/ Update!Program => Update!Promise'
  BY DEF Update!Erase, Update!Program
<1>4. Update!Ask \/ Update!Fail => Update!Promise'
  BY DEF Update!Ask, Update!Fail, Update!Bootable
<1>5. Update!Succeed => Update!Promise'
  BY DEF Update!Succeed, Update!Bootable
<1>6. UNCHANGED Update!vars => Update!Promise'
  BY DEF Update!vars, Update!Bootable
<1> QED
  BY <1>1, <1>2, <1>3, <1>4, <1>5, <1>6 DEF Update!Next

(* Every variable of the abstract push stays in its range, for images of   *)
(* every size.                                                             *)
THEOREM UpdateTypeCorrect == Update!Spec => []Update!TypeOK
<1> USE DEF Update!Old, Update!TypeOK
<1>0. NewImage \in Nat \ {0}
  BY WholeChunks
<1>1. Update!Init => Update!TypeOK
  BY <1>0 DEF Update!Init
<1>2. Update!TypeOK /\ [Update!Next]_(Update!vars) => Update!TypeOK'
  <2> SUFFICES ASSUME Update!TypeOK, [Update!Next]_(Update!vars) PROVE Update!TypeOK'
    OBVIOUS
  <2>1. Update!Leave => Update!TypeOK'
    BY DEF Update!Leave
  <2>2. Update!Start => Update!TypeOK'
    BY DEF Update!Start
  <2>3. Update!Erase => Update!TypeOK'
    BY <1>0 DEF Update!Erase
  <2>4. Update!Program => Update!TypeOK'
    BY <1>0 DEF Update!Program
  <2>5. Update!Ask \/ Update!Fail \/ Update!Succeed => Update!TypeOK'
    BY DEF Update!Ask, Update!Fail, Update!Succeed
  <2>6. UNCHANGED Update!vars => Update!TypeOK'
    BY DEF Update!vars
  <2> QED
    BY <2>1, <2>2, <2>3, <2>4, <2>5, <2>6 DEF Update!Next
<1> QED
  BY <1>1, <1>2, PTL DEF Update!Spec

(* What FirmwareUpdate allows is enough: only a slot that is whole, with   *)
(* the new image or the old one, is ever run, and a job that is done has   *)
(* the image in the flash, where nothing but another job takes it out      *)
(* again.                                                                  *)
THEOREM PromiseKept == Update!Spec => []Update!Promise
<1>1. Update!Init => Update!Promise
  BY DEF Update!Init, Update!Promise
<1> QED
  BY <1>1, PromiseStep, PTL DEF Update!Spec

(* A node never runs a slot that was only partly programmed, and a push    *)
(* that is "done" has its image in the flash, for good.                    *)
THEOREM PushKeepsPromise ==
    ASSUME Patient
    PROVE  Spec => []Update!Promise
<1>1. Update!Init => Update!Promise
  BY DEF Update!Init, Update!Promise
<1> QED
  BY <1>1, PromiseStep, MovesLikeAnUpdate, PTL

=============================================================================
