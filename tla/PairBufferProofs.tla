-------------------------- MODULE PairBufferProofs --------------------------
(***************************************************************************)
(* Proofs about PairBuffer for every capacity, tap set, batch and bound.   *)
(* The argument is a window: what has been added and not been heard lies   *)
(* in the Capacity positions from the receiver's cursor on, and two        *)
(* positions of one window never share a slot (SlotsDistinct).  IInv says  *)
(* that and how far each thread may lag behind the other; it is inductive  *)
(* by itself.  Layout and Coverage rest on it: they place the messages and *)
(* say which samples have been added over which taps.                      *)
(***************************************************************************)
EXTENDS PairBuffer, TLAPS

\* The only multiple of the capacity strictly between -Capacity and Capacity is 0.
LEMMA SmallMultiple ==
  ASSUME NEW d \in Int, Capacity * d < Capacity, -Capacity < Capacity * d
  PROVE  d = 0
<1>1. Capacity \in Nat \ {0}
  BY CapacityAssumption
<1>2. CASE d >= 1
  <2>1. Capacity * d = Capacity * (d - 1) + Capacity
    BY <1>1, Z3
  <2>2. Capacity * (d - 1) >= 0
    BY <1>1, <1>2, Z3
  <2>3. QED
    BY <2>1, <2>2, <1>1, Z3
<1>3. CASE d <= -1
  <2>1. Capacity * d = Capacity * (d + 1) - Capacity
    BY <1>1, Z3
  <2>2. Capacity * (d + 1) <= 0
    BY <1>1, <1>3, Z3
  <2>3. QED
    BY <2>1, <2>2, <1>1, Z3
<1>4. QED
  BY <1>2, <1>3, Z3

\* Slots of two positions less than a ring apart agree only if the positions do.
LEMMA SlotInjective ==
  ASSUME NEW a \in Nat, NEW b \in Nat, Slot(a) = Slot(b),
         b - a < Capacity, -Capacity < b - a
  PROVE  a = b
<1>1. Capacity \in Nat \ {0}
  BY CapacityAssumption
<1> DEFINE qa == a \div Capacity  qb == b \div Capacity  d == qb - qa
<1>2. qa \in Int /\ qb \in Int
  BY <1>1, Z3
<1>3. a = Capacity * qa + (a % Capacity) /\ b = Capacity * qb + (b % Capacity)
  BY <1>1, Z3
<1>4. Capacity * (qb - qa) = b - a
  BY <1>1, <1>2, <1>3, Z3 DEF Slot
<1>5. d \in Int /\ Capacity * d = b - a
  BY <1>2, <1>4
<1> HIDE DEF qa, qb, d
<1>6. d = 0
  BY <1>5, SmallMultiple
<1>7. QED
  BY <1>1, <1>5, <1>6, Z3

\* A slot index stays inside the array: mask_ never leaves the allocation.
LEMMA SlotRange == ASSUME NEW a \in Nat PROVE Slot(a) \in 0..(Capacity - 1)
  BY CapacityAssumption, Z3 DEF Slot

\* Two positions less than a ring apart never share a slot, which is what makes
\* masking safe for pair_buffer.cpp's window of capacity_ positions.
LEMMA SlotsDistinct ==
  ASSUME NEW a \in Nat, NEW b \in Nat, a < b, b < a + Capacity
  PROVE  Slot(a) # Slot(b)
<1>1. b - a < Capacity /\ -Capacity < b - a
  BY CapacityAssumption
<1>2. QED
  BY <1>1, SlotInjective

\* The slot a position leaves behind is the slot of the position one ring later.
LEMMA SlotWraps == ASSUME NEW a \in Nat PROVE Slot(a + Capacity) = Slot(a)
<1>1. Capacity \in Nat \ {0}
  BY CapacityAssumption
<1> DEFINE b == a + Capacity  qa == a \div Capacity  qb == b \div Capacity
           ra == a % Capacity  rb == b % Capacity  d == qb - qa - 1
<1>2. qa \in Int /\ qb \in Int /\ ra \in 0..(Capacity - 1) /\ rb \in 0..(Capacity - 1)
  BY <1>1, Z3
<1>3. a = Capacity * qa + ra /\ b = Capacity * qb + rb
  BY <1>1, Z3
<1>4. Capacity * (qb - qa - 1) = ra - rb
  BY <1>1, <1>2, <1>3, Z3
<1>5. d \in Int /\ Capacity * d = ra - rb
  BY <1>2, <1>4
<1> HIDE DEF qa, qb, ra, rb, d
<1>6. d = 0
  BY <1>1, <1>2, <1>5, SmallMultiple
<1>7. ra = rb
  BY <1>1, <1>2, <1>5, <1>6, Z3
<1>8. QED
  BY <1>7 DEF Slot, ra, rb

\* The constants' assumptions, in the form the proofs cite them.
LEMMA Constants ==
  /\ Capacity \in Nat \ {0} /\ BaseDelay \in Nat
  /\ Gaps \subseteq Nat /\ MaxTapDelta \in Nat
  /\ MaxBatch \in Nat /\ MaxPull \in Nat /\ MaxMessages \in Nat /\ MaxPos \in Nat
  /\ Len(TapDelta) \in Nat
  /\ \A t \in TapIndex : TapDelta[t] \in Nat /\ TapDelta[t] <= MaxTapDelta
  BY CapacityAssumption, TapAssumption, BoundAssumption DEF TapIndex

\* std::min returns one of its arguments and at most either of them.
LEMMA LeastFact ==
  ASSUME NEW a \in Nat, NEW b \in Nat
  PROVE  Least(a, b) \in Nat /\ Least(a, b) <= a /\ Least(a, b) <= b
<1>1. CASE a < b
  BY <1>1 DEF Least
<1>2. CASE ~(a < b)
  BY <1>2 DEF Least
<1>3. QED
  BY <1>1, <1>2

\* scatter_add's clipping keeps a prefix that ends inside the window it loaded.
LEMMA WritableFact ==
  ASSUME NEW start \in Nat, NEW n \in Nat, NEW view \in Nat
  PROVE  LET w == Writable(start, n, view) IN
         w \in Nat /\ w <= n /\ (w > 0 => start + w <= view + Capacity)
<1>1. CASE start >= view + Capacity
  BY <1>1 DEF Writable
<1>2. CASE ~(start >= view + Capacity)
  <2> DEFINE room == view + Capacity - start
  <2>1. room \in Nat /\ start + room = view + Capacity
    BY <1>2, Constants
  <2>2. Writable(start, n, view) = Least(n, room)
    BY <1>2 DEF Writable
  <2> HIDE DEF room
  <2>3. Least(n, room) \in Nat /\ Least(n, room) <= n /\ Least(n, room) <= room
    BY <2>1, LeastFact
  <2>4. start + Least(n, room) <= view + Capacity
    BY <2>1, <2>3, Constants
  <2>5. QED
    BY <2>2, <2>3, <2>4
<1>3. QED
  BY <1>1, <1>2

\* read_advance takes at most what lies between read_pos and the loaded watermark.
LEMMA AvailableFact ==
  ASSUME NEW mark \in Nat, readPos \in Nat, readPos <= mark, NEW count \in Nat
  PROVE  /\ Least(count, Available(mark)) \in Nat
         /\ readPos + Least(count, Available(mark)) <= mark
<1> DEFINE room == Available(mark)
<1>1. room \in Nat /\ readPos + room = mark
  <2>1. CASE mark > readPos
    BY <2>1 DEF Available
  <2>2. CASE ~(mark > readPos)
    BY <2>2 DEF Available
  <2>3. QED
    BY <2>1, <2>2
<1> HIDE DEF room
<1>2. Least(count, room) \in Nat /\ Least(count, room) <= room
  BY <1>1, LeastFact
<1>3. readPos + Least(count, room) <= mark
  BY <1>1, <1>2
<1>4. QED
  BY <1>2, <1>3 DEF room

-----------------------------------------------------------------------------
\* The source's scatter position lies in the receiver's window, ahead of what
\* the receiver may be reading: the heart of the single-producer single-consumer
\* argument of pair_buffer.cpp.
LEMMA AddInWindow ==
  ASSUME IInv, Adding
  PROVE  /\ AddPos \in Position /\ Sample \in Contribution
         /\ writeWatermark <= AddPos
         /\ Cursor \in Nat /\ Cursor <= AddPos
         /\ AddPos < seenRead + Capacity /\ AddPos < Cursor + Capacity
<1>1. tap \in TapIndex /\ TapDelta[tap] \in Nat /\ TapDelta[tap] <= MaxTapDelta
  BY Constants DEF IInv, Placement, Adding
<1>2. /\ AddPos = writeOrigin + processed + TapDelta[tap] + added
      /\ AddPos \in Nat
  BY <1>1 DEF IInv, TypeOK, AddPos, ScatterStart
<1>3. /\ added < toWrite /\ toWrite <= batch
      /\ writeOrigin + processed + TapDelta[tap] + toWrite <= seenRead + Capacity
      /\ writeOrigin + processed + batch + MaxTapDelta <= MaxPos
      /\ writeWatermark <= writeOrigin + processed
      /\ msg \in 1..MaxMessages
  BY DEF IInv, Placement, Adding, ScatterStart
<1>4. AddPos \in Position
  BY <1>1, <1>2, <1>3, Constants DEF IInv, TypeOK, Position
<1>5. processed + added \in Position
  BY <1>1, <1>3, Constants DEF IInv, TypeOK, Position
<1>6. Sample \in Contribution
  BY <1>1, <1>3, <1>5 DEF Sample, Contribution
<1>7. writeWatermark <= AddPos /\ AddPos < seenRead + Capacity
  BY <1>1, <1>2, <1>3, Constants DEF IInv, TypeOK, Position
<1>8. Cursor \in Nat /\ Cursor <= writeWatermark /\ readPos <= Cursor /\ seenRead <= readPos
  BY DEF IInv, TypeOK, Views, Cursor, Position
<1>9. QED
  BY <1>2, <1>4, <1>6, <1>7, <1>8, Constants DEF IInv, TypeOK, Position

\* The position the receiver copies is below the committed watermark.
LEMMA ReadInWindow ==
  ASSUME IInv, Reading
  PROVE  Cursor \in Position /\ Cursor < seenMark
  BY Constants DEF IInv, TypeOK, Views, Cursor, Position, Reading

-----------------------------------------------------------------------------
\* A newly constructed PairBuffer satisfies the invariant.
LEMMA InitIInv == Init => IInv
<1> SUFFICES ASSUME Init PROVE IInv
  OBVIOUS
<1>1. TypeOK
  BY Constants DEF Init, TypeOK, Position
<1>2. Views /\ Placement
  BY Constants DEF Init, Views, Placement, Adding
<1>3. Contents
  <2>1. \A p \in Position : buffer[Slot(p)] = {} /\ At(p) = {}
    BY SlotRange DEF Init, At, Position
  <2>2. QED
    BY <2>1 DEF Init, Contents
<1>4. QED
  BY <1>1, <1>2, <1>3 DEF IInv

\* begin_message places the message at or above the watermark.
LEMMA BeginMessageIInv ==
  ASSUME IInv, NEW gap \in Gaps, NEW absolute \in BOOLEAN, BeginMessage(gap, absolute)
  PROVE  IInv'
<1> USE Constants DEF IInv
<1>1. NewOrigin(gap, absolute) \in Nat /\ writeWatermark <= NewOrigin(gap, absolute)
  BY DEF TypeOK, Placement, NewOrigin, Position
<1>2. TypeOK'
  <2>1. /\ writeOrigin' \in Nat /\ firstMessage' = FALSE /\ processed' = 0 /\ pAt' = "open"
        /\ msg' \in 0..MaxMessages
    BY <1>1 DEF TypeOK, BeginMessage
  <2>2. UNCHANGED <<shared, receiver, history, batch, tap, seenRead, toWrite, added>>
    BY DEF BeginMessage
  <2>3. QED
    BY <2>1, <2>2 DEF TypeOK, shared, receiver, history
<1>3. Views'
  BY DEF Views, BeginMessage, shared, receiver
<1>4. Placement'
  BY <1>1 DEF TypeOK, Placement, BeginMessage, shared, Adding
<1>5. Contents'
  BY DEF Contents, BeginMessage, shared, receiver, history, At, Cursor
<1>6. QED
  BY <1>2, <1>3, <1>4, <1>5

\* A new batch of the renderer fits above the watermark.
LEMMA StartBatchIInv ==
  ASSUME IInv, NEW n \in 1..MaxBatch, StartBatch(n)
  PROVE  IInv'
<1> USE Constants DEF IInv
<1>1. TypeOK'
  BY DEF TypeOK, StartBatch, shared, receiver, history
<1>2. Views'
  BY DEF Views, StartBatch, shared, receiver
<1>3. Placement'
  BY DEF TypeOK, Placement, StartBatch, shared, history, Adding, TapIndex
<1>4. Contents'
  BY DEF Contents, StartBatch, shared, receiver, history, At, Cursor
<1>5. QED
  BY <1>1, <1>2, <1>3, <1>4

\* scatter_add's load and clipping leave a range inside the window.
LEMMA ScatterLoadIInv ==
  ASSUME IInv, ScatterLoad
  PROVE  IInv'
<1> USE Constants DEF IInv
<1> DEFINE w == Writable(ScatterStart, batch, seenRead')
<1>1. /\ pAt = "load" /\ tap \in TapIndex /\ TapDelta[tap] \in Nat
      /\ batch \in Nat \ {0} /\ ScatterStart \in Nat
  BY DEF ScatterLoad, TypeOK, Placement, ScatterStart
<1>2. seenRead' \in Nat /\ seenRead' <= readPos
  BY DEF ScatterLoad, TypeOK, Views, Position
<1>3. w \in Nat /\ w <= batch /\ (w > 0 => ScatterStart + w <= seenRead' + Capacity)
  BY <1>1, <1>2, WritableFact
<1>4. /\ toWrite' = w /\ added' = 0
      /\ overflowDrops' = overflowDrops + (batch - w)
      /\ w = 0 => pAt' = AfterTap /\ tap' = tap + 1
      /\ w # 0 => pAt' = "add" /\ tap' = tap
      /\ UNCHANGED <<buffer, readPos, writeWatermark, receiver, history, writeOrigin,
                     firstMessage, msg, processed, batch>>
  BY DEF ScatterLoad
<1> HIDE DEF w
<1>5. TypeOK'
  BY <1>1, <1>2, <1>3, <1>4 DEF TypeOK, AfterTap, receiver, history, TapIndex
<1>6. Views'
  BY <1>2, <1>4 DEF Views, receiver
<1>7. Placement'
  BY <1>1, <1>2, <1>3, <1>4
     DEF TypeOK, Placement, AfterTap, ScatterStart, Adding, TapIndex, receiver, history
<1>8. Contents'
  BY <1>4 DEF Contents, receiver, history, At, Cursor
<1>9. QED
  BY <1>5, <1>6, <1>7, <1>8

\* A turn of scatter_add's loop changes only the slot of its own position.
LEMMA ScatterSlotIInv ==
  ASSUME IInv, ScatterSlot
  PROVE  IInv'
<1> USE Constants DEF IInv
<1>1. Adding
  BY DEF ScatterSlot, Adding
<1>2. /\ AddPos \in Position /\ Sample \in Contribution
      /\ writeWatermark <= AddPos /\ Cursor \in Nat /\ Cursor <= AddPos
      /\ AddPos < seenRead + Capacity /\ AddPos < Cursor + Capacity
  BY <1>1, AddInWindow
<1>3. Slot(AddPos) \in 0..(Capacity - 1)
  BY <1>2, SlotRange DEF Position
<1>4. TypeOK'
  BY <1>2, <1>3 DEF TypeOK, ScatterSlot, AfterTap, receiver
<1>5. Views'
  BY DEF Views, ScatterSlot, receiver
<1>6. Placement'
  BY <1>1 DEF TypeOK, Placement, ScatterSlot, AfterTap, ScatterStart, Adding, TapIndex
<1>7. Contents'
  <2>1. /\ mixed' = mixed \union {<<AddPos, Sample>>}
        /\ Cursor' = Cursor /\ readPos' = readPos /\ heard' = heard
        /\ buffer' = [buffer EXCEPT ![Slot(AddPos)] = @ \union {Sample}]
    BY DEF ScatterSlot, receiver, Cursor
  <2>2. \A x \in mixed' : x[1] < readPos' + Capacity
    <3>1. AddPos < readPos + Capacity
      BY <1>2 DEF TypeOK, Views, Position
    <3>2. QED
      BY <2>1, <3>1 DEF Contents
  <2>3. ASSUME NEW p \in Position, Cursor <= p, p < Cursor + Capacity
        PROVE  buffer'[Slot(p)] = At(p)'
    <3>1. Slot(p) \in 0..(Capacity - 1) /\ buffer[Slot(p)] = At(p)
      BY <2>3, SlotRange DEF Position, Contents
    <3>2. CASE p = AddPos
      <4>1. At(p)' = At(p) \union {Sample}
        BY <1>2, <2>1, <3>2 DEF At
      <4>2. buffer'[Slot(p)] = buffer[Slot(p)] \union {Sample}
        BY <2>1, <3>1, <3>2 DEF TypeOK
      <4>3. QED
        BY <3>1, <4>1, <4>2
    <3>3. CASE p # AddPos
      <4>1. Slot(p) # Slot(AddPos)
        <5>1. CASE p < AddPos
          BY <5>1, <1>2, <2>3, SlotsDistinct DEF Position
        <5>2. CASE AddPos < p
          BY <5>2, <1>2, <2>3, SlotsDistinct DEF Position
        <5>3. QED
          BY <5>1, <5>2, <3>3, <1>2 DEF Position
      <4>2. buffer'[Slot(p)] = buffer[Slot(p)]
        BY <2>1, <3>1, <4>1 DEF TypeOK
      <4>3. At(p)' = At(p)
        BY <2>1, <3>3 DEF At
      <4>4. QED
        BY <3>1, <4>2, <4>3
    <3>4. QED
      BY <3>2, <3>3
  <2>4. heard' = {x \in mixed' : x[1] < Cursor'}
    BY <1>2, <2>1 DEF Contents, Position
  <2>5. QED
    BY <2>1, <2>2, <2>3, <2>4 DEF Contents
<1>8. QED
  BY <1>4, <1>5, <1>6, <1>7

\* commit_source_progress moves the watermark up and disturbs no view of it.
LEMMA CommitProgressIInv ==
  ASSUME IInv, CommitProgress
  PROVE  IInv'
<1> USE Constants DEF IInv
<1>1. /\ pAt = "commit"
      /\ writeOrigin + processed + batch + MaxTapDelta <= MaxPos
      /\ writeWatermark <= writeOrigin + processed
  BY DEF CommitProgress, Placement
<1>2. /\ processed' = processed + batch
      /\ writeWatermark' = writeOrigin + processed + batch
  BY <1>1 DEF CommitProgress, TypeOK, Position, Placement
<1>3. TypeOK'
  BY <1>1, <1>2 DEF TypeOK, CommitProgress, receiver, history, Position
<1>4. Views'
  BY <1>1, <1>2 DEF Views, TypeOK, CommitProgress, receiver, Position
<1>5. Placement'
  <2>1. /\ ~firstMessage /\ pAt' = "open" /\ msg \in 1..MaxMessages
        /\ UNCHANGED <<writeOrigin, firstMessage, msg>>
    BY <1>1 DEF Placement, CommitProgress
  <2>2. /\ writeOrigin \in Nat /\ processed \in Nat /\ batch \in Nat
    BY DEF TypeOK
  <2>3. QED
    BY <1>1, <1>2, <2>1, <2>2 DEF Placement, Adding
<1>6. Contents'
  BY DEF Contents, CommitProgress, receiver, history, At, Cursor
<1>7. QED
  BY <1>3, <1>4, <1>5, <1>6

\* commit_extra moves the watermark up to the end of the tail.
LEMMA CommitExtraIInv ==
  ASSUME IInv, CommitExtra
  PROVE  IInv'
<1> USE Constants DEF IInv
<1>1. TypeOK'
  BY DEF TypeOK, CommitExtra, TailLength, Placement, receiver, history, Position
<1>2. Views'
  BY DEF Views, TypeOK, CommitExtra, TailLength, receiver, Position
<1>3. Placement'
  BY DEF TypeOK, Placement, CommitExtra, TailLength, history, Adding
<1>4. Contents'
  BY DEF Contents, CommitExtra, TailLength, receiver, history, At, Cursor
<1>5. QED
  BY <1>1, <1>2, <1>3, <1>4

\* read_advance's load bounds what it will read by the watermark.
LEMMA ReadBeginIInv ==
  ASSUME IInv, NEW count \in 1..MaxPull, ReadBegin(count)
  PROVE  IInv'
<1> USE Constants DEF IInv
<1>1. /\ seenMark' \in Nat /\ seenMark <= seenMark' /\ seenMark' <= writeWatermark
      /\ toRead = 0 /\ got = 0 /\ got' = 0
  BY DEF ReadBegin, TypeOK, Views, Position
<1>2. toRead' \in Nat /\ readPos + toRead' <= seenMark'
  <2>1. readPos \in Nat /\ seenMark' \in Nat /\ readPos <= seenMark'
    BY <1>1 DEF TypeOK, Views, Position
  <2>2. toRead' = Least(count, Available(seenMark')) /\ count \in Nat
    BY DEF ReadBegin
  <2>3. QED
    BY <2>1, <2>2, AvailableFact, Zenon
<1>3. TypeOK'
  BY <1>1, <1>2 DEF TypeOK, ReadBegin, shared, source, history
<1>4. Views'
  BY <1>1, <1>2 DEF Views, TypeOK, ReadBegin, shared, source, Position
<1>5. Placement'
  BY DEF Placement, ReadBegin, shared, source, history, Adding, ScatterStart
<1>6. Contents'
  BY DEF Contents, ReadBegin, shared, history, At, Cursor
<1>7. QED
  BY <1>3, <1>4, <1>5, <1>6

\* A turn of read_advance's loop hears one position and frees its slot for the next lap.
LEMMA ReadSlotIInv ==
  ASSUME IInv, ReadSlot
  PROVE  IInv'
<1> USE Constants DEF IInv
<1>1. Cursor \in Position /\ Cursor < seenMark /\ Slot(Cursor) \in 0..(Capacity - 1)
  <2>1. Reading
    BY DEF ReadSlot, Reading
  <2>2. QED
    BY <2>1, ReadInWindow, SlotRange DEF Position
<1>2. buffer[Slot(Cursor)] = At(Cursor)
  BY <1>1 DEF Contents, Position
<1>3. Cursor' = Cursor + 1
  BY DEF ReadSlot, Cursor, source, TypeOK, Position
<1>4. heard' = heard \union {<<Cursor, c>> : c \in At(Cursor)}
  BY <1>2 DEF ReadSlot
<1>5. {<<Cursor, c>> : c \in At(Cursor)} = {x \in mixed : x[1] = Cursor}
  <2>1. \A x \in mixed : x[1] = Cursor => x[2] \in At(Cursor) /\ x = <<Cursor, x[2]>>
    BY <1>1 DEF At, TypeOK
  <2>2. \A c \in At(Cursor) : <<Cursor, c>> \in mixed
    BY DEF At
  <2>3. QED
    BY <2>1, <2>2
<1>6. TypeOK'
  <2>1. heard' \subseteq Position \X Contribution
    BY <1>4, <1>5 DEF TypeOK
  <2>2. QED
    BY <1>1, <2>1 DEF TypeOK, ReadSlot, Zeroed, source
<1>7. Views'
  BY DEF Views, TypeOK, ReadSlot, source
<1>8. Placement'
  BY DEF Placement, ReadSlot, source, Adding, ScatterStart
<1>9. Contents'
  <2>1. heard' = {x \in mixed' : x[1] < Cursor'}
    <3>1. mixed' = mixed /\ heard = {x \in mixed : x[1] < Cursor}
      BY DEF ReadSlot, Contents
    <3>2. \A x \in mixed : x[1] < Cursor + 1 <=> x[1] < Cursor \/ x[1] = Cursor
      BY <1>1 DEF TypeOK, Position
    <3>3. QED
      BY <1>3, <1>4, <1>5, <3>1, <3>2
  <2>2. \A x \in mixed' : x[1] < readPos' + Capacity
    BY DEF ReadSlot, Contents
  <2>3. ASSUME NEW p \in Position, Cursor' <= p, p < Cursor' + Capacity
        PROVE  buffer'[Slot(p)] = At(p)'
    <3>1. At(p)' = At(p) /\ Slot(p) \in 0..(Capacity - 1)
      BY SlotRange DEF ReadSlot, At, Position
    <3>2. CASE p = Cursor + Capacity
      <4>1. Slot(p) = Slot(Cursor)
        BY <3>2, <1>1, SlotWraps DEF Position
      <4>2. buffer'[Slot(p)] = {}
        BY <4>1, <1>1 DEF ReadSlot, Zeroed, TypeOK
      <4>3. At(p) = {}
        <5>1. \A x \in mixed : x[1] < p
          BY <3>2 DEF Contents, Cursor, TypeOK, Position
        <5>2. QED
          BY <5>1 DEF At, Position
      <4>4. QED
        BY <3>1, <4>2, <4>3
    <3>3. CASE p # Cursor + Capacity
      <4>1. Cursor < p /\ p < Cursor + Capacity
        BY <1>1, <1>3, <2>3, <3>3 DEF Position
      <4>2. Slot(Cursor) # Slot(p)
        BY <1>1, <4>1, SlotsDistinct DEF Position
      <4>3. buffer'[Slot(p)] = buffer[Slot(p)]
        BY <1>1, <3>1, <4>2 DEF ReadSlot, Zeroed, TypeOK
      <4>4. buffer[Slot(p)] = At(p)
        BY <1>1, <4>1 DEF Contents, Position
      <4>5. QED
        BY <3>1, <4>3, <4>4
    <3>4. QED
      BY <3>2, <3>3
  <2>4. QED
    BY <2>1, <2>2, <2>3 DEF Contents
<1>10. QED
  BY <1>6, <1>7, <1>8, <1>9

\* read_pos_.store hands back slots that are all zero.
LEMMA ReadPublishIInv ==
  ASSUME IInv, ReadPublish
  PROVE  IInv'
<1> USE Constants DEF IInv
<1>1. /\ readPos' = readPos + toRead /\ readPos' \in Position /\ readPos <= readPos'
      /\ readPos' <= seenMark /\ Cursor' = Cursor
  BY DEF ReadPublish, TypeOK, Views, Cursor, Position
<1>2. TypeOK'
  BY <1>1 DEF TypeOK, ReadPublish, source, history
<1>3. Views'
  BY <1>1 DEF Views, TypeOK, ReadPublish, source, Position
<1>4. Placement'
  BY DEF Placement, ReadPublish, source, history, Adding, ScatterStart
<1>5. Contents'
  <2>1. \A x \in mixed' : x[1] < readPos' + Capacity
    BY <1>1 DEF Contents, ReadPublish, history, TypeOK, Position
  <2>2. QED
    BY <1>1, <2>1 DEF Contents, ReadPublish, history, At
<1>6. QED
  BY <1>2, <1>3, <1>4, <1>5

\* The invariant reads no other variables.
LEMMA StutterIInv ==
  ASSUME IInv, UNCHANGED vars
  PROVE  IInv'
<1> USE DEF vars, shared, source, receiver, history
<1>1. TypeOK' /\ Views'
  BY DEF IInv, TypeOK, Views
<1>2. Placement' /\ Contents'
  BY DEF IInv, Placement, Contents, Adding, ScatterStart, At, Cursor
<1>3. QED
  BY <1>1, <1>2 DEF IInv

\* IInv is inductive: it holds initially and every step of either thread keeps it.
THEOREM IInvHolds == Spec => []IInv
<1>1. Init => IInv
  BY InitIInv
<1>2. IInv /\ [Next]_vars => IInv'
  <2> SUFFICES ASSUME IInv, [Next]_vars PROVE IInv'
    OBVIOUS
  <2>1. ASSUME NEW gap \in Gaps, NEW absolute \in BOOLEAN, BeginMessage(gap, absolute)
        PROVE  IInv'
    BY <2>1, BeginMessageIInv
  <2>2. ASSUME Render PROVE IInv'
    BY <2>2, StartBatchIInv, ScatterLoadIInv, ScatterSlotIInv,
       CommitProgressIInv, CommitExtraIInv DEF Render
  <2>3. ASSUME Pull PROVE IInv'
    BY <2>3, ReadBeginIInv, ReadSlotIInv, ReadPublishIInv DEF Pull
  <2>4. CASE UNCHANGED vars
    BY <2>4, StutterIInv
  <2>5. QED
    BY <2>1, <2>2, <2>3, <2>4 DEF Next
<1>3. QED
  BY <1>1, <1>2, PTL DEF Spec

\* Every variable keeps its type and positions stay in range (pair_buffer.hpp).
THEOREM TypeCorrect == Spec => []TypeOK
<1>1. IInv => TypeOK
  BY DEF IInv
<1>2. QED
  BY <1>1, IInvHolds, PTL

-----------------------------------------------------------------------------
\* No slot is accessed by both threads at once: pair_buffer.cpp's two loops
\* never need a lock, for any capacity, taps, batch and pull sizes.
THEOREM RaceFree == Spec => []NoSlotRace
<1>1. IInv => NoSlotRace
  <2> SUFFICES ASSUME IInv, Adding, Reading PROVE Slot(AddPos) # Slot(Cursor)
    BY DEF NoSlotRace
  <2>1. AddPos \in Nat /\ writeWatermark <= AddPos /\ AddPos < Cursor + Capacity
    BY AddInWindow, Constants DEF Position
  <2>2. Cursor \in Nat /\ Cursor < seenMark
    BY ReadInWindow, Constants DEF Position
  <2>3. Cursor < AddPos
    BY <2>1, <2>2 DEF IInv, TypeOK, Views, Position
  <2>4. QED
    BY <2>1, <2>2, <2>3, SlotsDistinct
<1>2. QED
  BY <1>1, IInvHolds, PTL

\* The release stores of read_pos_ and write_watermark_ order every access to a
\* slot before the other thread's next access to it.
THEOREM HandedOver == Spec => []SlotHandedOver
<1>1. IInv => SlotHandedOver
  <2> SUFFICES ASSUME IInv PROVE SlotHandedOver
    OBVIOUS
  <2>1. ASSUME Adding, NEW q \in 0..(Cursor - 1), Slot(q) = Slot(AddPos)
        PROVE  q < seenRead
    <3>1. /\ AddPos \in Nat /\ Cursor \in Nat /\ Cursor <= AddPos
          /\ AddPos < seenRead + Capacity
      BY <2>1, AddInWindow, Constants DEF Position
    <3>2. q \in Nat /\ q < AddPos
      BY <3>1
    <3>3. ~(AddPos < q + Capacity)
      BY <2>1, <3>1, <3>2, SlotsDistinct
    <3>4. QED
      BY <3>1, <3>2, <3>3, Constants DEF IInv, TypeOK
  <2>2. ASSUME Reading, NEW x \in mixed, Slot(x[1]) = Slot(Cursor)
        PROVE  x[1] < seenMark
    <3>1. Cursor \in Nat /\ Cursor < seenMark /\ seenMark \in Nat
      BY <2>2, ReadInWindow, Constants DEF Position, IInv, TypeOK
    <3>2. x[1] \in Nat /\ x[1] < Cursor + Capacity
      BY Constants DEF IInv, TypeOK, Contents, Cursor, Position
    <3>3. ~(Cursor < x[1])
      BY <2>2, <3>1, <3>2, SlotsDistinct
    <3>4. QED
      BY <3>1, <3>2, <3>3
  <2>3. QED
    BY <2>1, <2>2 DEF SlotHandedOver
<1>2. QED
  BY <1>1, IInvHolds, PTL

\* scatter_add's comment: the slots it reaches are zero, or already hold samples
\* of the same receiver-time position.
THEOREM AddsToCleanSlate == Spec => []CleanSlate
<1>1. IInv => CleanSlate
  <2> SUFFICES ASSUME IInv, Adding PROVE \A c \in buffer[Slot(AddPos)] : <<AddPos, c>> \in mixed
    BY DEF CleanSlate
  <2>1. AddPos \in Position /\ Cursor <= AddPos /\ AddPos < Cursor + Capacity
    BY AddInWindow
  <2>2. buffer[Slot(AddPos)] = At(AddPos)
    BY <2>1 DEF IInv, Contents
  <2>3. QED
    BY <2>2 DEF At
<1>2. QED
  BY <1>1, IInvHolds, PTL

-----------------------------------------------------------------------------
\* Nothing is placed before the first message.
LEMMA LayoutInit == Init => Layout /\ MessagesDisjoint
  BY DEF Init, Layout, MessagesDisjoint

\* Every step keeps the messages apart: only begin_message places one, above all others.
LEMMA LayoutStep ==
  ASSUME IInv, Layout, MessagesDisjoint, [Next]_vars
  PROVE  Layout' /\ MessagesDisjoint'
<1> USE Constants
<1>1. \A x \in mixed : x[1] \in Nat /\ x[2].msg \in Nat
  BY DEF IInv, TypeOK, Position, Contribution
<1>2. /\ writeWatermark \in Nat /\ writeOrigin \in Nat /\ processed \in Nat
      /\ batch \in Nat /\ msg \in Nat
  BY DEF IInv, TypeOK, Position
<1>3. ASSUME NEW gap \in Gaps, NEW absolute \in BOOLEAN, BeginMessage(gap, absolute)
      PROVE  Layout' /\ MessagesDisjoint'
  <2>1. /\ pAt = "idle" /\ pAt' = "open" /\ msg' = msg + 1 /\ mixed' = mixed
        /\ writeWatermark' = writeWatermark /\ writeOrigin' = NewOrigin(gap, absolute)
    BY <1>3 DEF BeginMessage, shared, history
  <2>2. \A x \in mixed : x[1] < writeWatermark /\ x[2].msg < msg + 1
    BY <1>1, <1>2, <2>1 DEF Layout
  <2>3. \A x \in mixed : x[1] < NewOrigin(gap, absolute)
    <3>1. CASE firstMessage /\ ~absolute
      BY <3>1 DEF IInv, Placement
    <3>2. CASE ~(firstMessage /\ ~absolute)
      <4>1. NewOrigin(gap, absolute) = writeWatermark + gap /\ gap \in Nat
        BY <3>2 DEF NewOrigin
      <4>2. QED
        BY <1>1, <1>2, <2>2, <4>1
    <3>3. QED
      BY <3>1, <3>2
  <2>4. Layout'
    BY <1>1, <1>2, <2>1, <2>2, <2>3 DEF Layout
  <2>5. QED
    BY <2>1, <2>4 DEF MessagesDisjoint
<1>4. ASSUME NEW n \in 1..MaxBatch, StartBatch(n)
      PROVE  Layout' /\ MessagesDisjoint'
  <2>1. /\ pAt = "open" /\ pAt' \in {"load", "commit"} /\ msg' = msg /\ mixed' = mixed
        /\ writeWatermark' = writeWatermark /\ writeOrigin' = writeOrigin
        /\ processed' = processed /\ batch' = n
    BY <1>4 DEF StartBatch, shared, history
  <2>2. writeWatermark <= writeOrigin + processed
    BY <2>1 DEF IInv, Placement
  <2>3. \A x \in mixed : x[1] < writeOrigin + processed + n + MaxTapDelta
    BY <1>1, <1>2, <2>1, <2>2 DEF Layout
  <2>4. QED
    BY <2>1, <2>3 DEF Layout, MessagesDisjoint
<1>5. ASSUME ScatterLoad PROVE Layout' /\ MessagesDisjoint'
  <2>1. /\ pAt = "load" /\ pAt' \in {"load", "add", "commit"}
        /\ UNCHANGED <<mixed, msg, writeWatermark, writeOrigin, processed, batch>>
    BY <1>5 DEF ScatterLoad, AfterTap, history
  <2>2. QED
    BY <2>1 DEF Layout, MessagesDisjoint
<1>6. ASSUME ScatterSlot PROVE Layout' /\ MessagesDisjoint'
  <2>1. /\ pAt = "add" /\ pAt' \in {"load", "add", "commit"}
        /\ mixed' = mixed \union {<<AddPos, Sample>>}
        /\ UNCHANGED <<msg, writeWatermark, writeOrigin, processed, batch>>
    BY <1>6 DEF ScatterSlot, AfterTap
  <2>2. /\ AddPos \in Nat /\ writeOrigin <= AddPos /\ Sample.msg = msg
        /\ AddPos < writeOrigin + processed + batch + MaxTapDelta
    BY <2>1 DEF IInv, TypeOK, Placement, Adding, AddPos, ScatterStart, Sample
  <2>3. \A x \in mixed : /\ x[2].msg <= msg
                         /\ x[2].msg < msg <=> x[1] < writeOrigin
                         /\ x[1] < writeOrigin + processed + batch + MaxTapDelta
    BY <2>1 DEF Layout
  <2>4. Layout'
    BY <1>2, <2>1, <2>2, <2>3 DEF Layout
  <2>5. MessagesDisjoint'
    <3>1. ASSUME NEW x \in mixed, NEW y \in mixed, x[2].msg < y[2].msg PROVE x[1] < y[1]
      BY <3>1 DEF MessagesDisjoint
    <3>2. ASSUME NEW x \in mixed, x[2].msg < msg PROVE x[1] < AddPos
      BY <1>1, <1>2, <2>2, <2>3, <3>2
    <3>3. \A y \in mixed : ~(msg < y[2].msg)
      BY <1>1, <1>2, <2>3
    <3>4. \A x \in mixed' : x \in mixed \/ (x[1] = AddPos /\ x[2].msg = msg)
      BY <2>1, <2>2
    <3>5. ~(msg < msg)
      BY <1>2
    <3>6. QED
      BY <3>1, <3>2, <3>3, <3>4, <3>5 DEF MessagesDisjoint
  <2>6. QED
    BY <2>4, <2>5
<1>7. ASSUME CommitProgress PROVE Layout' /\ MessagesDisjoint'
  <2>1. /\ pAt = "commit" /\ pAt' = "open" /\ processed' = processed + batch
        /\ UNCHANGED <<mixed, msg, writeOrigin, batch>>
    BY <1>7 DEF CommitProgress, history
  <2>2. writeWatermark' = writeOrigin + processed + batch
    BY <1>2, <1>7, <2>1 DEF CommitProgress, IInv, Placement
  <2>3. QED
    BY <2>1, <2>2 DEF Layout, MessagesDisjoint
<1>8. ASSUME CommitExtra PROVE Layout' /\ MessagesDisjoint'
  <2>1. /\ pAt = "open" /\ pAt' = "idle" /\ writeWatermark' = writeWatermark + MaxTapDelta
        /\ UNCHANGED <<mixed, msg, writeOrigin>>
    BY <1>8 DEF CommitExtra, TailLength, history
  <2>2. QED
    BY <2>1 DEF Layout, MessagesDisjoint
<1>9. ASSUME Pull PROVE Layout' /\ MessagesDisjoint'
  <2>1. UNCHANGED <<mixed, writeWatermark, source>>
    BY <1>9 DEF Pull, ReadBegin, ReadSlot, ReadPublish, shared, history
  <2>2. QED
    BY <2>1 DEF Layout, MessagesDisjoint, source
<1>10. CASE UNCHANGED vars
  BY <1>10 DEF vars, shared, source, history, Layout, MessagesDisjoint
<1>11. QED
  BY <1>3, <1>4, <1>5, <1>6, <1>7, <1>8, <1>9, <1>10 DEF Next, Render

\* Messages never overlap at the receiver: begin_message starts behind the
\* watermark, which commit_extra has moved behind the tail of the one before.
THEOREM Disjoint == Spec => []MessagesDisjoint
<1>1. Init => Layout /\ MessagesDisjoint
  BY LayoutInit
<1>2. IInv /\ Layout /\ MessagesDisjoint /\ [Next]_vars => Layout' /\ MessagesDisjoint'
  BY LayoutStep
<1>3. QED
  BY <1>1, <1>2, IInvHolds, PTL DEF Spec

-----------------------------------------------------------------------------
\* The parts of a mixed sample have their types.
LEMMA MixedFact ==
  ASSUME IInv, NEW x \in mixed
  PROVE  /\ x[1] \in Nat /\ x[2].msg \in Nat /\ x[2].idx \in Position
         /\ x[2].idx \in Nat /\ x[2].tap \in TapIndex /\ x = <<x[1], x[2]>>
         /\ x[2] = [msg |-> x[2].msg, tap |-> x[2].tap, idx |-> x[2].idx]
  BY Constants DEF IInv, TypeOK, Position, Contribution

\* Order facts the coverage proof uses on indices.
LEMMA NatOrder ==
  ASSUME NEW a \in Nat, NEW b \in Nat
  PROVE  /\ a <= b => a < b \/ a = b
         /\ ~(a < b) => b <= a
         /\ \A n \in Nat : a < b => a < b + n
  OBVIOUS

\* Moving a sample from one tap to another is independent of the tap it was added over.
LEMMA EchoShift ==
  ASSUME NEW o \in Nat, NEW k \in Nat, NEW d \in Nat, NEW e \in Nat
  PROVE  o + k + d - d + e = o + k + e
  OBVIOUS

\* Nothing is added and nothing is due at the start.
LEMMA CoverageInit == Init => Coverage
  BY DEF Init, Coverage, Adding

\* Every step keeps the record of what each tap has added; only the last tap leads to a commit.
LEMMA CoverageStep ==
  ASSUME IInv, Layout, Coverage, [Next]_vars
  PROVE  Coverage'
<1> USE Constants
<1>1. /\ writeOrigin \in Nat /\ processed \in Nat /\ overflowDrops \in Nat
      /\ batch \in Nat /\ msg \in Nat /\ tap \in Nat /\ added \in Nat
  BY DEF IInv, TypeOK
<1>2. ASSUME NEW gap \in Gaps, NEW absolute \in BOOLEAN, BeginMessage(gap, absolute)
      PROVE  Coverage'
  <2>1. /\ pAt = "idle" /\ pAt' = "open" /\ msg' = msg + 1 /\ mixed' = mixed
        /\ overflowDrops' = overflowDrops /\ processed' = 0
    BY <1>2 DEF BeginMessage, shared, history
  <2>2. \A x \in mixed : x[2].msg <= msg
    BY DEF Layout
  <2>3. \A x \in mixed : x[2].msg # msg + 1
    BY <1>1, <2>2, MixedFact
  <2>4. overflowDrops = 0 => \A x \in mixed : AllPaths(x)
    <3>1. \A x \in mixed : x[2].msg < msg \/ x[2].msg = msg
      BY <1>1, <2>2, MixedFact, NatOrder
    <3>2. QED
      BY <2>1, <3>1 DEF Coverage
  <2>5. overflowDrops' = 0 => \A x \in mixed' : AllPaths(x)'
    BY <2>1, <2>4 DEF AllPaths
  <2>6. QED
    BY <2>1, <2>3, <2>5 DEF Coverage, Adding
<1>3. ASSUME NEW n \in 1..MaxBatch, StartBatch(n) PROVE Coverage'
  <2>1. /\ pAt = "open" /\ pAt' \in {"load", "commit"} /\ batch' = n /\ tap' = 1
        /\ pAt' = "commit" => ~(Len(TapDelta) > 0)
        /\ UNCHANGED <<mixed, overflowDrops, msg, processed, writeOrigin>>
    BY <1>3 DEF StartBatch, shared, history
  <2>2. overflowDrops = 0 => \A x \in mixed : x[2].msg = msg => x[2].idx < processed + n
    <3>1. ASSUME overflowDrops = 0, NEW x \in mixed, x[2].msg = msg
          PROVE  x[2].idx < processed + n
      <4>1. x[2].idx < processed
        BY <2>1, <3>1 DEF Coverage
      <4>2. x[2].idx \in Nat
        BY MixedFact
      <4>3. n \in Nat
        OBVIOUS
      <4>4. QED
        BY <1>1, <4>1, <4>2, <4>3, NatOrder
    <3>2. QED
      BY <3>1
  <2>3. \A t \in TapIndex : ~(t < 1)
    BY DEF TapIndex
  <2>4. QED
    BY <2>1, <2>2, <2>3 DEF Coverage, AllPaths, Echo, Adding
<1>4. ASSUME ScatterLoad PROVE Coverage'
  <2> DEFINE w == Writable(ScatterStart, batch, seenRead')
  <2>1. /\ pAt = "load" /\ toWrite' = w /\ added' = 0
        /\ overflowDrops' = overflowDrops + (batch - w)
        /\ w = 0 => pAt' = AfterTap /\ tap' = tap + 1
        /\ w # 0 => pAt' = "add" /\ tap' = tap
        /\ UNCHANGED <<mixed, msg, processed, batch, writeOrigin>>
    BY <1>4 DEF ScatterLoad, history
  <2>2. tap \in TapIndex /\ ScatterStart \in Nat /\ seenRead' \in Nat /\ batch > 0
    BY <1>1, <1>4, <2>1 DEF IInv, TypeOK, Placement, ScatterStart, ScatterLoad, Position
  <2>3. w \in Nat /\ w <= batch
    BY <1>1, <2>2, WritableFact
  <2> HIDE DEF w
  <2>4. overflowDrops' = 0 => overflowDrops = 0 /\ w = batch /\ w # 0
    BY <1>1, <2>1, <2>2, <2>3
  <2>5. pAt' \in {"load", "add", "commit"} /\ (pAt' = "commit" => tap' > Len(TapDelta))
    BY <1>1, <2>1, <2>2 DEF AfterTap, TapIndex
  <2>6. \A k \in Position : ~(processed <= k /\ k < processed + 0)
    BY <1>1 DEF Position
  <2>7. QED
    BY <2>1, <2>4, <2>5, <2>6 DEF Coverage, AllPaths, Echo, Adding
<1>5. ASSUME ScatterSlot PROVE Coverage'
  <2>1. /\ pAt = "add" /\ mixed' = mixed \union {<<AddPos, Sample>>} /\ added' = added + 1
        /\ added + 1 = toWrite => pAt' = AfterTap /\ tap' = tap + 1
        /\ added + 1 # toWrite => pAt' = "add" /\ tap' = tap
        /\ UNCHANGED <<overflowDrops, msg, processed, batch, writeOrigin, toWrite>>
    BY <1>5 DEF ScatterSlot
  <2>2. /\ tap \in TapIndex /\ added < toWrite /\ toWrite <= batch
        /\ TapDelta[tap] \in Nat
    BY <2>1 DEF IInv, Placement, Adding
  <2>3. pAt' \in {"load", "add", "commit"} /\ (pAt' = "commit" => tap' > Len(TapDelta))
    BY <1>1, <2>1, <2>2 DEF AfterTap, TapIndex
  <2>4. <<AddPos, Sample>> = Echo(tap, processed + added)
    BY <1>1, <2>2 DEF AddPos, ScatterStart, Sample, Echo
  <2>5. /\ Sample.msg = msg /\ Sample.tap = tap /\ Sample.idx = processed + added
        /\ ~(Sample.msg < msg) /\ ~(Sample.idx < processed)
        /\ Sample.idx < processed + batch
    BY <1>1, <2>2 DEF Sample, IInv, TypeOK
  <2>6. \A x \in mixed' : x[2].msg = msg => x = Echo(x[2].tap, x[2].idx)
    BY <2>1, <2>4, <2>5 DEF Coverage
  <2>7. ASSUME overflowDrops = 0
        PROVE  /\ \A x \in mixed' : x[2].msg < msg \/ x[2].idx < processed => AllPaths(x)'
               /\ \A x \in mixed' : x[2].msg = msg => x[2].idx < processed + batch
    <3>1. \A x \in mixed : AllPaths(x) => AllPaths(x)'
      BY <2>1 DEF AllPaths
    <3>2. QED
      BY <2>1, <2>5, <2>7, <3>1 DEF Coverage
  <2>8. ASSUME overflowDrops = 0,
               NEW k \in Position, processed <= k, k < processed + (added + 1)
        PROVE  Echo(tap, k) \in mixed'
    <3>1. CASE k = processed + added
      BY <2>1, <2>4, <3>1
    <3>2. CASE k # processed + added
      <4>1. k < processed + added
        BY <1>1, <2>8, <3>2 DEF Position
      <4>2. QED
        BY <2>1, <2>8, <4>1 DEF Coverage, Adding
    <3>3. QED
      BY <3>1, <3>2
  <2>9. ASSUME overflowDrops = 0, NEW t \in TapIndex, t < tap',
               NEW k \in Position, processed <= k, k < processed + batch
        PROVE  Echo(t, k) \in mixed'
    <3>1. CASE t < tap
      BY <2>1, <2>9, <3>1 DEF Coverage
    <3>2. CASE ~(t < tap)
      <4>1. t = tap /\ added + 1 = toWrite
        BY <1>1, <2>1, <2>9, <3>2 DEF TapIndex
      <4>2. toWrite = batch
        BY <2>1, <2>9 DEF Coverage, Adding
      <4>3. k < processed + (added + 1)
        BY <2>9, <4>1, <4>2
      <4>4. QED
        BY <2>8, <2>9, <4>1, <4>3
    <3>3. QED
      BY <3>1, <3>2
  <2>10. overflowDrops = 0 => toWrite = batch
    BY <2>1 DEF Coverage, Adding
  <2>11. \A t, k : Echo(t, k)' = Echo(t, k)
    BY <2>1 DEF Echo
  <2>12. pAt' = "add" => tap' = tap
    BY <2>1 DEF AfterTap
  <2>13. overflowDrops' = overflowDrops /\ msg' = msg /\ processed' = processed
         /\ batch' = batch /\ toWrite' = toWrite /\ added' = added + 1
    BY <2>1
  <2>14. QED
    BY <2>3, <2>6, <2>7, <2>8, <2>9, <2>10, <2>11, <2>12, <2>13, Zenon DEF Coverage, Adding
<1>6. ASSUME CommitProgress PROVE Coverage'
  <2>1. /\ pAt = "commit" /\ pAt' = "open" /\ processed' = processed + batch
        /\ UNCHANGED <<mixed, overflowDrops, msg, writeOrigin>>
    BY <1>6 DEF CommitProgress, history
  <2>2. \A t \in TapIndex : t < tap
    BY <1>1, <2>1 DEF Coverage, TapIndex
  <2>3. ASSUME overflowDrops = 0, NEW x \in mixed,
               x[2].msg < msg \/ x[2].idx < processed + batch
        PROVE  AllPaths(x)
    <3>1. CASE x[2].msg < msg \/ x[2].idx < processed
      BY <2>3, <3>1 DEF Coverage
    <3>2. CASE ~(x[2].msg < msg) /\ ~(x[2].idx < processed)
      <4>1. x[2].msg = msg /\ processed <= x[2].idx /\ x[2].idx < processed + batch
        <5>1. /\ x[2].msg \in Nat /\ x[2].idx \in Nat /\ x[2].msg <= msg
          BY MixedFact DEF Layout
        <5>2. x[2].msg = msg /\ processed <= x[2].idx
          BY <1>1, <3>2, <5>1, NatOrder
        <5>3. QED
          BY <2>3, <3>2, <5>2
      <4>2. x[1] = writeOrigin + x[2].idx + TapDelta[x[2].tap]
        BY <4>1 DEF Coverage, Echo
      <4>3. ASSUME NEW t \in TapIndex
            PROVE  <<x[1] - TapDelta[x[2].tap] + TapDelta[t], [x[2] EXCEPT !.tap = t]>> \in mixed
        <5>1. x[1] - TapDelta[x[2].tap] + TapDelta[t] = writeOrigin + x[2].idx + TapDelta[t]
          <6>1. TapDelta[x[2].tap] \in Nat /\ TapDelta[t] \in Nat /\ x[2].idx \in Nat
            BY MixedFact
          <6>2. QED
            BY <1>1, <4>2, <6>1, EchoShift
        <5>2. [x[2] EXCEPT !.tap = t] = [msg |-> msg, tap |-> t, idx |-> x[2].idx]
          <6>1. x[2] = [msg |-> msg, tap |-> x[2].tap, idx |-> x[2].idx]
            BY <4>1, MixedFact
          <6>2. QED
            BY <6>1
        <5>3. Echo(t, x[2].idx) \in mixed
          BY <2>1, <2>2, <2>3, <4>1, MixedFact DEF Coverage
        <5>4. QED
          BY <5>1, <5>2, <5>3 DEF Echo
      <4>4. QED
        BY <4>3 DEF AllPaths
    <3>3. QED
      BY <3>1, <3>2
  <2>4. overflowDrops = 0 => \A x \in mixed : x[2].msg = msg => x[2].idx < processed + batch
    BY <2>1 DEF Coverage
  <2>5. QED
    BY <2>1, <2>3, <2>4 DEF Coverage, AllPaths, Echo, Adding
<1>7. ASSUME CommitExtra PROVE Coverage'
  <2>1. /\ pAt = "open" /\ pAt' = "idle"
        /\ UNCHANGED <<mixed, overflowDrops, msg, processed, writeOrigin>>
    BY <1>7 DEF CommitExtra, TailLength, history
  <2>2. QED
    BY <2>1 DEF Coverage, AllPaths, Echo, Adding
<1>8. ASSUME Pull PROVE Coverage'
  <2>1. UNCHANGED <<mixed, overflowDrops, source>>
    BY <1>8 DEF Pull, ReadBegin, ReadSlot, ReadPublish, shared, history
  <2>2. QED
    BY <2>1 DEF Coverage, AllPaths, Echo, Adding, source
<1>9. CASE UNCHANGED vars
  BY <1>9 DEF vars, shared, source, history, Coverage, AllPaths, Echo, Adding
<1>10. QED
  BY <1>2, <1>3, <1>4, <1>5, <1>6, <1>7, <1>8, <1>9 DEF Next, Render

\* Unless a scatter overflowed, a receiver that heard a sample over one path has
\* heard it over every path due by then: the watermark hides partial multipath.
THEOREM NoPartialMultipath == Spec => []PathsComplete
<1>1. Init => Layout /\ MessagesDisjoint /\ Coverage
  BY LayoutInit, CoverageInit
<1>2. IInv /\ Layout /\ MessagesDisjoint /\ Coverage /\ [Next]_vars
      => Layout' /\ MessagesDisjoint' /\ Coverage'
  BY LayoutStep, CoverageStep
<1>3. IInv /\ Layout /\ Coverage => PathsComplete
  <2> SUFFICES ASSUME IInv, Layout, Coverage, overflowDrops = 0, NEW x \in heard,
                      NEW t \in TapIndex,
                      x[1] - TapDelta[x[2].tap] + TapDelta[t] < Cursor
               PROVE  <<x[1] - TapDelta[x[2].tap] + TapDelta[t],
                        [x[2] EXCEPT !.tap = t]>> \in heard
    BY DEF PathsComplete
  <2> DEFINE due == x[1] - TapDelta[x[2].tap] + TapDelta[t]
  <2>1. x \in mixed /\ heard = {y \in mixed : y[1] < Cursor}
    BY DEF IInv, Contents
  <2>2. AllPaths(x)
    <3>1. CASE x[2].msg < msg \/ x[2].idx < processed
      BY <2>1, <3>1 DEF Coverage
    <3>2. CASE ~(x[2].msg < msg) /\ ~(x[2].idx < processed)
      <4>1. /\ x[2].msg = msg /\ processed <= x[2].idx
            /\ msg \in Nat /\ processed \in Nat /\ writeOrigin \in Nat
        <5>1. x[2].msg \in Nat /\ x[2].idx \in Nat
          BY <2>1, MixedFact
        <5>2. x[2].msg <= msg
          BY <2>1 DEF Layout
        <5>3. msg \in Nat /\ processed \in Nat /\ writeOrigin \in Nat
          BY Constants DEF IInv, TypeOK
        <5>4. QED
          BY <3>2, <5>1, <5>2, <5>3, NatOrder
      <4>2. pAt \notin {"idle", "open"}
        BY <2>1, <3>2, <4>1 DEF Coverage
      <4>3. x[1] = writeOrigin + x[2].idx + TapDelta[x[2].tap]
        BY <2>1, <4>1 DEF Coverage, Echo
      <4>4. due = writeOrigin + x[2].idx + TapDelta[t]
        <5>1. TapDelta[x[2].tap] \in Nat /\ TapDelta[t] \in Nat /\ x[2].idx \in Nat
          BY <2>1, MixedFact, Constants
        <5>2. QED
          BY <4>1, <4>3, <5>1, EchoShift
      <4>5. writeWatermark <= writeOrigin + processed
        BY <4>2 DEF IInv, Placement
      <4>6. Cursor \in Nat /\ Cursor <= writeWatermark /\ writeWatermark \in Nat
        BY Constants DEF IInv, TypeOK, Views, Cursor, Position
      <4>7. due < Cursor
        OBVIOUS
      <4> DEFINE k == x[2].idx
      <4>8. k \in Nat /\ processed <= k /\ TapDelta[t] \in Nat
            /\ due = writeOrigin + k + TapDelta[t]
        BY <2>1, <4>1, <4>4, MixedFact, Constants
      <4> HIDE DEF due, k
      <4>9. QED
        BY <4>1, <4>5, <4>6, <4>7, <4>8
    <3>3. QED
      BY <3>1, <3>2
  <2>3. QED
    BY <2>1, <2>2 DEF AllPaths
<1>4. QED
  BY <1>1, <1>2, <1>3, IInvHolds, PTL DEF Spec

-----------------------------------------------------------------------------
\* The ring implements the unbounded additive stream: a loop turn of scatter_add
\* mixes one sample in, a commit moves the boundary, a loop turn of read_advance
\* delivers one position, and every other step is invisible to the receiver.
THEOREM Refinement == Spec => ImplementsStream
<1>1. Init => Stream!SInit
  BY DEF Init, Stream!SInit, Cursor
<1>2. IInv /\ [Next]_vars => [Stream!SNext]_(Stream!svars)
  <2> SUFFICES ASSUME IInv, [Next]_vars PROVE [Stream!SNext]_(Stream!svars)
    OBVIOUS
  <2> USE DEF Stream!svars
  <2>1. ASSUME NEW gap \in Gaps, NEW absolute \in BOOLEAN, BeginMessage(gap, absolute)
        PROVE  UNCHANGED Stream!svars
    BY <2>1 DEF BeginMessage, shared, receiver, history, Cursor
  <2>2. ASSUME NEW n \in 1..MaxBatch, StartBatch(n) PROVE UNCHANGED Stream!svars
    BY <2>2 DEF StartBatch, shared, receiver, history, Cursor
  <2>3. ASSUME ScatterLoad PROVE UNCHANGED Stream!svars
    BY <2>3 DEF ScatterLoad, receiver, history, Cursor
  <2>4. ASSUME ScatterSlot PROVE Stream!SNext
    <3>1. AddPos \in Position /\ Sample \in Contribution /\ writeWatermark <= AddPos
      BY <2>4, AddInWindow DEF ScatterSlot, Adding
    <3>2. AddPos >= writeWatermark
      BY <3>1 DEF IInv, TypeOK, Position
    <3>3. Stream!Mix(AddPos, Sample)
      BY <2>4, <3>2 DEF ScatterSlot, receiver, Cursor, Stream!Mix
    <3>4. QED
      BY <3>1, <3>3 DEF Stream!SNext
  <2>5. ASSUME CommitProgress PROVE [Stream!SNext]_(Stream!svars)
    <3>1. writeWatermark' \in Position /\ writeWatermark' >= writeWatermark
      BY <2>5, Constants DEF CommitProgress, IInv, TypeOK, Placement, Position
    <3>2. UNCHANGED <<mixed, Cursor, heard>>
      BY <2>5 DEF CommitProgress, receiver, history, Cursor
    <3>3. CASE writeWatermark' > writeWatermark
      BY <3>1, <3>2, <3>3 DEF Stream!SNext, Stream!Commit
    <3>4. CASE writeWatermark' = writeWatermark
      BY <3>2, <3>4
    <3>5. QED
      BY <3>1, <3>3, <3>4 DEF IInv, TypeOK, Position
  <2>6. ASSUME CommitExtra PROVE [Stream!SNext]_(Stream!svars)
    <3>1. writeWatermark' \in Position /\ writeWatermark' >= writeWatermark
      BY <2>6, Constants DEF CommitExtra, TailLength, IInv, TypeOK, Placement, Position
    <3>2. UNCHANGED <<mixed, Cursor, heard>>
      BY <2>6 DEF CommitExtra, TailLength, receiver, history, Cursor
    <3>3. CASE writeWatermark' > writeWatermark
      BY <3>1, <3>2, <3>3 DEF Stream!SNext, Stream!Commit
    <3>4. CASE writeWatermark' = writeWatermark
      BY <3>2, <3>4
    <3>5. QED
      BY <3>1, <3>3, <3>4 DEF IInv, TypeOK, Position
  <2>7. ASSUME NEW count \in 1..MaxPull, ReadBegin(count) PROVE UNCHANGED Stream!svars
    BY <2>7 DEF ReadBegin, shared, history, Cursor
  <2>8. ASSUME ReadSlot PROVE Stream!SNext
    <3>1. Cursor \in Position /\ Cursor < seenMark
      BY <2>8, ReadInWindow DEF ReadSlot, Reading
    <3>2. Cursor < writeWatermark /\ Cursor < Cursor + Capacity
      BY <3>1, Constants DEF IInv, TypeOK, Views, Position
    <3>3. buffer[Slot(Cursor)] = At(Cursor)
      BY <3>1, <3>2, Constants DEF IInv, Contents, Position
    <3>4. {<<Cursor, c>> : c \in At(Cursor)} = {x \in mixed : x[1] = Cursor}
      <4>1. \A x \in mixed : x[1] = Cursor => x[2] \in At(Cursor) /\ x = <<Cursor, x[2]>>
        BY DEF At, IInv, TypeOK
      <4>2. \A c \in At(Cursor) : <<Cursor, c>> \in mixed
        BY DEF At
      <4>3. QED
        BY <4>1, <4>2
    <3>5. heard' = heard \union {x \in mixed : x[1] = Cursor}
      BY <2>8, <3>3, <3>4 DEF ReadSlot
    <3>6. Cursor' = Cursor + 1 /\ mixed' = mixed /\ writeWatermark' = writeWatermark
      BY <2>8 DEF ReadSlot, Cursor, IInv, TypeOK, Position
    <3>7. Stream!Deliver
      BY <3>2, <3>5, <3>6 DEF Stream!Deliver
    <3>8. QED
      BY <3>7 DEF Stream!SNext
  <2>9. ASSUME ReadPublish PROVE UNCHANGED Stream!svars
    BY <2>9 DEF ReadPublish, source, history, Cursor, IInv, TypeOK, Position
  <2>10. CASE UNCHANGED vars
    BY <2>10 DEF vars, shared, receiver, history, Cursor
  <2>11. QED
    BY <2>1, <2>2, <2>3, <2>4, <2>5, <2>6, <2>7, <2>8, <2>9, <2>10 DEF Next, Render, Pull
<1>3. QED
  BY <1>1, <1>2, IInvHolds, PTL DEF Spec, ImplementsStream, Stream!StreamSpec
=============================================================================
