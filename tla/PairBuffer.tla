----------------------------- MODULE PairBuffer -----------------------------
(***************************************************************************)
(* The sample buffer between one source modem and one receiver modem       *)
(* (channel/pair_buffer.cpp), driven by its two threads:                   *)
(*   - the source's SourceWorker, which opens a message, renders it in     *)
(*     batches (every tap of a batch scatters before the batch is          *)
(*     committed) and finally exposes the multipath tail;                  *)
(*   - the receiver's ReceiverMix, which drains it chunk by chunk.         *)
(* Every plain access to a slot and every access to an atomic is a step of *)
(* its own.  A load of an atomic the other thread writes returns any value *)
(* from the last one this thread saw to the current one: a release store   *)
(* is seen late, never out of order.  A sample is only its identity, a     *)
(* slot the set of samples added into it since it was last zeroed.         *)
(***************************************************************************)
EXTENDS Integers, Sequences, FiniteSets

CONSTANTS Capacity,      \* capacity_, after rounding up to a power of two
          BaseDelay,     \* base_delay_samples_
          TapDelta,      \* delta_samples of each tap, in scatter order
          MaxTapDelta,   \* max_tap_delta_samples_: 0 when delays are applied on read
          Gaps,          \* inter-message gaps the SourceWorker asks for
          MaxBatch,      \* samples of one rendered batch (PROCESSING_BLOCK_SIZE)
          MaxPull,       \* samples of one read_advance (ReceiverMix chunk)
          MaxMessages,   \* bound: messages sent
          MaxPos         \* bound: receiver-time positions used

Position == 0..MaxPos
TapIndex == 1..Len(TapDelta)
Contribution == [msg : 1..MaxMessages, tap : TapIndex, idx : Position]

ASSUME CapacityAssumption == Capacity \in Nat \ {0} /\ BaseDelay \in 0..(Capacity - 1)
ASSUME TapAssumption == /\ TapDelta \in Seq(Nat) /\ MaxTapDelta \in Nat
                        /\ \A t \in TapIndex : TapDelta[t] <= MaxTapDelta
ASSUME BoundAssumption == /\ Gaps \subseteq Nat
                          /\ MaxBatch \in Nat /\ MaxPull \in Nat
                          /\ MaxMessages \in Nat /\ MaxPos \in Nat

VARIABLES
  \* shared
  buffer,          \* slot -> samples added since it was zeroed
  readPos,         \* read_pos_, written by the receiver
  writeWatermark,  \* write_watermark_, written by the source
  overflowDrops,   \* overflow_drops_
  \* source side
  writeOrigin, firstMessage,
  msg,             \* messages begun
  processed,       \* source_samples_processed_ of the current message
  batch, tap,      \* size of the batch being scattered and its current tap
  seenRead,        \* read_pos as scatter_add last loaded it
  toWrite, added,  \* locals of scatter_add
  pAt,             \* where the source is
  \* receiver side
  seenMark,        \* watermark as read_advance last loaded it
  toRead, got,     \* locals of read_advance
  \* history
  mixed,           \* <<position, sample>> pairs added, ever
  heard            \* <<position, sample>> pairs returned by read_advance

shared   == <<buffer, readPos, writeWatermark, overflowDrops>>
source   == <<writeOrigin, firstMessage, msg, processed, batch, tap,
              seenRead, toWrite, added, pAt>>
receiver == <<seenMark, toRead, got>>
history  == <<mixed, heard>>
vars     == <<shared, source, receiver, history>>

Slot_HalfMask(p) == p % (Capacity \div 2)   \* mutant: mask_ one bit short
Slot(p) == p % Capacity
Least(a, b) == IF a < b THEN a ELSE b

Init ==
  /\ buffer = [s \in 0..(Capacity - 1) |-> {}]
  /\ readPos = 0 /\ writeWatermark = 0 /\ overflowDrops = 0
  /\ writeOrigin = 0 /\ firstMessage = TRUE
  /\ msg = 0 /\ processed = 0 /\ batch = 0 /\ tap = 1
  /\ seenRead = 0 /\ toWrite = 0 /\ added = 0 /\ pAt = "idle"
  /\ seenMark = 0 /\ toRead = 0 /\ got = 0
  /\ mixed = {} /\ heard = {}

-----------------------------------------------------------------------------
(* The source.                                                             *)

NewOrigin(gap, absolute) ==
  IF firstMessage /\ ~absolute THEN BaseDelay ELSE writeWatermark + gap

\* Channel::on_message_start: the renderer restarts, then begin_message.
BeginMessage(gap, absolute) ==
  /\ pAt = "idle"
  /\ msg < MaxMessages
  /\ NewOrigin(gap, absolute) + MaxTapDelta <= MaxPos
  /\ writeOrigin' = NewOrigin(gap, absolute)
  /\ firstMessage' = FALSE
  /\ msg' = msg + 1
  /\ processed' = 0
  /\ pAt' = "open"
  /\ UNCHANGED <<shared, receiver, history, batch, tap, seenRead, toWrite, added>>

\* The renderer produced a batch of n samples, from modem samples or from the
\* zeros on_message_end drains the filters with.
StartBatch(n) ==
  /\ pAt = "open"
  /\ writeOrigin + processed + n + MaxTapDelta <= MaxPos
  /\ batch' = n /\ tap' = 1
  /\ pAt' = IF Len(TapDelta) > 0 THEN "load" ELSE "commit"
  /\ UNCHANGED <<shared, receiver, history, writeOrigin, firstMessage, msg,
                 processed, seenRead, toWrite, added>>

ScatterStart == writeOrigin + processed + TapDelta[tap]

\* Mutant: the window is not applied.
Writable_NoWindow(start, n, readView) == n

\* How many of n samples from position start lie below the reader's window end.
Writable(start, n, readView) ==
  IF start >= readView + Capacity THEN 0
  ELSE Least(n, readView + Capacity - start)

AfterTap == IF tap < Len(TapDelta) THEN "load" ELSE "commit"

\* scatter_add up to its loop: load read_pos, clip, count what is dropped.
ScatterLoad ==
  /\ pAt = "load"
  /\ seenRead' \in seenRead..readPos
  /\ LET w == Writable(ScatterStart, batch, seenRead') IN
     /\ toWrite' = w
     /\ overflowDrops' = overflowDrops + (batch - w)
     /\ IF w = 0 THEN pAt' = AfterTap /\ tap' = tap + 1
                 ELSE pAt' = "add" /\ tap' = tap
  /\ added' = 0
  /\ UNCHANGED <<buffer, readPos, writeWatermark, receiver, history, writeOrigin,
                 firstMessage, msg, processed, batch>>

AddPos == ScatterStart + added
Sample == [msg |-> msg, tap |-> tap, idx |-> processed + added]

\* One turn of scatter_add's loop.
ScatterSlot ==
  /\ pAt = "add"
  /\ buffer' = [buffer EXCEPT ![Slot(AddPos)] = @ \union {Sample}]
  /\ mixed' = mixed \union {<<AddPos, Sample>>}
  /\ added' = added + 1
  /\ IF added + 1 = toWrite THEN pAt' = AfterTap /\ tap' = tap + 1
                            ELSE pAt' = "add" /\ tap' = tap
  /\ UNCHANGED <<readPos, writeWatermark, overflowDrops, receiver, heard, writeOrigin,
                 firstMessage, msg, processed, batch, seenRead, toWrite>>

\* commit_source_progress(processed), after the last tap of the batch.
CommitProgress ==
  /\ pAt = "commit"
  /\ processed' = processed + batch
  /\ LET mark == writeOrigin + processed' IN
     writeWatermark' = IF mark > writeWatermark THEN mark ELSE writeWatermark
  /\ pAt' = "open"
  /\ UNCHANGED <<buffer, readPos, overflowDrops, receiver, history, writeOrigin,
                 firstMessage, msg, batch, tap, seenRead, toWrite, added>>

TailLength_None == 0   \* mutant: on_message_end forgets the multipath tail
TailLength == MaxTapDelta

\* commit_extra(max_tap_delta_samples_), the last act of on_message_end.
CommitExtra ==
  /\ pAt = "open"
  /\ writeWatermark' = writeWatermark + TailLength
  /\ pAt' = "idle"
  /\ UNCHANGED <<buffer, readPos, overflowDrops, receiver, history, writeOrigin,
                 firstMessage, msg, processed, batch, tap, seenRead, toWrite, added>>

-----------------------------------------------------------------------------
(* The receiver.                                                           *)

Available(mark) == IF mark > readPos THEN mark - readPos ELSE 0
Cursor == readPos + got

\* read_advance(count) up to its loop; with nothing available it returns 0.
ReadBegin(count) ==
  /\ toRead = 0
  /\ seenMark' \in seenMark..writeWatermark
  /\ toRead' = Least(count, Available(seenMark'))
  /\ UNCHANGED <<shared, source, history, got>>

Zeroed(buf, s) == [buf EXCEPT ![s] = {}]

\* One turn of read_advance's loop: copy the slot out, then zero it.
ReadSlot ==
  /\ got < toRead
  /\ heard' = heard \union {<<Cursor, c>> : c \in buffer[Slot(Cursor)]}
  /\ buffer' = Zeroed(buffer, Slot(Cursor))
  /\ got' = got + 1
  /\ UNCHANGED <<readPos, writeWatermark, overflowDrops, source, seenMark, toRead, mixed>>

\* read_pos_.store, which hands the slots back to the source.
ReadPublish ==
  /\ toRead > 0 /\ got = toRead
  /\ readPos' = readPos + toRead
  /\ toRead' = 0 /\ got' = 0
  /\ UNCHANGED <<buffer, writeWatermark, overflowDrops, source, seenMark, history>>

-----------------------------------------------------------------------------
Render == \/ \E n \in 1..MaxBatch : StartBatch(n)
          \/ ScatterLoad
          \/ ScatterSlot
          \/ CommitProgress
          \/ CommitExtra

Pull == \/ \E count \in 1..MaxPull : ReadBegin(count)
        \/ ReadSlot
        \/ ReadPublish

Next == \/ \E gap \in Gaps, absolute \in BOOLEAN : BeginMessage(gap, absolute)
        \/ Render
        \/ Pull

Spec == Init /\ [][Next]_vars

-----------------------------------------------------------------------------
(* Properties.                                                             *)

\* Every variable keeps the type its C++ declaration gives it, and positions
\* stay inside the bound of the model.
TypeOK ==
  /\ buffer \in [0..(Capacity - 1) -> SUBSET Contribution]
  /\ readPos \in Position /\ writeWatermark \in Position /\ overflowDrops \in Nat
  /\ writeOrigin \in Nat /\ firstMessage \in BOOLEAN
  /\ msg \in 0..MaxMessages /\ processed \in Nat /\ batch \in Nat
  /\ tap \in Nat \ {0} /\ seenRead \in Nat /\ toWrite \in Nat /\ added \in Nat
  /\ pAt \in {"idle", "open", "load", "add", "commit"}
  /\ seenMark \in Nat /\ toRead \in Nat /\ got \in Nat
  /\ mixed \subseteq Position \X Contribution
  /\ heard \subseteq Position \X Contribution

Adding  == pAt = "add"
Reading == got < toRead

\* pair_buffer.cpp's loops touch slots without locks: the slot the source adds
\* into and the slot the receiver copies and zeroes are never the same one.
NoSlotRace == Adding /\ Reading => Slot(AddPos) # Slot(Cursor)

\* The publications order every access to a slot: what the source adds into was
\* zeroed before the read_pos it has loaded, and what the receiver reads was
\* added before the watermark it has loaded (the acquire/release pairs of
\* pair_buffer.hpp's SPSC contract).
SlotHandedOver ==
  /\ Adding => \A q \in 0..(Cursor - 1) : Slot(q) = Slot(AddPos) => q < seenRead
  /\ Reading => \A x \in mixed : Slot(x[1]) = Slot(Cursor) => x[1] < seenMark

\* "Slots reached here are zero": the source adds only to silence or to samples
\* of the very receiver-time position it is adding for.
CleanSlate == Adding => \A c \in buffer[Slot(AddPos)] : <<AddPos, c>> \in mixed

\* A message starts behind everything the earlier ones left, multipath tail
\* included: no sample of one lands at or before a sample of an earlier one.
MessagesDisjoint ==
  \A x, y \in mixed : x[2].msg < y[2].msg => x[1] < y[1]

\* Committing only after the last tap hides partial multipath: unless samples
\* were counted as dropped, a receiver that heard a sample over one path has
\* heard it over every path that is due by now.
PathsComplete ==
  overflowDrops = 0 =>
    \A x \in heard, t \in TapIndex :
      LET due == x[1] - TapDelta[x[2].tap] + TapDelta[t] IN
      due < Cursor => <<due, [x[2] EXCEPT !.tap = t]>> \in heard

\* The buffer implements the stream of AdditiveStream: the wrap, the staleness
\* of the loads and the loops are invisible to the receiver.
Stream == INSTANCE AdditiveStream WITH committed <- writeWatermark, delivered <- Cursor
ImplementsStream == Stream!StreamSpec

\* Scheduling: a message once begun is rendered to its end, the receiver pulls
\* for ever, and a store is eventually seen by the other thread's loads.
ReadFresh == (\E count \in 1..MaxPull : ReadBegin(count)) /\ seenMark' = writeWatermark
Fairness == /\ WF_vars(Render)
            /\ WF_vars(ReadFresh)
            /\ WF_vars(ReadSlot \/ ReadPublish)
FairSpec == Spec /\ Fairness

\* Whatever a source added is heard in the end: no tail stays behind the
\* watermark for ever (commit_extra in on_message_end).
EverythingHeard ==
  \A p \in Position : (\E x \in mixed : x[1] = p) ~> (p < Cursor)

-----------------------------------------------------------------------------
(* The inductive invariant behind the safety properties.                   *)

At(p) == {c \in Contribution : <<p, c>> \in mixed}

\* Each side's view of the other's position is an earlier value of it.
Views == /\ seenRead <= readPos
         /\ readPos <= seenMark /\ seenMark <= writeWatermark
         /\ readPos + toRead <= seenMark
         /\ got <= toRead

\* The current message lies at or above the watermark, and the batch being
\* scattered fits between it and the end of the receiver's window.
Placement ==
  /\ pAt # "idle" => /\ writeWatermark <= writeOrigin + processed
                     /\ writeOrigin + processed + MaxTapDelta <= MaxPos
                     /\ msg \in 1..MaxMessages
  /\ pAt \in {"load", "add", "commit"} =>
       /\ batch \in 1..MaxBatch
       /\ writeOrigin + processed + batch + MaxTapDelta <= MaxPos
  /\ pAt \in {"load", "add"} => tap \in TapIndex
  /\ Adding => /\ added < toWrite /\ toWrite <= batch
               /\ ScatterStart + toWrite <= seenRead + Capacity
  /\ firstMessage => writeWatermark = 0 /\ mixed = {} /\ pAt = "idle"

\* Nothing lies beyond the window, the window's slots hold what was added for
\* their positions, and what was heard is what was added below the cursor.
Contents ==
  /\ \A x \in mixed : x[1] < readPos + Capacity
  /\ \A p \in Position : Cursor <= p /\ p < Cursor + Capacity => buffer[Slot(p)] = At(p)
  /\ heard = {x \in mixed : x[1] < Cursor}

IInv == TypeOK /\ Views /\ Placement /\ Contents

\* Where the messages lie: the earlier ones below the current origin, the current
\* one above it and no further than its last batch plus the longest tap delay.
Layout ==
  /\ \A x \in mixed : x[2].msg <= msg
  /\ pAt = "idle" => \A x \in mixed : x[1] < writeWatermark
  /\ pAt = "open" => \A x \in mixed : x[1] < writeWatermark + MaxTapDelta
  /\ pAt # "idle" => \A x \in mixed : x[2].msg < msg <=> x[1] < writeOrigin
  /\ pAt \in {"load", "add", "commit"} =>
       \A x \in mixed : x[1] < writeOrigin + processed + batch + MaxTapDelta

\* Where sample k of the current message lands over path t.
Echo(t, k) == <<writeOrigin + k + TapDelta[t], [msg |-> msg, tap |-> t, idx |-> k]>>

\* Sample x was added over every path.
AllPaths(x) ==
  \A t \in TapIndex :
    <<x[1] - TapDelta[x[2].tap] + TapDelta[t], [x[2] EXCEPT !.tap = t]>> \in mixed

\* What has been added so far: finished batches over every path, the batch in
\* hand over the taps before the current one and over its turns already taken.
Coverage ==
  /\ \A x \in mixed : x[2].msg = msg => x = Echo(x[2].tap, x[2].idx)
  /\ pAt = "commit" => tap > Len(TapDelta)
  /\ overflowDrops = 0 =>
       /\ \A x \in mixed : x[2].msg < msg \/ x[2].idx < processed => AllPaths(x)
       /\ pAt \in {"idle", "open"} =>
            \A x \in mixed : x[2].msg = msg => x[2].idx < processed
       /\ pAt \in {"load", "add", "commit"} =>
            /\ \A x \in mixed : x[2].msg = msg => x[2].idx < processed + batch
            /\ \A t \in TapIndex, k \in Position :
                 t < tap /\ processed <= k /\ k < processed + batch => Echo(t, k) \in mixed
       /\ Adding =>
            /\ toWrite = batch
            /\ \A k \in Position :
                 processed <= k /\ k < processed + added => Echo(tap, k) \in mixed
=============================================================================
