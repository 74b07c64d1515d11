--------------------------- MODULE SPSCRingBuffer ---------------------------
(***************************************************************************)
(* core/ring_buffer.hpp: the single-producer single-consumer ring between  *)
(* two threads (ModemIO writes tx_ring, SourceWorker reads it; ReceiverMix *)
(* writes rx_ring, ModemIO reads it; the recorders use more of them).      *)
(* write_pos_ and read_pos_ are size_t counters that wrap at 2^64 and are  *)
(* never reset while the threads run; here they wrap at Modulus.  A load   *)
(* of the other side's counter may return an earlier value of it.          *)
(***************************************************************************)
EXTENDS Integers, Sequences

CONSTANTS Capacity,   \* capacity_, a power of two
          Modulus,    \* where size_t wraps: a larger power of two
          MaxCount,   \* items of one write or read call
          MaxItems    \* bound: items ever written

ASSUME RingAssumption == /\ Capacity \in Nat \ {0} /\ Modulus \in Nat
                         /\ Modulus > Capacity /\ Modulus % Capacity = 0
                         /\ MaxCount \in Nat /\ MaxItems \in Nat

VARIABLES
  buffer,              \* slot -> number of the item it holds, 0 when none was stored
  written, consumed,   \* write_pos_ and read_pos_ before wrapping
  seenRead, toWrite, stored,   \* the producer's last load and locals of write
  seenWrite, toRead, out,      \* the consumer's last load and locals of read
  received             \* history: items read returned, in order

producer == <<seenRead, toWrite, stored>>
consumer == <<seenWrite, toRead, out>>
vars == <<buffer, written, consumed, producer, consumer, received>>

Wrap(n) == n % Modulus
Slot_Plain(pos, i) == (pos + i) % (Capacity - 1)   \* mutant: mask_ taken for the size
Slot(pos, i) == (pos + i) % Capacity

\* Differences of positions are taken in size_t arithmetic.
Filled(wp, rp) == Wrap(wp - rp)

Init ==
  /\ buffer = [s \in 0..(Capacity - 1) |-> 0]
  /\ written = 0 /\ consumed = 0
  /\ seenRead = 0 /\ toWrite = 0 /\ stored = 0
  /\ seenWrite = 0 /\ toRead = 0 /\ out = <<>>
  /\ received = <<>>

Least(a, b) == IF a < b THEN a ELSE b

-----------------------------------------------------------------------------
Room(wp, rp) == Capacity - Filled(wp, rp)

\* write(data, count) up to its loop; a full ring takes nothing.
WriteBegin(count) ==
  /\ toWrite = 0
  /\ written + count <= MaxItems
  /\ seenRead' \in seenRead..consumed
  /\ toWrite' = Least(count, Room(Wrap(written), Wrap(seenRead')))
  /\ UNCHANGED <<buffer, written, consumed, stored, consumer, received>>

WriteSlot ==
  /\ stored < toWrite
  /\ buffer' = [buffer EXCEPT ![Slot(Wrap(written), stored)] = written + stored + 1]
  /\ stored' = stored + 1
  /\ UNCHANGED <<written, consumed, seenRead, toWrite, consumer, received>>

\* Mutant: the whole count is published before the loop has stored it.
WriteReady_Early == toWrite > 0
WriteReady == toWrite > 0 /\ stored = toWrite

\* write_pos_.store
WritePublish ==
  /\ WriteReady
  /\ written' = written + toWrite
  /\ toWrite' = 0 /\ stored' = 0
  /\ UNCHANGED <<buffer, consumed, seenRead, consumer, received>>

\* read(data, count) up to its loop; an empty ring gives nothing.
ReadBegin(count) ==
  /\ toRead = 0
  /\ seenWrite' \in seenWrite..written
  /\ toRead' = Least(count, Filled(Wrap(seenWrite'), Wrap(consumed)))
  /\ UNCHANGED <<buffer, written, consumed, producer, out, received>>

ReadSlot ==
  /\ Len(out) < toRead
  /\ out' = Append(out, buffer[Slot(Wrap(consumed), Len(out))])
  /\ UNCHANGED <<buffer, written, consumed, producer, seenWrite, toRead, received>>

\* read_pos_.store
ReadPublish ==
  /\ toRead > 0 /\ Len(out) = toRead
  /\ consumed' = consumed + toRead
  /\ received' = received \o out
  /\ toRead' = 0 /\ out' = <<>>
  /\ UNCHANGED <<buffer, written, producer, seenWrite>>

Produce == (\E count \in 1..MaxCount : WriteBegin(count)) \/ WriteSlot \/ WritePublish
Consume == (\E count \in 1..MaxCount : ReadBegin(count)) \/ ReadSlot \/ ReadPublish

Next == Produce \/ Consume
Spec == Init /\ [][Next]_vars

-----------------------------------------------------------------------------
\* Counters, slots and locals keep their types.
TypeOK ==
  /\ buffer \in [0..(Capacity - 1) -> 0..MaxItems]
  /\ written \in 0..MaxItems /\ consumed \in 0..written
  /\ seenRead \in 0..consumed /\ seenWrite \in consumed..written
  /\ toWrite \in 0..Least(MaxCount, Capacity) /\ stored \in 0..toWrite
  /\ toRead \in 0..Least(MaxCount, Capacity)
  /\ out \in Seq(0..MaxItems) /\ Len(out) <= toRead
  /\ received \in Seq(0..MaxItems)

\* write's loop never stores into the slot read's loop is copying, although
\* neither locks and each sees the other's counter late.
NoSlotRace ==
  stored < toWrite /\ Len(out) < toRead =>
    Slot(Wrap(written), stored) # Slot(Wrap(consumed), Len(out))

\* Each slot access is ordered after the other side's last access to that slot
\* by the counter that was loaded (release store, acquire load).
SlotHandedOver ==
  /\ stored < toWrite => written + stored < seenRead + Capacity
  /\ Len(out) < toRead => consumed + Len(out) < seenWrite

\* Each side's counter is within what it has seen of the other's: the producer is at
\* most a ring ahead of the consumer, the consumer never ahead of the producer.
Windows ==
  /\ written + toWrite <= seenRead + Capacity /\ written + toWrite <= MaxItems
  /\ consumed + toRead <= seenWrite

\* The window holds the items that were stored and not given back, each in its slot.
Contents ==
  \A n \in 1..(written + stored) : n > consumed => buffer[Slot(n - 1, 0)] = n

\* What a read has copied so far, and what all reads have returned: the items in order.
Copied ==
  /\ \A i \in 1..Len(out) : out[i] = consumed + i
  /\ Len(received) = consumed /\ \A i \in 1..consumed : received[i] = i

\* The inductive invariant.
IInv == TypeOK /\ Windows /\ Contents /\ Copied

\* The queue between the published counters, slot by slot.
Queue == [i \in 1..(written - consumed) |-> buffer[Slot(Wrap(consumed), i - 1)]]
Fifo == INSTANCE BoundedFifo
          WITH Cap <- Capacity, accepted <- written, queue <- Queue, taken <- received

\* The ring implements the bounded queue across any number of counter wraps.
ImplementsFifo == Fifo!FifoSpec

\* The consumer polls for ever and stores become visible; then every item that
\* was published is read.
ReadFresh == (\E count \in 1..MaxCount : ReadBegin(count)) /\ seenWrite' = written
FairSpec == Spec /\ WF_vars(ReadFresh) /\ WF_vars(ReadSlot \/ ReadPublish)
AllRead == \A n \in 1..MaxItems : (written >= n) ~> (Len(received) >= n)
=============================================================================
