------------------------ MODULE SPSCRingBufferProofs ------------------------
(***************************************************************************)
(* Proofs about SPSCRingBuffer for every capacity, every modulus that is a *)
(* multiple of it, and every number and size of calls.  The counters wrap  *)
(* and the slots wrap; the first part shows that neither is visible: a     *)
(* difference of wrapped counters is the difference of the counters, and   *)
(* the slot of a wrapped counter the slot of the counter.  The second part *)
(* is the window argument, the third the refinement of BoundedFifo.        *)
(***************************************************************************)
EXTENDS SPSCRingBuffer, SequenceTheorems, TLAPS

-----------------------------------------------------------------------------
(* Arithmetic of wrapping.                                                 *)

\* The only multiple of m strictly between -m and m is 0.
LEMMA SmallMultiple ==
  ASSUME NEW m \in Nat \ {0}, NEW d \in Int, m * d < m, -m < m * d
  PROVE  d = 0
<1>1. CASE d >= 1
  <2>1. m * d = m * (d - 1) + m
    BY Z3
  <2>2. m * (d - 1) >= 0
    BY <1>1, Z3
  <2>3. QED
    BY <2>1, <2>2, Z3
<1>2. CASE d <= -1
  <2>1. m * d = m * (d + 1) - m
    BY Z3
  <2>2. m * (d + 1) <= 0
    BY <1>2, Z3
  <2>3. QED
    BY <2>1, <2>2, Z3
<1>3. QED
  BY <1>1, <1>2, Z3

\* Adding a multiple of m changes no remainder.
LEMMA ModShift ==
  ASSUME NEW m \in Nat \ {0}, NEW a \in Int, NEW k \in Int
  PROVE  (m * k + a) % m = a % m
<1> DEFINE b == m * k + a
           qa == a \div m  qb == b \div m  ra == a % m  rb == b % m
           d == qb - qa - k
<1>1. b \in Int
  BY Z3
<1>2. qa \in Int /\ qb \in Int /\ ra \in 0..(m - 1) /\ rb \in 0..(m - 1)
  BY <1>1, Z3
<1>3. a = m * qa + ra /\ b = m * qb + rb
  BY <1>1, Z3
<1>4. m * (qb - qa - k) = ra - rb
  <2>1. m * (qb - qa - k) = m * qb - m * qa - m * k
    BY <1>2, Z3
  <2>2. QED
    BY <2>1, <1>2, <1>3, Z3
<1>5. d \in Int /\ m * d = ra - rb
  BY <1>2, <1>4
<1> HIDE DEF qa, qb, ra, rb, d
<1>6. d = 0
  BY <1>2, <1>5, SmallMultiple
<1>7. ra = rb
  BY <1>2, <1>5, <1>6, Z3
<1>8. QED
  BY <1>7 DEF ra, rb

\* A number below m is its own remainder.
LEMMA ModSmall ==
  ASSUME NEW m \in Nat \ {0}, NEW a \in 0..(m - 1)
  PROVE  a % m = a
  BY Z3

\* Remainders of numbers less than m apart agree only if the numbers do.
LEMMA ModInjective ==
  ASSUME NEW m \in Nat \ {0}, NEW a \in Int, NEW b \in Int, a < b, b < a + m
  PROVE  a % m # b % m
<1> SUFFICES ASSUME a % m = b % m PROVE FALSE
  OBVIOUS
<1> DEFINE qa == a \div m  qb == b \div m  d == qb - qa
<1>1. qa \in Int /\ qb \in Int /\ a % m \in Int
  BY Z3
<1>2. a = m * qa + (a % m) /\ b = m * qb + (b % m)
  BY Z3
<1>3. m * (qb - qa) = b - a
  <2>1. m * (qb - qa) = m * qb - m * qa
    BY <1>1, Z3
  <2>2. QED
    BY <2>1, <1>1, <1>2, Z3
<1>4. d \in Int /\ m * d = b - a
  BY <1>1, <1>3
<1> HIDE DEF qa, qb, d
<1>5. d = 0
  BY <1>4, SmallMultiple
<1>6. QED
  BY <1>4, <1>5, Z3

\* The constants' assumptions, in the form the proofs cite them.
LEMMA Constants ==
  /\ Capacity \in Nat \ {0} /\ Modulus \in Nat \ {0} /\ Capacity < Modulus
  /\ Modulus % Capacity = 0 /\ MaxCount \in Nat /\ MaxItems \in Nat
  BY RingAssumption

LEMMA Sizes == Capacity \in Nat \ {0} /\ MaxCount \in Nat /\ MaxItems \in Nat
  BY RingAssumption

\* A slot index is the position modulo the capacity, wrapped counter or not, and stays
\* inside the array.
LEMMA SlotOfWrapped ==
  ASSUME NEW a \in Nat, NEW i \in Nat
  PROVE  /\ Slot(Wrap(a), i) = (a + i) % Capacity
         /\ (a + i) % Capacity \in 0..(Capacity - 1)
<1> DEFINE q == a \div Modulus  r == a % Modulus  k == Modulus \div Capacity
<1>1. q \in Int /\ r \in Int /\ a = Modulus * q + r
  BY Constants, Z3
<1>2. k \in Int /\ Modulus = Capacity * k
  BY Constants, Z3
<1> DEFINE n == k * q
<1>3. n \in Int /\ Modulus * q = Capacity * n
  BY Constants, <1>1, <1>2, Z3
<1> HIDE DEF q, r, k, n
<1>4. a + i = Capacity * n + (r + i)
  BY <1>1, <1>3, Constants
<1>5. (Capacity * n + (r + i)) % Capacity = (r + i) % Capacity
  <2>1. Capacity \in Nat \ {0} /\ r + i \in Int
    BY <1>1, Constants
  <2>2. QED
    BY <1>3, <2>1, ModShift, Zenon
<1>6. Slot(Wrap(a), i) = (r + i) % Capacity
  BY DEF Slot, Wrap, r
<1>7. (a + i) % Capacity \in 0..(Capacity - 1)
  BY Constants, Z3
<1>8. QED
  BY <1>4, <1>5, <1>6, <1>7

\* size_t subtraction: the wrapped difference of two wrapped counters is their
\* difference, as long as they are less than the modulus apart.
LEMMA FilledIsDifference ==
  ASSUME NEW w \in Nat, NEW r \in Nat, r <= w, w - r <= Capacity
  PROVE  Filled(Wrap(w), Wrap(r)) = w - r
<1> DEFINE qw == w \div Modulus  qr == r \div Modulus
           rw == w % Modulus  rr == r % Modulus  k == qr - qw
<1>1. qw \in Int /\ qr \in Int /\ rw \in Int /\ rr \in Int
  BY Constants, Z3
<1>2. w = Modulus * qw + rw /\ r = Modulus * qr + rr
  BY Constants, Z3
<1>3. rw - rr = Modulus * k + (w - r)
  <2>1. Modulus * (qr - qw) = Modulus * qr - Modulus * qw
    BY <1>1, Constants, Z3
  <2>2. QED
    BY <2>1, <1>1, <1>2, Constants, Z3
<1>4. k \in Int
  BY <1>1
<1> HIDE DEF k
<1>5. (Modulus * k + (w - r)) % Modulus = (w - r) % Modulus
  <2>1. Modulus \in Nat \ {0} /\ w - r \in Int
    BY Constants
  <2>2. QED
    BY <1>4, <2>1, ModShift, Zenon
<1>6. (w - r) % Modulus = w - r
  BY Constants, ModSmall
<1>7. QED
  BY <1>3, <1>5, <1>6 DEF Filled, Wrap, rw, rr

\* std::min.
LEMMA LeastFact ==
  ASSUME NEW a \in Nat, NEW b \in Nat
  PROVE  Least(a, b) \in Nat /\ Least(a, b) <= a /\ Least(a, b) <= b
  BY DEF Least

-----------------------------------------------------------------------------
(* The window.                                                             *)

\* The numbers the invariant relates, without the sequences and the slots.
Counters ==
  /\ written \in Nat /\ consumed \in Nat /\ consumed <= written /\ written <= MaxItems
  /\ seenRead \in Nat /\ seenRead <= consumed
  /\ seenWrite \in Nat /\ consumed <= seenWrite /\ seenWrite <= written
  /\ toWrite \in Nat /\ stored \in Nat /\ stored <= toWrite /\ toWrite <= MaxCount
  /\ toWrite <= Capacity
  /\ toRead \in Nat /\ toRead <= MaxCount /\ toRead <= Capacity
  /\ Len(out) \in Nat /\ Len(out) <= toRead

LEMMA CountersHold == TypeOK => Counters
<1> SUFFICES ASSUME TypeOK PROVE Counters
  OBVIOUS
<1>1. /\ written \in Nat /\ consumed \in Nat /\ consumed <= written /\ written <= MaxItems
      /\ seenRead \in Nat /\ seenRead <= consumed
      /\ seenWrite \in Nat /\ consumed <= seenWrite /\ seenWrite <= written
  BY Sizes DEF TypeOK
<1>2. Least(MaxCount, Capacity) \in Nat /\ Least(MaxCount, Capacity) <= MaxCount
      /\ Least(MaxCount, Capacity) <= Capacity
  BY Sizes, LeastFact
<1>3. /\ toWrite \in Nat /\ stored \in Nat /\ stored <= toWrite
      /\ toWrite <= Least(MaxCount, Capacity)
      /\ toRead \in Nat /\ toRead <= Least(MaxCount, Capacity)
  BY <1>2 DEF TypeOK
<1>4. Len(out) \in Nat /\ Len(out) <= toRead
  BY LenProperties DEF TypeOK
<1>5. QED
  BY <1>1, <1>2, <1>3, <1>4, Sizes DEF Counters

LEMMA InitIInv == Init => IInv
<1> SUFFICES ASSUME Init PROVE IInv
  OBVIOUS
<1>1. TypeOK
  <2>1. <<>> \in Seq(0..MaxItems) /\ Len(<<>>) = 0
    BY EmptySeq
  <2>2. Least(MaxCount, Capacity) \in Nat
    BY Sizes, LeastFact
  <2>3. QED
    BY <2>1, <2>2, Sizes DEF Init, TypeOK
<1>2. Windows
  BY Sizes DEF Init, Windows
<1>3. Contents
  BY DEF Init, Contents
<1>4. Copied
  BY DEF Init, Copied
<1>5. QED
  BY <1>1, <1>2, <1>3, <1>4 DEF IInv

LEMMA WriteBeginIInv ==
  ASSUME IInv, NEW count \in 1..MaxCount, WriteBegin(count)
  PROVE  IInv'
<1>1. Counters /\ TypeOK /\ Windows /\ Contents /\ Copied
  BY CountersHold DEF IInv
<1>2. PICK r \in seenRead..consumed : seenRead' = r
  BY DEF WriteBegin
<1>3. toWrite = 0 /\ stored = 0 /\ r \in Nat /\ seenRead <= r /\ r <= consumed
  BY <1>1, <1>2 DEF WriteBegin, Counters
<1>4. written <= r + Capacity
  BY <1>1, <1>3, Sizes DEF Windows, Counters
<1>5. Filled(Wrap(written), Wrap(r)) = written - r
  BY <1>1, <1>3, <1>4, Sizes, FilledIsDifference DEF Counters
<1> DEFINE room == Room(Wrap(written), Wrap(r))  n == Least(count, room)
<1>6. room = Capacity - (written - r) /\ room \in Nat /\ room <= Capacity
  BY <1>1, <1>3, <1>4, <1>5, Sizes DEF Room, Counters
<1>7. toWrite' = n
  BY <1>2 DEF WriteBegin
<1> HIDE DEF room
<1>8. n \in Nat /\ n <= count /\ n <= room
  BY <1>6, LeastFact
<1> HIDE DEF n
<1>9. n \in 0..Least(MaxCount, Capacity)
  BY <1>6, <1>8, Sizes DEF Least
<1>10. UNCHANGED <<buffer, written, consumed, stored, seenWrite, toRead, out, received>>
  BY DEF WriteBegin, consumer
<1>11. TypeOK'
  BY <1>1, <1>2, <1>3, <1>7, <1>8, <1>9, <1>10 DEF TypeOK
<1>12. Windows'
  <2>1. written + count <= MaxItems
    BY DEF WriteBegin
  <2>2. written + n <= r + Capacity /\ written + n <= MaxItems
    BY <2>1, <1>1, <1>3, <1>6, <1>8, Sizes DEF Counters
  <2>3. QED
    BY <2>2, <1>1, <1>2, <1>7, <1>10 DEF Windows
<1>13. Contents' /\ Copied'
  BY <1>1, <1>10 DEF Contents, Copied, Slot
<1>14. QED
  BY <1>11, <1>12, <1>13 DEF IInv

LEMMA WriteSlotIInv ==
  ASSUME IInv, WriteSlot
  PROVE  IInv'
<1>1. Counters /\ TypeOK /\ Windows /\ Contents /\ Copied
  BY CountersHold DEF IInv
<1> DEFINE s == (written + stored) % Capacity
<1>2. Slot(Wrap(written), stored) = s /\ s \in 0..(Capacity - 1)
  BY <1>1, SlotOfWrapped DEF Counters
<1>3. /\ stored < toWrite /\ stored' = stored + 1
      /\ buffer' = [buffer EXCEPT ![s] = written + stored + 1]
      /\ UNCHANGED <<written, consumed, seenRead, toWrite, seenWrite, toRead, out, received>>
  BY <1>2 DEF WriteSlot, consumer
<1>4. written + stored + 1 \in 0..MaxItems
  BY <1>1, <1>3, Sizes DEF Windows, Counters
<1>5. buffer' \in [0..(Capacity - 1) -> 0..MaxItems]
  BY <1>1, <1>3, <1>4 DEF TypeOK
<1>6. TypeOK'
  BY <1>1, <1>3, <1>5 DEF TypeOK, Counters
<1>7. Windows' /\ Copied'
  BY <1>1, <1>3 DEF Windows, Copied
<1>8. Contents'
  <2> SUFFICES ASSUME NEW n \in 1..(written + stored + 1), n > consumed
               PROVE  buffer'[Slot(n - 1, 0)] = n
    BY <1>1, <1>3 DEF Contents, Counters
  <2>1. Slot(n - 1, 0) = (n - 1) % Capacity
    BY <1>1 DEF Slot, Counters
  <2>2. CASE n = written + stored + 1
    BY <2>1, <2>2, <1>1, <1>2, <1>3 DEF TypeOK, Counters
  <2>3. CASE n # written + stored + 1
    <3>1. n \in 1..(written + stored) /\ n - 1 \in Int /\ written + stored \in Int
      BY <2>3, <1>1 DEF Counters
    <3>2. n - 1 < written + stored /\ written + stored < (n - 1) + Capacity
      BY <3>1, <1>1, <1>3, Sizes DEF Windows, Counters
    <3>3. (n - 1) % Capacity # s
      BY <3>1, <3>2, Sizes, ModInjective
    <3>4. buffer[Slot(n - 1, 0)] = n
      BY <3>1, <1>1 DEF Contents
    <3>5. (n - 1) % Capacity \in 0..(Capacity - 1)
      BY <3>1, Sizes, Z3
    <3>6. QED
      BY <2>1, <3>3, <3>4, <3>5, <1>1, <1>3 DEF TypeOK
  <2>4. QED
    BY <2>2, <2>3
<1>9. QED
  BY <1>6, <1>7, <1>8 DEF IInv

LEMMA WritePublishIInv ==
  ASSUME IInv, WritePublish
  PROVE  IInv'
<1>1. Counters /\ TypeOK /\ Windows /\ Contents /\ Copied
  BY CountersHold DEF IInv
<1>2. /\ stored = toWrite /\ written' = written + toWrite /\ toWrite' = 0 /\ stored' = 0
      /\ UNCHANGED <<buffer, consumed, seenRead, seenWrite, toRead, out, received>>
  BY DEF WritePublish, WriteReady, consumer
<1>3. TypeOK'
  <2>1. 0 \in 0..Least(MaxCount, Capacity)
    BY Sizes, LeastFact
  <2>2. QED
    BY <2>1, <1>1, <1>2 DEF TypeOK, Windows, Counters
<1>4. Windows' /\ Copied'
  BY <1>1, <1>2 DEF Windows, Copied, Counters
<1>5. Contents'
  BY <1>1, <1>2 DEF Contents, Counters, Slot
<1>6. QED
  BY <1>3, <1>4, <1>5 DEF IInv

LEMMA ReadBeginIInv ==
  ASSUME IInv, NEW count \in 1..MaxCount, ReadBegin(count)
  PROVE  IInv'
<1>1. Counters /\ TypeOK /\ Windows /\ Contents /\ Copied
  BY CountersHold DEF IInv
<1>2. PICK w \in seenWrite..written : seenWrite' = w
  BY DEF ReadBegin
<1>3. /\ toRead = 0 /\ Len(out) = 0 /\ w \in Nat /\ seenWrite <= w /\ w <= written
      /\ UNCHANGED <<buffer, written, consumed, seenRead, toWrite, stored, out, received>>
  BY <1>1 DEF ReadBegin, Counters, producer
<1>4. consumed <= w /\ w - consumed <= Capacity /\ w - consumed \in Nat
  BY <1>1, <1>3, Sizes DEF Windows, Counters
<1>5. Filled(Wrap(w), Wrap(consumed)) = w - consumed
  BY <1>1, <1>3, <1>4, FilledIsDifference DEF Counters
<1> DEFINE n == Least(count, w - consumed)
<1>6. toRead' = n
  BY <1>2, <1>5 DEF ReadBegin
<1>7. n \in Nat /\ n <= count /\ n <= w - consumed
  BY <1>4, LeastFact
<1> HIDE DEF n
<1>8. n \in 0..Least(MaxCount, Capacity)
  BY <1>4, <1>7, Sizes DEF Least
<1>9. TypeOK'
  BY <1>1, <1>2, <1>3, <1>4, <1>6, <1>7, <1>8 DEF TypeOK, Counters
<1>10. Windows'
  <2>1. consumed + n <= w
    BY <1>1, <1>3, <1>4, <1>7 DEF Counters
  <2>2. QED
    BY <2>1, <1>1, <1>2, <1>3, <1>6 DEF Windows
<1>11. Contents' /\ Copied'
  BY <1>1, <1>3 DEF Contents, Copied, Slot
<1>12. QED
  BY <1>9, <1>10, <1>11 DEF IInv

\* A slot that is being copied holds the item that is due.
LEMMA CopiesItem ==
  ASSUME IInv, Len(out) < toRead
  PROVE  /\ buffer[Slot(Wrap(consumed), Len(out))] = consumed + Len(out) + 1
         /\ consumed + Len(out) + 1 \in 1..written
<1>1. Counters /\ Windows /\ Contents
  BY CountersHold DEF IInv
<1> DEFINE n == consumed + Len(out) + 1
<1>2. n \in 1..written /\ n > consumed /\ n \in 1..(written + stored)
  BY <1>1 DEF Windows, Counters
<1>3. buffer[Slot(n - 1, 0)] = n
  BY <1>1, <1>2 DEF Contents
<1>4. Slot(Wrap(consumed), Len(out)) = (consumed + Len(out)) % Capacity
  BY <1>1, SlotOfWrapped DEF Counters
<1>5. Slot(n - 1, 0) = (consumed + Len(out)) % Capacity
  BY <1>1 DEF Slot, Counters
<1>6. QED
  BY <1>2, <1>3, <1>4, <1>5

LEMMA ReadSlotIInv ==
  ASSUME IInv, ReadSlot
  PROVE  IInv'
<1>1. Counters /\ TypeOK /\ Windows /\ Contents /\ Copied
  BY CountersHold DEF IInv
<1> DEFINE n == consumed + Len(out) + 1
<1>2. /\ Len(out) < toRead
      /\ UNCHANGED <<buffer, written, consumed, seenRead, toWrite, stored,
                     seenWrite, toRead, received>>
  BY DEF ReadSlot, producer
<1>3. out' = Append(out, n) /\ n \in 1..written
  BY <1>2, CopiesItem DEF ReadSlot
<1>4. out \in Seq(0..MaxItems) /\ n \in 0..MaxItems
  BY <1>1, <1>3, Sizes DEF TypeOK, Counters
<1>5. /\ out' \in Seq(0..MaxItems) /\ Len(out') = Len(out) + 1 /\ out'[Len(out) + 1] = n
      /\ \A i \in 1..Len(out) : out'[i] = out[i]
  BY <1>3, <1>4, AppendProperties
<1>6. TypeOK'
  BY <1>1, <1>2, <1>5 DEF TypeOK, Counters
<1>7. Windows' /\ Contents'
  BY <1>1, <1>2 DEF Windows, Contents, Slot
<1>8. Copied'
  <2>1. ASSUME NEW i \in 1..Len(out') PROVE out'[i] = consumed + i
    BY <1>1, <1>5 DEF Copied, Counters
  <2>2. QED
    BY <2>1, <1>1, <1>2 DEF Copied
<1>9. QED
  BY <1>6, <1>7, <1>8 DEF IInv

LEMMA ReadPublishIInv ==
  ASSUME IInv, ReadPublish
  PROVE  IInv'
<1>1. Counters /\ TypeOK /\ Windows /\ Contents /\ Copied
  BY CountersHold DEF IInv
<1>2. /\ Len(out) = toRead /\ consumed' = consumed + toRead /\ toRead' = 0 /\ out' = <<>>
      /\ received' = received \o out
      /\ UNCHANGED <<buffer, written, seenRead, toWrite, stored, seenWrite>>
  BY DEF ReadPublish, producer
<1>3. received \in Seq(0..MaxItems) /\ out \in Seq(0..MaxItems)
  BY <1>1 DEF TypeOK
<1>4. /\ received' \in Seq(0..MaxItems) /\ Len(received') = Len(received) + Len(out)
      /\ \A i \in 1..(Len(received) + Len(out)) :
           received'[i] = IF i <= Len(received) THEN received[i] ELSE out[i - Len(received)]
  BY <1>2, <1>3, ConcatProperties
<1>5. <<>> \in Seq(0..MaxItems) /\ Len(<<>>) = 0
  BY EmptySeq
<1>6. TypeOK'
  <2>1. 0 \in 0..Least(MaxCount, Capacity)
    BY Sizes, LeastFact
  <2>2. QED
    BY <2>1, <1>1, <1>2, <1>4, <1>5 DEF TypeOK, Windows, Counters
<1>7. Windows' /\ Contents'
  BY <1>1, <1>2 DEF Windows, Contents, Counters, Slot
<1>8. Copied'
  <2>1. Len(received') = consumed'
    BY <1>1, <1>2, <1>4 DEF Copied
  <2>2. ASSUME NEW i \in 1..consumed' PROVE received'[i] = i
    BY <1>1, <1>2, <1>4 DEF Copied, Counters
  <2>3. QED
    BY <2>1, <2>2, <1>2, <1>5 DEF Copied
<1>9. QED
  BY <1>6, <1>7, <1>8 DEF IInv

LEMMA StutterIInv == IInv /\ UNCHANGED vars => IInv'
  BY DEF IInv, TypeOK, Windows, Contents, Copied, Slot, vars, producer, consumer

\* The ring's inductive invariant holds in every reachable state.
THEOREM IInvHolds == Spec => []IInv
<1>1. Init => IInv
  BY InitIInv
<1>2. IInv /\ [Next]_vars => IInv'
  <2> SUFFICES ASSUME IInv, [Next]_vars PROVE IInv'
    OBVIOUS
  <2>1. CASE \E count \in 1..MaxCount : WriteBegin(count)
    BY <2>1, WriteBeginIInv
  <2>2. CASE WriteSlot
    BY <2>2, WriteSlotIInv
  <2>3. CASE WritePublish
    BY <2>3, WritePublishIInv
  <2>4. CASE \E count \in 1..MaxCount : ReadBegin(count)
    BY <2>4, ReadBeginIInv
  <2>5. CASE ReadSlot
    BY <2>5, ReadSlotIInv
  <2>6. CASE ReadPublish
    BY <2>6, ReadPublishIInv
  <2>7. CASE UNCHANGED vars
    BY <2>7, StutterIInv
  <2>8. QED
    BY <2>1, <2>2, <2>3, <2>4, <2>5, <2>6, <2>7 DEF Next, Produce, Consume
<1>3. QED
  BY <1>1, <1>2, PTL DEF Spec

\* Counters, slots and locals keep their types: no size_t difference ever goes below
\* zero or above the capacity.
THEOREM TypeCorrect == Spec => []TypeOK
<1>1. IInv => TypeOK
  BY DEF IInv
<1>2. QED
  BY <1>1, IInvHolds, PTL

\* The slot write stores into is never the one read copies from.
THEOREM RaceFree == Spec => []NoSlotRace
<1>1. IInv => NoSlotRace
  <2> SUFFICES ASSUME IInv, stored < toWrite, Len(out) < toRead
               PROVE  Slot(Wrap(written), stored) # Slot(Wrap(consumed), Len(out))
    BY DEF NoSlotRace
  <2>1. Counters /\ Windows
    BY CountersHold DEF IInv
  <2> DEFINE a == consumed + Len(out)  b == written + stored
  <2>2. a \in Int /\ b \in Int /\ a < b /\ b < a + Capacity
    BY <2>1, Sizes DEF Windows, Counters
  <2>3. Slot(Wrap(written), stored) = b % Capacity /\ Slot(Wrap(consumed), Len(out)) = a % Capacity
    BY <2>1, SlotOfWrapped DEF Counters
  <2>4. a % Capacity # b % Capacity
    BY <2>2, Sizes, ModInjective
  <2>5. QED
    BY <2>3, <2>4
<1>2. QED
  BY <1>1, IInvHolds, PTL

\* Every slot access is covered by the counter that was loaded, however stale the load.
THEOREM HandedOver == Spec => []SlotHandedOver
<1>1. IInv => SlotHandedOver
  <2> SUFFICES ASSUME IInv PROVE SlotHandedOver
    OBVIOUS
  <2>1. Counters /\ Windows
    BY CountersHold DEF IInv
  <2>2. QED
    BY <2>1, Sizes DEF Windows, Counters, SlotHandedOver
<1>2. QED
  BY <1>1, IInvHolds, PTL

-----------------------------------------------------------------------------
(* The refinement of BoundedFifo: publishing is Put and Take, all else a   *)
(* stuttering step of the queue.                                           *)

\* The items c+1 to c+n, in order.
Run(c, n) == [i \in 1..n |-> c + i]

LEMMA RunIsSeq ==
  ASSUME NEW c \in Nat, NEW n \in Nat
  PROVE  /\ Run(c, n) \in Seq(Nat) /\ Len(Run(c, n)) = n
         /\ \A i \in 1..n : Run(c, n)[i] = c + i
<1>1. \A i \in 1..n : c + i \in Nat
  OBVIOUS
<1>2. Run(c, n) \in [1..n -> Nat]
  BY <1>1 DEF Run
<1>3. Run(c, n) \in Seq(Nat)
  BY <1>2, SeqDef
<1>4. Len(Run(c, n)) = n
  <2>1. 1..Len(Run(c, n)) = 1..n /\ Len(Run(c, n)) \in Nat
    BY <1>2, <1>3, LenProperties
  <2>2. QED
    BY <2>1
<1>5. QED
  BY <1>3, <1>4 DEF Run

\* A run and the run that follows it are one run ...
LEMMA RunsJoin ==
  ASSUME NEW c \in Nat, NEW n \in Nat, NEW m \in Nat
  PROVE  Run(c, n) \o Run(c + n, m) = Run(c, n + m)
<1> DEFINE s == Run(c, n)  t == Run(c + n, m)  u == Run(c, n + m)
<1>0. c + n \in Nat /\ n + m \in Nat
  OBVIOUS
<1>a. s \in Seq(Nat) /\ Len(s) = n /\ \A i \in 1..n : s[i] = c + i
  BY RunIsSeq, Zenon
<1>b. u \in Seq(Nat) /\ Len(u) = n + m /\ \A i \in 1..(n + m) : u[i] = c + i
  BY <1>0, RunIsSeq, Zenon
<1>1. /\ s \in Seq(Nat) /\ Len(s) = n /\ \A i \in 1..n : s[i] = c + i
      /\ u \in Seq(Nat) /\ Len(u) = n + m /\ \A i \in 1..(n + m) : u[i] = c + i
  BY <1>a, <1>b, Zenon
<1>2. t \in Seq(Nat) /\ Len(t) = m /\ \A i \in 1..m : t[i] = (c + n) + i
  BY <1>0, RunIsSeq, Zenon
<1> HIDE DEF s, t, u
<1>3. /\ s \o t \in Seq(Nat) /\ Len(s \o t) = n + m
      /\ \A i \in 1..(n + m) : (s \o t)[i] = IF i <= n THEN s[i] ELSE t[i - n]
  BY <1>1, <1>2, ConcatProperties
<1>4. ASSUME NEW i \in 1..Len(s \o t) PROVE (s \o t)[i] = u[i]
  <2>1. i \in 1..(n + m)
    BY <1>3
  <2>2. CASE i <= n
    BY <2>1, <2>2, <1>1, <1>3
  <2>3. CASE ~(i <= n)
    <3>1. i - n \in 1..m
      BY <2>1, <2>3
    <3>2. t[i - n] = (c + n) + (i - n)
      BY <3>1, <1>2
    <3>3. (c + n) + (i - n) = c + i
      BY <2>1
    <3>4. (s \o t)[i] = t[i - n] /\ u[i] = c + i
      BY <2>1, <2>3, <1>1, <1>3
    <3>5. QED
      BY <3>2, <3>3, <3>4, Zenon
  <2>4. QED
    BY <2>2, <2>3
<1>5. s \o t = u
  BY <1>1, <1>3, <1>4, SeqEqual
<1>6. QED
  BY <1>5 DEF s, t, u

\* ... and a run cut in two is two runs.
LEMMA RunCut ==
  ASSUME NEW c \in Nat, NEW m \in Nat, NEW n \in 0..m
  PROVE  /\ SubSeq(Run(c, m), 1, n) = Run(c, n)
         /\ SubSeq(Run(c, m), n + 1, m) = Run(c + n, m - n)
<1> DEFINE s == Run(c, m)
<1>0. m \in Nat
  OBVIOUS
<1>a. s \in Seq(Nat) /\ Len(s) = m /\ \A i \in 1..m : s[i] = c + i
  BY <1>0, RunIsSeq, Zenon
<1> HIDE DEF s
<1>1. s \in Seq(Nat) /\ Len(s) = m /\ \A i \in 1..m : s[i] = c + i /\ s[i] \in Nat
  BY <1>a
<1>2. SubSeq(s, 1, n) = Run(c, n)
  <2> DEFINE t == SubSeq(s, 1, n)  u == Run(c, n)
  <2>1. t \in Seq(Nat) /\ Len(t) = n /\ \A i \in 1..n : t[i] = s[i]
    <3>1. \A i \in 1..n : s[i] \in Nat
      BY <1>1
    <3>2. /\ t \in Seq(Nat) /\ Len(t) = (IF 1 <= n THEN n - 1 + 1 ELSE 0)
          /\ \A i \in 1..(n - 1 + 1) : t[i] = s[1 + i - 1]
      BY <3>1, SubSeqProperties
    <3>3. QED
      BY <3>2
  <2>2. u \in Seq(Nat) /\ Len(u) = n /\ \A i \in 1..n : u[i] = c + i
    BY RunIsSeq
  <2> HIDE DEF t, u
  <2>3. \A i \in 1..Len(t) : t[i] = u[i]
    BY <2>1, <2>2, <1>1
  <2>4. t = u
    BY <2>1, <2>2, <2>3, SeqEqual
  <2>5. QED
    BY <2>4 DEF t, u
<1>3. SubSeq(s, n + 1, m) = Run(c + n, m - n)
  <2> DEFINE t == SubSeq(s, n + 1, m)  u == Run(c + n, m - n)
  <2>1. t \in Seq(Nat) /\ Len(t) = m - n /\ \A i \in 1..(m - n) : t[i] = s[n + i]
    <3>1. \A i \in (n + 1)..m : s[i] \in Nat
      BY <1>1
    <3>2. /\ t \in Seq(Nat) /\ Len(t) = (IF n + 1 <= m THEN m - (n + 1) + 1 ELSE 0)
          /\ \A i \in 1..(m - (n + 1) + 1) : t[i] = s[(n + 1) + i - 1]
      BY <3>1, SubSeqProperties
    <3>3. QED
      BY <3>2
  <2>2. u \in Seq(Nat) /\ Len(u) = m - n /\ \A i \in 1..(m - n) : u[i] = (c + n) + i
    <3>1. c + n \in Nat /\ m - n \in Nat
      OBVIOUS
    <3>2. QED
      BY <3>1, RunIsSeq
  <2> HIDE DEF t, u
  <2>3. \A i \in 1..Len(t) : t[i] = u[i]
    BY <2>1, <2>2, <1>1
  <2>4. t = u
    BY <2>1, <2>2, <2>3, SeqEqual
  <2>5. QED
    BY <2>4 DEF t, u
<1>4. QED
  BY <1>2, <1>3 DEF s

\* The queue holds the items between the counters, in order.
QueueIsRun ==
  /\ Queue = Run(consumed, written - consumed)
  /\ written - consumed \in Nat /\ written - consumed <= Capacity

LEMMA QueueHolds == IInv => QueueIsRun
<1> SUFFICES ASSUME IInv PROVE QueueIsRun
  OBVIOUS
<1>1. Counters /\ Windows /\ Contents
  BY CountersHold DEF IInv
<1>2. ASSUME NEW i \in 1..(written - consumed)
      PROVE  buffer[Slot(Wrap(consumed), i - 1)] = consumed + i
  <2> DEFINE n == consumed + i
  <2>1. n \in 1..(written + stored) /\ n > consumed /\ i - 1 \in Nat
    BY <1>1 DEF Counters
  <2>2. buffer[Slot(n - 1, 0)] = n
    BY <2>1, <1>1 DEF Contents
  <2>3. Slot(Wrap(consumed), i - 1) = (consumed + (i - 1)) % Capacity
    BY <2>1, <1>1, SlotOfWrapped DEF Counters
  <2>4. Slot(n - 1, 0) = (consumed + (i - 1)) % Capacity
    <3>1. n - 1 + 0 = consumed + (i - 1)
      BY <1>1 DEF Counters
    <3>2. QED
      BY <3>1 DEF Slot
  <2>5. QED
    BY <2>2, <2>3, <2>4
<1>3. QED
  BY <1>1, <1>2, Sizes DEF Queue, QueueIsRun, Run, Windows, Counters

LEMMA QueueHoldsNext == IInv' => QueueIsRun'
  BY QueueHolds, PTL

\* Steps that publish nothing leave the queue as it is: the slots between the counters
\* are not the ones that are stored into.
LEMMA QueueKept ==
  ASSUME IInv, IInv', UNCHANGED <<written, consumed, received>>
  PROVE  UNCHANGED Fifo!fvars
<1>1. QueueIsRun /\ QueueIsRun'
  BY QueueHolds, QueueHoldsNext
<1>2. Queue' = Queue
  BY <1>1 DEF QueueIsRun, Run
<1>3. QED
  BY <1>2 DEF Fifo!fvars

\* write_pos_.store appends what was stored.
LEMMA PublishPuts ==
  ASSUME IInv, IInv', WritePublish
  PROVE  Fifo!FNext
<1>1. Counters /\ Windows /\ QueueIsRun /\ QueueIsRun'
  BY CountersHold, QueueHolds, QueueHoldsNext DEF IInv
<1> DEFINE n == toWrite  len == written - consumed
<1>2. n > 0 /\ written' = written + n /\ UNCHANGED <<consumed, received>>
  BY DEF WritePublish, WriteReady, consumer
<1>3. n \in 1..Capacity /\ len \in Nat /\ len + n <= Capacity /\ n \in Nat
  BY <1>1, <1>2, Sizes DEF Counters, Windows
<1>4. Queue = Run(consumed, len) /\ Queue' = Run(consumed, len + n)
  <2>1. (written + n) - consumed = len + n
    BY <1>1, <1>3 DEF Counters
  <2>2. QED
    BY <2>1, <1>1, <1>2 DEF QueueIsRun
<1>5. Len(Queue) = len
  BY <1>1, <1>3, <1>4, RunIsSeq DEF Counters
<1>6. [i \in 1..n |-> written + i] = Run(consumed + len, n)
  <2>1. consumed + len = written
    BY <1>1 DEF Counters
  <2>2. QED
    BY <2>1 DEF Run
<1>7. Queue' = Queue \o [i \in 1..n |-> written + i]
  <2>1. Run(consumed, len) \o Run(consumed + len, n) = Run(consumed, len + n)
    BY <1>1, <1>3, RunsJoin DEF Counters
  <2>2. QED
    BY <2>1, <1>4, <1>6
<1>8. Fifo!Put(n)
  BY <1>2, <1>3, <1>5, <1>7 DEF Fifo!Put
<1>9. QED
  BY <1>3, <1>8 DEF Fifo!FNext

\* read_pos_.store takes what was copied from the head of the queue.
LEMMA PublishTakes ==
  ASSUME IInv, IInv', ReadPublish
  PROVE  Fifo!FNext
<1>1. Counters /\ Windows /\ Copied /\ TypeOK /\ QueueIsRun /\ QueueIsRun'
  BY CountersHold, QueueHolds, QueueHoldsNext DEF IInv
<1> DEFINE n == toRead  len == written - consumed
<1>2. /\ n > 0 /\ Len(out) = n /\ consumed' = consumed + n /\ received' = received \o out
      /\ UNCHANGED written
  BY DEF ReadPublish, producer
<1>3. n \in 1..Capacity /\ n \in 0..len /\ len \in Nat
  BY <1>1, <1>2, Sizes DEF Counters, Windows
<1>4. Queue = Run(consumed, len) /\ Queue' = Run(consumed + n, len - n)
  <2>1. written - (consumed + n) = len - n
    BY <1>1, <1>3 DEF Counters
  <2>2. QED
    BY <2>1, <1>1, <1>2 DEF QueueIsRun
<1>5. Len(Queue) = len
  BY <1>1, <1>3, <1>4, RunIsSeq DEF Counters
<1>6. SubSeq(Queue, 1, n) = Run(consumed, n) /\ SubSeq(Queue, n + 1, len) = Run(consumed + n, len - n)
  BY <1>1, <1>3, <1>4, RunCut DEF Counters
<1>7. out = Run(consumed, n)
  <2>1. out \in Seq(0..MaxItems)
    BY <1>1 DEF TypeOK
  <2>2. out \in [1..n -> 0..MaxItems]
    BY <2>1, <1>2, LenProperties
  <2>3. QED
    BY <2>2, <1>1, <1>2 DEF Copied, Run
<1>8. Fifo!Take(n)
  <2>1. received' = received \o SubSeq(Queue, 1, n)
    BY <1>2, <1>6, <1>7, Zenon
  <2>2. Queue' = SubSeq(Queue, n + 1, Len(Queue))
    BY <1>4, <1>5, <1>6, Zenon
  <2>3. n <= Len(Queue)
    BY <1>3, <1>5
  <2>4. UNCHANGED written
    BY <1>2
  <2>5. QED
    BY <2>1, <2>2, <2>3, <2>4, Zenon DEF Fifo!Take
<1>9. QED
  BY <1>3, <1>8 DEF Fifo!FNext

\* The ring refines the bounded queue: for all interleavings, all staleness of the two
\* loads and all wraps of the counters.
THEOREM Refinement == Spec => ImplementsFifo
<1>1. Init => Fifo!FInit
  <2>1. ASSUME Init PROVE Queue = <<>>
    <3>1. QueueIsRun /\ written = 0 /\ consumed = 0
      BY <2>1, InitIInv, QueueHolds DEF Init
    <3>2. Queue = Run(0, 0)
      BY <3>1 DEF QueueIsRun
    <3>3. Run(0, 0) \in Seq(Nat) /\ Len(Run(0, 0)) = 0
      BY RunIsSeq
    <3>4. QED
      BY <3>2, <3>3, EmptySeq
  <2>2. QED
    BY <2>1 DEF Init, Fifo!FInit
<1>2. IInv /\ IInv' /\ [Next]_vars => [Fifo!FNext]_(Fifo!fvars)
  <2> SUFFICES ASSUME IInv, IInv', [Next]_vars PROVE [Fifo!FNext]_(Fifo!fvars)
    OBVIOUS
  <2>1. CASE \E count \in 1..MaxCount : WriteBegin(count)
    BY <2>1, QueueKept DEF WriteBegin, consumer
  <2>2. CASE WriteSlot
    BY <2>2, QueueKept DEF WriteSlot, consumer
  <2>3. CASE WritePublish
    BY <2>3, PublishPuts
  <2>4. CASE \E count \in 1..MaxCount : ReadBegin(count)
    BY <2>4, QueueKept DEF ReadBegin, producer
  <2>5. CASE ReadSlot
    BY <2>5, QueueKept DEF ReadSlot, producer
  <2>6. CASE ReadPublish
    BY <2>6, PublishTakes
  <2>7. CASE UNCHANGED vars
    BY <2>7, QueueKept DEF vars
  <2>8. QED
    BY <2>1, <2>2, <2>3, <2>4, <2>5, <2>6, <2>7 DEF Next, Produce, Consume
<1>3. QED
  BY <1>1, <1>2, IInvHolds, PTL DEF Spec, ImplementsFifo, Fifo!FifoSpec
=============================================================================
