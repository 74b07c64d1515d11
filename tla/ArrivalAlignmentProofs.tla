------------------------ MODULE ArrivalAlignmentProofs ------------------------
(***************************************************************************)
(* Proofs about ArrivalAlignment, for every propagation delay, packet      *)
(* size, fill, message length and session age: no message is heard before  *)
(* its sound can have travelled, and what it is late by is accounted for.  *)
(***************************************************************************)
EXTENDS ArrivalAlignment, SequenceTheorems, TLAPS

\* The constants are numbers.
LEMMA Sizes ==
  /\ Packet \in Nat /\ Packet > 0 /\ Length \in Nat /\ Length > 0
  /\ Fill \in Nat /\ MaxAge \in Nat /\ Propagation \in Nat
  BY AlignmentAssumption

\* An estimate is none or one number.
LEMMA EstimateIsNumber ==
  ASSUME TypeOK, estimate # <<>>
  PROVE  estimate[1] \in Nat /\ estimate = <<estimate[1]>>
<1>1. estimate \in Seq(Nat) /\ Len(estimate) <= 1 /\ Len(estimate) \in Nat
  BY LenProperties DEF TypeOK
<1>2. Len(estimate) # 0
  BY <1>1, EmptySeq, Zenon
<1>3. Len(estimate) = 1
  <2>1. \A n \in Nat : n <= 1 /\ n # 0 => n = 1
    OBVIOUS
  <2>2. QED
    BY <1>1, <1>2, <2>1, Zenon
<1>4. QED
  BY <1>1, <1>3

\* What is pulled is at most a packet and at most what is committed.
LEMMA GotBounded ==
  ASSUME TypeOK
  PROVE  Got \in Nat /\ Got <= Packet /\ Got <= ahead
  BY Sizes DEF TypeOK, Got, Least

\* A single number is a sequence.
LEMMA OneNumber ==
  ASSUME NEW n \in Nat
  PROVE  <<n>> \in Seq(Nat) /\ Len(<<n>>) = 1 /\ <<n>>[1] = n /\ <<n>> # <<>>
  OBVIOUS

-----------------------------------------------------------------------------
(* Each part of the inductive invariant is kept.                           *)

LEMMA InitIInv == Init => IInv
<1> SUFFICES ASSUME Init PROVE IInv
  OBVIOUS
<1>1. <<>> \in Seq(Nat) /\ Len(<<>>) = 0
  BY EmptySeq, Zenon
<1>2. estimate \in Seq(Nat) /\ Len(estimate) <= 1
  BY <1>1 DEF Init
<1>3. TypeOK
  <2>1. /\ transmitting = FALSE /\ age = 0 /\ state = "RX" /\ arrived = 0 /\ at = "idle"
        /\ polled = 0 /\ start = 0 /\ fill = 0 /\ depth = 0 /\ ahead = 0 /\ offset = 0
        /\ committed = 0 /\ queued = 0 /\ transfer = 0 /\ lead = Packet
        /\ born = -1 /\ due = 0 /\ excuse = 0 /\ first = 0
    BY DEF Init
  <2>2. born \in Int /\ born >= -1
    BY <2>1
  <2>3. transmitting \in BOOLEAN /\ state \in {"RX", "entry", "TX"}
    BY <2>1
  <2>4. at \in {"idle", "fill", "depth", "place", "feed"}
    BY <2>1
  <2>5. QED
    BY <1>2, <2>1, <2>2, <2>3, <2>4, Sizes DEF TypeOK
<1>4. StartNotBefore /\ ReadIsAhead /\ WatermarkFollows /\ Followed
  BY DEF Init, StartNotBefore, ReadIsAhead, WatermarkFollows, Followed
<1>5. QED
  BY <1>3, <1>4 DEF IInv

LEMMA TypeStep == IInv /\ [Next]_vars => TypeOK'
<1> SUFFICES ASSUME TypeOK, ReadIsAhead, WatermarkFollows, [Next]_vars PROVE TypeOK'
  BY DEF IInv
<1> USE Sizes
<1>1. CASE Tick
  <2>1. estimate' \in Seq(Nat) /\ Len(estimate') <= 1
    <3>1. CASE estimate = <<>> \/ ~transmitting
      BY <1>1, <3>1 DEF Tick, TypeOK
    <3>2. CASE ~(estimate = <<>> \/ ~transmitting)
      <4>1. estimate[1] + 1 \in Nat
        BY <3>2, EstimateIsNumber
      <4>2. estimate' = <<estimate[1] + 1>>
        BY <1>1, <3>2 DEF Tick
      <4>3. QED
        BY <4>1, <4>2, OneNumber
    <3>3. QED
      BY <3>1, <3>2
  <2>2. polled' \in Nat /\ start' \in Nat /\ age' \in Nat /\ lead' \in Nat /\ born' \in Int /\ born' >= -1 /\ due' \in Int
    BY <1>1 DEF Tick, TypeOK
  <2>3. QED
    BY <1>1, <2>1, <2>2 DEF Tick, TypeOK, pair
<1>2. CASE StartsTransmitting
  BY <1>2 DEF StartsTransmitting, TypeOK, worker, pair, receiver, history
<1>3. CASE OnTxEntry
  BY <1>3 DEF OnTxEntry, Observation, TypeOK, worker, pair, receiver, history
<1>4. CASE PublishTX
  BY <1>4 DEF PublishTX, TypeOK, worker, pair, receiver, history
<1>5. CASE ReceivePacket
  <2>1. estimate' \in Seq(Nat) /\ Len(estimate') <= 1
    <3> DEFINE n == arrived + Packet
    <3>1. n \in Nat
      BY DEF TypeOK
    <3>2. estimate' = estimate \/ estimate' = <<n>>
      BY <1>5 DEF ReceivePacket, Tightened
    <3>3. CASE estimate' = <<n>>
      <4> HIDE DEF n
      <4>1. <<n>> \in Seq(Nat) /\ Len(<<n>>) = 1
        BY <3>1, OneNumber, Zenon
      <4>2. QED
        BY <3>3, <4>1
    <3>4. QED
      BY <3>2, <3>3 DEF TypeOK
  <2>2. QED
    BY <1>5, <2>1 DEF ReceivePacket, TypeOK, worker, pair, receiver, history
<1>6. CASE PublishRX
  BY <1>6 DEF PublishRX, TypeOK, worker, pair, receiver, history
<1>7. CASE TxEntry
  BY <1>7, EstimateIsNumber DEF TxEntry, TypeOK, source, pair, receiver, history
<1>8. CASE ReadFill
  BY <1>8 DEF ReadFill, TypeOK, source, pair, receiver, history
<1>9. CASE ReadDepth
  BY <1>9 DEF ReadDepth, TypeOK, source, pair, receiver, history
<1>10. CASE Place
  <2>1. Gap \in Int
    BY DEF TypeOK, Gap
  <2>2. offset' \in Int
    BY <1>10, <2>1 DEF Place, TypeOK
  <2>3. (queued + transfer + lead + polled - fill - depth) + (IF Gap < 0 THEN -Gap ELSE 0) \in Nat
    <3>1. fill + depth <= queued + transfer + lead + polled
      BY <1>10 DEF Place, ReadIsAhead
    <3>2. QED
      BY <2>1, <3>1 DEF TypeOK
  <2>4. born' \in Int /\ born' >= -1 /\ due' \in Int /\ first' \in Int /\ excuse' \in Nat
    BY <1>10, <2>2, <2>3 DEF Place, TypeOK, history
  <2>5. QED
    BY <1>10, <2>2, <2>4 DEF Place, TypeOK, source, receiver
<1>11. CASE Feed
  <2>1. offset + arrived \in Nat
    BY <1>11 DEF Feed, WatermarkFollows, TypeOK
  <2>2. QED
    BY <1>11, <2>1 DEF Feed, TypeOK, source, worker, receiver, history
<1>12. CASE TxExit
  BY <1>12 DEF TxExit, TypeOK, receiver, history
<1>13. CASE Pull
  <2>1. ahead - Got \in Nat /\ offset - Got \in Int /\ first - Got \in Int /\ excuse + (Packet - Got) \in Nat
    BY GotBounded DEF TypeOK
  <2>2. QED
    BY <1>13, <2>1 DEF Pull, TypeOK, source, worker
<1>14. CASE Take
  BY <1>14 DEF Take, TypeOK, source, worker, pair, history
<1>15. CASE OnPacketSent
  BY <1>15 DEF OnPacketSent, TypeOK, source, worker, pair, history
<1>16. CASE UNCHANGED vars
  BY <1>16 DEF vars, TypeOK, source, worker, pair, receiver, history
<1>17. QED
  BY <1>1, <1>2, <1>3, <1>4, <1>5, <1>6, <1>7, <1>8, <1>9, <1>10, <1>11, <1>12, <1>13, <1>14,
     <1>15, <1>16 DEF Next

\* The estimate is never older than the session: packets are received after they were made.
LEMMA StartStep == IInv /\ [Next]_vars => StartNotBefore'
<1> SUFFICES ASSUME TypeOK, StartNotBefore, [Next]_vars PROVE StartNotBefore'
  BY DEF IInv
<1> USE Sizes
<1>1. CASE Tick
  <2>1. ~transmitting => state = "RX"
    BY DEF StartNotBefore
  <2>2. CASE transmitting /\ estimate # <<>>
    <3>1. estimate[1] \in Nat
      BY <2>2, EstimateIsNumber
    <3>2. estimate' = <<estimate[1] + 1>> /\ age' = age + 1
      BY <1>1, <2>2 DEF Tick
    <3>3. estimate'[1] = estimate[1] + 1
      BY <3>1, <3>2
    <3>4. (state = "TX" => estimate[1] + 1 <= age + 1) /\ state # "entry"
      BY <2>2, <3>1 DEF StartNotBefore, TypeOK
    <3>5. at \in {"fill", "depth", "place"} => start' = start + 1 /\ start + 1 <= age + 1
      BY <1>1 DEF Tick, StartNotBefore, TypeOK
    <3>6. UNCHANGED <<transmitting, state, at>>
      BY <1>1 DEF Tick
    <3>7. QED
      BY <2>2, <3>2, <3>3, <3>4, <3>5, <3>6 DEF StartNotBefore
  <2>3. CASE ~(transmitting /\ estimate # <<>>)
    <3>1. estimate' = estimate /\ UNCHANGED <<transmitting, state, at>>
      BY <1>1, <2>3 DEF Tick
    <3>2. at \in {"fill", "depth", "place"} => start' = start + 1 /\ age' = age + 1 /\ start + 1 <= age + 1
      BY <1>1 DEF Tick, StartNotBefore, TypeOK
    <3>3. QED
      BY <2>1, <2>3, <3>1, <3>2 DEF StartNotBefore
  <2>4. QED
    BY <2>2, <2>3
<1>2. CASE StartsTransmitting
  BY <1>2 DEF StartsTransmitting, StartNotBefore, worker
<1>3. CASE OnTxEntry
  BY <1>3 DEF OnTxEntry, Observation, StartNotBefore, worker
<1>4. CASE PublishTX
  BY <1>4 DEF PublishTX, StartNotBefore, worker
<1>5. CASE ReceivePacket
  <2> DEFINE n == arrived + Packet
  <2>1. n \in Nat /\ n <= age
    BY <1>5 DEF ReceivePacket, TypeOK
  <2>2. estimate' = estimate \/ estimate' = <<n>>
    BY <1>5 DEF ReceivePacket, Tightened
  <2> HIDE DEF n
  <2>3. estimate' # <<>> => estimate'[1] <= age
    BY <1>5, <2>1, <2>2, OneNumber DEF ReceivePacket, StartNotBefore
  <2>4. QED
    BY <1>5, <2>3 DEF ReceivePacket, StartNotBefore, worker
<1>6. CASE PublishRX
  BY <1>6 DEF PublishRX, StartNotBefore, worker
<1>7. CASE TxEntry
  <2>1. start' <= age
    BY <1>7, EstimateIsNumber DEF TxEntry, StartNotBefore, TypeOK
  <2>2. QED
    BY <1>7, <2>1 DEF TxEntry, StartNotBefore, source
<1>8. CASE ReadFill
  BY <1>8 DEF ReadFill, StartNotBefore, source
<1>9. CASE ReadDepth
  BY <1>9 DEF ReadDepth, StartNotBefore, source
<1>10. CASE Place
  BY <1>10 DEF Place, StartNotBefore, source
<1>11. CASE Feed
  BY <1>11 DEF Feed, StartNotBefore, source, worker
<1>12. CASE TxExit
  BY <1>12 DEF TxExit, StartNotBefore
<1>13. CASE Pull \/ Take \/ OnPacketSent \/ UNCHANGED vars
  BY <1>13 DEF Pull, Take, OnPacketSent, vars, StartNotBefore, source, worker
<1>14. QED
  BY <1>1, <1>2, <1>3, <1>4, <1>5, <1>6, <1>7, <1>8, <1>9, <1>10, <1>11, <1>12, <1>13 DEF Next

\* What was read of the receiver stays ahead: samples only move from rx_ring to the modem.
LEMMA ReadStep == IInv /\ [Next]_vars => ReadIsAhead'
<1> SUFFICES ASSUME TypeOK, ReadIsAhead, [Next]_vars PROVE ReadIsAhead'
  BY DEF IInv
<1> USE Sizes
<1>1. CASE Tick
  <2>1. at \in {"depth", "place"} => (lead - 1) + (polled + 1) = lead + polled
    BY DEF TypeOK
  <2>2. at \in {"depth", "place"} => lead' = lead - 1 /\ polled' = polled + 1
    BY <1>1 DEF Tick
  <2>3. QED
    BY <1>1, <2>2 DEF Tick, ReadIsAhead, TypeOK
<1>2. CASE StartsTransmitting \/ OnTxEntry \/ PublishTX \/ ReceivePacket \/ PublishRX
  BY <1>2 DEF StartsTransmitting, OnTxEntry, PublishTX, ReceivePacket, PublishRX, worker, receiver,
              ReadIsAhead
<1>3. CASE TxEntry \/ Place \/ Feed \/ TxExit
  BY <1>3 DEF TxEntry, Place, Feed, TxExit, ReadIsAhead, worker
<1>4. CASE ReadFill
  BY <1>4 DEF ReadFill, ReadIsAhead, receiver, TypeOK
<1>5. CASE ReadDepth
  BY <1>5 DEF ReadDepth, ReadIsAhead, receiver, TypeOK
<1>6. CASE Pull
  BY <1>6 DEF Pull, ReadIsAhead, worker, TypeOK
<1>7. CASE Take
  BY <1>7 DEF Take, ReadIsAhead, worker, TypeOK
<1>8. CASE OnPacketSent
  BY <1>8 DEF OnPacketSent, ReadIsAhead, worker, TypeOK
<1>9. CASE UNCHANGED vars
  BY <1>9 DEF vars, ReadIsAhead, worker, receiver
<1>10. QED
  BY <1>1, <1>2, <1>3, <1>4, <1>5, <1>6, <1>7, <1>8, <1>9 DEF Next

\* The watermark follows the commits and the pulls.
LEMMA WatermarkStep == IInv /\ [Next]_vars => WatermarkFollows'
<1> SUFFICES ASSUME TypeOK, WatermarkFollows, [Next]_vars PROVE WatermarkFollows'
  BY DEF IInv
<1>1. CASE Place
  <2>1. Gap \in Int
    BY Sizes DEF TypeOK, Gap
  <2>2. QED
    BY <1>1, <2>1 DEF Place, WatermarkFollows, TypeOK
<1>2. CASE Feed
  BY <1>2 DEF Feed, WatermarkFollows, worker, TypeOK
<1>3. CASE Pull
  <2>1. Got \in Nat
    BY GotBounded
  <2>2. QED
    BY <1>3, <2>1 DEF Pull, WatermarkFollows, worker, TypeOK
<1>4. CASE Tick \/ StartsTransmitting \/ OnTxEntry \/ PublishTX \/ ReceivePacket \/ PublishRX
  BY <1>4 DEF Tick, StartsTransmitting, OnTxEntry, PublishTX, ReceivePacket, PublishRX, worker, pair,
              WatermarkFollows
<1>5. CASE TxEntry \/ ReadFill \/ ReadDepth \/ TxExit
  BY <1>5 DEF TxEntry, ReadFill, ReadDepth, TxExit, pair, WatermarkFollows
<1>6. CASE Take \/ OnPacketSent \/ UNCHANGED vars
  BY <1>6 DEF Take, OnPacketSent, vars, worker, pair, WatermarkFollows
<1>7. QED
  BY <1>1, <1>2, <1>3, <1>4, <1>5, <1>6 DEF Next

\* A message is placed where it is due, by what was read; from then on the samples before
\* it and the time it is due in fall together.
LEMMA FollowedStep == IInv /\ [Next]_vars => Followed'
<1> SUFFICES ASSUME TypeOK, StartNotBefore, Followed, [Next]_vars PROVE Followed'
  BY DEF IInv
<1> USE Sizes
<1>1. CASE Tick
  BY <1>1 DEF Tick, Followed, HeardIn, TypeOK
<1>2. CASE StartsTransmitting \/ OnTxEntry \/ PublishTX \/ ReceivePacket \/ PublishRX
  BY <1>2 DEF StartsTransmitting, OnTxEntry, PublishTX, ReceivePacket, PublishRX, receiver, history,
              Followed, HeardIn
<1>3. CASE TxEntry \/ ReadFill \/ ReadDepth \/ Feed \/ TxExit
  BY <1>3 DEF TxEntry, ReadFill, ReadDepth, Feed, TxExit, receiver, history, Followed, HeardIn
<1>4. CASE Place
  <2>1. Gap \in Int /\ Gap = (polled - start) + Propagation - ahead - depth - fill
    BY DEF TypeOK, Gap
  <2>2. CASE UNCHANGED history
    BY <1>4, <2>2 DEF Place, history, receiver, Followed, HeardIn
  <2>3. CASE /\ born' = age /\ due' = Propagation - start /\ first' = offset'
             /\ excuse' = (queued + transfer + lead + polled - fill - depth) + (IF Gap < 0 THEN -Gap ELSE 0)
    <3>1. offset' = ahead + (IF Gap < 0 THEN 0 ELSE Gap) /\ UNCHANGED receiver
      BY <1>4 DEF Place
    <3>2. age + (Propagation - start) >= Propagation
      BY <1>4 DEF Place, StartNotBefore, TypeOK
    <3>3. (queued + transfer + lead) + (ahead + (IF Gap < 0 THEN 0 ELSE Gap))
            = (Propagation - start)
              + ((queued + transfer + lead + polled - fill - depth) + (IF Gap < 0 THEN -Gap ELSE 0))
      BY <2>1 DEF TypeOK
    <3>4. QED
      BY <2>3, <3>1, <3>2, <3>3 DEF Followed, HeardIn, receiver
  <2>4. QED
    BY <1>4, <2>2, <2>3 DEF Place
<1>5. CASE Pull
  <2>1. Got \in Nat
    BY GotBounded
  <2>2. QED
    BY <1>5, <2>1 DEF Pull, Followed, HeardIn, TypeOK
<1>6. CASE Take
  BY <1>6 DEF Take, Followed, HeardIn, history, TypeOK
<1>7. CASE OnPacketSent
  BY <1>7 DEF OnPacketSent, Followed, HeardIn, history, TypeOK
<1>8. CASE UNCHANGED vars
  BY <1>8 DEF vars, receiver, history, Followed, HeardIn
<1>9. QED
  BY <1>1, <1>2, <1>3, <1>4, <1>5, <1>6, <1>7, <1>8 DEF Next

-----------------------------------------------------------------------------
(* Theorems.                                                               *)

\* The inductive invariant, for every value of the constants.
THEOREM IInvHolds == Spec => []IInv
<1>1. IInv /\ [Next]_vars => IInv'
  BY TypeStep, StartStep, ReadStep, WatermarkStep, FollowedStep DEF IInv
<1>2. QED
  BY <1>1, InitIInv, PTL DEF Spec

\* Every variable keeps the type of what it stands for.
THEOREM TypeCorrect == Spec => []TypeOK
<1>1. IInv => TypeOK
  BY DEF IInv
<1>2. QED
  BY <1>1, IInvHolds, PTL

\* No message is heard before its sound can have travelled from the source, for every
\* propagation delay, packet size and pace of the five threads and modems.
THEOREM HeardInTime == Spec => []NeverEarly
<1>1. IInv => NeverEarly
  BY Sizes DEF IInv, TypeOK, Followed, NeverEarly, HearsFirst, HeardIn
<1>2. QED
  BY <1>1, IInvHolds, PTL

\* What a message is late by is what the worker's reads missed, what was pulled as silence
\* and the target that had already passed; there is no other cause.
THEOREM LatenessIsAccounted == Spec => []LatenessExplained
<1>1. IInv => LatenessExplained
  BY DEF IInv, Followed, LatenessExplained, HearsFirst
<1>2. QED
  BY <1>1, IInvHolds, PTL

=============================================================================
