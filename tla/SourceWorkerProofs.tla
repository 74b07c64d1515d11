-------------------------- MODULE SourceWorkerProofs --------------------------
(***************************************************************************)
(* Proofs about SourceWorker, for every ring capacity, packet and batch    *)
(* size, drain and tail length, and any number of sessions and samples:    *)
(* nothing accepted is lost, no message is over before its session, none   *)
(* is left open, and samples are added no further behind the watermark     *)
(* than the tail a message has exposed.  The worker may be late for any    *)
(* edge.                                                                   *)
(***************************************************************************)
EXTENDS SourceWorker, SequenceTheorems, TLAPS

Rendered == [msg : 0..MaxSessions, own : 0..MaxSessions,
             id : 1..MaxSamples, ses : 1..MaxSessions]

Own == IF open THEN began ELSE 0

-----------------------------------------------------------------------------
(* Sequences.                                                              *)

\* A function on 1..n is a sequence of length n.
LEMMA FunctionIsSeq ==
  ASSUME NEW S, NEW n \in Nat, NEW f \in [1..n -> S]
  PROVE  f \in Seq(S) /\ Len(f) = n /\ DOMAIN f = 1..n
<1>1. f \in Seq(S)
  BY SeqDef
<1>2. 1..Len(f) = 1..n /\ Len(f) \in Nat
  BY <1>1, LenProperties
<1>3. Len(f) = n
  BY <1>2
<1>4. QED
  BY <1>1, <1>3

\* What is appended comes after what was there, element by element.
LEMMA Appended ==
  ASSUME NEW S, NEW p \in Seq(S), NEW q \in Seq(S)
  PROVE  /\ p \o q \in Seq(S) /\ Len(p \o q) = Len(p) + Len(q) /\ Len(p) \in Nat /\ Len(q) \in Nat
         /\ DOMAIN (p \o q) = 1..(Len(p) + Len(q))
         /\ \A i \in 1..Len(p) : (p \o q)[i] = p[i]
         /\ \A i \in 1..Len(q) : (p \o q)[Len(p) + i] = q[i]
<1>1. Len(p) \in Nat /\ Len(q) \in Nat
  BY LenProperties
<1>2. /\ p \o q \in Seq(S) /\ Len(p \o q) = Len(p) + Len(q)
      /\ \A i \in 1..(Len(p) + Len(q)) : (p \o q)[i] = IF i <= Len(p) THEN p[i] ELSE q[i - Len(p)]
  BY ConcatProperties
<1>3. DOMAIN (p \o q) = 1..(Len(p) + Len(q))
  BY <1>2, LenProperties
<1> DEFINE r == p \o q  a == Len(p)  b == Len(q)
<1> HIDE DEF r, a, b
<1>4. \A i \in 1..a : r[i] = p[i]
  BY <1>1, <1>2 DEF r, a, b
<1>5. ASSUME NEW i \in 1..b PROVE r[a + i] = q[i]
  <2>1. a \in Nat /\ b \in Nat
    BY <1>1 DEF a, b
  <2>2. a + i \in 1..(a + b) /\ ~(a + i <= a) /\ (a + i) - a = i
    BY <2>1
  <2>3. r[a + i] = IF a + i <= a THEN p[a + i] ELSE q[(a + i) - a]
    BY <1>2, <2>2 DEF r, a, b
  <2>4. QED
    BY <2>2, <2>3
<1>6. QED
  BY <1>1, <1>2, <1>3, <1>4, <1>5 DEF r, a, b

\* What is left when the first n are taken.
LEMMA FirstsTaken ==
  ASSUME NEW S, NEW q \in Seq(S), NEW n \in 0..Len(q)
  PROVE  /\ SubSeq(q, n + 1, Len(q)) \in Seq(S) /\ Len(q) \in Nat
         /\ Len(SubSeq(q, n + 1, Len(q))) = Len(q) - n
         /\ \A i \in 1..(Len(q) - n) : SubSeq(q, n + 1, Len(q))[i] = q[n + i]
<1> DEFINE L == Len(q)  r == SubSeq(q, n + 1, L)
<1>1. L \in Nat
  BY LenProperties
<1>2. \A i \in (n + 1)..L : q[i] \in S
  BY <1>1, ElementOfSeq
<1>3. n + 1 \in Int /\ L \in Int
  BY <1>1
<1> HIDE DEF L
<1>4. /\ r \in Seq(S) /\ Len(r) = (IF n + 1 <= L THEN L - (n + 1) + 1 ELSE 0)
      /\ \A i \in 1..(L - (n + 1) + 1) : r[i] = q[(n + 1) + i - 1]
  BY <1>2, <1>3, SubSeqProperties
<1> HIDE DEF r
<1>5. n \in 0..L
  BY DEF L
<1>6. Len(r) = L - n
  BY <1>1, <1>4, <1>5
<1>7. ASSUME NEW i \in 1..(L - n) PROVE r[i] = q[n + i]
  <2>1. i \in 1..(L - (n + 1) + 1) /\ (n + 1) + i - 1 = n + i
    BY <1>1, <1>5
  <2>2. QED
    BY <1>4, <2>1
<1>8. QED
  BY <1>1, <1>4, <1>6, <1>7 DEF r, L

-----------------------------------------------------------------------------
(* What the operations on the ring do to its samples.                      *)

\* The constants are numbers.
LEMMA Sizes ==
  /\ RingCapacity \in Nat /\ PacketSize \in Nat /\ MaxBatch \in Nat /\ MaxBatch > 0
  /\ DrainLength \in Nat /\ TailLength \in Nat /\ BaseDelay \in Nat
  /\ MaxSessions \in Nat /\ MaxSamples \in Nat
  BY WorkerAssumption

\* A packet, or what the ring has room for of it, goes behind what is queued.
LEMMA PacketQueued ==
  ASSUME TypeOK, Accounted, ReceivePacket, session > 0, NEW L, L = Len(txRing)
  PROVE  \E n \in Nat :
           /\ L \in Nat /\ received' = received + n /\ received + n <= MaxSamples
           /\ L + n <= RingCapacity
           /\ txRing' \in Seq(Sample) /\ Len(txRing') = L + n
           /\ \A i \in 1..L : txRing'[i] = txRing[i]
           /\ \A i \in 1..n : txRing'[L + i] = [id |-> received + i, ses |-> session]
<1> USE Sizes
<1> DEFINE n == Least(PacketSize, Room)
           f == [i \in 1..n |-> [id |-> received + i, ses |-> session]]
<1>1. txRing \in Seq(Sample) /\ L \in Nat /\ L <= RingCapacity
  BY LenProperties DEF TypeOK
<1>2. n \in Nat /\ n <= PacketSize /\ L + n <= RingCapacity
  BY <1>1 DEF Least, Room
<1>3. received \in Nat /\ received + n <= MaxSamples /\ session \in 1..MaxSessions
  <2>1. received + PacketSize <= MaxSamples
    BY DEF ReceivePacket
  <2>2. QED
    BY <1>2, <2>1 DEF TypeOK
<1>4. txRing' = txRing \o f /\ received' = received + n
  BY DEF ReceivePacket
<1> HIDE DEF n
<1>5. f \in [1..n -> Sample]
  <2>1. ASSUME NEW i \in 1..n PROVE [id |-> received + i, ses |-> session] \in Sample
    <3>1. received + i \in 1..MaxSamples
      BY <1>2, <1>3
    <3>2. QED
      BY <1>3, <3>1 DEF Sample
  <2>2. QED
    BY <2>1
<1>6. f \in Seq(Sample) /\ Len(f) = n
  BY <1>2, <1>5, FunctionIsSeq
<1>7. \A i \in 1..n : f[i] = [id |-> received + i, ses |-> session]
  OBVIOUS
<1> HIDE DEF f
<1>8. /\ txRing' \in Seq(Sample) /\ Len(txRing') = L + n
      /\ \A i \in 1..L : txRing'[i] = txRing[i]
      /\ \A i \in 1..n : txRing'[L + i] = f[i]
  BY <1>1, <1>4, <1>6, Appended
<1>9. QED
  BY <1>1, <1>2, <1>3, <1>4, <1>7, <1>8

\* A batch goes from the head of the ring behind what is rendered.
LEMMA BatchRendered ==
  ASSUME TypeOK, Accounted, ProcessAvailable, NEW L, L = Len(txRing)
  PROVE  \E n \in 1..L :
           /\ L \in Nat /\ consumed \in Nat /\ consumed' = consumed + n /\ consumed + n <= MaxSamples
           /\ txRing' \in Seq(Sample) /\ Len(txRing') = L - n
           /\ \A i \in 1..(L - n) : txRing'[i] = txRing[n + i]
           /\ rendered' \in Seq(Rendered) /\ Len(rendered') = consumed + n
           /\ \A i \in 1..consumed : rendered'[i] = rendered[i]
           /\ \A i \in 1..n : /\ rendered'[consumed + i].id = txRing[i].id
                              /\ rendered'[consumed + i].ses = txRing[i].ses
                              /\ rendered'[consumed + i].msg = CurrentMessage
                              /\ rendered'[consumed + i].own = Own
           /\ processed' = processed + n
           /\ watermark' = Greatest(watermark, origin + (processed + n))
           /\ UNCHANGED <<open, messages, began, firstMessage, origin>>
<1> USE Sizes
<1> DEFINE n == Least(MaxBatch, Len(txRing))
           m == CurrentMessage
           o == Own
           f == [i \in 1..n |-> [msg |-> m, own |-> o,
                                 id |-> txRing[i].id, ses |-> txRing[i].ses]]
<1>1. /\ txRing \in Seq(Sample) /\ L \in Nat /\ rendered \in Seq(Rendered)
      /\ Len(rendered) = consumed /\ consumed \in Nat
  BY LenProperties DEF TypeOK, Accounted, Rendered
<1>2. /\ n > 0 /\ rendered' = rendered \o f /\ txRing' = SubSeq(txRing, n + 1, L)
      /\ consumed' = consumed + n
      /\ processed' = processed + n
      /\ watermark' = Greatest(watermark, origin + (processed + n))
      /\ UNCHANGED <<open, messages, began, firstMessage, origin>>
  BY DEF ProcessAvailable, Unread, Own
<1>3. n \in 1..L
  BY <1>1, <1>2 DEF Least
<1>4. m \in 0..MaxSessions /\ o \in 0..MaxSessions
  BY DEF TypeOK, CurrentMessage, Own
<1>5. consumed + n <= MaxSamples
  BY <1>1, <1>3 DEF TypeOK, Accounted
<1> HIDE DEF n, m, o
<1>6. f \in [1..n -> Rendered]
  <2>1. ASSUME NEW i \in 1..n
        PROVE  [msg |-> m, own |-> o, id |-> txRing[i].id, ses |-> txRing[i].ses] \in Rendered
    <3>1. i \in 1..Len(txRing)
      BY <1>1, <1>3
    <3>2. txRing[i] \in Sample
      BY <1>1, <3>1, ElementOfSeq
    <3>3. QED
      BY <1>4, <3>2 DEF Sample, Rendered
  <2>2. QED
    BY <2>1
<1>7. f \in Seq(Rendered) /\ Len(f) = n
  BY <1>1, <1>3, <1>6, FunctionIsSeq
<1>8. \A i \in 1..n : /\ f[i].id = txRing[i].id /\ f[i].ses = txRing[i].ses
                     /\ f[i].msg = m /\ f[i].own = o
  OBVIOUS
<1> HIDE DEF f
<1>9. /\ rendered' \in Seq(Rendered) /\ Len(rendered') = consumed + n
      /\ \A i \in 1..consumed : rendered'[i] = rendered[i]
      /\ \A i \in 1..n : rendered'[consumed + i] = f[i]
  <2>1. rendered \in Seq(Rendered) /\ f \in Seq(Rendered)
    BY <1>1, <1>7
  <2>2. /\ rendered \o f \in Seq(Rendered) /\ Len(rendered \o f) = Len(rendered) + Len(f)
        /\ \A i \in 1..Len(rendered) : (rendered \o f)[i] = rendered[i]
        /\ \A i \in 1..Len(f) : (rendered \o f)[Len(rendered) + i] = f[i]
    BY ONLY <2>1, Appended
  <2>3. Len(rendered) = consumed /\ Len(f) = n /\ rendered' = rendered \o f
    BY <1>1, <1>2, <1>7
  <2>4. QED
    BY ONLY <2>2, <2>3
<1>10. /\ txRing' \in Seq(Sample) /\ Len(txRing') = L - n
       /\ \A i \in 1..(L - n) : txRing'[i] = txRing[n + i]
  <2>1. n \in 0..Len(txRing)
    BY <1>1, <1>3
  <2>2. QED
    BY <1>1, <1>2, <2>1, FirstsTaken
<1>11. \A i \in 1..n : /\ rendered'[consumed + i].id = txRing[i].id
                       /\ rendered'[consumed + i].ses = txRing[i].ses
                       /\ rendered'[consumed + i].msg = m
                       /\ rendered'[consumed + i].own = o
  BY <1>8, <1>9
<1>12. QED
  BY <1>1, <1>2, <1>3, <1>5, <1>9, <1>10, <1>11 DEF m, o

-----------------------------------------------------------------------------
(* Steps that leave the samples alone.                                     *)

Unmoved == UNCHANGED <<txRing, received, consumed, rendered>>

LEMMA OtherSteps ==
  ASSUME \/ PublishTX \/ Stop \/ LoopTop \/ Poll \/ EndMessage \/ Check \/ Finish
         \/ (\E s \in ModemState : PublishOther(s)) \/ UNCHANGED vars
  PROVE  Unmoved
<1>1. CASE PublishTX \/ Stop \/ LoopTop \/ Poll \/ EndMessage
  BY <1>1 DEF PublishTX, Stop, LoopTop, Poll, EndMessage, Unmoved, io
<1>2. CASE Check \/ Finish \/ (\E s \in ModemState : PublishOther(s)) \/ UNCHANGED vars
  BY <1>2 DEF Check, Finish, PublishOther, vars, Unmoved, io
<1>3. QED
  BY <1>1, <1>2

\* A batch is rendered by one of three steps, all of them the worker's.
BatchStep == ProcessAvailable /\ at \in {"drain", "feed", "flush"}
             /\ UNCHANGED <<state, running, session, received, final, polled, lastState, record>>
             /\ at' \in {at, "top"}

LEMMA BatchSteps ==
  ASSUME DrainTail \/ Feed \/ FlushTail
  PROVE  \/ BatchStep /\ (at' = "drain" => at = "drain") /\ (at = "drain" => at' = "drain")
         \/ Unmoved /\ UNCHANGED channel /\ at = "feed" /\ at' = "top"
            /\ UNCHANGED <<state, running, session, received, final, polled, lastState, record>>
  BY DEF DrainTail, Feed, FlushTail, BatchStep, Unmoved, io

-----------------------------------------------------------------------------
(* Each part of the inductive invariant is kept.                           *)

\* Samples are numbered as they were accepted.
LEMMA AccountedStep ==
  ASSUME TypeOK, Accounted, EdgesFollowed, [Next]_vars
  PROVE  Accounted'
<1> USE Sizes
<1> DEFINE L == Len(txRing)
<1>a. /\ txRing \in Seq(Sample) /\ L \in Nat /\ DOMAIN txRing = 1..L
      /\ rendered \in Seq(Rendered) /\ DOMAIN rendered = 1..consumed /\ consumed \in Nat
      /\ received \in Nat
  BY LenProperties DEF TypeOK, Accounted, Rendered
<1>1. CASE ReceivePacket
  <2>1. session > 0
    BY <1>1 DEF ReceivePacket, EdgesFollowed
  <2>2. PICK n \in Nat :
           /\ received' = received + n
           /\ txRing' \in Seq(Sample) /\ Len(txRing') = L + n
           /\ \A i \in 1..L : txRing'[i] = txRing[i]
           /\ \A i \in 1..n : txRing'[L + i] = [id |-> received + i, ses |-> session]
    BY <1>1, <2>1, PacketQueued
  <2>3. UNCHANGED <<consumed, rendered>>
    BY <1>1 DEF ReceivePacket
  <2>4. DOMAIN txRing' = 1..(L + n)
    BY <2>2, LenProperties
  <2> HIDE DEF L
  <2>5. ASSUME NEW i \in 1..(L + n) PROVE txRing'[i].id = consumed + i
    <3>1. CASE i <= L
      BY <1>a, <2>2, <3>1 DEF Accounted, L
    <3>2. CASE ~(i <= L)
      <4>1. i - L \in 1..n /\ L + (i - L) = i
        BY <1>a, <3>2
      <4>2. txRing'[i] = [id |-> received + (i - L), ses |-> session]
        BY <2>2, <4>1
      <4>3. received + (i - L) = consumed + i
        BY <1>a DEF Accounted, L
      <4>4. QED
        BY <4>2, <4>3
    <3>3. QED
      BY <3>1, <3>2
  <2>6. received + n = consumed + (L + n)
    BY <1>a DEF Accounted, L
  <2>7. QED
    BY <2>2, <2>3, <2>4, <2>5, <2>6 DEF Accounted
<1>2. CASE DrainTail \/ Feed \/ FlushTail
  <2>1. CASE BatchStep
    <3>1. PICK n \in 1..L :
           /\ consumed' = consumed + n
           /\ txRing' \in Seq(Sample) /\ Len(txRing') = L - n
           /\ \A i \in 1..(L - n) : txRing'[i] = txRing[n + i]
           /\ rendered' \in Seq(Rendered) /\ Len(rendered') = consumed + n
           /\ \A i \in 1..consumed : rendered'[i] = rendered[i]
           /\ \A i \in 1..n : rendered'[consumed + i].id = txRing[i].id
      BY <2>1, BatchRendered DEF BatchStep
    <3>2. UNCHANGED received
      BY <2>1 DEF BatchStep
    <3>3. DOMAIN txRing' = 1..(L - n) /\ DOMAIN rendered' = 1..(consumed + n)
      BY <3>1, LenProperties
    <3> HIDE DEF L
    <3>4. ASSUME NEW i \in 1..(L - n) PROVE txRing'[i].id = (consumed + n) + i
      <4>1. n + i \in 1..L /\ consumed + (n + i) = (consumed + n) + i
        BY <1>a
      <4>2. txRing[n + i].id = consumed + (n + i)
        BY <1>a, <4>1 DEF Accounted
      <4>3. QED
        BY <3>1, <4>1, <4>2
    <3>5. ASSUME NEW i \in 1..(consumed + n) PROVE rendered'[i].id = i
      <4>1. CASE i <= consumed
        <5>1. i \in 1..consumed
          BY <1>a, <4>1
        <5>2. rendered'[i] = rendered[i] /\ rendered[i].id = i
          BY <1>a, <3>1, <5>1 DEF Accounted
        <5>3. QED
          BY <5>2
      <4>2. CASE ~(i <= consumed)
        <5>1. i - consumed \in 1..n /\ consumed + (i - consumed) = i /\ i - consumed \in 1..L
          BY <1>a, <4>2
        <5>2. rendered'[i].id = txRing[i - consumed].id
          BY <3>1, <5>1
        <5>3. txRing[i - consumed].id = consumed + (i - consumed)
          BY <1>a, <5>1 DEF Accounted
        <5>4. QED
          BY <5>1, <5>2, <5>3
      <4>3. QED
        BY <4>1, <4>2
    <3>6. received = (consumed + n) + (L - n)
      BY <1>a DEF Accounted, L
    <3>7. QED
      BY <3>1, <3>2, <3>3, <3>4, <3>5, <3>6 DEF Accounted
  <2>2. CASE Unmoved
    BY <2>2 DEF Unmoved, Accounted
  <2>3. QED
    BY <1>2, <2>1, <2>2, BatchSteps
<1>3. CASE Unmoved
  BY <1>3 DEF Unmoved, Accounted
<1>4. QED
  BY <1>1, <1>2, <1>3, OtherSteps DEF Next, Worker, ModemIO

\* Messages follow the edges of the modem's state.
LEMMA EdgesStep ==
  ASSUME TypeOK, Accounted, EdgesFollowed, [Next]_vars
  PROVE  EdgesFollowed'
<1> USE DEF EdgesFollowed, NoHalfMessage
<1>a. /\ session \in Nat /\ messages \in Nat /\ Len(events) \in Nat /\ events \in Seq(0..MaxSamples)
      /\ open \in BOOLEAN /\ active \in BOOLEAN /\ messages <= session
  BY Sizes, LenProperties DEF TypeOK
<1>1. CASE PublishTX
  <2>1. /\ state # "TX" /\ state' = "TX" /\ session' = session + 1
        /\ UNCHANGED <<at, polled, lastState, active, events, open, messages>>
    BY <1>1 DEF PublishTX, record, channel
  <2>2. messages < session'
    BY <1>a, <2>1
  <2>3. session' > 0
    BY <1>a, <2>1
  <2>4. QED
    BY <1>a, <2>1, <2>2, <2>3
<1>2. CASE \/ ReceivePacket \/ Stop \/ LoopTop \/ Check
           \/ (\E s \in ModemState : PublishOther(s)) \/ UNCHANGED vars
  <2>1. /\ UNCHANGED <<session, polled, lastState, active, events, open, messages>>
        /\ state' \in {state} \cup (ModemState \ {"TX"})
        /\ at' = at \/ (at \in {"top", "check"} /\ at' \in {"poll", "top", "feed"})
    BY <1>2 DEF ReceivePacket, Stop, LoopTop, Check, PublishOther, vars, record, channel, io
  <2>2. QED
    BY <1>a, <2>1
<1>3. CASE DrainTail \/ Feed \/ FlushTail
  <2>1. /\ UNCHANGED <<state, session, polled, lastState, active, events, open, messages>>
        /\ at' = at \/ (at = "feed" /\ at' = "top")
    BY <1>3 DEF DrainTail, Feed, FlushTail, ProcessAvailable, record, channel, io
  <2>2. QED
    BY <1>a, <2>1
<1>4. CASE Poll
  <2>1. /\ at = "poll" /\ polled' = state /\ UNCHANGED <<state, session>>
        /\ AfterPoll \in {"flush", "check"}
    BY <1>4 DEF Poll, io, AfterPoll
  <2>2. CASE TxEntry
    <3>1. /\ open' = TRUE /\ messages' = messages + 1 /\ active' = TRUE /\ UNCHANGED events
          /\ lastState' = state /\ at' = AfterPoll
      BY <1>4, <2>2 DEF Poll, BeginMessage, TxEntry, TxExit
    <3>2. state = "TX" /\ lastState # "TX"
      BY <2>2 DEF TxEntry
    <3>3. messages < session /\ ~open /\ Len(events) = messages
      BY <1>a, <2>1, <3>2
    <3>4. Len(events)' = messages' - 1 /\ messages' <= session'
      BY <1>a, <2>1, <3>1, <3>3
    <3>5. QED
      BY <1>a, <2>1, <3>1, <3>2, <3>4
  <2>3. CASE TxExit
    <3>1. /\ at' = "drain" /\ UNCHANGED <<lastState, open, messages, active, events>>
      BY <1>4, <2>3 DEF Poll, TxEntry, TxExit, channel, record
    <3>2. state # "TX" /\ lastState = "TX"
      BY <2>3 DEF TxExit
    <3>3. QED
      BY <1>a, <2>1, <3>1, <3>2
  <2>4. CASE ~TxEntry /\ ~TxExit
    <3>1. /\ at' = AfterPoll /\ lastState' = state /\ UNCHANGED <<open, messages, active, events>>
      BY <1>4, <2>4 DEF Poll, channel, record
    <3>2. state = "TX" <=> lastState = "TX"
      BY <2>4 DEF TxEntry, TxExit
    <3>3. QED
      BY <1>a, <2>1, <3>1, <3>2
  <2>5. QED
    BY <2>2, <2>3, <2>4
<1>5. CASE EndMessage
  <2>1. /\ at = "drain" /\ open' = FALSE /\ active' = FALSE /\ lastState' = polled
        /\ at' \in {"flush", "check"} /\ UNCHANGED <<state, session, polled, messages>>
    BY <1>5 DEF EndMessage, EndChannel, io, AfterPoll
  <2>2. open /\ active /\ polled # "TX" /\ Len(events) = messages - 1
    BY <1>a, <2>1
  <2>3. events' = Append(events, SampleCount)
    BY <1>5, <2>2 DEF EndMessage
  <2>4. SampleCount \in 0..MaxSamples
    BY Sizes DEF TypeOK, SampleCount
  <2>5. Len(events') = Len(events) + 1
    BY <1>a, <2>3, <2>4, AppendProperties
  <2>6. Len(events') = messages'
    BY <1>a, <2>1, <2>2, <2>5
  <2>7. messages' - (IF open' THEN 1 ELSE 0) = messages' /\ ~open' /\ messages' <= session'
    BY <1>a, <2>1
  <2>8. at' # "drain" /\ at' # "done" /\ active' = open' /\ ~(lastState' = "TX")
    BY <2>1, <2>2
  <2>9. state' = "TX" => session' > 0 /\ messages' < session'
    BY <2>1
  <2>10. QED
    BY <2>6, <2>7, <2>8, <2>9, Zenon
<1>6. CASE Finish
  <2>1. /\ at = "flush" /\ at' = "done"
        /\ UNCHANGED <<state, session, polled, active, events, messages>>
        /\ \/ lastState = "TX" /\ open' = FALSE /\ lastState' = "IDLE"
           \/ lastState # "TX" /\ UNCHANGED <<open, lastState>>
    BY <1>6 DEF Finish, NeedsFlush, EndChannel, io, record, channel
  <2>2. ~open' /\ ~(lastState' = "TX")
    BY <2>1
  <2>3. Len(events') >= messages' - 1
    BY <1>a, <2>1
  <2>4. QED
    BY <1>a, <2>1, <2>2, <2>3
<1>7. QED
  BY <1>1, <1>2, <1>3, <1>4, <1>5, <1>6 DEF Next, Worker, ModemIO

\* What the steps that move no sample do to the message.
LEMMA MessageSteps ==
  ASSUME \/ PublishTX \/ Stop \/ LoopTop \/ Check \/ (\E s \in ModemState : PublishOther(s))
         \/ ReceivePacket \/ UNCHANGED vars
  PROVE  UNCHANGED <<lastState, channel, consumed, rendered, record>>
<1>1. CASE PublishTX \/ Stop \/ LoopTop \/ Check
  BY <1>1 DEF PublishTX, Stop, LoopTop, Check
<1>2. CASE ReceivePacket \/ (\E s \in ModemState : PublishOther(s)) \/ UNCHANGED vars
  BY <1>2 DEF ReceivePacket, PublishOther, vars
<1>3. QED
  BY <1>1, <1>2

\* What the two ways a message ends do to it.
LEMMA MessageEnds ==
  ASSUME TypeOK, EndMessage \/ (Finish /\ NeedsFlush)
  PROVE  txRing = <<>> /\ txRing' = <<>> /\ EndChannel
  BY DEF EndMessage, Finish, NeedsFlush, Drained

\* Four things can happen to a message: nothing, a batch, its beginning, its end.
LEMMA MessageChanges ==
  ASSUME TypeOK, [Next]_vars, open <=> lastState = "TX", at = "drain" => lastState = "TX"
  PROVE  \/ UNCHANGED <<channel, rendered>>
         \/ ProcessAvailable
         \/ Poll /\ TxEntry
         \/ EndChannel /\ open /\ rendered' = rendered
<1>1. CASE \/ PublishTX \/ Stop \/ LoopTop \/ Check \/ (\E s \in ModemState : PublishOther(s))
           \/ ReceivePacket \/ UNCHANGED vars
  BY <1>1, MessageSteps
<1>2. CASE DrainTail \/ Feed \/ FlushTail
  BY <1>2 DEF DrainTail, Feed, FlushTail
<1>3. CASE Poll
  BY <1>3 DEF Poll
<1>4. CASE EndMessage \/ Finish
  BY <1>4 DEF EndMessage, Finish, NeedsFlush
<1>5. QED
  BY <1>1, <1>2, <1>3, <1>4 DEF Next, Worker, ModemIO

\* What a batch does to the watermark, and that something was rendered by it.
LEMMA BatchAdds ==
  ASSUME TypeOK, Accounted, ProcessAvailable
  PROVE  \E n \in Nat :
           /\ processed' = processed + n /\ watermark' = Greatest(watermark, origin + (processed + n))
           /\ UNCHANGED <<open, messages, began, firstMessage, origin>>
           /\ rendered' # <<>> /\ (Unheard' => Unheard)
<1> DEFINE L == Len(txRing)
<1>1. PICK n \in 1..L :
        /\ L \in Nat /\ consumed \in Nat
        /\ rendered' \in Seq(Rendered) /\ Len(rendered') = consumed + n
        /\ \A i \in 1..consumed : rendered'[i] = rendered[i]
        /\ processed' = processed + n /\ watermark' = Greatest(watermark, origin + (processed + n))
        /\ UNCHANGED <<open, messages, began, firstMessage, origin>>
  BY BatchRendered
<1>2. n \in Nat /\ consumed + n > 0
  BY <1>1
<1>3. rendered' # <<>>
  BY <1>1, <1>2, EmptySeq
<1>4. rendered # <<>> => 1 \in 1..consumed
  <2>1. rendered \in Seq(Rendered) /\ Len(rendered) = consumed
    BY DEF TypeOK, Accounted, Rendered
  <2>2. QED
    BY <1>1, <2>1, EmptySeq
<1>5. Unheard' => Unheard
  BY <1>1, <1>3, <1>4 DEF Unheard
<1>6. QED
  BY <1>1, <1>2, <1>3, <1>5

\* An open message stays at the watermark, a closed one behind it by its tail.
LEMMA NearStep ==
  ASSUME TypeOK, Accounted, EdgesFollowed, NearWatermark, SessionsFollow, [Next]_vars
  PROVE  NearWatermark'
<1> USE Sizes
<1>a. /\ open \in BOOLEAN /\ firstMessage \in BOOLEAN /\ messages \in Nat
      /\ origin \in Nat /\ processed \in Nat /\ watermark \in Nat
  BY DEF TypeOK
<1>b. /\ Aligned \/ Unheard => /\ open => origin + processed >= watermark
                               /\ ~open => origin + processed + TailLength >= watermark
      /\ firstMessage => messages = 0 /\ ~open
      /\ rendered = <<>> /\ firstMessage => watermark = 0
  BY DEF NearWatermark
<1>c. ASSUME Aligned \/ Unheard
      PROVE  IF open THEN origin + processed >= watermark
                     ELSE origin + processed + TailLength >= watermark
  BY <1>c DEF NearWatermark
<1>1. CASE UNCHANGED <<channel, rendered>>
  BY <1>1 DEF channel, NearWatermark, Unheard
<1>2. CASE ProcessAvailable
  <2>1. PICK n \in Nat :
          /\ processed' = processed + n /\ watermark' = Greatest(watermark, origin + (processed + n))
          /\ UNCHANGED <<open, messages, began, firstMessage, origin>>
          /\ rendered' # <<>> /\ (Unheard' => Unheard)
    BY <1>2, BatchAdds
  <2>2. ASSUME Aligned \/ Unheard
        PROVE  /\ open => origin + processed' >= watermark'
               /\ ~open => origin + processed' + TailLength >= watermark'
    <3>1. /\ open => origin + processed >= watermark
          /\ ~open => origin + processed + TailLength >= watermark
      BY <1>c, <2>2
    <3>2. \/ watermark' = watermark
          \/ watermark' = origin + (processed + n)
      BY <2>1 DEF Greatest
    <3>3. QED
      BY <1>a, <2>1, <3>1, <3>2
  <2>3. QED
    BY <1>b, <2>1, <2>2 DEF NearWatermark
<1>3. CASE Poll /\ TxEntry
  <2>1. PICK gap \in (IF Aligned THEN Gaps ELSE {0}) : BeginMessage(gap)
    BY <1>3 DEF Poll, TxEntry, TxExit
  <2>2. gap \in Nat /\ BaseDelay \in Nat
    BY WorkerAssumption
  <2>3. /\ open' = TRUE /\ firstMessage' = FALSE /\ processed' = 0
        /\ watermark' = watermark /\ origin' = NextOrigin(gap) /\ rendered' = rendered
    BY <1>3, <2>1 DEF BeginMessage, Poll
  <2>4. ASSUME Unheard, firstMessage PROVE watermark = 0
    <3>1. rendered # <<>> => 1 \in DOMAIN rendered
      <4>1. rendered \in Seq(Rendered)
        BY DEF TypeOK, Rendered
      <4>2. QED
        BY <4>1, EmptySeq, LenProperties
    <3>2. rendered # <<>> => rendered[1].msg <= 0 /\ rendered[1].msg \in Nat
      <4>1. rendered \in Seq(Rendered)
        BY DEF TypeOK, Rendered
      <4>2. 1 \in DOMAIN rendered => rendered[1] \in Rendered
        BY <4>1, ElementOfSeq, LenProperties
      <4>3. \A x \in Rendered : x.msg \in Nat
        BY DEF Rendered
      <4>4. QED
        BY <1>b, <2>4, <3>1, <4>2, <4>3 DEF SessionsFollow
    <3>3. rendered = <<>>
      BY <2>4, <3>2 DEF Unheard
    <3>4. QED
      BY <1>b, <2>4, <3>3
  <2>5. Aligned \/ Unheard => NextOrigin(gap) \in Nat /\ NextOrigin(gap) >= watermark
    BY <1>a, <2>2, <2>4 DEF NextOrigin
  <2>6. Aligned \/ Unheard' => origin' + processed' >= watermark'
    <3>1. Unheard' => Unheard
      BY <2>3 DEF Unheard
    <3>2. QED
      BY <1>a, <2>3, <2>5, <3>1
  <2>7. QED
    BY <2>3, <2>6 DEF NearWatermark
<1>4. CASE EndChannel /\ open /\ rendered' = rendered
  <2>1. /\ open' = FALSE /\ processed' = processed + DrainLength
        /\ watermark' = Greatest(watermark, origin + (processed + DrainLength)) + TailLength
        /\ UNCHANGED <<messages, firstMessage, origin, rendered>>
    BY <1>4 DEF EndChannel
  <2>2. ~firstMessage
    BY <1>4, <1>b
  <2>3. Unheard' => Unheard
    BY <2>1 DEF Unheard
  <2>4. ASSUME Aligned \/ Unheard PROVE origin' + processed' + TailLength >= watermark'
    <3>1. origin + processed >= watermark
      BY <1>c, <1>4, <2>4
    <3>2. watermark' = origin + (processed + DrainLength) + TailLength
      BY <1>a, <2>1, <3>1 DEF Greatest
    <3>3. QED
      BY <1>a, <2>1, <3>2
  <2>5. QED
    BY <2>1, <2>2, <2>3, <2>4 DEF NearWatermark
<1>5. QED
  BY <1>1, <1>2, <1>3, <1>4, MessageChanges DEF EdgesFollowed

\* As long as it is not over, a worker is before the session it sees next, and what it
\* sees is of later sessions than the messages it ended.
LEMMA FollowStep ==
  ASSUME TypeOK, Accounted, EdgesFollowed, SessionsFollow, MessageNotCut, [Next]_vars
  PROVE  SessionsFollow'
<1> USE Sizes
<1>a. /\ open \in BOOLEAN /\ session \in Nat /\ messages \in Nat /\ began \in Nat
      /\ txRing \in Seq(Sample) /\ Len(txRing) \in Nat /\ DOMAIN txRing = 1..Len(txRing)
      /\ DOMAIN rendered = 1..consumed /\ consumed \in Nat
  BY LenProperties DEF TypeOK, Accounted
<1>b. /\ \A i \in DOMAIN rendered : rendered[i].msg \in Nat /\ rendered[i].own \in Nat
      /\ \A k \in DOMAIN txRing : txRing[k].ses \in Nat \ {0}
  <2>1. rendered \in Seq(Rendered)
    BY DEF TypeOK, Rendered
  <2>2. /\ \A i \in DOMAIN rendered : rendered[i] \in Rendered
        /\ \A k \in DOMAIN txRing : txRing[k] \in Sample
    BY <1>a, <2>1, ElementOfSeq, LenProperties
  <2>3. /\ \A x \in Rendered : x.msg \in Nat /\ x.own \in Nat
        /\ \A x \in Sample : x.ses \in Nat \ {0}
    BY DEF Rendered, Sample
  <2>4. QED
    BY <2>2, <2>3
<1>c. /\ began <= session
      /\ at # "done" /\ state = "TX" /\ (~open \/ at = "drain") => session > began
      /\ \A i \in DOMAIN rendered :
           /\ rendered[i].msg <= messages /\ rendered[i].own <= began
           /\ rendered[i].msg = 0 => rendered[i].own = 0
           /\ open /\ rendered[i].msg # messages => rendered[i].own < began
      /\ at # "done" =>
           \A i \in DOMAIN rendered, k \in DOMAIN txRing :
             rendered[i].msg # CurrentMessage => txRing[k].ses > rendered[i].own
  BY DEF SessionsFollow
<1>1. CASE PublishTX
  <2>1. /\ session' = session + 1 /\ UNCHANGED <<txRing, at, messages, began, open, rendered>>
    BY <1>1 DEF PublishTX, channel
  <2>2. session' > began
    BY <1>a, <1>c, <2>1
  <2>3. QED
    BY <1>a, <1>c, <2>1, <2>2 DEF SessionsFollow, CurrentMessage
<1>2. CASE ReceivePacket
  <2>1. /\ state = "TX" /\ UNCHANGED <<open, messages, began, session, at, state, rendered>>
    BY <1>2 DEF ReceivePacket, channel
  <2>2. session > 0
    BY <2>1 DEF EdgesFollowed
  <2> DEFINE L == Len(txRing)
  <2>3. PICK n \in Nat :
           /\ txRing' \in Seq(Sample) /\ Len(txRing') = L + n
           /\ \A i \in 1..L : txRing'[i] = txRing[i]
           /\ \A i \in 1..n : txRing'[L + i] = [id |-> received + i, ses |-> session]
    BY <1>2, <2>2, PacketQueued
  <2>4. DOMAIN txRing' = 1..(L + n) /\ L \in Nat /\ DOMAIN txRing = 1..L
    BY <1>a, <2>3, LenProperties
  <2> HIDE DEF L
  <2>5. ASSUME at # "done", NEW i \in DOMAIN rendered, NEW k \in 1..(L + n),
               rendered[i].msg # CurrentMessage
        PROVE  txRing'[k].ses > rendered[i].own
    <3>1. CASE k <= L
      <4>1. k \in 1..L
        BY <2>4, <3>1
      <4>2. QED
        BY <1>c, <2>3, <2>4, <2>5, <4>1
    <3>2. CASE ~(k <= L)
      <4>1. k - L \in 1..n /\ L + (k - L) = k
        BY <2>4, <3>2
      <4>2. txRing'[k] = [id |-> received + (k - L), ses |-> session]
        BY <2>3, <4>1
      <4>3. rendered[i].own < session
        <5>1. CASE open
          BY <1>a, <1>b, <1>c, <2>5, <5>1 DEF CurrentMessage
        <5>2. CASE ~open
          <6>1. session > began /\ rendered[i].own <= began
            BY <1>c, <2>1, <2>5, <5>2
          <6>2. QED
            BY <1>a, <1>b, <6>1
        <5>3. QED
          BY <1>a, <5>1, <5>2
      <4>4. QED
        BY <1>a, <1>b, <4>2, <4>3
    <3>3. QED
      BY <3>1, <3>2
  <2>6. QED
    BY <1>c, <2>1, <2>4, <2>5 DEF SessionsFollow, CurrentMessage
<1>3. CASE \E s \in ModemState : PublishOther(s)
  <2>1. state' # "TX" /\ UNCHANGED <<txRing, session, at, messages, began, open, rendered>>
    BY <1>3 DEF PublishOther, channel, io
  <2>2. QED
    BY <1>c, <2>1 DEF SessionsFollow, CurrentMessage
<1>4. CASE Stop \/ LoopTop \/ Check \/ UNCHANGED vars
  <2>1. /\ UNCHANGED <<txRing, session, messages, began, open, state, rendered>>
        /\ at' # "drain" \/ at' = at
        /\ at' # "done" => at # "done"
    BY <1>4 DEF Stop, LoopTop, Check, vars, channel, io
  <2>2. QED
    BY <1>c, <2>1 DEF SessionsFollow, CurrentMessage
<1>5. CASE DrainTail \/ Feed \/ FlushTail
  <2>1. CASE BatchStep
    <3>1. ProcessAvailable /\ UNCHANGED <<state, session>> /\ at # "done"
          /\ (at' = "drain" => at = "drain")
      BY <1>5, <2>1, BatchSteps DEF BatchStep
    <3> DEFINE L == Len(txRing)
    <3>2. PICK n \in 1..L :
            /\ txRing' \in Seq(Sample) /\ Len(txRing') = L - n
            /\ \A i \in 1..(L - n) : txRing'[i] = txRing[n + i]
            /\ rendered' \in Seq(Rendered) /\ Len(rendered') = consumed + n
            /\ \A i \in 1..consumed : rendered'[i] = rendered[i]
            /\ \A i \in 1..n : /\ rendered'[consumed + i].msg = CurrentMessage
                               /\ rendered'[consumed + i].own = Own
            /\ UNCHANGED <<open, messages, began, firstMessage, origin>>
      BY <3>1, BatchRendered
    <3>3. /\ DOMAIN txRing' = 1..(L - n) /\ L \in Nat /\ DOMAIN txRing = 1..L /\ n \in Nat
          /\ DOMAIN rendered' = 1..(consumed + n)
      BY <1>a, <3>2, LenProperties
    <3> HIDE DEF L
    <3>4. \A i \in 1..(L - n) : n + i \in DOMAIN txRing /\ txRing'[i] = txRing[n + i]
      BY <3>2, <3>3
    <3>5. \A i \in 1..(consumed + n) : i \in 1..consumed \/ (i - consumed \in 1..n /\ consumed + (i - consumed) = i)
      BY <1>a, <3>3
    <3>6. \A i \in DOMAIN rendered' :
            \/ i \in DOMAIN rendered /\ rendered'[i] = rendered[i]
            \/ rendered'[i].msg = CurrentMessage /\ rendered'[i].own = Own
      BY <1>a, <3>2, <3>3, <3>5
    <3>7. ASSUME NEW i \in DOMAIN rendered'
          PROVE  /\ rendered'[i].msg <= messages /\ rendered'[i].own <= began
                 /\ rendered'[i].msg = 0 => rendered'[i].own = 0
                 /\ open /\ rendered'[i].msg # messages => rendered'[i].own < began
      <4>1. CASE i \in DOMAIN rendered /\ rendered'[i] = rendered[i]
        BY <1>c, <4>1
      <4>2. CASE rendered'[i].msg = CurrentMessage /\ rendered'[i].own = Own
        <5>1. open => messages > 0
          <6>1. Len(events) \in Nat
            BY LenProperties DEF TypeOK
          <6>2. open => Len(events) = messages - 1
            BY <3>1 DEF EdgesFollowed
          <6>3. QED
            BY <1>a, <6>1, <6>2
        <5>2. QED
          BY <1>a, <4>2, <5>1 DEF CurrentMessage, Own
      <4>3. QED
        BY <3>6, <4>1, <4>2
    <3>8. ASSUME NEW i \in DOMAIN rendered', NEW k \in DOMAIN txRing',
                 rendered'[i].msg # CurrentMessage
          PROVE  txRing'[k].ses > rendered'[i].own
      BY <1>c, <3>1, <3>3, <3>4, <3>6, <3>8
    <3>9. CurrentMessage' = CurrentMessage
      BY <3>2 DEF CurrentMessage
    <3>10. QED
      BY <1>c, <3>1, <3>2, <3>7, <3>8, <3>9 DEF SessionsFollow
  <2>2. CASE Unmoved /\ UNCHANGED channel /\ at = "feed" /\ at' = "top"
             /\ UNCHANGED <<state, session>>
    BY <1>c, <2>2 DEF SessionsFollow, Unmoved, channel, CurrentMessage
  <2>3. QED
    BY <1>5, <2>1, <2>2, BatchSteps
<1>6. CASE Poll
  <2>1. UNCHANGED <<txRing, state, session, rendered>> /\ at = "poll" /\ AfterPoll \in {"flush", "check"}
    BY <1>6 DEF Poll, io, AfterPoll
  <2>2. CASE TxEntry
    <3>1. /\ state = "TX" /\ ~open /\ at' \in {"flush", "check"}
          /\ open' = TRUE /\ messages' = messages + 1 /\ began' = session
      BY <1>6, <2>1, <2>2 DEF Poll, TxEntry, TxExit, BeginMessage, EdgesFollowed
    <3>2. session > began
      BY <1>c, <2>1, <3>1
    <3>3. CurrentMessage = 0 /\ CurrentMessage' = messages + 1
      BY <3>1 DEF CurrentMessage
    <3>4. ASSUME NEW i \in DOMAIN rendered
          PROVE  rendered[i].msg <= messages + 1 /\ rendered[i].own < session
      BY <1>a, <1>b, <1>c, <3>2
    <3>5. ASSUME NEW i \in DOMAIN rendered, NEW k \in DOMAIN txRing
          PROVE  txRing[k].ses > rendered[i].own
      <4>1. CASE rendered[i].msg = 0
        BY <1>b, <1>c, <4>1
      <4>2. CASE rendered[i].msg # 0
        BY <1>c, <2>1, <3>3, <4>2
      <4>3. QED
        BY <4>1, <4>2
    <3>6. \A i \in DOMAIN rendered : rendered[i].own <= session
      BY <1>a, <1>b, <3>4
    <3>7. QED
      BY <1>a, <1>c, <2>1, <3>1, <3>4, <3>5, <3>6 DEF SessionsFollow
  <2>3. CASE ~TxEntry
    <3>1. UNCHANGED <<open, messages, began>> /\ at' \in {"flush", "check", "drain"}
          /\ (at' = "drain" => state # "TX")
      BY <1>6, <2>1, <2>3 DEF Poll, channel, TxExit
    <3>2. QED
      BY <1>c, <2>1, <3>1 DEF SessionsFollow, CurrentMessage
  <2>4. QED
    BY <2>2, <2>3
<1>7. CASE EndMessage \/ (Finish /\ NeedsFlush)
  <2>1. /\ txRing' = <<>> /\ open' = FALSE
        /\ UNCHANGED <<state, session, messages, began, rendered>>
    BY <1>7, MessageEnds DEF EndChannel, EndMessage, Finish, io
  <2>2. at' # "drain" /\ (at' # "done" => at = "drain")
    BY <1>7 DEF EndMessage, Finish, AfterPoll
  <2>3. DOMAIN txRing' = {}
    BY <2>1
  <2>4. QED
    BY <1>c, <2>1, <2>2, <2>3 DEF SessionsFollow
<1>8. CASE Finish /\ ~NeedsFlush
  <2>1. UNCHANGED <<session, messages, began, open, rendered>> /\ at' = "done"
    BY <1>8 DEF Finish, channel, io
  <2>2. QED
    BY <1>c, <2>1 DEF SessionsFollow
<1>9. QED
  BY <1>1, <1>2, <1>3, <1>4, <1>5, <1>6, <1>7, <1>8 DEF Next, Worker, ModemIO

\* A message that is over stays so: what comes behind it is of later sessions.
LEMMA WholeStep ==
  ASSUME TypeOK, Accounted, EdgesFollowed, SessionsFollow, MessageNotCut, [Next]_vars
  PROVE  MessageNotCut'
<1> USE Sizes
<1>a. /\ txRing \in Seq(Sample) /\ Len(txRing) \in Nat /\ DOMAIN txRing = 1..Len(txRing)
      /\ DOMAIN rendered = 1..consumed /\ consumed \in Nat
  BY LenProperties DEF TypeOK, Accounted
<1>b. /\ \A i, j \in DOMAIN rendered :
           i < j /\ rendered[j].msg # rendered[i].msg => rendered[j].ses > rendered[i].own
      /\ ~open /\ at # "done" => \A k \in DOMAIN txRing : txRing[k].ses > began
  BY DEF MessageNotCut
<1>1. CASE ReceivePacket
  <2>1. /\ state = "TX" /\ UNCHANGED <<open, began, at, rendered>>
    BY <1>1 DEF ReceivePacket, channel
  <2>2. session > 0
    BY <2>1 DEF EdgesFollowed
  <2> DEFINE L == Len(txRing)
  <2>3. PICK n \in Nat :
           /\ txRing' \in Seq(Sample) /\ Len(txRing') = L + n
           /\ \A i \in 1..L : txRing'[i] = txRing[i]
           /\ \A i \in 1..n : txRing'[L + i] = [id |-> received + i, ses |-> session]
    BY <1>1, <2>2, PacketQueued
  <2>4. DOMAIN txRing' = 1..(L + n) /\ L \in Nat /\ DOMAIN txRing = 1..L
    BY <1>a, <2>3, LenProperties
  <2> HIDE DEF L
  <2>5. ASSUME ~open, at # "done", NEW k \in 1..(L + n) PROVE txRing'[k].ses > began
    <3>1. CASE k <= L
      <4>1. k \in 1..L
        BY <2>4, <3>1
      <4>2. QED
        BY <1>b, <2>3, <2>4, <2>5, <4>1
    <3>2. CASE ~(k <= L)
      <4>1. k - L \in 1..n /\ L + (k - L) = k
        BY <2>4, <3>2
      <4>2. txRing'[k] = [id |-> received + (k - L), ses |-> session]
        BY <2>3, <4>1
      <4>3. QED
        BY <2>1, <2>5, <4>2 DEF SessionsFollow
    <3>3. QED
      BY <3>1, <3>2
  <2>6. QED
    BY <1>b, <2>1, <2>4, <2>5 DEF MessageNotCut
<1>2. CASE DrainTail \/ Feed \/ FlushTail
  <2>1. CASE BatchStep
    <3>1. ProcessAvailable /\ at # "done"
      BY <2>1 DEF BatchStep
    <3> DEFINE L == Len(txRing)
    <3>2. PICK n \in 1..L :
            /\ txRing' \in Seq(Sample) /\ Len(txRing') = L - n
            /\ \A i \in 1..(L - n) : txRing'[i] = txRing[n + i]
            /\ rendered' \in Seq(Rendered) /\ Len(rendered') = consumed + n
            /\ \A i \in 1..consumed : rendered'[i] = rendered[i]
            /\ \A i \in 1..n : /\ rendered'[consumed + i].msg = CurrentMessage
                               /\ rendered'[consumed + i].ses = txRing[i].ses
            /\ UNCHANGED <<open, messages, began, firstMessage, origin>>
      BY <3>1, BatchRendered
    <3>3. /\ DOMAIN txRing' = 1..(L - n) /\ L \in Nat /\ DOMAIN txRing = 1..L /\ n \in Nat
          /\ DOMAIN rendered' = 1..(consumed + n)
      BY <1>a, <3>2, LenProperties
    <3> HIDE DEF L
    <3>4. \A i \in 1..(L - n) : n + i \in DOMAIN txRing /\ txRing'[i] = txRing[n + i]
      BY <3>2, <3>3
    <3>5. ~open => \A k \in DOMAIN txRing' : txRing'[k].ses > began
      BY <1>b, <3>1, <3>3, <3>4
    <3>6. ASSUME NEW i \in DOMAIN rendered', NEW j \in DOMAIN rendered', i < j,
                 rendered'[j].msg # rendered'[i].msg
          PROVE  rendered'[j].ses > rendered'[i].own
      <4>1. CASE j <= consumed
        <5>1. i \in 1..consumed /\ j \in 1..consumed
          BY <1>a, <3>3, <3>6, <4>1
        <5>2. QED
          BY <1>a, <1>b, <3>2, <3>6, <5>1
      <4>2. CASE ~(j <= consumed)
        <5>1. j - consumed \in 1..n /\ consumed + (j - consumed) = j /\ j - consumed \in 1..L
          BY <1>a, <3>3, <4>2
        <5>2. rendered'[j].msg = CurrentMessage /\ rendered'[j].ses = txRing[j - consumed].ses
          BY <3>2, <5>1
        <5>3. i \in 1..consumed
          <6>1. CASE ~(i <= consumed)
            <7>1. i - consumed \in 1..n /\ consumed + (i - consumed) = i
              BY <1>a, <3>3, <6>1
            <7>2. rendered'[i].msg = CurrentMessage
              BY <3>2, <7>1
            <7>3. QED
              BY <3>6, <5>2, <7>2
          <6>2. CASE i <= consumed
            BY <1>a, <3>3, <6>2
          <6>3. QED
            BY <6>1, <6>2
        <5>4. rendered'[i] = rendered[i] /\ rendered[i].msg # CurrentMessage
          BY <3>2, <3>6, <5>2, <5>3
        <5>5. QED
          BY <1>a, <3>1, <3>3, <5>1, <5>2, <5>3, <5>4 DEF SessionsFollow
      <4>3. QED
        BY <4>1, <4>2
    <3>7. QED
      BY <3>2, <3>5, <3>6 DEF MessageNotCut
  <2>2. CASE Unmoved /\ UNCHANGED channel /\ at = "feed"
    BY <1>b, <2>2 DEF MessageNotCut, Unmoved, channel
  <2>3. QED
    BY <1>2, <2>1, <2>2, BatchSteps
<1>3. CASE \/ PublishTX \/ Stop \/ LoopTop \/ Check \/ (\E s \in ModemState : PublishOther(s))
           \/ UNCHANGED vars
  <2>1. UNCHANGED <<txRing, rendered, channel>> /\ (at' # "done" => at # "done")
    BY <1>3 DEF PublishTX, Stop, LoopTop, Check, PublishOther, vars
  <2>2. QED
    BY <1>b, <2>1 DEF MessageNotCut, channel
<1>4. CASE Poll
  <2>1. UNCHANGED <<txRing, rendered>> /\ at = "poll" /\ (open' \/ UNCHANGED <<open, began>>)
    BY <1>4 DEF Poll, BeginMessage, channel
  <2>2. QED
    BY <1>b, <2>1 DEF MessageNotCut
<1>5. CASE EndMessage \/ (Finish /\ NeedsFlush)
  <2>1. txRing' = <<>> /\ UNCHANGED rendered
    BY <1>5, MessageEnds DEF EndMessage, Finish
  <2>2. DOMAIN txRing' = {}
    BY <2>1
  <2>3. QED
    BY <1>b, <2>1, <2>2 DEF MessageNotCut
<1>6. CASE Finish /\ ~NeedsFlush
  <2>1. UNCHANGED rendered /\ at' = "done"
    BY <1>6 DEF Finish
  <2>2. QED
    BY <1>b, <2>1 DEF MessageNotCut
<1>7. QED
  BY <1>1, <1>2, <1>3, <1>4, <1>5, <1>6 DEF Next, Worker, ModemIO

\* Every variable keeps its type.
LEMMA TypeStep ==
  ASSUME TypeOK, Accounted, EdgesFollowed, [Next]_vars
  PROVE  TypeOK'
<1> USE Sizes
<1>a. /\ session \in Nat /\ messages \in Nat /\ consumed \in Nat /\ received \in Nat
      /\ startSamples \in Nat /\ startSamples <= consumed /\ consumed <= MaxSamples
      /\ session <= MaxSessions /\ messages <= session
      /\ origin \in Nat /\ processed \in Nat /\ watermark \in Nat
  BY DEF TypeOK, EdgesFollowed
<1>1. CASE PublishTX
  <2>1. /\ state' = "TX" /\ session' \in 0..MaxSessions
        /\ UNCHANGED <<txRing, running, received, at, final, polled, lastState, consumed,
                       record, channel, rendered>>
    BY <1>1, <1>a DEF PublishTX
  <2>2. QED
    BY <2>1 DEF TypeOK, record, channel, ModemState
<1>2. CASE ReceivePacket
  <2>1. /\ session > 0
        /\ UNCHANGED <<state, running, session, at, final, polled, lastState, consumed,
                       record, channel, rendered>>
    BY <1>2 DEF ReceivePacket, EdgesFollowed
  <2>2. PICK n \in Nat :
           /\ Len(txRing) \in Nat
           /\ received' = received + n /\ received + n <= MaxSamples
           /\ Len(txRing) + n <= RingCapacity
           /\ txRing' \in Seq(Sample) /\ Len(txRing') = Len(txRing) + n
    BY <1>2, <2>1, PacketQueued
  <2>3. received' \in 0..MaxSamples /\ Len(txRing') <= RingCapacity
    BY <1>a, <2>2
  <2>4. QED
    BY <2>1, <2>2, <2>3 DEF TypeOK, record, channel
<1>3. CASE \E s \in ModemState : PublishOther(s)
  <2>1. /\ state' \in ModemState
        /\ UNCHANGED <<txRing, running, io, at, final, polled, lastState, consumed,
                       record, channel, rendered>>
    BY <1>3 DEF PublishOther
  <2>2. QED
    BY <2>1 DEF TypeOK, record, channel, io
<1>4. CASE Stop \/ LoopTop \/ Check \/ UNCHANGED vars
  <2>1. /\ UNCHANGED <<state, txRing, io, polled, lastState, consumed, record, channel, rendered>>
        /\ running' \in BOOLEAN /\ final' \in BOOLEAN
        /\ at' \in {"top", "poll", "check", "feed", "drain", "flush", "done"}
    BY <1>4 DEF Stop, LoopTop, Check, vars, TypeOK
  <2>2. QED
    BY <2>1 DEF TypeOK, record, channel, io
<1>5. CASE DrainTail \/ Feed \/ FlushTail
  <2>1. CASE BatchStep
    <3>1. /\ ProcessAvailable
          /\ UNCHANGED <<state, running, session, received, final, polled, lastState, record>>
          /\ at' \in {"top", "drain", "feed", "flush"}
      BY <2>1 DEF BatchStep
    <3>2. PICK n \in 1..Len(txRing) :
           /\ Len(txRing) \in Nat /\ consumed' = consumed + n /\ consumed + n <= MaxSamples
           /\ txRing' \in Seq(Sample) /\ Len(txRing') = Len(txRing) - n
           /\ rendered' \in Seq(Rendered)
           /\ processed' = processed + n
           /\ watermark' = Greatest(watermark, origin + (processed + n))
           /\ UNCHANGED <<open, messages, began, firstMessage, origin>>
      BY <3>1, BatchRendered
    <3>3. n \in Nat
      BY <3>2
    <3>4. Len(txRing) <= RingCapacity
      BY DEF TypeOK
    <3>5. Len(txRing') <= RingCapacity
      BY <3>2, <3>3, <3>4
    <3>6. consumed' \in 0..MaxSamples /\ startSamples' \in 0..consumed'
      BY <1>a, <3>1, <3>2, <3>3 DEF record
    <3>7. processed' \in Nat /\ watermark' \in Nat
      BY <1>a, <3>2, <3>3 DEF Greatest
    <3>8. QED
      BY <3>1, <3>2, <3>5, <3>6, <3>7 DEF TypeOK, record, Rendered
  <2>2. CASE Unmoved /\ UNCHANGED channel /\ at' = "top"
             /\ UNCHANGED <<state, running, session, received, final, polled, lastState, record>>
    BY <2>2 DEF TypeOK, Unmoved, channel, record
  <2>3. QED
    BY <1>5, <2>1, <2>2, BatchSteps
<1>6. CASE Poll
  <2>1. /\ UNCHANGED <<state, txRing, running, io, final, consumed, rendered>>
        /\ polled' \in ModemState /\ lastState' \in ModemState
        /\ at' \in {"flush", "check", "drain"}
    BY <1>6 DEF Poll, TypeOK, AfterPoll
  <2>2. CASE TxEntry
    <3>1. PICK gap \in (IF Aligned THEN Gaps ELSE {0}) : BeginMessage(gap)
      BY <1>6, <2>2 DEF Poll, TxEntry, TxExit
    <3>2. gap \in Nat /\ BaseDelay \in Nat
      BY WorkerAssumption
    <3>3. messages < session
      BY <1>6, <2>2 DEF Poll, TxEntry, EdgesFollowed
    <3>4. /\ open' = TRUE /\ firstMessage' = FALSE /\ processed' = 0
          /\ watermark' = watermark /\ origin' = NextOrigin(gap)
          /\ messages' = messages + 1 /\ startSamples' = consumed /\ active' = TRUE
          /\ began' = session /\ events' = events
      BY <3>1 DEF BeginMessage
    <3>5. origin' \in Nat
      BY <1>a, <3>2, <3>4 DEF NextOrigin
    <3>6. /\ messages' \in 0..MaxSessions /\ startSamples' \in 0..consumed'
          /\ began' \in 0..MaxSessions
      BY <1>a, <2>1, <3>3, <3>4
    <3>7. QED
      BY <2>1, <3>4, <3>5, <3>6 DEF TypeOK, io
  <2>3. CASE ~TxEntry
    <3>1. UNCHANGED <<channel, record>>
      BY <1>6, <2>3 DEF Poll
    <3>2. QED
      BY <2>1, <3>1 DEF TypeOK, channel, record, io
  <2>4. QED
    BY <2>2, <2>3
<1>7. ASSUME EndChannel
      PROVE  /\ open' = FALSE /\ processed' \in Nat /\ watermark' \in Nat
             /\ UNCHANGED <<messages, began, firstMessage, origin>>
  <2>1. /\ processed' = processed + DrainLength
        /\ watermark' = Greatest(watermark, origin + processed') + TailLength
        /\ open' = FALSE /\ UNCHANGED <<messages, began, firstMessage, origin>>
    BY <1>7 DEF EndChannel
  <2>2. processed' \in Nat
    BY <1>a, <2>1
  <2>3. QED
    BY <1>a, <2>1, <2>2 DEF Greatest
<1>8. CASE EndMessage
  <2>1. /\ UNCHANGED <<state, txRing, running, io, final, polled, consumed, startSamples,
                       rendered>>
        /\ EndChannel /\ active' = FALSE /\ lastState' = polled /\ at' \in {"flush", "check"}
    BY <1>8 DEF EndMessage, AfterPoll
  <2>2. SampleCount \in 0..MaxSamples
    BY <1>a DEF SampleCount
  <2>3. events' \in Seq(0..MaxSamples)
    <3>1. events \in Seq(0..MaxSamples)
      BY DEF TypeOK
    <3>2. Append(events, SampleCount) \in Seq(0..MaxSamples)
      BY <2>2, <3>1, AppendProperties
    <3>3. QED
      BY <1>8, <3>1, <3>2 DEF EndMessage
  <2>4. QED
    BY <1>7, <2>1, <2>3 DEF TypeOK, io
<1>9. CASE Finish
  <2>1. /\ UNCHANGED <<state, txRing, running, io, final, polled, consumed, record, rendered>>
        /\ at' = "done"
        /\ \/ EndChannel /\ lastState' = "IDLE"
           \/ UNCHANGED <<channel, lastState>>
    BY <1>9 DEF Finish
  <2>2. CASE EndChannel /\ lastState' = "IDLE"
    BY <1>7, <2>1, <2>2 DEF TypeOK, record, io, ModemState
  <2>3. CASE UNCHANGED <<channel, lastState>>
    BY <2>1, <2>3 DEF TypeOK, record, io, channel
  <2>4. QED
    BY <2>1, <2>2, <2>3
<1>10. QED
  BY <1>1, <1>2, <1>3, <1>4, <1>5, <1>6, <1>8, <1>9 DEF Next, Worker, ModemIO

-----------------------------------------------------------------------------
(* The theorems.                                                           *)

\* The inductive invariant holds when the threads start.
LEMMA InitIInv == Init => IInv
<1> SUFFICES ASSUME Init PROVE IInv
  OBVIOUS
<1> USE Sizes DEF Init
<1>1. \A S : <<>> \in Seq(S)
  OBVIOUS
<1>2. Len(<<>>) = 0 /\ DOMAIN <<>> = {}
  OBVIOUS
<1>3. TypeOK
  <2>1. /\ state \in ModemState /\ polled \in ModemState /\ lastState \in ModemState
        /\ at \in {"top", "poll", "check", "feed", "drain", "flush", "done"}
    BY DEF ModemState
  <2>2. /\ running \in BOOLEAN /\ final \in BOOLEAN /\ open \in BOOLEAN
        /\ active \in BOOLEAN /\ firstMessage \in BOOLEAN
    OBVIOUS
  <2>3. /\ session \in 0..MaxSessions /\ received \in 0..MaxSamples /\ consumed \in 0..MaxSamples
        /\ startSamples \in 0..consumed /\ messages \in 0..MaxSessions
        /\ began \in 0..MaxSessions /\ origin \in Nat /\ processed \in Nat /\ watermark \in Nat
    OBVIOUS
  <2>4. txRing = <<>> /\ rendered = <<>> /\ events = <<>>
    OBVIOUS
  <2>5. /\ txRing \in Seq(Sample) /\ rendered \in Seq(Rendered) /\ events \in Seq(0..MaxSamples)
        /\ Len(txRing) <= RingCapacity
    BY ONLY <1>1, <1>2, <2>4, Sizes
  <2>6. QED
    BY ONLY <2>1, <2>2, <2>3, <2>5 DEF TypeOK, Rendered
<1>4. Accounted
  BY <1>2 DEF Accounted
<1>5. EdgesFollowed
  <2>1. open = FALSE /\ active = FALSE /\ messages = 0 /\ session = 0 /\ Len(events) = 0
    BY <1>2
  <2>2. lastState = "IDLE" /\ at = "top" /\ state = "RX"
    OBVIOUS
  <2>3. Len(events) = messages - (IF open THEN 1 ELSE 0) /\ messages <= session
    <3> DEFINE unrecorded == IF open THEN 1 ELSE 0
    <3>1. unrecorded = 0
      BY ONLY <2>1, Zenon
    <3> HIDE DEF unrecorded
    <3>2. Len(events) = 0 /\ messages = 0 /\ session = 0
      BY ONLY <2>1, Zenon
    <3>3. messages - unrecorded = 0 /\ messages <= session
      BY ONLY <3>1, <3>2
    <3>4. QED
      BY ONLY <3>2, <3>3 DEF unrecorded
  <2>4. QED
    BY ONLY <2>1, <2>2, <2>3 DEF EdgesFollowed, NoHalfMessage
<1>6. NearWatermark
  BY DEF NearWatermark
<1>7. SessionsFollow /\ MessageNotCut
  BY <1>2 DEF SessionsFollow, MessageNotCut
<1>8. QED
  BY <1>3, <1>4, <1>5, <1>6, <1>7 DEF IInv

\* Every step keeps the inductive invariant.
LEMMA StepIInv == IInv /\ [Next]_vars => IInv'
<1> SUFFICES ASSUME IInv, [Next]_vars PROVE IInv'
  OBVIOUS
<1>1. TypeOK /\ Accounted /\ EdgesFollowed /\ NearWatermark /\ SessionsFollow /\ MessageNotCut
  BY DEF IInv
<1>2. TypeOK' /\ Accounted' /\ EdgesFollowed'
  BY <1>1, TypeStep, AccountedStep, EdgesStep
<1>3. NearWatermark' /\ SessionsFollow' /\ MessageNotCut'
  BY <1>1, NearStep, FollowStep, WholeStep
<1>4. QED
  BY <1>2, <1>3 DEF IInv

\* The inductive invariant holds in every reachable state.
THEOREM IInvHolds == Spec => []IInv
<1>1. Init => IInv
  BY InitIInv
<1>2. IInv /\ [Next]_vars => IInv'
  BY StepIInv
<1>3. QED
  BY <1>1, <1>2, PTL DEF Spec

\* Every field keeps its type: no counter leaves its bounds, tx_ring never holds more than
\* its capacity, and a recorded sample count is never negative.
THEOREM TypeCorrect == Spec => []TypeOK
<1>1. IInv => TypeOK
  BY DEF IInv
<1>2. QED
  BY <1>1, IInvHolds, PTL

\* Two sequences numbered one after the other are the numbers in order.
LEMMA InTurn == IInv => NothingLost
<1> SUFFICES ASSUME IInv PROVE NothingLost
  OBVIOUS
<1> DEFINE p == [i \in DOMAIN rendered |-> rendered[i].id]
           q == [i \in DOMAIN txRing |-> txRing[i].id]
           L == Len(txRing)
<1>1. TypeOK /\ Accounted
  BY DEF IInv
<1>2. /\ consumed \in Nat /\ L \in Nat /\ received \in Nat /\ received = consumed + L
      /\ DOMAIN rendered = 1..consumed /\ DOMAIN txRing = 1..L
  BY <1>1, Sizes, LenProperties DEF TypeOK, Accounted
<1>3. /\ \A i \in 1..consumed : rendered[i].id = i
      /\ \A i \in 1..L : txRing[i].id = consumed + i
  BY <1>1, <1>2 DEF Accounted
<1> HIDE DEF L
<1>4. p \in [1..consumed -> Nat] /\ \A i \in 1..consumed : p[i] = i
  BY <1>2, <1>3
<1>5. q \in [1..L -> Nat] /\ \A i \in 1..L : q[i] = consumed + i
  BY <1>2, <1>3
<1> HIDE DEF p, q
<1>6. p \in Seq(Nat) /\ Len(p) = consumed
  BY <1>2, <1>4, FunctionIsSeq
<1>7. q \in Seq(Nat) /\ Len(q) = L
  BY <1>2, <1>5, FunctionIsSeq
<1>a. p \in Seq(Nat) /\ q \in Seq(Nat)
  BY <1>6, <1>7
<1> DEFINE r == p \o q
<1>8. /\ r \in Seq(Nat) /\ Len(r) = Len(p) + Len(q)
      /\ \A i \in 1..Len(p) : r[i] = p[i]
      /\ \A i \in 1..Len(q) : r[Len(p) + i] = q[i]
  BY ONLY <1>a, Appended
<1> HIDE DEF r
<1>9. DOMAIN r = 1..received
  BY <1>2, <1>6, <1>7, <1>8, LenProperties
<1>10. ASSUME NEW i \in 1..received PROVE r[i] = i
  <2>1. CASE i <= consumed
    <3>1. i \in 1..consumed
      BY <1>2, <2>1
    <3>2. QED
      BY <1>4, <1>6, <1>8, <3>1
  <2>2. CASE ~(i <= consumed)
    <3>1. i - consumed \in 1..L /\ consumed + (i - consumed) = i
      BY <1>2, <2>2
    <3>2. r[consumed + (i - consumed)] = q[i - consumed]
      BY <1>6, <1>7, <1>8, <3>1
    <3>3. q[i - consumed] = consumed + (i - consumed)
      BY <1>5, <3>1
    <3>4. QED
      BY <3>1, <3>2, <3>3
  <2>3. QED
    BY <2>1, <2>2
<1>11. r = [i \in DOMAIN r |-> r[i]]
  BY <1>8, LenProperties
<1>12. r = [i \in 1..received |-> i]
  BY <1>9, <1>10, <1>11
<1>13. QED
  BY <1>12 DEF NothingLost, p, q, r

\* process_available and the two drain loops neither lose, repeat nor reorder a sample that
\* tx_ring accepted, wherever an edge or a stop falls.
THEOREM NothingIsLost == Spec => []NothingLost
  BY IInvHolds, InTurn, PTL

\* Once a message is over, nothing of the session it was begun in is rendered after it or
\* left in tx_ring, however late the worker was for the edges: drain_tx_pipeline puts the
\* tail there before the end is published, poll_state_edges reads it empty before
\* on_message_end.
THEOREM MessagesNotCut == Spec => []MessageNotCut
<1>1. IInv => MessageNotCut
  BY DEF IInv
<1>2. QED
  BY <1>1, IInvHolds, PTL

\* However the modem's state changes and whenever the stop comes, the worker ends every
\* message it began, and at most the one cut by the stop goes unrecorded.
THEOREM NoMessageIsHalf == Spec => []NoHalfMessage
<1>1. IInv => NoHalfMessage
  BY DEF IInv, EdgesFollowed
<1>2. QED
  BY <1>1, IInvHolds, PTL

\* A step that renders adds at or above the watermark in a message, and outside of one no
\* further behind it than the tail of the message before.
LEMMA AddStep ==
  ASSUME IInv, [Next]_vars, rendered' # rendered, Aligned \/ Unheard
  PROVE  origin + processed + (IF open THEN 0 ELSE TailLength) >= watermark
<1>1. origin \in Nat /\ processed \in Nat /\ TailLength \in Nat /\ open \in BOOLEAN
  BY Sizes DEF IInv, TypeOK
<1>2. IF open THEN origin + processed >= watermark ELSE origin + processed + TailLength >= watermark
  BY DEF IInv, NearWatermark
<1>3. CASE open
  BY <1>1, <1>2, <1>3
<1>4. CASE ~open
  BY <1>1, <1>2, <1>4
<1>5. QED
  BY <1>3, <1>4

\* What a receiver has read as committed never changes behind it by more than the tail one
\* message has exposed: within a message the worker adds at or above write_watermark_, and
\* what it feeds before it has seen a TX edge lands at most TailLength below.
THEOREM AddsNear == Spec => AddsNearWatermark
<1>1. IInv /\ [Next]_vars =>
        [rendered' # rendered /\ (Aligned \/ Unheard)
           => origin + processed + (IF open THEN 0 ELSE TailLength) >= watermark]_vars
  BY AddStep
<1>2. QED
  BY <1>1, IInvHolds, PTL DEF Spec, AddsNearWatermark
=============================================================================
