------------------------ MODULE ModemIOSessionProofs ------------------------
(***************************************************************************)
(* Proofs about ModemIOSession, for every id width, FIFO depth, polling    *)
(* interval and drain cap: no state entry is skipped on the way from the   *)
(* modem to the host, the packet ids of the two sides agree, and recorded  *)
(* packets arrive in order, in their session and without false gaps.       *)
(***************************************************************************)
EXTENDS ModemIOSession, SequenceTheorems, TLAPS

(***************************************************************************)
(* Arithmetic and sequences.                                               *)
(***************************************************************************)
\* A packet id is followed by a packet id.
LEMMA NextIsId == \A id \in Ids : FollowingId(id) \in Ids
<1> SUFFICES ASSUME NEW id \in Ids PROVE FollowingId(id) \in Ids
    OBVIOUS
<1>1. \A m \in Nat \ {0} : \A a \in Nat : a % m \in 0..(m - 1)
      OBVIOUS
<1> QED BY <1>1, SessionAssumption DEF FollowingId, Ids

\* The modem goes round: the next state is After the last, and three entries in a
\* row are three different states.
LEMMA Round ==
  \A n \in Nat : /\ StateOf(n) \in ModemState
                 /\ StateOf(n + 1) = After[StateOf(n)]
                 /\ StateOf(n + 1) # StateOf(n)
                 /\ StateOf(n + 2) # StateOf(n)
BY DEF StateOf, After, ModemState

Status(m)       == [state : ModemState, ses : 1..m]
Packet(m, k)    == [id : Ids, ses : 1..m, n : 1..k]
Forwarded(m, k) == [n : 1..k, ses : 1..m, during : 1..m]

\* As the modem enters states and records packets, what was typed stays typed.
LEMMA TypesGrow ==
  ASSUME TypeOK, NEW m \in Nat, NEW j \in Nat, mses <= m, made <= j
  PROVE  /\ dataIn \in Seq(Packet(m, j)) /\ ctrlIn \in Seq(Status(m))
         /\ forwarded \in Seq(Forwarded(m, j))
         /\ pending \in [state : ModemState, ses : 0..m]
         /\ lost \subseteq 1..j /\ leftovers \subseteq 1..j /\ hses \in 1..m
<1>0. mses \in Nat /\ made \in Nat
      BY SessionAssumption DEF TypeOK
<1>1. 1..mses \subseteq 1..m /\ 1..made \subseteq 1..j /\ 0..mses \subseteq 0..m
      BY <1>0
<1>2. Packet(mses, made) \subseteq Packet(m, j)
      BY <1>1 DEF Packet
<1>3. Status(mses) \subseteq Status(m)
      BY <1>1 DEF Status
<1>4. Forwarded(mses, made) \subseteq Forwarded(m, j)
      BY <1>1 DEF Forwarded
<1>5. /\ dataIn \in Seq(Packet(mses, made)) /\ ctrlIn \in Seq(Status(mses))
      /\ forwarded \in Seq(Forwarded(mses, made))
      BY DEF TypeOK, Packet, Status, Forwarded
<1>6. /\ pending \in [state : ModemState, ses : 0..m] /\ hses \in 1..m
      /\ lost \subseteq 1..j /\ leftovers \subseteq 1..j
      BY <1>1 DEF TypeOK
<1> QED BY <1>2, <1>3, <1>4, <1>5, <1>6, SeqMonotonic

\* What Tail does to a sequence, element by element.
LEMMA FirstTaken ==
  ASSUME NEW S, NEW q \in Seq(S), q # <<>>
  PROVE  /\ Len(q) \in Nat \ {0} /\ DOMAIN q = 1..Len(q) /\ Head(q) = q[1]
         /\ DOMAIN Tail(q) = 1..(Len(q) - 1) /\ Len(Tail(q)) = Len(q) - 1
         /\ \A i \in 1..(Len(q) - 1) : Tail(q)[i] = q[i + 1]
<1>1. Len(q) \in Nat \ {0}
      BY EmptySeq
<1>2. /\ Head(q) = q[1] /\ Tail(q) \in Seq(S) /\ Len(Tail(q)) = Len(q) - 1
      /\ \A i \in 1..(Len(q) - 1) : Tail(q)[i] = q[i + 1]
      BY <1>1, HeadTailProperties
<1>3. DOMAIN q = 1..Len(q) /\ DOMAIN Tail(q) = 1..Len(Tail(q))
      BY <1>2, LenProperties
<1> QED BY <1>1, <1>2, <1>3

(***************************************************************************)
(* The initial state.                                                      *)
(***************************************************************************)
\* It satisfies the invariant: one entry, nothing staged, both ids 0.
LEMMA InitIInv == Init => IInv
<1> SUFFICES ASSUME Init PROVE IInv
    OBVIOUS
<1> USE DEF Init
<1>1. TypeOK
  <2>1. /\ mstate \in ModemState /\ state \in ModemState
        /\ mses \in 1..MaxEntries /\ hses \in 1..mses
        /\ nextIndex \in Ids /\ expected \in Ids /\ txPktId \in Ids /\ codecExpected \in Ids
        BY SessionAssumption DEF ModemState, Ids
  <2>2. \A S : <<>> \in Seq(S) /\ Len(<<>>) = 0
        BY EmptySeq
  <2>3. /\ misreported \in BOOLEAN /\ gaps \in Nat /\ lost \subseteq 1..made
        /\ leftovers \subseteq 1..made /\ at \in {"poll", "data", "drain", "gone"}
        OBVIOUS
  <2>5. pending \in [state : ModemState, ses : 0..mses]
    <3>1. mses = 1 /\ pending = [state |-> "RX", ses |-> 0]
          BY DEF NoStatus
    <3>2. "RX" \in ModemState /\ 0 \in 0..1
          BY DEF ModemState
    <3> QED BY ONLY <3>1, <3>2
  <2>4. /\ made \in 0..MaxPackets /\ sends \in 0..MaxSends
        /\ iteration \in 0..(PollInterval - 1) /\ left \in 0..DrainCap
        BY SessionAssumption
  <2> QED BY <2>1, <2>2, <2>3, <2>4, <2>5, SessionAssumption DEF TypeOK
<1>2. NoEntrySkipped
  <2>1. Len(ctrlIn) = 0 /\ SesAt(0) = 1
        BY DEF SesAt
  <2> QED BY <2>1, SessionAssumption DEF NoEntrySkipped, StatusesLead, StateOf
<1>3. RestartAgreed /\ InSync
      BY DEF RestartAgreed, InSync
<1> QED BY <1>1, <1>2, <1>3 DEF IInv

(***************************************************************************)
(* Types.                                                                  *)
(***************************************************************************)
\* The numbers of what is staged are numbers of packets recorded.
LEMMA StagedRecorded == TypeOK => Staged \subseteq 1..made
<1> SUFFICES ASSUME TypeOK PROVE Staged \subseteq 1..made
    OBVIOUS
<1>1. dataIn \in Seq(Packet(mses, made))
      BY DEF TypeOK, Packet
<1>2. \A i \in DOMAIN dataIn : dataIn[i] \in Packet(mses, made)
      BY <1>1, ElementOfSeq, LenProperties
<1>3. \A p \in Packet(mses, made) : p.n \in 1..made
      BY DEF Packet
<1> QED BY <1>2, <1>3 DEF Staged

\* When the first packet leaves, the rest stay staged.
LEMMA StagedShrinks ==
  ASSUME NEW L \in Nat, DOMAIN dataIn = 1..L, DOMAIN dataIn' = 1..(L - 1),
         \A i \in 1..(L - 1) : dataIn'[i] = dataIn[i + 1]
  PROVE  Staged' \subseteq Staged
<1>1. \A i \in 1..(L - 1) : i + 1 \in 1..L
      OBVIOUS
<1>2. \A i \in DOMAIN dataIn' : i + 1 \in DOMAIN dataIn /\ dataIn'[i] = dataIn[i + 1]
      BY <1>1
<1> QED BY <1>2 DEF Staged

\* A status is published with its types.
LEMMA PublishTypes ==
  ASSUME TypeOK, NEW s \in Status(mses), Publish(s)
  PROVE  /\ state' \in ModemState /\ hses' \in 1..mses
         /\ codecExpected' \in Ids /\ txPktId' \in Ids /\ gaps' \in Nat
BY SessionAssumption DEF TypeOK, Publish, Status, ResetSequence, ResetTxId, ids, Ids

\* A packet leaves the FIFO and is forwarded with its types.
LEMMA ProcessTypes ==
  ASSUME TypeOK, ProcessPacket
  PROVE  /\ dataIn' \in Seq(Packet(mses, made)) /\ Len(dataIn') <= FifoDepth
         /\ codecExpected' \in Ids /\ gaps' \in Nat
         /\ forwarded' \in Seq(Forwarded(mses, made))
<1>1. dataIn \in Seq(Packet(mses, made)) /\ forwarded \in Seq(Forwarded(mses, made))
      BY DEF TypeOK, Packet, Forwarded
<1>2. /\ Head(dataIn) \in Packet(mses, made) /\ dataIn' = Tail(dataIn)
      /\ dataIn' \in Seq(Packet(mses, made)) /\ Len(dataIn') = Len(dataIn) - 1
      BY <1>1, HeadTailProperties DEF ProcessPacket
<1>3. Len(dataIn') <= FifoDepth
      BY <1>1, <1>2, LenProperties, SessionAssumption DEF TypeOK
<1>4. codecExpected' \in Ids /\ gaps' \in Nat
      BY <1>2, NextIsId DEF ProcessPacket, CheckSequence, Packet, TypeOK
<1>5. [n |-> Head(dataIn).n, ses |-> Head(dataIn).ses, during |-> hses]
        \in Forwarded(mses, made)
      BY <1>2 DEF Packet, Forwarded, TypeOK
<1>6. forwarded' \in Seq(Forwarded(mses, made))
      BY <1>1, <1>5, AppendProperties DEF ProcessPacket, ToRing
<1> QED BY <1>2, <1>3, <1>4, <1>6

\* The iteration counter stays below the interval.
LEMMA IterationTypes ==
  ASSUME TypeOK, EndIteration
  PROVE  iteration' \in 0..(PollInterval - 1) /\ at' \in {"poll", "data"}
<1>1. \A m \in Nat \ {0} : \A a \in Nat : a % m \in 0..(m - 1)
      OBVIOUS
<1> QED BY <1>1, SessionAssumption DEF EndIteration, TypeOK

\* Every step keeps the types.
LEMMA TypeStep == IInv /\ [Next]_vars => TypeOK'
<1> SUFFICES ASSUME TypeOK, NoEntrySkipped, [Next]_vars PROVE TypeOK'
    BY DEF IInv
<1> USE SessionAssumption
<1>a. mses \in Nat /\ made \in Nat /\ hses \in 1..mses
      BY DEF TypeOK
<1>b. /\ dataIn \in Seq(Packet(mses, made)) /\ ctrlIn \in Seq(Status(mses))
      /\ forwarded \in Seq(Forwarded(mses, made))
      BY DEF TypeOK, Packet, Status, Forwarded
<1>c. Len(dataIn) \in Nat
      BY <1>b, LenProperties
<1>1. CASE EnterState
  <2>1. mses' = mses + 1 /\ mses' \in 1..MaxEntries /\ mstate' \in ModemState
        BY <1>1, <1>a DEF EnterState, TypeOK, After, ModemState
  <2>2. /\ dataIn \in Seq(Packet(mses', made)) /\ ctrlIn \in Seq(Status(mses'))
        /\ forwarded \in Seq(Forwarded(mses', made))
        /\ pending \in [state : ModemState, ses : 0..mses'] /\ hses \in 1..mses'
    <3>1. mses' \in Nat /\ mses <= mses' /\ made <= made
          BY <1>a, <2>1
    <3> QED BY <1>a, <3>1, TypesGrow
  <2>3. [state |-> mstate', ses |-> mses'] \in Status(mses')
        BY <1>a, <2>1 DEF Status
  <2>4. ctrlIn' \in Seq(Status(mses'))
        BY <1>1, <2>2, <2>3, AppendProperties DEF EnterState
  <2>5. nextIndex' \in Ids /\ expected' \in Ids
        BY <1>1 DEF EnterState, Ids
  <2> QED BY <1>1, <2>1, <2>2, <2>4, <2>5
          DEF EnterState, TypeOK, Packet, Status, Forwarded, host, handling, ids, outcome
<1>2. CASE RepeatStatus
  <2>1. [state |-> mstate, ses |-> mses] \in Status(mses)
        BY <1>a DEF TypeOK, Status
  <2>2. ctrlIn' \in Seq(Status(mses))
        BY <1>2, <1>b, <2>1, AppendProperties DEF RepeatStatus
  <2> QED BY <1>2, <2>2 DEF RepeatStatus, TypeOK, Status, host, handling, ids, outcome
<1>3. CASE Record
  <2>1. made' = made + 1 /\ made' \in 0..MaxPackets /\ nextIndex' \in Ids
        BY <1>3, <1>a, NextIsId DEF Record, TypeOK
  <2>2. /\ dataIn \in Seq(Packet(mses, made')) /\ forwarded \in Seq(Forwarded(mses, made'))
        /\ lost \subseteq 1..made' /\ leftovers \subseteq 1..made'
    <3>1. made' \in Nat /\ made <= made' /\ mses <= mses
          BY <1>a, <2>1
    <3> QED BY <1>a, <3>1, TypesGrow
  <2>3. [id |-> nextIndex, ses |-> mses, n |-> made'] \in Packet(mses, made')
        BY <1>a, <2>1 DEF TypeOK, Packet
  <2>4. dataIn' \in Seq(Packet(mses, made')) /\ Len(dataIn') <= FifoDepth
    <3>1. CASE Len(dataIn) < FifoDepth
      <4>1. dataIn' = Append(dataIn, [id |-> nextIndex, ses |-> mses, n |-> made'])
            BY <1>3, <3>1 DEF Record
      <4>2. dataIn' \in Seq(Packet(mses, made')) /\ Len(dataIn') = Len(dataIn) + 1
            BY <2>2, <2>3, <4>1, AppendProperties
      <4> QED BY <1>c, <3>1, <4>2
    <3>2. CASE ~(Len(dataIn) < FifoDepth)
          BY <1>3, <2>2, <3>2 DEF Record, TypeOK
    <3> QED BY <3>1, <3>2
  <2>5. lost' \subseteq 1..made'
    <3>1. made' \in 1..made'
          BY <1>a, <2>1
    <3>2. lost' = lost \/ lost' = lost \cup {made'}
          BY <1>3 DEF Record
    <3> QED BY <2>2, <3>1, <3>2
  <2> QED BY <1>3, <2>1, <2>2, <2>4, <2>5
          DEF Record, TypeOK, Packet, Forwarded, host, handling, ids, outcome
<1>4. CASE PollStatus
  <2>1. /\ Head(ctrlIn) \in Status(mses) /\ ctrlIn' \in Seq(Status(mses))
        BY <1>4, <1>b, HeadTailProperties DEF PollStatus
  <2>2. CASE NeedsDrain(Head(ctrlIn))
    <3>1. pending' = Head(ctrlIn) /\ left' = DrainCap /\ at' = "drain"
          BY <1>4, <2>2 DEF PollStatus, DrainBudget
    <3>2. pending' \in [state : ModemState, ses : 0..mses]
          BY <1>a, <2>1, <3>1 DEF Status
    <3>3. UNCHANGED <<state, hses, ids>>
          BY <1>4, <2>2 DEF PollStatus
    <3> QED BY <1>4, <2>1, <3>1, <3>2, <3>3 DEF PollStatus, TypeOK, Status, ids, outcome
  <2>3. CASE ~NeedsDrain(Head(ctrlIn))
    <3>1. Publish(Head(ctrlIn))
          BY <1>4, <2>3 DEF PollStatus
    <3>2. /\ state' \in ModemState /\ hses' \in 1..mses
          /\ codecExpected' \in Ids /\ txPktId' \in Ids /\ gaps' \in Nat
          BY <2>1, <3>1, PublishTypes
    <3> QED BY <1>4, <2>1, <2>3, <3>2 DEF PollStatus, TypeOK, Status, handling, outcome
  <2> QED BY <2>2, <2>3
<1>5. CASE PollNothing
      BY <1>5 DEF PollNothing, TypeOK, modem, handling, ids, outcome
<1>6. CASE ReceivePacket
  <2>1. /\ dataIn' \in Seq(Packet(mses, made)) /\ Len(dataIn') <= FifoDepth
        /\ codecExpected' \in Ids /\ gaps' \in Nat
        /\ forwarded' \in Seq(Forwarded(mses, made))
        BY <1>6, ProcessTypes DEF ReceivePacket
  <2>2. iteration' \in 0..(PollInterval - 1) /\ at' \in {"poll", "data"}
        BY <1>6, IterationTypes DEF ReceivePacket
  <2> QED BY <1>6, <2>1, <2>2 DEF ReceivePacket, TypeOK, Packet, Forwarded, handling
<1>7. CASE DrainPacket
  <2>1. /\ dataIn' \in Seq(Packet(mses, made)) /\ Len(dataIn') <= FifoDepth
        /\ codecExpected' \in Ids /\ gaps' \in Nat
        /\ forwarded' \in Seq(Forwarded(mses, made))
        BY <1>7, ProcessTypes DEF DrainPacket
  <2>2. left' \in 0..DrainCap
        BY <1>7 DEF DrainPacket, TypeOK
  <2> QED BY <1>7, <2>1, <2>2 DEF DrainPacket, TypeOK, Packet, Forwarded
<1>8. CASE LosePacket
  <2>1. /\ dataIn' \in Seq(Packet(mses, made)) /\ Len(dataIn') = Len(dataIn) - 1
        BY <1>8, <1>b, HeadTailProperties DEF LosePacket
  <2>2. Len(dataIn') <= FifoDepth
        BY <1>c, <2>1 DEF TypeOK
  <2>3. /\ iteration' \in 0..(PollInterval - 1) /\ left' \in 0..DrainCap
        /\ at' \in {"poll", "data", "drain", "gone"}
    <3>1. CASE at = "data" /\ EndIteration /\ UNCHANGED left
          BY <3>1, IterationTypes DEF TypeOK
    <3>2. CASE left' = 0 /\ UNCHANGED <<at, iteration>>
          BY <3>2 DEF TypeOK
    <3> QED BY <1>8, <3>1, <3>2 DEF LosePacket
  <2>4. misreported' \in BOOLEAN
        BY <1>8 DEF LosePacket
  <2>5. leftovers' \subseteq 1..made'
    <3>1. Staged' \subseteq Staged
      <4>1. dataIn # <<>> /\ dataIn' = Tail(dataIn)
            BY <1>8 DEF LosePacket
      <4> QED BY <1>b, <4>1, FirstTaken, StagedShrinks
    <3>2. leftovers' \subseteq leftovers \cup Staged' /\ made' = made
          BY <1>8 DEF LosePacket
    <3> QED BY <3>1, <3>2, StagedRecorded DEF TypeOK
  <2> QED BY <1>8, <2>1, <2>2, <2>3, <2>4, <2>5 DEF LosePacket, TypeOK, Packet, ids
<1>9. CASE DrainEnd
  <2>1. pending \in Status(mses)
        BY <1>9, <1>a DEF DrainEnd, NoEntrySkipped, TypeOK, Status
  <2>2. /\ state' \in ModemState /\ hses' \in 1..mses
        /\ codecExpected' \in Ids /\ txPktId' \in Ids /\ gaps' \in Nat
        BY <1>9, <2>1, PublishTypes DEF DrainEnd
  <2>3. leftovers' \subseteq 1..made
        BY <1>9, StagedRecorded DEF DrainEnd, TypeOK
  <2> QED BY <1>9, <1>a, <2>2, <2>3 DEF DrainEnd, TypeOK, modem, NoStatus, ModemState
<1>10. CASE SendPacket
  <2>1. iteration' \in 0..(PollInterval - 1) /\ at' \in {"poll", "data"}
        BY <1>10, IterationTypes DEF SendPacket
  <2>2. txPktId' \in Ids /\ expected' \in Ids
        BY <1>10, NextIsId DEF SendPacket, NextTxId, Arrive, TypeOK
  <2>3. misreported' \in BOOLEAN /\ sends' \in 0..MaxSends
        BY <1>10 DEF SendPacket, TypeOK
  <2> QED BY <1>10, <2>1, <2>2, <2>3 DEF SendPacket, TypeOK, handling
<1>11. CASE DataNothing
  <2>1. iteration' \in 0..(PollInterval - 1) /\ at' \in {"poll", "data"}
        BY <1>11, IterationTypes DEF DataNothing
  <2> QED BY <1>11, <2>1 DEF DataNothing, TypeOK, modem, handling, ids, outcome
<1>12. CASE Disconnect
  <2>1. /\ state' \in ModemState /\ hses' \in 1..mses
        /\ codecExpected' \in Ids /\ txPktId' \in Ids /\ gaps' \in Nat
    <3>1. CASE at = "drain"
      <4>1. pending \in Status(mses)
            BY <3>1, <1>a DEF NoEntrySkipped, TypeOK, Status
      <4> QED BY <1>12, <3>1, <4>1, PublishTypes DEF Disconnect
    <3>2. CASE at # "drain"
          BY <1>12, <3>2 DEF Disconnect, ids, TypeOK
    <3> QED BY <3>1, <3>2
  <2> QED BY <1>12, <1>a, <2>1 DEF Disconnect, TypeOK, modem, outcome, NoStatus, ModemState
<1>13. CASE UNCHANGED vars
       BY <1>13 DEF vars, modem, host, handling, ids, outcome, TypeOK
<1> QED BY <1>1, <1>2, <1>3, <1>4, <1>5, <1>6, <1>7, <1>8, <1>9, <1>10, <1>11, <1>12, <1>13
        DEF Next, Modem, ModemIO

(***************************************************************************)
(* The staged statuses.                                                    *)
(***************************************************************************)
\* A status is appended: the state last reported again, or the next one.
LEMMA StatusGiven ==
  ASSUME TypeOK, StatusesLead, NEW s \in Status(mses + 1),
         s.state = StateOf(s.ses), s.ses = mses', mses' \in {mses, mses + 1},
         ctrlIn' = Append(ctrlIn, s), UNCHANGED <<at, hses, pending>>
  PROVE  StatusesLead'
<1> DEFINE L == Len(ctrlIn)
<1>1. ctrlIn \in Seq(Status(mses + 1))
  <2>1. mses + 1 \in Nat /\ made \in Nat /\ mses <= mses + 1 /\ made <= made
        BY SessionAssumption DEF TypeOK
  <2> QED BY <2>1, TypesGrow
<1>2. /\ L \in Nat /\ Len(ctrlIn') = L + 1 /\ ctrlIn'[L + 1] = s
      /\ \A i \in 1..L : ctrlIn'[i] = ctrlIn[i]
      BY <1>1, AppendProperties, LenProperties
<1>3. \A i \in 0..L : SesAt(i)' = SesAt(i)
      BY <1>2 DEF SesAt
<1>4. SesAt(Len(ctrlIn))' = mses' /\ \A i \in Nat : i = L + 1 => SesAt(i)' = mses'
      BY <1>2 DEF SesAt
<1>5. SesAt(L) = mses
      BY DEF StatusesLead
<1>6. ASSUME NEW i \in 1..(L + 1)
      PROVE  /\ ctrlIn'[i].state = StateOf(ctrlIn'[i].ses)
             /\ SesAt(i)' \in {SesAt(i - 1)', SesAt(i - 1)' + 1}
  <2>1. CASE i = L + 1
    <3>1. SesAt(i - 1)' = mses
          BY <1>2, <1>3, <1>5, <2>1
    <3> QED BY <1>2, <1>4, <2>1, <3>1
  <2>2. CASE i \in 1..L
    <3>1. SesAt(i)' = SesAt(i) /\ SesAt(i - 1)' = SesAt(i - 1)
          BY <1>2, <1>3, <2>2
    <3> QED BY <1>2, <2>2, <3>1 DEF StatusesLead
  <2> QED BY <1>2, <2>1, <2>2
<1> HIDE DEF L
<1> QED BY <1>2, <1>4, <1>6 DEF StatusesLead

\* The first status is taken and becomes the one the next is compared with.
LEMMA StatusTaken ==
  ASSUME TypeOK, StatusesLead, ctrlIn # <<>>, ctrlIn' = Tail(ctrlIn), mses' = mses,
         SesAt(0)' = Head(ctrlIn).ses
  PROVE  StatusesLead'
<1> DEFINE L == Len(ctrlIn)
<1>1. /\ L \in Nat \ {0} /\ Len(ctrlIn') = L - 1 /\ Head(ctrlIn) = ctrlIn[1]
      /\ \A i \in 1..(L - 1) : ctrlIn'[i] = ctrlIn[i + 1]
  <2>1. ctrlIn \in Seq(Status(mses))
        BY DEF TypeOK, Status
  <2>2. Len(ctrlIn) \in Nat \ {0}
        BY <2>1, EmptySeq
  <2>3. Head(ctrlIn) = ctrlIn[1]
        BY <2>1, <2>2
  <2> QED BY <2>1, <2>2, <2>3, HeadTailProperties
<1>2. \A i \in 0..(L - 1) : SesAt(i)' = SesAt(i + 1)
      BY <1>1 DEF SesAt
<1>3. ASSUME NEW i \in 1..(L - 1)
      PROVE  /\ ctrlIn'[i].state = StateOf(ctrlIn'[i].ses)
             /\ SesAt(i)' \in {SesAt(i - 1)', SesAt(i - 1)' + 1}
  <2>1. SesAt(i)' = SesAt(i + 1) /\ SesAt(i - 1)' = SesAt(i)
    <3>1. i - 1 \in 0..(L - 1) /\ i \in 0..(L - 1) /\ (i - 1) + 1 = i
          BY <1>1
    <3> QED BY <1>2, <3>1
  <2>2. i + 1 \in 1..L /\ (i + 1) - 1 = i
        BY <1>1
  <2> QED BY <1>1, <2>1, <2>2 DEF StatusesLead
<1>4. SesAt(Len(ctrlIn))' = mses'
  <2>1. \A i \in Nat : i = L - 1 => SesAt(i)' = mses
        BY <1>1, <1>2 DEF StatusesLead
  <2>2. \A i \in Nat : i = L - 1 => SesAt(Len(ctrlIn))' = SesAt(i)'
        BY <1>1 DEF SesAt
  <2>3. L - 1 \in Nat
        BY <1>1
  <2> HIDE DEF L
  <2> QED BY <1>1, <2>1, <2>2, <2>3
<1> HIDE DEF L
<1> QED BY <1>1, <1>3, <1>4 DEF StatusesLead

\* Polling, the host finds a repetition of what it knows or the next state.
LEMMA FirstStatus ==
  ASSUME TypeOK, StatusesLead, at = "poll", ctrlIn # <<>>
  PROVE  /\ Head(ctrlIn) \in Status(mses)
         /\ Head(ctrlIn).state = StateOf(Head(ctrlIn).ses)
         /\ Head(ctrlIn).ses \in {hses, hses + 1}
<1> DEFINE s == Head(ctrlIn)
<1>1. ctrlIn \in Seq(Status(mses)) /\ Len(ctrlIn) \in Nat \ {0}
  <2>1. ctrlIn \in Seq(Status(mses))
        BY DEF TypeOK, Status
  <2> QED BY <2>1, EmptySeq
<1>2. s = ctrlIn[1] /\ s \in Status(mses)
      BY <1>1, HeadTailProperties
<1>3. SesAt(0) = hses /\ SesAt(1) = s.ses
      BY <1>2 DEF SesAt
<1>4. 1 \in 1..Len(ctrlIn) /\ 1 - 1 = 0
      BY <1>1
<1>5. /\ ctrlIn[1].state = StateOf(ctrlIn[1].ses)
      /\ SesAt(1) \in {SesAt(0), SesAt(0) + 1}
      BY <1>4 DEF StatusesLead
<1> QED BY <1>2, <1>3, <1>5

(***************************************************************************)
(* No state entry is skipped.                                              *)
(***************************************************************************)
\* Every step keeps the chain from the published state to the modem's.
LEMMA EntryStep == IInv /\ [Next]_vars => NoEntrySkipped'
<1> SUFFICES ASSUME TypeOK, NoEntrySkipped, [Next]_vars PROVE NoEntrySkipped'
    BY DEF IInv
<1> USE SessionAssumption
<1>a. mses \in Nat \ {0} /\ hses \in 1..mses /\ StatusesLead
      BY DEF TypeOK, NoEntrySkipped
<1>1. CASE EnterState
  <2> DEFINE s == [state |-> mstate', ses |-> mses']
  <2>1. mstate' = StateOf(mses') /\ mses' = mses + 1
        BY <1>1, <1>a, Round DEF EnterState, NoEntrySkipped
  <2>2. s \in Status(mses + 1)
    <3>1. mses' \in 1..(mses + 1)
          BY <1>a, <2>1
    <3>2. mstate' \in ModemState
          BY <1>a, <2>1, Round
    <3> QED BY <2>1, <3>1, <3>2 DEF Status
  <2>3. /\ ctrlIn' = Append(ctrlIn, s) /\ mses - hses < Behind
        /\ UNCHANGED <<at, hses, pending, state>>
        BY <1>1 DEF EnterState, host, handling
  <2>4. s.state = StateOf(s.ses) /\ s.ses = mses' /\ mses' \in {mses, mses + 1}
        BY <2>1
  <2> HIDE DEF s
  <2>5. StatusesLead'
        BY <1>a, <2>2, <2>3, <2>4, StatusGiven
  <2> QED BY <1>a, <2>1, <2>3, <2>5 DEF NoEntrySkipped
<1>2. CASE RepeatStatus
  <2> DEFINE s == [state |-> mstate, ses |-> mses]
  <2>1. s \in Status(mses + 1) /\ s.state = StateOf(s.ses) /\ s.ses = mses
        BY <1>a DEF Status, TypeOK, NoEntrySkipped
  <2>2. /\ ctrlIn' = Append(ctrlIn, s)
        /\ UNCHANGED <<at, hses, pending, state, mses, mstate>>
        BY <1>2 DEF RepeatStatus, host, handling
  <2> HIDE DEF s
  <2>3. StatusesLead'
    <3>1. s.ses = mses' /\ mses' \in {mses, mses + 1}
          BY <2>1, <2>2
    <3> QED BY <1>a, <2>1, <2>2, <3>1, StatusGiven
  <2> QED BY <2>2, <2>3 DEF NoEntrySkipped
<1>3. CASE PollStatus
  <2> DEFINE s == Head(ctrlIn)
  <2>1. /\ at = "poll" /\ ctrlIn # <<>> /\ ctrlIn' = Tail(ctrlIn)
        /\ UNCHANGED <<mses, mstate>>
        BY <1>3 DEF PollStatus
  <2>2. /\ s \in Status(mses) /\ s.state = StateOf(s.ses)
        /\ s.ses \in {hses, hses + 1}
        BY <1>a, <2>1, FirstStatus
  <2>3. CASE NeedsDrain(s)
    <3>1. pending' = s /\ at' = "drain" /\ UNCHANGED <<state, hses>>
          BY <1>3, <2>3 DEF PollStatus
    <3>2. SesAt(0)' = s.ses
          BY <3>1 DEF SesAt
    <3>3. StatusesLead'
          BY <1>a, <2>1, <3>2, StatusTaken
    <3>4. s.ses = hses + 1
          BY <1>a, <2>2, <2>3 DEF NeedsDrain, NoEntrySkipped
    <3> HIDE DEF s
    <3> QED BY <1>a, <2>1, <2>2, <3>1, <3>3, <3>4 DEF NoEntrySkipped
  <2>4. CASE ~NeedsDrain(s)
    <3>1. at' = "data" /\ state' = s.state /\ hses' = s.ses
          BY <1>3, <2>4 DEF PollStatus, Publish
    <3>2. SesAt(0)' = s.ses
          BY <3>1 DEF SesAt
    <3>3. StatusesLead'
          BY <1>a, <2>1, <3>2, StatusTaken
    <3> HIDE DEF s
    <3>4. hses' \in 1..mses /\ mses - hses' <= Behind
          BY <1>a, <2>2, <3>1 DEF NoEntrySkipped, Status
    <3> QED BY <2>1, <2>2, <3>1, <3>3, <3>4 DEF NoEntrySkipped
  <2> QED BY <2>3, <2>4
<1>4. CASE at = "drain" /\ (DrainEnd \/ Disconnect)
  <2>1. /\ at' # "drain" /\ hses' = pending.ses /\ state' = pending.state
        /\ UNCHANGED <<mses, mstate, ctrlIn>>
        BY <1>4 DEF DrainEnd, Disconnect, Publish, modem
  <2>2. pending.state = StateOf(pending.ses) /\ pending.ses = hses + 1
        BY <1>4 DEF NoEntrySkipped
  <2>3. \A i \in Nat : SesAt(i)' = SesAt(i)
        BY <1>4, <2>1 DEF SesAt
  <2>4. StatusesLead'
    <3>1. Len(ctrlIn) \in Nat
          BY LenProperties DEF TypeOK
    <3>2. \A i \in 1..Len(ctrlIn) : SesAt(i)' = SesAt(i) /\ SesAt(i - 1)' = SesAt(i - 1)
          BY <2>3, <3>1
    <3> QED BY <1>a, <2>1, <2>3, <3>1, <3>2 DEF StatusesLead
  <2> QED BY <1>a, <2>1, <2>2, <2>4 DEF NoEntrySkipped
<1>5. CASE /\ UNCHANGED <<mses, mstate, hses, state, ctrlIn, pending>>
           /\ (at' = "drain") = (at = "drain")
  <2>1. \A i : SesAt(i)' = SesAt(i)
        BY <1>5 DEF SesAt
  <2>2. StatusesLead'
        BY <1>5, <1>a, <2>1 DEF StatusesLead
  <2> QED BY <1>5, <2>2 DEF NoEntrySkipped
<1>6. CASE Record \/ DrainPacket \/ UNCHANGED vars
      BY <1>5, <1>6 DEF Record, DrainPacket, vars, modem, host, handling
<1>7. CASE PollNothing \/ ReceivePacket \/ SendPacket \/ DataNothing
      BY <1>5, <1>7 DEF PollNothing, ReceivePacket, SendPacket, DataNothing, EndIteration,
                        modem, handling
<1>8. CASE LosePacket
      BY <1>5, <1>8 DEF LosePacket, EndIteration
<1>9. CASE DrainEnd
      BY <1>4, <1>9 DEF DrainEnd
<1>10. CASE Disconnect
  <2>1. CASE at = "drain"
        BY <1>4, <1>10, <2>1
  <2>2. CASE at # "drain"
    <3>1. /\ UNCHANGED <<mses, mstate, hses, state, ctrlIn>>
          /\ at' = "gone"
          BY <1>10, <2>2 DEF Disconnect, modem
    <3>2. \A i : SesAt(i)' = SesAt(i)
          BY <2>2, <3>1 DEF SesAt
    <3>3. StatusesLead'
          BY <1>a, <3>1, <3>2 DEF StatusesLead
    <3> QED BY <3>1, <3>3 DEF NoEntrySkipped
  <2> QED BY <2>1, <2>2
<1> QED BY <1>1, <1>2, <1>3, <1>6, <1>7, <1>8, <1>9, <1>10 DEF Next, Modem, ModemIO

(***************************************************************************)
(* The ids the two sides send and expect.                                  *)
(***************************************************************************)
\* What a published state can be: the known one with the ids as they were, or the
\* next one with id 0.
LEMMA Published ==
  ASSUME TypeOK, NoEntrySkipped, PollStatus \/ DrainEnd \/ Disconnect
  PROVE  /\ UNCHANGED <<mstate, mses, expected, misreported>>
         /\ \/ hses' = hses /\ txPktId' = txPktId
            \/ hses' = hses + 1 /\ txPktId' = 0
<1>1. UNCHANGED <<mstate, mses, expected, misreported>>
      BY DEF PollStatus, DrainEnd, Disconnect, modem, outcome
<1>2. ASSUME NEW n \in Nat PROVE StateOf(n + 1) # StateOf(n)
      BY Round
<1>3. hses \in Nat /\ state = StateOf(hses) /\ StatusesLead
      BY DEF TypeOK, NoEntrySkipped
<1>4. CASE PollStatus
  <2> DEFINE s == Head(ctrlIn)
  <2>1. s.state = StateOf(s.ses) /\ s.ses \in {hses, hses + 1}
        BY <1>3, <1>4, FirstStatus DEF PollStatus
  <2>2. CASE NeedsDrain(s)
        BY <1>1, <1>4, <2>2 DEF PollStatus, ids
  <2>3. CASE ~NeedsDrain(s)
    <3>1. Publish(s)
          BY <1>4, <2>3 DEF PollStatus
    <3>2. s.state # state <=> s.ses = hses + 1
          BY <1>2, <1>3, <2>1
    <3> HIDE DEF s
    <3> QED BY <1>1, <1>3, <2>1, <3>1, <3>2 DEF Publish, ResetTxId, ids
  <2> QED BY <2>2, <2>3
<1>5. CASE at = "drain" /\ (DrainEnd \/ Disconnect)
  <2>1. Publish(pending)
        BY <1>5 DEF DrainEnd, Disconnect
  <2>2. pending.state = StateOf(pending.ses) /\ pending.ses = hses + 1
        BY <1>5 DEF NoEntrySkipped
  <2>3. pending.state # state
        BY <1>2, <1>3, <2>2
  <2> QED BY <1>1, <2>1, <2>2, <2>3 DEF Publish, ResetTxId
<1>6. CASE at # "drain" /\ Disconnect
      BY <1>1, <1>6 DEF Disconnect, ids
<1> QED BY <1>4, <1>5, <1>6 DEF DrainEnd

\* While the host is behind a modem in RX, by two entries at most, it is itself in
\* another state and sends nothing.
LEMMA SilentWhenBehind ==
  ASSUME TypeOK, NoEntrySkipped, Behind <= 2, SendPacket, mstate = "RX"
  PROVE  hses = mses
<1>1. mses \in Nat /\ hses \in 1..mses /\ mses - hses <= 2 /\ Behind \in Nat
      BY SessionAssumption DEF TypeOK, NoEntrySkipped
<1>2. StateOf(hses) = "RX" /\ StateOf(mses) = "RX"
      BY DEF SendPacket, NoEntrySkipped
<1>3. mses = hses \/ mses = hses + 1 \/ mses = hses + 2
      BY <1>1
<1>4. hses \in Nat
      BY <1>1
<1> QED BY <1>2, <1>3, <1>4, Round

\* Entering RX anew, the modem expects 0 until the host has learnt of it; from then
\* on both advance together, or the host stays one behind.
LEMMA IdStep ==
  ASSUME TypeOK, NoEntrySkipped, Behind <= 2, RestartAgreed, InSync, [Next]_vars
  PROVE  RestartAgreed' /\ InSync'
<1>a. mses \in Nat \ {0} /\ hses \in 1..mses
      BY SessionAssumption DEF TypeOK
<1>1. CASE EnterState
      BY <1>1, <1>a DEF EnterState, RestartAgreed, InSync, host
<1>2. CASE SendPacket
  <2>1. /\ UNCHANGED <<mstate, mses, hses>>
        /\ \E ok, delivered \in BOOLEAN :
             /\ ok => delivered
             /\ misreported' = (misreported \/ (delivered /\ ~ok))
             /\ txPktId' = NextTxId(ok)
             /\ IF delivered THEN Arrive(txPktId) ELSE UNCHANGED expected
        BY <1>2 DEF SendPacket
  <2>2. CASE mstate # "RX"
        BY <2>1, <2>2 DEF RestartAgreed, InSync
  <2>3. CASE mstate = "RX"
    <3>1. hses = mses
          BY <1>2, <2>3, SilentWhenBehind
    <3>2. RestartAgreed'
          BY <1>a, <2>1, <3>1 DEF RestartAgreed
    <3>3. \/ txPktId = expected
          \/ misreported /\ FollowingId(txPktId) = expected
          BY <2>3, <3>1 DEF InSync
    <3>4. InSync'
      <4>1. PICK ok \in BOOLEAN, delivered \in BOOLEAN :
               /\ ok => delivered
               /\ misreported' = (misreported \/ (delivered /\ ~ok))
               /\ txPktId' = NextTxId(ok)
               /\ IF delivered THEN Arrive(txPktId) ELSE UNCHANGED expected
            BY <2>1
      <4>2. CASE delivered /\ ok
            BY <2>3, <3>3, <4>1, <4>2 DEF NextTxId, Arrive, FollowingId, InSync
      <4>3. CASE delivered /\ ~ok
            BY <2>3, <3>3, <4>1, <4>3 DEF NextTxId, Arrive, FollowingId, InSync
      <4>4. CASE ~delivered
            BY <2>3, <3>3, <4>1, <4>4 DEF NextTxId, FollowingId, InSync
      <4> QED BY <4>2, <4>3, <4>4
    <3> QED BY <3>2, <3>4
  <2> QED BY <2>2, <2>3
<1>3. CASE PollStatus \/ DrainEnd \/ Disconnect
  <2>1. /\ UNCHANGED <<mstate, mses, expected, misreported>>
        /\ \/ hses' = hses /\ txPktId' = txPktId
           \/ hses' = hses + 1 /\ txPktId' = 0
        BY <1>3, Published
  <2>2. CASE hses' = hses /\ txPktId' = txPktId
        BY <2>1, <2>2 DEF RestartAgreed, InSync, FollowingId
  <2>3. CASE hses' = hses + 1 /\ txPktId' = 0
        BY <1>a, <2>1, <2>3 DEF RestartAgreed, InSync
  <2> QED BY <2>1, <2>2, <2>3
<1>4. CASE /\ UNCHANGED <<mstate, mses, hses, expected, txPktId>>
           /\ misreported => misreported'
      BY <1>4 DEF RestartAgreed, InSync, FollowingId
<1>5. CASE RepeatStatus \/ Record \/ UNCHANGED vars
      BY <1>4, <1>5 DEF RepeatStatus, Record, vars, modem, host, ids, outcome
<1>6. CASE PollNothing \/ ReceivePacket \/ DrainPacket \/ LosePacket \/ DataNothing
      BY <1>4, <1>6 DEF PollNothing, ReceivePacket, DrainPacket, LosePacket, DataNothing,
                        modem, ids, outcome
<1> QED BY <1>1, <1>2, <1>3, <1>5, <1>6 DEF Next, Modem, ModemIO

(***************************************************************************)
(* The recorded packets: every one is taken, once, in order, in the session *)
(* it was recorded in, under the id the codec expects.                     *)
(***************************************************************************)
\* What Append does to a sequence, element by element.
LEMMA LastAdded ==
  ASSUME NEW S, NEW q \in Seq(S), NEW e \in S
  PROVE  /\ Len(q) \in Nat /\ DOMAIN q = 1..Len(q)
         /\ DOMAIN Append(q, e) = 1..(Len(q) + 1) /\ Len(Append(q, e)) = Len(q) + 1
         /\ Append(q, e)[Len(q) + 1] = e
         /\ \A i \in 1..Len(q) : Append(q, e)[i] = q[i]
<1>1. /\ Append(q, e) \in Seq(S) /\ Len(Append(q, e)) = Len(q) + 1
      /\ Append(q, e)[Len(q) + 1] = e
      /\ \A i \in 1..Len(q) : Append(q, e)[i] = q[i]
      BY AppendProperties
<1>2. Len(q) \in Nat /\ DOMAIN q = 1..Len(q) /\ DOMAIN Append(q, e) = 1..Len(Append(q, e))
      BY <1>1, LenProperties
<1> QED BY <1>1, <1>2

\* The packet that is processed leaves the FIFO and is the last one forwarded.
LEMMA PacketTaken ==
  ASSUME TypeOK, ProcessPacket, NEW L, L = Len(dataIn), NEW F, F = Len(forwarded)
  PROVE  /\ L \in Nat \ {0} /\ DOMAIN dataIn = 1..L /\ DOMAIN dataIn' = 1..(L - 1)
         /\ Len(dataIn') = L - 1
         /\ \A i \in 1..(L - 1) : dataIn'[i] = dataIn[i + 1]
         /\ Head(dataIn) = dataIn[1]
         /\ F \in Nat /\ DOMAIN forwarded = 1..F /\ DOMAIN forwarded' = 1..(F + 1)
         /\ \A i \in 1..F : forwarded'[i] = forwarded[i]
         /\ forwarded'[F + 1].n = dataIn[1].n /\ forwarded'[F + 1].ses = dataIn[1].ses
         /\ forwarded'[F + 1].during = hses
<1>1. dataIn \in Seq(Packet(mses, made)) /\ forwarded \in Seq(Forwarded(mses, made))
      BY DEF TypeOK, Packet, Forwarded
<1>2. dataIn # <<>> /\ dataIn' = Tail(dataIn)
      BY DEF ProcessPacket
<1>3. /\ L \in Nat \ {0} /\ DOMAIN dataIn = 1..L /\ DOMAIN dataIn' = 1..(L - 1)
      /\ \A i \in 1..(L - 1) : dataIn'[i] = dataIn[i + 1]
      /\ Head(dataIn) = dataIn[1] /\ Len(dataIn') = L - 1
      BY <1>1, <1>2, FirstTaken
<1> DEFINE e == [n |-> Head(dataIn).n, ses |-> Head(dataIn).ses, during |-> hses]
<1>4. e \in Forwarded(mses, made)
  <2>1. Head(dataIn) \in Packet(mses, made)
        BY <1>1, <1>2, HeadTailProperties
  <2> QED BY <2>1 DEF Packet, Forwarded, TypeOK
<1>5. forwarded' = Append(forwarded, e)
      BY DEF ProcessPacket, ToRing
<1>6. e.n = dataIn[1].n /\ e.ses = dataIn[1].ses /\ e.during = hses
      BY <1>3
<1> HIDE DEF e
<1>7. /\ F \in Nat /\ DOMAIN forwarded = 1..F /\ DOMAIN forwarded' = 1..(F + 1)
      /\ forwarded'[F + 1] = e /\ \A i \in 1..F : forwarded'[i] = forwarded[i]
      BY <1>1, <1>4, <1>5, LastAdded
<1> QED BY <1>3, <1>6, <1>7

\* A packet that is staged is the last in the FIFO.
LEMMA PacketStaged ==
  ASSUME TypeOK, Record, Len(dataIn) < FifoDepth, NEW L, L = Len(dataIn)
  PROVE  /\ L \in Nat /\ DOMAIN dataIn = 1..L /\ DOMAIN dataIn' = 1..(L + 1)
         /\ Len(dataIn') = L + 1
         /\ \A i \in 1..L : dataIn'[i] = dataIn[i]
         /\ dataIn'[L + 1] = [id |-> nextIndex, ses |-> mses, n |-> made + 1]
         /\ UNCHANGED lost
<1>1. mses \in Nat \ {0} /\ made \in Nat /\ made' = made + 1
      BY SessionAssumption DEF Record, TypeOK
<1>2. dataIn \in Seq(Packet(mses, made + 1))
      BY <1>1, TypesGrow
<1> DEFINE e == [id |-> nextIndex, ses |-> mses, n |-> made + 1]
<1>3. e \in Packet(mses, made + 1)
      BY <1>1 DEF Packet, TypeOK
<1>4. dataIn' = Append(dataIn, e) /\ UNCHANGED lost
      BY <1>1 DEF Record
<1> HIDE DEF e
<1>5. /\ L \in Nat /\ DOMAIN dataIn = 1..L /\ DOMAIN dataIn' = 1..(L + 1)
      /\ dataIn'[L + 1] = e /\ Len(dataIn') = L + 1
      /\ \A i \in 1..L : dataIn'[i] = dataIn[i]
      BY <1>2, <1>3, <1>4, LastAdded
<1> QED BY <1>4, <1>5 DEF e

\* A packet that is lost to a misreported transfer leaves the FIFO.
LEMMA PacketLost ==
  ASSUME TypeOK, LosePacket, NEW L, L = Len(dataIn)
  PROVE  /\ L \in Nat \ {0} /\ DOMAIN dataIn = 1..L /\ DOMAIN dataIn' = 1..(L - 1)
         /\ \A i \in 1..(L - 1) : dataIn'[i] = dataIn[i + 1]
         /\ misreported' /\ UNCHANGED forwarded
<1>1. dataIn \in Seq(Packet(mses, made))
      BY DEF TypeOK, Packet
<1>2. dataIn # <<>> /\ dataIn' = Tail(dataIn) /\ misreported' /\ UNCHANGED forwarded
      BY DEF LosePacket
<1> QED BY <1>1, <1>2, FirstTaken

\* All other steps leave both sequences alone.
LEMMA OtherSteps ==
  ASSUME EnterState \/ RepeatStatus \/ PollStatus \/ PollNothing \/ DrainEnd \/ SendPacket
         \/ DataNothing \/ Disconnect \/ UNCHANGED vars
  PROVE  /\ UNCHANGED <<dataIn, forwarded, lost, made>>
         /\ misreported => misreported'
<1>1. CASE EnterState \/ RepeatStatus \/ UNCHANGED vars
      BY <1>1 DEF EnterState, RepeatStatus, vars, modem, host, outcome
<1>2. CASE PollStatus \/ PollNothing \/ DrainEnd \/ DataNothing \/ Disconnect
      BY <1>2 DEF PollStatus, PollNothing, DrainEnd, DataNothing, Disconnect, modem, outcome
<1>3. CASE SendPacket
      BY <1>3 DEF SendPacket
<1> QED BY <1>1, <1>2, <1>3

\* Packets stay in the order they were recorded.
LEMMA OrderStep == TypeOK /\ InOrder /\ [Next]_vars => InOrder'
<1> SUFFICES ASSUME TypeOK, InOrder, [Next]_vars PROVE InOrder'
    OBVIOUS
<1> DEFINE L == Len(dataIn)  F == Len(forwarded)
<1>a. /\ \A i \in DOMAIN dataIn : dataIn[i].n \in 1..made
      /\ \A i \in DOMAIN forwarded : forwarded[i].n \in 1..made
      /\ made \in Nat
  <2>1. dataIn \in Seq(Packet(mses, made)) /\ forwarded \in Seq(Forwarded(mses, made))
        BY DEF TypeOK, Packet, Forwarded
  <2>2. /\ \A i \in DOMAIN dataIn : dataIn[i] \in Packet(mses, made)
        /\ \A i \in DOMAIN forwarded : forwarded[i] \in Forwarded(mses, made)
        BY <2>1, ElementOfSeq, LenProperties
  <2>3. \A p \in Packet(mses, made) : p.n \in 1..made
        BY DEF Packet
  <2>4. \A p \in Forwarded(mses, made) : p.n \in 1..made
        BY DEF Forwarded
  <2>5. made \in Nat
        BY SessionAssumption DEF TypeOK
  <2> QED BY <2>2, <2>3, <2>4, <2>5
<1>1. CASE Record
  <2>1. CASE Len(dataIn) < FifoDepth
    <3>1. /\ L \in Nat /\ DOMAIN dataIn = 1..L /\ DOMAIN dataIn' = 1..(L + 1)
          /\ \A i \in 1..L : dataIn'[i] = dataIn[i]
          /\ dataIn'[L + 1] = [id |-> nextIndex, ses |-> mses, n |-> made + 1]
          BY <1>1, <2>1, PacketStaged
    <3>2. dataIn'[L + 1].n = made + 1
          BY <3>1
    <3>3. UNCHANGED forwarded
          BY <1>1 DEF Record, host, outcome
    <3> HIDE DEF L
    <3>4. \A i, j \in DOMAIN dataIn' : i < j => dataIn'[i].n < dataIn'[j].n
      <4> SUFFICES ASSUME NEW i \in 1..(L + 1), NEW j \in 1..(L + 1), i < j
                   PROVE  dataIn'[i].n < dataIn'[j].n
          BY <3>1
      <4>1. CASE j = L + 1
            BY <1>a, <3>1, <3>2, <4>1
      <4>2. CASE j # L + 1
            BY <3>1, <4>2 DEF InOrder
      <4> QED BY <4>1, <4>2
    <3>5. \A i \in DOMAIN forwarded, j \in DOMAIN dataIn' : forwarded[i].n < dataIn'[j].n
      <4> SUFFICES ASSUME NEW i \in DOMAIN forwarded, NEW j \in 1..(L + 1)
                   PROVE  forwarded[i].n < dataIn'[j].n
          BY <3>1
      <4>1. CASE j = L + 1
            BY <1>a, <3>2, <4>1
      <4>2. CASE j # L + 1
            BY <3>1, <4>2 DEF InOrder
      <4> QED BY <4>1, <4>2
    <3> QED BY <3>3, <3>4, <3>5 DEF InOrder
  <2>2. CASE ~(Len(dataIn) < FifoDepth)
        BY <1>1, <2>2 DEF Record, InOrder, host, outcome
  <2> QED BY <2>1, <2>2
<1>2. CASE ReceivePacket \/ DrainPacket
  <2>1. ProcessPacket
        BY <1>2 DEF ReceivePacket, DrainPacket
  <2>2. /\ L \in Nat \ {0} /\ DOMAIN dataIn = 1..L /\ DOMAIN dataIn' = 1..(L - 1)
        /\ \A i \in 1..(L - 1) : dataIn'[i] = dataIn[i + 1]
        /\ F \in Nat /\ DOMAIN forwarded = 1..F /\ DOMAIN forwarded' = 1..(F + 1)
        /\ \A i \in 1..F : forwarded'[i] = forwarded[i]
        /\ forwarded'[F + 1].n = dataIn[1].n
        BY <2>1, PacketTaken
  <2> HIDE DEF L, F
  <2>3. \A i, j \in DOMAIN dataIn' : i < j => dataIn'[i].n < dataIn'[j].n
    <3> SUFFICES ASSUME NEW i \in 1..(L - 1), NEW j \in 1..(L - 1), i < j
                 PROVE  dataIn'[i].n < dataIn'[j].n
        BY <2>2
    <3>1. i + 1 \in DOMAIN dataIn /\ j + 1 \in DOMAIN dataIn /\ i + 1 < j + 1
          BY <2>2
    <3> QED BY <2>2, <3>1 DEF InOrder
  <2>4. \A i \in DOMAIN forwarded', j \in DOMAIN dataIn' : forwarded'[i].n < dataIn'[j].n
    <3> SUFFICES ASSUME NEW i \in 1..(F + 1), NEW j \in 1..(L - 1)
                 PROVE  forwarded'[i].n < dataIn'[j].n
        BY <2>2
    <3>1. j + 1 \in DOMAIN dataIn /\ 1 \in DOMAIN dataIn /\ 1 < j + 1
          BY <2>2
    <3>2. CASE i = F + 1
      <4>1. dataIn[1].n < dataIn[j + 1].n
            BY <3>1 DEF InOrder
      <4> QED BY <2>2, <3>2, <4>1
    <3>3. CASE i # F + 1
      <4>1. i \in DOMAIN forwarded
            BY <2>2, <3>3
      <4>2. forwarded[i].n < dataIn[j + 1].n
            BY <3>1, <4>1 DEF InOrder
      <4> QED BY <2>2, <4>1, <4>2
    <3> QED BY <3>2, <3>3
  <2>5. \A i, j \in DOMAIN forwarded' : i < j => forwarded'[i].n < forwarded'[j].n
    <3> SUFFICES ASSUME NEW i \in 1..(F + 1), NEW j \in 1..(F + 1), i < j
                 PROVE  forwarded'[i].n < forwarded'[j].n
        BY <2>2
    <3>1. i \in DOMAIN forwarded /\ 1 \in DOMAIN dataIn
          BY <2>2
    <3>2. CASE j = F + 1
          BY <2>2, <3>1, <3>2 DEF InOrder
    <3>3. CASE j # F + 1
          BY <2>2, <3>1, <3>3 DEF InOrder
    <3> QED BY <3>2, <3>3
  <2> QED BY <2>3, <2>4, <2>5 DEF InOrder
<1>3. CASE LosePacket
  <2>1. /\ L \in Nat \ {0} /\ DOMAIN dataIn = 1..L /\ DOMAIN dataIn' = 1..(L - 1)
        /\ \A i \in 1..(L - 1) : dataIn'[i] = dataIn[i + 1]
        /\ UNCHANGED forwarded
        BY <1>3, PacketLost
  <2> HIDE DEF L
  <2>2. \A i \in 1..(L - 1) : i + 1 \in DOMAIN dataIn /\ dataIn'[i].n = dataIn[i + 1].n
        BY <2>1
  <2>3. \A i, j \in 1..(L - 1) : i < j => i + 1 < j + 1
        BY <2>1
  <2>4. \A i, j \in DOMAIN dataIn' : i < j => dataIn'[i].n < dataIn'[j].n
        BY <2>1, <2>2, <2>3 DEF InOrder
  <2>5. \A i \in DOMAIN forwarded, j \in DOMAIN dataIn' : forwarded[i].n < dataIn'[j].n
        BY <2>1, <2>2 DEF InOrder
  <2> QED BY <2>1, <2>4, <2>5 DEF InOrder
<1>4. CASE EnterState \/ RepeatStatus \/ PollStatus \/ PollNothing \/ DrainEnd \/ SendPacket
           \/ DataNothing \/ Disconnect \/ UNCHANGED vars
      BY <1>4, OtherSteps DEF InOrder
<1> QED BY <1>1, <1>2, <1>3, <1>4 DEF Next, Modem, ModemIO

\* As long as no completed transfer was misreported, a recorded packet is forwarded,
\* staged or lost to an overrun.
LEMMA TailStep ==
  ASSUME TypeOK, ~misreported => TailPreserved, [Next]_vars, ~misreported'
  PROVE  TailPreserved'
<1> DEFINE L == Len(dataIn)  F == Len(forwarded)
<1>1. CASE Record
  <2>1. TailPreserved /\ made' = made + 1 /\ UNCHANGED forwarded
        BY <1>1 DEF Record, host, outcome
  <2>2. 1..(made + 1) = (1..made) \cup {made + 1}
        BY SessionAssumption DEF TypeOK
  <2>3. Taken' = Taken
        BY <2>1 DEF Taken
  <2>4. CASE Len(dataIn) < FifoDepth
    <3>1. /\ L \in Nat /\ DOMAIN dataIn = 1..L /\ DOMAIN dataIn' = 1..(L + 1)
          /\ \A i \in 1..L : dataIn'[i] = dataIn[i]
          /\ dataIn'[L + 1] = [id |-> nextIndex, ses |-> mses, n |-> made + 1]
          /\ UNCHANGED lost
          BY <1>1, <2>4, PacketStaged
    <3>2. dataIn'[L + 1].n = made + 1
          BY <3>1
    <3> HIDE DEF L
    <3>3. 1..(L + 1) = (1..L) \cup {L + 1}
          BY <3>1
    <3>4. Staged' = Staged \cup {made + 1}
          BY <3>1, <3>2, <3>3 DEF Staged
    <3> QED BY <2>1, <2>2, <2>3, <3>1, <3>4 DEF TailPreserved
  <2>5. CASE ~(Len(dataIn) < FifoDepth)
    <3>1. lost' = lost \cup {made + 1} /\ UNCHANGED dataIn
          BY <1>1, <2>5 DEF Record
    <3>2. Staged' = Staged
          BY <3>1 DEF Staged
    <3> QED BY <2>1, <2>2, <2>3, <3>1, <3>2 DEF TailPreserved
  <2> QED BY <2>4, <2>5
<1>2. CASE ReceivePacket \/ DrainPacket
  <2>1. ProcessPacket /\ UNCHANGED <<lost, made, misreported>>
        BY <1>2 DEF ReceivePacket, DrainPacket
  <2>2. /\ L \in Nat \ {0} /\ DOMAIN dataIn = 1..L /\ DOMAIN dataIn' = 1..(L - 1)
        /\ \A i \in 1..(L - 1) : dataIn'[i] = dataIn[i + 1]
        /\ F \in Nat /\ DOMAIN forwarded = 1..F /\ DOMAIN forwarded' = 1..(F + 1)
        /\ \A i \in 1..F : forwarded'[i] = forwarded[i]
        /\ forwarded'[F + 1].n = dataIn[1].n
        BY <2>1, PacketTaken
  <2> HIDE DEF L, F
  <2>3. 1..(F + 1) = (1..F) \cup {F + 1}
        BY <2>2
  <2>4. Taken' = Taken \cup {dataIn[1].n}
        BY <2>2, <2>3 DEF Taken
  <2>5. Staged = Staged' \cup {dataIn[1].n}
    <3>1. \A i \in 1..L : i = 1 \/ (i - 1 \in 1..(L - 1) /\ dataIn'[i - 1] = dataIn[i])
          BY <2>2
    <3>2. \A i \in 1..(L - 1) : i + 1 \in 1..L /\ dataIn'[i] = dataIn[i + 1]
          BY <2>2
    <3>3. 1 \in 1..L
          BY <2>2
    <3>4. \A x : x \in Staged => x \in Staged' \/ x = dataIn[1].n
      <4> SUFFICES ASSUME NEW i \in 1..L PROVE dataIn[i].n \in Staged' \/ dataIn[i].n = dataIn[1].n
          BY <2>2 DEF Staged
      <4>1. CASE i = 1
            BY <4>1
      <4>2. CASE i - 1 \in DOMAIN dataIn' /\ dataIn'[i - 1] = dataIn[i]
            BY <4>2 DEF Staged
      <4> QED BY <2>2, <3>1, <4>1, <4>2
    <3>5. \A x : x \in Staged' \/ x = dataIn[1].n => x \in Staged
          BY <2>2, <3>2, <3>3 DEF Staged
    <3> QED BY <3>4, <3>5
  <2> QED BY <2>1, <2>4, <2>5 DEF TailPreserved
<1>3. CASE LosePacket
      BY <1>3 DEF LosePacket
<1>4. CASE EnterState \/ RepeatStatus \/ PollStatus \/ PollNothing \/ DrainEnd \/ SendPacket
           \/ DataNothing \/ Disconnect \/ UNCHANGED vars
  <2>1. UNCHANGED <<dataIn, forwarded, lost, made>> /\ ~misreported
        BY <1>4, OtherSteps
  <2> QED BY <2>1 DEF TailPreserved, Taken, Staged
<1> QED BY <1>1, <1>2, <1>3, <1>4 DEF Next, Modem, ModemIO

\* Of the entries the modem is ahead of the host, at most two, one at most is a TX.
LEMMA OneTx ==
  ASSUME NEW h \in Nat, NEW t \in Nat, NEW u \in Nat, h <= t, h <= u, t <= h + 2, u <= h + 2,
         StateOf(t) = "TX", StateOf(u) = "TX"
  PROVE  t = u
<1>1. t = h \/ t = h + 1 \/ t = h + 2
      OBVIOUS
<1>2. u = h \/ u = h + 1 \/ u = h + 2
      OBVIOUS
<1>3. h + 1 \in Nat /\ (h + 1) + 1 = h + 2
      OBVIOUS
<1>4. StateOf(h + 1) # StateOf(h) /\ StateOf(h + 2) # StateOf(h) /\ StateOf(h + 2) # StateOf(h + 1)
      BY <1>3, Round
<1> QED BY <1>1, <1>2, <1>4

\* Where the two sides are: the session numbers the data protocol depends on.
Window == /\ hses \in Nat /\ mses \in Nat /\ hses <= mses /\ mses <= hses + 2
          /\ state = StateOf(hses) /\ mstate = StateOf(mses)
          /\ \A i \in 1..Len(dataIn) : dataIn[i].ses \in Nat /\ dataIn[i].ses <= mses

LEMMA WindowHolds ==
  ASSUME IInv, Behind <= 2
  PROVE  Window /\ Len(dataIn) \in Nat /\ DOMAIN dataIn = 1..Len(dataIn)
<1>1. dataIn \in Seq(Packet(mses, made)) /\ mses \in Nat /\ hses \in 1..mses
      BY SessionAssumption DEF IInv, TypeOK, Packet
<1>2. Len(dataIn) \in Nat /\ DOMAIN dataIn = 1..Len(dataIn)
      BY <1>1, LenProperties
<1>3. \A i \in 1..Len(dataIn) : dataIn[i] \in Packet(mses, made)
      BY <1>1, ElementOfSeq
<1>4. \A p \in Packet(mses, made) : p.ses \in 1..mses
      BY DEF Packet
<1>5. \A i \in 1..Len(dataIn) : dataIn[i].ses \in 1..mses
      BY <1>3, <1>4
<1>6. mses <= hses + 2
      BY <1>1, SessionAssumption DEF IInv, NoEntrySkipped
<1> QED BY <1>1, <1>2, <1>5, <1>6 DEF Window, IInv, NoEntrySkipped

\* In TX, what is staged is of the session that is published, or left from before.
LEMMA FirstIsCurrent ==
  ASSUME Window, StagedIsCurrent, at # "gone", state = "TX",
         NEW i \in 1..Len(dataIn), DOMAIN dataIn = 1..Len(dataIn)
  PROVE  dataIn[i].ses = hses \/ dataIn[i].n \in leftovers
<1> SUFFICES ASSUME dataIn[i].n \notin leftovers PROVE dataIn[i].ses = hses
    OBVIOUS
<1>1. StateOf(dataIn[i].ses) = "TX" /\ dataIn[i].ses >= hses
      BY DEF StagedIsCurrent
<1>2. dataIn[i].ses \in Nat /\ dataIn[i].ses <= hses + 2 /\ hses \in Nat /\ StateOf(hses) = "TX"
      BY DEF Window
<1> QED BY <1>1, <1>2, OneTx

\* A leftover remains one.
LEMMA LeftoversGrow == [Next]_vars => leftovers \subseteq leftovers'
<1> SUFFICES ASSUME [Next]_vars PROVE leftovers \subseteq leftovers'
    OBVIOUS
<1>1. CASE Record \/ EnterState \/ RepeatStatus \/ UNCHANGED vars
      BY <1>1 DEF Record, EnterState, RepeatStatus, vars, host, outcome
<1>2. CASE ReceivePacket \/ DrainPacket \/ LosePacket \/ DrainEnd \/ SendPacket
      BY <1>2 DEF ReceivePacket, DrainPacket, LosePacket, DrainEnd, SendPacket
<1>3. CASE PollStatus \/ PollNothing \/ DataNothing \/ Disconnect
      BY <1>3 DEF PollStatus, PollNothing, DataNothing, Disconnect, outcome
<1> QED BY <1>1, <1>2, <1>3 DEF Next, Modem, ModemIO

\* What a step that publishes a state does to the data protocol: nothing, or a session
\* begins, and when it was TX that ended what is still staged is a leftover.
LEMMA SessionPublished ==
  ASSUME IInv, Behind <= 2, StagedIsCurrent, PollStatus \/ DrainEnd
  PROVE  /\ UNCHANGED <<dataIn, forwarded, mstate, mses, nextIndex>> /\ at # "gone"
         /\ \/ UNCHANGED <<state, hses, codecExpected, gaps>>
            \/ /\ hses' = hses + 1 /\ state' = StateOf(hses + 1)
               /\ codecExpected' = 0 /\ gaps' = 0 /\ at' # "drain"
               /\ state = "TX" => Staged \subseteq leftovers'
<1>1. /\ hses \in Nat /\ state = StateOf(hses) /\ Len(dataIn) \in Nat
      /\ DOMAIN dataIn = 1..Len(dataIn)
      BY WindowHolds DEF Window
<1>2. StateOf(hses + 1) # StateOf(hses)
      BY <1>1, Round
<1>3. CASE PollStatus
  <2> DEFINE s == Head(ctrlIn)
  <2>1. s.state = StateOf(s.ses) /\ s.ses \in {hses, hses + 1}
        BY <1>3, FirstStatus DEF PollStatus, IInv, NoEntrySkipped
  <2>2. UNCHANGED <<dataIn, forwarded, mstate, mses, nextIndex>> /\ at # "gone"
        BY <1>3 DEF PollStatus, outcome
  <2>3. CASE NeedsDrain(s)
        BY <1>3, <2>2, <2>3 DEF PollStatus, ids
  <2>4. CASE ~NeedsDrain(s)
    <3>1. Publish(s) /\ at' = "data"
          BY <1>3, <2>4 DEF PollStatus
    <3>2. CASE s.ses = hses
          BY <1>1, <2>1, <2>2, <3>1, <3>2 DEF Publish, ids
    <3>3. CASE s.ses = hses + 1
      <4>1. s.state # state /\ s.state = StateOf(hses + 1)
            BY <1>1, <1>2, <2>1, <3>3
      <4>2. state # "TX"
            BY <2>4, <4>1 DEF NeedsDrain
      <4> HIDE DEF s
      <4> QED BY <2>2, <3>1, <3>3, <4>1, <4>2 DEF Publish, ResetSequence
    <3> QED BY <2>1, <3>2, <3>3
  <2> QED BY <2>3, <2>4
<1>4. CASE DrainEnd
  <2>1. /\ UNCHANGED <<dataIn, forwarded, mstate, mses, nextIndex>>
        /\ at = "drain" /\ at' = "data" /\ Publish(pending)
        /\ leftovers' = IF left > 0 THEN leftovers \cup Staged ELSE leftovers
        BY <1>4 DEF DrainEnd, modem
  <2>2. pending.state = StateOf(hses + 1) /\ pending.ses = hses + 1
        BY <2>1 DEF IInv, NoEntrySkipped
  <2>3. Staged \subseteq leftovers'
    <3>1. CASE left > 0
          BY <2>1, <3>1
    <3>2. CASE ~(left > 0)
      <4>1. left = 0
            BY <3>2, SessionAssumption DEF IInv, TypeOK
      <4>2. Len(dataIn) <= 0 \/ Staged \subseteq leftovers
            BY <2>1, <4>1 DEF StagedIsCurrent
      <4>3. Len(dataIn) = 0 => Staged = {}
            BY <1>1 DEF Staged
      <4> QED BY <1>1, <2>1, <3>2, <4>2, <4>3
    <3> QED BY <3>1, <3>2
  <2> QED BY <1>1, <1>2, <2>1, <2>2, <2>3 DEF Publish, ResetSequence
<1> QED BY <1>3, <1>4

\* Nothing is recorded during a drain.
LEMMA QuietDrain ==
  ASSUME IInv, Behind <= 2, StagedIsCurrent, Record
  PROVE  at # "drain"
<1> SUFFICES ASSUME at = "drain" PROVE FALSE
    OBVIOUS
<1>1. Window
      BY WindowHolds
<1>2. state = "TX" /\ mstate = "TX" /\ pending.ses = hses + 1 /\ pending.ses <= mses
      BY SessionAssumption DEF StagedIsCurrent, Record, IInv, NoEntrySkipped, TypeOK
<1>3. mses = hses
  <2>1. /\ hses \in Nat /\ mses \in Nat /\ hses <= mses /\ mses <= hses + 2
        /\ StateOf(mses) = "TX" /\ StateOf(hses) = "TX" /\ hses <= hses /\ hses <= hses + 2
        BY <1>1, <1>2 DEF Window
  <2> QED BY <2>1, OneTx
<1> QED BY <1>1, <1>2, <1>3 DEF Window

\* What is staged is of the session the host is in or of the one it enters next, or a
\* leftover.
LEMMA CurrentStep ==
  ASSUME IInv, Behind <= 2, FifoDepth <= DrainCap, StagedIsCurrent, [Next]_vars
  PROVE  StagedIsCurrent'
<1> DEFINE L == Len(dataIn)
<1>a. /\ Window /\ L \in Nat /\ DOMAIN dataIn = 1..L
      BY WindowHolds
<1>1. CASE Record /\ at # "gone"
  <2>1. at # "drain" /\ UNCHANGED <<at, hses>>
        BY <1>1, QuietDrain DEF Record, host
  <2>0. UNCHANGED leftovers
        BY <1>1 DEF Record, host, outcome
  <2>2. CASE Len(dataIn) < FifoDepth
    <3>1. /\ DOMAIN dataIn' = 1..(L + 1) /\ \A i \in 1..L : dataIn'[i] = dataIn[i]
          /\ dataIn'[L + 1] = [id |-> nextIndex, ses |-> mses, n |-> made + 1]
          BY <1>1, <2>2, PacketStaged DEF IInv
    <3>2. dataIn'[L + 1].ses = mses
          BY <3>1
    <3> HIDE DEF L
    <3>3. ASSUME NEW i \in 1..(L + 1)
          PROVE  /\ StateOf(dataIn'[i].ses) = "TX"
                 /\ dataIn'[i].ses >= hses \/ dataIn'[i].n \in leftovers
      <4>1. CASE i = L + 1
            BY <1>1, <1>a, <3>2, <4>1 DEF Record, Window
      <4>2. CASE i # L + 1
            BY <1>1, <1>a, <3>1, <4>2 DEF StagedIsCurrent
      <4> QED BY <4>1, <4>2
    <3> QED BY <2>0, <2>1, <3>1, <3>3 DEF StagedIsCurrent
  <2>3. CASE ~(Len(dataIn) < FifoDepth)
        BY <1>1, <2>0, <2>1, <2>3 DEF Record, StagedIsCurrent
  <2> QED BY <2>2, <2>3
<1>2. CASE ReceivePacket \/ DrainPacket
  <2>1. ProcessPacket /\ UNCHANGED <<state, hses, leftovers>> /\ at # "gone"
        BY <1>2 DEF ReceivePacket, DrainPacket
  <2>2. /\ L \in Nat \ {0} /\ DOMAIN dataIn' = 1..(L - 1) /\ Len(dataIn') = L - 1
        /\ \A i \in 1..(L - 1) : dataIn'[i] = dataIn[i + 1]
        BY <2>1, PacketTaken DEF IInv
  <2>3. at' = "drain" => at = "drain" /\ left' = left - 1
        BY <1>2 DEF ReceivePacket, DrainPacket, EndIteration
  <2> HIDE DEF L
  <2>4. ASSUME NEW i \in 1..(L - 1)
        PROVE  /\ StateOf(dataIn'[i].ses) = "TX"
               /\ dataIn'[i].ses >= hses \/ dataIn'[i].n \in leftovers
    <3>1. i + 1 \in DOMAIN dataIn
          BY <1>a
    <3> QED BY <2>1, <2>2, <3>1 DEF StagedIsCurrent
  <2>5. at' = "drain" => state = "TX" /\ (L - 1 <= left - 1 \/ Staged' \subseteq leftovers)
    <3>1. at = "drain" => state = "TX" /\ (L <= left \/ Staged \subseteq leftovers)
          BY DEF StagedIsCurrent, L
    <3>2. left \in Nat
          BY SessionAssumption DEF IInv, TypeOK
    <3>3. Staged' \subseteq Staged
          BY <1>a, <2>2, StagedShrinks DEF L
    <3> QED BY <1>a, <2>3, <3>1, <3>2, <3>3
  <2> QED BY <2>1, <2>2, <2>3, <2>4, <2>5 DEF StagedIsCurrent
<1>3. CASE PollStatus \/ DrainEnd
  <2>1. /\ UNCHANGED dataIn /\ at # "gone"
        /\ \/ UNCHANGED <<state, hses>>
           \/ /\ hses' = hses + 1 /\ at' # "drain"
              /\ state = "TX" => Staged \subseteq leftovers'
        BY <1>3, SessionPublished
  <2>0. leftovers \subseteq leftovers'
        BY LeftoversGrow
  <2>2. \A j \in 1..L : /\ StateOf(dataIn[j].ses) = "TX"
                        /\ dataIn[j].ses >= hses \/ dataIn[j].n \in leftovers'
        BY <1>a, <2>0, <2>1 DEF StagedIsCurrent
  <2>3. at' = "drain" => state = "TX" /\ UNCHANGED state /\ L <= left'
    <3>1. at' = "drain" => PollStatus /\ NeedsDrain(Head(ctrlIn))
          BY <1>3 DEF PollStatus, DrainEnd
    <3>2. at' = "drain" => left' = DrainCap /\ state = "TX" /\ UNCHANGED state
          BY <3>1 DEF PollStatus, NeedsDrain, DrainBudget
    <3>3. L <= DrainCap
          BY <1>a, SessionAssumption DEF IInv, TypeOK
    <3> QED BY <3>2, <3>3
  <2>4. CASE UNCHANGED hses
        BY <1>a, <2>1, <2>2, <2>3, <2>4 DEF StagedIsCurrent
  <2>5. CASE /\ hses' = hses + 1 /\ at' # "drain"
             /\ state = "TX" => Staged \subseteq leftovers'
    <3>1. ASSUME NEW j \in 1..L PROVE dataIn[j].ses >= hses + 1 \/ dataIn[j].n \in leftovers'
      <4>1. CASE dataIn[j].ses = hses
        <5>1. state = "TX"
              BY <1>a, <2>2, <4>1 DEF Window
        <5>2. dataIn[j].n \in Staged
              BY <1>a DEF Staged
        <5> QED BY <2>5, <5>1, <5>2
      <4>2. CASE dataIn[j].ses # hses
            BY <1>a, <2>2, <4>2 DEF Window
      <4> QED BY <4>1, <4>2
    <3> QED BY <1>a, <2>1, <2>2, <2>5, <3>1 DEF StagedIsCurrent
  <2> QED BY <2>1, <2>4, <2>5
<1>4. CASE EnterState \/ RepeatStatus \/ UNCHANGED vars
  <2>1. UNCHANGED <<dataIn, at, state, hses, left, leftovers>>
        BY <1>4 DEF EnterState, RepeatStatus, vars, modem, host, handling, outcome
  <2> QED BY <2>1 DEF StagedIsCurrent, Staged
<1>5. CASE PollNothing \/ SendPacket \/ DataNothing
  <2>1. UNCHANGED <<dataIn, hses, leftovers>> /\ at # "gone" /\ at' # "drain"
        BY <1>5 DEF PollNothing, SendPacket, DataNothing, EndIteration, modem, outcome
  <2> QED BY <2>1 DEF StagedIsCurrent
<1>6. CASE LosePacket
  <2>1. UNCHANGED <<state, hses>> /\ at # "gone" /\ leftovers \subseteq leftovers'
        BY <1>6 DEF LosePacket
  <2>2. /\ L \in Nat \ {0} /\ DOMAIN dataIn' = 1..(L - 1)
        /\ \A i \in 1..(L - 1) : dataIn'[i] = dataIn[i + 1]
        BY <1>6, PacketLost DEF IInv
  <2>3. at' = "drain" => at = "drain" /\ Staged' \subseteq leftovers'
        BY <1>6 DEF LosePacket, EndIteration
  <2> HIDE DEF L
  <2>4. ASSUME NEW i \in 1..(L - 1)
        PROVE  /\ StateOf(dataIn'[i].ses) = "TX"
               /\ dataIn'[i].ses >= hses \/ dataIn'[i].n \in leftovers'
    <3>1. i + 1 \in DOMAIN dataIn
          BY <1>a, <2>2 DEF L
    <3> QED BY <2>1, <2>2, <3>1 DEF StagedIsCurrent
  <2> QED BY <2>1, <2>2, <2>3, <2>4 DEF StagedIsCurrent
<1>7. CASE Disconnect \/ (Record /\ at = "gone")
  <2>1. at' = "gone"
        BY <1>7 DEF Disconnect, Record, host
  <2> QED BY <2>1 DEF StagedIsCurrent
<1> QED BY <1>1, <1>2, <1>3, <1>4, <1>5, <1>6, <1>7 DEF Next, Modem, ModemIO

\* What is forwarded is of the session that is published, or a leftover.
LEMMA PureStep ==
  ASSUME IInv, Behind <= 2, StagedIsCurrent, SessionsPure, [Next]_vars
  PROVE  SessionsPure'
<1> DEFINE L == Len(dataIn)  F == Len(forwarded)
<1>a. /\ Window /\ L \in Nat /\ DOMAIN dataIn = 1..L
      BY WindowHolds
<1>b. leftovers \subseteq leftovers'
      BY LeftoversGrow
<1>1. CASE ReceivePacket \/ DrainPacket
  <2>1. ProcessPacket /\ at # "gone" /\ state = "TX"
        BY <1>1 DEF ReceivePacket, DrainPacket, StagedIsCurrent
  <2>2. /\ L \in Nat \ {0}
        /\ F \in Nat /\ DOMAIN forwarded = 1..F /\ DOMAIN forwarded' = 1..(F + 1)
        /\ \A i \in 1..F : forwarded'[i] = forwarded[i]
        /\ forwarded'[F + 1].ses = dataIn[1].ses /\ forwarded'[F + 1].n = dataIn[1].n
        /\ forwarded'[F + 1].during = hses
        BY <2>1, PacketTaken DEF IInv
  <2>3. dataIn[1].ses = hses \/ dataIn[1].n \in leftovers
    <3>1. 1 \in 1..Len(dataIn)
          BY <2>2
    <3> QED BY <1>a, <2>1, <3>1, FirstIsCurrent
  <2> HIDE DEF F, L
  <2>4. ASSUME NEW i \in 1..(F + 1)
        PROVE  forwarded'[i].ses = forwarded'[i].during \/ forwarded'[i].n \in leftovers'
    <3>1. CASE i = F + 1
          BY <1>b, <2>2, <2>3, <3>1
    <3>2. CASE i # F + 1
          BY <1>b, <2>2, <3>2 DEF SessionsPure
    <3> QED BY <3>1, <3>2
  <2> QED BY <2>2, <2>4 DEF SessionsPure
<1>2. CASE UNCHANGED forwarded
      BY <1>2, <1>b DEF SessionsPure
<1>3. CASE Record \/ LosePacket
      BY <1>2, <1>3 DEF Record, LosePacket, host, outcome
<1>4. CASE EnterState \/ RepeatStatus \/ PollStatus \/ PollNothing \/ DrainEnd \/ SendPacket
           \/ DataNothing \/ Disconnect \/ UNCHANGED vars
      BY <1>2, <1>4, OtherSteps
<1> QED BY <1>1, <1>3, <1>4 DEF Next, Modem, ModemIO

\* While nothing is missing, the staged ids go on where the codec is.
LEMMA NumberedStep ==
  ASSUME IInv, Behind <= 2, StagedIsCurrent, NumberedInTurn, [Next]_vars, NothingMissing'
  PROVE  NumberedInTurn'
<1> DEFINE L == Len(dataIn)
<1>a. /\ Window /\ L \in Nat /\ DOMAIN dataIn = 1..L
      BY WindowHolds
<1>c. leftovers = {} /\ leftovers' = {} /\ lost' = {}
      BY LeftoversGrow DEF NothingMissing
<1>b. dataIn = <<>> <=> L = 0
  <2>1. dataIn \in Seq(Packet(mses, made))
        BY DEF IInv, TypeOK, Packet
  <2> QED BY <2>1, EmptySeq
<1>1. CASE EnterState
  <2>1. /\ UNCHANGED <<dataIn, gaps, at, state, codecExpected, hses>>
        /\ mses' = mses + 1 /\ mses - hses < Behind /\ mstate' = After[mstate] /\ nextIndex' = 0
        BY <1>1 DEF EnterState, host, ids
  <2>2. \A i : NextOf(i)' = NextOf(i)
        BY <2>1 DEF NextOf
  <2>3. ASSUME at # "gone", mstate' = "TX" PROVE L = 0 /\ state # "TX"
    <3>1. mses + 1 \in Nat /\ mses + 1 <= hses + 2 /\ hses <= mses + 1 /\ mses + 1 # hses
          BY <1>a, <2>1, SessionAssumption DEF Window
    <3>2. StateOf(mses + 1) = "TX"
          BY <1>a, <2>1, <2>3, Round DEF Window
    <3>3. state # "TX"
      <4>1. hses \in Nat /\ hses <= hses /\ hses <= hses + 2
            BY <1>a DEF Window
      <4> QED BY <1>a, <3>1, <3>2, <4>1, OneTx DEF Window
    <3>4. ASSUME NEW i \in 1..L PROVE FALSE
      <4>1. StateOf(dataIn[i].ses) = "TX" /\ dataIn[i].ses >= hses
            BY <1>a, <1>c, <2>3 DEF StagedIsCurrent
      <4>2. /\ dataIn[i].ses \in Nat /\ dataIn[i].ses <= hses + 2 /\ hses <= dataIn[i].ses
            /\ dataIn[i].ses # mses + 1 /\ hses \in Nat
            BY <1>a, <4>1 DEF Window
      <4> QED BY <3>1, <3>2, <4>1, <4>2, OneTx
    <3>5. L = 0
      <4>1. L # 0 => 1 \in 1..L
            BY <1>a
      <4> QED BY <3>4, <4>1
    <3> QED BY <3>3, <3>5
  <2>4. at # "gone" /\ mstate' = "TX" => nextIndex' = NextOf(Len(dataIn))
        BY <2>1, <2>3 DEF NextOf
  <2> QED BY <2>1, <2>2, <2>4 DEF NumberedInTurn
<1>2. CASE Record
  <2>1. /\ UNCHANGED <<gaps, at, state, codecExpected, mstate>> /\ mstate = "TX"
        /\ nextIndex' = FollowingId(nextIndex) /\ made' = made + 1
        BY <1>2 DEF Record, host, ids
  <2>2. Len(dataIn) < FifoDepth
    <3>1. ~(Len(dataIn) < FifoDepth) => lost' = lost \cup {made'}
          BY <1>2 DEF Record
    <3> QED BY <1>c, <3>1
  <2>3. /\ DOMAIN dataIn' = 1..(L + 1) /\ Len(dataIn') = L + 1
        /\ \A i \in 1..L : dataIn'[i] = dataIn[i]
        /\ dataIn'[L + 1] = [id |-> nextIndex, ses |-> mses, n |-> made + 1]
        BY <1>2, <2>2, PacketStaged DEF IInv
  <2>4. dataIn'[L + 1].id = nextIndex
        BY <2>3
  <2>5. \A i \in 0..L : NextOf(i)' = NextOf(i)
        BY <1>a, <2>1, <2>3 DEF NextOf
  <2>6. \A i \in Nat : i = L + 1 => NextOf(i)' = FollowingId(nextIndex)
        BY <1>a, <2>4 DEF NextOf
  <2>7. NextOf(Len(dataIn))' = FollowingId(nextIndex)
    <3>1. NextOf(Len(dataIn))' = FollowingId(dataIn'[L + 1].id)
          BY <1>a, <2>3 DEF NextOf
    <3> QED BY <2>4, <3>1
  <2>8. ASSUME at # "gone", NEW i \in 1..(L + 1) PROVE dataIn'[i].id = NextOf(i - 1)'
    <3>1. i - 1 \in 0..L
          BY <1>a
    <3>2. NextOf(i - 1)' = NextOf(i - 1)
          BY <2>5, <3>1
    <3>3. CASE i = L + 1
      <4>1. nextIndex = NextOf(L) /\ i - 1 = L
            BY <1>a, <2>1, <2>8, <3>3 DEF NumberedInTurn
      <4> QED BY <2>4, <3>2, <3>3, <4>1
    <3>4. CASE i # L + 1
      <4>1. i \in 1..L
            BY <1>a, <3>4
      <4> QED BY <2>3, <2>8, <3>2, <4>1 DEF NumberedInTurn
    <3> QED BY <3>3, <3>4
  <2> HIDE DEF L
  <2> QED BY <2>1, <2>3, <2>7, <2>8 DEF NumberedInTurn
<1>3. CASE ReceivePacket \/ DrainPacket
  <2>1. /\ ProcessPacket /\ UNCHANGED <<state, mstate, nextIndex>>
        /\ at # "gone" /\ at' # "gone" /\ state = "TX"
        BY <1>3 DEF ReceivePacket, DrainPacket, EndIteration, StagedIsCurrent
  <2>2. /\ L \in Nat \ {0} /\ DOMAIN dataIn' = 1..(L - 1) /\ Len(dataIn') = L - 1
        /\ \A i \in 1..(L - 1) : dataIn'[i] = dataIn[i + 1]
        /\ Head(dataIn) = dataIn[1]
        BY <2>1, PacketTaken DEF IInv
  <2>3. dataIn[1].id = codecExpected
    <3>1. dataIn[1].id = NextOf(1 - 1)
          BY <2>1, <2>2 DEF NumberedInTurn
    <3>2. NextOf(1 - 1) = codecExpected
          BY <2>1 DEF NextOf
    <3> QED BY <3>1, <3>2
  <2>4. codecExpected' = FollowingId(dataIn[1].id) /\ gaps' = 0
    <3>1. gaps' = gaps + 0 /\ codecExpected' = FollowingId(dataIn[1].id)
          BY <2>1, <2>2, <2>3 DEF ProcessPacket, CheckSequence
    <3> QED BY <3>1 DEF NumberedInTurn
  <2>5. \A i \in 0..(L - 1) : NextOf(i)' = NextOf(i + 1)
        BY <2>1, <2>2, <2>4 DEF NextOf
  <2>6. NextOf(Len(dataIn))' = NextOf(L)
    <3>1. CASE L - 1 = 0
          BY <2>1, <2>2, <2>4, <3>1 DEF NextOf
    <3>2. CASE L - 1 > 0
      <4>1. NextOf(Len(dataIn))' = FollowingId(dataIn'[L - 1].id)
            BY <2>2, <3>2 DEF NextOf
      <4>2. dataIn'[L - 1] = dataIn[L]
            BY <2>2, <3>2
      <4> QED BY <2>2, <4>1, <4>2 DEF NextOf
    <3> QED BY <2>2, <3>1, <3>2
  <2>7. ASSUME NEW i \in 1..(L - 1) PROVE dataIn'[i].id = NextOf(i - 1)'
    <3>1. i - 1 \in 0..(L - 1) /\ (i - 1) + 1 = i /\ i + 1 \in 1..L /\ (i + 1) - 1 = i
          BY <2>2
    <3>2. NextOf(i - 1)' = NextOf(i)
          BY <2>5, <3>1
    <3>3. dataIn[i + 1].id = NextOf(i)
          BY <2>1, <3>1 DEF NumberedInTurn
    <3> QED BY <2>2, <3>2, <3>3
  <2>8. mstate = "TX" => nextIndex = NextOf(L)
        BY <2>1 DEF NumberedInTurn
  <2> HIDE DEF L
  <2> QED BY <2>1, <2>2, <2>4, <2>6, <2>7, <2>8 DEF NumberedInTurn
<1>4. CASE PollStatus \/ DrainEnd
  <2>1. /\ UNCHANGED <<dataIn, forwarded, mstate, mses, nextIndex>> /\ at # "gone"
        /\ \/ UNCHANGED <<state, hses, codecExpected, gaps>>
           \/ /\ hses' = hses + 1 /\ state' = StateOf(hses + 1)
              /\ codecExpected' = 0 /\ gaps' = 0 /\ at' # "drain"
              /\ state = "TX" => dataIn = <<>>
    <3>1. Staged \subseteq {} => dataIn = <<>>
      <4>1. 1 \in DOMAIN dataIn => dataIn[1].n \in Staged
            BY DEF Staged
      <4> QED BY <1>a, <1>b, <4>1
    <3> QED BY <1>4, <1>c, <3>1, SessionPublished
  <2>2. CASE UNCHANGED <<state, hses, codecExpected, gaps>>
    <3>1. \A i : NextOf(i)' = NextOf(i)
          BY <2>1, <2>2 DEF NextOf
    <3> QED BY <2>1, <2>2, <3>1 DEF NumberedInTurn
  <2>3. CASE state # "TX" /\ codecExpected' = 0 /\ gaps' = 0
    <3>1. \A i : NextOf(i)' = NextOf(i)
          BY <2>1, <2>3 DEF NextOf
    <3> QED BY <2>1, <2>3, <3>1 DEF NumberedInTurn
  <2>4. CASE state = "TX" /\ dataIn = <<>> /\ hses' = hses + 1 /\ gaps' = 0
    <3>1. mses = hses => ~(PollStatus \/ DrainEnd)
      <4>1. \/ hses' \in 1..mses'
            BY TypeStep DEF IInv, TypeOK
      <4> QED BY <1>a, <2>1, <2>4, <4>1 DEF Window
    <3>2. mstate # "TX"
      <4>1. hses \in Nat /\ hses <= hses /\ hses <= hses + 2
            BY <1>a DEF Window
      <4> QED BY <1>4, <1>a, <2>4, <3>1, <4>1, OneTx DEF Window
    <3>3. Len(dataIn) = 0
          BY <1>b, <2>4
    <3> QED BY <2>1, <2>4, <3>2, <3>3 DEF NumberedInTurn
  <2> QED BY <2>1, <2>2, <2>3, <2>4
<1>5. CASE RepeatStatus \/ PollNothing \/ DataNothing \/ SendPacket \/ UNCHANGED vars
  <2>1. UNCHANGED <<dataIn, gaps, state, codecExpected, mstate, nextIndex>> /\ (at' # "gone" => at # "gone")
    <3>1. CASE RepeatStatus \/ UNCHANGED vars
          BY <3>1 DEF RepeatStatus, vars, modem, host, ids
    <3>2. CASE PollNothing \/ DataNothing
          BY <3>2 DEF PollNothing, DataNothing, modem, ids
    <3>3. CASE SendPacket
          BY <3>3 DEF SendPacket
    <3> QED BY <1>5, <3>1, <3>2, <3>3
  <2>2. \A i : NextOf(i)' = NextOf(i)
        BY <2>1 DEF NextOf
  <2> QED BY <2>1, <2>2 DEF NumberedInTurn
<1>6. CASE LosePacket
      BY <1>6 DEF LosePacket, NothingMissing
<1>7. CASE Disconnect
  <2>1. at' = "gone" /\ (gaps' = 0 \/ UNCHANGED gaps)
        BY <1>7 DEF Disconnect, Publish, ids
  <2> QED BY <2>1 DEF NumberedInTurn
<1> QED BY <1>1, <1>2, <1>3, <1>4, <1>5, <1>6, <1>7 DEF Next, Modem, ModemIO

\* The initial state satisfies the invariants on the recorded packets ...
LEMMA InitDataInv == Init => DataInv
<1> SUFFICES ASSUME Init PROVE DataInv
    OBVIOUS
<1>1. /\ DOMAIN forwarded = {} /\ DOMAIN dataIn = {} /\ Len(dataIn) = 0 /\ 1..made = {}
      /\ lost = {} /\ gaps = 0 /\ nextIndex = 0 /\ at = "poll" /\ state = "RX" /\ mstate = "RX"
      BY DEF Init
<1>2. InOrder /\ SessionsPure /\ StagedIsCurrent
      BY <1>1 DEF InOrder, SessionsPure, StagedIsCurrent
<1>3. TailPreserved
      BY <1>1 DEF TailPreserved, Taken, Staged
<1>4. NumberedInTurn
      BY <1>1 DEF NumberedInTurn
<1> QED BY <1>2, <1>3, <1>4 DEF DataInv

\* ... and every step keeps them.
LEMMA DataStep == IInv /\ DataInv /\ [Next]_vars => DataInv'
<1> SUFFICES ASSUME IInv, DataInv, [Next]_vars PROVE DataInv'
    OBVIOUS
<1>1. InOrder'
      BY OrderStep DEF DataInv, IInv
<1>2. ASSUME ~misreported' PROVE ~misreported
  <2>1. misreported => misreported'
    <3>1. CASE Record \/ ReceivePacket \/ DrainPacket \/ LosePacket
          BY <3>1 DEF Record, ReceivePacket, DrainPacket, LosePacket, host, outcome
    <3>2. CASE EnterState \/ RepeatStatus \/ PollStatus \/ PollNothing \/ DrainEnd \/ SendPacket
               \/ DataNothing \/ Disconnect \/ UNCHANGED vars
          BY <3>2, OtherSteps
    <3> QED BY <3>1, <3>2 DEF Next, Modem, ModemIO
  <2> QED BY <1>2, <2>1
<1>3. ~misreported' => TailPreserved'
      BY <1>2, TailStep DEF DataInv, IInv
<1>4. ASSUME Behind <= 2, FifoDepth <= DrainCap
      PROVE  StagedIsCurrent' /\ SessionsPure' /\ (NothingMissing' => NumberedInTurn')
  <2>1. StagedIsCurrent /\ SessionsPure /\ (NothingMissing => NumberedInTurn)
        BY <1>4 DEF DataInv
  <2>2. StagedIsCurrent' /\ SessionsPure'
        BY <1>4, <2>1, CurrentStep, PureStep
  <2>3. lost \subseteq lost'
    <3>1. CASE Record \/ ReceivePacket \/ DrainPacket \/ LosePacket
          BY <3>1 DEF Record, ReceivePacket, DrainPacket, LosePacket
    <3>2. CASE EnterState \/ RepeatStatus \/ PollStatus \/ PollNothing \/ DrainEnd \/ SendPacket
               \/ DataNothing \/ Disconnect \/ UNCHANGED vars
          BY <3>2, OtherSteps
    <3> QED BY <3>1, <3>2 DEF Next, Modem, ModemIO
  <2>4. NothingMissing' => NothingMissing
        BY <1>2, <2>3, LeftoversGrow DEF NothingMissing
  <2>5. NothingMissing' => NumberedInTurn'
        BY <1>4, <2>1, <2>4, NumberedStep
  <2> QED BY <2>2, <2>5
<1> QED BY <1>1, <1>3, <1>4 DEF DataInv

(***************************************************************************)
(* Theorems.                                                               *)
(***************************************************************************)
\* The inductive invariant: no state entry is skipped on the way to the host, and a
\* host at most two entries behind sends nothing to a modem that has started anew.
THEOREM IInvHolds == Spec => []IInv
<1>1. IInv /\ [Next]_vars => IInv'
  <2> SUFFICES ASSUME IInv, [Next]_vars PROVE IInv'
      OBVIOUS
  <2>1. TypeOK' /\ NoEntrySkipped'
        BY TypeStep, EntryStep
  <2>2. ASSUME Behind <= 2 PROVE RestartAgreed' /\ InSync'
        BY <2>2, IdStep DEF IInv
  <2> QED BY <2>1, <2>2 DEF IInv
<1> QED BY <1>1, InitIInv, PTL DEF Spec

\* Every variable keeps the type of what it stands for, for every id width, polling
\* interval, FIFO depth and drain cap.
THEOREM TypeCorrect == Spec => []TypeOK
<1>1. IInv => TypeOK BY DEF IInv
<1> QED BY <1>1, IInvHolds, PTL

\* The id ModemIO sends next is the one the modem expects, or, after a send that
\* completed and reported TIMEOUT, the one before it.
THEOREM IdsAgree ==
  ASSUME Behind <= 2
  PROVE  Spec => []InSync
<1>1. IInv => InSync BY DEF IInv
<1> QED BY <1>1, IInvHolds, PTL

\* The invariants on the recorded packets, for every value of the constants.
THEOREM DataInvHolds == Spec => []DataInv
<1> QED BY IInvHolds, InitDataInv, DataStep, PTL DEF Spec

\* Every packet that is neither lost to an overrun nor to a misreported transfer is staged
\* or forwarded, and what is forwarded is so once and in the order it was recorded.
THEOREM TailIsKept == Spec => []TailKept
<1>1. DataInv => TailKept
      BY DEF DataInv, InOrder, TailKept
<1> QED BY <1>1, DataInvHolds, PTL

\* With a drain that can take all that is staged and a modem at most two entries ahead,
\* a packet of a TX session surfaces in a later one only when a read of the drain failed
\* or was short while the packet was staged.
THEOREM SessionsStayPure ==
  ASSUME Behind <= 2, FifoDepth <= DrainCap
  PROVE  Spec => []SessionsPure
<1>1. DataInv => SessionsPure
      BY DEF DataInv
<1> QED BY <1>1, DataInvHolds, PTL

\* Under the same assumptions the codec reports no gap as long as no packet was lost or
\* left behind by a drain, for any width of the ids and however often they wrap.
THEOREM GapsAreLosses ==
  ASSUME Behind <= 2, FifoDepth <= DrainCap
  PROVE  Spec => []NoFalseGaps
<1>1. TypeOK /\ DataInv => NoFalseGaps
      BY DEF DataInv, NumberedInTurn, NoFalseGaps, TypeOK
<1> QED BY <1>1, TypeCorrect, DataInvHolds, PTL
=============================================================================
