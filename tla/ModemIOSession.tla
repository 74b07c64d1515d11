--------------------------- MODULE ModemIOSession ---------------------------
(***************************************************************************)
(* One modem and its ModemIO thread (io/modem_io.cpp) over USB: state      *)
(* changes arrive as status packets on the control endpoint, recorded      *)
(* samples as data packets on the data endpoint, both numbered by session. *)
(* Modem and host restart their packet ids at every state change, each     *)
(* when it learns of it.  The modem's firmware and libusb are outside the  *)
(* repository: they are modelled from what modem_io.cpp, packets.hpp and   *)
(* MockTransport say of them.                                              *)
(***************************************************************************)
EXTENDS Integers, Sequences

CONSTANTS Modulus,        \* packet ids wrap: 2^16
          PollInterval,   \* CONTROL_POLL_INTERVAL
          DrainCap,       \* TX_DRAIN_MAX_ITERATIONS
          FifoDepth,      \* packets the modem can have staged
          StatusDepth,    \* status packets the modem can have staged
          Behind,         \* assumption: state changes the host may be behind
          MaxEntries,     \* bound: state changes of the modem
          MaxPackets,     \* bound: packets the modem records
          MaxSends        \* bound: packets the host sends

ASSUME SessionAssumption ==
  /\ Modulus \in Nat \ {0, 1} /\ PollInterval \in Nat \ {0}
  /\ DrainCap \in Nat /\ FifoDepth \in Nat \ {0} /\ StatusDepth \in Nat \ {0}
  /\ Behind \in Nat \ {0}
  /\ MaxEntries \in Nat \ {0} /\ MaxPackets \in Nat /\ MaxSends \in Nat

VARIABLES
  \* modem
  mstate, mses,   \* its state, and how many it has entered
  nextIndex,      \* next_packet_index of the packets it records
  expected,       \* rx_expected_id, the id it expects from the host
  dataIn,         \* recorded packets staged, each [id, ses, n]
  ctrlIn,         \* status packets staged, each [state, ses]
  made, lost,     \* packets recorded; those of them lost to an overrun
  \* ModemIO
  at,             \* where its thread is
  iteration,      \* run's iteration, modulo PollInterval
  state,          \* ModemRuntimeState::state, as published
  pending, left,  \* the status being handled and drain iterations left
  codecExpected, gaps,     \* ProtocolCodec::expected_id_, gap_count_
  txPktId,        \* tx_pkt_id_
  \* history
  hses,           \* the modem's state entry that `state' stands for
  forwarded,      \* packets written to tx_ring, each [n, ses, during]
  sends,
  misreported,    \* a transfer of data completed and was reported as TIMEOUT
  leftovers       \* packets still staged when a read of the drain failed

modem == <<mstate, mses, nextIndex, expected, dataIn, ctrlIn, made, lost>>
ids      == <<codecExpected, gaps, txPktId>>
handling == <<pending, left>>
outcome  == <<forwarded, misreported, leftovers>>
host == <<at, iteration, state, hses, handling, ids, outcome, sends>>
vars == <<modem, host>>

ModemState == {"RX", "TX", "SETTLING"}

FollowingId(id) == (id + 1) % Modulus

NoStatus == [state |-> "RX", ses |-> 0]

Init ==
  /\ mstate = "RX" /\ mses = 1 /\ nextIndex = 0 /\ expected = 0  \* enter_hil_mode
  /\ dataIn = <<>> /\ ctrlIn = <<>> /\ made = 0 /\ lost = {}
  /\ at = "poll" /\ iteration = 0
  /\ state = "RX" /\ hses = 1             \* Simulator::run's bootstrap
  /\ pending = NoStatus /\ left = 0
  /\ codecExpected = 0 /\ gaps = 0 /\ txPktId = 0
  /\ forwarded = <<>> /\ sends = 0 /\ misreported = FALSE /\ leftovers = {}

-----------------------------------------------------------------------------
(* The modem.                                                              *)

After == [RX |-> "TX", TX |-> "SETTLING", SETTLING |-> "RX"]

\* resetHil on every state entry: ids restart, staged packets stay.  States last
\* long against ModemIO's loop (TR_SETTLING_TIME_S), so the host is never more
\* than Behind entries behind.
EnterState ==
  /\ mses < MaxEntries /\ mses - hses < Behind
  /\ mstate' = After[mstate] /\ mses' = mses + 1
  /\ nextIndex' = 0 /\ expected' = 0
  /\ ctrlIn' = Append(ctrlIn, [state |-> mstate', ses |-> mses'])
  /\ UNCHANGED <<dataIn, made, lost, host>>

\* A status in between; a full FIFO takes none.
RepeatStatus ==
  /\ Len(ctrlIn) < StatusDepth
  /\ ctrlIn' = Append(ctrlIn, [state |-> mstate, ses |-> mses])
  /\ UNCHANGED <<mstate, mses, nextIndex, expected, dataIn, made, lost, host>>

\* While it transmits: a packet is staged, or lost when there is no room.
Record ==
  /\ mstate = "TX" /\ made < MaxPackets
  /\ made' = made + 1 /\ nextIndex' = FollowingId(nextIndex)
  /\ IF Len(dataIn) < FifoDepth
     THEN /\ dataIn' = Append(dataIn, [id |-> nextIndex, ses |-> mses, n |-> made'])
          /\ UNCHANGED lost
     ELSE lost' = lost \cup {made'} /\ UNCHANGED dataIn
  /\ UNCHANGED <<mstate, mses, expected, ctrlIn, host>>

\* A packet of the host arrives: only the expected id is accepted, and only in RX.
Arrive(id) ==
  expected' = IF mstate = "RX" /\ id = expected THEN FollowingId(expected)
                                                ELSE expected

-----------------------------------------------------------------------------
(* ModemIO.                                                                *)

\* One iteration of run ends; control is polled at the head of every
\* PollInterval-th.
EndIteration ==
  /\ iteration' = (iteration + 1) % PollInterval
  /\ at' = IF iteration' = 0 THEN "poll" ELSE "data"

\* ProtocolCodec::check_sequence: a gap is counted, and the next id follows.
CheckSequence(id) ==
  /\ gaps' = gaps + (IF id = codecExpected THEN 0 ELSE 1)
  /\ codecExpected' = FollowingId(id)

ResetSequence_Kept == codecExpected   \* mutant: the codec is not reset
ResetSequence == 0

ResetTxId_Kept == txPktId   \* mutant: ids go on across a state change
ResetTxId == 0

\* handle_status from the resets on: ids restart if the state changed, and the
\* state is published.
Publish(s) ==
  /\ IF s.state # state
     THEN codecExpected' = ResetSequence /\ gaps' = 0 /\ txPktId' = ResetTxId
     ELSE UNCHANGED ids
  /\ state' = s.state /\ hses' = s.ses

\* Mutant: the end of a TX session is published without draining.
NeedsDrain_No(s) == FALSE
NeedsDrain(s) == state = "TX" /\ s.state # "TX"

DrainBudget_One == 1   \* mutant: the drain ends with its first packet
DrainBudget == DrainCap

\* poll_control with a full status packet, up to the drain if one is due.
PollStatus ==
  /\ at = "poll" /\ ctrlIn # <<>>
  /\ ctrlIn' = Tail(ctrlIn)
  /\ LET s == Head(ctrlIn) IN
     IF NeedsDrain(s)
     THEN /\ at' = "drain" /\ pending' = s /\ left' = DrainBudget
          /\ UNCHANGED <<state, hses, ids>>
     ELSE /\ Publish(s) /\ at' = "data"
          /\ UNCHANGED handling
  /\ UNCHANGED <<mstate, mses, nextIndex, expected, dataIn, made, lost,
                 iteration, outcome, sends>>

\* poll_control with a timeout, a short read or an error.
PollNothing ==
  /\ at = "poll" /\ at' = "data"
  /\ UNCHANGED <<modem, iteration, state, hses, handling, ids, outcome, sends>>

\* Mutant: the drain throws away what it reads.
ToRing_Steady(p) == IF at = "drain" THEN forwarded ELSE Append(forwarded, p)
ToRing(p) == Append(forwarded, p)

\* process_tx_packet on the packet a transfer has brought.
ProcessPacket ==
  /\ dataIn # <<>> /\ dataIn' = Tail(dataIn)
  /\ CheckSequence(Head(dataIn).id)
  /\ forwarded' = ToRing([n |-> Head(dataIn).n, ses |-> Head(dataIn).ses,
                          during |-> hses])

\* receive_tx_data
ReceivePacket ==
  /\ at = "data" /\ state = "TX"
  /\ ProcessPacket /\ EndIteration
  /\ UNCHANGED <<mstate, mses, nextIndex, expected, ctrlIn, made, lost,
                 state, hses, handling, txPktId, misreported, leftovers, sends>>

\* drain_tx_pipeline, one iteration.
DrainPacket ==
  /\ at = "drain" /\ left > 0
  /\ ProcessPacket /\ left' = left - 1
  /\ UNCHANGED <<mstate, mses, nextIndex, expected, ctrlIn, made, lost,
                 at, iteration, state, hses, pending, txPktId, misreported, leftovers, sends>>

Staged == {dataIn[i].n : i \in DOMAIN dataIn}

\* A TIMEOUT that brought a whole packet is no ok(): the packet is not looked at, and
\* a drain ends with it.
LosePacket ==
  /\ dataIn # <<>> /\ dataIn' = Tail(dataIn) /\ misreported' = TRUE
  /\ \/ at = "data" /\ state = "TX" /\ EndIteration /\ UNCHANGED <<left, leftovers>>
     \/ /\ at = "drain" /\ left > 0 /\ left' = 0 /\ leftovers' = leftovers \cup Staged'
        /\ UNCHANGED <<at, iteration>>
  /\ UNCHANGED <<mstate, mses, nextIndex, expected, ctrlIn, made, lost,
                 state, hses, pending, ids, forwarded, sends>>

\* The cap is reached, or a read brings no whole packet: the pipeline is empty, or the
\* transfer failed or was short, which leaves what is staged there.  The rest of
\* handle_status follows either way.
DrainEnd ==
  /\ at = "drain"
  /\ leftovers' = IF left > 0 THEN leftovers \cup Staged ELSE leftovers
  /\ Publish(pending)
  /\ at' = "data" /\ pending' = NoStatus /\ left' = 0
  /\ UNCHANGED <<modem, iteration, forwarded, misreported, sends>>

NextTxId(ok) == IF ok THEN FollowingId(txPktId) ELSE txPktId

\* send_rx_data with a packet to send: the transfer delivers it and reports OK,
\* or fails, or delivers it and reports TIMEOUT.
SendPacket ==
  /\ at = "data" /\ state = "RX" /\ sends < MaxSends
  /\ sends' = sends + 1
  /\ \E ok, delivered \in BOOLEAN :
       /\ ok => delivered
       /\ misreported' = (misreported \/ (delivered /\ ~ok))
       /\ txPktId' = NextTxId(ok)
       /\ IF delivered THEN Arrive(txPktId) ELSE UNCHANGED expected
  /\ EndIteration
  /\ UNCHANGED <<mstate, mses, nextIndex, dataIn, ctrlIn, made, lost,
                 state, hses, handling, codecExpected, gaps, forwarded, leftovers>>

\* No data is transferred: nothing to receive or a failed read, a send held back,
\* or a state without data.
DataNothing ==
  /\ at = "data" /\ EndIteration
  /\ UNCHANGED <<modem, state, hses, handling, ids, outcome, sends>>

\* Any transfer may report that the modem is gone: the thread ends, after the
\* rest of handle_status if the drain was cut.
Disconnect ==
  /\ at # "gone" /\ at' = "gone"
  /\ IF at = "drain" THEN Publish(pending)
     ELSE UNCHANGED <<state, hses, ids>>
  /\ pending' = NoStatus /\ left' = 0
  /\ UNCHANGED <<modem, iteration, outcome, sends>>

-----------------------------------------------------------------------------
Modem == EnterState \/ RepeatStatus \/ Record
ModemIO == PollStatus \/ PollNothing \/ ReceivePacket \/ DrainPacket \/ LosePacket
           \/ DrainEnd \/ SendPacket \/ DataNothing

Next == Modem \/ ModemIO \/ Disconnect

Spec == Init /\ [][Next]_vars

\* The thread runs; in the loop of run, which tries again, transfers do not fail forever
\* when there is something to read.  The drain tries once.
FairSpec == Spec /\ WF_vars(ModemIO) /\ SF_vars(PollStatus) /\ SF_vars(ReceivePacket)

-----------------------------------------------------------------------------
Ids == 0..(Modulus - 1)

\* Every variable keeps the type of what it stands for.
TypeOK ==
  /\ mstate \in ModemState /\ state \in ModemState
  /\ mses \in 1..MaxEntries /\ hses \in 1..mses
  /\ nextIndex \in Ids /\ expected \in Ids /\ txPktId \in Ids /\ codecExpected \in Ids
  /\ dataIn \in Seq([id : Ids, ses : 1..mses, n : 1..made]) /\ Len(dataIn) <= FifoDepth
  /\ ctrlIn \in Seq([state : ModemState, ses : 1..mses])
  /\ misreported \in BOOLEAN /\ leftovers \subseteq 1..made
  /\ made \in 0..MaxPackets /\ lost \subseteq 1..made /\ sends \in 0..MaxSends
  /\ at \in {"poll", "data", "drain", "gone"} /\ iteration \in 0..(PollInterval - 1)
  /\ pending \in [state : ModemState, ses : 0..mses] /\ left \in 0..DrainCap
  /\ gaps \in Nat
  /\ forwarded \in Seq([n : 1..made, ses : 1..mses, during : 1..mses])

Taken == {forwarded[i].n : i \in DOMAIN forwarded}

\* "so the message tail is preserved": a packet the modem did not lose is staged or
\* forwarded.
TailPreserved == Taken \cup Staged \cup lost = 1..made

\* The same, as long as no completed transfer was reported as TIMEOUT; and packets
\* are forwarded once and in the order they were recorded, whatever is reported.
TailKept ==
  /\ ~misreported => TailPreserved
  /\ \A i, j \in DOMAIN forwarded : i < j => forwarded[i].n < forwarded[j].n

\* "leftovers would surface at the head of the next TX session": what is forwarded while
\* a session is published was recorded in it, or was left by a drain that was cut short.
SessionsPure ==
  \A i \in DOMAIN forwarded :
    forwarded[i].ses = forwarded[i].during \/ forwarded[i].n \in leftovers

\* A sequence gap is reported only after a packet was lost or left in the pipeline:
\* restarting the ids, on both sides and at different times, makes none.
NothingMissing == lost = {} /\ ~misreported /\ leftovers = {}
NoFalseGaps == gaps > 0 => ~NothingMissing

\* "a failed send doesn't desync from the modem's expected_id": in an RX session
\* both know of, the host's next id is the one the modem expects.  A send reported
\* as TIMEOUT although it completed leaves the host one behind, never more, and never
\* ahead, where every packet would be refused until the ids wrap.
InSync ==
  mstate = "RX" /\ hses = mses =>
    \/ txPktId = expected
    \/ misreported /\ FollowingId(txPktId) = expected

\* The inductive invariant behind InSync.  The n-th state the modem enters is a
\* function of n; the staged statuses lead from the last one taken to the modem's
\* state without skipping an entry; and while the host is an entry or two behind a
\* modem in RX it sends nothing, so the modem still expects id 0.
StateOf(n) == IF n % 3 = 1 THEN "RX" ELSE IF n % 3 = 2 THEN "TX" ELSE "SETTLING"

SesAt(i) == IF i > 0 THEN ctrlIn[i].ses
            ELSE IF at = "drain" THEN pending.ses ELSE hses

StatusesLead ==
  /\ \A i \in 1..Len(ctrlIn) : /\ ctrlIn[i].state = StateOf(ctrlIn[i].ses)
                               /\ SesAt(i) \in {SesAt(i - 1), SesAt(i - 1) + 1}
  /\ SesAt(Len(ctrlIn)) = mses

NoEntrySkipped ==
  /\ mstate = StateOf(mses) /\ state = StateOf(hses) /\ mses - hses <= Behind
  /\ at = "drain" => pending.state = StateOf(pending.ses) /\ pending.ses = hses + 1
  /\ StatusesLead

RestartAgreed == mstate = "RX" /\ hses < mses => expected = 0

IInv == TypeOK /\ NoEntrySkipped /\ (Behind <= 2 => RestartAgreed /\ InSync)

\* The inductive invariant behind TailKept: what is forwarded, and after it what is
\* staged, is in the order it was recorded.
InOrder ==
  /\ \A i, j \in DOMAIN forwarded : i < j => forwarded[i].n < forwarded[j].n
  /\ \A i, j \in DOMAIN dataIn : i < j => dataIn[i].n < dataIn[j].n
  /\ \A i \in DOMAIN forwarded, j \in DOMAIN dataIn : forwarded[i].n < dataIn[j].n

\* The inductive invariant behind SessionsPure: a staged packet is of a TX session the
\* host has not left, or a leftover.  The drain can take all that is staged when it begins,
\* and a modem at most two entries ahead records nothing during the drain.
StagedIsCurrent ==
  at # "gone" =>
    /\ \A j \in DOMAIN dataIn :
         StateOf(dataIn[j].ses) = "TX" /\ (dataIn[j].ses >= hses \/ dataIn[j].n \in leftovers)
    /\ at = "drain" => state = "TX" /\ (Len(dataIn) <= left \/ Staged \subseteq leftovers)

\* The inductive invariant behind NoFalseGaps: as nothing is lost, the staged packets
\* have the ids the codec will expect one after another, and the modem goes on there.
NextOf(i) == IF i > 0 THEN FollowingId(dataIn[i].id)
             ELSE IF state = "TX" THEN codecExpected ELSE 0

NumberedInTurn ==
  /\ gaps = 0
  /\ at # "gone" =>
       /\ \A i \in 1..Len(dataIn) : dataIn[i].id = NextOf(i - 1)
       /\ mstate = "TX" => nextIndex = NextOf(Len(dataIn))

DataInv ==
  /\ InOrder
  /\ ~misreported => TailPreserved
  /\ Behind <= 2 /\ FifoDepth <= DrainCap =>
       StagedIsCurrent /\ SessionsPure /\ (NothingMissing => NumberedInTurn)

\* What the modem recorded and did not lose reaches tx_ring, unless the modem is gone,
\* a transfer was misreported, or a drain was cut short with the packet still staged.
AllForwarded ==
  \A k \in 1..MaxPackets :
    (made >= k) ~> (k \in Taken \cup lost \cup leftovers \/ at = "gone" \/ misreported)
=============================================================================
