------------------------------ MODULE RxPacing ------------------------------
(***************************************************************************)
(* How ModemIO paces the packets it sends to a receiving modem: send_rx_data*)
(* and the tracker's part of handle_status (io/modem_io.cpp) with the      *)
(* ClockFillTracker (io/clock_fill_tracker.cpp), against a modem that      *)
(* drains one sample per tick, drops what does not fit and reports its     *)
(* fill with every packet it accepts.                                      *)
(* Times are kept as ages, so that the clock needs no bound: `age` is      *)
(* now - anchor_time_ and `due` is next_send_time_ - now. The send-time     *)
(* ring is kept newest entry first: an entry's place tells what has been   *)
(* sent since.                                                             *)
(***************************************************************************)
EXTENDS Integers, Sequences

CONSTANTS
  P, Capacity,              \* samples_per_packet, buffer_capacity
  Target, Low, High,        \* target_fill_samples_, hyst_low_samples_, hyst_high_samples_
  Period, Burst,            \* ticks per packet at the nominal and at the burst rate
  Keepalive, Catchup,       \* KEEPALIVE_INTERVAL, MAX_CATCHUP_SLOTS
  Ring, Ids,                \* RING_CAPACITY, packet ids (2^16)
  Unit, Rates,              \* rates are in samples per Unit ticks; the nominal one is Unit
  EntryFills,               \* what the modem may hold when it starts to receive
  Latency,                  \* assumption: ticks until a status is handled
  MaxPending, MaxAge,       \* bounds: statuses under way, age of an anchor (then the
                            \* modem is thought empty)
  MaxEntryAge,              \* bound: beyond Latency, no status names an entry as old
  MaxFaults                 \* bound: transfers that go wrong

ASSUME PacingAssumption ==
  /\ {P, Capacity, Target, Period, Burst, Keepalive, Ring, Ids, Unit} \subseteq Nat \ {0}
  /\ {Low, High, Catchup, Latency, MaxPending, MaxAge, MaxFaults} \subseteq Nat
  /\ MaxEntryAge \in (Latency + 1)..MaxAge
  /\ P = Period /\ Burst <= Period /\ Ring < Ids /\ Target < Capacity
  /\ EntryFills \subseteq 0..Capacity /\ Unit \in Rates /\ Rates \subseteq Nat \ {0}

VARIABLES
  modem,      \* the modem: its state, fill and next expected id
  statuses,   \* status packets on their way to the host
  state,      \* ModemRuntimeState::state
  txId,       \* tx_pkt_id_
  sending,    \* send_data is in progress
  t,          \* the ClockFillTracker
  faults,     \* transfers that went wrong
  \* history
  exact,      \* nothing lost, refused or played from an empty buffer since the anchor
  dated,      \* the anchor has the send time of the packet its status named
  biased,     \* the modem ran dry, or a rate came from an anchor that is not dated
  atOnce      \* sends begun in this session since the last tick

host == <<state, txId, sending, t>>
vars == <<modem, statuses, host, faults, exact, dated, biased, atOnce>>

Clamp(x, lo, hi) == IF x < lo THEN lo ELSE IF x > hi THEN hi ELSE x
NextId(id) == (id + 1) % Ids

\* A tracker with no anchor, no schedule and nothing sent.
Blank(rate) ==
  [has |-> FALSE, fill |-> 0, age |-> 0, sent |-> 0, fallback |-> FALSE, skip |-> TRUE,
   prev |-> -1, ring |-> <<>>, rate |-> rate, sched |-> FALSE, due |-> 0, since |-> 0,
   holding |-> FALSE]

Reset_KeepRing(u) == [Blank(u.rate) EXCEPT !.ring = u.ring]   \* mutant: the ring stays
\* reset: the smoothed rate is the modem's and outlives the session.
Reset(u) == Blank(u.rate)

\* Simulator::run bootstraps the state to RX; no status has come yet.
Init ==
  /\ modem \in [state : {"RX"}, fill : EntryFills, expected : {0}]
  /\ statuses = <<>> /\ state = "RX" /\ txId = 0 /\ sending = FALSE
  /\ t = Blank(Unit)
  /\ faults = 0 /\ exact = FALSE /\ dated = FALSE /\ biased = FALSE /\ atOnce = 0

-----------------------------------------------------------------------------
(* ClockFillTracker.                                                       *)

\* samples the modem is thought to have played in n ticks, rounded
Consumed(u, n) == (2 * n * u.rate + Unit) \div (2 * Unit)

Estimate(u) ==   \* extrapolated_fill
  IF u.has THEN Clamp(u.fill + u.sent - Consumed(u, u.age), 0, Capacity) ELSE Target

\* find_entry
Found(u, id) == {i \in DOMAIN u.ring : u.ring[i].id = id}

\* Anchor at the send time of the packet the status names, or at its arrival.
Anchored(u, st) ==
  IF Found(u, st.ref) # {}
  THEN LET i == CHOOSE i \in Found(u, st.ref) : TRUE IN
       [u EXCEPT !.has = TRUE, !.fill = st.fill, !.age = u.ring[i].age,
                 !.sent = (i - 1) * P, !.fallback = FALSE]
  ELSE [u EXCEPT !.has = TRUE, !.fill = st.fill, !.age = 0, !.sent = 0,
                 !.fallback = TRUE, !.skip = TRUE]

\* Mutant: what the host sent counts as played, accepted or not.
Played_Sent(u, v, st) == u.sent - v.sent - (v.fill - u.fill)
\* samples the modem accepted between the anchors u and v, less what it still holds
Played(u, v, st) == ((st.expected - u.prev) % Ids) * P - (v.fill - u.fill)

\* The rates on_status may arrive at: the EWMA lies between the old rate and the
\* observed one, which counts if it is within (0.5, 2) of the nominal rate.
Infers(u, v, st) ==
  /\ u.has /\ u.prev # -1 /\ ~v.skip /\ u.age > v.age /\ st.expected # u.prev
  /\ u.age - v.age < 2 * Played(u, v, st) /\ Played(u, v, st) < 2 * (u.age - v.age)

NewRates(u, v, st) ==
  LET seen == Played(u, v, st) * Unit
      dt   == u.age - v.age
  IN IF Infers(u, v, st)
     THEN {r \in Rates : \/ u.rate * dt <= r * dt /\ r * dt <= seen
                         \/ seen <= r * dt /\ r * dt <= u.rate * dt}
     ELSE {u.rate}

\* on_status ends by clearing the skip flag, also the one it has just set.
StatusTaken(u, st, r) ==
  [Anchored(u, st) EXCEPT !.rate = r, !.prev = st.expected, !.skip = FALSE]

\* on_packet_sent: the newest entry takes the place of the oldest.
Sent(u, id) ==
  LET all == <<[id |-> id, age |-> 0]>> \o u.ring
  IN [u EXCEPT !.sent = @ + P,
               !.ring = SubSeq(all, 1, IF Len(all) > Ring THEN Ring ELSE Len(all))]

Abs(x) == IF x < 0 THEN -x ELSE x

\* The fill should_send decides on: the anchor's, if the extrapolation is far off it.
Effective(u) ==
  IF u.has /\ Abs(Estimate(u) - u.fill) > Target \div 2 THEN u.fill ELSE Estimate(u)

Holds_Never(u) == FALSE   \* mutant: no hysteresis
Holds(u) ==
  IF u.holding THEN ~(Effective(u) < Target) ELSE Effective(u) > Target + High

KeepaliveDue_Never(u) == FALSE   \* mutant: nothing at all is sent while holding
KeepaliveDue(u) == u.since >= Keepalive

Rescheduled_Unbounded(due, period) == due + period   \* mutant: every missed slot is made up for
Rescheduled(due, period) ==
  IF -(due + period) > Catchup * period THEN period ELSE due + period

\* should_send: the tracker after the call; it says yes iff `go`.
Scheduled(u) == IF u.sched THEN u ELSE [u EXCEPT !.sched = TRUE, !.due = 0, !.since = 0]
Go(u) == IF Holds(u) THEN KeepaliveDue(u) ELSE u.due <= 0
SlotPeriod(u) == IF Estimate(u) < Target - Low THEN Burst ELSE Period
Decided(u) ==
  LET v == [u EXCEPT !.holding = Holds(u)] IN
  IF ~Go(u) THEN v
  ELSE IF Holds(u) THEN [v EXCEPT !.since = 0]
  ELSE [v EXCEPT !.since = 0, !.due = Rescheduled(u.due, SlotPeriod(u))]

-----------------------------------------------------------------------------
(* The modem: modelled from the tracker's and handle_status's account.     *)

Tainted(q) == [i \in DOMAIN q |-> [q[i] EXCEPT !.pure = FALSE]]
Report(q, m, ref, own) ==
  Append(q, [state |-> m.state, fill |-> m.fill, expected |-> m.expected, ref |-> ref,
             pure |-> TRUE, own |-> own, wait |-> 0])

Waited(q) == [i \in DOMAIN q |-> [q[i] EXCEPT !.wait = @ + 1]]

\* Any id but the expected one is refused ("cause host tx_pkt_id_ to diverge and the modem
\* to reject"), and so is what does not fit.
Accepts == modem.state = "RX" /\ txId = modem.expected /\ modem.fill + P <= Capacity

\* The modem stops receiving; it starts again, its counters at zero and no packet to
\* name, when the host has seen that: transmissions outlast the host's poll.
ModemLeaves ==
  /\ modem.state = "RX" /\ Len(statuses) < MaxPending
  /\ modem' = [state |-> "TX", fill |-> 0, expected |-> 0]
  /\ statuses' = Report(Tainted(statuses), modem', Ids - 1, TRUE)
  /\ exact' = FALSE
  /\ UNCHANGED <<host, faults, dated, biased, atOnce>>

ModemReceives ==
  /\ modem.state = "TX" /\ state = "TX" /\ statuses = <<>>
  /\ modem' \in [state : {"RX"}, fill : EntryFills, expected : {0}]
  /\ statuses' = Report(statuses, modem', Ids - 1, TRUE)
  /\ UNCHANGED <<host, faults, exact, dated, biased, atOnce>>

-----------------------------------------------------------------------------
(* Time.                                                                   *)

Aged(u) ==
  [u EXCEPT !.age = IF u.has THEN Clamp(u.age + 1, 0, MaxAge) ELSE 0,
            !.ring = [i \in DOMAIN u.ring |->
                        [id |-> u.ring[i].id, age |-> Clamp(u.ring[i].age + 1, 0, MaxEntryAge)]],
            !.due = IF u.sched THEN Clamp(u.due - 1, -((Catchup + 1) * Period + 1), u.due) ELSE 0,
            !.since = IF u.sched THEN Clamp(u.since + 1, 0, Keepalive) ELSE 0]

Starves == modem.state = "RX" /\ modem.fill = 0

Tick ==
  /\ \A i \in DOMAIN statuses : statuses[i].wait < Latency
  /\ modem' = [modem EXCEPT !.fill = Clamp(@ - 1, 0, Capacity)]
  /\ statuses' = Waited(IF Starves THEN Tainted(statuses) ELSE statuses)
  /\ t' = Aged(t)
  /\ exact' = (exact /\ ~Starves) /\ biased' = (biased \/ Starves)
  /\ atOnce' = 0
  /\ UNCHANGED <<state, txId, sending, faults, dated>>

-----------------------------------------------------------------------------
(* ModemIO.                                                                *)

\* send_rx_data up to send_data; the samples are taken from rx_ring, sent or not.
SendRx ==
  /\ state = "RX" /\ ~sending /\ Len(statuses) < MaxPending
  /\ LET u == Scheduled(t) IN
     /\ t' = Decided(u)
     /\ sending' = Go(u)
     /\ atOnce' = IF Go(u) THEN atOnce + 1 ELSE atOnce
  /\ UNCHANGED <<modem, statuses, state, txId, faults, exact, dated, biased>>

\* send_data returns: the modem has taken the packet or not, and the transfer is
\* reported ok or not; only a reported one advances tx_pkt_id_ and is remembered.
Transfer(taken, ok) ==
  /\ sending /\ sending' = FALSE
  /\ taken => Accepts
  /\ faults' = faults + (IF ok /\ taken = Accepts THEN 0 ELSE 1)
  /\ faults' <= MaxFaults
  /\ modem' = IF taken
              THEN [modem EXCEPT !.fill = @ + P, !.expected = NextId(@)] ELSE modem
  /\ LET q == IF taken THEN Report(statuses, modem', txId, ok) ELSE statuses IN
     statuses' = IF taken = ok THEN q ELSE Tainted(q)
  /\ IF ok THEN t' = Sent(t, txId) /\ txId' = NextId(txId) ELSE UNCHANGED <<t, txId>>
  /\ exact' = (exact /\ taken = ok)
  /\ UNCHANGED <<state, dated, biased, atOnce>>

SendReturns == \E taken, ok \in BOOLEAN : Transfer(taken, ok)

\* poll_control and handle_status, the tracker's part.
PollStatus ==
  /\ ~sending /\ statuses # <<>>
  /\ LET st == Head(statuses)
         u  == IF st.state # state THEN Reset(t) ELSE t
         v  == Anchored(u, st)
     IN /\ state' = st.state
        /\ txId' = IF st.state # state THEN 0 ELSE txId
        /\ IF st.state = "RX"
           THEN /\ \E r \in NewRates(u, v, st) : t' = StatusTaken(u, st, r)
                /\ exact' = (st.pure /\ ~v.fallback)
                /\ dated' = (st.own /\ ~v.fallback)
                /\ biased' = (biased \/ (Infers(u, v, st) /\ ~(dated /\ dated')))
           ELSE /\ t' = u /\ exact' = FALSE /\ dated' = FALSE
                /\ biased' = (t.rate # Unit)
        /\ atOnce' = IF st.state # state THEN 0 ELSE atOnce
  /\ statuses' = Tail(statuses)
  /\ UNCHANGED <<modem, sending, faults>>

-----------------------------------------------------------------------------
Io == SendRx \/ SendReturns \/ PollStatus
Next == Tick \/ ModemLeaves \/ ModemReceives \/ Io

Spec == Init /\ [][Next]_vars

\* The clock goes on and the I/O thread is scheduled; the modem need not change state.
FairSpec == Spec /\ WF_vars(Tick) /\ WF_vars(Io)

-----------------------------------------------------------------------------
ModemState == [state : {"RX", "TX"}, fill : 0..Capacity, expected : 0..(Ids - 1)]
Status == [state : {"RX", "TX"}, fill : 0..Capacity, expected : 0..(Ids - 1),
           ref : 0..(Ids - 1), pure : BOOLEAN, own : BOOLEAN, wait : 0..Latency]
Entry == [id : 0..(Ids - 1), age : 0..MaxEntryAge]
Tracker == [has : BOOLEAN, fill : 0..Capacity, age : 0..MaxAge, sent : Nat, fallback : BOOLEAN,
            skip : BOOLEAN, prev : -1..(Ids - 1), ring : Seq(Entry), rate : Rates,
            sched : BOOLEAN, due : Int, since : 0..Keepalive, holding : BOOLEAN]

\* Every variable keeps the type of the field it stands for.
TypeOK ==
  /\ modem \in ModemState /\ statuses \in Seq(Status)
  /\ state \in {"RX", "TX"} /\ txId \in 0..(Ids - 1) /\ sending \in BOOLEAN
  /\ t \in Tracker /\ Len(t.ring) <= Ring
  /\ faults \in Nat /\ atOnce \in Nat
  /\ exact \in BOOLEAN /\ dated \in BOOLEAN /\ biased \in BOOLEAN

\* The extrapolation is exact: as long as every packet sent since the anchor was
\* accepted and the modem never ran dry, the estimate is what the modem holds,
\* however late the status came and whatever packet it named; in particular an anchor
\* never rests on an entry of an earlier session or of another packet with its id.
EstimateExact == exact /\ t.rate = Unit => Estimate(t) = modem.fill

\* "Bounded catch-up after an I/O stall": however long the thread was held up, it
\* makes up for MAX_CATCHUP_SLOTS nominal slots at most, be it at the burst rate.
CatchUpBounded == atOnce <= 2 + (Catchup * Period) \div Burst

\* The inductive invariant behind these two.  Statuses of different sessions do not mix: one
\* that names a change of the modem's state is alone behind those of the session before ...
Pending == Len(statuses)
SessionsInTurn ==
  /\ sending \/ exact => state = "RX"
  /\ exact => modem.state = "RX"
  /\ modem.state = "RX" /\ state = "RX" =>
       /\ \A j \in DOMAIN statuses : statuses[j].state = "RX"
       /\ Pending <= MaxPending /\ (sending => Pending < MaxPending)
  /\ modem.state = "RX" /\ state = "TX" => Pending = 1 /\ statuses[1].state = "RX"
  /\ modem.state = "TX" =>
       \/ statuses = <<>> /\ state = "TX"
       \/ /\ statuses # <<>> /\ statuses[Pending].state = "TX"
          /\ \A j \in 1..(Pending - 1) : statuses[j].state = "RX" /\ ~statuses[j].pure

\* ... the ring holds the packets sent last, in the order of their ids ...
SentBefore(id, n) == IF n <= id THEN id - n ELSE (id - n) + Ids
RingInOrder == \A i \in DOMAIN t.ring : t.ring[i].id = SentBefore(txId, i)

\* ... a status that nothing has gone wrong behind names the packet that as many were sent
\* after as are reported after it, and with them makes up what the modem holds ...
ReportsInStep ==
  modem.state = "RX" /\ state = "RX" =>
    \A j \in DOMAIN statuses : statuses[j].pure =>
      LET st == statuses[j]  later == Pending - j IN
      /\ st.ref = SentBefore(txId, later + 1)
      /\ modem.fill = (st.fill + later * P) - st.wait
      /\ later + 1 \in DOMAIN t.ring => t.ring[later + 1].age = st.wait

\* ... and so does an exact anchor with the packets sent since, all still to be reported; it
\* is renewed before its age reaches its bound.
AnchorInStep ==
  exact => /\ t.has /\ t.sent = Pending * P /\ modem.fill = (t.fill + t.sent) - t.age
           /\ statuses # <<>> => t.age <= Capacity + statuses[1].wait

\* ... nor has the host been told of a packet the modem did not take: both go on with the
\* same id, as they do when the modem has just begun to receive.
IdsInStep ==
  modem.state = "RX" =>
    IF state = "RX" THEN exact \/ (\E j \in DOMAIN statuses : statuses[j].pure)
                           => txId = modem.expected
                    ELSE modem.expected = 0

\* The schedule falls behind by what the catch-up lets it; every send of one moment brings
\* it a slot nearer, and a keepalive comes only when all of it is given up.
Behind == (Catchup + 1) * Period
Paced ==
  /\ t.sched => t.due >= -(Behind + 1) /\ (t.due <= Period - t.since \/ t.due = -(Behind + 1))
  /\ atOnce > 0 => /\ t.sched /\ t.since = 0
                   /\ \/ t.due > 0
                      \/ t.due >= (atOnce - 1) * Burst - Catchup * Period
                      \/ atOnce = 1 /\ t.due < -Behind

\* The model's bounds do not show: ids do not repeat among the statuses under way, and an
\* anchor is renewed or the modem dry before MaxAge.
BoundsAreWide == MaxPending <= Ids /\ Latency <= Capacity /\ Capacity + Latency <= MaxAge

\* 50 ms against 3 + 2 slots of half a millisecond.
KeepaliveIsRare == Keepalive > (Catchup + 2) * Period

IInv ==
  /\ TypeOK /\ SessionsInTurn /\ RingInOrder
  /\ BoundsAreWide => ReportsInStep /\ AnchorInStep
  /\ KeepaliveIsRare => Paced /\ CatchUpBounded
  /\ IdsInStep

\* A host whose estimate is exact never sends into a full buffer, bursts, catch-up
\* and keepalives included.
NeverRefused ==
  sending /\ exact /\ t.rate = Unit /\ modem.state = "RX" => Accepts

\* "otherwise dropped packets would bias the observed rate": packets reported sent that the
\* modem did not take, and sends reported failed that it did, never move the smoothed rate
\* off the true one.
DropsDoNotBias == ~biased => t.rate = Unit

\* Above the level that holds there is room for what may be under way, and a keepalive
\* finds two packets played since the last one: 50 ms, and half the buffer.
RoomIsEnough == Target + High + MaxPending * P <= Capacity /\ 2 * P <= Keepalive /\ 2 * P <= Capacity

\* A host that transmits has a blank tracker, and hears next that the modem receives; no
\* status is counted from before there is an anchor.
AtRest ==
  /\ state = "TX" => /\ ~t.sched /\ t.since = 0 /\ t.prev = -1
                     /\ \A j \in DOMAIN statuses : j > 1 => statuses[j].state = "TX"
  /\ t.prev # -1 => t.has

\* The inductive invariant behind NeverRefused.  Since the last decision to send the modem
\* has played, and taken that one packet.
Drained ==
  modem.fill <= (IF t.since < Capacity THEN Capacity - t.since ELSE 0) + (IF sending THEN 0 ELSE P)

\* Packet ids do not come round while a status is under way: 65536 of them.
PerMoment == 2 + (Catchup * Period) \div Burst
IdsAreMany == (Latency + 1) * PerMoment + 2 <= Ids

\* The inductive invariant behind DropsDoNotBias.  Each report of a session counts one packet
\* more than the one before, the first one that was handled last, and so do their fills and
\* the modem's, less what was played in between ...
Counted(st, expected, fill, age, known) ==
  /\ st.expected = NextId(expected)
  /\ known => st.fill = (fill + P) - (age - st.wait)

ReportsCount ==
  /\ \A j \in DOMAIN statuses : statuses[j].state = "RX" =>
       /\ state = "RX" => statuses[j].fill >= P
       /\ j > 1 => Counted(statuses[j], statuses[j - 1].expected, statuses[j - 1].fill,
                           statuses[j - 1].wait, TRUE)
       /\ j = 1 /\ t.prev # -1 => Counted(statuses[j], t.prev, t.fill, t.age, dated)
  /\ modem.state = "RX" =>
       IF Pending > 0
       THEN /\ modem.expected = statuses[Pending].expected
            /\ modem.fill = statuses[Pending].fill - statuses[Pending].wait
       ELSE t.prev # -1 => modem.expected = t.prev /\ (dated => modem.fill = t.fill - t.age)

\* ... and a status of a packet that was reported sent names it by its place in the ring,
\* where its age is the status's, if it is still there.
OwnInRing ==
  state = "RX" => \A j \in DOMAIN statuses : statuses[j].state = "RX" /\ statuses[j].own =>
    \E n \in 0..(Ids - 1) :
      /\ n + (IF sending THEN 1 ELSE 0) <= statuses[j].wait * PerMoment + atOnce + 1
      /\ statuses[j].ref = SentBefore(txId, n + 1)
      /\ n + 1 \in DOMAIN t.ring => t.ring[n + 1].age = statuses[j].wait

FlowInv ==
  /\ AtRest /\ Drained
  /\ BoundsAreWide /\ RoomIsEnough => NeverRefused
  /\ BoundsAreWide /\ KeepaliveIsRare /\ IdsAreMany =>
       OwnInRing /\ (~biased => ReportsCount /\ t.rate = Unit)

\* "the following rate inference is skipped because anchor times mix host-send and
\* status-arrival epochs": no rate is inferred from an anchor dated by its arrival.
FallbackNotInferred ==
  [][t.fallback /\ t'.prev # -1 => t'.rate = t.rate]_vars

\* A packet was reported sent that the modem did not take, and the host's ids are ahead of
\* the one it expects: it refuses every packet until they have come round.  A host one
\* behind is back in step with its next packet.
Ahead == /\ modem.state = "RX" /\ state = "RX"
         /\ txId # modem.expected /\ NextId(txId) # modem.expected

\* "The keepalive trickle below is what breaks the deadlock": a host that holds sends
\* again, as far as the modem takes what it sends.
HoldEnds == t.holding ~> (~t.holding \/ Ahead)
=============================================================================
