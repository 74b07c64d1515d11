-------------------------- MODULE ArrivalAlignment --------------------------
(***************************************************************************)
(* When a message is heard.  The source's ModemIO keeps a TxStartEstimator *)
(* and its SourceWorker turns the estimate into a gap                      *)
(* (compute_arrival_aligned_gap) out of values it reads one after another  *)
(* while the receiver's ModemIO moves samples from the PairBuffer to       *)
(* rx_ring and on to its modem.  Time is counted in samples and written as *)
(* what lies between a moment and now, so the model needs no clock: a Tick *)
(* ages what is past.  The tracker's estimate is the exact one (RxPacing), *)
(* no send fails, and the worker handles an edge before the next one.      *)
(***************************************************************************)
EXTENDS Integers, Sequences

CONSTANTS
  Propagation,      \* propagation_delay_s
  Packet,           \* samples_per_pkt_, in both directions
  Fill,             \* fill of the receiver's modem up to which it is sent more
  Length,           \* of a message
  MaxAge            \* bound: of a TX session until its host has handled all of it

ASSUME AlignmentAssumption ==
  {Packet, Fill, Length, MaxAge} \subseteq Nat \ {0} /\ Propagation \in Nat

VARIABLES
  transmitting, age,         \* the source's modem, and the age of its TX session
  state,                     \* ModemRuntimeState::state; "entry": handle_status before the store
  arrived, estimate,         \* cumulative_samples_ and the age of tightest_, <<>> when empty
  at, polled, start,         \* SourceWorker: where it is, the ages of its `now` and T_tx_start
  fill, depth,               \* what it has read of the receiver
  ahead, offset, committed,  \* watermark and write_origin past read_pos, the message so far
  queued, transfer, lead,    \* samples in rx_ring, in send_data, and in the receiver's modem
  born, due, excuse, first   \* history of one message, any one, until it is heard: age of its session
                             \* (-1: none), time until it should be heard, known lateness, and
                             \* where its first sample is past read_pos

source   == <<transmitting, age, state, arrived, estimate>>
worker   == <<at, polled, start, fill, depth>>
pair     == <<ahead, offset, committed>>
receiver == <<queued, transfer, lead>>
history  == <<born, due, excuse, first>>
vars == <<source, worker, pair, receiver, history>>

Least(a, b) == IF a <= b THEN a ELSE b

Init ==
  /\ transmitting = FALSE /\ age = 0 /\ state = "RX" /\ arrived = 0 /\ estimate = <<>>
  /\ at = "idle" /\ polled = 0 /\ start = 0 /\ fill = 0 /\ depth = 0
  /\ ahead = 0 /\ offset = 0 /\ committed = 0
  /\ queued = 0 /\ transfer = 0 /\ lead = Packet
  /\ born = -1 /\ due = 0 /\ excuse = 0 /\ first = 0

\* The receiver's modem plays one sample; it is kept supplied.  An estimate is only aged
\* during its session: the next one clears it.
Tick ==
  LET working == at \in {"fill", "depth", "place"} IN
  /\ lead > 0 /\ lead' = lead - 1
  /\ IF transmitting \/ at # "idle" THEN age < MaxAge /\ age' = age + 1 ELSE age' = age
  /\ estimate' = IF estimate = <<>> \/ ~transmitting THEN estimate ELSE <<estimate[1] + 1>>
  /\ polled' = (IF working THEN polled + 1 ELSE polled)
  /\ start' = (IF working THEN start + 1 ELSE start)
  /\ born' = (IF born >= 0 THEN born + 1 ELSE born) /\ due' = (IF born >= 0 THEN due - 1 ELSE due)
  /\ UNCHANGED <<transmitting, state, arrived, at, fill, depth, pair, queued, transfer, excuse, first>>

-----------------------------------------------------------------------------
(* The source's modem and ModemIO.                                         *)

StartsTransmitting ==
  /\ ~transmitting /\ at = "idle" /\ transmitting' = TRUE /\ age' = 0
  /\ UNCHANGED <<state, arrived, estimate, worker, pair, receiver, history>>

\* Mutant: the observation of the previous session survives.
Observation_Kept == estimate
\* tightest_.reset()
Observation == <<>>

\* handle_status up to the store: on_tx_entry.
OnTxEntry ==
  /\ transmitting /\ state = "RX" /\ state' = "entry" /\ arrived' = 0 /\ estimate' = Observation
  /\ UNCHANGED <<transmitting, age, worker, pair, receiver, history>>

PublishTX ==
  /\ state = "entry" /\ state' = "TX"
  /\ UNCHANGED <<transmitting, age, arrived, estimate, worker, pair, receiver, history>>

\* The latest bound so far.
Tightened(bound) == IF estimate = <<>> \/ bound < estimate[1] THEN <<bound>> ELSE estimate

\* process_tx_packet: tx_ring and on_tx_packet, at any time after the samples were made.
ReceivePacket ==
  /\ state = "TX" /\ arrived < Length /\ age >= arrived + Packet
  /\ arrived' = arrived + Packet /\ estimate' = Tightened(arrived')
  /\ UNCHANGED <<transmitting, age, state, worker, pair, receiver, history>>

PublishRX ==
  /\ state = "TX" /\ arrived >= Length /\ at = "feed"
  /\ state' = "RX" /\ transmitting' = FALSE
  /\ UNCHANGED <<age, arrived, estimate, worker, pair, receiver, history>>

-----------------------------------------------------------------------------
(* The source's SourceWorker.                                              *)

\* poll_state_edges: the clock, then the estimate; the clock's time without one.
TxEntry ==
  /\ at = "idle" /\ state = "TX" /\ at' = "fill"
  /\ polled' = 0 /\ start' = IF estimate = <<>> THEN 0 ELSE estimate[1]
  /\ UNCHANGED <<source, fill, depth, pair, receiver, history>>

\* estimated_fill(now): every packet sent so far, played up to the worker's clock.
ReadFill ==
  /\ at = "fill" /\ at' = "depth" /\ fill' = lead + polled
  /\ UNCHANGED <<source, polled, start, depth, pair, receiver, history>>

ReadDepth ==
  /\ at = "depth" /\ at' = "place" /\ depth' = queued
  /\ UNCHANGED <<source, polled, start, fill, pair, receiver, history>>

\* Mutant: what is queued in rx_ring is forgotten.
Gap_NoDepth == (polled - start) + Propagation - ahead - fill
Gap == (polled - start) + Propagation - ahead - depth - fill

\* compute_arrival_aligned_gap and begin_message; a negative gap is a late message.
\* History: what the receiver moved between two of the reads was in neither.  The message
\* is followed until it is heard, or an earlier one still is.
Place ==
  /\ at = "place" /\ at' = "feed"
  /\ offset' = ahead + (IF Gap < 0 THEN 0 ELSE Gap) /\ committed' = 0
  /\ \/ /\ born' = age /\ due' = Propagation - start /\ first' = offset'
        /\ excuse' = (queued + transfer + lead + polled - fill - depth) + (IF Gap < 0 THEN -Gap ELSE 0)
     \/ born >= 0 /\ UNCHANGED history
  /\ polled' = 0 /\ start' = 0 /\ fill' = 0 /\ depth' = 0
  /\ UNCHANGED <<source, ahead, receiver>>

\* process_available: render and commit what has arrived.
Feed ==
  /\ at = "feed" /\ committed < arrived
  /\ committed' = arrived /\ ahead' = offset + arrived
  /\ UNCHANGED <<source, worker, offset, receiver, history>>

TxExit ==
  /\ at = "feed" /\ state = "RX" /\ committed = arrived /\ at' = "idle" /\ age' = 0
  /\ offset' = 0 /\ committed' = 0
  /\ UNCHANGED <<transmitting, state, arrived, estimate, polled, start, fill, depth, ahead, receiver, history>>

-----------------------------------------------------------------------------
(* The receiver's ModemIO: send_rx_data.                                   *)

\* The first sample of the message is among the next ones pulled, and it is played when
\* everything before it is.
Got == Least(Packet, ahead)
HearsFirst == born >= 0 /\ first < Got
HeardIn == queued + transfer + lead + first

\* ReceiverMix::pull, when less than a packet is queued: what is committed, then silence.
Pull ==
  /\ queued < Packet /\ transfer = 0 /\ queued' = queued + Packet
  /\ ahead' = ahead - Got
  /\ offset' = (IF at = "feed" THEN offset - Got ELSE 0)
  /\ IF born < 0 \/ HearsFirst
     THEN born' = -1 /\ due' = 0 /\ excuse' = 0 /\ first' = 0
     ELSE excuse' = excuse + (Packet - Got) /\ first' = first - Got /\ UNCHANGED <<born, due>>
  /\ UNCHANGED <<source, worker, committed, transfer, lead>>

\* A packet is due: it leaves rx_ring ...
Take ==
  /\ queued >= Packet /\ transfer = 0 /\ lead + Packet <= Fill
  /\ queued' = queued - Packet /\ transfer' = Packet
  /\ UNCHANGED <<source, worker, pair, lead, history>>

\* ... and the tracker learns of it when the transfer is complete.
OnPacketSent ==
  /\ transfer > 0 /\ transfer' = 0 /\ lead' = lead + transfer
  /\ UNCHANGED <<source, worker, pair, queued, history>>

-----------------------------------------------------------------------------
Next ==
  \/ Tick \/ StartsTransmitting \/ OnTxEntry \/ PublishTX \/ ReceivePacket \/ PublishRX
  \/ TxEntry \/ ReadFill \/ ReadDepth \/ Place \/ Feed \/ TxExit
  \/ Pull \/ Take \/ OnPacketSent

Spec == Init /\ [][Next]_vars

-----------------------------------------------------------------------------
(* Properties.                                                             *)

\* Every variable keeps the type of what it stands for; a late first commit may leave
\* the origin of the current message behind read_pos.
TypeOK ==
  /\ transmitting \in BOOLEAN /\ age \in Nat /\ state \in {"RX", "entry", "TX"}
  /\ arrived \in Nat /\ estimate \in Seq(Nat) /\ Len(estimate) <= 1
  /\ at \in {"idle", "fill", "depth", "place", "feed"}
  /\ polled \in Nat /\ start \in Nat /\ fill \in Nat /\ depth \in Nat
  /\ ahead \in Nat /\ offset \in Int /\ committed \in Nat
  /\ queued \in Nat /\ transfer \in Nat /\ lead \in Nat
  /\ born \in Int /\ born >= -1 /\ due \in Int /\ excuse \in Nat /\ first \in Int

\* No message is heard before its sound can have travelled from the source, whichever way
\* the worker's reads interleave with both modems' threads.
NeverEarly == HearsFirst => HeardIn + born >= Propagation

\* "the message's first sample plays out at T_tx_start_source + propagation_delay_s", and
\* what it is late by is accounted for: samples the receiver moved while the worker read
\* where they are, silence mixed in before the first commit, and a target already past.
LatenessExplained == HearsFirst => HeardIn = due + excuse

\* The inductive invariant behind both.  An estimate of the session that is published, and
\* the worker's copy of it, is never before the start ...
StartNotBefore ==
  /\ ~transmitting => state = "RX"
  /\ state = "entry" => estimate = <<>>
  /\ state = "TX" /\ estimate # <<>> => estimate[1] <= age
  /\ at \in {"fill", "depth", "place"} => start <= age

\* ... what the worker has read of the receiver is still ahead of the receiver's speaker,
\* because samples move from rx_ring to the modem after the one is read and before ...
ReadIsAhead ==
  /\ at = "depth" => fill <= transfer + lead + polled
  /\ at = "place" => fill + depth <= queued + transfer + lead + polled

\* ... the watermark is where the message so far ends, or before its first sample ...
WatermarkFollows ==
  at = "feed" => IF committed = 0 THEN ahead <= offset ELSE ahead = offset + committed

\* ... and where the followed message is, is when it is due and what it is late by.
Followed ==
  born >= 0 => HeardIn = due + excuse /\ born + due >= Propagation

IInv == TypeOK /\ StartNotBefore /\ ReadIsAhead /\ WatermarkFollows /\ Followed

\* tx_start_estimator.hpp: the estimate approaches the true start "from below".
EstimateFromBelow == (state = "TX" /\ estimate # <<>>) => estimate[1] >= age
=============================================================================
