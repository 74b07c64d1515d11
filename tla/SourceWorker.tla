---------------------------- MODULE SourceWorker ----------------------------
(***************************************************************************)
(* One source modem's path into a receiver: its ModemIO thread publishes   *)
(* the modem's state and writes received packets to tx_ring                *)
(* (io/modem_io.cpp), its SourceWorker thread polls that state, turns its  *)
(* edges into messages and renders the samples (channel/source_worker.cpp),*)
(* and the process may be asked to stop at any time.                       *)
(* tx_ring is the bounded queue SPSCRingBuffer implements, so a read or a  *)
(* write of it is one step; the PairBuffer is reduced to its origin, its   *)
(* progress and its watermark.  One outgoing channel stands for all: every *)
(* channel gets the same calls with the same samples.                      *)
(***************************************************************************)
EXTENDS Integers, Sequences

CONSTANTS RingCapacity,   \* tx_ring's capacity
          PacketSize,     \* samples of one data packet
          MaxBatch,       \* raw_buf_.size(): samples of one process_available
          DrainLength,    \* samples on_message_end renders from zeros (filter tails)
          TailLength,     \* max_tap_delta_samples_, exposed by commit_extra
          BaseDelay,      \* base_delay_samples_ of the PairBuffer
          Gaps,           \* gaps arrival alignment may ask for
          Aligned,        \* TRUE: clock tracker wired; FALSE: PID build
          MaxSessions,    \* bound: TX sessions of the modem
          MaxSamples      \* bound: samples received from the modem

ASSUME WorkerAssumption ==
  /\ RingCapacity \in Nat \ {0} /\ PacketSize \in Nat \ {0} /\ MaxBatch \in Nat \ {0}
  /\ DrainLength \in Nat /\ TailLength \in Nat /\ BaseDelay \in Nat /\ Gaps \subseteq Nat
  /\ Aligned \in BOOLEAN /\ MaxSessions \in Nat /\ MaxSamples \in Nat

VARIABLES
  \* shared by the threads
  state,        \* ModemRuntimeState::state
  txRing,       \* samples in tx_ring, each [id, ses]
  running,      \* SourceWorker::running_
  \* ModemIO
  session,      \* TX sessions published
  received,     \* samples accepted by tx_ring
  \* SourceWorker
  at,           \* where its thread is
  final,        \* the poll in progress is the one after the loop
  polled,       \* the state poll_state_edges loaded
  lastState,    \* last_state_
  consumed,     \* samples_consumed_
  startSamples, active,       \* current_msg_start_samples_, current_msg_active_
  \* Channel and PairBuffer
  open,         \* a message is begun and not ended
  messages,     \* messages begun
  firstMessage, origin, processed, watermark,
  \* history
  began,        \* the session the last message was begun in
  rendered,     \* samples rendered, each [msg, own, id, ses]: the message and its
                \* session, both 0 outside a message, and the sample
  events        \* sample_count of each MessageEvent recorded

io      == <<session, received>>
channel == <<open, messages, began, firstMessage, origin, processed, watermark>>
record  == <<startSamples, active, events>>
vars == <<state, txRing, running, io, at, final, polled, lastState, consumed,
          record, channel, rendered>>

ModemState == {"IDLE", "RX", "TX", "SETTLING"}
Least(a, b) == IF a < b THEN a ELSE b
Greatest(a, b) == IF a < b THEN b ELSE a

Init ==
  /\ state = "RX"            \* Simulator enters HIL mode before the threads start
  /\ txRing = <<>> /\ running = TRUE
  /\ session = 0 /\ received = 0
  /\ at = "top" /\ final = FALSE /\ polled = "IDLE" /\ lastState = "IDLE"
  /\ consumed = 0 /\ startSamples = 0 /\ active = FALSE /\ events = <<>>
  /\ open = FALSE /\ messages = 0 /\ began = 0 /\ firstMessage = TRUE
  /\ origin = 0 /\ processed = 0 /\ watermark = 0
  /\ rendered = <<>>

-----------------------------------------------------------------------------
(* ModemIO.  It does not wait for the worker: a session may begin, end or   *)
(* be followed by the next while the worker is anywhere.                   *)

\* handle_status with a change to TX.
PublishTX ==
  /\ state # "TX" /\ session < MaxSessions
  /\ state' = "TX" /\ session' = session + 1
  /\ UNCHANGED <<txRing, running, received, at, final, polled, lastState, consumed,
                 record, channel, rendered>>

Room == RingCapacity - Len(txRing)

\* process_tx_packet, in the steady state and in drain_tx_pipeline, which runs
\* before the state that ends the session is published; a full ring drops the rest.
ReceivePacket ==
  /\ state = "TX"
  /\ received + PacketSize <= MaxSamples
  /\ LET n == Least(PacketSize, Room) IN
     /\ txRing' = txRing \o [i \in 1..n |-> [id |-> received + i, ses |-> session]]
     /\ received' = received + n
  /\ UNCHANGED <<state, running, session, at, final, polled, lastState, consumed,
                 record, channel, rendered>>

\* handle_status with a change to a state without transmission.
PublishOther(s) ==
  /\ s # state /\ s # "TX"
  /\ state' = s
  /\ UNCHANGED <<txRing, running, io, at, final, polled, lastState, consumed,
                 record, channel, rendered>>

\* ChannelEngine::stop; it may come while ModemIO still runs.
Stop ==
  /\ running /\ running' = FALSE
  /\ UNCHANGED <<state, txRing, io, at, final, polled, lastState, consumed,
                 record, channel, rendered>>

-----------------------------------------------------------------------------
(* The worker.                                                             *)

\* The head of run's loop: one more turn, or the last poll.
LoopTop ==
  /\ at = "top"
  /\ final' = ~running
  /\ at' = "poll"
  /\ UNCHANGED <<state, txRing, running, io, polled, lastState, consumed,
                 record, channel, rendered>>

AfterPoll == IF final THEN "flush" ELSE "check"

\* Mutant: every message begins at the receiver's time zero again.
NextOrigin_Reset(gap) == gap
NextOrigin(gap) == IF firstMessage /\ ~Aligned THEN BaseDelay ELSE watermark + gap

\* poll_state_edges, TX entry: Channel::on_message_start on every channel, then
\* the message record is opened.
BeginMessage(gap) ==
  /\ open' = TRUE /\ messages' = messages + 1 /\ began' = session
  /\ firstMessage' = FALSE
  /\ origin' = NextOrigin(gap) /\ processed' = 0
  /\ startSamples' = consumed /\ active' = TRUE
  /\ UNCHANGED <<watermark, events>>

TxEntry == state = "TX" /\ lastState # "TX"
TxExit  == state # "TX" /\ lastState = "TX"

\* poll_state_edges up to its branches, with the TX-entry branch.
Poll ==
  /\ at = "poll"
  /\ polled' = state
  /\ \/ /\ TxEntry
        /\ \E gap \in (IF Aligned THEN Gaps ELSE {0}) : BeginMessage(gap)
        /\ lastState' = state /\ at' = AfterPoll
     \/ /\ TxExit
        /\ at' = "drain"
        /\ UNCHANGED <<lastState, channel, record>>
     \/ /\ ~TxEntry /\ ~TxExit
        /\ lastState' = state /\ at' = AfterPoll
        /\ UNCHANGED <<channel, record>>
  /\ UNCHANGED <<state, txRing, running, io, final, consumed, rendered>>

CurrentMessage == IF open THEN messages ELSE 0

Unread_Cleared(n) == <<>>   \* mutant: reading a batch empties the ring
Unread(n) == SubSeq(txRing, n + 1, Len(txRing))

\* process_available: read a batch, render it, commit it.  Samples are rendered
\* one for one (no Doppler); the residual is always empty afterwards.
ProcessAvailable ==
  LET n == Least(MaxBatch, Len(txRing)) IN
     /\ n > 0
     /\ rendered' = rendered \o
          [i \in 1..n |-> [msg |-> CurrentMessage, own |-> IF open THEN began ELSE 0,
                           id |-> txRing[i].id, ses |-> txRing[i].ses]]
     /\ txRing' = Unread(n)
     /\ consumed' = consumed + n
     /\ processed' = processed + n
     /\ watermark' = Greatest(watermark, origin + processed')
     /\ UNCHANGED <<open, messages, began, firstMessage, origin>>

\* Mutant: the samples still in tx_ring at the end are left there.
Drained_Early == TRUE
Drained == txRing = <<>>

\* on_message_end on every channel: drain the filters, then expose the last echo.
EndChannel ==
  /\ open' = FALSE
  /\ processed' = processed + DrainLength
  /\ watermark' = Greatest(watermark, origin + processed') + TailLength
  /\ UNCHANGED <<messages, began, firstMessage, origin>>

\* poll_state_edges, TX exit: read tx_ring empty, end the message, record it.
DrainTail ==
  /\ at = "drain" /\ ProcessAvailable
  /\ UNCHANGED <<state, running, io, at, final, polled, lastState, record>>

SampleCount == consumed - startSamples

EndMessage ==
  /\ at = "drain" /\ Drained
  /\ EndChannel
  /\ IF active THEN events' = Append(events, SampleCount) ELSE UNCHANGED events
  /\ active' = FALSE
  /\ lastState' = polled /\ at' = AfterPoll
  /\ UNCHANGED <<state, txRing, running, io, final, polled, consumed, startSamples,
                 rendered>>

\* The second load of the state in run: process only while transmitting.
Check ==
  /\ at = "check"
  /\ at' = IF state = "TX" THEN "feed" ELSE "top"
  /\ UNCHANGED <<state, txRing, running, io, final, polled, lastState, consumed,
                 record, channel, rendered>>

\* process_available, or the idle sleep when tx_ring is empty.
Feed ==
  /\ at = "feed"
  /\ at' = "top"
  /\ \/ ProcessAvailable
     \/ txRing = <<>> /\ UNCHANGED <<txRing, consumed, channel, rendered>>
  /\ UNCHANGED <<state, running, io, final, polled, lastState, record>>

NeedsFlush_Never == FALSE   \* mutant: no TX exit is synthesized at shutdown
NeedsFlush == lastState = "TX"

\* After the loop: synthesize the TX exit of a message still open.
FlushTail ==
  /\ at = "flush" /\ NeedsFlush /\ ProcessAvailable
  /\ UNCHANGED <<state, running, io, at, final, polled, lastState, record>>

Finish ==
  /\ at = "flush"
  /\ \/ NeedsFlush /\ txRing = <<>> /\ EndChannel /\ lastState' = "IDLE"
     \/ ~NeedsFlush /\ UNCHANGED <<channel, lastState>>
  /\ at' = "done"
  /\ UNCHANGED <<state, txRing, running, io, final, polled, consumed, record, rendered>>

-----------------------------------------------------------------------------
Worker == LoopTop \/ Poll \/ DrainTail \/ EndMessage \/ Check \/ Feed
          \/ FlushTail \/ Finish

ModemIO == PublishTX \/ ReceivePacket \/ \E s \in ModemState : PublishOther(s)

Next == Worker \/ ModemIO \/ Stop

Spec == Init /\ [][Next]_vars
FairSpec == Spec /\ WF_vars(Worker)

-----------------------------------------------------------------------------
Sample == [id : 1..MaxSamples, ses : 1..MaxSessions]

\* Every variable keeps the type of the field it stands for.
TypeOK ==
  /\ state \in ModemState /\ polled \in ModemState /\ lastState \in ModemState
  /\ txRing \in Seq(Sample) /\ Len(txRing) <= RingCapacity
  /\ running \in BOOLEAN /\ final \in BOOLEAN /\ open \in BOOLEAN
  /\ active \in BOOLEAN /\ firstMessage \in BOOLEAN
  /\ session \in 0..MaxSessions /\ received \in 0..MaxSamples
  /\ at \in {"top", "poll", "check", "feed", "drain", "flush", "done"}
  /\ consumed \in 0..MaxSamples /\ startSamples \in 0..consumed
  /\ messages \in 0..MaxSessions /\ began \in 0..MaxSessions
  /\ origin \in Nat /\ processed \in Nat /\ watermark \in Nat
  /\ rendered \in Seq([msg : 0..MaxSessions, own : 0..MaxSessions,
                       id : 1..MaxSamples, ses : 1..MaxSessions])
  /\ events \in Seq(0..MaxSamples)

\* "Loop until empty so no samples are lost": what tx_ring accepted is rendered
\* once and in order, whatever edges and shutdown do; the rest is still queued.
NothingLost ==
  LET ids == [i \in DOMAIN rendered |-> rendered[i].id] \o
             [i \in DOMAIN txRing |-> txRing[i].id]
  IN ids = [i \in 1..received |-> i]

\* A message is not over before its session is: once it has ended (on_message_end after
\* tx_ring was read empty, after drain_tx_pipeline before the end was published), what is
\* rendered later, and what is still queued, is of later sessions than the one it was begun
\* in.  What was fed before the edge was seen comes before it, in no message.
MessageNotCut ==
  /\ \A i, j \in DOMAIN rendered :
       i < j /\ rendered[j].msg # rendered[i].msg => rendered[j].ses > rendered[i].own
  /\ ~open /\ at # "done" => \A k \in DOMAIN txRing : txRing[k].ses > began

\* The MessageEvents count what was rendered: the n-th event's sample_count is
\* the number of samples of the n-th message.
EventsCount ==
  \A n \in DOMAIN events :
    events[n] = Len(SelectSeq(rendered, LAMBDA r : r.msg = n))

\* "the receiver doesn't see a half-message": the worker never leaves a message
\* begun and not ended, and only the message cut by shutdown has no MessageEvent.
NoHalfMessage == at = "done" => ~open /\ Len(events) >= messages - 1

\* What PairBuffer's consumer relies on (pair_buffer.hpp, write_watermark_): samples are
\* added at or above the committed boundary ...
AddsAboveWatermark ==
  [][rendered' # rendered => origin + processed >= watermark]_vars

\* ... which the code keeps within a message.  Samples fed before the poll has seen their
\* TX edge land behind the tail the message before has exposed, by no more than that tail.
\* The PID build begins its first message at BaseDelay whatever was fed before it.
Unheard == rendered # <<>> => rendered[1].msg # 0

AddsNearWatermark ==
  [][rendered' # rendered /\ (Aligned \/ Unheard)
       => origin + processed + (IF open THEN 0 ELSE TailLength) >= watermark]_vars

\* The inductive invariant behind these.  Samples are numbered as they were accepted: first
\* what is rendered, then what is in the ring ...
Accounted ==
  /\ Len(rendered) = consumed /\ received = consumed + Len(txRing)
  /\ \A i \in DOMAIN rendered : rendered[i].id = i
  /\ \A i \in DOMAIN txRing : txRing[i].id = consumed + i

\* ... a message is open from a TX entry to its exit, its record with it, and there is a
\* session for every entry the worker still has to see ...
EdgesFollowed ==
  /\ open <=> lastState = "TX"
  /\ at = "drain" => lastState = "TX" /\ polled # "TX"
  /\ at # "done" => active = open /\ Len(events) = messages - (IF open THEN 1 ELSE 0)
  /\ NoHalfMessage
  /\ messages <= session /\ (state = "TX" => session > 0)
  /\ at # "done" /\ state = "TX" /\ (lastState # "TX" \/ at = "drain") => messages < session

\* ... an open message is at the watermark, and a closed one is behind it by its tail ...
NearWatermark ==
  /\ Aligned \/ Unheard =>
       /\ open => origin + processed >= watermark
       /\ ~open => origin + processed + TailLength >= watermark
  /\ firstMessage => messages = 0 /\ ~open
  /\ rendered = <<>> /\ firstMessage => watermark = 0

\* ... a worker that is about to begin a message, or to end one, faces a later session
\* than the last it began in; and so is what is queued later than every message but the
\* current one.
SessionsFollow ==
  /\ began <= session
  /\ at # "done" /\ state = "TX" /\ (~open \/ at = "drain") => session > began
  /\ \A i \in DOMAIN rendered :
       /\ rendered[i].msg <= messages /\ rendered[i].own <= began
       /\ rendered[i].msg = 0 => rendered[i].own = 0
       /\ open /\ rendered[i].msg # messages => rendered[i].own < began
  /\ at # "done" =>
       \A i \in DOMAIN rendered, k \in DOMAIN txRing :
         rendered[i].msg # CurrentMessage => txRing[k].ses > rendered[i].own

IInv ==
  /\ TypeOK /\ Accounted /\ EdgesFollowed
  /\ NearWatermark /\ SessionsFollow /\ MessageNotCut

\* A session that began and ended between two polls: the worker saw neither edge, and
\* what it left in tx_ring waits for the next TX.
PassedUnseen == ~open /\ state # "TX" /\ txRing # <<>> /\ Head(txRing).ses > began

\* Unless the process is stopped, what was received is rendered in the end, or waits there
\* for the next TX.
AllRendered ==
  \A k \in 1..MaxSamples :
    (received >= k) ~> (Len(rendered) >= k \/ PassedUnseen \/ ~running)
=============================================================================
