# Formal models of OpenCREST

OpenCREST puts real acoustic modems into a simulated ocean: each modem is
connected over USB, what it transmits is rendered through a channel model and
injected into the other modems' receivers in real time. This directory holds
TLA+ models of the program, the TLC configurations that check them on small
instances, and TLAPS proofs. `PROJECT.json` is the index: which definition
models which lines, which run checks which property, a mutation of the code each
property catches, the hazards and the findings.

    tlc -config PairBuffer_echo.cfg MCPairBuffer      # one run
    tlapm PairBufferProofs.tla                        # the proofs

## 1. The system

One process. The threads are: the main thread (`Simulator::run`, metrics once a
second), one `ModemIO` thread per modem, one `SourceWorker` thread per modem that
has outgoing channels. A sample travels

    modem A --USB--> ModemIO A --tx_ring--> SourceWorker A --PairBuffer(A,B)-->
    ReceiverMix B (on ModemIO B's thread) --rx_ring--> ModemIO B --USB--> modem B

No lock is taken on this path. Everything rests on single-producer
single-consumer structures, on one atomic state word per modem, and on time.

| component | state | operations | interacts with | what is hard | what makes it correct |
|---|---|---|---|---|---|
| `PairBuffer` (channel/pair_buffer) | ring of float slots; `read_pos_`, `write_watermark_` (atomic); `write_origin_`, `first_message_`; drops | begin_message, scatter_add, commit_source_progress, commit_extra, read_advance | SourceWorker writes, ReceiverMix reads | lock-free; additive writes ahead of the watermark; wrap; stale loads; overflow while the receiver transmits | it is an additive stream over receiver time: nothing heard twice, early, partially or mixed with another position; messages do not overlap |
| `Channel`, renderers | resampler, filters, samples processed in the message | on_message_start, process, on_message_end | SourceWorker calls it, it writes the PairBuffer | order of scatter and commit; the tail | all paths of a batch before its commit, the tail exposed at the end |
| `SPSCRingBuffer` (core/ring_buffer) | slots, two wrapping counters | write, read | tx_ring, rx_ring | lock-free; stale loads; full and empty | a bounded FIFO queue |
| `SourceWorker` | last state seen, residuals, samples consumed, open message record | run, poll_state_edges, process_available, stop | polls the modem state, reads tx_ring, drives channels, writes MessageEvents | edges of a polled level; two loads of the state per turn; drain at TX exit; shutdown in mid-message | a message is not over before its TX session is; nothing lost; no half message |
| `ReceiverMix` | scratch sums, drop counter | pull | reads PairBuffers, writes rx_ring | commits between chunks; starvation | every source in order and complete; ring bounded |
| `ModemIO` | packet id, sequence checker, rx_ring use, tracker, first/skip flags | run, poll_control, handle_status, receive_tx_data, drain_tx_pipeline, send_rx_data, stop | transport, tracker, estimator, rings, logger, metrics | sessions and id resets against USB pipelines; timeouts that delivered; disconnect | ids match the modem's, the tail of a session stays in it, sends keep pace |
| `ClockFillTracker` (or `BufferPacer` in the PID build) | anchor, 64-entry ring of sent packets, rate, schedule, hold flag | on_packet_sent, on_status, should_send, reset | ModemIO calls it; SourceWorkers read its estimate | stale anchors, id collisions, hold deadlock | the modem's buffer neither starves nor overflows; a hold always ends or trickles |
| `TxStartEstimator` | sample count, tightest lower bound | on_tx_entry, on_tx_packet | ModemIO writes, SourceWorker reads | read from another thread, reset before the edge is published; a late packet moves it | no message is heard before its sound can have travelled |
| `ChannelEngine` | workers, mixes, buffers, wiring | construct, wire_modem_trackers, start, stop | Simulator | wiring after start; sizing | each worker wired before it runs; capacity holds the declared traffic |
| `Simulator`, `main` | running flag, thread list | initialize, run, stop (from a signal) | everything | stop before start; join order; fatal errors of a thread | every stop ends the run; shutdown flushes in order |
| `Modem`, `ModemRegistry` | calibration, runtime state | connect, calibrate, enter/exit_hil_mode | transport | answers interleaved with status packets | bounded handshake |
| transports, `ProtocolCodec` | USB handles; mock script; next sequence number | send, recv, check_sequence | ModemIO, Modem | loss, delay, partial transfer | – (environment; codec by unit tests) |
| `Metrics`, `RunSummary`, `ProcessingTimeStats` | counters | add, reset, snapshot | all threads | reset against increments and totals | totals equal what happened |
| `StreamLogger`, `WavWriter`, `MessageEventLog` | open files, session numbers | log, begin session, finalize | ModemIO, SourceWorker | sessions; finalize against writes | every recorded sample in its session |
| tap sources, `TapSourceRenderer`, `SourceDelayLine` | record position, delay line, cursors | taps_at, on_message_start, process, drain_tail | Channel calls them, they write the PairBuffer | a ring read at moving, drifting positions; replay clock over messages | every tap reads each sample of the message intact, the last one included; the record goes on |
| other DSP kernels | filter histories | process | renderers | – | numeric, by unit tests |
| `ScenarioLoader` | – | load | Simulator | many checks in an order; two kinds of exception | an accepted document can be built, and its buffers hold its messages |
| experiments, scripts | – | evaluate recordings | – | sequential | by their own tests |

## 2. Modules

| module | models | status |
|---|---|---|
| `AdditiveStream` | abstract: what a PairBuffer promises | checked and proved as refinement |
| `PairBuffer` | pair_buffer.cpp and the order in which the renderers call it | checked, proved |
| `PairBufferProofs` | theorems about `PairBuffer` | TLAPS |
| `BoundedFifo` | abstract: what an SPSCRingBuffer promises | checked and proved as refinement |
| `SPSCRingBuffer` | ring_buffer.hpp | checked, proved |
| `SPSCRingBufferProofs` | theorems about `SPSCRingBuffer` | TLAPS |
| `SourceWorker` | source_worker.cpp with the ModemIO steps that race with it | checked, proved |
| `SourceWorkerProofs` | theorems about `SourceWorker` | TLAPS |
| `ReceiverMix` | receiver_mix.cpp and `ModemIO::send_rx_data` | checked, proved |
| `ReceiverMixProofs` | theorems about `ReceiverMix` | TLAPS |
| `SimulatorLifecycle` | run, stop and ~Simulator of simulator.cpp, start and stop of channel_engine.cpp, the thread entries and exits of both workers | checked, proved |
| `ObservedRun` | `SimulatorLifecycle` with metrics.cpp, processing_time_stats, the WAV files, the event logs and the run summary | checked, proved |
| `ModemIOSession` | modem_io.cpp (the whole thread) and a modem | checked, proved |
| `ModemIOSessionProofs` | theorems about `ModemIOSession` | TLAPS |
| `RxPacing` | clock_fill_tracker.cpp, its use by modem_io.cpp, and a modem that plays | checked, proved |
| `RxPacingProofs` | theorems about `RxPacing` | TLAPS |
| `Scenario` | scenario_loader.cpp, and the sizes the engine derives from a scenario (operators only) | used by the next two |
| `Bringup` | `Simulator::initialize`: loading, modem_registry.cpp, modem.cpp, opening in usb_transport.cpp, the constructor and wiring of channel_engine.cpp | checked, proved |
| `SimulatorProofs` | theorems about `SimulatorLifecycle`, `ObservedRun`, `Bringup` and `TapRendering`, with lemmas about `Scenario` | TLAPS |
| `TapRendering` | tap_source_renderer.cpp, source_delay_line, per_tap_farrow's read positions, replay and geometric tap sources | checked, proved, one finding |
| `ArrivalAlignment` | tx_start_estimator.cpp, the gap of source_worker.cpp, and both modems' threads around it | checked, proved, one finding |
| `ArrivalAlignmentProofs` | theorems about `ArrivalAlignment` | TLAPS |
| `MC*` | instances for TLC | – |

The modules compose by refinement, not by size: `SPSCRingBuffer` is shown to be a
FIFO and `SourceWorker` and `ReceiverMix` use a queue whose reads and writes are
one step; `PairBuffer` is shown to be an additive stream with a committed
boundary, and `SourceWorker` keeps of it only origin, progress and watermark,
`ReceiverMix` only watermark and read position. What `PairBuffer` assumes of its
producer, that a message is begun before it is rendered, is asked of `SourceWorker`:
within a message it keeps at or above the watermark, but what it feeds before it has seen
the TX edge comes before the message, behind the watermark by up to a tail
(`AddsNearWatermark`). For such samples `PairBuffer`'s refinement says nothing. `RxPacing` replaces the refusal that
`ModemIOSession` leaves open (`DataNothing`) by the tracker that decides it, and its
`EstimateExact` is what `ArrivalAlignment` assumes of the receiver. `ObservedRun` extends
`SimulatorLifecycle`: every step of it is a lifecycle step and what that does to the
recorders, so the lifecycle's properties are checked on the composition. `Bringup` and
`TapRendering` share `Scenario`: the buffer that the one sizes is the one the other
writes into.

### PairBuffer

A step is one access to shared memory. `scatter_add` is `ScatterLoad` (the load
of `read_pos_`, the clipping, the drop counter) and one `ScatterSlot` per turn of
its loop; `read_advance` is `ReadBegin`, one `ReadSlot` per turn and
`ReadPublish`. `commit_source_progress` and `commit_extra` are one step because
only the producer writes the watermark. `BeginMessage` is
`Channel::on_message_start`, `StartBatch` the renderer having a batch ready:
`StaticRenderer` scatters at tap delays (`TapDelta`), `TapSourceRenderer` at one
position with the delays applied on the read side (all deltas 0, `MaxTapDelta`
0; the zeros of its `drain_tail` are batches like the others).

*Memory model.* A load of the other thread's atomic returns any value between the
last one this thread saw and the current one. This is what acquire and release
on one monotonic variable give: late, never out of order. That plain slot
accesses may then not be reordered across the publications is not assumed but
stated: `SlotHandedOver` says each slot access is covered by the counter that
was *loaded*, so the happens-before edge exists.

*Data.* A sample is `[msg, tap, idx]`; a slot is the set of samples added since it
was zeroed. Gains, interpolation and clipping of values are left out. Two taps
never add the same identity, so a set loses nothing against a sum.

### SPSCRingBuffer

The same granularity. The counters are kept unwrapped and are wrapped (`Wrap`)
wherever the code computes with them; `Modulus` stands for 2^64. `write_pos_`
will not wrap in practice, the run shows that the arithmetic does not care. An
empty transfer stores the counter unchanged in the code and is the return of
`WriteBegin`/`ReadBegin` with 0 here.

### SourceWorker

The worker's control is complete: the loop test (`LoopTop`), the poll with its
three branches (`Poll`, `DrainTail`, `EndMessage`), the second load of the state
(`Check`), `process_available` (`Feed`), the poll after the loop (`final`) and
the flush (`FlushTail`, `Finish`). ModemIO contributes the steps that matter to
it: publishing a state and putting a packet into `tx_ring`. `Stop` may come at
any time. One outgoing channel stands for all, since every channel gets the same
calls; samples are rendered one for one, so the residual is empty, and
`DrainLength` samples of silence are rendered at the end of a message for the
filters' tails. The event log is open. The gap is any member of `Gaps`; how it comes
about is `ArrivalAlignment`.

*No promptness.* The worker polls a level about every 100 us while modem states last
milliseconds, and source_worker.cpp says "the loop still spins fast enough to catch
the next edge promptly". Nothing enforces that, so the model does not assume it: ModemIO
publishes states and fills `tx_ring` wherever the worker is. Three things can then happen
that no property forbids, because the code does them. Samples fed between the two loads
of the state belong to no message. A session that ends and one that starts between two polls
become one message. And a session that starts and ends between two polls is not seen
(`PassedUnseen`): its samples wait in `tx_ring` for the next TX. `began` and `own` are
history: the session in which the last message, and the message of a sample, was begun.

### ReceiverMix

`send_rx_data` is `SendRxData` (top up or not), `ReadPair` for each PairBuffer and
`WriteChunk` for each chunk (these are `pull`), then `Hold` (the tracker says no,
or there is too little) or `SendPacket`, which may fail. Sources commit between
any two of these steps. A DAC sample is the vector of the positions it was made
of.

### SimulatorLifecycle

`pc` has two places: where `"main"` is in `run` (and then in `~Simulator`), and
where the one call of `Simulator::stop` is. `Caller = "main"` makes that call a
signal handler: main stands still until it returns. `Caller = "other"` makes it
another thread's. A step of main is one iteration of a loop over modems or one
call; `ChannelEngine::stop` is the three steps `EngineExchange`, `EngineSignal`,
`EngineJoin`, made by main and by `stop` alike. A thread is spawned, enters its
`run` (which stores its running flag), leaves its loop when it sees the flag off,
and exits; a `SourceWorker` flushes in between. A disconnect turns off the flag
of its own `ModemIO` and nothing else.

*Calm.* `Calm = TRUE` assumes that `stop` is called when every thread is in its
loop. It is the assumption under which shutdown works; `SimulatorLifecycle_early.cfg`
drops it.

### ObservedRun

Main's labels in `run` get a second coordinate, `step`, for what happens between two
of them: the metrics line is printed (`PrintMetrics`) and cleared (`ResetMetrics`)
while threads count on; after the joins come `StreamLogger::finalize`, the close of
the event logs and the summary, one step each. One counter stands for all of
`Metrics`, RX recording for TX recording. `ProcessingTimeStats::record` is relaxed
increments of single atomics (`Record`, one step: nobody reads them before the
join) and a compare-and-exchange loop for the maximum, modelled turn by turn
(`RaiseMost`). `SizeModulus` is the width of the size field of a WAV header in
samples. The counters of packets in the summary are those of the last second: they are
read after the last reset. That is by construction of the reset and no property.

### ModemIOSession

The thread's control is complete: `poll` at the head of every `PollInterval`-th
iteration (`PollStatus`, `PollNothing`), `handle_status` (`Publish`), the drain
one packet at a time (`DrainPacket`, `DrainEnd`), then the data of the iteration
(`ReceivePacket`, `SendPacket`, or `DataNothing`), and `Disconnect` at any of
them. A transfer succeeds, fails, or delivers and reports TIMEOUT
(`LosePacket`, one case of `SendPacket`). `hses` and `forwarded` are history: the
modem's entry that the published `state` stands for, and what went to `tx_ring`
while which entry was published. The tracker decides only whether a send is
held back (`DataNothing`); `RxPacing` has the decision itself.

*The drain.* `drain_tx_pipeline` ends at its cap, and at the first read that is not ok or
is short (modem_io.cpp:345-352). The comment there says "Pipeline empty."; a TIMEOUT with
a packet still on its way and an ERROR leave by the same exit, and nothing drains again.
So `DrainEnd` is possible at any turn of the loop. `leftovers`, history, are the packets
staged when that happens before the cap: they are forwarded in the next TX session, where
they count as a gap against the restarted codec, or never if none follows.

*The modem is outside this repository.* What is assumed of it is what
modem_io.cpp, packets.hpp and MockTransport say: it cycles RX, TX, SETTLING;
ids restart on both sides at every state entry while staged packets stay; it
accepts only the id it expects; it reports every state it enters on the control
endpoint.

*Behind.* Modem states last long against the loop of ModemIO, which polls control
every `CONTROL_POLL_INTERVAL` = 5 turns (SETTLING alone takes 200 ms,
constants.hpp:14); the model lets the modem be up to
`Behind = 2` entries ahead of what the host has published. With 3, a host could
miss a whole cycle of states and `SessionsPure` fails by construction.

*DrainCap.* `FifoDepth <= DrainCap`: the drain's cap exceeds what a modem can
stage. With a deeper FIFO the rest surfaces in the next session.

### RxPacing

The tracker's arithmetic with whole samples and ticks: the true rate is one sample
per tick. Times are kept as ages (`age` is now minus the anchor's time, `due` the
next send minus now), so that neither the clock nor the session needs a bound, and the
ring of sent packets is kept newest first: an entry's place tells how much was sent
after it, which the code finds by summing. `should_send` is `Scheduled`, `Holds`,
`Go` and `Decided`; `on_status` is `Anchored`, `NewRates` and `StatusTaken`;
`SendRx`, `SendReturns` and `PollStatus` are ModemIO's steps around them, a
transfer in progress (`sending`) keeping the status from being read. The EWMA of the
rate is any member of `Rates` from the old rate to the observed one.

The modem accepts a packet that has the id it expects and fits, as in `ModemIOSession`, and
reports its fill after it; it may enter RX with a buffer that is empty or above target
(`EntryFills`). A transfer may be reported sent though the packet was not taken, or reported
failed though it was; a report, once made, is handled within `Latency`. `exact`, `dated` and `biased` are history: until
the next anchor, nothing was lost or misreported (`exact`); the anchor is one of
the host's own send times (`dated`); the modem ran dry or a rate was inferred from an
anchor that was not dated (`biased`). A packet that was delivered and reported failed is
sent again with the id it had, so a status that names this id is ambiguous:
`EstimateExact` claims nothing until a later anchor (`exact`).

*Assumptions.* `Latency`: a status is handled that many ticks after it was made, at the
latest; `MaxEntryAge` is longer. And a modem goes back to RX only when the host has
published its TX (`ModemReceives`): transmissions last long against the host's poll.
Without that, TLC refutes `EstimateExact` once three statuses can be under way: a whole
transmission falls between two polls, and a host still in the RX before it sends to a
modem that is in the RX after it.

### Scenario and Bringup

`Checks` lists every check of the loader in the order it makes them; what `load`
throws is the first that fails. A document is a record of its keys, with `ill` the
ones yaml-cpp cannot convert: that exception is not the loader's own, and the
order decides which of the two is thrown. `ScenarioConfig` fills in the defaults.
The extents (`BaseDelay`, `MaxTapDelta`, `PairCapacity`) are computed from it as
channel_engine.cpp and the models do, image paths included, with lengths rounded to
whole metres.

`Bringup` is `initialize` step by step: `Load`; for each modem `Open`
(which drains the control endpoint), `Request`, `Receive` up to `MaxRetries` times,
`Enter`; then `Build` and `Wire`. An exception inside `discover_modems` unwinds modem
by modem (`Unwind`, `~Modem`); one elsewhere reaches no handler (`"terminated"`).
Devices may be absent, hold packets of an earlier session (`Leftovers`: a run that
crashed leaves them in HIL mode), answer out of range, or talk over the answer. Each
failing transfer costs one of `MaxFaults`.

Two oddities the translation kept: a static channel with `direct_los: false` and
an empty list of taps is accepted and gets the direct path; and the dead zone is only
looked at when a replay goes on, so a first offset inside it stands.

### TapRendering

One renderer, its delay line as the ring it is (`Capacity` from the channel's
extents), a block at a time. A written sample is `<<message, index>>`, so a read
tells what it has found. Positions are counted in `Unit`-ths of a sample, the
denominator of Catmull-Rom between frames `Dt` samples apart: the interpolation is
exact. A tap's reads in a block (`ReadsOf`) are all the slots its four-point kernel
touches from the delay at the block's start to the one at its end. `drift` is
`clock_offset_ppm`. Batches may be longer than a block. The taps of a scene are
indexed by their image paths, not by the order the code sorts them into: the sum over
taps does not depend on it. A power of two is a number without odd divisors.

What Catmull-Rom overshoots is not clamped by `ReplayTapSource`, so the delays of a
block may leave the range of the record; by how much, and what of the line's margin covers it,
is in section 4.

### ArrivalAlignment

Times are counted in samples and relative to now, like in `RxPacing`, so any number of
sessions fits into a finite model; `MaxAge`, the age of a session until its host has
handled all of it, is the only bound. The worker reads the clock and the estimate
(`TxEntry`), the tracker (`ReadFill`), the ring (`ReadDepth`) and its own buffer
(`Place`), and the receiver's thread pulls, takes and sends packets between any two of
these. `HearsFirst` is the pull that takes the message's first sample.

*Assumptions.* The tracker's estimate is exact (`RxPacing`), the receiver's sends do not
fail, its modem is supplied, and the worker handles an edge before the next
(`SourceWorker` shows what happens when it does not). One message is followed to the receiver, and it may be any
one: each time a message is placed it is followed or it is not.

## 3. Runs

| run | shows | bounds |
|---|---|---|
| `pairbuffer_echo` | race freedom, refinement of `AdditiveStream`, `EverythingHeard` | 4 slots, 2 messages, direct path and an echo 2 samples later, batches and pulls of up to 2, gaps 0 and 1, both origin policies, positions 0..8: the ring is used twice over, a batch straddles the wrap, overflow happens |
| `spsc_ring` | race freedom, refinement of `BoundedFifo` | 4 slots, counters modulo 8, 18 items: two wraps of the counters; calls of up to 3 |
| `source_worker` | what the worker makes of sessions, however late it polls | ring of 3, packets of 2 (so a packet is cut), batches of 2, 3 sessions, 6 samples, stop at any time |
| `receiver_mix` | order and completeness of every source | 2 sources, packet 3 in chunks of 2 and 1, 3 samples per source, 3 pulls, failing sends |
| `observed_run` | shutdown order, files and statistics of a run | 2 modems, both sources, calm Ctrl+C, HIL failure and disconnects at any time; modem 1 sends a packet and ends a message, over one or two sessions; both sources time a batch, of either length; header sizes modulo 8 |
| `modem_session` | the session protocol | ids modulo 4, control polled every second iteration, 6 states entered (RX, TX, SETTLING, twice), 4 packets recorded, 4 sent, FIFO of 2 and a drain cap of 2 |
| `rx_pacing` | the tracker | packets of 2, buffer of 14, target 8, ring of 2 entries, 4 ids, burst at twice the rate, 1 catch-up slot, keepalive after 7 ticks, one transfer that goes wrong, one status under way |
| `bringup` | `initialize` | 2 devices on the bus and one serial without; documents with each kind of error and without; a status and a calibration left over or nothing, FIFO of 2, 3 tries, 2 failing transfers |
| `tap_rendering` | the delay line and the taps | replayed and geometric channels, drift of either sign and none, up to 3 messages of up to 20 samples, blocks of 2, batches of up to 3: the line wraps several times |
| `arrival` | when a message is heard | propagation 5, packets of 2, messages of 2 packets, receiver kept at 4, any number of messages, `MaxAge` 6 |
| `arrival_start` | violation of `EstimateFromBelow` | the same |
| `tap_drift` | violation of `ReadsInWindow` | one message, drift of one sample in sixteen |

Why these are enough: the ring structures are symmetric in the position modulo
the capacity, so what can happen happens within two laps; the second message
shows the interaction with the first, a later one only meets the one before
(and the proofs remove the bounds for what they state of `PairBuffer`,
`SPSCRingBuffer`, `SourceWorker`, `ReceiverMix`, `SimulatorLifecycle`, `ObservedRun`,
`Bringup`, `TapRendering`, `ModemIOSession`, `RxPacing` and `ArrivalAlignment`). Three sessions give a session a
predecessor and a successor. The tracker's ring of 2 is overwritten and 4 ids come
round within a session; `RxPacing_more` has two statuses under way and more ids
(12.3 million states), the listed run keeps one for the time its liveness property takes.
A keepalive after 7 ticks is rarer than the catch-up slots reach back, as in the code.

The bounds are `MaxMessages`, `MessageLimit`, `MaxPos`, `MaxItems`, `MaxSessions`, `MaxSamples`,
`MaxMark`, `MaxPulls`, `MaxEntries`, `MaxPackets`, `MaxSends`, `MaxBatches`,
`MaxLength`, `MaxPending`, `MaxFaults`, each a guard of one kind of step; `MaxAge` of
`ArrivalAlignment`, a guard of `Tick`; and two saturations of `RxPacing`: `MaxAge`, an age at which the modem is thought empty anyway,
and `MaxEntryAge`, an age that no status names any more. Deadlock is checked in the
PairBuffer and ring runs: the receiver can always poll. The others stop when the
worker is done, the bound is reached, the process has ended, initialize is over or
the modem is gone.

### The properties

* `NoSlotRace` (both lock-free structures): see the memory model.
* `ImplementsStream`, `ImplementsFifo`: the refinements; a slot that is not clean, two
  messages that overlap, a sample written over an undrained one break the first.
* `NothingLost`, `MessageNotCut`, `NoHalfMessage`: what the worker makes of edges,
  packets and stops. `MessageNotCut`: once a message is over, nothing of the session it was
  begun in is still to come, however edges, drains and polls fell; it forbids neither that
  a later session is merged into it nor that its first samples came before it. The message that a shutdown cuts is flushed but has no
  MessageEvent; metrics_export.md:31 defines an event per entry and exit edge, so
  `NoHalfMessage` allows that one.
* `AddsNearWatermark` (action property): the samples of a message at or above the boundary,
  those fed before its edge was seen behind it by no more than the tail of the message
  before. `AllRendered`: unless the process is stopped, what was received is rendered or
  waits for the next TX (`PassedUnseen`).
* `InOrder`: from every source the mixer takes position after position, none twice, none
  skipped, with silence where a source is late. `SamplesAccounted`: each sample mixed is
  queued, sent, lost with a failed packet, or counted as dropped. `AllMixed`.
* `LogsClosedLast`, `IoOnlyInHil`, `StopEndsRun`: the order of shutdown, and that it
  ends. The first holds with `Caller = "main"`; with `Caller = "other"` TLC shows the
  logs closed under running workers.
* `SummaryExact`: the statistics in the summary are those of the batches rendered, by
  two sources at once. `FilesComplete`: every packet is in a closed file whose header
  has its size, every message in its log. `NothingShownTwice`: what happens between
  print and reset may be lost, never repeated.
* `TailKept`, `SessionsPure`, `NoFalseGaps`, `AllForwarded`: a TX session's packets are
  published in it, whole and in order, and id resets report no gaps. Two things are
  excepted by name and not assumed away: the packets a failed read of the drain left staged
  (`leftovers`; they do surface in the next session), and for what is lost or
  missing also data transfers that completed and reported TIMEOUT (`misreported`).
* `InSync`: in an RX session both sides know of, the ids agree, or the host is one
  behind after a misreported send.
* `EstimateExact`: whatever a status names and however late it comes, the extrapolated
  fill is the modem's, unless something was lost since. `NeverRefused`,
  `CatchUpBounded`, `DropsDoNotBias`, `HoldEnds`: what the tracker does with it.
  `HoldEnds` has an exception that clock_fill_tracker.cpp:148-155 does not make: its keepalive
  "eventually gets accepted", but not by a modem that waits for a packet the host was told
  was sent (`Ahead`). Every id is then refused until 65536 packets have been sent, most of an
  hour of keepalives, or the modem changes its state; the model does not count on either. `DropsDoNotBias` is about packets
  reported sent that were not taken and sends reported failed that were: neither moves the
  smoothed rate.
* `CleanFailure`: wherever `initialize` fails, devices are given back and out of HIL
  mode. `CalibrationIsOwn`: no leftover passes for the answer. `GraphFollowsScenario`:
  indices, buffers, trackers and estimators match the names of the document.
  `BufferHoldsMessage`: at every range of a scene's envelope. `InitializeReturns`.
* `ReadsIntact`: a tap finds the very sample it asks for, or silence, while the
  accumulated drift is within the margin of one block. `LastSampleHeard`: the drain is
  long enough; with a receiver that is faster than the source the tail is cut by what
  has drifted, so a negative drift is exempt. `Seamless`: consecutive blocks join.
  `RecordContinues`: an advancing replay over messages.
* `NeverEarly`: no message is heard before its sound can have travelled.
  `LatenessExplained`: and what it is late by is exactly what the receiver moved between
  the worker's reads, silence before the first commit, and a target already past.

### Fairness

* PairBuffer: `WF` on rendering (a message that is begun gets to its end: the worker
  drains at TX exit or at shutdown), on the receiver's loop turns, and on a
  `read_advance` that sees the current watermark (stores become visible in
  finite time). Nothing is assumed of `BeginMessage`.
* Ring: the listed run is about safety; `SPSCRingBuffer_more.cfg` assumes the same of the
  consumer for `AllRead`, and lets the producer stop at any time.
* SourceWorker: `WF` on the worker's thread only. ModemIO may stop.
* ReceiverMix: `WF` on pull and on the loop, `SF` on sending: the tracker refuses
  often but its keepalive lets a packet out again and again. Sources may stop.
* SimulatorLifecycle and ObservedRun: `WF` for main, for the call of `stop` once it is
  made, and for every thread (a worker's compare-and-exchange loop is part of it).
  Nothing is assumed of disconnects, of `stop` being called, or of packets.
* RxPacing: `WF` on the clock and on the I/O thread. The modem may stay in its state.
* Bringup: `WF` on the main thread. Devices may be silent or talk for ever.
* TapRendering, ArrivalAlignment: safety only.
* ModemIOSession: `WF` on the thread, `SF` on taking a status and on receiving a
  packet: transfers in the loop of `run`, which tries again, do not fail forever while
  something is staged. Nothing is assumed of the drain's reads, which are tried once. The
  modem may stop at any time.

### Findings

1. `arrival_start`, tx_start_estimator.cpp:24. The header (tx_start_estimator.hpp:11-16)
   takes arrival time minus samples for a lower bound of the TX start and keeps the
   maximum as "the tightest (latest) bound, closest to the true TX start from below".
   Samples arrive after they are made: each value bounds the start from above, the
   tightest is the minimum, and each late packet moves the maximum further away. Only
   the estimate at the TX entry edge is used, so what this costs is that a message whose
   first packet is late is placed that much later (`LatenessExplained` measures it
   against the estimate); it is never early (`NeverEarly`).
2. `tap_drift`, tap_source_renderer.cpp:125. The read cursor advances by
   1 + clock_offset_ppm per sample over the whole message, the delay line has the
   margin of one block's drift. With a source that is fast, the cursor passes the
   producer and taps of little delay read slots that are not written yet, against
   source_delay_line.hpp:22-28. A delay below two samples does so without drift, since
   the four-point kernel looks ahead.

### Further configurations

Beside the listed runs there are configurations for questions that are settled or proved,
and for disagreements between the code and its comments that are narrower than
the findings. Run them like the others, with the `MC` module of the same name.

*Pass*: `SPSCRingBuffer_more` (`TypeOK`, `IInv`, `SlotHandedOver`, `AllRead`),
`SourceWorker_more` (`TypeOK`, `IInv`, `EventsCount`), `RxPacing_more`
(`TypeOK`, `IInv`, `FlowInv`), `SimulatorLifecycle.cfg` (3 modems of which 2 are sources: `TypeOK`,
`IInv`, `LogsClosedLast`, `IoOnlyInHil`, `NoneLeftBehind`, `StopEndsRun`).

*Violate*:

* `SourceWorker_late` (`AddsAboveWatermark`), source_worker.cpp:89. `run` polls the edges,
  then loads the state again. TX published between the two loads, and a packet soon
  after, are rendered before `on_message_start`, with the origin of the previous
  message: below the committed watermark, by the multipath tail that `commit_extra` has
  exposed. pair_buffer.hpp:25 lets the consumer read everything below `write_watermark_`:
  it may be reading there, or have passed, and the samples are lost. Counterexample:
  the poll sees RX; PublishTX; `Check` sees TX; ReceivePacket; `Feed` renders. Using the state
  `poll_state_edges` returned for the decision would remove it. `AddsNearWatermark`, checked
  and proved, is what the code does keep: no further behind than one tail.
* `SimulatorLifecycle_early` (`StopEndsRun`), simulator.cpp:332. `run`, `ModemIO::run` and
  `SourceWorker::run` begin by storing `running_ = true`, and start-up never looks at
  the flag: a Ctrl+C while modems enter HIL mode is overwritten, or reaches only the
  threads made so far, and `run` never returns. Related: when `stop` is called from
  another thread, its engine stop takes `started_`, `run`'s own engine stop returns
  at once (channel_engine.cpp:203), and the event logs can be closed while a worker
  still ends its last message; `Caller = "other"` in `SimulatorLifecycle.cfg` shows it.
* `SimulatorLifecycle_fatal` (`FatalErrorEndsRun`), modem_io.cpp:104. simulator.hpp:43-44
  says `run` blocks "until stop() or any I/O thread signals a fatal error". No I/O
  thread signals: after a disconnect only its own thread ends.
* `SimulatorLifecycle_wiring` (`WiredBeforeRun`), simulator.cpp:354. The SourceWorkers run
  before the trackers are wired into them, plain pointers they read, although
  source_worker.hpp:86 and simulator.cpp:422 say the wiring comes first.
* `ModemIOSession_tail` (`TailPreserved`), modem_io.cpp:274. A data packet whose transfer
  completes and reports TIMEOUT is thrown away, steady-state and in the drain,
  although `poll_control` knows of the case (modem_io.cpp:107-109). The same on the
  send side leaves `tx_pkt_id_` one behind what the modem expects until the next
  state change: the second disjunct of `InSync`.
* `RxPacing_fallback` (`FallbackNotInferred`), clock_fill_tracker.cpp:104. `on_status`
  ends by clearing the flag that the fallback anchor has set in the same call (line
  61) to have "the following rate inference" skipped (52-55): the next inference
  mixes the two epochs after all. It is limited to rates in (0.5, 2) of the nominal one
  and smoothed.
* `Bringup_uncaught` (`FatalErrorsReturnFalse`), simulator.cpp. simulator.hpp:40 says
  `initialize` "Returns false on any fatal error"; `load_scenario` catches the loader's
  own exception but not yaml-cpp's conversion errors, and around
  `build_channel_engine` nothing is caught: a value of the wrong kind, an unreadable
  trajectory or a scene without a path ends the process, in the latter two cases
  with the modems in HIL mode.
* `Bringup_pads` (`AttenuationIsCanonical`), simulator.cpp:104-106. "Take the first
  channel's value as canonical" is done for the receiver's mixer and modem, while the
  renderer of a sibling channel uses its own.
* `ObservedRun_files` (`SummaryNamesEvents`), simulator.cpp:385-386. The event logs are
  closed first "so the referenced files are flushed", and the summary, which lists
  the logs that are open, then finds none.

## 4. Proofs

| module | proves | of every |
|---|---|---|
| `PairBufferProofs` | race freedom, additivity, disjoint messages, the refinement of `AdditiveStream` | capacity, tap set, batch and pull |
| `SPSCRingBufferProofs` | race freedom, the refinement of `BoundedFifo` | capacity and counter width |
| `SourceWorkerProofs` | nothing lost, no message over before its session, no half message, how near the boundary samples are added | ring, packet, batch, gap |
| `ReceiverMixProofs` | order, accounting, the bound of rx_ring | number of sources, packet, chunk |
| `ModemIOSessionProofs` | ids agree, tails kept, sessions pure, no false gaps | id width, FIFO, polling interval |
| `RxPacingProofs` | the estimate is exact, nothing is refused, the rate stays true, catch-up is bounded | tuning of the tracker |
| `ArrivalAlignmentProofs` | nothing heard early, lateness explained | propagation, packet, fill level |
| `SimulatorProofs` | HIL order, logs closed last; files, summary and metrics of a run; clean failure, calibrations, the engine's graph and the room in its buffers; what moving taps read | number of modems, batches, documents, devices, channels |

All have the same form: an inductive invariant `IInv` of named parts, `Init => IInv`,
one lemma per part and group of actions for `IInv /\ [Next]_vars => IInv'`, and the
properties as its consequences. The assumptions are the named ones of the models and
those stated in a theorem's `ASSUME`.

### PairBuffer

`PairBufferProofs` proves, for every capacity, base delay, tap set, batch, pull and
bound that satisfies the three named assumptions of `PairBuffer`:

| theorem | states |
|---|---|
| `IInvHolds` | `Spec => []IInv` |
| `TypeCorrect`, `RaceFree`, `HandedOver`, `AddsToCleanSlate` | from `IInv` |
| `Disjoint` | `[]MessagesDisjoint`, with the inductive `Layout` |
| `NoPartialMultipath` | `[]PathsComplete`, with the inductive `Coverage` |
| `Refinement` | `Spec => ImplementsStream` |

*Assumptions.* `CapacityAssumption` (the capacity is positive, the base delay below
it: the constructor throws otherwise), `TapAssumption` (`MaxTapDelta` bounds the
deltas; the renderer computes it as their maximum), `BoundAssumption` (the bounds
are naturals). That the capacity is a power of two is not needed: masking is
`%`. Positions do not wrap (a size_t at 500 kSPS lasts a million years).

*Argument.* `NoSlotRace` alone is not inductive: it says nothing of how far the
threads may lag. `IInv` adds three facts. `Views`: each thread's view of the
other's counter is an old value of it, hence on the safe side. `Placement`: the
batch in hand lies at or above the watermark and, once clipped, below the
*loaded* read position plus the capacity. `Contents`: the ring holds, for every
position of the window from the receiver's cursor, exactly what was added for
it. The arithmetic is one lemma, `SlotsDistinct`: two positions less than a
capacity apart have different slots; its proof is nonlinear and is broken down
to `SmallMultiple`. For the refinement, a scatter maps to `Mix`, a commit to
`Commit`, a turn of `read_advance` to `Deliver`, and all else to stuttering:
`Contents` gives that what is delivered is what was mixed.

### SimulatorLifecycle

`SimulatorProofs` proves, for any number of modems and any set of sources
(`LifecycleAssumption`):

| theorem | states |
|---|---|
| `IInvHolds`, `TypeCorrect` | `Spec => []IInv`, `Spec => []TypeOK` |
| `HilOrder` | `[]IoOnlyInHil`, whoever calls `stop` and whenever |
| `LogsLast`, `NothingRuns` | `[]LogsClosedLast`, `[]NoneLeftBehind`, with `Caller = "main"` and `Calm` |

*Argument.* What is wanted at the end says nothing of how it comes about. `HilHeld`
ties HIL mode and the I/O threads to main's place in `run`; `Owned` says a worker
thread that has not exited is still in `worker_threads_`; `JoinedBySomebody` says
that while `worker_threads_` is not empty either `started_` is on, so main's own
engine stop will do the join, or one of the two callers is doing it. With
`Caller = "main"` main cannot pass the exchange while `stop` joins, and the three
together empty the set before `exitHil`. With `Caller = "other"` exactly that step
fails.

### ObservedRun

`SimulatorProofs` proves, for any number of modems, packets, sessions and batches of any
length, and any width of the WAV size field:

| theorem | states |
|---|---|
| `RunIsLifecycle` | `OSpec => Spec`: the recorders change nothing in the lifecycle |
| `LifecycleOrderKept` | so `IoOnlyInHil`, `LogsClosedLast` and `NoneLeftBehind` carry over |
| `RunInvHolds` | `OSpec => [](IInv /\ RunInv)` |
| `ShownOnceOnly` | `[]NothingShownTwice`, whoever calls `stop` |
| `FilesAreComplete`, `SummaryIsExact` | `[]FilesComplete`, `[]SummaryExact`, with `Caller = "main"` and `Calm` |

*Argument.* What is true of the files and the summary at the end says nothing of the threads
that still write. `FilesKept` says that at any time a modem's files together hold its
packets and all but the last are finalized; `EventsKept` that a log is closed only before
its worker is spawned (`SpawnedOnce`) or after it was joined, which the lifecycle's `IInv`
gives. The statistics
have two parts: `Tallied` compares the shared counters with the batches recorded, as
cardinalities of finite sets; `MostPending` says that a batch longer than the maximum belongs
to a source whose compare-and-exchange loop is still running, and that such a loop holds an old
value of it. `SummaryLast` puts the summary after the joins. TLC checked
`RunInv` on the instance of the listed run (567,663 states), on one with more batches
(945,881) and with `Calm = FALSE` (1,772,884).

### Bringup

`SimulatorProofs` proves, for any set of documents, devices, leftovers, retries and
failing transfers (`BringupAssumption`):

| theorem | states |
|---|---|
| `ConnectInvHolds` | `BSpec => []ConnectInv` |
| `FailureIsClean`, `OwnCalibration` | `[]CleanFailure`, `[]CalibrationIsOwn` |
| `GraphInvHolds` | `BSpec => []GraphInv` |
| `GraphIsScenarios` | `[]GraphFollowsScenario` |
| `BufferTakesMessage` | `[]BufferHoldsMessage` |

*Assumptions.* Of a document: `Sections`, its lists are lists, and `Numbers`, what converts
to a number is one and a geometry has its fields. These say what kind of thing a parsed document is.
That its names are apart and known, its depths inside the water, its taps within the
limit and its range within the envelope is not assumed but proved from `Verdict(doc) = "none"`.

*Argument.* `ConnectInv`: a held device is held for exactly one modem (`Claimed`), a device
that is in HIL mode without being held was there before or lost its exit (`LeftHil`), there is a
calibration for each modem passed and, once the control endpoint is drained, no old one in
the FIFO (`Passed`). `GraphInv`: the document was accepted and its
channels could be built (`Accepted`), the modems passed are open (`Opened`), and the graph is
the one built, wired for exactly the modems passed (`Wired`, `WiredFirst`). The check
list of the loader is a concatenation of lists; the lemmas `HasConcat` and `ChecksPass`
take from "the first that fails is none" that any one of them passed. Names become
indices at two places, in the engine by the order of modems and in the registry by serial
number; `IndexIs` shows that they agree because each serial was claimed once.

For the buffers: the image path of an offset grows with the range (`RootGrows`), so no
path inside the envelope is shorter than the shortest at its near end, the anchor, or longer than the longest at
its far end, and rounding keeps the order (`Roundings`). `SceneExtent` concludes for one
channel, `WorstIs` for the largest over all channels, `CapacityHolds` for the buffer.
TLC checked `ConnectInv` and `GraphInv` on the instance of the listed run (87,376 states).

### TapRendering

`SimulatorProofs` proves, for any set of channels, frame interval, block, batch and
number and length of messages (`RenderingAssumption`):

| theorem | states |
|---|---|
| `RenderInvHolds` | `RenderSpec => []RenderInv` |
| `BlocksJoin`, `RecordGoesOn` | `Seamless`, `RecordContinues` |
| `LastIsHeard` | `[]LastSampleHeard`, if every record is `Steady(c, 7)` |
| `ReadsAreIntact` | `[]ReadsIntact`, if `MarginHolds(c)` for every channel |

*Assumptions.* `Renderable`: a channel is one the loader and make_renderer let through.
The two hypotheses are about records and batches and hold in the listed run.
`Steady(c, s)` says that no tap of c's record moves by more than s samples between two
frames; a scene has no record and is always steady. Between frames Catmull-Rom leaves
their range by no more than an eighth of that step (`CurveBelow`), and nothing in
ReplayTapSource clamps it. So seven samples a frame keep the slowest tap within the sample that the
kernel's look-ahead adds to the tail. `MarginHolds(c)` says that the four samples of margin cover the
overshoot, j samples for a step of 8j, and what a batch is longer than a block:
`MaxBatch + j <= Block + 4`.

The second is not idle. max_batch (source_worker.cpp:64-67) is the largest
input_needed_for_batch of the source's channels: a block of 256, but
ceil(256 * ratio) + 4 for a static channel that shares the source
(farrow_resampler.cpp:61-65). That is 260 at ratio one, which leaves no room for an
overshoot, and 261 for any ratio above one. Then the four samples do not suffice by
themselves, and what `resize` adds by rounding up to a power of two has to.

*Argument.* `RenderInv`: line and cursor move together (`Lockstep`), the last block
ended where the taps are (`Here`, from which `Seamless` follows), it reached as far as
the slowest tap (`Reached`), and the ring holds the last `Capacity` samples of the message
with silence around them (`Filled`). A tap's delay is bounded by the channel's extents:
for a record by `CurveBelow` and the loader's check of its maximum, for a scene because
no path inside the envelope is longer than at its far end (`ExcessBelow`, with the
lemmas of `Bringup`). Then no read of a block is further behind the producer than
extent, drift, overshoot, kernel and pending samples together (`ReadsFrom`,
`DriftBounds`, `ReadsAreKept`), which is what `Capacity` is made of (`CapacityIs`; `PowerBetween` is
needed to see that the rounding ends). Slots that far apart differ (`SlotsDiffer`), so a
write leaves the window alone (`WriteFills`). TLC checked `RenderInv` on the instance of
the listed run (51,103 states).

### ModemIOSession

`ModemIOSessionProofs` proves, for every id width, polling interval, FIFO depth, drain
cap and bound (`SessionAssumption`):

| theorem | states |
|---|---|
| `IInvHolds`, `TypeCorrect` | `Spec => []IInv`, `Spec => []TypeOK` |
| `IdsAgree` | `[]InSync`, with `Behind <= 2` |
| `DataInvHolds` | `Spec => []DataInv` |
| `TailIsKept` | `[]TailKept` |
| `SessionsStayPure`, `GapsAreLosses` | `[]SessionsPure`, `[]NoFalseGaps`, with `Behind <= 2` and `FifoDepth <= DrainCap` |

*Argument.* The two sides restart their ids at different moments, so `InSync` says
something only where both have restarted. `NoEntrySkipped` makes the distance
between them precise: the n-th state the modem enters is a function of n, and the
staged statuses lead from the one the host has published to the modem's without
skipping an entry (`StatusesLead`; the lemmas `StatusGiven` and `StatusTaken` show
it kept when a status is staged at one end and taken at the other). So a published
change of state is exactly one entry later (`Published`), and a host that is one or
two entries behind a modem in RX is in another state and sends nothing
(`SilentWhenBehind`). `RestartAgreed` draws the conclusion: the modem still expects
0 when the host resets `tx_pkt_id_`. From then on a send moves both, none, or, if
it is misreported, the modem alone (`IdStep`).

The data has an invariant of its own, `DataInv`, which rests on `IInv`. `InOrder`: what was
forwarded, and after it what is staged, is in the order it was recorded.
`StagedIsCurrent`: a staged packet is of a TX session the host has not left, or a leftover of
a drain whose read failed. This is where
the drain's cap and `Behind <= 2` are needed: a FIFO deeper than the cap leaves a
rest behind, and a modem three entries ahead records the next session while the drain
of this one still runs. `NumberedInTurn` follows the ids the sequence checker
compares: as long as nothing is lost, misreported or left over, the staged packets and what the modem records next
have the ids it will expect.

### SPSCRingBuffer

`SPSCRingBufferProofs` proves, for every capacity and every `Modulus` that is a multiple
of it and larger (`RingAssumption`; in the code both are powers of two):

| theorem | states |
|---|---|
| `IInvHolds`, `TypeCorrect` | `Spec => []IInv`, `Spec => []TypeOK` |
| `RaceFree`, `HandedOver` | `[]NoSlotRace`, `[]SlotHandedOver` |
| `Refinement` | `Spec => ImplementsFifo` |

*Argument.* `Windows` is the order of the counters: consumed, what each side has loaded
of the other, written, and no more than a capacity between them. `Contents`: each item
stored and not given back is in its slot. `Copied`: so does what the consumer has
copied out. The code computes the fill as the difference of two wrapped counters;
`FilledIsDifference` gives that this is the true difference because it is at most the
capacity and the modulus exceeds that, and `SlotOfWrapped` that the slot of a wrapped
counter is the slot of the counter, which is what the divisibility is for. In
the refinement the publication of a write is one `Fifo` write of all its items, the
publication of a read one read; everything else stutters.

### SourceWorker

`SourceWorkerProofs` proves, for every size, gap, tail and drain (`WorkerAssumption`):

| theorem | states |
|---|---|
| `IInvHolds`, `TypeCorrect` | `Spec => []IInv`, `Spec => []TypeOK` |
| `NothingIsLost`, `NoMessageIsHalf` | `[]NothingLost`, `[]NoHalfMessage` |
| `MessagesNotCut` | `[]MessageNotCut` |
| `AddsNear` | `AddsNearWatermark` |

None of them assumes anything about when the worker polls.

*Argument.* `Accounted`: what is rendered, and after it what is queued, are the accepted
samples by their numbers. `EdgesFollowed` says where the worker stands between the edges
of the published state: a message is open from the entry it saw to the exit it handled,
its record with it, and for each there was a session. `SessionsFollow`: a worker about to
begin a message or to end one faces a session later than the last it began in, so what is
queued is later than every message but the current one, and a message that ends with an
empty ring leaves nothing of its session. `NearWatermark`: an open message stands at or
above the boundary, and a closed one behind it by the tail that its end exposed; that is
where samples fed before the next edge is seen land. The build without arrival alignment
begins its first message at `BaseDelay`, so its bound needs that the first sample
is in a message (`Unheard`).

### ReceiverMix

`ReceiverMixProofs` proves, for any number of sources, packet and chunk
(`MixAssumption`):

| theorem | states |
|---|---|
| `IInvHolds`, `TypeCorrect` | `Spec => []IInv`, `Spec => []TypeOK` |
| `MixedInOrder`, `AllAccounted` | `[]InOrder`, `[]SamplesAccounted` |
| `NoTwoPackets` | `[]NeverTwoPackets`: rx_ring never holds two packets |

*Argument.* `ChunkInProgress` is what holds in the middle of a chunk: the sums are silent
for the sources not yet read into, and what is left of the pull fits below two packets.
`InOrder` then holds of what was mixed and the chunk in progress together: the positions
of each source rise in it, and they are all positions up to its read head (`Heard`).

### RxPacing

`RxPacingProofs` proves, for every tuning (`PacingAssumption`):

| theorem | states |
|---|---|
| `IInvHolds`, `TypeCorrect` | `Spec => []IInv`, `Spec => []TypeOK` |
| `EstimateIsExact` | `[]EstimateExact`, with `BoundsAreWide` |
| `CatchUpIsBounded` | `[]CatchUpBounded`, with `KeepaliveIsRare` |
| `FlowInvHolds` | `Spec => []FlowInv` |
| `NeverIsRefused` | `[]NeverRefused`, with `BoundsAreWide` and `RoomIsEnough` |
| `RateStaysTrue` | `[]DropsDoNotBias`, with `BoundsAreWide`, `KeepaliveIsRare` and `IdsAreMany` |

`BoundsAreWide`: no more statuses under way than there are ids, a latency of no more than
what the modem can hold, and a saturation `MaxAge` of no less than the two together. `KeepaliveIsRare`:
the keepalive (50 ms) is longer than the catch-up slots it would add to. `RoomIsEnough`:
above the target and its hysteresis there is room for a packet for each status that may be
under way, and a keepalive takes longer than playing two packets. `IdsAreMany`: ids do not come round within a status's latency.
The code has 16384 samples of buffer, a target of half of it with 2 % hysteresis (clock_fill_tracker.hpp:32-42),
packets of 255 samples and 65536 ids, which leaves each hypothesis wide room.

*Argument.* The claim is about an anchor that was made from a report of the past and
extrapolated since. `ReportsInStep` says of each status under way what its fill will give
when it is handled: the fill it carries, plus what the host has sent after the packet it
names, less what was played while it travelled, is the modem's fill now (`Waited`), with
the modem's expected id one after that packet. `AnchorInStep` says the same of the
anchor in force. To move from the one to the other one needs that the entry the ring
search finds is the packet the status names: `RingInOrder` (ids in the ring fall by one,
the n-th entry is the packet sent n-th last) and `SessionsInTurn` (how the modem's
state, the statuses under way and the published state follow each other, so an id of
an earlier session is not taken for one of this). `exact` is in the premise of all of
it: a packet reported otherwise than it went ends the claim until an anchor that
covers it. `IdsInStep` says that until then the host's next id is the one the modem
expects, which is what keeps `NeverRefused` from failing on the id. `Paced` bounds how far `due` lies in the past in each place of the loop.

`FlowInv` is a second invariant on top. `NeverRefused` is inductive with `Drained`: since the last decision to send the modem has
played that long and taken no more than that one packet. For the rate, `ReportsCount` says that successive reports of a session,
the one handled last first, differ by one packet sent and by what was played between them, and
`OwnInRing` that the packet a report names is one of this session in the ring: the rate
inferred from two reports is then the true one, whatever was reported otherwise than it went
between them.

### ArrivalAlignment

`ArrivalAlignmentProofs` proves, for every propagation, packet, fill and length
(`AlignmentAssumption`):

| theorem | states |
|---|---|
| `IInvHolds`, `TypeCorrect` | `Spec => []IInv`, `Spec => []TypeOK` |
| `HeardInTime` | `[]NeverEarly` |
| `LatenessIsAccounted` | `[]LatenessExplained` |

*Argument.* `StartNotBefore`: what the worker takes for the start of the transmission is
never earlier than it was, because samples arrive after they are made, for all that the
estimate is the wrong one of its bounds (finding 1). `ReadIsAhead` says what its reads of fill and
depth are worth by the time they are used, `WatermarkFollows` where the boundary is, and `Followed` that
from the placing of the message to its hearing the time left plus the known lateness
stays what the pipeline holds. Since one message is followed and it may be any, the theorem is
about all of them.

*Checked before they were proved.* TLC has checked every `IInv`, `TypeOK` and the
other proved invariants first, on the instance of the listed run: in the configurations
named above, and for `PairBuffer`, `ReceiverMix`, `ModemIOSession` and
`ArrivalAlignment` by naming them under `INVARIANTS` in the `.cfg` of the listed run. The search
for the inductive invariant changed two models: `RxPacing` got the assumption about
`ModemReceives` described above, `ArrivalAlignment` follows any message and no longer the
last.

*Only model-checked.*

* `EventsCount` of `SourceWorker` counts with `SelectSeq`, whose facts need induction over
  data.
* Liveness: `EverythingHeard`, `AllRead`, `AllRendered`, `AllMixed`, `StopEndsRun`,
  `AllForwarded`, `HoldEnds`, `InitializeReturns`; and `ENABLED`. Beyond this prover.

No module uses RECURSIVE operators.

## 5. Not modelled, and the plan

`PROJECT.json` lists each component with the reason, and the hazards no property covers.
Left out for good:

* `BufferPacer` and `PidFillTracker`: built only without
  `OPENCREST_USE_CLOCK_FILL_TRACKER`, one thread, a PI controller whose behaviour is
  that of its floating-point gains.
* calibration arithmetic, noise, filters, resampling, gains: closed floating-point
  formulas without control of their own.
* libusb's descriptors, YAML's syntax, the text of the summary and of the logs.
* the drift that ModemIO publishes as a metric and reads back (modem_io.cpp:244): with
  several modems it may be another one's; it is only displayed.
* experiments and scripts: offline evaluation.

What is left of the safety properties to prove is `EventsCount`. Next would be bounds on
liveness, by a variant proved to decrease: how many steps of its own a worker needs until a message
is rendered.
