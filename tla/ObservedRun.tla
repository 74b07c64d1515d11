----------------------------- MODULE ObservedRun ----------------------------
(***************************************************************************)
(* What a run leaves behind, composed with SimulatorLifecycle: the metrics *)
(* line (simulator/metrics.cpp), the processing-time statistics, the event *)
(* logs, the WAV files (logging/) and the run summary.  Every step is a    *)
(* step of the lifecycle with what it does to these, or a step of a thread *)
(* inside its loop.  All the logging flags of the scenario are set.        *)
(***************************************************************************)
EXTENDS SimulatorLifecycle, Sequences, FiniteSets, FiniteSetsExt

CONSTANTS
  Durations, Deadline,   \* of a batch, in buckets, and the one it should meet
  SizeModulus,           \* 2^32 over the bytes of a sample: the header's field
  MaxPackets, MaxMessages, MaxBatches   \* bounds, for each modem's threads

ASSUME ObservedAssumption ==
  /\ Durations \subseteq Nat \ {0} /\ Deadline \in Nat /\ SizeModulus \in Nat \ {0}
  /\ {MaxPackets, MaxMessages, MaxBatches} \subseteq [1..N -> Nat]

VARIABLES
  step,      \* where main is between two labels of run
  counter,   \* one of the counters of Metrics
  shown,     \* history: what the metrics lines have shown of it
  packets,   \* history: packets sent by each modem's thread
  wav,       \* each modem's RX files; the last is being written
  events,    \* each source's event log: its state and its lines
  ended,     \* history: messages each source has ended
  batch,     \* each source's call of ProcessingTimeStats::record
  timed,     \* history: the batches recorded
  stats,     \* ProcessingTimeStats
  summary    \* the run summary, once it is written

observed == <<step, counter, shown, packets, wav, events, ended, batch, timed, stats, summary>>
allVars == <<vars, observed>>

Idle == [time |-> 0, prev |-> 0]
Writing == [samples |-> 0, header |-> 0, open |-> TRUE]

OInit ==
  /\ Init /\ step = "run" /\ counter = 0 /\ shown = 0 /\ summary = <<>>
  /\ packets = [i \in Modems |-> 0] /\ wav = [i \in Modems |-> <<Writing>>]
  /\ events = [i \in Sources |-> [state |-> "closed", lines |-> 0]]
  /\ ended = [i \in Sources |-> 0] /\ batch = [i \in Sources |-> Idle]
  /\ timed = [i \in Sources |-> <<>>]
  /\ stats = [bucket |-> [d \in Durations |-> 0], count |-> 0, most |-> 0, late |-> 0]

-----------------------------------------------------------------------------
(* Files.                                                                  *)

\* patch_header: the sizes are 32 bits wide.
Size(samples) == samples % SizeModulus

\* WavWriter::finalize.
Final(file) ==
  IF file.open THEN [file EXCEPT !.header = Size(file.samples), !.open = FALSE] ELSE file
FinalLast(files) == [files EXCEPT ![Len(files)] = Final(@)]

\* WavWriter::write does nothing to a closed file.
Written(file) == IF file.open THEN [file EXCEPT !.samples = @ + 1] ELSE file

\* Mutant: finalized while the threads that write are still being joined.
MayFinalize_Early == pc.main \in {"joinIo", "close"}
MayFinalize == pc.main = "close"

\* StreamLogger::finalize, from run.
FinalizeWav ==
  /\ MayFinalize /\ MainMay /\ step = "run" /\ step' = "final"
  /\ wav' = [i \in Modems |-> FinalLast(wav[i])]
  /\ UNCHANGED <<vars, counter, shown, packets, events, ended, batch, timed, stats, summary>>

\* MessageEventLog::close on every log.
CloseEvents ==
  /\ pc.main = "close" /\ MainMay /\ step = "final" /\ step' = "closed"
  /\ events' = [i \in Sources |->
                  [events[i] EXCEPT !.state = IF @ = "open" THEN "closed" ELSE @]]
  /\ UNCHANGED <<vars, counter, shown, packets, wav, ended, batch, timed, stats, summary>>

\* The counts of the buckets up to d, one element for each, and their sum.
Counts(s, d) ==
  UNION {{<<e, n>> : n \in 1..s.bucket[e]} : e \in {e \in Durations : e <= d}}
Cumulative(s, d) == Cardinality(Counts(s, d))

\* snapshot's scan of the histogram for the first bucket that reaches the target rank.
Percentile(s, percent) ==
  LET target == (s.count * percent + 99) \div 100
  IN IF s.count = 0 THEN 0
     ELSE CHOOSE d \in Durations :
            /\ Cumulative(s, d) >= target
            /\ \A e \in Durations : e < d => Cumulative(s, e) < target

\* emit_run_summary: a snapshot of the statistics, and the event logs that are open.
EmitSummary ==
  /\ CloseLogs /\ step = "closed" /\ step' = "run"
  /\ summary' = <<[stats |-> stats, median |-> Percentile(stats, 50), packets |-> counter,
                   events |-> {i \in Sources : events[i].state = "open"}]>>
  /\ UNCHANGED <<counter, shown, packets, wav, events, ended, batch, timed, stats>>

\* install_observability; a log that cannot be opened is left out.
Install ==
  /\ Begin
  /\ \E opened \in SUBSET {i \in Sources : MaxMessages[i] > 0} :
       events' = [i \in Sources |-> [state |-> IF i \in opened THEN "open" ELSE "refused", lines |-> 0]]
  /\ UNCHANGED <<step, counter, shown, packets, wav, ended, batch, timed, stats, summary>>

\* ~Simulator finalizes the logger of a run that did not get that far.
Demolish ==
  /\ Destroy /\ wav' = [i \in Modems |-> FinalLast(wav[i])]
  /\ UNCHANGED <<step, counter, shown, packets, events, ended, batch, timed, stats, summary>>

-----------------------------------------------------------------------------
(* The metrics line: print_summary reads, reset then clears.               *)

PrintMetrics ==
  /\ pc.main = "loop" /\ MainMay /\ running /\ step = "run"
  /\ step' = "printed" /\ shown' = shown + counter
  /\ UNCHANGED <<vars, counter, packets, wav, events, ended, batch, timed, stats, summary>>

\* Mutant: the counters run on.
Cleared_Not == counter
Cleared == 0

ResetMetrics ==
  /\ MainMay /\ step = "printed"
  /\ step' = "run" /\ counter' = Cleared
  /\ UNCHANGED <<vars, shown, packets, wav, events, ended, batch, timed, stats, summary>>

\* The other steps of main.
Onward ==
  /\ EnterHil \/ HilFails \/ EngineStart \/ SpawnWorker \/ StartIo \/ JoinIo
     \/ EngineStop("main") \/ ExitHil \/ (step = "run" /\ LeaveLoop)
  /\ UNCHANGED observed

-----------------------------------------------------------------------------
(* The threads.                                                            *)

\* send_rx_data: the packet is counted and logged.
SendPacket(i) ==
  /\ io[i] = "loop" /\ packets[i] < MaxPackets[i]
  /\ packets' = [packets EXCEPT ![i] = @ + 1] /\ counter' = counter + 1
  /\ wav' = [wav EXCEPT ![i][Len(wav[i])] = Written(@)]
  /\ UNCHANGED <<vars, step, shown, events, ended, batch, timed, stats, summary>>

\* begin_rx_session, on entering RX again: one file is finalized, the next one opened.
BeginSession(i) ==
  /\ io[i] = "loop" /\ Len(wav[i]) <= MaxPackets[i]
  /\ wav' = [wav EXCEPT ![i] = Append(FinalLast(wav[i]), Writing)]
  /\ UNCHANGED <<vars, step, counter, shown, packets, events, ended, batch, timed, stats, summary>>

Working(i) == sw[i] \in {"loop", "flush"} /\ batch[i] = Idle

\* MessageEventLog::record at the end of a message; flushed line by line.
EndMessage(i) ==
  /\ Working(i) /\ ended[i] < MaxMessages[i]
  /\ ended' = [ended EXCEPT ![i] = @ + 1]
  /\ events' = [events EXCEPT ![i].lines = IF events[i].state = "open" THEN @ + 1 ELSE @]
  /\ UNCHANGED <<vars, step, counter, shown, packets, wav, batch, timed, stats, summary>>

\* ProcessingTimeStats::record: relaxed increments that nobody reads before the join, and
\* the maximum, loaded and then raised by compare-exchange.
Quiet == UNCHANGED <<vars, step, counter, shown, packets, wav, events, ended, summary>>

Record(i) ==
  /\ Working(i) /\ Len(timed[i]) < MaxBatches[i] /\ Quiet
  /\ \E d \in Durations :
       /\ batch' = [batch EXCEPT ![i] = [time |-> d, prev |-> stats.most]]
       /\ stats' = [stats EXCEPT !.bucket[d] = @ + 1, !.count = @ + 1,
                                 !.late = IF d > Deadline THEN @ + 1 ELSE @]
       /\ timed' = [timed EXCEPT ![i] = Append(@, d)]

\* Mutant: a plain store of what is larger than the value read.
Swaps_Store(i) == batch[i].time > batch[i].prev
\* compare_exchange: only if nobody has raised it since.
Swaps(i) == batch[i].time > batch[i].prev /\ stats.most = batch[i].prev

RaiseMost(i) ==
  /\ batch[i] # Idle /\ Quiet /\ UNCHANGED timed
  /\ \/ /\ Swaps(i)
        /\ stats' = [stats EXCEPT !.most = batch[i].time] /\ batch' = [batch EXCEPT ![i] = Idle]
     \/ /\ batch[i].time > batch[i].prev /\ ~Swaps(i)
        /\ batch' = [batch EXCEPT ![i].prev = stats.most] /\ UNCHANGED stats
     \/ /\ batch[i].time <= batch[i].prev
        /\ batch' = [batch EXCEPT ![i] = Idle] /\ UNCHANGED stats

-----------------------------------------------------------------------------
OMain == Install \/ FinalizeWav \/ CloseEvents \/ EmitSummary \/ Demolish \/ PrintMetrics
         \/ ResetMetrics \/ Onward

\* A worker that records is not at its loop's condition.
OSwThread(i) == RaiseMost(i) \/ (batch[i] = Idle /\ SwThread(i) /\ UNCHANGED observed)
OStop == Stop /\ UNCHANGED observed
OIoThread(i) == IoThread(i) /\ UNCHANGED observed

ONext ==
  \/ OMain \/ OStop \/ (RequestStop /\ UNCHANGED observed)
  \/ \E i \in Modems : \/ OIoThread(i) \/ SendPacket(i) \/ BeginSession(i)
                       \/ Disconnect(i) /\ UNCHANGED observed
  \/ \E i \in Sources : OSwThread(i) \/ EndMessage(i) \/ Record(i)

OSpec == OInit /\ [][ONext]_allVars

OFairSpec ==
  /\ OSpec
  /\ WF_allVars(OMain) /\ WF_allVars(OStop)
  /\ \A i \in Modems : WF_allVars(OIoThread(i))
  /\ \A i \in Sources : WF_allVars(OSwThread(i))

-----------------------------------------------------------------------------
(* Properties.                                                             *)

\* One element for each packet sent, each sample of some files, each batch recorded.
Sent == UNION {{<<i, n>> : n \in 1..packets[i]} : i \in Modems}
Samples(files) == UNION {{<<n, s>> : s \in 1..files[n].samples} : n \in DOMAIN files}
Batches == UNION {{<<i, n>> : n \in DOMAIN timed[i]} : i \in Sources}
Took(b) == timed[b[1]][b[2]]

\* The summary's statistics are those of the whole run, although all sources record into
\* them with separate atomic operations: each batch once, in its bucket, the longest one,
\* those past the deadline, and a median that no more than half lie below or above.
SummaryExact ==
  summary # <<>> =>
    /\ summary[1].stats.count = Cardinality(Batches)
    /\ \A d \in Durations :
         summary[1].stats.bucket[d] = Cardinality({b \in Batches : Took(b) = d})
    /\ summary[1].stats.most = Max({Took(b) : b \in Batches} \union {0})
    /\ summary[1].stats.late = Cardinality({b \in Batches : Took(b) > Deadline})
    /\ 2 * Cardinality({b \in Batches : Took(b) < summary[1].median}) <= Cardinality(Batches)
    /\ 2 * Cardinality({b \in Batches : Took(b) > summary[1].median}) <= Cardinality(Batches)

\* When the run is over every packet sent is in a WAV file, over all its sessions, each
\* with the size of its data in its header unless that wrapped; and every message that
\* ended while its log could be opened is a line of it.
FilesComplete ==
  pc.main = "gone" =>
    /\ \A i \in Modems :
         /\ Cardinality(Samples(wav[i])) = packets[i]
         /\ \A n \in DOMAIN wav[i] :
              ~wav[i][n].open /\ (wav[i][n].samples < SizeModulus => wav[i][n].header = wav[i][n].samples)
    /\ \A i \in Sources : events[i].lines = (IF events[i].state = "refused" THEN 0 ELSE ended[i])

\* An increment is shown on at most one metrics line, whatever happens between the print
\* and the reset.
NothingShownTwice == shown + (IF step = "printed" THEN 0 ELSE counter) <= Cardinality(Sent)

\* What simulator.cpp says of the close before the summary: the event logs that were
\* written are the ones the summary refers to.
SummaryNamesEvents ==
  summary # <<>> => \A i \in Sources : events[i].lines > 0 => i \in summary[1].events

-----------------------------------------------------------------------------
(* The inductive invariant behind SummaryExact, FilesComplete and          *)
(* NothingShownTwice, together with IInv.                                  *)

File == [samples : Nat, header : Nat, open : BOOLEAN]

\* Every variable keeps the type of what it stands for.
OTypeOK ==
  /\ step \in {"run", "printed", "final", "closed"}
  /\ counter \in Nat /\ shown \in Nat /\ packets \in [Modems -> Nat]
  /\ wav \in [Modems -> Seq(File) \ {<<>>}]
  /\ events \in [Sources -> [state : {"closed", "open", "refused"}, lines : Nat]]
  /\ ended \in [Sources -> Nat]
  /\ batch \in [Sources -> [time : Nat, prev : Nat]]
  /\ timed \in [Sources -> Seq(Durations)]
  /\ stats \in [bucket : [Durations -> Nat], count : Nat, most : Nat, late : Nat]

\* A worker is spawned once.
SpawnedOnce ==
  /\ pc.main \in {"ready", "hil", "start"} => \A i \in Sources : sw[i] = "none"
  /\ pc.main = "spawn" => \A i \in Sources : i >= k => sw[i] = "none"

ShownOnce == IsFiniteSet(Sent) /\ NothingShownTwice

\* The samples of a modem's files are its packets; all files but the last are finalized,
\* and the last one is open until its thread has been joined.
Ending == {"close", "destroy", "gone"}
FilesKept ==
  \A i \in Modems :
    /\ IsFiniteSet(Samples(wav[i])) /\ Cardinality(Samples(wav[i])) = packets[i]
    /\ \A n \in DOMAIN wav[i] : IF wav[i][n].open THEN n = Len(wav[i])
                                ELSE wav[i][n].header = Size(wav[i][n].samples)
    /\ pc.main \notin Ending => wav[i][Len(wav[i])].open
    /\ pc.main = "gone" => ~wav[i][Len(wav[i])].open

\* No message ends while its log is closed.
EventsKept ==
  \A i \in Sources :
    /\ events[i].lines = (IF events[i].state = "refused" THEN 0 ELSE ended[i])
    /\ pc.main = "ready" => ended[i] = 0
    /\ events[i].state = "closed" => pc.main \in {"ready"} \union Ending

\* Every batch recorded is counted once wherever it belongs.
Tallied ==
  /\ IsFiniteSet(Batches) /\ stats.count = Cardinality(Batches)
  /\ \A d \in Durations :
       /\ stats.bucket[d] = Cardinality({b \in Batches : Took(b) = d})
       /\ IsFiniteSet(Counts(stats, d))
       /\ Cumulative(stats, d) = Cardinality({b \in Batches : Took(b) <= d})
  /\ stats.late = Cardinality({b \in Batches : Took(b) > Deadline})

\* A batch longer than the maximum is at a source that has yet to raise it.
MostPending ==
  /\ stats.most \in {Took(b) : b \in Batches} \union {0}
  /\ \A b \in Batches : Took(b) <= stats.most \/ Took(b) <= batch[b[1]].time
  /\ \A i \in Sources : batch[i] # Idle =>
       /\ sw[i] \in {"loop", "flush"} /\ batch[i].prev <= stats.most
       /\ batch[i].time \in {Took(b) : b \in Batches}

\* Nothing is recorded after the summary was composed.
SummaryLast ==
  summary # <<>> => /\ pc.main \in {"destroy", "gone"} /\ summary[1].stats = stats
                    /\ summary[1].median = Percentile(stats, 50)

RunInv == /\ OTypeOK /\ SpawnedOnce /\ ShownOnce /\ FilesKept /\ Tallied /\ MostPending
          /\ Caller = "main" /\ Calm => EventsKept /\ SummaryLast
=============================================================================
