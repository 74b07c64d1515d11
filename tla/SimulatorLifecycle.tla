------------------------- MODULE SimulatorLifecycle -------------------------
(***************************************************************************)
(* The life of a run: Simulator::run and ~Simulator on the main thread     *)
(* (simulator/simulator.cpp), one ModemIO thread per modem, one            *)
(* SourceWorker thread per source (channel/channel_engine.cpp), and one    *)
(* call of Simulator::stop, made by the signal handler (main.cpp) or by    *)
(* another thread.  Threads are created, told to stop and joined; what     *)
(* they do in between is in the other modules.  A loop that stores the     *)
(* flags of all workers is one step, since no thread reads two of them.    *)
(***************************************************************************)
EXTENDS Integers

CONSTANTS N,        \* modems
          Sources,  \* indices of the modems that feed a channel
          Caller,   \* who calls stop(): "main" (signal handler) or "other"
          Calm      \* assumption: stop() comes only when every thread is up

ASSUME LifecycleAssumption ==
  /\ N \in Nat \ {0} /\ Sources \subseteq 1..N
  /\ Caller \in {"main", "other"} /\ Calm \in BOOLEAN

VARIABLES
  pc,         \* where "main" is in run, and "stop" in its call of stop()
  k,          \* main's loop index
  running,    \* Simulator::running_
  started,    \* ChannelEngine::started_
  threads,    \* sources with a thread in ChannelEngine::worker_threads_
  hil,        \* modems in HIL mode
  logs,       \* the per-modem MessageEventLogs
  created,    \* modems whose ModemIO exists, wired to the engine
  io, ioRunning,    \* ModemIO threads, ModemIO::running_
  sw, swRunning,    \* SourceWorker threads, SourceWorker::running_
  lost        \* modems whose ModemIO saw a disconnect

engine  == <<started, threads, sw, swRunning>>
modemIO == <<created, io, ioRunning, lost>>
vars == <<pc, k, running, hil, logs, engine, modemIO>>

Modems == 1..N

Init ==
  /\ pc = [main |-> "ready", stop |-> "idle"]   \* initialize() has succeeded
  /\ k = 1
  /\ running = FALSE /\ started = FALSE /\ threads = {}
  /\ hil = {} /\ logs = "unopened" /\ created = {}
  /\ io = [i \in Modems |-> "none"] /\ ioRunning = [i \in Modems |-> FALSE]
  /\ sw = [i \in Sources |-> "none"] /\ swRunning = [i \in Sources |-> FALSE]
  /\ lost = {}

\* A signal handler borrows the main thread: main stands still until it returns.
MainMay == Caller = "main" => pc.stop \in {"idle", "returned"}

Goto(p, label) == pc' = [pc EXCEPT ![p] = label]

\* One step of main, from one label to the next.
MainFrom(label, next) == pc.main = label /\ MainMay /\ Goto("main", next)

Following == IF k = N THEN 1 ELSE k + 1

-----------------------------------------------------------------------------
(* ChannelEngine::stop, called by main in run and by Simulator::stop.      *)

AfterEngine(p) == IF p = "main" THEN "exitHil" ELSE "returned"

MayRun(p) == p = "main" => MainMay

\* Only the caller that turns started_ off does the work; the other returns.
EngineExchange(p) ==
  /\ pc[p] = "exchange" /\ MayRun(p)
  /\ Goto(p, IF started THEN "signal" ELSE AfterEngine(p))
  /\ started' = FALSE
  /\ UNCHANGED <<k, running, hil, logs, threads, sw, swRunning, modemIO>>

EngineSignal(p) ==
  /\ pc[p] = "signal" /\ MayRun(p) /\ Goto(p, "join")
  /\ swRunning' = [i \in Sources |-> FALSE]
  /\ UNCHANGED <<k, running, hil, logs, started, threads, sw, modemIO>>

Joined_First(S) == S = {} \/ \E i \in S : sw[i] = "exited"   \* mutant: joins one
Joined(S) == \A i \in S : sw[i] = "exited"

EngineJoin(p) ==
  /\ pc[p] = "join" /\ MayRun(p) /\ Joined(threads)
  /\ Goto(p, AfterEngine(p))
  /\ threads' = {}
  /\ UNCHANGED <<k, running, hil, logs, started, sw, swRunning, modemIO>>

EngineStop(p) == EngineExchange(p) \/ EngineSignal(p) \/ EngineJoin(p)

-----------------------------------------------------------------------------
(* Simulator::run and ~Simulator.                                          *)

\* run: the flag, then install_observability opens the event logs.
Begin ==
  /\ MainFrom("ready", "hil")
  /\ running' = TRUE /\ logs' = "open"
  /\ UNCHANGED <<k, hil, engine, modemIO>>

\* The loop over the modems: enter_hil_mode and the RX bootstrap.
EnterHil ==
  /\ MainFrom("hil", IF k = N THEN "start" ELSE "hil")
  /\ hil' = hil \cup {k}
  /\ k' = Following
  /\ UNCHANGED <<running, logs, engine, modemIO>>

\* enter_hil_mode throws: stop() finds nothing started, and run returns.
HilFails ==
  /\ MainFrom("hil", "destroy")
  /\ running' = FALSE
  /\ UNCHANGED <<k, hil, logs, engine, modemIO>>

\* ChannelEngine::start: the exchange, then one thread per source.
EngineStart ==
  /\ MainFrom("start", IF started THEN "io" ELSE "spawn")
  /\ started' = TRUE
  /\ UNCHANGED <<k, running, hil, logs, threads, sw, swRunning, modemIO>>

SpawnWorker ==
  /\ MainFrom("spawn", IF k = N THEN "io" ELSE "spawn")
  /\ threads' = threads \cup ({k} \cap Sources)
  /\ sw' = [i \in Sources |-> IF i = k THEN "spawned" ELSE sw[i]]
  /\ k' = Following
  /\ UNCHANGED <<running, hil, logs, started, swRunning, modemIO>>

\* start_io_threads: make the ModemIO, wire_modem_trackers, spawn its thread.
StartIo ==
  /\ MainFrom("io", IF k = N THEN "loop" ELSE "io")
  /\ created' = created \cup {k}
  /\ io' = [io EXCEPT ![k] = "spawned"]
  /\ k' = Following
  /\ UNCHANGED <<running, hil, logs, engine, ioRunning, lost>>

\* The metrics loop ends when running_ is seen off.
LeaveLoop ==
  /\ MainFrom("loop", "joinIo") /\ ~running
  /\ UNCHANGED <<k, running, hil, logs, engine, modemIO>>

JoinedIo_Any == \E i \in Modems : io[i] = "exited"   \* mutant: joins one thread
JoinedIo == \A i \in Modems : io[i] = "exited"

\* join_all_threads
JoinIo ==
  /\ MainFrom("joinIo", "exchange") /\ JoinedIo
  /\ UNCHANGED <<k, running, hil, logs, engine, modemIO>>

\* exit_hil_mode on every modem; one that does not answer is left as it is.
ExitHil ==
  /\ MainFrom("exitHil", "close")
  /\ hil' = {}
  /\ UNCHANGED <<k, running, logs, engine, modemIO>>

\* StreamLogger::finalize, MessageEventLog::close, emit_run_summary.
CloseLogs ==
  /\ MainFrom("close", "destroy")
  /\ logs' = "closed"
  /\ UNCHANGED <<k, running, hil, engine, modemIO>>

\* ~Simulator: its stop() and joins find nothing left, then the members go.
Destroy ==
  /\ MainFrom("destroy", "gone")
  /\ running' = FALSE
  /\ UNCHANGED <<k, hil, logs, engine, modemIO>>

-----------------------------------------------------------------------------
(* Simulator::stop.                                                        *)

Up == /\ pc.main \notin {"ready", "hil", "start", "spawn", "io"}
      /\ \A i \in Modems  : io[i] \in {"loop", "exited"}
      /\ \A i \in Sources : sw[i] \in {"loop", "flush", "exited"}

\* The signal arrives, or another thread calls; running_ is turned off first.
RequestStop ==
  /\ pc.stop = "idle" /\ pc.main # "gone"
  /\ Calm => Up
  /\ Goto("stop", "io")
  /\ running' = FALSE
  /\ UNCHANGED <<k, hil, logs, engine, modemIO>>

Told_AllButLast == created \ {N}   \* mutant: the last worker is not told
Told == created

StopIo ==
  /\ pc.stop = "io"
  /\ Goto("stop", "exchange")
  /\ ioRunning' = [i \in Modems |-> ioRunning[i] /\ i \notin Told]
  /\ UNCHANGED <<k, running, hil, logs, engine, created, io, lost>>

-----------------------------------------------------------------------------
(* The threads.                                                            *)

\* ModemIO::run
IoRun(i) ==
  /\ io[i] = "spawned"
  /\ io' = [io EXCEPT ![i] = "loop"]
  /\ ioRunning' = [ioRunning EXCEPT ![i] = TRUE]
  /\ UNCHANGED <<pc, k, running, hil, logs, engine, created, lost>>

IoExit(i) ==
  /\ io[i] = "loop" /\ ~ioRunning[i]
  /\ io' = [io EXCEPT ![i] = "exited"]
  /\ UNCHANGED <<pc, k, running, hil, logs, engine, created, ioRunning, lost>>

\* A transfer reports that the modem is gone.
Disconnect(i) ==
  /\ io[i] = "loop"
  /\ ioRunning' = [ioRunning EXCEPT ![i] = FALSE]
  /\ lost' = lost \cup {i}
  /\ UNCHANGED <<pc, k, running, hil, logs, engine, created, io>>

\* SourceWorker::run
SwRun(i) ==
  /\ sw[i] = "spawned"
  /\ sw' = [sw EXCEPT ![i] = "loop"]
  /\ swRunning' = [swRunning EXCEPT ![i] = TRUE]
  /\ UNCHANGED <<pc, k, running, hil, logs, started, threads, modemIO>>

\* The last poll, which may record a message, and the flush come after the loop.
SwLeave(i) ==
  /\ sw[i] = "loop" /\ ~swRunning[i]
  /\ sw' = [sw EXCEPT ![i] = "flush"]
  /\ UNCHANGED <<pc, k, running, hil, logs, started, threads, swRunning, modemIO>>

SwExit(i) ==
  /\ sw[i] = "flush"
  /\ sw' = [sw EXCEPT ![i] = "exited"]
  /\ UNCHANGED <<pc, k, running, hil, logs, started, threads, swRunning, modemIO>>

-----------------------------------------------------------------------------
Main == Begin \/ EnterHil \/ HilFails \/ EngineStart \/ SpawnWorker \/ StartIo
        \/ LeaveLoop \/ JoinIo \/ EngineStop("main") \/ ExitHil \/ CloseLogs \/ Destroy

Stop == StopIo \/ EngineStop("stop")

IoThread(i) == IoRun(i) \/ IoExit(i)
SwThread(i) == SwRun(i) \/ SwLeave(i) \/ SwExit(i)

\* The process may end (gone), or run on with nothing left to happen.
Next == \/ Main \/ RequestStop \/ Stop
        \/ \E i \in Modems  : IoThread(i) \/ Disconnect(i)
        \/ \E i \in Sources : SwThread(i)

Spec == Init /\ [][Next]_vars

\* Every thread is scheduled; modems need not fail and nobody needs to call stop.
FairSpec == /\ Spec
            /\ WF_vars(Main) /\ WF_vars(Stop)
            /\ \A i \in Modems  : WF_vars(IoThread(i))
            /\ \A i \in Sources : WF_vars(SwThread(i))

-----------------------------------------------------------------------------
MainLabels == {"ready", "hil", "start", "spawn", "io", "loop", "joinIo", "exchange",
               "signal", "join", "exitHil", "close", "destroy", "gone"}
StopLabels == {"idle", "io", "exchange", "signal", "join", "returned"}

\* Every variable keeps the type of what it stands for.
TypeOK ==
  /\ pc \in [main : MainLabels, stop : StopLabels]
  /\ k \in Modems
  /\ running \in BOOLEAN /\ started \in BOOLEAN
  /\ threads \subseteq Sources /\ hil \subseteq Modems
  /\ created \subseteq Modems /\ lost \subseteq Modems
  /\ logs \in {"unopened", "open", "closed"}
  /\ io \in [Modems -> {"none", "spawned", "loop", "exited"}]
  /\ ioRunning \in [Modems -> BOOLEAN]
  /\ sw \in [Sources -> {"none", "spawned", "loop", "flush", "exited"}]
  /\ swRunning \in [Sources -> BOOLEAN]

\* "Close per-modem event logs before composing the summary so the referenced
\* files are flushed": no SourceWorker is left that could still record a message
\* when the logs are closed, whoever stopped the engine.
LogsClosedLast ==
  logs = "closed" => \A i \in Sources : sw[i] \in {"none", "exited"}

\* A ModemIO thread talks to its modem only while the modem is in HIL mode: the
\* mode is entered before the thread starts and left after it is joined.
IoOnlyInHil == \A i \in Modems : io[i] \in {"spawned", "loop"} => i \in hil

\* When the simulator's members are destroyed no thread runs that uses them (and
\* no std::thread is left joinable, which would end the process).
NoneLeftBehind ==
  pc.main = "gone" => /\ threads = {}
                      /\ \A i \in Modems  : io[i] \in {"none", "exited"}
                      /\ \A i \in Sources : sw[i] \in {"none", "exited"}

\* The inductive invariant behind the three: HIL mode and the ModemIO threads follow
\* main's place in run, a SourceWorker thread that has not exited is in
\* worker_threads_, and while stop() is a signal handler of a run that is up,
\* worker_threads_ is left to somebody who joins it.
Before == {"ready", "hil", "start", "spawn"}
After  == {"exchange", "signal", "join", "exitHil", "close", "destroy", "gone"}
InHil  == {"start", "spawn", "io", "loop", "joinIo", "exchange", "signal", "join", "exitHil"}
Joining == {"signal", "join"}

HilHeld ==
  /\ pc.main = "ready" => k = 1
  /\ pc.main = "hil" => 1..(k - 1) \subseteq hil
  /\ pc.main \in InHil => hil = Modems
  /\ pc.main \in Before => \A i \in Modems : io[i] = "none"
  /\ pc.main \in After => \A i \in Modems : io[i] \in {"none", "exited"}

Owned == \A i \in Sources : sw[i] \in {"none", "exited"} \/ i \in threads

JoinedBySomebody ==
  /\ pc.main \in {"ready", "hil", "start", "exitHil", "close", "destroy", "gone"}
       => threads = {}
  /\ pc.main \in Before \cup {"io"} => pc.stop = "idle"
  /\ pc.main = "spawn" => started
  /\ threads # {} => started \/ pc.stop \in Joining \/ pc.main \in Joining
  /\ logs = "closed" => pc.main \in {"destroy", "gone"}

IInv == /\ TypeOK /\ HilHeld /\ Owned
        /\ Caller = "main" /\ Calm => JoinedBySomebody

\* "called before run()": when a SourceWorker runs, every ModemIO it may query has
\* been created and wired.
WiredBeforeRun == (\E i \in Sources : sw[i] = "loop") => created = Modems

\* "Signal a clean shutdown from any thread": once stop() is called, run ends.
StopEndsRun == pc.stop # "idle" ~> pc.main = "gone"

\* run "Blocks until stop() or any I/O thread signals a fatal error": a disconnected
\* modem ends the run.
FatalErrorEndsRun == lost # {} ~> pc.main = "gone"
=============================================================================
