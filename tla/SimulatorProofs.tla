-------------------------- MODULE SimulatorProofs ---------------------------
(***************************************************************************)
(* Proofs about Simulator, for any number of modems, sources and batches.  *)
(* run (SimulatorLifecycle): the inductive invariant IInv, and from it the *)
(* order of HIL mode, logs, destruction and the end of the threads.  run as*)
(* its records show it (ObservedRun): RunInv beside it, and from it the    *)
(* summary, the files and the metrics line.  initialize (Bringup):         *)
(* ConnectInv, and from it what a failure leaves behind and whose answer a *)
(* calibration is.  The graph it builds, the capacity of its buffers and   *)
(* what a channel with moving taps reads (TapRendering): RenderInv, and    *)
(* from it the four properties of the delay line and the tap sources.      *)
(***************************************************************************)
EXTENDS ObservedRun, Bringup, TapRendering, FiniteSetTheorems, SequenceTheorems, TLAPS

USE DEF Modems, LifecycleAssumption

\* The initial state satisfies the invariant: no thread, no modem in HIL mode.
LEMMA InitIInv == Init => IInv
<1> SUFFICES ASSUME Init PROVE IInv
    OBVIOUS
<1>1. TypeOK
  <2>1. pc \in [main : MainLabels, stop : StopLabels]
        BY DEF Init, MainLabels, StopLabels
  <2>2. k \in Modems
        BY LifecycleAssumption DEF Init
  <2>3. /\ running \in BOOLEAN /\ started \in BOOLEAN
        /\ threads \subseteq Sources /\ hil \subseteq Modems
        /\ created \subseteq Modems /\ lost \subseteq Modems
        /\ logs \in {"unopened", "open", "closed"}
        BY DEF Init
  <2>4. /\ io \in [Modems -> {"none", "spawned", "loop", "exited"}]
        /\ ioRunning \in [Modems -> BOOLEAN]
        /\ sw \in [Sources -> {"none", "spawned", "loop", "flush", "exited"}]
        /\ swRunning \in [Sources -> BOOLEAN]
        BY DEF Init
  <2> QED BY <2>1, <2>2, <2>3, <2>4 DEF TypeOK
<1>2. HilHeld
      BY DEF Init, HilHeld, Before, After, InHil
<1>3. Owned
      BY DEF Init, Owned
<1>4. JoinedBySomebody
      BY DEF Init, JoinedBySomebody, Before, Joining
<1> QED BY <1>1, <1>2, <1>3, <1>4 DEF IInv

\* Every step keeps the types; Following stays within the modems.
LEMMA TypeStep == TypeOK /\ [Next]_vars => TypeOK'
<1> SUFFICES ASSUME TypeOK, [Next]_vars PROVE TypeOK'
    OBVIOUS
<1>0. Following \in Modems
      BY LifecycleAssumption DEF TypeOK, Following
<1>1. CASE Main
  <2>1. CASE Begin BY <2>1 DEF Begin, MainFrom, Goto, TypeOK, MainLabels, engine, modemIO
  <2>2. CASE EnterHil
        BY <2>2, <1>0 DEF EnterHil, MainFrom, Goto, TypeOK, MainLabels, engine, modemIO
  <2>3. CASE HilFails
        BY <2>3 DEF HilFails, MainFrom, Goto, TypeOK, MainLabels, engine, modemIO
  <2>4. CASE EngineStart
        BY <2>4 DEF EngineStart, MainFrom, Goto, TypeOK, MainLabels, modemIO
  <2>5. CASE SpawnWorker
        BY <2>5, <1>0 DEF SpawnWorker, MainFrom, Goto, TypeOK, MainLabels, modemIO
  <2>6. CASE StartIo
        BY <2>6, <1>0 DEF StartIo, MainFrom, Goto, TypeOK, MainLabels, engine
  <2>7. CASE LeaveLoop \/ JoinIo \/ ExitHil \/ CloseLogs \/ Destroy
        BY <2>7 DEF LeaveLoop, JoinIo, ExitHil, CloseLogs, Destroy, MainFrom, Goto,
                    TypeOK, MainLabels, engine, modemIO
  <2>8. CASE EngineStop("main")
        BY <2>8 DEF EngineStop, EngineExchange, EngineSignal, EngineJoin, AfterEngine,
                    Goto, TypeOK, MainLabels, modemIO
  <2> QED BY <1>1, <2>1, <2>2, <2>3, <2>4, <2>5, <2>6, <2>7, <2>8 DEF Main
<1>2. CASE RequestStop
      BY <1>2 DEF RequestStop, Goto, TypeOK, StopLabels, engine, modemIO
<1>3. CASE StopIo
      BY <1>3 DEF StopIo, Goto, TypeOK, StopLabels, engine
<1>4. CASE EngineStop("stop")
      BY <1>4 DEF EngineStop, EngineExchange, EngineSignal, EngineJoin, AfterEngine,
                  Goto, TypeOK, StopLabels, modemIO
<1>5. ASSUME NEW i \in Modems, IoThread(i) \/ Disconnect(i) PROVE TypeOK'
      BY <1>5 DEF IoThread, IoRun, IoExit, Disconnect, TypeOK, engine
<1>6. ASSUME NEW i \in Sources, SwThread(i) PROVE TypeOK'
      BY <1>6 DEF SwThread, SwRun, SwLeave, SwExit, TypeOK, modemIO
<1>7. CASE UNCHANGED vars
      BY <1>7 DEF vars, engine, modemIO, TypeOK
<1> QED BY <1>1, <1>2, <1>3, <1>4, <1>5, <1>6, <1>7 DEF Next, Stop

\* HIL mode is entered for every modem before the first ModemIO thread is made, and
\* main passes join_all_threads before it leaves the mode.
LEMMA HilStep == TypeOK /\ HilHeld /\ [Next]_vars => HilHeld'
<1> SUFFICES ASSUME TypeOK, HilHeld, [Next]_vars PROVE HilHeld'
    OBVIOUS
<1> USE DEF HilHeld, Before, After, InHil
<1>1. CASE Main
  <2>1. CASE Begin BY <2>1 DEF Begin, MainFrom, Goto, TypeOK, modemIO, engine
  <2>2. CASE EnterHil
    <3>1. /\ pc.main = "hil" /\ hil' = hil \cup {k} /\ io' = io
          /\ pc'.main = IF k = N THEN "start" ELSE "hil"
          /\ k' = IF k = N THEN 1 ELSE k + 1
          BY <2>2, SMTT(30) DEF EnterHil, MainFrom, Goto, TypeOK, Following, modemIO
    <3>2. k \in 1..N /\ N \in Nat /\ hil \subseteq 1..N
          BY LifecycleAssumption DEF TypeOK
    <3>3. 1..k \subseteq hil'
          BY <3>1, <3>2
    <3>4. CASE k = N
          BY <3>1, <3>2, <3>3, <3>4
    <3>5. CASE k # N
          BY <3>1, <3>2, <3>3, <3>5
    <3> QED BY <3>4, <3>5
  <2>3. CASE HilFails BY <2>3 DEF HilFails, MainFrom, Goto, TypeOK, modemIO, engine
  <2>4. CASE EngineStart BY <2>4 DEF EngineStart, MainFrom, Goto, TypeOK, modemIO
  <2>5. CASE SpawnWorker BY <2>5 DEF SpawnWorker, MainFrom, Goto, TypeOK, modemIO
  <2>6. CASE StartIo BY <2>6 DEF StartIo, MainFrom, Goto, TypeOK, engine
  <2>7. CASE LeaveLoop \/ CloseLogs \/ Destroy
        BY <2>7 DEF LeaveLoop, CloseLogs, Destroy, MainFrom, Goto, TypeOK, modemIO, engine
  <2>8. CASE JoinIo \/ ExitHil
        BY <2>8 DEF JoinIo, JoinedIo, ExitHil, MainFrom, Goto, TypeOK, modemIO, engine
  <2>9. CASE EngineStop("main")
        BY <2>9 DEF EngineStop, EngineExchange, EngineSignal, EngineJoin, AfterEngine,
                    Goto, TypeOK, modemIO
  <2> QED BY <1>1, <2>1, <2>2, <2>3, <2>4, <2>5, <2>6, <2>7, <2>8, <2>9 DEF Main
<1>2. CASE RequestStop BY <1>2 DEF RequestStop, Goto, TypeOK, modemIO, engine
<1>3. CASE StopIo BY <1>3 DEF StopIo, Goto, TypeOK, engine
<1>4. CASE EngineStop("stop")
      BY <1>4 DEF EngineStop, EngineExchange, EngineSignal, EngineJoin, AfterEngine,
                  Goto, TypeOK, modemIO
<1>5. ASSUME NEW i \in Modems, IoThread(i) \/ Disconnect(i) PROVE HilHeld'
      BY <1>5 DEF IoThread, IoRun, IoExit, Disconnect, TypeOK, engine
<1>6. ASSUME NEW i \in Sources, SwThread(i) PROVE HilHeld'
      BY <1>6 DEF SwThread, SwRun, SwLeave, SwExit, TypeOK, modemIO
<1>7. CASE UNCHANGED vars
      BY <1>7 DEF vars, engine, modemIO
<1> QED BY <1>1, <1>2, <1>3, <1>4, <1>5, <1>6, <1>7 DEF Next, Stop

\* worker_threads_ is cleared only when all of its threads have exited.
LEMMA OwnedStep == TypeOK /\ Owned /\ [Next]_vars => Owned'
<1> SUFFICES ASSUME TypeOK, Owned, [Next]_vars PROVE Owned'
    OBVIOUS
<1> USE DEF Owned, TypeOK
<1>1. CASE SpawnWorker BY <1>1 DEF SpawnWorker
<1>2. ASSUME NEW p \in {"main", "stop"}, EngineStop(p) PROVE Owned'
      BY <1>2 DEF EngineStop, EngineExchange, EngineSignal, EngineJoin, Joined
<1>3. CASE \/ Begin \/ EnterHil \/ HilFails \/ EngineStart \/ StartIo \/ LeaveLoop
           \/ JoinIo \/ ExitHil \/ CloseLogs \/ Destroy
      BY <1>3 DEF Begin, EnterHil, HilFails, EngineStart, StartIo, LeaveLoop, JoinIo,
                  ExitHil, CloseLogs, Destroy, engine
<1>4. CASE RequestStop \/ StopIo BY <1>4 DEF RequestStop, StopIo, engine
<1>5. ASSUME NEW i \in Modems, IoThread(i) \/ Disconnect(i) PROVE Owned'
      BY <1>5 DEF IoThread, IoRun, IoExit, Disconnect, engine
<1>6. ASSUME NEW i \in Sources, SwThread(i) PROVE Owned'
      BY <1>6 DEF SwThread, SwRun, SwLeave, SwExit
<1>7. CASE UNCHANGED vars BY <1>7 DEF vars, engine
<1> QED BY <1>1, <1>2, <1>3, <1>4, <1>5, <1>6, <1>7 DEF Next, Main, Stop

\* With stop() on the main thread of a run that is up: whoever takes started_ also
\* clears worker_threads_, and main cannot pass it in the meantime.
LEMMA JoinedStep ==
  ASSUME Caller = "main", Calm
  PROVE  TypeOK /\ JoinedBySomebody /\ [Next]_vars => JoinedBySomebody'
<1> SUFFICES ASSUME TypeOK, JoinedBySomebody, [Next]_vars PROVE JoinedBySomebody'
    OBVIOUS
<1> USE DEF JoinedBySomebody, Before, Joining, TypeOK
<1>1. CASE SpawnWorker
      BY <1>1 DEF SpawnWorker, MainFrom, Goto
<1>2. CASE EngineStart
      BY <1>2 DEF EngineStart, MainFrom, Goto
<1>3. CASE EngineStop("main")
  <2>1. MainMay
        BY <1>3 DEF EngineStop, EngineExchange, EngineSignal, EngineJoin, MayRun
  <2>2. pc.stop \notin Joining
        BY <2>1 DEF MainMay
  <2>3. CASE EngineExchange("main")
        BY <2>2, <2>3 DEF EngineExchange, AfterEngine, Goto
  <2>4. CASE EngineSignal("main") \/ EngineJoin("main")
        BY <2>4 DEF EngineSignal, EngineJoin, AfterEngine, Goto
  <2> QED BY <1>3, <2>3, <2>4 DEF EngineStop
<1>4. CASE EngineStop("stop")
      BY <1>4 DEF EngineStop, EngineExchange, EngineSignal, EngineJoin, AfterEngine, Goto
<1>5. CASE Begin \/ EnterHil \/ HilFails \/ StartIo
      BY <1>5 DEF Begin, EnterHil, HilFails, StartIo, MainFrom, Goto, engine
<1>6. CASE LeaveLoop \/ JoinIo \/ ExitHil \/ CloseLogs \/ Destroy
      BY <1>6 DEF LeaveLoop, JoinIo, ExitHil, CloseLogs, Destroy, MainFrom, Goto, engine
<1>7. CASE RequestStop
      BY <1>7 DEF RequestStop, Up, Goto, engine
<1>8. CASE StopIo BY <1>8 DEF StopIo, Goto, engine
<1>9. ASSUME NEW i \in Modems, IoThread(i) \/ Disconnect(i) PROVE JoinedBySomebody'
      BY <1>9 DEF IoThread, IoRun, IoExit, Disconnect, engine
<1>10. ASSUME NEW i \in Sources, SwThread(i) PROVE JoinedBySomebody'
      BY <1>10 DEF SwThread, SwRun, SwLeave, SwExit
<1>11. CASE UNCHANGED vars BY <1>11 DEF vars, engine
<1> QED BY <1>1, <1>2, <1>3, <1>4, <1>5, <1>6, <1>7, <1>8, <1>9, <1>10, <1>11
        DEF Next, Main, Stop

\* The invariant holds in every reachable state.
THEOREM IInvHolds == Spec => []IInv
<1>1. IInv /\ [Next]_vars => IInv'
      BY TypeStep, HilStep, OwnedStep, JoinedStep DEF IInv
<1> QED BY <1>1, InitIInv, PTL DEF Spec

\* Every variable keeps the type of what it stands for.
THEOREM TypeCorrect == Spec => []TypeOK
<1>1. IInv => TypeOK BY DEF IInv
<1> QED BY <1>1, IInvHolds, PTL

\* A ModemIO thread talks to its modem only in HIL mode, whoever calls stop() and
\* whenever: enter_hil_mode comes before the thread, exit_hil_mode after its join.
THEOREM HilOrder == Spec => []IoOnlyInHil
<1>1. IInv => IoOnlyInHil
      BY DEF IInv, TypeOK, HilHeld, IoOnlyInHil, MainLabels, Before, After, InHil
<1> QED BY <1>1, IInvHolds, PTL

\* With a signal handler on the main thread of a run that is up, the event logs are
\* closed after the last SourceWorker has exited.
THEOREM LogsLast ==
  ASSUME Caller = "main", Calm
  PROVE  Spec => []LogsClosedLast
<1>1. IInv => LogsClosedLast
      BY DEF IInv, Owned, JoinedBySomebody, LogsClosedLast
<1> QED BY <1>1, IInvHolds, PTL

\* Under the same assumptions no thread is left when the members are destroyed.
THEOREM NothingRuns ==
  ASSUME Caller = "main", Calm
  PROVE  Spec => []NoneLeftBehind
<1>1. IInv => NoneLeftBehind
      BY DEF IInv, HilHeld, After, Owned, JoinedBySomebody, NoneLeftBehind
<1> QED BY <1>1, IInvHolds, PTL

-----------------------------------------------------------------------------
(* ObservedRun: the recorders beside the lifecycle.                        *)

\* Each step of the composed run is a step of the lifecycle, or none of it.
LEMMA LifecycleStep == [ONext]_allVars => [Next]_vars
<1> SUFFICES ASSUME [ONext]_allVars PROVE [Next]_vars
    OBVIOUS
<1>1. CASE OMain
  <2>1. CASE Install \/ EmitSummary \/ Demolish
        BY <2>1 DEF Install, EmitSummary, Demolish, Next, Main
  <2>2. CASE FinalizeWav \/ CloseEvents \/ PrintMetrics \/ ResetMetrics
        BY <2>2 DEF FinalizeWav, CloseEvents, PrintMetrics, ResetMetrics
  <2>3. CASE Onward BY <2>3 DEF Onward, Next, Main
  <2> QED BY <1>1, <2>1, <2>2, <2>3 DEF OMain
<1>2. CASE OStop \/ (RequestStop /\ UNCHANGED observed)
      BY <1>2 DEF OStop, Next
<1>3. ASSUME NEW i \in Modems, OIoThread(i) \/ (Disconnect(i) /\ UNCHANGED observed)
      PROVE  Next
      BY <1>3 DEF OIoThread, Next
<1>4. ASSUME NEW i \in Modems, SendPacket(i) \/ BeginSession(i) PROVE UNCHANGED vars
      BY <1>4 DEF SendPacket, BeginSession
<1>5. ASSUME NEW i \in Sources, OSwThread(i) PROVE [Next]_vars
      BY <1>5 DEF OSwThread, RaiseMost, Quiet, Next
<1>6. ASSUME NEW i \in Sources, EndMessage(i) \/ Record(i) PROVE UNCHANGED vars
      BY <1>6 DEF EndMessage, Record, Quiet
<1>7. CASE UNCHANGED allVars BY <1>7 DEF allVars
<1> QED BY <1>1, <1>2, <1>3, <1>4, <1>5, <1>6, <1>7 DEF ONext

\* main goes forward: it enters run once, and what it has passed is over.
LEMMA MainForward ==
  TypeOK /\ [Next]_vars =>
    /\ pc.main \in Ending => pc'.main \in Ending
    /\ pc.main \in {"destroy", "gone"} => pc'.main \in {"destroy", "gone"}
    /\ pc'.main = "gone" => pc.main = "gone" \/ Destroy
    /\ pc'.main = "ready" => pc.main = "ready"
<1> SUFFICES ASSUME TypeOK, [Next]_vars
             PROVE  /\ pc.main \in Ending => pc'.main \in Ending
                    /\ pc.main \in {"destroy", "gone"} => pc'.main \in {"destroy", "gone"}
                    /\ pc'.main = "gone" => pc.main = "gone" \/ Destroy
                    /\ pc'.main = "ready" => pc.main = "ready"
    OBVIOUS
<1> USE DEF TypeOK, Ending, Goto
<1>1. CASE Begin \/ EnterHil \/ HilFails \/ EngineStart \/ SpawnWorker \/ StartIo
      BY <1>1 DEF Begin, EnterHil, HilFails, EngineStart, SpawnWorker, StartIo, MainFrom
<1>2. CASE LeaveLoop \/ JoinIo \/ ExitHil \/ CloseLogs
      BY <1>2 DEF LeaveLoop, JoinIo, ExitHil, CloseLogs, MainFrom
<1>3. CASE Destroy BY <1>3 DEF Destroy, MainFrom
<1>4. CASE EngineStop("main")
      BY <1>4 DEF EngineStop, EngineExchange, EngineSignal, EngineJoin, AfterEngine
<1>5. CASE EngineStop("stop")
      BY <1>5 DEF EngineStop, EngineExchange, EngineSignal, EngineJoin, AfterEngine
<1>6. CASE RequestStop \/ StopIo BY <1>6 DEF RequestStop, StopIo
<1>7. CASE UNCHANGED pc BY <1>7
<1>8. ASSUME NEW i \in Modems, IoThread(i) \/ Disconnect(i) PROVE UNCHANGED pc
      BY <1>8 DEF IoThread, IoRun, IoExit, Disconnect
<1>9. ASSUME NEW i \in Sources, SwThread(i) PROVE UNCHANGED pc
      BY <1>9 DEF SwThread, SwRun, SwLeave, SwExit
<1> QED BY <1>1, <1>2, <1>3, <1>4, <1>5, <1>6, <1>7, <1>8, <1>9 DEF Next, Main, Stop, vars

\* The loop of ChannelEngine::start passes each source once.
LEMMA SpawnStep == TypeOK /\ SpawnedOnce /\ [Next]_vars => SpawnedOnce'
<1> SUFFICES ASSUME TypeOK, SpawnedOnce, [Next]_vars PROVE SpawnedOnce'
    OBVIOUS
<1> USE DEF SpawnedOnce, TypeOK
<1>1. CASE Begin \/ EnterHil \/ HilFails \/ EngineStart
      BY <1>1 DEF Begin, EnterHil, HilFails, EngineStart, MainFrom, Goto, engine
<1>2. CASE SpawnWorker
      BY <1>2, LifecycleAssumption DEF SpawnWorker, MainFrom, Goto, Following
<1>3. CASE StartIo \/ LeaveLoop \/ JoinIo \/ ExitHil \/ CloseLogs \/ Destroy
      BY <1>3 DEF StartIo, LeaveLoop, JoinIo, ExitHil, CloseLogs, Destroy, MainFrom, Goto
<1>4. CASE EngineStop("main")
      BY <1>4 DEF EngineStop, EngineExchange, EngineSignal, EngineJoin, AfterEngine, Goto
<1>5. CASE EngineStop("stop")
      BY <1>5 DEF EngineStop, EngineExchange, EngineSignal, EngineJoin, AfterEngine, Goto
<1>6. CASE RequestStop \/ StopIo BY <1>6 DEF RequestStop, StopIo, Goto, engine
<1>7. ASSUME NEW i \in Modems, IoThread(i) \/ Disconnect(i) PROVE SpawnedOnce'
      BY <1>7 DEF IoThread, IoRun, IoExit, Disconnect, engine
<1>8. ASSUME NEW i \in Sources, SwThread(i) PROVE SpawnedOnce'
      BY <1>8 DEF SwThread, SwRun, SwLeave, SwExit
<1>9. CASE UNCHANGED vars BY <1>9 DEF vars, engine
<1> QED BY <1>1, <1>2, <1>3, <1>4, <1>5, <1>6, <1>7, <1>8, <1>9 DEF Next, Main, Stop

\* What each step does to the groups of variables; the rest leaves them.
LEMMA MetricsChange ==
  [ONext]_allVars =>
    \/ UNCHANGED <<step, counter, shown, packets>>
    \/ FinalizeWav \/ CloseEvents \/ EmitSummary \/ PrintMetrics \/ ResetMetrics
    \/ \E i \in Modems : SendPacket(i)
BY DEF ONext, allVars, observed, OMain, Install, Demolish, Onward, OStop, OIoThread,
       BeginSession, OSwThread, RaiseMost, Quiet, EndMessage, Record

LEMMA FilesChange ==
  [ONext]_allVars =>
    \/ UNCHANGED <<wav, packets>>
    \/ FinalizeWav \/ Demolish
    \/ \E i \in Modems : SendPacket(i) \/ BeginSession(i)
BY DEF ONext, allVars, observed, OMain, Install, CloseEvents, EmitSummary, PrintMetrics,
       ResetMetrics, Onward, OStop, OIoThread, OSwThread, RaiseMost, Quiet, EndMessage, Record

LEMMA EventsChange ==
  [ONext]_allVars =>
    \/ UNCHANGED <<events, ended>>
    \/ Install \/ CloseEvents
    \/ \E i \in Sources : EndMessage(i)
BY DEF ONext, allVars, observed, OMain, FinalizeWav, Demolish, EmitSummary, PrintMetrics,
       ResetMetrics, Onward, OStop, OIoThread, SendPacket, BeginSession, OSwThread, RaiseMost,
       Quiet, Record

LEMMA StatsChange ==
  [ONext]_allVars =>
    \/ UNCHANGED <<batch, timed, stats>>
    \/ \E i \in Sources : RaiseMost(i) \/ Record(i)
BY DEF ONext, allVars, observed, OMain, Install, FinalizeWav, CloseEvents, EmitSummary,
       Demolish, PrintMetrics, ResetMetrics, Onward, OStop, OIoThread, SendPacket,
       BeginSession, OSwThread, EndMessage

\* The recorders' part of a step goes with main's.
LEMMA MainWithRecorders ==
  TypeOK /\ [ONext]_allVars =>
    /\ pc'.main = "gone" => pc.main = "gone" \/ Demolish
    /\ pc.main = "ready" => pc'.main = "ready" \/ Install
<1> SUFFICES ASSUME TypeOK, [ONext]_allVars
             PROVE  /\ pc'.main = "gone" => pc.main = "gone" \/ Demolish
                    /\ pc.main = "ready" => pc'.main = "ready" \/ Install
    OBVIOUS
<1> USE DEF TypeOK, Goto
<1>1. CASE Install \/ Demolish BY <1>1 DEF Install, Demolish, Begin, Destroy, MainFrom
<1>2. CASE EmitSummary BY <1>2 DEF EmitSummary, CloseLogs, MainFrom
<1>3. CASE UNCHANGED pc BY <1>3
<1>4. CASE Onward
  <2>1. CASE EnterHil \/ HilFails \/ EngineStart \/ SpawnWorker \/ StartIo
        BY <2>1 DEF EnterHil, HilFails, EngineStart, SpawnWorker, StartIo, MainFrom
  <2>2. CASE JoinIo \/ ExitHil \/ LeaveLoop
        BY <2>2 DEF JoinIo, ExitHil, LeaveLoop, MainFrom
  <2>3. CASE EngineStop("main")
        BY <2>3 DEF EngineStop, EngineExchange, EngineSignal, EngineJoin, AfterEngine
  <2> QED BY <1>4, <2>1, <2>2, <2>3 DEF Onward
<1>5. CASE OStop \/ RequestStop
      BY <1>5 DEF OStop, Stop, StopIo, RequestStop, EngineStop, EngineExchange, EngineSignal,
                  EngineJoin, AfterEngine
<1>6. CASE FinalizeWav \/ CloseEvents \/ PrintMetrics \/ ResetMetrics
      BY <1>6 DEF FinalizeWav, CloseEvents, PrintMetrics, ResetMetrics, vars
<1>7. ASSUME NEW i \in Modems,
             OIoThread(i) \/ SendPacket(i) \/ BeginSession(i) \/ Disconnect(i)
      PROVE  UNCHANGED pc
      BY <1>7 DEF OIoThread, IoThread, IoRun, IoExit, Disconnect, SendPacket, BeginSession, vars
<1>8. ASSUME NEW i \in Sources, OSwThread(i) \/ EndMessage(i) \/ Record(i)
      PROVE  UNCHANGED pc
      BY <1>8 DEF OSwThread, RaiseMost, SwThread, SwRun, SwLeave, SwExit, EndMessage, Record,
                  Quiet, vars
<1>9. CASE UNCHANGED allVars BY <1>9 DEF allVars, vars
<1> QED BY <1>1, <1>2, <1>3, <1>4, <1>5, <1>6, <1>7, <1>8, <1>9 DEF ONext, OMain

-----------------------------------------------------------------------------
(* Types.                                                                  *)

\* A file that is finalized or written to stays a file.
LEMMA FileOps ==
  ASSUME NEW file \in File
  PROVE  /\ Size(file.samples) \in Nat
         /\ Final(file) \in File /\ Written(file) \in File
         /\ Final(file).samples = file.samples /\ ~Final(file).open
         /\ Final(file).header = IF file.open THEN Size(file.samples) ELSE file.header
<1>1. Size(file.samples) \in Nat
      BY ObservedAssumption DEF File, Size
<1>2. Written(file) \in File
      BY DEF File, Written
<1> DEFINE done == [file EXCEPT !.header = Size(file.samples), !.open = FALSE]
<1>3. /\ done \in File /\ done.samples = file.samples /\ ~done.open
      /\ done.header = Size(file.samples)
      BY <1>1 DEF File
<1>4. Final(file) = IF file.open THEN done ELSE file
      BY DEF Final
<1>5. file.open \in BOOLEAN
      BY DEF File
<1> HIDE DEF done
<1> QED BY <1>1, <1>2, <1>3, <1>4, <1>5

\* The sequences of files a modem can have.
Files == Seq(File) \ {<<>>}

LEMMA FilesOps ==
  ASSUME NEW files \in Files
  PROVE  /\ Len(files) \in DOMAIN files /\ Len(files) \in Nat \ {0}
         /\ DOMAIN files = 1..Len(files)
         /\ \A n \in DOMAIN files : files[n] \in File
         /\ FinalLast(files) \in Files /\ Len(FinalLast(files)) = Len(files)
         /\ Append(FinalLast(files), Writing) \in Files
         /\ [files EXCEPT ![Len(files)] = Written(@)] \in Files
         /\ \A n \in DOMAIN files :
              FinalLast(files)[n] = IF n = Len(files) THEN Final(files[n]) ELSE files[n]
<1>1. /\ Len(files) \in DOMAIN files /\ Len(files) \in Nat \ {0}
      /\ DOMAIN files = 1..Len(files)
      /\ \A n \in DOMAIN files : files[n] \in File
      BY DEF Files
<1>2. Final(files[Len(files)]) \in File /\ Written(files[Len(files)]) \in File
      BY <1>1, FileOps
<1>3. \A f \in File : [files EXCEPT ![Len(files)] = f] \in Files
      BY <1>1 DEF Files
<1>4. FinalLast(files) \in Files
      BY <1>1, <1>2, <1>3 DEF FinalLast
<1>5. [files EXCEPT ![Len(files)] = Written(@)] \in Files
      BY <1>1, <1>2, <1>3
<1>6. Len(FinalLast(files)) = Len(files)
      BY <1>1, <1>2, <1>4 DEF FinalLast, Files
<1>7. Writing \in File
      BY DEF Writing, File
<1>8. Append(FinalLast(files), Writing) \in Files
      BY <1>4, <1>7 DEF Files
<1>9. \A n \in DOMAIN files :
        FinalLast(files)[n] = IF n = Len(files) THEN Final(files[n]) ELSE files[n]
      BY <1>1 DEF FinalLast
<1> QED BY <1>1, <1>4, <1>5, <1>6, <1>8, <1>9

\* What record adds to the statistics.
Tallies == [bucket : [Durations -> Nat], count : Nat, most : Nat, late : Nat]
AddTo(s, d) == [s EXCEPT !.bucket[d] = @ + 1, !.count = @ + 1,
                         !.late = IF d > Deadline THEN @ + 1 ELSE @]
LEMMA Recorded ==
  ASSUME NEW s \in Tallies, NEW d \in Durations, NEW s2, s2 = AddTo(s, d)
  PROVE  /\ s2 \in Tallies /\ s2.count = s.count + 1 /\ s2.most = s.most
         /\ s2.late = s.late + (IF d > Deadline THEN 1 ELSE 0)
         /\ \A e \in Durations : s2.bucket[e] = s.bucket[e] + (IF e = d THEN 1 ELSE 0)
<1>1. s = [bucket |-> s.bucket, count |-> s.count, most |-> s.most, late |-> s.late]
      BY DEF Tallies
<1>2. /\ s.bucket \in [Durations -> Nat] /\ s.count \in Nat /\ s.most \in Nat
      /\ s.late \in Nat
      BY DEF Tallies
<1>3. s2 = [bucket |-> [s.bucket EXCEPT ![d] = @ + 1], count |-> s.count + 1,
            most |-> s.most, late |-> IF d > Deadline THEN s.late + 1 ELSE s.late]
      BY <1>1 DEF AddTo
<1>4. [s.bucket EXCEPT ![d] = @ + 1] \in [Durations -> Nat]
      BY <1>2
<1>5. s2 \in Tallies
  <2>1. \A f \in [Durations -> Nat], a \in Nat, b \in Nat, c \in Nat :
          [bucket |-> f, count |-> a, most |-> b, late |-> c] \in Tallies
        BY DEF Tallies
  <2>2. s.count + 1 \in Nat /\ (IF d > Deadline THEN s.late + 1 ELSE s.late) \in Nat
        BY <1>2
  <2> DEFINE f == [s.bucket EXCEPT ![d] = @ + 1]
             c == IF d > Deadline THEN s.late + 1 ELSE s.late
  <2>3. f \in [Durations -> Nat] /\ c \in Nat
        BY <1>4, <2>2
  <2>4. s2 = [bucket |-> f, count |-> s.count + 1, most |-> s.most, late |-> c]
        BY <1>3
  <2> HIDE DEF f, c
  <2>5. [bucket |-> f, count |-> s.count + 1, most |-> s.most, late |-> c] \in Tallies
        BY <1>2, <2>1, <2>2, <2>3, Zenon
  <2> QED BY <2>4, <2>5, Zenon
<1> QED BY <1>2, <1>3, <1>5

\* Every variable of the recorders keeps its type.
LEMMA OTypeStep == OTypeOK /\ [ONext]_allVars => OTypeOK'
<1> SUFFICES ASSUME OTypeOK, [ONext]_allVars PROVE OTypeOK'
    OBVIOUS
<1> USE DEF OTypeOK
<1>1. /\ step' \in {"run", "printed", "final", "closed"}
      /\ counter' \in Nat /\ shown' \in Nat /\ packets' \in [Modems -> Nat]
  <2>1. CASE UNCHANGED <<step, counter, shown, packets>> BY <2>1
  <2>2. CASE FinalizeWav \/ CloseEvents \/ EmitSummary \/ PrintMetrics \/ ResetMetrics
        BY <2>2 DEF FinalizeWav, CloseEvents, EmitSummary, PrintMetrics, ResetMetrics, Cleared
  <2>3. ASSUME NEW i \in Modems, SendPacket(i)
        PROVE  /\ step' = step /\ counter' \in Nat /\ shown' = shown
               /\ packets' \in [Modems -> Nat]
        BY <2>3 DEF SendPacket
  <2> QED BY <2>1, <2>2, <2>3, MetricsChange
<1>2. wav' \in [Modems -> Files]
  <2>0. wav \in [Modems -> Files]
        BY DEF Files
  <2>1. CASE UNCHANGED <<wav, packets>> BY <2>0, <2>1
  <2>2. CASE FinalizeWav \/ Demolish
    <3>1. wav' = [i \in Modems |-> FinalLast(wav[i])]
          BY <2>2 DEF FinalizeWav, Demolish
    <3>2. \A i \in Modems : FinalLast(wav[i]) \in Files
          BY <2>0, FilesOps
    <3> QED BY <3>1, <3>2
  <2>3. ASSUME NEW i \in Modems, SendPacket(i) \/ BeginSession(i)
        PROVE  wav' \in [Modems -> Files]
    <3>1. \/ wav' = [wav EXCEPT ![i] = [wav[i] EXCEPT ![Len(wav[i])] = Written(@)]]
          \/ wav' = [wav EXCEPT ![i] = Append(FinalLast(wav[i]), Writing)]
          BY <2>3, <2>0, Zenon DEF SendPacket, BeginSession
    <3>2. /\ [wav[i] EXCEPT ![Len(wav[i])] = Written(@)] \in Files
          /\ Append(FinalLast(wav[i]), Writing) \in Files
          BY <2>0, FilesOps
    <3> QED BY <3>1, <3>2, <2>0
  <2> QED BY <2>1, <2>2, <2>3, FilesChange
<1>3. /\ events' \in [Sources -> [state : {"closed", "open", "refused"}, lines : Nat]]
      /\ ended' \in [Sources -> Nat]
  <2>1. CASE UNCHANGED <<events, ended>> BY <2>1
  <2>2. CASE Install BY <2>2 DEF Install
  <2>3. CASE CloseEvents BY <2>3 DEF CloseEvents
  <2>4. ASSUME NEW i \in Sources, EndMessage(i)
        PROVE  /\ events' \in [Sources -> [state : {"closed", "open", "refused"}, lines : Nat]]
               /\ ended' \in [Sources -> Nat]
        BY <2>4 DEF EndMessage
  <2> QED BY <2>1, <2>2, <2>3, <2>4, EventsChange
<1>4. /\ batch' \in [Sources -> [time : Nat, prev : Nat]]
      /\ timed' \in [Sources -> Seq(Durations)]
      /\ stats' \in [bucket : [Durations -> Nat], count : Nat, most : Nat, late : Nat]
  <2>1. CASE UNCHANGED <<batch, timed, stats>> BY <2>1
  <2>2. ASSUME NEW i \in Sources, RaiseMost(i)
        PROVE  /\ batch' \in [Sources -> [time : Nat, prev : Nat]]
               /\ timed' = timed
               /\ stats' \in [bucket : [Durations -> Nat], count : Nat, most : Nat, late : Nat]
    <3>1. CASE /\ stats' = [stats EXCEPT !.most = batch[i].time]
               /\ batch' = [batch EXCEPT ![i] = Idle] /\ UNCHANGED timed
          BY <3>1 DEF Idle
    <3>2. CASE batch' = [batch EXCEPT ![i].prev = stats.most] /\ UNCHANGED <<stats, timed>>
          BY <3>2
    <3>3. CASE batch' = [batch EXCEPT ![i] = Idle] /\ UNCHANGED <<stats, timed>>
          BY <3>3 DEF Idle
    <3> QED BY <2>2, <3>1, <3>2, <3>3 DEF RaiseMost
  <2>3. ASSUME NEW i \in Sources, Record(i)
        PROVE  /\ batch' \in [Sources -> [time : Nat, prev : Nat]]
               /\ timed' \in [Sources -> Seq(Durations)]
               /\ stats' \in [bucket : [Durations -> Nat], count : Nat, most : Nat, late : Nat]
    <3>1. PICK d \in Durations :
            /\ batch' = [batch EXCEPT ![i] = [time |-> d, prev |-> stats.most]]
            /\ stats' = AddTo(stats, d)
            /\ timed' = [timed EXCEPT ![i] = Append(@, d)]
          BY <2>3, Zenon DEF Record, AddTo
    <3>2. d \in Nat BY ObservedAssumption
    <3>3. batch' \in [Sources -> [time : Nat, prev : Nat]]
          BY <3>1, <3>2
    <3>4. timed' \in [Sources -> Seq(Durations)]
          BY <3>1
    <3>5. stats' \in [bucket : [Durations -> Nat], count : Nat, most : Nat, late : Nat]
          BY <3>1, Recorded DEF Tallies
    <3> QED BY <3>3, <3>4, <3>5
  <2> QED BY <2>1, <2>2, <2>3, StatsChange
<1> QED BY <1>1, <1>2, <1>3, <1>4 DEF Files

-----------------------------------------------------------------------------
(* The metrics line.                                                       *)

\* The packets sent are counted one by one.
LEMMA OneMoreSent ==
  ASSUME OTypeOK, IsFiniteSet(Sent), NEW i \in Modems,
         packets' = [packets EXCEPT ![i] = @ + 1]
  PROVE  IsFiniteSet(Sent') /\ Cardinality(Sent') = Cardinality(Sent) + 1
<1> DEFINE new == <<i, packets[i] + 1>>
<1>0. packets \in [Modems -> Nat]
      BY DEF OTypeOK
<1>1. new \notin Sent
      BY <1>0 DEF Sent
<1>2. Sent' = Sent \union {new}
  <2>1. \A j \in Modems : packets'[j] = IF j = i THEN packets[i] + 1 ELSE packets[j]
        BY <1>0
  <2>2. ASSUME NEW b \in Sent' PROVE b \in Sent \union {new}
    <3>1. PICK j \in Modems, n \in Nat : n \in 1..packets'[j] /\ b = <<j, n>>
          BY <2>2 DEF Sent
    <3> QED BY <1>0, <2>1, <3>1 DEF Sent
  <2>3. ASSUME NEW b \in Sent PROVE b \in Sent'
    <3>1. PICK j \in Modems, n \in Nat : n \in 1..packets[j] /\ b = <<j, n>>
          BY <2>3 DEF Sent
    <3> QED BY <1>0, <2>1, <3>1 DEF Sent
  <2>4. new \in Sent'
        BY <1>0, <2>1 DEF Sent
  <2> QED BY <2>2, <2>3, <2>4
<1> QED BY <1>1, <1>2, FS_AddElement

\* A packet's increment is in the counter or on a line, until the reset loses it.
LEMMA ShownStep == OTypeOK /\ ShownOnce /\ [ONext]_allVars => ShownOnce'
<1> SUFFICES ASSUME OTypeOK, ShownOnce, [ONext]_allVars PROVE ShownOnce'
    OBVIOUS
<1>0. /\ counter \in Nat /\ shown \in Nat /\ IsFiniteSet(Sent)
      /\ Cardinality(Sent) \in Nat
      /\ shown + (IF step = "printed" THEN 0 ELSE counter) <= Cardinality(Sent)
      BY FS_CardinalityType DEF OTypeOK, ShownOnce, NothingShownTwice
<1>1. CASE UNCHANGED <<step, counter, shown, packets>>
      BY <1>1, <1>0 DEF ShownOnce, NothingShownTwice, Sent
<1>2. CASE FinalizeWav \/ CloseEvents \/ EmitSummary \/ PrintMetrics \/ ResetMetrics
  <2>1. Sent' = Sent
        BY <1>2 DEF FinalizeWav, CloseEvents, EmitSummary, PrintMetrics, ResetMetrics, Sent
  <2>2. shown' + (IF step' = "printed" THEN 0 ELSE counter') <= Cardinality(Sent)
        BY <1>2, <1>0 DEF FinalizeWav, CloseEvents, EmitSummary, PrintMetrics, ResetMetrics,
                          Cleared
  <2> QED BY <1>0, <2>1, <2>2 DEF ShownOnce, NothingShownTwice
<1>3. ASSUME NEW i \in Modems, SendPacket(i) PROVE ShownOnce'
  <2>1. /\ packets' = [packets EXCEPT ![i] = @ + 1] /\ counter' = counter + 1
        /\ UNCHANGED <<step, shown>>
        BY <1>3 DEF SendPacket
  <2>2. IsFiniteSet(Sent') /\ Cardinality(Sent') = Cardinality(Sent) + 1
        BY <1>0, <2>1, OneMoreSent
  <2> QED BY <1>0, <2>1, <2>2 DEF ShownOnce, NothingShownTwice
<1> QED BY <1>1, <1>2, <1>3, MetricsChange

-----------------------------------------------------------------------------
(* Files.                                                                  *)

\* Finalizing the last file and opening another one leave the samples where they are;
\* writing to an open file adds one.
LEMMA SamplesOps ==
  ASSUME NEW files \in Files
  PROVE  /\ Samples(FinalLast(files)) = Samples(files)
         /\ Samples(Append(FinalLast(files), Writing)) = Samples(files)
         /\ files[Len(files)].open /\ IsFiniteSet(Samples(files)) =>
              LET more == Samples([files EXCEPT ![Len(files)] = Written(@)])
              IN  IsFiniteSet(more) /\ Cardinality(more) = Cardinality(Samples(files)) + 1
<1>0. /\ DOMAIN files = 1..Len(files) /\ Len(files) \in Nat \ {0} /\ Len(files) \in DOMAIN files
      /\ \A n \in DOMAIN files : files[n] \in File
      /\ FinalLast(files) \in Files /\ Len(FinalLast(files)) = Len(files)
      BY FilesOps
<1>1. ASSUME NEW g, DOMAIN files \subseteq DOMAIN g,
             \A n \in DOMAIN files : g[n].samples = files[n].samples,
             \A n \in DOMAIN g \ DOMAIN files : g[n].samples = 0
      PROVE  Samples(g) = Samples(files)
  <2>1. ASSUME NEW b \in Samples(g) PROVE b \in Samples(files)
    <3>1. PICK n \in DOMAIN g, s \in Nat : s \in 1..g[n].samples /\ b = <<n, s>>
          BY <2>1 DEF Samples
    <3>2. n \in DOMAIN files
          BY <3>1, <1>1
    <3> QED BY <3>1, <3>2, <1>1 DEF Samples
  <2>2. ASSUME NEW b \in Samples(files) PROVE b \in Samples(g)
    <3>1. PICK n \in DOMAIN files, s \in Nat : s \in 1..files[n].samples /\ b = <<n, s>>
          BY <2>2 DEF Samples
    <3> QED BY <3>1, <1>1 DEF Samples
  <2> QED BY <2>1, <2>2
<1>2. /\ DOMAIN FinalLast(files) = DOMAIN files
      /\ \A n \in DOMAIN files : FinalLast(files)[n].samples = files[n].samples
      BY <1>0, FilesOps, FileOps DEF FinalLast
<1>3. Samples(FinalLast(files)) = Samples(files)
      BY <1>1, <1>2
<1>4. Samples(Append(FinalLast(files), Writing)) = Samples(files)
  <2> DEFINE g == Append(FinalLast(files), Writing)
  <2>1. FinalLast(files) \in Seq(File) /\ Writing \in File /\ Writing.samples = 0
        BY <1>0 DEF Files, Writing, File
  <2>2. /\ DOMAIN g = 1..(Len(files) + 1)
        /\ \A n \in DOMAIN files : g[n] = FinalLast(files)[n]
        /\ g[Len(files) + 1] = Writing
        BY <1>0, <1>2, <2>1
  <2> HIDE DEF g
  <2>3. /\ DOMAIN files \subseteq DOMAIN g
        /\ \A n \in DOMAIN files : g[n].samples = files[n].samples
        /\ \A n \in DOMAIN g \ DOMAIN files : g[n].samples = 0
        BY <1>0, <1>2, <2>1, <2>2
  <2>4. Samples(g) = Samples(files)
        BY <1>1, <2>3
  <2> QED BY <2>4 DEF g
<1>5. ASSUME files[Len(files)].open, IsFiniteSet(Samples(files))
      PROVE  LET more == Samples([files EXCEPT ![Len(files)] = Written(@)])
             IN  IsFiniteSet(more) /\ Cardinality(more) = Cardinality(Samples(files)) + 1
  <2> DEFINE last == files[Len(files)]
             g    == [files EXCEPT ![Len(files)] = Written(@)]
             new  == <<Len(files), last.samples + 1>>
  <2>0. last \in File /\ last.samples \in Nat
        BY <1>0 DEF File
  <2>1. Written(last).samples = last.samples + 1
        BY <1>5, <2>0 DEF Written, File
  <2>2. /\ DOMAIN g = DOMAIN files
        /\ \A n \in DOMAIN files :
             g[n].samples = IF n = Len(files) THEN last.samples + 1 ELSE files[n].samples
        BY <2>1, <1>0
  <2>3. new \notin Samples(files)
        BY <2>0, <1>0 DEF Samples
  <2> HIDE DEF g, last
  <2>4. ASSUME NEW b \in Samples(g) PROVE b \in Samples(files) \union {new}
    <3>1. PICK n \in DOMAIN files, s \in Nat : s \in 1..g[n].samples /\ b = <<n, s>>
          BY <2>4, <2>2 DEF Samples
    <3>2. CASE n = Len(files)
      <4>1. s \in 1..(last.samples + 1)
            BY <3>1, <3>2, <2>2
      <4>2. CASE s = last.samples + 1 BY <4>2, <3>1, <3>2
      <4>3. CASE s # last.samples + 1
            BY <4>1, <4>3, <3>1, <3>2, <2>0 DEF Samples, last
      <4> QED BY <4>2, <4>3
    <3>3. CASE n # Len(files) BY <3>1, <3>3, <2>2 DEF Samples
    <3> QED BY <3>2, <3>3
  <2>5. ASSUME NEW b \in Samples(files) PROVE b \in Samples(g)
    <3>1. PICK n \in DOMAIN files, s \in Nat : s \in 1..files[n].samples /\ b = <<n, s>>
          BY <2>5 DEF Samples
    <3>2. s \in 1..g[n].samples
          BY <3>1, <2>0, <2>2 DEF last
    <3> QED BY <3>1, <3>2, <2>2 DEF Samples
  <2>6. new \in Samples(g)
        BY <2>0, <2>2, <1>0 DEF Samples
  <2>7. Samples(g) = Samples(files) \union {new}
        BY <2>4, <2>5, <2>6
  <2>8. IsFiniteSet(Samples(g)) /\ Cardinality(Samples(g)) = Cardinality(Samples(files)) + 1
        BY <2>3, <2>7, <1>5, FS_AddElement
  <2> QED BY <2>8 DEF g
<1> QED BY <1>3, <1>4, <1>5

\* The header of a file is that of its samples once it is closed, and the last file
\* closes when its writer is gone.
LEMMA FilesStep == IInv /\ OTypeOK /\ FilesKept /\ [ONext]_allVars => FilesKept'
<1> SUFFICES ASSUME IInv, OTypeOK, FilesKept, [ONext]_allVars PROVE FilesKept'
    OBVIOUS
<1>0. /\ wav \in [Modems -> Files] /\ packets \in [Modems -> Nat] /\ TypeOK
      BY DEF OTypeOK, Files, IInv
<1>1. /\ pc.main \in Ending => pc'.main \in Ending
      /\ pc'.main = "gone" => pc.main = "gone" \/ Demolish
      BY <1>0, LifecycleStep, MainForward, MainWithRecorders
<1>2. CASE UNCHANGED <<wav, packets>>
  <2>1. CASE Demolish
    <3>1. pc.main = "destroy" /\ pc'.main = "gone"
          BY <2>1, <1>0 DEF Demolish, Destroy, MainFrom, Goto, TypeOK
    <3>2. \A i \in Modems : wav[i] = FinalLast(wav[i])
          BY <2>1, <1>2, <1>0 DEF Demolish
    <3>3. \A i \in Modems : ~wav[i][Len(wav[i])].open
      <4>1. ASSUME NEW i \in Modems PROVE ~wav[i][Len(wav[i])].open
        <5>1. /\ wav[i] \in Files /\ Len(wav[i]) \in DOMAIN wav[i]
              /\ wav[i][Len(wav[i])] \in File
              BY <1>0, FilesOps
        <5>2. wav[i][Len(wav[i])] = Final(wav[i][Len(wav[i])])
              BY <3>2, <5>1, FilesOps
        <5> QED BY <5>1, <5>2, FileOps
      <4> QED BY <4>1
    <3> QED BY <3>1, <3>3, <1>2 DEF FilesKept, Ending
  <2>2. CASE ~Demolish
        BY <2>2, <1>1, <1>2 DEF FilesKept, Ending
  <2> QED BY <2>1, <2>2
<1>3. CASE FinalizeWav \/ Demolish
  <2>1. /\ wav' = [i \in Modems |-> FinalLast(wav[i])] /\ packets' = packets
        /\ pc'.main \in Ending
        BY <1>3, <1>0 DEF FinalizeWav, MayFinalize, Demolish, Destroy, MainFrom, Goto, TypeOK,
                          vars, Ending
  <2>2. ASSUME NEW i \in Modems
        PROVE  /\ wav'[i] = FinalLast(wav[i])
               /\ DOMAIN wav'[i] = DOMAIN wav[i] /\ Len(wav'[i]) = Len(wav[i])
               /\ Len(wav[i]) \in DOMAIN wav[i]
               /\ \A n \in DOMAIN wav[i] : wav[i][n] \in File
               /\ \A n \in DOMAIN wav[i] :
                    wav'[i][n] = IF n = Len(wav[i]) THEN Final(wav[i][n]) ELSE wav[i][n]
        BY <2>1, <1>0, FilesOps DEF FinalLast
  <2>3. ASSUME NEW i \in Modems
        PROVE  IsFiniteSet(Samples(wav'[i])) /\ Cardinality(Samples(wav'[i])) = packets'[i]
    <3>1. wav[i] \in Files /\ wav'[i] = FinalLast(wav[i]) /\ packets'[i] = packets[i]
          BY <1>0, <2>1
    <3>2. Samples(wav'[i]) = Samples(wav[i])
          BY <3>1, SamplesOps
    <3> QED BY <3>1, <3>2 DEF FilesKept
  <2>4. ASSUME NEW i \in Modems, NEW n \in DOMAIN wav[i]
        PROVE  ~wav'[i][n].open /\ wav'[i][n].header = Size(wav'[i][n].samples)
        BY <2>2, FileOps DEF FilesKept
  <2> QED BY <2>1, <2>2, <2>3, <2>4 DEF FilesKept
<1>4. ASSUME NEW i \in Modems, SendPacket(i) \/ BeginSession(i) PROVE FilesKept'
  <2>1. UNCHANGED vars /\ io[i] = "loop"
        BY <1>4 DEF SendPacket, BeginSession
  <2>2. pc.main \notin Ending /\ pc' = pc
        BY <2>1 DEF IInv, HilHeld, After, Ending, vars
  <2>3. /\ wav[i][Len(wav[i])].open /\ IsFiniteSet(Samples(wav[i]))
        /\ Cardinality(Samples(wav[i])) = packets[i] /\ packets[i] \in Nat
        /\ wav[i] \in Files /\ Len(wav[i]) \in Nat \ {0} /\ Len(wav[i]) \in DOMAIN wav[i]
        /\ DOMAIN wav[i] = 1..Len(wav[i]) /\ \A n \in DOMAIN wav[i] : wav[i][n] \in File
        BY <1>0, <2>2, FilesOps DEF FilesKept
  <2>4. ASSUME NEW j \in Modems \ {i}
        PROVE  wav'[j] = wav[j] /\ packets'[j] = packets[j]
        BY <1>0, <1>4 DEF SendPacket, BeginSession
  <2>5. CASE SendPacket(i)
    <3>1. /\ wav'[i] = [wav[i] EXCEPT ![Len(wav[i])] = Written(@)]
          /\ packets'[i] = packets[i] + 1
          BY <1>0, <2>5 DEF SendPacket
    <3>2. IsFiniteSet(Samples(wav'[i])) /\ Cardinality(Samples(wav'[i])) = packets'[i]
          BY <2>3, <3>1, SamplesOps
    <3>3. /\ DOMAIN wav'[i] = DOMAIN wav[i] /\ Len(wav'[i]) = Len(wav[i])
          /\ wav'[i][Len(wav[i])].open
          /\ \A n \in DOMAIN wav[i] : n # Len(wav[i]) => wav'[i][n] = wav[i][n]
          BY <2>3, <3>1 DEF Written, File, Files
    <3>4. \A n \in DOMAIN wav[i] : IF wav'[i][n].open THEN n = Len(wav'[i])
                                   ELSE wav'[i][n].header = Size(wav'[i][n].samples)
          BY <2>3, <3>3 DEF FilesKept
    <3>5. /\ wav'[i][Len(wav'[i])].open /\ pc'.main \notin Ending /\ pc'.main # "gone"
          /\ \A n \in DOMAIN wav'[i] : IF wav'[i][n].open THEN n = Len(wav'[i])
                                      ELSE wav'[i][n].header = Size(wav'[i][n].samples)
          BY <2>2, <3>3, <3>4 DEF Ending
    <3>6. ASSUME NEW j \in Modems
          PROVE  /\ IsFiniteSet(Samples(wav'[j])) /\ Cardinality(Samples(wav'[j])) = packets'[j]
                 /\ \A n \in DOMAIN wav'[j] : IF wav'[j][n].open THEN n = Len(wav'[j])
                                             ELSE wav'[j][n].header = Size(wav'[j][n].samples)
                 /\ pc'.main \notin Ending' => wav'[j][Len(wav'[j])].open
                 /\ pc'.main = "gone" => ~wav'[j][Len(wav'[j])].open
      <4>1. CASE j = i BY <4>1, <3>2, <3>5
      <4>2. CASE j # i BY <4>2, <2>2, <2>4 DEF FilesKept, Ending
      <4> QED BY <4>1, <4>2
    <3> QED BY <3>6 DEF FilesKept
  <2>6. CASE BeginSession(i)
    <3>1. /\ wav'[i] = Append(FinalLast(wav[i]), Writing) /\ packets'[i] = packets[i]
          BY <1>0, <2>6 DEF BeginSession
    <3>2. IsFiniteSet(Samples(wav'[i])) /\ Cardinality(Samples(wav'[i])) = packets'[i]
          BY <2>3, <3>1, SamplesOps
    <3>3. FinalLast(wav[i]) \in Seq(File) /\ Len(FinalLast(wav[i])) = Len(wav[i])
          BY <2>3, FilesOps DEF Files
    <3>4. /\ Len(wav'[i]) = Len(wav[i]) + 1 /\ DOMAIN wav'[i] = 1..(Len(wav[i]) + 1)
          /\ wav'[i][Len(wav[i]) + 1] = Writing
          /\ \A n \in DOMAIN wav[i] : wav'[i][n] = FinalLast(wav[i])[n]
          BY <2>3, <3>1, <3>3
    <3>5. ASSUME NEW n \in DOMAIN wav[i]
          PROVE  ~wav'[i][n].open /\ wav'[i][n].header = Size(wav'[i][n].samples)
      <4>1. wav'[i][n] = IF n = Len(wav[i]) THEN Final(wav[i][n]) ELSE wav[i][n]
            BY <2>3, <3>4, FilesOps
      <4> QED BY <2>3, <4>1, FileOps DEF FilesKept
    <3>6. wav'[i][Len(wav'[i])].open
          BY <3>4 DEF Writing
    <3>7. ASSUME NEW n \in DOMAIN wav'[i]
          PROVE  IF wav'[i][n].open THEN n = Len(wav'[i])
                 ELSE wav'[i][n].header = Size(wav'[i][n].samples)
      <4>1. CASE n \in DOMAIN wav[i] BY <3>5, <4>1
      <4>2. CASE n = Len(wav'[i]) BY <3>6, <4>2
      <4> QED BY <2>3, <3>4, <4>1, <4>2
    <3>8. ASSUME NEW j \in Modems
          PROVE  /\ IsFiniteSet(Samples(wav'[j])) /\ Cardinality(Samples(wav'[j])) = packets'[j]
                 /\ \A n \in DOMAIN wav'[j] : IF wav'[j][n].open THEN n = Len(wav'[j])
                                             ELSE wav'[j][n].header = Size(wav'[j][n].samples)
                 /\ pc'.main \notin Ending' => wav'[j][Len(wav'[j])].open
                 /\ pc'.main = "gone" => ~wav'[j][Len(wav'[j])].open
      <4>1. CASE j = i BY <4>1, <2>2, <3>2, <3>6, <3>7 DEF Ending
      <4>2. CASE j # i BY <4>2, <2>2, <2>4 DEF FilesKept, Ending
      <4> QED BY <4>1, <4>2
    <3> QED BY <3>8 DEF FilesKept
  <2> QED BY <1>4, <2>5, <2>6
<1> QED BY <1>2, <1>3, <1>4, FilesChange

\* The logs are closed when the workers have exited, and opened before any message ends.
LEMMA EventsStep ==
  ASSUME Caller = "main", Calm
  PROVE  IInv /\ SpawnedOnce /\ OTypeOK /\ EventsKept /\ [ONext]_allVars => EventsKept'
<1> SUFFICES ASSUME IInv, SpawnedOnce, OTypeOK, EventsKept, [ONext]_allVars PROVE EventsKept'
    OBVIOUS
<1>0. /\ events \in [Sources -> [state : {"closed", "open", "refused"}, lines : Nat]]
      /\ ended \in [Sources -> Nat] /\ TypeOK
      BY DEF OTypeOK, IInv
<1>1. /\ pc.main \in Ending => pc'.main \in Ending
      /\ pc.main = "ready" => pc'.main = "ready" \/ Install
      /\ pc'.main = "ready" => pc.main = "ready"
      BY <1>0, LifecycleStep, MainForward, MainWithRecorders
<1>2. CASE Install
  <2>1. pc.main = "ready" /\ pc'.main # "ready" /\ ended' = ended
        BY <1>0, <1>2 DEF Install, Begin, MainFrom, Goto, TypeOK
  <2>2. PICK opened \in SUBSET {i \in Sources : MaxMessages[i] > 0} :
          events' = [i \in Sources |->
                       [state |-> IF i \in opened THEN "open" ELSE "refused", lines |-> 0]]
        BY <1>2 DEF Install
  <2> QED BY <2>1, <2>2 DEF EventsKept
<1>3. CASE UNCHANGED <<events, ended>> /\ ~Install
      BY <1>1, <1>3 DEF EventsKept, Ending
<1>4. CASE CloseEvents
  <2>1. pc.main \in Ending /\ pc' = pc /\ ended' = ended
        BY <1>4 DEF CloseEvents, Ending, vars
  <2>2. \A i \in Sources : /\ events'[i].lines = events[i].lines
                           /\ events'[i].state = "refused" <=> events[i].state = "refused"
        BY <1>0, <1>4 DEF CloseEvents
  <2> QED BY <2>1, <2>2 DEF EventsKept, Ending
<1>5. ASSUME NEW i \in Sources, EndMessage(i) PROVE EventsKept'
  <2>1. /\ sw[i] \in {"loop", "flush"} /\ pc' = pc
        /\ ended' = [ended EXCEPT ![i] = @ + 1]
        /\ events' = [events EXCEPT ![i].lines = IF events[i].state = "open" THEN @ + 1 ELSE @]
        BY <1>5 DEF EndMessage, Working, vars
  <2>2. pc.main \notin {"ready"} \union Ending
        BY <2>1 DEF IInv, Owned, JoinedBySomebody, SpawnedOnce, Ending
  <2>3. events[i].state # "closed"
        BY <2>2 DEF EventsKept
  <2>4. /\ events'[i].state = events[i].state
        /\ events'[i].lines = events[i].lines + (IF events[i].state = "open" THEN 1 ELSE 0)
        /\ ended'[i] = ended[i] + 1
        /\ \A j \in Sources \ {i} : events'[j] = events[j] /\ ended'[j] = ended[j]
        BY <1>0, <2>1
  <2> QED BY <1>0, <2>1, <2>2, <2>3, <2>4 DEF EventsKept
<1> QED BY <1>2, <1>3, <1>4, <1>5, EventsChange

-----------------------------------------------------------------------------
(* Processing times.                                                       *)

\* Of a set of numbers there is a least one, and of a bounded one a greatest.
LEMMA LeastOf ==
  ASSUME NEW S, S \subseteq Nat, S # {}
  PROVE  \E m \in S : \A x \in S : m <= x
<1>1. \E m \in S : \A y \in S : ~(<<y, m>> \in OpToRel(<, Nat))
      BY NatLessThanWellFounded, WFMin
<1>2. \A x, y \in Nat : x < y => <<x, y>> \in OpToRel(<, Nat)
      BY Zenon DEF OpToRel
<1>3. \E m \in S : \A y \in S : ~(y < m)
      BY <1>1, <1>2, Zenon
<1> QED BY <1>3

LEMMA GreatestOf ==
  ASSUME NEW S, S \subseteq Nat, S # {}, NEW bound \in Nat, \A x \in S : x <= bound
  PROVE  \E m \in S : \A x \in S : x <= m
<1> DEFINE T == {bound - x : x \in S}
<1>1. T \subseteq Nat /\ T # {}
  <2>1. \A x \in S : x \in Nat /\ x <= bound
        OBVIOUS
  <2>2. \A x \in S : bound - x \in Nat
        BY <2>1
  <2> QED BY <2>2
<1>2. PICK t \in T : \A u \in T : t <= u
      BY <1>1, LeastOf
<1>3. PICK m \in S : t = bound - m
      OBVIOUS
<1>4. \A x \in S : bound - m <= bound - x
      BY <1>2, <1>3
<1>5. \A x \in S : x <= m
      BY <1>4
<1> QED BY <1>5

\* A batch is of a source and took one of the durations.
LEMMA TookDuration ==
  ASSUME OTypeOK
  PROVE  \A b \in Batches : b[1] \in Sources /\ Took(b) \in Durations
<1> SUFFICES ASSUME NEW b \in Batches PROVE b[1] \in Sources /\ Took(b) \in Durations
    OBVIOUS
<1>1. PICK j \in Sources : \E n \in DOMAIN timed[j] : b = <<j, n>>
      BY DEF Batches
<1>2. timed[j] \in Seq(Durations)
      BY DEF OTypeOK
<1> QED BY <1>1, <1>2 DEF Took

\* One more batch is one more element of Batches, with the time it took.
LEMMA OneMoreBatch ==
  ASSUME OTypeOK, NEW i \in Sources, NEW d \in Durations,
         timed' = [timed EXCEPT ![i] = Append(@, d)],
         NEW new, new = <<i, Len(timed[i]) + 1>>
  PROVE  /\ new \notin Batches /\ Batches' = Batches \union {new} /\ Took(new)' = d
         /\ \A b \in Batches : Took(b)' = Took(b)
<1>0. /\ timed \in [Sources -> Seq(Durations)] /\ timed[i] \in Seq(Durations)
      /\ Len(timed[i]) \in Nat /\ DOMAIN timed[i] = 1..Len(timed[i])
      BY DEF OTypeOK
<1>1. /\ timed'[i] = Append(timed[i], d)
      /\ \A j \in Sources \ {i} : timed'[j] = timed[j]
      BY <1>0
<1>2. /\ DOMAIN timed'[i] = 1..(Len(timed[i]) + 1)
      /\ timed'[i][Len(timed[i]) + 1] = d
      /\ \A n \in DOMAIN timed[i] : timed'[i][n] = timed[i][n]
      BY <1>0, <1>1
<1>3. new \notin Batches
      BY <1>0 DEF Batches
<1>4. ASSUME NEW b \in Batches' PROVE b \in Batches \union {new}
  <2>1. PICK j \in Sources : \E n \in DOMAIN timed'[j] : b = <<j, n>>
        BY <1>4 DEF Batches
  <2>2. CASE j = i
    <3>1. PICK n \in 1..(Len(timed[i]) + 1) : b = <<i, n>>
          BY <2>1, <2>2, <1>2
    <3>2. CASE n = Len(timed[i]) + 1 BY <3>1, <3>2
    <3>3. CASE n # Len(timed[i]) + 1 BY <3>1, <3>3, <1>0 DEF Batches
    <3> QED BY <3>2, <3>3
  <2>3. CASE j # i BY <2>1, <2>3, <1>1 DEF Batches
  <2> QED BY <2>2, <2>3
<1>5. ASSUME NEW b \in Batches PROVE b \in Batches' /\ Took(b)' = Took(b)
  <2>1. PICK j \in Sources : \E n \in DOMAIN timed[j] : b = <<j, n>>
        BY <1>5 DEF Batches
  <2>2. PICK n \in DOMAIN timed[j] : b = <<j, n>>
        BY <2>1
  <2>3. n \in DOMAIN timed'[j] /\ timed'[j][n] = timed[j][n]
    <3>1. CASE j = i BY <3>1, <2>2, <1>0, <1>2
    <3>2. CASE j # i BY <3>2, <1>1, <2>2
    <3> QED BY <3>1, <3>2
  <2> QED BY <2>2, <2>3 DEF Batches, Took
<1>6. new \in Batches' /\ Took(new)' = d
      BY <1>0, <1>2 DEF Batches, Took
<1>7. Batches' = Batches \union {new}
      BY <1>4, <1>5, <1>6
<1> QED BY <1>3, <1>5, <1>6, <1>7

\* Adding a batch adds one to the number of those of a kind, if it is of that kind.
LEMMA OneMoreOfThem ==
  ASSUME NEW old, NEW new, IsFiniteSet(old), new \notin old, NEW S, NEW T,
         S \subseteq old, T = S \/ T = S \union {new}
  PROVE  /\ IsFiniteSet(S) /\ IsFiniteSet(T)
         /\ Cardinality(S) \in Nat /\ Cardinality(T) \in Nat
         /\ Cardinality(T) = Cardinality(S) + (IF new \in T THEN 1 ELSE 0)
<1>1. IsFiniteSet(S) /\ Cardinality(S) \in Nat
      BY FS_Subset, FS_CardinalityType
<1>2. new \notin S
      OBVIOUS
<1>3. CASE T = S
      BY <1>1, <1>2, <1>3
<1>4. CASE T = S \union {new}
  <2>1. IsFiniteSet(S \union {new}) /\ Cardinality(S \union {new}) = Cardinality(S) + 1
        BY <1>1, <1>2, FS_AddElement
  <2> QED BY <1>1, <1>4, <2>1
<1> QED BY <1>3, <1>4

\* The scan's running sum after a batch was counted.
LEMMA CountsGrow ==
  ASSUME NEW s \in Tallies, NEW s2 \in Tallies, NEW d \in Durations, NEW e \in Durations,
         \A x \in Durations : s2.bucket[x] = s.bucket[x] + (IF x = d THEN 1 ELSE 0),
         IsFiniteSet(Counts(s, e))
  PROVE  /\ IsFiniteSet(Counts(s2, e)) /\ Cumulative(s, e) \in Nat
         /\ Cumulative(s2, e) = Cumulative(s, e) + (IF d <= e THEN 1 ELSE 0)
<1> DEFINE new == <<d, s.bucket[d] + 1>>
<1>0. /\ \A x \in Durations : s.bucket[x] \in Nat /\ s2.bucket[x] \in Nat
      /\ Durations \subseteq Nat
      BY ObservedAssumption DEF Tallies
<1>1. Cumulative(s, e) \in Nat
      BY FS_CardinalityType DEF Cumulative
<1>2. ASSUME NEW t, NEW b
      PROVE  b \in Counts(t, e) <=>
               \E x \in Durations, n \in Nat : x <= e /\ n \in 1..t.bucket[x] /\ b = <<x, n>>
      BY DEF Counts
<1>3. new \notin Counts(s, e)
      BY <1>0, <1>2
<1>4. \A b \in Counts(s, e) : b \in Counts(s2, e)
  <2> SUFFICES ASSUME NEW b \in Counts(s, e) PROVE b \in Counts(s2, e)
      OBVIOUS
  <2>1. PICK x \in Durations, n \in Nat : x <= e /\ n \in 1..s.bucket[x] /\ b = <<x, n>>
        BY <1>2
  <2>2. n \in 1..s2.bucket[x]
        BY <1>0, <2>1
  <2> QED BY <1>2, <2>1, <2>2
<1>5. \A b \in Counts(s2, e) : b \in Counts(s, e) \/ (b = new /\ d <= e)
  <2> SUFFICES ASSUME NEW b \in Counts(s2, e) PROVE b \in Counts(s, e) \/ (b = new /\ d <= e)
      OBVIOUS
  <2>1. PICK x \in Durations, n \in Nat : x <= e /\ n \in 1..s2.bucket[x] /\ b = <<x, n>>
        BY <1>2
  <2>2. n \in 1..s.bucket[x] \/ (x = d /\ n = s.bucket[d] + 1)
        BY <1>0, <2>1
  <2> QED BY <1>2, <2>1, <2>2
<1>6. CASE d <= e
  <2>1. new \in Counts(s2, e)
    <3>1. s.bucket[d] + 1 \in Nat /\ s.bucket[d] + 1 \in 1..s2.bucket[d]
          BY <1>0
    <3> QED BY <1>2, <1>6, <3>1
  <2>2. Counts(s2, e) = Counts(s, e) \union {new}
        BY <1>4, <1>5, <2>1
  <2>3. IsFiniteSet(Counts(s2, e)) /\ Cumulative(s2, e) = Cumulative(s, e) + 1
        BY <1>3, <2>2, FS_AddElement DEF Cumulative
  <2> QED BY <1>1, <1>6, <2>3
<1>7. CASE ~(d <= e)
  <2>1. Counts(s2, e) = Counts(s, e)
        BY <1>4, <1>5, <1>7
  <2> QED BY <1>1, <1>7, <2>1 DEF Cumulative
<1> QED BY <1>6, <1>7

\* The statistics count each batch where it belongs.
LEMMA TallyStep == OTypeOK /\ Tallied /\ [ONext]_allVars => Tallied'
<1> SUFFICES ASSUME OTypeOK, Tallied, [ONext]_allVars PROVE Tallied'
    OBVIOUS
<1>1. CASE UNCHANGED <<timed, stats.bucket, stats.count, stats.late>>
  <2>1. Batches' = Batches /\ \A b : Took(b)' = Took(b)
        BY <1>1 DEF Batches, Took
  <2>2. \A d \in Durations : Counts(stats, d)' = Counts(stats, d)
        BY <1>1 DEF Counts
  <2> QED BY <1>1, <2>1, <2>2 DEF Tallied, Cumulative
<1>2. ASSUME NEW i \in Sources, RaiseMost(i)
      PROVE  UNCHANGED <<timed, stats.bucket, stats.count, stats.late>>
      BY <1>2 DEF RaiseMost, OTypeOK
<1>3. ASSUME NEW i \in Sources, Record(i) PROVE Tallied'
  <2>1. PICK d \in Durations :
          /\ stats' = AddTo(stats, d)
          /\ timed' = [timed EXCEPT ![i] = Append(@, d)]
        BY <1>3, Zenon DEF Record, AddTo
  <2>2. PICK new : new = <<i, Len(timed[i]) + 1>>
        OBVIOUS
  <2>3. /\ new \notin Batches /\ Batches' = Batches \union {new} /\ Took(new)' = d
        /\ \A b \in Batches : Took(b)' = Took(b)
        BY <2>1, <2>2, OneMoreBatch
  <2>4. stats \in Tallies
        BY DEF OTypeOK, Tallies
  <2>5. /\ stats' \in Tallies /\ stats'.count = stats.count + 1
        /\ stats'.late = stats.late + (IF d > Deadline THEN 1 ELSE 0)
        /\ \A e \in Durations : stats'.bucket[e] = stats.bucket[e] + (IF e = d THEN 1 ELSE 0)
        BY <2>1, <2>4, Recorded
  <2>6. IsFiniteSet(Batches) /\ d \in Nat /\ Durations \subseteq Nat /\ Deadline \in Nat
        BY ObservedAssumption DEF Tallied
  <2>7. IsFiniteSet(Batches') /\ stats'.count = Cardinality(Batches')
    <3>1. IsFiniteSet(Batches') /\ Cardinality(Batches') = Cardinality(Batches) + 1
          BY <2>3, <2>6, FS_AddElement
    <3> QED BY <2>5, <3>1 DEF Tallied
  <2>8. stats'.late = Cardinality({b \in Batches' : Took(b)' > Deadline})
    <3> DEFINE S == {b \in Batches : Took(b) > Deadline}
               T == {b \in Batches' : Took(b)' > Deadline}
    <3>1. T = S \union (IF d > Deadline THEN {new} ELSE {})
          BY <2>3
    <3>2. /\ S \subseteq Batches
          /\ T = S \/ T = S \union {new}
          /\ new \in T <=> d > Deadline
          BY <2>3, <3>1
    <3> HIDE DEF S, T
    <3>3. Cardinality(T) = Cardinality(S) + (IF new \in T THEN 1 ELSE 0)
          BY <2>3, <2>6, <3>2, OneMoreOfThem
    <3>4. stats.late = Cardinality(S)
          BY DEF Tallied, S
    <3> QED BY <2>5, <3>2, <3>3, <3>4 DEF T
  <2>9. ASSUME NEW e \in Durations
        PROVE  stats'.bucket[e] = Cardinality({b \in Batches' : Took(b)' = e})
    <3> DEFINE S == {b \in Batches : Took(b) = e}
               T == {b \in Batches' : Took(b)' = e}
    <3>1. T = S \union (IF d = e THEN {new} ELSE {})
          BY <2>3
    <3>2. /\ S \subseteq Batches
          /\ T = S \/ T = S \union {new}
          /\ new \in T <=> d = e
          BY <2>3, <3>1
    <3> HIDE DEF S, T
    <3>3. Cardinality(T) = Cardinality(S) + (IF new \in T THEN 1 ELSE 0)
          BY <2>3, <2>6, <3>2, OneMoreOfThem
    <3>4. stats.bucket[e] = Cardinality(S)
          BY DEF Tallied, S
    <3> QED BY <2>5, <3>2, <3>3, <3>4 DEF T
  <2>10. ASSUME NEW e \in Durations
         PROVE  /\ IsFiniteSet(Counts(stats', e))
                /\ Cumulative(stats', e) = Cardinality({b \in Batches' : Took(b)' <= e})
    <3> DEFINE S == {b \in Batches : Took(b) <= e}
               T == {b \in Batches' : Took(b)' <= e}
    <3>1. T = S \union (IF d <= e THEN {new} ELSE {})
          BY <2>3
    <3>2. /\ S \subseteq Batches
          /\ T = S \/ T = S \union {new}
          /\ new \in T <=> d <= e
          BY <2>3, <3>1
    <3>3. IsFiniteSet(Counts(stats, e)) /\ Cumulative(stats, e) = Cardinality(S)
          BY DEF Tallied
    <3> HIDE DEF S, T
    <3>4. Cardinality(T) = Cardinality(S) + (IF new \in T THEN 1 ELSE 0)
          BY <2>3, <2>6, <3>2, OneMoreOfThem
    <3>5. /\ IsFiniteSet(Counts(stats', e))
          /\ Cumulative(stats', e) = Cumulative(stats, e) + (IF d <= e THEN 1 ELSE 0)
          BY <2>4, <2>5, <3>3, CountsGrow
    <3> QED BY <3>2, <3>3, <3>4, <3>5 DEF T
  <2> QED BY <2>7, <2>8, <2>9, <2>10 DEF Tallied
<1> QED BY <1>1, <1>2, <1>3, StatsChange

\* A worker that has a maximum to raise stays at work.
LEMMA WorkerStays ==
  ASSUME TypeOK, SpawnedOnce, [ONext]_allVars, NEW i \in Sources,
         sw[i] \in {"loop", "flush"}, batch[i] # Idle
  PROVE  sw'[i] \in {"loop", "flush"}
<1> USE DEF TypeOK
<1>1. CASE sw' = sw BY <1>1
<1>2. CASE SpawnWorker
      BY <1>2 DEF SpawnWorker, MainFrom, SpawnedOnce
<1>3. ASSUME NEW j \in Sources, SwThread(j), batch[j] = Idle
      PROVE  sw'[i] \in {"loop", "flush"}
      BY <1>3 DEF SwThread, SwRun, SwLeave, SwExit
<1>4. CASE OMain
  <2>1. CASE Install \/ EmitSummary \/ Demolish
        BY <2>1, <1>1 DEF Install, EmitSummary, Demolish, Begin, CloseLogs, Destroy, engine
  <2>2. CASE FinalizeWav \/ CloseEvents \/ PrintMetrics \/ ResetMetrics
        BY <2>2, <1>1 DEF FinalizeWav, CloseEvents, PrintMetrics, ResetMetrics, vars, engine
  <2>3. CASE EnterHil \/ HilFails \/ EngineStart \/ StartIo \/ JoinIo \/ ExitHil \/ LeaveLoop
        BY <2>3, <1>1 DEF EnterHil, HilFails, EngineStart, StartIo, JoinIo, ExitHil, LeaveLoop,
                          engine
  <2>4. CASE EngineStop("main")
        BY <2>4, <1>1 DEF EngineStop, EngineExchange, EngineSignal, EngineJoin
  <2> QED BY <1>2, <1>4, <2>1, <2>2, <2>3, <2>4 DEF OMain, Onward
<1>5. CASE OStop \/ RequestStop
      BY <1>1, <1>5 DEF OStop, Stop, StopIo, RequestStop, EngineStop, EngineExchange,
                        EngineSignal, EngineJoin, engine
<1>6. ASSUME NEW j \in Modems,
             OIoThread(j) \/ SendPacket(j) \/ BeginSession(j) \/ Disconnect(j)
      PROVE  sw' = sw
      BY <1>6 DEF OIoThread, IoThread, IoRun, IoExit, Disconnect, SendPacket, BeginSession,
                  vars, engine
<1>7. ASSUME NEW j \in Sources, RaiseMost(j) \/ EndMessage(j) \/ Record(j) PROVE sw' = sw
      BY <1>7 DEF RaiseMost, EndMessage, Record, Quiet, vars, engine
<1>8. CASE UNCHANGED allVars BY <1>8, <1>1 DEF allVars, vars, engine
<1> QED BY <1>1, <1>3, <1>4, <1>5, <1>6, <1>7, <1>8 DEF ONext, OSwThread

\* The maximum is the longest batch, but for those whose source has yet to raise it.
LEMMA MostStep ==
  TypeOK /\ SpawnedOnce /\ OTypeOK /\ MostPending /\ [ONext]_allVars => MostPending'
<1> SUFFICES ASSUME TypeOK, SpawnedOnce, OTypeOK, MostPending, [ONext]_allVars
             PROVE  MostPending'
    OBVIOUS
<1>0. /\ batch \in [Sources -> [time : Nat, prev : Nat]] /\ stats.most \in Nat
      /\ Durations \subseteq Nat \ {0}
      BY ObservedAssumption DEF OTypeOK
<1>1. \A b \in Batches : b[1] \in Sources /\ Took(b) \in Durations
      BY TookDuration
<1>2. CASE UNCHANGED <<batch, timed, stats>>
  <2>1. ASSUME NEW i \in Sources, batch[i] # Idle PROVE sw'[i] \in {"loop", "flush"}
        BY <2>1, WorkerStays DEF MostPending
  <2>2. Batches' = Batches /\ \A b : Took(b)' = Took(b)
        BY <1>2 DEF Batches, Took
  <2> QED BY <1>2, <2>1, <2>2 DEF MostPending, Idle
<1>3. ASSUME NEW i \in Sources, RaiseMost(i) PROVE MostPending'
  <2>1. /\ batch[i] # Idle /\ timed' = timed /\ sw' = sw
        /\ Batches' = Batches /\ \A b : Took(b)' = Took(b)
        BY <1>3 DEF RaiseMost, Quiet, Batches, Took, vars, engine
  <2>2. /\ batch[i].prev <= stats.most /\ batch[i].time \in {Took(b) : b \in Batches}
        /\ batch[i].time \in Nat /\ batch[i].prev \in Nat
        BY <1>0, <2>1 DEF MostPending
  <2>3. CASE Swaps(i)
    <3>1. /\ stats'.most = batch[i].time /\ stats.most <= batch[i].time
          /\ batch'[i] = Idle /\ \A j \in Sources \ {i} : batch'[j] = batch[j]
          BY <1>0, <1>3, <2>2, <2>3 DEF RaiseMost, Swaps, OTypeOK
    <3>2. \A b \in Batches : Took(b) <= stats'.most \/ Took(b) <= batch'[b[1]].time
      <4> SUFFICES ASSUME NEW b \in Batches
                   PROVE  Took(b) <= stats'.most \/ Took(b) <= batch'[b[1]].time
          OBVIOUS
      <4>1. Took(b) <= stats.most \/ Took(b) <= batch[b[1]].time
            BY DEF MostPending
      <4>2. Took(b) \in Nat /\ b[1] \in Sources
            BY <1>0, <1>1
      <4>3. CASE b[1] = i BY <1>0, <2>2, <3>1, <4>1, <4>2, <4>3
      <4>4. CASE b[1] # i BY <1>0, <2>2, <3>1, <4>1, <4>2, <4>4
      <4> QED BY <4>3, <4>4
    <3>3. \A j \in Sources : batch'[j] # Idle => j # i
          BY <3>1
    <3>4. ASSUME NEW j \in Sources, batch'[j] # Idle
          PROVE  /\ sw'[j] \in {"loop", "flush"} /\ batch'[j].prev <= stats'.most
                 /\ batch'[j].time \in {Took(b) : b \in Batches}
      <4>1. j # i /\ batch'[j] = batch[j] /\ batch[j].prev \in Nat
            BY <1>0, <3>1, <3>4
      <4> QED BY <1>0, <2>1, <2>2, <3>1, <3>4, <4>1 DEF MostPending
    <3>5. stats'.most \in {Took(b) : b \in Batches} \union {0}
          BY <2>2, <3>1
    <3> QED BY <2>1, <3>2, <3>4, <3>5 DEF MostPending, Idle
  <2>4. CASE ~Swaps(i)
    <3>1. stats' = stats
          BY <1>3, <2>4 DEF RaiseMost
    <3>2. \/ batch' = [batch EXCEPT ![i].prev = stats.most]
          \/ batch' = [batch EXCEPT ![i] = Idle] /\ batch[i].time <= batch[i].prev
          BY <1>3, <2>4 DEF RaiseMost
    <3>3. \A j \in Sources \ {i} : batch'[j] = batch[j]
          BY <1>0, <3>2
    <3>4. \/ /\ batch'[i].time = batch[i].time /\ batch'[i].prev = stats.most
          \/ /\ batch'[i] = Idle /\ batch[i].time <= stats.most
          BY <1>0, <2>2, <3>2
    <3>5. \A b \in Batches : Took(b) <= stats'.most \/ Took(b) <= batch'[b[1]].time
      <4> SUFFICES ASSUME NEW b \in Batches
                   PROVE  Took(b) <= stats.most \/ Took(b) <= batch'[b[1]].time
          BY <3>1
      <4>1. Took(b) <= stats.most \/ Took(b) <= batch[b[1]].time
            BY DEF MostPending
      <4>2. Took(b) \in Nat /\ b[1] \in Sources
            BY <1>0, <1>1
      <4>3. CASE b[1] = i BY <1>0, <2>2, <3>4, <4>1, <4>2, <4>3
      <4>4. CASE b[1] # i BY <3>3, <4>1, <4>2, <4>4
      <4> QED BY <4>3, <4>4
    <3>6. ASSUME NEW j \in Sources, batch'[j] # Idle
          PROVE  /\ sw'[j] \in {"loop", "flush"} /\ batch'[j].prev <= stats'.most
                 /\ batch'[j].time \in {Took(b) : b \in Batches}
      <4>1. CASE j = i
            BY <1>0, <2>1, <2>2, <3>1, <3>4, <3>6, <4>1 DEF MostPending
      <4>2. CASE j # i
            BY <2>1, <3>1, <3>3, <3>6, <4>2 DEF MostPending
      <4> QED BY <4>1, <4>2
    <3> QED BY <2>1, <3>1, <3>5, <3>6 DEF MostPending, Idle
  <2> QED BY <2>3, <2>4
<1>4. ASSUME NEW i \in Sources, Record(i) PROVE MostPending'
  <2>1. PICK d \in Durations :
          /\ batch' = [batch EXCEPT ![i] = [time |-> d, prev |-> stats.most]]
          /\ stats' = AddTo(stats, d)
          /\ timed' = [timed EXCEPT ![i] = Append(@, d)]
        BY <1>4, Zenon DEF Record, AddTo
  <2>2. PICK new : new = <<i, Len(timed[i]) + 1>>
        OBVIOUS
  <2>3. /\ Batches' = Batches \union {new} /\ Took(new)' = d
        /\ \A b \in Batches : Took(b)' = Took(b)
        BY <2>1, <2>2, OneMoreBatch
  <2>4. /\ batch[i].time = 0 /\ sw[i] \in {"loop", "flush"} /\ sw' = sw
        BY <1>4 DEF Record, Working, Idle, Quiet, vars, engine
  <2>5. /\ stats'.most = stats.most /\ d \in Nat
        BY <1>0, <2>1, Recorded DEF OTypeOK, Tallies
  <2>6. /\ batch'[i].time = d /\ batch'[i].prev = stats.most
        /\ \A j \in Sources \ {i} : batch'[j] = batch[j]
        BY <1>0, <2>1
  <2>7. \A b \in Batches' : Took(b)' <= stats'.most \/ Took(b)' <= batch'[b[1]].time
    <3> SUFFICES ASSUME NEW b \in Batches'
                 PROVE  Took(b)' <= stats.most \/ Took(b)' <= batch'[b[1]].time
        BY <2>5
    <3>1. CASE b = new BY <2>2, <2>3, <2>5, <2>6, <3>1
    <3>2. CASE b \in Batches
      <4>1. Took(b)' = Took(b) /\ (Took(b) <= stats.most \/ Took(b) <= batch[b[1]].time)
            BY <2>3, <3>2 DEF MostPending
      <4>2. Took(b) \in Nat \ {0} /\ b[1] \in Sources
            BY <1>0, <1>1, <3>2
      <4>3. CASE b[1] = i BY <2>4, <4>1, <4>2, <4>3
      <4>4. CASE b[1] # i BY <2>6, <4>1, <4>2, <4>4
      <4> QED BY <4>3, <4>4
    <3> QED BY <2>3, <3>1, <3>2
  <2>8. {Took(b) : b \in Batches} \subseteq {Took(b)' : b \in Batches'}
        BY <2>3
  <2>9. d \in {Took(b)' : b \in Batches'}
        BY <2>3
  <2>10. stats'.most \in {Took(b)' : b \in Batches'} \union {0}
         BY <2>5, <2>8 DEF MostPending
  <2>11. ASSUME NEW j \in Sources, batch'[j] # Idle
         PROVE  /\ sw'[j] \in {"loop", "flush"} /\ batch'[j].prev <= stats'.most
                /\ batch'[j].time \in {Took(b)' : b \in Batches'}
    <3>1. CASE j = i BY <1>0, <2>4, <2>5, <2>6, <2>9, <3>1
    <3>2. CASE j # i BY <2>4, <2>5, <2>6, <2>8, <2>11, <3>2 DEF MostPending
    <3> QED BY <3>1, <3>2
  <2> QED BY <2>7, <2>10, <2>11 DEF MostPending, Idle
<1> QED BY <1>2, <1>3, <1>4, StatsChange

\* The summary is composed once, of the statistics as they then stay.
LEMMA SummaryChange ==
  [ONext]_allVars =>
    \/ UNCHANGED summary
    \/ EmitSummary
BY DEF ONext, allVars, observed, OMain, Install, FinalizeWav, CloseEvents, Demolish,
       PrintMetrics, ResetMetrics, Onward, OStop, OIoThread, SendPacket, BeginSession,
       OSwThread, RaiseMost, Quiet, EndMessage, Record

LEMMA SummaryStep ==
  ASSUME Caller = "main", Calm
  PROVE  IInv /\ OTypeOK /\ MostPending /\ SummaryLast /\ [ONext]_allVars => SummaryLast'
<1> SUFFICES ASSUME IInv, OTypeOK, MostPending, SummaryLast, [ONext]_allVars, summary' # <<>>
             PROVE  /\ pc'.main \in {"destroy", "gone"} /\ summary'[1].stats = stats'
                    /\ summary'[1].median = Percentile(stats, 50)'
    BY DEF SummaryLast
<1>0. TypeOK
      BY DEF IInv
<1>1. CASE EmitSummary
  <2>1. pc'.main = "destroy" /\ stats' = stats
        BY <1>0, <1>1 DEF EmitSummary, CloseLogs, MainFrom, Goto, TypeOK
  <2>2. summary'[1].stats = stats /\ summary'[1].median = Percentile(stats, 50)
        BY <1>1 DEF EmitSummary
  <2> QED BY <2>1, <2>2
<1>2. CASE UNCHANGED summary
  <2>1. /\ pc.main \in {"destroy", "gone"} /\ summary[1].stats = stats
        /\ summary[1].median = Percentile(stats, 50)
        BY <1>2 DEF SummaryLast
  <2>2. pc'.main \in {"destroy", "gone"}
        BY <1>0, <2>1, LifecycleStep, MainForward
  <2>3. \A i \in Sources : sw[i] \notin {"loop", "flush"}
        BY <2>1 DEF IInv, Owned, JoinedBySomebody
  <2>4. \A i \in Sources : ~RaiseMost(i) /\ ~Record(i)
        BY <2>3 DEF RaiseMost, Record, Working, MostPending
  <2>5. stats' = stats
        BY <2>4, StatsChange
  <2> QED BY <1>2, <2>1, <2>2, <2>5
<1> QED BY <1>1, <1>2, SummaryChange

-----------------------------------------------------------------------------
(* The invariant.                                                          *)

\* No packet, message or batch yet.
LEMMA InitRunInv == OInit => RunInv
<1> SUFFICES ASSUME OInit PROVE RunInv
    OBVIOUS
<1> USE DEF OInit
<1>1. OTypeOK
  <2>1. Writing \in File /\ <<Writing>> \in Seq(File) \ {<<>>}
        BY DEF Writing, File
  <2>2. wav \in [Modems -> Seq(File) \ {<<>>}]
        BY <2>1
  <2>3. batch \in [Sources -> [time : Nat, prev : Nat]]
        BY DEF Idle
  <2>4. timed \in [Sources -> Seq(Durations)]
        OBVIOUS
  <2>5. stats \in [bucket : [Durations -> Nat], count : Nat, most : Nat, late : Nat]
        OBVIOUS
  <2>6. events \in [Sources -> [state : {"closed", "open", "refused"}, lines : Nat]]
        OBVIOUS
  <2> QED BY <2>2, <2>3, <2>4, <2>5, <2>6 DEF OTypeOK
<1>2. SpawnedOnce
      BY DEF Init, SpawnedOnce
<1>3. ShownOnce
  <2>1. Sent = {}
        BY DEF Sent
  <2> QED BY <2>1, FS_EmptySet DEF ShownOnce, NothingShownTwice
<1>4. FilesKept
  <2>1. Samples(<<Writing>>) = {} /\ Len(<<Writing>>) = 1 /\ DOMAIN <<Writing>> = {1}
        BY DEF Samples, Writing
  <2>2. <<Writing>>[1].open
        BY DEF Writing
  <2> QED BY <2>1, <2>2, FS_EmptySet DEF FilesKept, Init
<1>5. Batches = {} /\ \A d \in Durations : Counts(stats, d) = {}
      BY DEF Batches, Counts
<1>6. Tallied
      BY <1>5, FS_EmptySet DEF Tallied, Cumulative
<1>7. MostPending
      BY <1>5 DEF MostPending
<1>8. EventsKept /\ SummaryLast
      BY DEF EventsKept, SummaryLast, Init
<1> QED BY <1>1, <1>2, <1>3, <1>4, <1>6, <1>7, <1>8 DEF RunInv

\* The composed run is a run of the lifecycle: what holds of every run of
\* SimulatorLifecycle holds with the recorders beside it.
THEOREM RunIsLifecycle == OSpec => Spec
<1>1. OInit => Init BY DEF OInit
<1> QED BY <1>1, LifecycleStep, PTL DEF OSpec, Spec

\* RunInv holds in every reachable state, beside IInv.
THEOREM RunInvHolds == OSpec => [](IInv /\ RunInv)
<1>1. IInv /\ RunInv /\ [ONext]_allVars => RunInv'
  <2> SUFFICES ASSUME IInv, RunInv, [ONext]_allVars PROVE RunInv'
      OBVIOUS
  <2>1. /\ TypeOK /\ OTypeOK /\ SpawnedOnce /\ ShownOnce /\ FilesKept /\ Tallied /\ MostPending
        BY DEF IInv, RunInv
  <2>2. OTypeOK' /\ ShownOnce' /\ FilesKept' /\ Tallied' /\ MostPending'
        BY <2>1, OTypeStep, ShownStep, FilesStep, TallyStep, MostStep
  <2>3. SpawnedOnce'
        BY <2>1, LifecycleStep, SpawnStep
  <2>4. Caller = "main" /\ Calm => EventsKept' /\ SummaryLast'
        BY <2>1, EventsStep, SummaryStep DEF RunInv
  <2> QED BY <2>2, <2>3, <2>4 DEF RunInv
<1>2. OInit => IInv /\ RunInv
      BY InitIInv, InitRunInv DEF OInit
<1>3. IInv /\ RunInv /\ [ONext]_allVars => IInv'
      BY LifecycleStep, TypeStep, HilStep, OwnedStep, JoinedStep DEF IInv
<1> QED BY <1>1, <1>2, <1>3, PTL DEF OSpec

\* What the metrics lines show of a counter never exceeds what was counted, wherever a
\* packet falls between the print and the reset.
THEOREM ShownOnceOnly == OSpec => []NothingShownTwice
<1>1. RunInv => NothingShownTwice BY DEF RunInv, ShownOnce
<1> QED BY <1>1, RunInvHolds, PTL

\* A finalized header is the number of samples, unless that wrapped.
LEMMA SizeOfSmall == \A n \in Nat : n < SizeModulus => Size(n) = n
BY ObservedAssumption DEF Size

\* With stop() in a signal handler of a run that is up, a finished run has every packet in
\* a finalized file with a true header, and every message in its log.
THEOREM FilesAreComplete ==
  ASSUME Caller = "main", Calm
  PROVE  OSpec => []FilesComplete
<1>1. RunInv => FilesComplete
  <2> SUFFICES ASSUME RunInv, pc.main = "gone"
               PROVE  /\ \A i \in Modems :
                           /\ Cardinality(Samples(wav[i])) = packets[i]
                           /\ \A n \in DOMAIN wav[i] :
                                /\ ~wav[i][n].open
                                /\ wav[i][n].samples < SizeModulus
                                     => wav[i][n].header = wav[i][n].samples
                      /\ \A i \in Sources :
                           events[i].lines = (IF events[i].state = "refused" THEN 0 ELSE ended[i])
      BY DEF FilesComplete
  <2>1. ASSUME NEW i \in Modems, NEW n \in DOMAIN wav[i]
        PROVE  ~wav[i][n].open /\ wav[i][n].header = Size(wav[i][n].samples)
               /\ wav[i][n].samples \in Nat
    <3>1. wav[i] \in Files
          BY DEF RunInv, OTypeOK, Files
    <3>2. wav[i][n] \in File
          BY <3>1, FilesOps
    <3> QED BY <3>2 DEF RunInv, FilesKept, File
  <2>2. \A i \in Modems : Cardinality(Samples(wav[i])) = packets[i]
        BY DEF RunInv, FilesKept
  <2>3. \A i \in Sources :
          events[i].lines = (IF events[i].state = "refused" THEN 0 ELSE ended[i])
        BY DEF RunInv, EventsKept
  <2> QED BY <2>1, <2>2, <2>3, SizeOfSmall
<1> QED BY <1>1, RunInvHolds, PTL

\* Half of a count, rounded up, as snapshot computes it.
LEMMA TargetRank ==
  ASSUME NEW c \in Nat \ {0}, NEW target, target = (c * 50 + 99) \div 100
  PROVE  target \in Nat /\ target <= c /\ c <= 2 * target /\ 2 * target <= c + 1
BY Z3

\* The scan stops at a bucket, and no more than half of the batches lie on either side.
LEMMA MedianHalves ==
  ASSUME OTypeOK, Tallied, stats.most \in {Took(b) : b \in Batches} \union {0},
         \A b \in Batches : Took(b) <= stats.most,
         NEW m, m = Percentile(stats, 50)
  PROVE  /\ 2 * Cardinality({b \in Batches : Took(b) < m}) <= Cardinality(Batches)
         /\ 2 * Cardinality({b \in Batches : Took(b) > m}) <= Cardinality(Batches)
<1>0. /\ stats.count \in Nat /\ stats.most \in Nat /\ Durations \subseteq Nat \ {0}
      /\ IsFiniteSet(Batches) /\ stats.count = Cardinality(Batches)
      BY ObservedAssumption DEF OTypeOK, Tallied
<1>1. \A b \in Batches : Took(b) \in Durations
      BY TookDuration
<1> DEFINE Low  == {b \in Batches : Took(b) < m}
           High == {b \in Batches : Took(b) > m}
           c    == stats.count
<1>2. CASE c = 0
  <2>1. Batches = {}
        BY <1>0, <1>2, FS_EmptySet
  <2>2. Low = {} /\ High = {}
        BY <2>1
  <2> QED BY <2>1, <2>2, FS_EmptySet
<1>3. CASE c # 0
  <2> DEFINE target == (c * 50 + 99) \div 100
             Upto(d) == {b \in Batches : Took(b) <= d}
             Stops(d) == /\ Cumulative(stats, d) >= target
                         /\ \A e \in Durations : e < d => Cumulative(stats, e) < target
  <2>1. target \in Nat /\ target <= c /\ c <= 2 * target /\ 2 * target <= c + 1
        BY <1>0, <1>3, TargetRank
  <2>2. \A d \in Durations : /\ IsFiniteSet(Upto(d)) /\ Cardinality(Upto(d)) \in Nat
                             /\ Cumulative(stats, d) = Cardinality(Upto(d))
    <3> SUFFICES ASSUME NEW d \in Durations
                 PROVE  /\ IsFiniteSet(Upto(d)) /\ Cardinality(Upto(d)) \in Nat
                        /\ Cumulative(stats, d) = Cardinality(Upto(d))
        OBVIOUS
    <3>1. Upto(d) \in SUBSET Batches
          OBVIOUS
    <3>2. IsFiniteSet(Upto(d)) /\ Cardinality(Upto(d)) \in Nat
          BY <1>0, <3>1, FS_Subset, FS_CardinalityType
    <3> QED BY <3>2 DEF Tallied
  <2>3. stats.most \in Durations /\ Upto(stats.most) = Batches
    <3>1. Batches # {}
          BY <1>0, <1>3, FS_EmptySet
    <3>2. PICK b \in Batches : TRUE
          BY <3>1
    <3>3. Took(b) \in Nat \ {0} /\ Took(b) <= stats.most
          BY <1>0, <1>1
    <3>4. stats.most # 0
          BY <1>0, <3>3
    <3> QED BY <1>1, <3>4
  <2> HIDE DEF target
  <2>4. \E d \in Durations : Stops(d)
    <3> DEFINE S == {d \in Durations : Cumulative(stats, d) >= target}
    <3>1. stats.most \in S
          BY <1>0, <2>1, <2>2, <2>3
    <3>2. S \subseteq Nat /\ S # {}
          BY <1>0, <3>1
    <3> HIDE DEF S
    <3>3. PICK d \in S : \A x \in S : d <= x
          BY <3>2, LeastOf
    <3>4. d \in Durations /\ Cumulative(stats, d) >= target
          BY <3>3 DEF S
    <3>5. ASSUME NEW e \in Durations, e < d PROVE Cumulative(stats, e) < target
      <4>1. e \notin S
        <5>1. d \in Nat /\ e \in Nat
              BY <1>0, <3>4, <3>5
        <5>2. e \in S => d <= e
              BY <3>3
        <5> QED BY <3>5, <5>1, <5>2
      <4>2. Cumulative(stats, e) \in Nat
            BY <2>2
      <4> QED BY <2>1, <4>1, <4>2 DEF S
    <3> QED BY <3>4, <3>5
  <2>5. m = CHOOSE d \in Durations : Stops(d)
        BY <1>3 DEF Percentile, target
  <2>6. m \in Durations /\ Stops(m)
        BY <2>4, <2>5, Zenon
  <2>7. m \in Nat /\ Cardinality(Upto(m)) >= target
        BY <1>0, <2>2, <2>6
  <2>8. 2 * Cardinality(Low) <= c
    <3>1. CASE Low = {}
          BY <1>0, <3>1, FS_EmptySet
    <3>2. CASE Low # {}
      <4> DEFINE D == {Took(b) : b \in Low}
      <4>1. D \subseteq Nat /\ D # {} /\ \A x \in D : x <= m
        <5>1. \A b \in Batches : Took(b) \in Nat
              BY <1>0, <1>1
        <5>2. \A b \in Low : Took(b) \in Nat /\ Took(b) <= m
              BY <2>7, <5>1
        <5> QED BY <3>2, <5>2
      <4>2. PICK e \in D : \A x \in D : x <= e
            BY <2>7, <4>1, GreatestOf
      <4>3. e \in Durations /\ e < m
            BY <1>1, <4>2
      <4>4. Low = Upto(e)
        <5>1. \A b \in Batches : Took(b) \in Nat /\ (Took(b) < m => Took(b) <= e)
              BY <1>0, <1>1, <4>2
        <5>2. e \in Nat
              BY <1>0, <4>3
        <5> QED BY <2>7, <4>3, <5>1, <5>2
      <4>5. Cardinality(Low) \in Nat /\ Cardinality(Low) < target
        <5>1. Cumulative(stats, e) < target
              BY <2>6, <4>3
        <5> QED BY <2>2, <4>3, <4>4, <5>1
      <4> HIDE DEF Low
      <4> QED BY <1>0, <2>1, <4>5
    <3> QED BY <3>1, <3>2
  <2>9. 2 * Cardinality(High) <= c
    <3>1. High = Batches \ Upto(m)
      <4>1. \A b \in Batches : Took(b) \in Nat
            BY <1>0, <1>1
      <4> QED BY <2>7, <4>1
    <3>2. Batches \cap Upto(m) = Upto(m)
          OBVIOUS
    <3>3. Cardinality(Batches \ Upto(m)) = Cardinality(Batches) - Cardinality(Batches \cap Upto(m))
          BY <1>0, FS_Difference
    <3>4. Cardinality(High) = c - Cardinality(Upto(m)) /\ Cardinality(Upto(m)) \in Nat
          BY <1>0, <2>2, <2>6, <3>1, <3>2, <3>3
    <3> HIDE DEF High, Upto
    <3> QED BY <1>0, <2>1, <2>7, <3>4
  <2> QED BY <1>0, <2>8, <2>9
<1> QED BY <1>2, <1>3

\* With stop() in a signal handler of a run that is up, the summary reports each batch of
\* the run once: its count, its histogram, its maximum and its late batches are those of
\* the batches recorded, and its median halves them.
THEOREM SummaryIsExact ==
  ASSUME Caller = "main", Calm
  PROVE  OSpec => []SummaryExact
<1>1. IInv /\ RunInv => SummaryExact
  <2> SUFFICES ASSUME IInv, RunInv, summary # <<>>
               PROVE  /\ stats.count = Cardinality(Batches)
                      /\ \A d \in Durations :
                           stats.bucket[d] = Cardinality({b \in Batches : Took(b) = d})
                      /\ stats.most = Max({Took(b) : b \in Batches} \union {0})
                      /\ stats.late = Cardinality({b \in Batches : Took(b) > Deadline})
                      /\ 2 * Cardinality({b \in Batches : Took(b) < Percentile(stats, 50)})
                           <= Cardinality(Batches)
                      /\ 2 * Cardinality({b \in Batches : Took(b) > Percentile(stats, 50)})
                           <= Cardinality(Batches)
    <3>1. RunInv => SummaryLast
          BY DEF RunInv
    <3>2. RunInv /\ summary # <<>> => /\ summary[1].stats = stats
                                      /\ summary[1].median = Percentile(stats, 50)
          BY <3>1, Zenon DEF SummaryLast
    <3> QED BY <3>2 DEF SummaryExact
  <2>1. /\ OTypeOK /\ Tallied /\ MostPending /\ pc.main \in {"destroy", "gone"}
        BY DEF RunInv, SummaryLast
  <2>2. \A i \in Sources : batch[i] = Idle
        BY <2>1 DEF IInv, Owned, JoinedBySomebody, MostPending
  <2>3. \A b \in Batches : b[1] \in Sources /\ Took(b) \in Nat \ {0}
        BY <2>1, TookDuration, ObservedAssumption
  <2>4. stats.most \in Nat /\ \A b \in Batches : Took(b) <= stats.most
    <3>1. stats.most \in Nat
          BY <2>1 DEF OTypeOK
    <3>2. \A b \in Batches : Took(b) <= stats.most \/ Took(b) <= 0
          BY <2>1, <2>2, <2>3 DEF MostPending, Idle
    <3> QED BY <2>3, <3>1, <3>2
  <2>5. stats.most = Max({Took(b) : b \in Batches} \union {0})
    <3> DEFINE S == {Took(b) : b \in Batches} \union {0}
    <3>1. stats.most \in S /\ \A x \in S : stats.most >= x /\ x \in Nat
          BY <2>1, <2>3, <2>4 DEF MostPending
    <3> HIDE DEF S
    <3>2. \A y \in S : (\A x \in S : y >= x) => y = stats.most
          BY <3>1
    <3>3. stats.most = Max(S)
          BY <3>1, <3>2 DEF Max
    <3> QED BY <3>3 DEF S
  <2>6. PICK m : m = Percentile(stats, 50)
        OBVIOUS
  <2>7. /\ 2 * Cardinality({b \in Batches : Took(b) < m}) <= Cardinality(Batches)
        /\ 2 * Cardinality({b \in Batches : Took(b) > m}) <= Cardinality(Batches)
        BY <2>1, <2>4, <2>6, MedianHalves DEF MostPending
  <2> QED BY <2>1, <2>5, <2>6, <2>7 DEF Tallied
<1> QED BY <1>1, RunInvHolds, PTL

\* The order of HIL mode and of the logs holds with the recorders at work.
THEOREM LifecycleOrderKept ==
  ASSUME Caller = "main", Calm
  PROVE  OSpec => [](IoOnlyInHil /\ LogsClosedLast /\ NoneLeftBehind)
BY RunIsLifecycle, HilOrder, LogsLast, NothingRuns, PTL

-----------------------------------------------------------------------------
(* Scenario: what a document that passes the loader's checks is like.      *)

\* The set form of induction, which needs no operator for a parameter.
LEMMA SetInduction ==
  ASSUME NEW S, 0 \in S, \A n \in Nat : n \in S => n + 1 \in S
  PROVE  \A n \in Nat : n \in S
<1> SUFFICES ASSUME Nat \ S # {} PROVE FALSE
    OBVIOUS
<1>1. PICK m \in Nat \ S : \A x \in Nat \ S : m <= x
      BY LeastOf
<1>2. m # 0 /\ m - 1 \in Nat
      BY <1>1
<1>3. m - 1 \in S
      BY <1>1, <1>2
<1>4. (m - 1) + 1 \in S
      BY <1>2, <1>3
<1> QED BY <1>1, <1>4

\* A set of numbers that has a member has a smallest one.
LEMMA SmallestIn ==
  ASSUME NEW S, S \subseteq Nat, S # {}
  PROVE  Smallest(S) \in S
<1>1. \E m \in S : \A x \in S : m <= x
      BY LeastOf
<1> QED BY <1>1, Zenon DEF Smallest

\* The recursive function of FlattenSeq exists.
Flatten(ss, n, f) == f = [i \in 1..n |-> IF i = 1 THEN ss[i] ELSE f[i - 1] \o ss[i]]

LEMMA FlattenExists ==
  ASSUME NEW ss
  PROVE  \A n \in Nat : \E f : Flatten(ss, n, f)
<1> DEFINE S == {n \in Nat : \E f : Flatten(ss, n, f)}
<1>1. 0 \in S
  <2>1. Flatten(ss, 0, <<>>)
        BY DEF Flatten
  <2> QED BY <2>1
<1>2. ASSUME NEW n \in Nat, n \in S
      PROVE  n + 1 \in S
  <2>1. PICK f : Flatten(ss, n, f)
        BY <1>2
  <2> DEFINE g == [i \in 1..(n + 1) |-> IF i <= n THEN f[i]
                                       ELSE IF i = 1 THEN ss[i] ELSE f[i - 1] \o ss[i]]
  <2>2. \A i \in 1..n : f[i] = IF i = 1 THEN ss[i] ELSE f[i - 1] \o ss[i]
        BY <2>1 DEF Flatten
  <2>3. \A i \in 1..(n + 1) : g[i] = IF i = 1 THEN ss[i] ELSE g[i - 1] \o ss[i]
    <3>1. TAKE i \in 1..(n + 1)
    <3>2. i - 1 \in 1..n \/ i = 1
          OBVIOUS
    <3>3. CASE i = 1
          BY <2>2, <3>3
    <3>4. CASE i # 1
      <4>1. i - 1 \in 1..n /\ i - 1 <= n /\ i - 1 \in 1..(n + 1)
            BY <3>2, <3>4
      <4>2. g[i - 1] = f[i - 1]
            BY <4>1
      <4>3. g[i] = f[i - 1] \o ss[i]
        <5>1. CASE i <= n
          <6>1. i \in 1..n /\ g[i] = f[i]
                BY <5>1
          <6> QED BY <2>2, <3>4, <6>1
        <5>2. CASE ~(i <= n)
              BY <3>4, <5>2
        <5> QED BY <5>1, <5>2
      <4> QED BY <3>4, <4>2, <4>3
    <3> QED BY <3>3, <3>4
  <2>4. Flatten(ss, n + 1, g)
    <3>1. g = [i \in 1..(n + 1) |-> g[i]]
          OBVIOUS
    <3> HIDE DEF g
    <3> QED BY <2>3, <3>1 DEF Flatten
  <2> QED BY <2>4
<1>3. \A n \in Nat : n \in S
  <2> HIDE DEF S
  <2> QED BY <1>1, <1>2, SetInduction
<1> QED BY <1>3

\* A sequence has an element.
Has(s, x) == \E i \in DOMAIN s : s[i] = x

LEMMA HasConcat ==
  ASSUME NEW E, NEW s \in Seq(E), NEW t \in Seq(E), NEW x
  PROVE  (s \o t) \in Seq(E) /\ (Has(s \o t, x) <=> Has(s, x) \/ Has(t, x))
<1>1. /\ s \o t \in Seq(E) /\ Len(s \o t) = Len(s) + Len(t)
      /\ \A i \in 1..Len(s) : (s \o t)[i] = s[i]
      /\ \A i \in 1..Len(t) : (s \o t)[Len(s) + i] = t[i]
      OBVIOUS
<1>2. /\ DOMAIN s = 1..Len(s) /\ DOMAIN t = 1..Len(t) /\ Len(s) \in Nat /\ Len(t) \in Nat
      /\ DOMAIN (s \o t) = 1..(Len(s) + Len(t))
      BY <1>1
<1>3. ASSUME Has(s \o t, x) PROVE Has(s, x) \/ Has(t, x)
  <2>1. PICK i \in 1..(Len(s) + Len(t)) : (s \o t)[i] = x
        BY <1>2, <1>3 DEF Has
  <2>2. CASE i <= Len(s)
        BY <1>1, <1>2, <2>1, <2>2 DEF Has
  <2>3. CASE i > Len(s)
    <3>1. i - Len(s) \in 1..Len(t) /\ Len(s) + (i - Len(s)) = i
          BY <1>2, <2>3
    <3>2. t[i - Len(s)] = x
          BY <1>1, <2>1, <3>1
    <3> QED BY <1>2, <3>1, <3>2 DEF Has
  <2> QED BY <1>2, <2>2, <2>3
<1>4. ASSUME Has(s, x) PROVE Has(s \o t, x)
      BY <1>1, <1>2, <1>4 DEF Has
<1>5. ASSUME Has(t, x) PROVE Has(s \o t, x)
  <2>1. PICK i \in 1..Len(t) : t[i] = x
        BY <1>2, <1>5 DEF Has
  <2>2. Len(s) + i \in 1..(Len(s) + Len(t)) /\ (s \o t)[Len(s) + i] = x
        BY <1>1, <1>2, <2>1
  <2> QED BY <1>2, <2>2 DEF Has
<1> QED BY <1>1, <1>3, <1>4, <1>5

\* FlattenSeq keeps every element of every part, and has no others.
LEMMA HasFlatten ==
  ASSUME NEW E, NEW ss \in Seq(Seq(E))
  PROVE  /\ FlattenSeq(ss) \in Seq(E)
         /\ \A i \in DOMAIN ss : \A x : Has(ss[i], x) => Has(FlattenSeq(ss), x)
<1> DEFINE n == Len(ss)
           f == CHOOSE h : h = [i \in 1..n |-> IF i = 1 THEN ss[i] ELSE h[i - 1] \o ss[i]]
<1>1. n \in Nat /\ DOMAIN ss = 1..n /\ \A i \in 1..n : ss[i] \in Seq(E)
      OBVIOUS
<1>2. CASE n = 0
  <2>1. FlattenSeq(ss) = ss /\ ss = <<>>
        BY <1>2 DEF FlattenSeq
  <2> QED BY <1>1, <1>2, <2>1
<1>3. CASE n # 0
  <2>1. FlattenSeq(ss) = f[n]
        BY <1>3, Zenon DEF FlattenSeq
  <2>2. \E h : h = [i \in 1..n |-> IF i = 1 THEN ss[i] ELSE h[i - 1] \o ss[i]]
        BY <1>1, FlattenExists, Zenon DEF Flatten
  <2>3. f = [i \in 1..n |-> IF i = 1 THEN ss[i] ELSE f[i - 1] \o ss[i]]
        BY <2>2, Zenon
  <2> HIDE DEF f, n
  <2> DEFINE S == {m \in Nat : m \in 1..n =>
                     /\ f[m] \in Seq(E)
                     /\ \A i \in 1..m : \A x : Has(ss[i], x) => Has(f[m], x)}
  <2>4. 0 \in S
        OBVIOUS
  <2>5. ASSUME NEW m \in Nat, m \in S PROVE m + 1 \in S
    <3>1. SUFFICES ASSUME m + 1 \in 1..n
                   PROVE  /\ f[m + 1] \in Seq(E)
                          /\ \A i \in 1..(m + 1) : \A x : Has(ss[i], x) => Has(f[m + 1], x)
          OBVIOUS
    <3>2. CASE m = 0
          BY <1>1, <2>3, <3>1, <3>2
    <3>3. CASE m # 0
      <4>1. m \in 1..n /\ m + 1 # 1 /\ (m + 1) - 1 = m
            BY <1>1, <3>1, <3>3
      <4>2. /\ f[m] \in Seq(E)
            /\ \A i \in 1..m : \A x : Has(ss[i], x) => Has(f[m], x)
            BY <2>5, <4>1
      <4>3. f[m + 1] = f[m] \o ss[m + 1]
            BY <2>3, <3>1, <4>1
      <4>4. ss[m + 1] \in Seq(E)
            BY <1>1, <3>1
      <4>5. /\ f[m + 1] \in Seq(E)
            /\ \A x : Has(f[m + 1], x) <=> Has(f[m], x) \/ Has(ss[m + 1], x)
            BY <4>2, <4>3, <4>4, HasConcat
      <4>6. \A i \in 1..(m + 1) : i \in 1..m \/ i = m + 1
            OBVIOUS
      <4> QED BY <4>2, <4>5, <4>6
    <3> QED BY <3>2, <3>3
  <2>6. \A m \in Nat : m \in S
    <3> HIDE DEF S
    <3> QED BY <2>4, <2>5, SetInduction
  <2>7. n \in 1..n
        BY <1>1, <1>3
  <2> QED BY <1>1, <2>1, <2>6, <2>7
<1> QED BY <1>2, <1>3

\* The loader's checks, in one sequence, are each of a kind and true or false.
Check == {"load", "yaml"} \X BOOLEAN

LEMMA OneCheck ==
  /\ \A p \in BOOLEAN : Refuse(p) \in Check
  /\ \A section, key : Reads(section, key) \in Check /\ Lacks(section, key) \in Check
<1>1. \A p \in BOOLEAN : <<"load", p>> \in Check /\ <<"yaml", p>> \in Check
      BY DEF Check
<1>2. \A section, key : (key \in section.ill) \in BOOLEAN /\ (section[key] = Absent) \in BOOLEAN
      OBVIOUS
<1> QED BY <1>1, <1>2, Zenon DEF Refuse, Reads, Lacks

LEMMA HeadTyped ==
  ASSUME NEW d
  PROVE  HeadChecks(d) \in Seq(Check) /\ EnvironmentChecks(d.environment) \in Seq(Check)
         /\ NoiseChecks(d.noise) \in Seq(Check) /\ <<Refuse(~d.parses)>> \in Seq(Check)
         /\ <<Reads(d, "logging")>> \in Seq(Check)
<1>1. HeadChecks(d) \in Seq(Check)
  <2>1. Refuse(~d.map) \in Check
        BY OneCheck
  <2> QED BY <2>1, OneCheck DEF HeadChecks
<1>2. EnvironmentChecks(d.environment) \in Seq(Check)
  <2>1. /\ (d.environment.centerFreq # Absent) \in BOOLEAN
        /\ (Or(d.environment.duration, 1) <= 0) \in BOOLEAN
        OBVIOUS
  <2>2. /\ Refuse(d.environment.centerFreq # Absent) \in Check
        /\ Refuse(Or(d.environment.duration, 1) <= 0) \in Check
        BY <2>1, OneCheck, Zenon
  <2> QED BY <2>2, OneCheck DEF EnvironmentChecks
<1>3. NoiseChecks(d.noise) \in Seq(Check)
  <2>1. Refuse(d.noise.level # Absent) \in Check
        BY OneCheck
  <2> QED BY <2>1, OneCheck DEF NoiseChecks
<1>4. <<Refuse(~d.parses)>> \in Seq(Check) /\ <<Reads(d, "logging")>> \in Seq(Check)
  <2>1. Refuse(~d.parses) \in Check
        BY OneCheck
  <2> QED BY <2>1, OneCheck
<1> QED BY <1>1, <1>2, <1>3, <1>4

LEMMA SectionsListed ==
  ASSUME NEW d, Sections(d)
  PROVE  /\ DOMAIN d.modems = 1..Len(d.modems) /\ Len(d.modems) \in Nat
         /\ DOMAIN d.channels = 1..Len(d.channels) /\ Len(d.channels) \in Nat
         /\ DOMAIN d.transducers = 1..Len(d.transducers) /\ Len(d.transducers) \in Nat
<1> DEFINE M == ToSet(d.modems)  C == ToSet(d.channels)  T == ToSet(d.transducers)
<1>1. d.modems \in Seq(M) /\ d.channels \in Seq(C) /\ d.transducers \in Seq(T)
      BY DEF Sections
<1> HIDE DEF M, C, T
<1> QED BY <1>1

LEMMA TransducersTyped ==
  ASSUME NEW d, Sections(d)
  PROVE  TransducerChecks(d) \in Seq(Check)
<1> DEFINE list == [i \in DOMAIN d.transducers |-> OneTransducer(d.transducers[i])]
<1>1. \A t : OneTransducer(t) \in Seq(Check)
  <2>1. \A t : Refuse(~t.map) \in Check
        BY OneCheck
  <2> QED BY <2>1, OneCheck DEF OneTransducer
<1>2. list \in Seq(Seq(Check))
      BY <1>1, SectionsListed
<1>3. <<Refuse(~d.library)>> \in Seq(Check)
  <2>1. Refuse(~d.library) \in Check
        BY OneCheck
  <2> QED BY <2>1
<1>4. TransducerChecks(d) = <<Refuse(~d.library)>> \o FlattenSeq(list)
      BY DEF TransducerChecks
<1> HIDE DEF list
<1> QED BY <1>2, <1>3, <1>4, HasFlatten, HasConcat

LEMMA ModemsTyped ==
  ASSUME NEW d, Sections(d)
  PROVE  /\ ModemChecks(d) \in Seq(Check)
         /\ Has(ModemChecks(d), Refuse(d.modems = <<>>))
         /\ \A i \in DOMAIN d.modems :
              Has(ModemChecks(d), Refuse(\E j \in 1..(i - 1) : d.modems[j].id = d.modems[i].id))
<1> DEFINE list == [i \in DOMAIN d.modems |-> OneModem(d, i)]
           head == <<Refuse(d.modems = <<>>), Refuse(Len(d.modems) > MaxModems)>>
<1>1. \A i : OneModem(d, i) \in Seq(Check)
  <2> TAKE i
  <2> DEFINE m == d.modems[i]
  <2>1. /\ (\E j \in 1..(i - 1) : d.modems[j].id = m.id) \in BOOLEAN
        /\ (m.transducer \notin Ids(d.transducers)) \in BOOLEAN
        /\ (Or(m.tolerance, 0) < 0) \in BOOLEAN
        OBVIOUS
  <2>2. /\ Refuse(\E j \in 1..(i - 1) : d.modems[j].id = m.id) \in Check
        /\ Refuse(m.transducer \notin Ids(d.transducers)) \in Check
        /\ Refuse(Or(m.tolerance, 0) < 0) \in Check
        BY <2>1, OneCheck, Zenon
  <2>3. OneModem(d, i) =
          << Lacks(m, "id"), Lacks(m, "serial"), Reads(m, "id"),
             Refuse(\E j \in 1..(i - 1) : d.modems[j].id = m.id), Lacks(m, "transducer"),
             Refuse(m.transducer \notin Ids(d.transducers)), Reads(m, "rest"),
             Refuse(Or(m.tolerance, 0) < 0) >>
        BY DEF OneModem
  <2> DEFINE a == Refuse(\E j \in 1..(i - 1) : d.modems[j].id = m.id)
             b == Refuse(m.transducer \notin Ids(d.transducers))
             c == Refuse(Or(m.tolerance, 0) < 0)
  <2>4. /\ a \in Check /\ b \in Check /\ c \in Check
        /\ OneModem(d, i) = << Lacks(m, "id"), Lacks(m, "serial"), Reads(m, "id"), a,
                               Lacks(m, "transducer"), b, Reads(m, "rest"), c >>
        BY <2>2, <2>3
  <2> HIDE DEF a, b, c, m
  <2> QED BY <2>4, OneCheck
<1>2. list \in Seq(Seq(Check)) /\ DOMAIN list = DOMAIN d.modems
      BY <1>1, SectionsListed
<1>3. head \in Seq(Check) /\ Has(head, Refuse(d.modems = <<>>))
  <2>1. head \in Seq(Check)
    <3>1. (d.modems = <<>>) \in BOOLEAN /\ (Len(d.modems) > MaxModems) \in BOOLEAN
          OBVIOUS
    <3>2. Refuse(d.modems = <<>>) \in Check /\ Refuse(Len(d.modems) > MaxModems) \in Check
          BY <3>1, OneCheck, Zenon
    <3> QED BY <3>2
  <2>2. 1 \in DOMAIN head /\ head[1] = Refuse(d.modems = <<>>)
        OBVIOUS
  <2> QED BY <2>1, <2>2, Zenon DEF Has
<1>4. ModemChecks(d) = head \o FlattenSeq(list)
      BY DEF ModemChecks
<1>5. \A i \in DOMAIN d.modems :
        Has(OneModem(d, i), Refuse(\E j \in 1..(i - 1) : d.modems[j].id = d.modems[i].id))
  <2> TAKE i \in DOMAIN d.modems
  <2>1. /\ 4 \in DOMAIN OneModem(d, i)
        /\ OneModem(d, i)[4] = Refuse(\E j \in 1..(i - 1) : d.modems[j].id = d.modems[i].id)
        BY DEF OneModem
  <2> QED BY <2>1, Zenon DEF Has
<1>6. \A i \in DOMAIN d.modems : list[i] = OneModem(d, i)
      OBVIOUS
<1> HIDE DEF list, head
<1>7. FlattenSeq(list) \in Seq(Check)
      BY <1>2, HasFlatten
<1>8. \A x : Has(ModemChecks(d), x) <=> Has(head, x) \/ Has(FlattenSeq(list), x)
      BY <1>3, <1>4, <1>7, HasConcat
<1>9. ModemChecks(d) \in Seq(Check)
      BY <1>3, <1>4, <1>7, HasConcat
<1>10. \A i \in DOMAIN d.modems : \A x : Has(OneModem(d, i), x) => Has(FlattenSeq(list), x)
       BY <1>2, <1>6, HasFlatten
<1> QED BY <1>3, <1>5, <1>8, <1>9, <1>10

LEMMA SingleCheck ==
  ASSUME NEW x \in Check
  PROVE  <<x>> \in Seq(Check)
OBVIOUS

LEMMA LinkTyped ==
  ASSUME NEW d, NEW c
  PROVE  LinkChecks(d, c) \in Seq(Check)
<1>1. /\ (c.from \notin Ids(d.modems)) \in BOOLEAN
      /\ (c.to \notin Ids(d.modems)) \in BOOLEAN
      /\ (Or(c.range, 1) <= 0) \in BOOLEAN
      /\ (Or(c.atten, 1) \notin 0..1) \in BOOLEAN
      /\ (Or(c.delay, 0) < 0) \in BOOLEAN
      /\ (Or(c.initial, 1) <= 0) \in BOOLEAN
      /\ (c.mode \notin {"static", "geometric", "replay"}) \in BOOLEAN
      OBVIOUS
<1>2. /\ Refuse(c.from \notin Ids(d.modems)) \in Check
      /\ Refuse(c.to \notin Ids(d.modems)) \in Check
      /\ Refuse(Or(c.range, 1) <= 0) \in Check
      /\ Refuse(Or(c.atten, 1) \notin 0..1) \in Check
      /\ Refuse(Or(c.delay, 0) < 0) \in Check
      /\ Refuse(Or(c.initial, 1) <= 0) \in Check
      /\ Refuse(c.mode \notin {"static", "geometric", "replay"}) \in Check
      BY <1>1, OneCheck, Zenon
<1> DEFINE r1 == Refuse(c.from \notin Ids(d.modems))
           r2 == Refuse(c.to \notin Ids(d.modems))
           r3 == Refuse(Or(c.range, 1) <= 0)
           r4 == Refuse(Or(c.atten, 1) \notin 0..1)
           r5 == Refuse(Or(c.delay, 0) < 0)
           r6 == Refuse(Or(c.initial, 1) <= 0)
           r7 == Refuse(c.mode \notin {"static", "geometric", "replay"})
<1>3. LinkChecks(d, c) = <<Lacks(c, "from"), Lacks(c, "to"), r1, r2, Reads(c, "range"), r3, Reads(c, "atten"), r4, Reads(c, "delay"), r5, Reads(c, "initial"), r6, Reads(c, "rest"), r7>>
      BY DEF LinkChecks
<1>4. /\ r1 \in Check
      /\ r2 \in Check
      /\ r3 \in Check
      /\ r4 \in Check
      /\ r5 \in Check
      /\ r6 \in Check
      /\ r7 \in Check
      BY <1>2
<1> HIDE DEF r1, r2, r3, r4, r5, r6, r7
<1> QED BY <1>3, <1>4, OneCheck

LEMMA SceneTyped ==
  ASSUME NEW c
  PROVE  SceneChecks(c) \in Seq(Check)
<1> DEFINE g == Scene(c)
<1>1. /\ (g.bounces \notin 0..MaxImageOrder) \in BOOLEAN
      /\ (g.water <= 0) \in BOOLEAN
      /\ (g.source \notin 1..(g.water - 1)) \in BOOLEAN
      /\ (g.receiver \notin 1..(g.water - 1)) \in BOOLEAN
      /\ (g.exponent <= 0) \in BOOLEAN
      /\ (~(g.rMin < StartRange(c) /\ StartRange(c) < g.rMax)) \in BOOLEAN
      OBVIOUS
<1>2. /\ Refuse(g.bounces \notin 0..MaxImageOrder) \in Check
      /\ Refuse(g.water <= 0) \in Check
      /\ Refuse(g.source \notin 1..(g.water - 1)) \in Check
      /\ Refuse(g.receiver \notin 1..(g.water - 1)) \in Check
      /\ Refuse(g.exponent <= 0) \in Check
      /\ Refuse(~(g.rMin < StartRange(c) /\ StartRange(c) < g.rMax)) \in Check
      BY <1>1, OneCheck, Zenon
<1> DEFINE r1 == Refuse(g.bounces \notin 0..MaxImageOrder)
           r2 == Refuse(g.water <= 0)
           r3 == Refuse(g.source \notin 1..(g.water - 1))
           r4 == Refuse(g.receiver \notin 1..(g.water - 1))
           r5 == Refuse(g.exponent <= 0)
           r6 == Refuse(~(g.rMin < StartRange(c) /\ StartRange(c) < g.rMax))
<1>3. SceneChecks(c) = <<Reads(g, "rest"), r1, r2, r3, r4, r5, r6>>
      BY DEF SceneChecks
<1>4. /\ r1 \in Check
      /\ r2 \in Check
      /\ r3 \in Check
      /\ r4 \in Check
      /\ r5 \in Check
      /\ r6 \in Check
      BY <1>2
<1> HIDE DEF r1, r2, r3, r4, r5, r6, g
<1> QED BY <1>3, <1>4, OneCheck

LEMMA RecordTyped ==
  ASSUME NEW r
  PROVE  RecordChecks(r) \in Seq(Check)
<1>1. /\ (Or(r.offset, 0) < 0) \in BOOLEAN
      /\ (Or(r.wrap, 0) < 0) \in BOOLEAN
      /\ (~HeaderValid(r.file)) \in BOOLEAN
      OBVIOUS
<1>2. /\ Refuse(Or(r.offset, 0) < 0) \in Check
      /\ Refuse(Or(r.wrap, 0) < 0) \in Check
      /\ Refuse(~HeaderValid(r.file)) \in Check
      BY <1>1, OneCheck, Zenon
<1> DEFINE r1 == Refuse(Or(r.offset, 0) < 0)
           r2 == Refuse(Or(r.wrap, 0) < 0)
           r3 == Refuse(~HeaderValid(r.file))
<1>3. RecordChecks(r) = <<Lacks(r, "file"), Reads(r, "file"), Reads(r, "offset"), r1, Reads(r, "rest"), r2, r3>>
      BY DEF RecordChecks
<1>4. /\ r1 \in Check
      /\ r2 \in Check
      /\ r3 \in Check
      BY <1>2
<1> HIDE DEF r1, r2, r3
<1> QED BY <1>3, <1>4, OneCheck

LEMMA TapsTyped ==
  ASSUME NEW c, c.taps # Absent
  PROVE  StaticChecks(c) \in Seq(Check)
<1>1. /\ (Len(c.taps) > MaxTaps) \in BOOLEAN
      /\ (\E i \in DOMAIN c.taps : c.taps[i] \notin 0..MaxTapDelay) \in BOOLEAN
      /\ (~c.los /\ \E i \in DOMAIN c.taps : c.taps[i] = 0) \in BOOLEAN
      OBVIOUS
<1>2. /\ Refuse(Len(c.taps) > MaxTaps) \in Check
      /\ Refuse(\E i \in DOMAIN c.taps : c.taps[i] \notin 0..MaxTapDelay) \in Check
      /\ Refuse(~c.los /\ \E i \in DOMAIN c.taps : c.taps[i] = 0) \in Check
      BY <1>1, OneCheck, Zenon
<1> DEFINE r1 == Refuse(Len(c.taps) > MaxTaps)
           r2 == Refuse(\E i \in DOMAIN c.taps : c.taps[i] \notin 0..MaxTapDelay)
           r3 == Refuse(~c.los /\ \E i \in DOMAIN c.taps : c.taps[i] = 0)
<1>3. StaticChecks(c) = <<r1, Reads(c, "taps"), r2, r3>>
      BY DEF StaticChecks
<1>4. /\ r1 \in Check
      /\ r2 \in Check
      /\ r3 \in Check
      BY <1>2
<1> HIDE DEF r1, r2, r3
<1> QED BY <1>3, <1>4, OneCheck

\* A channel's checks: those of its ends, then those of its model.
LEMMA ChannelTyped ==
  ASSUME NEW d, NEW c
  PROVE  /\ OneChannel(d, c) \in Seq(Check)
         /\ GeometryChecks(c) \in Seq(Check) /\ ReplayChecks(c) \in Seq(Check)
         /\ TapChecks(d, c) \in Seq(Check)
         /\ \A x : Has(OneChannel(d, c), x) <=>
                     \/ Has(LinkChecks(d, c), x) \/ Has(GeometryChecks(c), x)
                     \/ Has(ReplayChecks(c), x) \/ Has(TapChecks(d, c), x)
<1>1. GeometryChecks(c) \in Seq(Check)
  <2>1. (c.taps # Absent) \in BOOLEAN
        OBVIOUS
  <2>2. <<Lacks(c, "geometry"), Refuse(c.taps # Absent)>> \in Seq(Check)
    <3>1. Refuse(c.taps # Absent) \in Check /\ Lacks(c, "geometry") \in Check
          BY <2>1, OneCheck, Zenon
    <3> QED BY <3>1
  <2>3. (IF c.geometry = Absent THEN <<>> ELSE SceneChecks(c)) \in Seq(Check)
        BY SceneTyped
  <2> QED BY <2>2, <2>3, HasConcat DEF GeometryChecks
<1>2. ReplayChecks(c) \in Seq(Check)
  <2>1. /\ (c.taps # Absent) \in BOOLEAN /\ (c.geometry # Absent) \in BOOLEAN
        /\ (c.initial # Absent) \in BOOLEAN
        OBVIOUS
  <2>2. << Lacks(c, "replay"), Refuse(c.taps # Absent), Refuse(c.geometry # Absent),
           Refuse(c.initial # Absent) >> \in Seq(Check)
    <3>1. /\ Refuse(c.taps # Absent) \in Check /\ Refuse(c.geometry # Absent) \in Check
          /\ Refuse(c.initial # Absent) \in Check /\ Lacks(c, "replay") \in Check
          BY <2>1, OneCheck, Zenon
    <3> QED BY <3>1
  <2>3. (IF c.replay = Absent THEN <<>> ELSE RecordChecks(c.replay)) \in Seq(Check)
        BY RecordTyped
  <2> QED BY <2>2, <2>3, HasConcat DEF ReplayChecks
<1>3. TapChecks(d, c) \in Seq(Check)
  <2> DEFINE moves == c.mode = "replay" /\ \E i \in DOMAIN d.modems :
                        d.modems[i].id = c.from /\ Or(d.modems[i].motion, 0) # 0
  <2>1. moves \in BOOLEAN /\ (~c.los) \in BOOLEAN
        OBVIOUS
  <2>2. TapChecks(d, c) = <<Refuse(moves)>> \o (IF c.mode # "static" THEN <<>> ELSE StaticChecks(c))
        BY DEF TapChecks
  <2> HIDE DEF moves
  <2>3. Refuse(moves) \in Check /\ Refuse(~c.los) \in Check
        BY <2>1, OneCheck, Zenon
  <2>4. StaticChecks(c) \in Seq(Check)
    <3>1. CASE c.taps = Absent
          BY <2>3, <3>1, SingleCheck DEF StaticChecks
    <3>2. CASE c.taps # Absent
          BY <3>2, TapsTyped
    <3> QED BY <3>1, <3>2
  <2>5. <<Refuse(moves)>> \in Seq(Check)
        BY <2>3, SingleCheck
  <2>6. (IF c.mode # "static" THEN <<>> ELSE StaticChecks(c)) \in Seq(Check)
        BY <2>4
  <2> QED BY <2>2, <2>5, <2>6, HasConcat
<1> DEFINE a == LinkChecks(d, c)  b == GeometryChecks(c)  e == ReplayChecks(c)  t == TapChecks(d, c)
<1>4. a \in Seq(Check) /\ b \in Seq(Check) /\ e \in Seq(Check) /\ t \in Seq(Check)
      BY <1>1, <1>2, <1>3, LinkTyped
<1>5. OneChannel(d, c) = ((a \o b) \o e) \o t
      BY DEF OneChannel
<1> HIDE DEF a, b, e, t
<1>6. a \o b \in Seq(Check) /\ \A x : Has(a \o b, x) <=> Has(a, x) \/ Has(b, x)
      BY <1>4, HasConcat
<1> DEFINE ab == a \o b
<1>7. ab \in Seq(Check) /\ OneChannel(d, c) = (ab \o e) \o t
      BY <1>5, <1>6
<1>8. \A x : Has(ab, x) <=> Has(a, x) \/ Has(b, x)
      BY <1>6
<1> HIDE DEF ab
<1>9. ab \o e \in Seq(Check) /\ \A x : Has(ab \o e, x) <=> Has(ab, x) \/ Has(e, x)
      BY <1>4, <1>7, HasConcat
<1> DEFINE abe == ab \o e
<1>10. abe \in Seq(Check) /\ OneChannel(d, c) = abe \o t
       BY <1>7, <1>9
<1>11. \A x : Has(abe, x) <=> Has(ab, x) \/ Has(e, x)
       BY <1>9
<1> HIDE DEF abe
<1>12. /\ OneChannel(d, c) \in Seq(Check)
       /\ \A x : Has(OneChannel(d, c), x) <=> Has(abe, x) \/ Has(t, x)
       BY <1>4, <1>10, HasConcat
<1> QED BY <1>1, <1>2, <1>3, <1>8, <1>11, <1>12 DEF a, b, e, t

LEMMA ChannelsTyped ==
  ASSUME NEW d, Sections(d)
  PROVE  /\ ChannelChecks(d) \in Seq(Check)
         /\ Has(ChannelChecks(d), Refuse(d.channels = <<>>))
         /\ \A i \in DOMAIN d.channels : \A x :
              Has(OneChannel(d, d.channels[i]), x) => Has(ChannelChecks(d), x)
<1> DEFINE list == [i \in DOMAIN d.channels |-> OneChannel(d, d.channels[i])]
           head == <<Refuse(d.channels = <<>>)>>
<1>1. \A c : OneChannel(d, c) \in Seq(Check)
      BY ChannelTyped
<1>2. list \in Seq(Seq(Check)) /\ DOMAIN list = DOMAIN d.channels
      BY <1>1, SectionsListed
<1>3. head \in Seq(Check) /\ Has(head, Refuse(d.channels = <<>>))
  <2>1. (d.channels = <<>>) \in BOOLEAN
        OBVIOUS
  <2>2. Refuse(d.channels = <<>>) \in Check
        BY <2>1, OneCheck, Zenon
  <2>3. 1 \in DOMAIN head /\ head[1] = Refuse(d.channels = <<>>)
        OBVIOUS
  <2>4. head \in Seq(Check)
        BY <2>2, SingleCheck
  <2> QED BY <2>3, <2>4, Zenon DEF Has
<1>4. ChannelChecks(d) = head \o FlattenSeq(list)
      BY DEF ChannelChecks
<1>5. \A i \in DOMAIN d.channels : list[i] = OneChannel(d, d.channels[i])
      OBVIOUS
<1> HIDE DEF list, head
<1>6. FlattenSeq(list) \in Seq(Check)
      BY <1>2, HasFlatten
<1>7. /\ ChannelChecks(d) \in Seq(Check)
      /\ \A x : Has(ChannelChecks(d), x) <=> Has(head, x) \/ Has(FlattenSeq(list), x)
      BY <1>3, <1>4, <1>6, HasConcat
<1>8. \A i \in DOMAIN d.channels : \A x :
        Has(OneChannel(d, d.channels[i]), x) => Has(FlattenSeq(list), x)
      BY <1>2, <1>5, HasFlatten
<1> QED BY <1>3, <1>7, <1>8

\* Every section's checks are among the document's.
LEMMA ChecksTyped ==
  ASSUME NEW d, Sections(d)
  PROVE  /\ Checks(d) \in Seq(Check)
         /\ \A x : (\/ Has(EnvironmentChecks(d.environment), x)
                    \/ Has(ModemChecks(d), x)
                    \/ Has(ChannelChecks(d), x)) => Has(Checks(d), x)
<1> DEFINE p == <<Refuse(~d.parses)>>  h == HeadChecks(d)  e == EnvironmentChecks(d.environment)
           t == TransducerChecks(d)  m == ModemChecks(d)  c == ChannelChecks(d)
           n == NoiseChecks(d.noise)  l == <<Reads(d, "logging")>>
<1>1. /\ p \in Seq(Check) /\ h \in Seq(Check) /\ e \in Seq(Check) /\ t \in Seq(Check)
      /\ m \in Seq(Check) /\ c \in Seq(Check) /\ n \in Seq(Check) /\ l \in Seq(Check)
      BY HeadTyped, TransducersTyped, ModemsTyped, ChannelsTyped
<1>2. Checks(d) = ((((((p \o h) \o e) \o t) \o m) \o c) \o n) \o l
      BY DEF Checks
<1> HIDE DEF p, h, e, t, m, c, n, l
<1> DEFINE ph == p \o h  he == ph \o e  ht == he \o t  mo == ht \o m  ch == mo \o c
           no == ch \o n  al == no \o l
<1>3. ph \in Seq(Check)
      BY <1>1, HasConcat
<1> HIDE DEF ph
<1>4. he \in Seq(Check) /\ \A x : Has(e, x) => Has(he, x)
      BY <1>1, <1>3, HasConcat
<1> HIDE DEF he
<1>5. ht \in Seq(Check) /\ \A x : Has(he, x) => Has(ht, x)
      BY <1>1, <1>4, HasConcat
<1> HIDE DEF ht
<1>6. mo \in Seq(Check) /\ \A x : Has(ht, x) \/ Has(m, x) => Has(mo, x)
      BY <1>1, <1>5, HasConcat
<1> HIDE DEF mo
<1>7. ch \in Seq(Check) /\ \A x : Has(mo, x) \/ Has(c, x) => Has(ch, x)
      BY <1>1, <1>6, HasConcat
<1> HIDE DEF ch
<1>8. no \in Seq(Check) /\ \A x : Has(ch, x) => Has(no, x)
      BY <1>1, <1>7, HasConcat
<1> HIDE DEF no
<1>9. al \in Seq(Check) /\ \A x : Has(no, x) => Has(al, x)
      BY <1>1, <1>8, HasConcat
<1>10. Checks(d) = al
       BY <1>2 DEF ph, he, ht, mo, ch, no
<1> HIDE DEF al
<1>11. \A x : Has(e, x) \/ Has(m, x) \/ Has(c, x) => Has(al, x)
       BY <1>4, <1>5, <1>6, <1>7, <1>8, <1>9
<1> QED BY <1>9, <1>10, <1>11 DEF e, m, c

\* A document is accepted if, and only if, none of its checks fails.
LEMMA VerdictClear ==
  ASSUME NEW d, Sections(d), Verdict(d) = "none"
  PROVE  \A x : Has(Checks(d), x) => ~x[2]
<1> DEFINE checks == Checks(d)
           failed == {i \in DOMAIN checks : checks[i][2]}
<1>1. checks \in Seq(Check) /\ DOMAIN checks \subseteq Nat
      BY ChecksTyped
<1>2. Verdict(d) = IF failed = {} THEN "none" ELSE checks[Smallest(failed)][1]
      BY DEF Verdict
<1>3. ASSUME failed # {} PROVE FALSE
  <2>1. Smallest(failed) \in failed
        BY <1>1, <1>3, SmallestIn
  <2>2. Smallest(failed) \in DOMAIN checks
        BY <2>1
  <2> DEFINE x == checks[Smallest(failed)]
  <2>3. x \in Check
        BY <1>1, <2>2
  <2>4. x[1] \in {"load", "yaml"}
        BY <2>3 DEF Check
  <2>5. x[1] = "none"
        BY <1>2, <1>3
  <2> QED BY <2>4, <2>5
<1>4. \A i \in DOMAIN checks : ~checks[i][2]
      BY <1>3
<1> QED BY <1>4 DEF Has

LEMMA ChecksPass ==
  ASSUME NEW d, Sections(d), Verdict(d) = "none", NEW p \in BOOLEAN,
         Has(Checks(d), Refuse(p))
  PROVE  ~p
<1>1. ~Refuse(p)[2]
      BY VerdictClear
<1> QED BY <1>1 DEF Refuse

\* An accepted document names its modems apart, and only declared ones in its channels.
LEMMA NamesResolve ==
  ASSUME NEW d, Sections(d), Verdict(d) = "none"
  PROVE  /\ d.modems # <<>>
         /\ \A i, j \in DOMAIN d.modems : d.modems[i].id = d.modems[j].id => i = j
         /\ \A c \in DOMAIN d.channels :
              d.channels[c].from \in Ids(d.modems) /\ d.channels[c].to \in Ids(d.modems)
<1>1. d.modems # <<>>
  <2>1. (d.modems = <<>>) \in BOOLEAN
        OBVIOUS
  <2>2. Has(Checks(d), Refuse(d.modems = <<>>))
        BY ModemsTyped, ChecksTyped
  <2> DEFINE p == d.modems = <<>>
  <2> HIDE DEF p
  <2>3. ~p
        BY <2>1, <2>2, ChecksPass DEF p
  <2> QED BY <2>3 DEF p
<1>2. ASSUME NEW i \in DOMAIN d.modems, NEW j \in DOMAIN d.modems, j < i
      PROVE  d.modems[j].id # d.modems[i].id
  <2> DEFINE p == \E e \in 1..(i - 1) : d.modems[e].id = d.modems[i].id
  <2>1. p \in BOOLEAN
        OBVIOUS
  <2>2. Has(Checks(d), Refuse(p))
        BY ModemsTyped, ChecksTyped
  <2> HIDE DEF p
  <2>3. ~p
        BY <2>1, <2>2, ChecksPass
  <2>4. j \in 1..(i - 1)
        BY <1>2, SectionsListed
  <2> QED BY <2>3, <2>4 DEF p
<1>3. \A i, j \in DOMAIN d.modems : i < j \/ j < i \/ i = j
      BY SectionsListed
<1>4. ASSUME NEW c \in DOMAIN d.channels
      PROVE  d.channels[c].from \in Ids(d.modems) /\ d.channels[c].to \in Ids(d.modems)
  <2> DEFINE e == d.channels[c]
             p == e.from \notin Ids(d.modems)
             q == e.to \notin Ids(d.modems)
  <2>1. p \in BOOLEAN /\ q \in BOOLEAN
        OBVIOUS
  <2>2. /\ 3 \in DOMAIN LinkChecks(d, e) /\ LinkChecks(d, e)[3] = Refuse(p)
        /\ 4 \in DOMAIN LinkChecks(d, e) /\ LinkChecks(d, e)[4] = Refuse(q)
        BY DEF LinkChecks
  <2> HIDE DEF p, q
  <2>3. Has(LinkChecks(d, e), Refuse(p)) /\ Has(LinkChecks(d, e), Refuse(q))
        BY <2>2, Zenon DEF Has
  <2>4. Has(Checks(d), Refuse(p)) /\ Has(Checks(d), Refuse(q))
        BY <2>3, ChannelTyped, ChannelsTyped, ChecksTyped
  <2>5. ~p /\ ~q
        BY <2>1, <2>4, ChecksPass
  <2> QED BY <2>5 DEF p, q
<1> QED BY <1>1, <1>2, <1>3, <1>4

\* Rounded is a monotone function to the whole numbers that keeps zero.
LEMMA Squares ==
  ASSUME NEW a \in Nat, NEW b \in Nat, a <= b
  PROVE  a * a <= b * b /\ a * a \in Nat /\ b * b \in Nat
<1>1. a * a <= a * b
      OBVIOUS
<1>2. a * b <= b * b
      OBVIOUS
<1> QED BY <1>1, <1>2

LEMMA Quotients ==
  ASSUME NEW x \in Int, NEW y \in Int, NEW q \in Nat \ {0}, x <= y
  PROVE  x \div q \in Int /\ x \div q <= y \div q
OBVIOUS

LEMMA Roundings ==
  ASSUME NEW a \in Int, NEW b \in Int, NEW q \in Nat \ {0}, a <= b
  PROVE  /\ Rounded(a, q) \in Int /\ Rounded(a, q) <= Rounded(b, q)
         /\ 0 <= a => Rounded(a, q) \in Nat
<1>1. 2 * q \in Nat \ {0}
      OBVIOUS
<1>2. 2 * a + q \in Int /\ 2 * b + q \in Int /\ 2 * a + q <= 2 * b + q
      OBVIOUS
<1>3. Rounded(a, q) \in Int /\ Rounded(a, q) <= Rounded(b, q)
      BY <1>1, <1>2, Quotients DEF Rounded
<1>4. ASSUME 0 <= a PROVE Rounded(a, q) \in Nat
  <2>1. 0 <= 2 * a + q
        BY <1>4
  <2>2. 0 \div (2 * q) <= (2 * a + q) \div (2 * q) /\ (2 * a + q) \div (2 * q) \in Int
        BY <1>1, <1>2, <2>1, Quotients
  <2>3. 0 \div (2 * q) = 0
        BY <1>1
  <2> QED BY <2>2, <2>3 DEF Rounded
<1> QED BY <1>3, <1>4

\* Root is the whole part of the square root, and grows with its argument.
LEMMA RootIs ==
  ASSUME NEW n \in Nat
  PROVE  Root(n) \in 0..n /\ Root(n) * Root(n) <= n /\ n < (Root(n) + 1) * (Root(n) + 1)
<1> DEFINE IsRoot(r, m) == r * r <= m /\ m < (r + 1) * (r + 1)
           S == {m \in Nat : \E r \in 0..m : IsRoot(r, m)}
<1>1. 0 \in S
      OBVIOUS
<1>2. ASSUME NEW m \in Nat, m \in S PROVE m + 1 \in S
  <2>1. PICK r \in 0..m : IsRoot(r, m)
        BY <1>2
  <2>2. CASE m + 1 < (r + 1) * (r + 1)
    <3>1. r * r <= m + 1 /\ r \in 0..(m + 1)
          BY <2>1
    <3> QED BY <2>2, <3>1
  <2>3. CASE ~(m + 1 < (r + 1) * (r + 1))
    <3>1. (r + 1) * (r + 1) = m + 1
          BY <2>1, <2>3
    <3>2. m + 1 < ((r + 1) + 1) * ((r + 1) + 1)
          BY <3>1
    <3>3. r + 1 \in 0..(m + 1)
          OBVIOUS
    <3>4. IsRoot(r + 1, m + 1)
          BY <3>1, <3>2
    <3> HIDE DEF IsRoot
    <3> QED BY <3>3, <3>4
  <2> QED BY <2>2, <2>3
<1>3. n \in S
  <2> HIDE DEF S
  <2> QED BY <1>1, <1>2, SetInduction
<1>4. \E r \in 0..n : r * r <= n /\ n < (r + 1) * (r + 1)
      BY <1>3
<1> QED BY <1>4, Zenon DEF Root

LEMMA RootGrows ==
  ASSUME NEW a \in Nat, NEW b \in Nat, a <= b
  PROVE  Root(a) \in Nat /\ Root(a) <= Root(b)
<1>1. /\ Root(a) \in Nat /\ Root(b) \in Nat
      /\ Root(a) * Root(a) <= a /\ b < (Root(b) + 1) * (Root(b) + 1)
      BY RootIs
<1>2. ASSUME Root(b) < Root(a) PROVE FALSE
  <2>1. (Root(b) + 1) * (Root(b) + 1) <= Root(a) * Root(a)
        BY <1>1, <1>2, Squares
  <2> DEFINE p == (Root(b) + 1) * (Root(b) + 1)  s == Root(a) * Root(a)
  <2>2. p \in Nat /\ s \in Nat
        BY <1>1
  <2>3. p <= s /\ s <= a /\ b < p
        BY <1>1, <2>1
  <2> HIDE DEF p, s
  <2> QED BY <2>2, <2>3
<1> QED BY <1>1, <1>2

\* The largest of a bounded set of numbers, and of two.
LEMMA BiggestIn ==
  ASSUME NEW S, S \subseteq Nat, S # {}, NEW bound \in Nat, \A x \in S : x <= bound
  PROVE  Biggest(S) \in S /\ \A x \in S : x <= Biggest(S)
<1>1. \E m \in S : \A x \in S : x <= m
      BY GreatestOf
<1> QED BY <1>1, Zenon DEF Biggest

LEMMA BiggestOfTwo ==
  ASSUME NEW a \in Int, NEW b \in Int
  PROVE  Biggest({a, b}) \in {a, b} /\ a <= Biggest({a, b}) /\ b <= Biggest({a, b})
<1>1. \E m \in {a, b} : \A x \in {a, b} : x <= m
      OBVIOUS
<1>2. Biggest({a, b}) \in {a, b} /\ \A x \in {a, b} : x <= Biggest({a, b})
      BY <1>1, Zenon DEF Biggest
<1> QED BY <1>2

LEMMA SmallestBelow ==
  ASSUME NEW S, S \subseteq Nat, S # {}
  PROVE  Smallest(S) \in S /\ \A x \in S : Smallest(S) <= x
<1>1. \E m \in S : \A x \in S : m <= x
      BY LeastOf
<1> QED BY <1>1, Zenon DEF Smallest

\* Of finitely many numbers there is a largest.
LEMMA Bounded ==
  ASSUME NEW f, NEW N0 \in Nat, \A i \in 1..N0 : f[i] \in Nat
  PROVE  \E bound \in Nat : \A i \in 1..N0 : f[i] <= bound
<1> DEFINE S == {n \in Nat : n <= N0 => \E bound \in Nat : \A i \in 1..n : f[i] <= bound}
<1>1. 0 \in S
      OBVIOUS
<1>2. ASSUME NEW n \in Nat, n \in S PROVE n + 1 \in S
  <2>1. SUFFICES ASSUME n + 1 <= N0
                 PROVE  \E bound \in Nat : \A i \in 1..(n + 1) : f[i] <= bound
        OBVIOUS
  <2>2. PICK bound \in Nat : \A i \in 1..n : f[i] <= bound
        BY <1>2, <2>1
  <2>3. f[n + 1] \in Nat
        BY <2>1
  <2>4. \A i \in 1..(n + 1) : i \in 1..n \/ i = n + 1
        OBVIOUS
  <2>5. \A i \in 1..(n + 1) : f[i] \in Nat
        BY <2>1
  <2>6. \A i \in 1..(n + 1) : f[i] <= bound + f[n + 1]
        BY <2>2, <2>3, <2>4, <2>5
  <2> QED BY <2>3, <2>6
<1>3. N0 \in S
  <2> HIDE DEF S
  <2> QED BY <1>1, <1>2, SetInduction
<1> QED BY <1>3

\* The arrivals of a scene with both modems in the water: their offsets are bounded.
LEMMA Offsets ==
  ASSUME NEW g, g.water \in Nat, g.source \in 1..(g.water - 1),
         g.receiver \in 1..(g.water - 1)
  PROVE  \A p \in Candidates(g) : /\ p[2] \in Int /\ p[2] * p[2] \in Nat
                                  /\ p[2] * p[2] <= (5 * g.water) * (5 * g.water)
<1> DEFINE s == g.source  r == g.receiver  w == g.water
           b1 == "direct" \in g.enabled  b2 == "surface" \in g.enabled
           b3 == "bottom" \in g.enabled  b4 == "surface_bottom" \in g.enabled
           b5 == "bottom_surface" \in g.enabled  yes == TRUE
           all == { <<0, s - r, b1>>, <<1, s + r, b2>>, <<1, 2*w - s - r, b3>>,
                    <<2, 2*w - s + r, b4>>, <<2, 2*w + s - r, b5>>, <<3, 2*w + s + r, yes>>,
                    <<3, 4*w - s - r, yes>>, <<4, 4*w + s - r, yes>>,
                    <<4, 4*w - s + r, yes>> }
<1>1. Candidates(g) = all
      BY Zenon DEF Candidates
<1>2. w \in Nat /\ s \in 1..(w - 1) /\ r \in 1..(w - 1)
      OBVIOUS
<1> HIDE DEF b1, b2, b3, b4, b5, yes, s, r, w
<1>3. \A p \in all : p[2] \in {s - r, s + r, 2*w - s - r, 2*w - s + r, 2*w + s - r,
                               2*w + s + r, 4*w - s - r, 4*w + s - r, 4*w - s + r}
      OBVIOUS
<1>4. \A h \in {s - r, s + r, 2*w - s - r, 2*w - s + r, 2*w + s - r,
                2*w + s + r, 4*w - s - r, 4*w + s - r, 4*w - s + r} :
        h \in Int /\ -(5 * w) <= h /\ h <= 5 * w
  <2>1. s \in Nat /\ r \in Nat /\ s <= w /\ r <= w /\ w \in Nat
        BY <1>2
  <2>2. /\ {s - r, s + r, 2*w - s - r, 2*w - s + r, 2*w + s - r, 2*w + s + r,
             4*w - s - r, 4*w + s - r, 4*w - s + r} \subseteq Int
        BY <2>1
  <2>3. /\ -(5 * w) <= s - r /\ s - r <= 5 * w
        /\ -(5 * w) <= s + r /\ s + r <= 5 * w
        /\ -(5 * w) <= 2*w - s - r /\ 2*w - s - r <= 5 * w
        /\ -(5 * w) <= 2*w - s + r /\ 2*w - s + r <= 5 * w
        /\ -(5 * w) <= 2*w + s - r /\ 2*w + s - r <= 5 * w
        /\ -(5 * w) <= 2*w + s + r /\ 2*w + s + r <= 5 * w
        /\ -(5 * w) <= 4*w - s - r /\ 4*w - s - r <= 5 * w
        /\ -(5 * w) <= 4*w + s - r /\ 4*w + s - r <= 5 * w
        /\ -(5 * w) <= 4*w - s + r /\ 4*w - s + r <= 5 * w
        BY <2>1
  <2> QED BY <2>2, <2>3
<1>5. ASSUME NEW h \in Int, -(5 * w) <= h, h <= 5 * w
      PROVE  h * h \in Nat /\ h * h <= (5 * w) * (5 * w)
  <2>1. 5 * w \in Nat
        BY <1>2
  <2>2. CASE h >= 0
        BY <1>5, <2>1, <2>2, Squares
  <2>3. CASE h < 0
    <3>1. -h \in Nat /\ -h <= 5 * w /\ h * h = (-h) * (-h)
          BY <1>2, <1>5, <2>3
    <3> QED BY <2>1, <3>1, Squares
  <2> QED BY <1>5, <2>2, <2>3
<1>6. ASSUME NEW p \in all
      PROVE  p[2] \in Int /\ p[2] * p[2] \in Nat /\ p[2] * p[2] <= (5 * w) * (5 * w)
  <2>1. PICK h : h = p[2]
        OBVIOUS
  <2>2. h \in Int /\ -(5 * w) <= h /\ h <= 5 * w
        BY <1>3, <1>4, <2>1
  <2>3. h * h \in Nat /\ h * h <= (5 * w) * (5 * w)
        BY <1>5, <2>2
  <2> QED BY <2>1, <2>2, <2>3
<1> HIDE DEF all
<1> QED BY <1>1, <1>6 DEF w

\* Path lengths are bounded numbers, each of them grows with the range, and there are as
\* many of them at every range.
LEMMA Paths ==
  ASSUME NEW g, g.water \in Nat, g.source \in 1..(g.water - 1),
         g.receiver \in 1..(g.water - 1), NEW R \in Nat
  PROVE  /\ PathLengths(g, R) \subseteq Nat
         /\ \A x \in PathLengths(g, R) : x <= R * R + (5 * g.water) * (5 * g.water)
         /\ R * R + (5 * g.water) * (5 * g.water) \in Nat
<1>1. R * R \in Nat /\ (5 * g.water) * (5 * g.water) \in Nat
      OBVIOUS
<1>2. ASSUME NEW p \in Candidates(g)
      PROVE  /\ Root(R * R + p[2] * p[2]) \in Nat
             /\ Root(R * R + p[2] * p[2]) <= R * R + (5 * g.water) * (5 * g.water)
  <2> DEFINE n == R * R + p[2] * p[2]  b == (5 * g.water) * (5 * g.water)  q == R * R
  <2>1. n \in Nat /\ n <= q + b
    <3> DEFINE v == p[2] * p[2]
    <3>1. v \in Nat /\ v <= b /\ b \in Nat /\ q \in Nat
          BY <1>1, Offsets
    <3> HIDE DEF v, b, q
    <3>2. q + v \in Nat /\ q + v <= q + b
          BY <3>1
    <3>3. n = q + v
          BY DEF q, v
    <3> QED BY <3>2, <3>3
  <2> HIDE DEF n
  <2>2. Root(n) \in 0..n
        BY <2>1, RootIs
  <2>3. b \in Nat /\ q \in Nat
        BY <1>1
  <2> HIDE DEF b, q
  <2>4. Root(n) \in Nat /\ Root(n) <= q + b
        BY <2>1, <2>2, <2>3
  <2> QED BY <2>4 DEF n, b, q
<1>3. \A x \in PathLengths(g, R) : \E p \in Candidates(g) : x = Root(R * R + p[2] * p[2])
      BY Zenon DEF PathLengths
<1>4. R * R + (5 * g.water) * (5 * g.water) \in Nat
      BY <1>1
<1> DEFINE bound == R * R + (5 * g.water) * (5 * g.water)
<1>5. ASSUME NEW x \in PathLengths(g, R) PROVE x \in Nat /\ x <= bound
  <2>1. PICK p \in Candidates(g) : x = Root(R * R + p[2] * p[2])
        BY <1>3
  <2> QED BY <1>2, <2>1, Zenon
<1> QED BY <1>4, <1>5

LEMMA PathGrows ==
  ASSUME NEW g, g.water \in Nat, g.source \in 1..(g.water - 1),
         g.receiver \in 1..(g.water - 1), NEW R \in Nat, NEW T \in Nat, R <= T
  PROVE  /\ \A x \in PathLengths(g, R) : \E y \in PathLengths(g, T) : x <= y
         /\ \A y \in PathLengths(g, T) : \E x \in PathLengths(g, R) : x <= y
<1> DEFINE use == {q \in Candidates(g) : q[1] <= g.bounces /\ q[3]}
           L(S, p) == Root(S * S + p[2] * p[2])
<1>1. PathLengths(g, R) = {L(R, p) : p \in use} /\ PathLengths(g, T) = {L(T, p) : p \in use}
      BY Zenon DEF PathLengths
<1>2. ASSUME NEW p \in Candidates(g) PROVE L(R, p) <= L(T, p)
  <2> DEFINE v == p[2] * p[2]  a == R * R  b == T * T
  <2>1. v \in Nat /\ a \in Nat /\ b \in Nat /\ a <= b
        BY Offsets, Squares
  <2>2. L(R, p) = Root(a + v) /\ L(T, p) = Root(b + v)
        OBVIOUS
  <2> HIDE DEF v, a, b, L
  <2>3. a + v \in Nat /\ b + v \in Nat /\ a + v <= b + v
        BY <2>1
  <2> QED BY <2>2, <2>3, RootGrows
<1>3. use \subseteq Candidates(g)
      BY Zenon
<1> HIDE DEF L, use
<1> QED BY <1>1, <1>2, <1>3

\* None of a channel's checks fails in an accepted document.
LEMMA ChannelPasses ==
  ASSUME NEW d, Sections(d), Verdict(d) = "none", NEW i \in DOMAIN d.channels, NEW p \in BOOLEAN,
         \/ Has(LinkChecks(d, d.channels[i]), Refuse(p))
         \/ Has(GeometryChecks(d.channels[i]), Refuse(p))
         \/ Has(ReplayChecks(d.channels[i]), Refuse(p))
         \/ Has(TapChecks(d, d.channels[i]), Refuse(p))
  PROVE  ~p
<1>1. Has(OneChannel(d, d.channels[i]), Refuse(p))
      BY ChannelTyped
<1>2. Has(Checks(d), Refuse(p))
      BY <1>1, ChannelsTyped, ChecksTyped
<1> QED BY <1>2, ChecksPass

LEMMA LinkAccepted ==
  ASSUME NEW d, Sections(d), Verdict(d) = "none", NEW i \in DOMAIN d.channels,
         NEW c, c = d.channels[i]
  PROVE  ~(Or(c.range, 1) <= 0) /\ c.mode \in {"static", "geometric", "replay"}
<1> DEFINE p == Or(c.range, 1) <= 0
           q == c.mode \notin {"static", "geometric", "replay"}
<1>1. p \in BOOLEAN /\ q \in BOOLEAN
      OBVIOUS
<1>2. /\ 6 \in DOMAIN LinkChecks(d, c) /\ LinkChecks(d, c)[6] = Refuse(p)
      /\ 14 \in DOMAIN LinkChecks(d, c) /\ LinkChecks(d, c)[14] = Refuse(q)
      BY DEF LinkChecks
<1> HIDE DEF p, q
<1>3. Has(LinkChecks(d, c), Refuse(p)) /\ Has(LinkChecks(d, c), Refuse(q))
      BY <1>2, Zenon DEF Has
<1>4. ~p /\ ~q
      BY <1>1, <1>3, ChannelPasses
<1> QED BY <1>4 DEF p, q

LEMMA SceneAccepted ==
  ASSUME NEW d, Sections(d), Verdict(d) = "none", NEW i \in DOMAIN d.channels,
         NEW c, c = d.channels[i], c.mode = "geometric"
  PROVE  /\ c.geometry # Absent /\ ~(Scene(c).water <= 0)
         /\ Scene(c).source \in 1..(Scene(c).water - 1)
         /\ Scene(c).receiver \in 1..(Scene(c).water - 1)
         /\ Scene(c).rMin < StartRange(c) /\ StartRange(c) < Scene(c).rMax
<1> DEFINE head == <<Lacks(c, "geometry"), Refuse(c.taps # Absent)>>
           rest == IF c.geometry = Absent THEN <<>> ELSE SceneChecks(c)
           a == c.geometry = Absent
           o == c.taps # Absent
<1>1. GeometryChecks(c) = head \o rest
      BY DEF GeometryChecks
<1>2. a \in BOOLEAN /\ o \in BOOLEAN
      OBVIOUS
<1>3. head = <<Refuse(a), Refuse(o)>>
      BY Zenon DEF Lacks
<1> HIDE DEF head, a, o
<1>4. Refuse(a) \in Check /\ Refuse(o) \in Check
      BY <1>2, OneCheck
<1>5. head \in Seq(Check) /\ Has(head, Refuse(a))
  <2> DEFINE x == Refuse(a)  y == Refuse(o)
  <2> HIDE DEF x, y
  <2>1. head = <<x, y>> /\ x \in Check /\ y \in Check
        BY <1>3, <1>4 DEF x, y
  <2>2. <<x, y>> \in Seq(Check) /\ 1 \in DOMAIN <<x, y>> /\ <<x, y>>[1] = x
        BY <2>1
  <2>3. head \in Seq(Check) /\ Has(head, x)
        BY <2>1, <2>2, Zenon DEF Has
  <2> QED BY <2>3 DEF x
<1>6. rest \in Seq(Check)
      BY SceneTyped
<1> HIDE DEF rest
<1>7. \A x : Has(GeometryChecks(c), x) <=> Has(head, x) \/ Has(rest, x)
      BY <1>1, <1>5, <1>6, HasConcat
<1>8. ~a
      BY <1>2, <1>5, <1>7, ChannelPasses
<1>9. rest = SceneChecks(c)
      BY <1>8 DEF rest, a
<1> DEFINE g == Scene(c)
           p == g.water <= 0
           q == g.source \notin 1..(g.water - 1)
           r == g.receiver \notin 1..(g.water - 1)
           s == ~(g.rMin < StartRange(c) /\ StartRange(c) < g.rMax)
<1>10. p \in BOOLEAN /\ q \in BOOLEAN /\ r \in BOOLEAN /\ s \in BOOLEAN
       OBVIOUS
<1>11. /\ 3 \in DOMAIN SceneChecks(c) /\ SceneChecks(c)[3] = Refuse(p)
       /\ 4 \in DOMAIN SceneChecks(c) /\ SceneChecks(c)[4] = Refuse(q)
       /\ 5 \in DOMAIN SceneChecks(c) /\ SceneChecks(c)[5] = Refuse(r)
       /\ 7 \in DOMAIN SceneChecks(c) /\ SceneChecks(c)[7] = Refuse(s)
       BY DEF SceneChecks
<1> HIDE DEF p, q, r, s
<1>12. /\ Has(rest, Refuse(p)) /\ Has(rest, Refuse(q))
       /\ Has(rest, Refuse(r)) /\ Has(rest, Refuse(s))
       BY <1>9, <1>11, Zenon DEF Has
<1>13. ~p /\ ~q /\ ~r /\ ~s
       BY <1>7, <1>10, <1>12, ChannelPasses
<1> QED BY <1>8, <1>13 DEF a, p, q, r, s

LEMMA RecordAccepted ==
  ASSUME NEW d, Sections(d), Verdict(d) = "none", NEW i \in DOMAIN d.channels,
         NEW c, c = d.channels[i], c.mode = "replay"
  PROVE  c.replay.file # Absent /\ HeaderValid(c.replay.file)
<1> DEFINE a == c.replay = Absent
           b == c.taps # Absent
           e == c.geometry # Absent
           f == c.initial # Absent
           head == <<Lacks(c, "replay"), Refuse(c.taps # Absent), Refuse(c.geometry # Absent),
                     Refuse(c.initial # Absent)>>
           rest == IF c.replay = Absent THEN <<>> ELSE RecordChecks(c.replay)
<1>1. ReplayChecks(c) = head \o rest
      BY DEF ReplayChecks
<1>2. a \in BOOLEAN /\ b \in BOOLEAN /\ e \in BOOLEAN /\ f \in BOOLEAN
      OBVIOUS
<1>3. head = <<Refuse(a), Refuse(b), Refuse(e), Refuse(f)>>
      BY Zenon DEF Lacks
<1> HIDE DEF head, a, b, e, f
<1>4. Refuse(a) \in Check /\ Refuse(b) \in Check /\ Refuse(e) \in Check /\ Refuse(f) \in Check
      BY <1>2, OneCheck
<1>5. head \in Seq(Check) /\ Has(head, Refuse(a))
  <2> DEFINE x == Refuse(a)  y == Refuse(b)  z == Refuse(e)  u == Refuse(f)
  <2> HIDE DEF x, y, z, u
  <2>1. head = <<x, y, z, u>> /\ x \in Check /\ y \in Check /\ z \in Check /\ u \in Check
        BY <1>3, <1>4 DEF x, y, z, u
  <2>2. <<x, y, z, u>> \in Seq(Check) /\ 1 \in DOMAIN <<x, y, z, u>> /\ <<x, y, z, u>>[1] = x
        BY <2>1
  <2>3. head \in Seq(Check) /\ Has(head, x)
        BY <2>1, <2>2, Zenon DEF Has
  <2> QED BY <2>3 DEF x
<1>6. rest \in Seq(Check)
      BY RecordTyped
<1> HIDE DEF rest
<1>7. \A x : Has(ReplayChecks(c), x) <=> Has(head, x) \/ Has(rest, x)
      BY <1>1, <1>5, <1>6, HasConcat
<1>8. ~a
      BY <1>2, <1>5, <1>7, ChannelPasses
<1>9. rest = RecordChecks(c.replay)
      BY <1>8 DEF rest, a
<1> DEFINE p == c.replay.file = Absent
           q == ~HeaderValid(c.replay.file)
<1>10. p \in BOOLEAN /\ q \in BOOLEAN
       OBVIOUS
<1>11. /\ 1 \in DOMAIN RecordChecks(c.replay) /\ RecordChecks(c.replay)[1] = Refuse(p)
       /\ 7 \in DOMAIN RecordChecks(c.replay) /\ RecordChecks(c.replay)[7] = Refuse(q)
       BY DEF RecordChecks, Lacks
<1> HIDE DEF p, q
<1>12. Has(rest, Refuse(p)) /\ Has(rest, Refuse(q))
       BY <1>9, <1>11, Zenon DEF Has
<1>13. ~p /\ ~q
       BY <1>7, <1>10, <1>12, ChannelPasses
<1> QED BY <1>13 DEF p, q

LEMMA TapsAccepted ==
  ASSUME NEW d, Sections(d), Verdict(d) = "none", NEW i \in DOMAIN d.channels,
         NEW c, c = d.channels[i], c.mode = "static", c.taps # Absent
  PROVE  \A j \in DOMAIN c.taps : c.taps[j] \in 0..MaxTapDelay
<1> DEFINE a == /\ c.mode = "replay"
                /\ \E j \in DOMAIN d.modems :
                     d.modems[j].id = c.from /\ Or(d.modems[j].motion, 0) # 0
           head == <<Refuse(a)>>
           rest == StaticChecks(c)
           p == \E j \in DOMAIN c.taps : c.taps[j] \notin 0..MaxTapDelay
<1>1. TapChecks(d, c) = head \o rest
      BY DEF TapChecks
<1>2. a \in BOOLEAN /\ p \in BOOLEAN
      OBVIOUS
<1> HIDE DEF a
<1>3. Refuse(a) \in Check
      BY <1>2, OneCheck
<1>4. head \in Seq(Check)
      BY <1>3, SingleCheck
<1>5. rest \in Seq(Check)
      BY TapsTyped
<1>6. 3 \in DOMAIN rest /\ rest[3] = Refuse(p)
      BY DEF StaticChecks
<1> HIDE DEF head, rest, p
<1>7. Has(rest, Refuse(p))
      BY <1>6, Zenon DEF Has
<1>8. Has(TapChecks(d, c), Refuse(p))
      BY <1>1, <1>4, <1>5, <1>7, HasConcat
<1>9. ~p
      BY <1>2, <1>8, ChannelPasses
<1> QED BY <1>9 DEF p

\* What the configuration makes of an accepted channel.
LEMMA ChannelTypes ==
  ASSUME NEW d, Sections(d), Numbers(d), Verdict(d) = "none", NEW i \in DOMAIN d.channels,
         NEW c, c = d.channels[i], NEW k0, k0 = ChannelConfig(d, c)
  PROVE  /\ k0.mode = c.mode /\ k0.delay \in Int /\ k0.range \in Nat \ {0}
         /\ Speed(k0.speed) \in Nat \ {0} /\ StartRange(c) \in Nat \ {0}
         /\ k0.geometry = (IF c.mode = "geometric" THEN Scene(c) ELSE Absent)
         /\ k0.replay = c.replay
         /\ k0.taps = (IF Or(c.taps, <<>>) = <<>> THEN <<0>> ELSE c.taps)
<1>1. /\ d.environment.speed \in {Absent} \union Int
      /\ {c.range, c.delay, c.initial} \subseteq {Absent} \union Int
      BY DEF Numbers
<1>2. ~(Or(c.range, 1) <= 0)
      BY LinkAccepted
<1>3. DefaultRange \in Nat \ {0} /\ DefaultSpeed \in Nat \ {0}
      BY ScenarioAssumption
<1>4. Or(c.range, DefaultRange) \in Nat \ {0}
      BY <1>1, <1>2, <1>3 DEF Or
<1>5. StartRange(c) \in Nat \ {0}
      BY <1>1, <1>4 DEF StartRange, Or
<1>6. Or(d.environment.speed, DefaultSpeed) \in Int
      BY <1>1, <1>3 DEF Or
<1>7. Or(c.delay, -1) \in Int
      BY <1>1 DEF Or
<1>8. /\ k0.mode = c.mode /\ k0.delay = Or(c.delay, -1) /\ k0.range = Or(c.range, DefaultRange)
      /\ k0.speed = EnvironmentConfig(d.environment).speed /\ k0.replay = c.replay
      /\ k0.geometry = (IF c.mode = "geometric" THEN Scene(c) ELSE Absent)
      /\ k0.taps = (IF Or(c.taps, <<>>) = <<>> THEN <<0>> ELSE c.taps)
      BY DEF ChannelConfig
<1>9. EnvironmentConfig(d.environment).speed = Or(d.environment.speed, DefaultSpeed)
      BY DEF EnvironmentConfig
<1>10. Speed(k0.speed) \in Nat \ {0}
       BY <1>3, <1>6, <1>8, <1>9 DEF Speed
<1> QED BY <1>4, <1>5, <1>7, <1>8, <1>10

\* The scene of an accepted geometric channel, its envelope around the start.
LEMMA SceneTypes ==
  ASSUME NEW d, Sections(d), Numbers(d), Verdict(d) = "none", NEW i \in DOMAIN d.channels,
         NEW c, c = d.channels[i], c.mode = "geometric", NEW g, g = Scene(c)
  PROVE  /\ g.water \in Nat /\ g.source \in 1..(g.water - 1) /\ g.receiver \in 1..(g.water - 1)
         /\ g.rMin \in Nat /\ g.rMax \in Nat /\ g.rMin <= g.rMax
<1>1. /\ c.geometry # Absent /\ ~(g.water <= 0)
      /\ g.source \in 1..(g.water - 1) /\ g.receiver \in 1..(g.water - 1)
      /\ g.rMin < StartRange(c) /\ StartRange(c) < g.rMax
      BY SceneAccepted
<1>2. c.geometry \in
        [bounces : Int, water : Int, source : Int, receiver : Int, exponent : Int,
         rMin : {Absent} \union Int, rMax : {Absent} \union Int, ill : SUBSET {"rest"},
         enabled : SUBSET {"direct", "surface", "bottom", "surface_bottom", "bottom_surface"}]
      BY <1>1, Zenon DEF Numbers
<1>3. StartRange(c) \in Nat \ {0}
  <2>1. PICK q : q = ChannelConfig(d, c)
        OBVIOUS
  <2> QED BY <2>1, ChannelTypes
<1>4. /\ g.water = c.geometry.water
      /\ g.rMin = IF Or(c.geometry.rMin, -1) <= 0 THEN StartRange(c) \div 2 ELSE c.geometry.rMin
      /\ g.rMax = IF Or(c.geometry.rMax, -1) <= 0 THEN StartRange(c) * 2 ELSE c.geometry.rMax
  <2> DEFINE near == IF Or(c.geometry.rMin, -1) <= 0 THEN StartRange(c) \div 2
                     ELSE c.geometry.rMin
             far == IF Or(c.geometry.rMax, -1) <= 0 THEN StartRange(c) * 2
                    ELSE c.geometry.rMax
  <2>1. g = [c.geometry EXCEPT !.rMin = near, !.rMax = far]
        BY DEF Scene
  <2> HIDE DEF near, far
  <2>2. g.water = c.geometry.water /\ g.rMin = near /\ g.rMax = far
        BY <1>2, <2>1
  <2> QED BY <2>2 DEF near, far
<1>5. c.geometry.water \in Int
      BY <1>2
<1>6. g.rMin \in Nat
  <2>1. c.geometry.rMin = Absent \/ c.geometry.rMin \in Int
        BY <1>2
  <2>2. StartRange(c) \div 2 \in Nat
        BY <1>3
  <2>3. CASE Or(c.geometry.rMin, -1) <= 0
        BY <1>4, <2>2, <2>3
  <2>4. CASE ~(Or(c.geometry.rMin, -1) <= 0)
        BY <1>4, <2>1, <2>4 DEF Or
  <2> QED BY <2>3, <2>4
<1>7. g.rMax \in Nat
  <2>1. c.geometry.rMax = Absent \/ c.geometry.rMax \in Int
        BY <1>2
  <2>2. StartRange(c) * 2 \in Nat
        BY <1>3
  <2>3. CASE Or(c.geometry.rMax, -1) <= 0
        BY <1>4, <2>2, <2>3
  <2>4. CASE ~(Or(c.geometry.rMax, -1) <= 0)
        BY <1>4, <2>1, <2>4 DEF Or
  <2> QED BY <2>3, <2>4
<1> QED BY <1>1, <1>3, <1>4, <1>5, <1>6, <1>7

\* Every path of a buildable scene, at every range of its envelope, is no shorter than the
\* anchor, and the extent reaches it.
LEMMA SceneExtent ==
  ASSUME NEW d, Sections(d), Numbers(d), Verdict(d) = "none", NEW i \in DOMAIN d.channels,
         NEW c, c = d.channels[i], c.mode = "geometric", NEW k0, k0 = ChannelConfig(d, c),
         ~CannotBuild(k0)
  PROVE  /\ BaseDelay(k0) \in Nat /\ MaxTapDelta(k0) \in Nat
         /\ \A range \in k0.geometry.rMin..k0.geometry.rMax :
              \A length \in PathLengths(k0.geometry, range) :
                Rounded(length - Anchor(k0), Speed(k0.speed)) \in 0..MaxTapDelta(k0)
<1> DEFINE g == k0.geometry  v == Speed(k0.speed)  near == PathLengths(g, g.rMin)
           far == PathLengths(g, g.rMax)  span == Biggest(far) - Anchor(k0)
<1>1. g = Scene(c) /\ k0.mode = "geometric" /\ v \in Nat \ {0}
      BY ChannelTypes
<1>2. /\ g.water \in Nat /\ g.source \in 1..(g.water - 1) /\ g.receiver \in 1..(g.water - 1)
      /\ g.rMin \in Nat /\ g.rMax \in Nat /\ g.rMin <= g.rMax
      BY <1>1, SceneTypes
<1>3. near # {}
      BY <1>1 DEF CannotBuild
<1>4. Anchor(k0) = Smallest(near)
      BY DEF Anchor
<1>5. /\ BaseDelay(k0) = Rounded(Anchor(k0), v)
      /\ MaxTapDelta(k0) = Rounded(Biggest({0, span}), v)
      BY <1>1 DEF BaseDelay, MaxTapDelta
<1> HIDE DEF g, v, near, far
<1>6. Anchor(k0) \in Nat /\ \A x \in near : Anchor(k0) <= x
  <2>1. near \subseteq Nat
        BY <1>2, Paths DEF near
  <2> QED BY <1>3, <1>4, <2>1, SmallestBelow
<1>7. Biggest(far) \in Nat /\ \A x \in far : x <= Biggest(far)
  <2> DEFINE bound == g.rMax * g.rMax + (5 * g.water) * (5 * g.water)
  <2>1. far \subseteq Nat /\ bound \in Nat /\ \A x \in far : x <= bound
        BY <1>2, Paths DEF far
  <2>2. far # {}
        BY <1>2, <1>3, PathGrows DEF near, far
  <2> HIDE DEF bound
  <2> QED BY <2>1, <2>2, BiggestIn
<1>8. span \in Int
      BY <1>6, <1>7
<1> HIDE DEF span
<1>9. Biggest({0, span}) \in Nat /\ span <= Biggest({0, span})
  <2>1. /\ Biggest({0, span}) \in {0, span}
        /\ 0 <= Biggest({0, span}) /\ span <= Biggest({0, span})
        BY <1>8, BiggestOfTwo
  <2> QED BY <1>8, <2>1
<1>10. BaseDelay(k0) \in Nat
       BY <1>1, <1>5, <1>6, Roundings
<1>11. MaxTapDelta(k0) \in Nat
       BY <1>1, <1>5, <1>9, Roundings
<1>12. ASSUME NEW range \in g.rMin..g.rMax, NEW length \in PathLengths(g, range)
       PROVE  Rounded(length - Anchor(k0), v) \in 0..MaxTapDelta(k0)
  <2>1. range \in Nat /\ g.rMin <= range /\ range <= g.rMax
        BY <1>2
  <2>2. length \in Nat
        BY <1>2, <2>1, Paths
  <2>3. PICK x \in near : x <= length
        BY <1>2, <2>1, PathGrows DEF near
  <2>4. PICK y \in far : length <= y
        BY <1>2, <2>1, PathGrows DEF far
  <2>5. near \subseteq Nat /\ far \subseteq Nat
        BY <1>2, Paths DEF near, far
  <2>6. length - Anchor(k0) \in Int /\ 0 <= length - Anchor(k0)
        BY <1>6, <2>2, <2>3, <2>5
  <2>7. length - Anchor(k0) <= Biggest({0, span})
    <3>1. length <= Biggest(far)
          BY <1>7, <2>2, <2>4, <2>5
    <3>2. length - Anchor(k0) <= span
          BY <1>6, <1>7, <2>2, <3>1 DEF span
    <3> QED BY <1>8, <1>9, <2>6, <3>2
  <2>8. /\ Rounded(length - Anchor(k0), v) \in Nat
        /\ Rounded(length - Anchor(k0), v) <= Rounded(Biggest({0, span}), v)
        BY <1>1, <1>9, <2>6, <2>7, Roundings
  <2> QED BY <1>5, <1>11, <2>8
<1> QED BY <1>10, <1>11, <1>12 DEF g, v

\* Every channel of an accepted and buildable document has a base delay and an extent.
LEMMA ExtentIs ==
  ASSUME NEW d, Sections(d), Numbers(d), Verdict(d) = "none", NEW i \in DOMAIN d.channels,
         NEW c, c = d.channels[i], NEW k0, k0 = ChannelConfig(d, c), ~CannotBuild(k0)
  PROVE  BaseDelay(k0) \in Nat /\ MaxTapDelta(k0) \in Nat
<1>1. /\ k0.mode = c.mode /\ k0.delay \in Int /\ k0.range \in Nat \ {0}
      /\ Speed(k0.speed) \in Nat \ {0} /\ k0.replay = c.replay
      /\ k0.taps = (IF Or(c.taps, <<>>) = <<>> THEN <<0>> ELSE c.taps)
      BY ChannelTypes
<1>2. c.mode \in {"static", "geometric", "replay"}
      BY LinkAccepted
<1>3. BulkDelay(k0) \in Nat
  <2> DEFINE r == k0.range  v == Speed(k0.speed)
  <2>1. r \in Int /\ 0 <= r /\ r <= r /\ v \in Nat \ {0}
        BY <1>1
  <2> HIDE DEF r, v
  <2>2. 0 <= r => Rounded(r, v) \in Nat
        BY <2>1, Roundings
  <2>3. Rounded(k0.range, Speed(k0.speed)) \in Nat
        BY <2>1, <2>2 DEF r, v
  <2> QED BY <1>1, <2>3 DEF BulkDelay
<1>4. CASE c.mode = "geometric"
      BY <1>4, SceneExtent
<1>5. CASE c.mode = "replay"
  <2>1. BaseDelay(k0) = BulkDelay(k0) /\ MaxTapDelta(k0) = c.replay.file.maxDelay
        BY <1>1, <1>5 DEF BaseDelay, MaxTapDelta
  <2>2. c.replay.file # Absent /\ HeaderValid(c.replay.file)
        BY <1>5, RecordAccepted
  <2>3. c.replay.file.maxDelay \in 0..MaxTapDelay
        BY <2>2 DEF HeaderValid
  <2> QED BY <1>3, <2>1, <2>3, ScenarioAssumption
<1>6. CASE c.mode = "static"
  <2>1. BaseDelay(k0) = BulkDelay(k0) /\ MaxTapDelta(k0) = Biggest(ToSet(k0.taps))
        BY <1>1, <1>6 DEF BaseDelay, MaxTapDelta
  <2>2. MaxTapDelay \in Nat
        BY ScenarioAssumption
  <2>3. /\ ToSet(k0.taps) \subseteq Nat /\ ToSet(k0.taps) # {}
        /\ \A x \in ToSet(k0.taps) : x <= MaxTapDelay
    <3>1. CASE Or(c.taps, <<>>) = <<>>
      <4>1. k0.taps = <<0>>
            BY <1>1, <3>1
      <4>2. ToSet(k0.taps) = {0}
            BY <4>1 DEF ToSet
      <4> QED BY <2>2, <4>2
    <3>2. CASE Or(c.taps, <<>>) # <<>>
      <4>1. k0.taps = c.taps /\ c.taps # Absent /\ c.taps # <<>>
            BY <1>1, <3>2 DEF Or
      <4>2. c.taps \in Seq(Int)
            BY <4>1 DEF Numbers
      <4>3. \A j \in DOMAIN c.taps : c.taps[j] \in 0..MaxTapDelay
            BY <1>6, <4>1, TapsAccepted
      <4>4. 1 \in DOMAIN c.taps
            BY <4>1, <4>2
      <4>5. ToSet(c.taps) = {c.taps[j] : j \in DOMAIN c.taps}
            BY DEF ToSet
      <4>6. \A j \in DOMAIN c.taps : c.taps[j] \in Nat /\ c.taps[j] <= MaxTapDelay
            BY <2>2, <4>3
      <4>7. ToSet(k0.taps) = {c.taps[j] : j \in DOMAIN c.taps}
            BY <4>1, <4>5
      <4> QED BY <4>4, <4>6, <4>7
    <3> QED BY <3>1, <3>2
  <2>4. Biggest(ToSet(k0.taps)) \in ToSet(k0.taps)
        BY <2>2, <2>3, BiggestIn
  <2> QED BY <1>3, <2>1, <2>3, <2>4
<1> QED BY <1>2, <1>4, <1>5, <1>6

\* The worst extent is one, and none of the channels' is larger.
LEMMA WorstIs ==
  ASSUME NEW d, Sections(d), Numbers(d), Verdict(d) = "none", Buildable(d),
         NEW i \in DOMAIN d.channels
  PROVE  LET cfg == ScenarioConfig(d) IN
         WorstExtent(cfg) \in Nat /\ WriteExtent(cfg.channels[i]) <= WorstExtent(cfg)
<1> DEFINE n == Len(d.channels)
           f == [j \in 1..n |-> WriteExtent(ChannelConfig(d, d.channels[j]))]
           S == {WriteExtent(ScenarioConfig(d).channels[j]) :
                   j \in DOMAIN ScenarioConfig(d).channels}
<1>1. n \in Nat /\ DOMAIN d.channels = 1..n
      BY SectionsListed
<1>2. ASSUME NEW j \in 1..n
      PROVE  WriteExtent(ChannelConfig(d, d.channels[j])) \in Nat
  <2>1. PICK k0 : k0 = ChannelConfig(d, d.channels[j])
        OBVIOUS
  <2>2. ~CannotBuild(k0)
        BY <1>1, <2>1 DEF Buildable
  <2>3. BaseDelay(k0) \in Nat /\ MaxTapDelta(k0) \in Nat
        BY <1>1, <2>1, <2>2, ExtentIs
  <2>4. WriteExtent(k0) \in Nat
        BY <2>3 DEF WriteExtent
  <2> QED BY <2>1, <2>4
<1>3. ScenarioConfig(d).channels = [j \in 1..n |-> ChannelConfig(d, d.channels[j])]
      BY <1>1 DEF ScenarioConfig
<1>4. S = {f[j] : j \in 1..n} /\ WorstExtent(ScenarioConfig(d)) = Biggest(S)
      /\ WriteExtent(ScenarioConfig(d).channels[i]) = f[i]
  <2>1. S = {f[j] : j \in 1..n}
        BY <1>3
  <2>2. WorstExtent(ScenarioConfig(d)) = Biggest(S)
        BY DEF WorstExtent
  <2>3. WriteExtent(ScenarioConfig(d).channels[i]) = f[i]
        BY <1>1, <1>3
  <2> QED BY <2>1, <2>2, <2>3
<1>5. \A j \in 1..n : f[j] \in Nat
      BY <1>2
<1> HIDE DEF S, f, n
<1>6. PICK bound \in Nat : \A j \in 1..n : f[j] <= bound
      BY <1>1, <1>5, Bounded
<1>7. S \subseteq Nat /\ S # {} /\ \A x \in S : x <= bound
      BY <1>1, <1>4, <1>5, <1>6
<1>8. Biggest(S) \in S /\ \A x \in S : x <= Biggest(S)
      BY <1>6, <1>7, BiggestIn
<1> QED BY <1>1, <1>4, <1>7, <1>8

\* Every buffer of an accepted and buildable document holds a message behind its base delay
\* and its latest echo.
LEMMA CapacityHolds ==
  ASSUME NEW d, Sections(d), Numbers(d), Verdict(d) = "none", Buildable(d),
         NEW i \in DOMAIN d.channels
  PROVE  LET cfg == ScenarioConfig(d)  chan == cfg.channels[i] IN
         PairCapacity(cfg) >= BaseDelay(chan) + MaxTapDelta(chan) + cfg.environment.duration
<1> DEFINE cfg == ScenarioConfig(d)  chan == cfg.channels[i]  e == EnvironmentConfig(d.environment)
           declared == IF e.maxRange > 0
                       THEN Rounded(e.maxRange, Speed(e.speed)) + MaxTapDelay ELSE 0
           extent == BaseDelay(chan) + MaxTapDelta(chan)
           worst == Biggest({WorstExtent(cfg), declared})
<1>1. cfg.environment = e /\ chan = ChannelConfig(d, d.channels[i])
      BY DEF ScenarioConfig
<1>2. extent \in Nat /\ extent <= WorstExtent(cfg) /\ WorstExtent(cfg) \in Nat
  <2>1. ~CannotBuild(chan)
        BY <1>1 DEF Buildable
  <2>2. BaseDelay(chan) \in Nat /\ MaxTapDelta(chan) \in Nat
        BY <1>1, <2>1, ExtentIs
  <2>3. WriteExtent(chan) = extent
        BY DEF WriteExtent
  <2>4. WorstExtent(cfg) \in Nat /\ WriteExtent(chan) <= WorstExtent(cfg)
        BY WorstIs
  <2> QED BY <2>2, <2>3, <2>4
<1>3. /\ {d.environment.speed, d.environment.maxRange, d.environment.duration}
           \subseteq {Absent} \union Int
      /\ {DefaultSpeed, DefaultDuration, MaxTapDelay, SecondSamples} \subseteq Nat \ {0}
      BY ScenarioAssumption DEF Numbers
<1>4. /\ e.speed \in Int /\ e.maxRange \in Int /\ e.duration \in Int
      BY <1>3 DEF EnvironmentConfig, Or
<1>5. declared \in Int
  <2>1. Speed(e.speed) \in Nat \ {0}
        BY <1>3, <1>4 DEF Speed
  <2>2. Rounded(e.maxRange, Speed(e.speed)) \in Int
        BY <1>4, <2>1, Roundings
  <2> QED BY <1>3, <2>2
<1>6. PairCapacity(cfg) = (IF worst = 0 THEN SecondSamples ELSE worst) + e.duration
      BY <1>1 DEF PairCapacity
<1>7. cfg.environment.duration = e.duration
      BY <1>1
<1> HIDE DEF cfg, chan, declared, e
<1>8. worst \in Int /\ WorstExtent(cfg) <= worst
  <2> DEFINE w == WorstExtent(cfg)
  <2>1. w \in Int /\ declared \in Int
        BY <1>2, <1>5
  <2> HIDE DEF w
  <2>2. /\ Biggest({w, declared}) \in {w, declared}
        /\ w <= Biggest({w, declared})
        BY <2>1, BiggestOfTwo
  <2>3. worst = Biggest({w, declared})
        BY DEF w
  <2> HIDE DEF worst
  <2>4. worst \in Int /\ w <= worst
        BY <2>1, <2>2, <2>3
  <2> QED BY <2>4 DEF w
<1> HIDE DEF worst, extent
<1>9. extent <= (IF worst = 0 THEN SecondSamples ELSE worst)
      /\ (IF worst = 0 THEN SecondSamples ELSE worst) \in Int
      BY <1>2, <1>3, <1>8
<1>10. PairCapacity(cfg) >= extent + e.duration
       BY <1>2, <1>4, <1>6, <1>9
<1> QED BY <1>7, <1>10 DEF cfg, chan, extent

-----------------------------------------------------------------------------
(* Bringup: Simulator::initialize, which comes before run.                 *)

\* No device is claimed, nothing is calibrated.
LEMMA InitConnect ==
  ASSUME BringupAssumption, BInit
  PROVE  ConnectInv
<1> USE DEF BInit
<1>1. ConnectTypeOK
  <2>1. Leftovers \subseteq Seq(Packets)
        BY DEF BringupAssumption, Packets
  <2>2. ASSUME NEW s \in Serials
        PROVE  device[s] \in Device
    <3>1. \/ device[s] \in [held : {FALSE}, hil : {FALSE}, asked : {FALSE}, fifo : {<<>>}]
          \/ device[s] \in [held : {FALSE}, hil : {TRUE}, asked : {FALSE}, fifo : Leftovers]
          OBVIOUS
    <3>2. <<>> \in Seq(Packets)
          OBVIOUS
    <3> QED BY <2>1, <3>1, <3>2 DEF Device
  <2>3. device \in [Serials -> Device]
        BY <2>2
  <2> QED BY <2>3 DEF ConnectTypeOK
<1>2. \A s \in Serials : ~device[s].held
      OBVIOUS
<1>3. Claimed
      BY <1>2 DEF Claimed
<1>4. LeftHil /\ Passed /\ CalibrationIsOwn
      BY DEF LeftHil, Passed, CalibrationIsOwn
<1> QED BY <1>1, <1>3, <1>4 DEF ConnectInv

\* The scenario stays, and so do the devices once every modem is connected.
LEMMA DocStays == [BNext]_bringupVars => doc' = doc
BY DEF BNext, bringupVars, links, Host, Load,
       OpenFails, Open, Request, Receive,
       ReceiveFails, Enter, Unwind, Build,
       Wire, Throw, Devices, Answer,
       EmitStatus, Queues

LEMMA DeviceOf ==
  ASSUME NEW h \in BOOLEAN, NEW i \in BOOLEAN, NEW a \in BOOLEAN,
         NEW f \in Seq(Packets)
  PROVE  [held |-> h, hil |-> i, asked |-> a, fifo |-> f] \in Device
BY DEF Device

\* What a step of the environment does: one packet more in one FIFO.
LEMMA DeviceStep ==
  ASSUME BringupAssumption, ConnectTypeOK, Devices
  PROVE  /\ UNCHANGED <<phase, doc, modem, open, cals, touched, exitLost, undrained>>
         /\ device' \in [Serials -> Device]
         /\ \A s \in Serials :
              /\ device'[s].held = device[s].held /\ device'[s].hil = device[s].hil
              /\ \/ device'[s].fifo = device[s].fifo
                 \/ \E p \in Packets \ {"old_cal"} :
                      device'[s].fifo = Append(device[s].fifo, p)
<1>1. PICK s \in Present : Answer(s) \/ EmitStatus(s)
      BY DEF Devices
<1>2. PICK p \in {"cal", "bad_cal", "status"}, a \in {FALSE, device[s].asked} :
        Queues(s, p, a)
      BY <1>1 DEF Answer, EmitStatus
<1>3. /\ UNCHANGED <<phase, doc, modem, open, cals, touched, exitLost, undrained>>
      /\ device' = [device EXCEPT ![s].fifo = Append(@, p), ![s].asked = a]
      BY <1>2 DEF Queues
<1>4. p \in Packets \ {"old_cal"}
      BY DEF Packets
<1>5. device \in [Serials -> Device]
      BY DEF ConnectTypeOK
<1>6. s \in Serials /\ device[s] \in Device
      BY <1>5 DEF BringupAssumption
<1>7. /\ device[s].fifo \in Seq(Packets) /\ a \in BOOLEAN
      /\ device[s].held \in BOOLEAN /\ device[s].hil \in BOOLEAN
      BY <1>6 DEF Device
<1>8. Append(device[s].fifo, p) \in Seq(Packets)
      BY <1>4, <1>7
<1>9. device'[s] = [device[s] EXCEPT !.fifo = Append(@, p), !.asked = a]
      BY <1>3, <1>5, <1>6
<1>10. device'[s] = [held |-> device[s].held, hil |-> device[s].hil, asked |-> a,
                     fifo |-> Append(device[s].fifo, p)]
       BY <1>6, <1>9 DEF Device
<1>11. device'[s] \in Device
       BY <1>7, <1>8, <1>10, DeviceOf
<1>12. \A t \in Serials \ {s} : device'[t] = device[t]
       BY <1>3, <1>5
<1>13. device' \in [Serials -> Device]
       BY <1>3, <1>5, <1>11, <1>12
<1>14. /\ device'[s].held = device[s].held /\ device'[s].hil = device[s].hil
       /\ device'[s].fifo = Append(device[s].fifo, p)
       BY <1>10
<1>15. \A t \in Serials : t = s \/ device'[t] = device[t]
       BY <1>12
<1> QED BY <1>3, <1>4, <1>13, <1>14, <1>15

\* A command changes one flag of one device.
LEMMA SentStep ==
  ASSUME ConnectTypeOK, NEW s \in Serials, NEW field \in {"asked", "hil"},
         Commanded(s, field)
  PROVE  /\ device' \in [Serials -> Device]
         /\ \A t \in Serials \ {s} : device'[t] = device[t]
         /\ device'[s].held = device[s].held /\ device'[s].fifo = device[s].fifo
<1>1. device \in [Serials -> Device] /\ device[s] \in Device
      BY DEF ConnectTypeOK
<1>2. device' = [device EXCEPT ![s] = [@ EXCEPT ![field] = TRUE]]
      BY DEF Commanded
<1>3. device'[s] = [device[s] EXCEPT ![field] = TRUE]
      BY <1>1, <1>2
<1>4. \/ device'[s] = [held |-> device[s].held, hil |-> device[s].hil, asked |-> TRUE,
                       fifo |-> device[s].fifo]
      \/ device'[s] = [held |-> device[s].held, hil |-> TRUE, asked |-> device[s].asked,
                       fifo |-> device[s].fifo]
      BY <1>1, <1>3 DEF Device
<1>5. device'[s] \in Device
  <2>1. /\ device[s].held \in BOOLEAN /\ device[s].hil \in BOOLEAN
        /\ device[s].asked \in BOOLEAN /\ device[s].fifo \in Seq(Packets)
        BY <1>1 DEF Device
  <2> QED BY <1>4, <2>1, DeviceOf
<1>6. \A t \in Serials \ {s} : device'[t] = device[t]
      BY <1>1, <1>2
<1>7. device' \in [Serials -> Device]
      BY <1>1, <1>2, <1>5, <1>6
<1> QED BY <1>4, <1>6, <1>7

\* Steps that touch no device: the phase moves on, or initialize gives up.
LEMMA LoadConnect ==
  ASSUME ConnectInv, Load
  PROVE  ConnectInv'
<1> USE DEF ConnectInv, links
<1>1. /\ UNCHANGED <<doc, modem, open, cals, device, touched, exitLost, undrained>>
      /\ phase = "load" /\ phase' \in {"open", "failed", "terminated"}
      BY DEF Load
<1>2. ConnectTypeOK'
      BY <1>1 DEF ConnectTypeOK
<1>3. Claimed'
      BY <1>1 DEF Claimed, Serial
<1>4. LeftHil' /\ Passed' /\ CalibrationIsOwn'
      BY <1>1 DEF LeftHil, Passed, CalibrationIsOwn,
                  Serial
<1> QED BY <1>2, <1>3, <1>4

LEMMA ThrowConnect ==
  ASSUME ConnectInv, OpenFails \/ ReceiveFails
  PROVE  ConnectInv'
<1> USE DEF ConnectInv, links
<1>1. /\ UNCHANGED <<doc, modem, open, cals, device, touched, exitLost, undrained>>
      /\ phase' = "unwind"
      BY DEF OpenFails, ReceiveFails, Throw
<1>2. ConnectTypeOK'
      BY <1>1 DEF ConnectTypeOK
<1>3. Claimed'
      BY <1>1 DEF Claimed, Serial
<1>4. LeftHil' /\ Passed' /\ CalibrationIsOwn'
      BY <1>1 DEF LeftHil, Passed, CalibrationIsOwn
<1> QED BY <1>2, <1>3, <1>4

LEMMA BuildConnect ==
  ASSUME ConnectInv, Build \/ Wire
  PROVE  ConnectInv'
<1> USE DEF ConnectInv, links
<1>1. /\ UNCHANGED <<doc, open, cals, device, touched, exitLost, undrained>>
      /\ phase' \in {"terminated", "wire", "ready"}
      /\ modem' \in {1, modem + 1}
      BY DEF Build, Wire
<1>2. ConnectTypeOK'
      BY <1>1 DEF ConnectTypeOK
<1>3. Claimed'
      BY <1>1 DEF Claimed, Serial
<1>4. LeftHil' /\ Passed' /\ CalibrationIsOwn'
      BY <1>1 DEF LeftHil, Passed, CalibrationIsOwn
<1> QED BY <1>2, <1>3, <1>4

\* What draining a FIFO leaves is what came last.
LEMMA RestOf ==
  ASSUME NEW f \in Seq(Packets), NEW n \in 0..Len(f)
  PROVE  SubSeq(f, n + 1, Len(f)) \in Seq(Packets)
<1>1. \A i \in (n + 1)..Len(f) : f[i] \in Packets
      OBVIOUS
<1> QED BY <1>1, SubSeqProperties

\* A modem is opened: its device was nobody's, and is this modem's now.
LEMMA OpenConnect ==
  ASSUME BringupAssumption, ConnectInv, Open
  PROVE  ConnectInv'
<1> USE DEF ConnectInv
<1> DEFINE s == Serial(modem)
<1>1. /\ phase = "open" /\ s \in Present /\ ~device[s].held
      /\ open' = open \union {modem} /\ touched' = touched \union {s}
      /\ phase' = "request" /\ UNCHANGED <<doc, modem, cals, exitLost>>
      BY DEF Open
<1>2. /\ s \in Serials /\ device[s] \in Device
      /\ device \in [Serials -> Device]
      /\ device[s].fifo \in Seq(Packets)
      /\ device[s].hil \in BOOLEAN /\ device[s].asked \in BOOLEAN
      BY <1>1 DEF BringupAssumption, ConnectTypeOK, Device
<1>3. PICK n \in 0..Len(device[s].fifo) :
        LET rest == SubSeq(device[s].fifo, n + 1, Len(device[s].fifo)) IN
        /\ IF rest = <<>> THEN undrained' = undrained
           ELSE undrained' = undrained \union {modem}
        /\ device' = [device EXCEPT ![s].held = TRUE, ![s].fifo = rest]
      BY DEF Open, Drained
<1> DEFINE rest == SubSeq(device[s].fifo, n + 1, Len(device[s].fifo))
<1>4. rest \in Seq(Packets)
      BY <1>2, RestOf
<1>5. /\ undrained \subseteq undrained'
      /\ rest = <<>> \/ modem \in undrained'
      BY <1>3
<1>6. device'[s] = [held |-> TRUE, hil |-> device[s].hil, asked |-> device[s].asked,
                    fifo |-> rest]
      BY <1>2, <1>3 DEF Device
<1>7. \A t \in Serials \ {s} : device'[t] = device[t]
      BY <1>2, <1>3
<1> HIDE DEF rest, s
<1>8. device'[s] \in Device
      BY <1>2, <1>4, <1>6, DeviceOf
<1>9. device' \in [Serials -> Device]
      BY <1>2, <1>3, <1>7, <1>8
<1>10. ConnectTypeOK'
       BY <1>1, <1>2, <1>9 DEF ConnectTypeOK
<1>11. \A m : Serial(m)' = Serial(m)
       BY <1>1 DEF Serial
<1>12. device'[s].held /\ device'[s].fifo = rest
       BY <1>6
<1>13. modem \in Nat /\ s = Serial(modem)
       BY DEF ConnectTypeOK, s
<1>14. Claimed'
  <2>1. \A m \in open : Serial(m) \in Serials \ {s} /\ device[Serial(m)].held
        BY <1>1 DEF Claimed
  <2>2. \A m \in open' : Serial(m) \in Serials /\ device'[Serial(m)].held
        BY <1>1, <1>2, <1>7, <1>12, <1>13, <2>1
  <2>3. \A t \in Serials : device'[t].held => \E m \in open' : Serial(m) = t
        BY <1>1, <1>7, <1>13 DEF Claimed
  <2>4. \A m, q \in open' : Serial(m) = Serial(q) => m = q
        BY <1>1, <1>13, <2>1 DEF Claimed
  <2> QED BY <1>1, <1>11, <2>2, <2>3, <2>4 DEF Claimed
<1>15. LeftHil'
  <2>1. ASSUME NEW t \in touched' \ exitLost', device'[t].hil
        PROVE  device'[t].held
    <3>1. CASE t = s
          BY <1>12, <3>1
    <3>2. CASE t # s
      <4>1. t \in Serials /\ t \in touched \ exitLost /\ device'[t] = device[t]
            BY <1>1, <1>7, <1>10, <2>1, <3>2 DEF ConnectTypeOK
      <4> QED BY <2>1, <4>1 DEF LeftHil
    <3> QED BY <3>1, <3>2
  <2> QED BY <2>1 DEF LeftHil
<1>16. Passed'
  <2>1. ASSUME modem \notin undrained', NEW i \in DOMAIN device'[s].fifo
        PROVE  device'[s].fifo[i] # "old_cal"
        BY <1>5, <1>12, <2>1
  <2> QED BY <1>1, <1>11, <1>13, <2>1 DEF Passed
<1>17. CalibrationIsOwn'
       BY <1>1, <1>5 DEF CalibrationIsOwn
<1> QED BY <1>10, <1>14, <1>15, <1>16, <1>17

\* A command leaves every claim and every FIFO as it was.
LEMMA CommandConnect ==
  ASSUME ConnectInv, Request \/ Enter
  PROVE  ConnectInv'
<1> USE DEF ConnectInv
<1> DEFINE s == Serial(modem)
<1>1. /\ phase \in {"request", "enter"} /\ UNCHANGED <<doc, open, touched, cals>>
      /\ UNCHANGED <<exitLost, undrained>>
      /\ \/ phase = "request" /\ phase' = "await" /\ modem' = modem
         \/ phase = "enter" /\ phase' \in {"build", "open"} /\ modem' = modem + 1
         \/ phase' = "unwind" /\ modem' = modem
      /\ Commanded(s, "asked") \/ Commanded(s, "hil") \/ device' = device
      BY DEF Request, Enter, Throw
<1>2. modem \in open /\ s \in Serials /\ device[s].held
      BY <1>1 DEF Claimed
<1>3. device \in [Serials -> Device]
      BY DEF ConnectTypeOK
<1> HIDE DEF s
<1>4. /\ device' \in [Serials -> Device]
      /\ \A t \in Serials \ {s} : device'[t] = device[t]
      /\ device'[s].held = device[s].held /\ device'[s].fifo = device[s].fifo
      BY <1>1, <1>2, <1>3, SentStep
<1>5. \A t \in Serials : /\ device'[t].held = device[t].held
                         /\ device'[t].fifo = device[t].fifo
      BY <1>4
<1>6. ConnectTypeOK'
      BY <1>1, <1>4 DEF ConnectTypeOK
<1>7. \A m : Serial(m)' = Serial(m)
      BY <1>1 DEF Serial
<1>8. Claimed'
      BY <1>1, <1>2, <1>5, <1>7 DEF Claimed
<1>9. LeftHil'
  <2>1. ASSUME NEW t \in touched \ exitLost, device'[t].hil
        PROVE  device'[t].held
    <3>1. t \in Serials
          BY DEF ConnectTypeOK
    <3>2. CASE t = s
          BY <1>2, <1>4, <3>2
    <3>3. CASE t # s
          BY <1>4, <2>1, <3>1, <3>3 DEF LeftHil
    <3> QED BY <3>2, <3>3
  <2> QED BY <1>1, <2>1 DEF LeftHil
<1>10. Passed'
  <2>1. modem \in Nat
        BY DEF ConnectTypeOK
  <2>2. s = Serial(modem)
        BY DEF s
  <2>3. CASE phase = "request" /\ phase' = "await" /\ modem' = modem
        BY <1>1, <1>4, <1>7, <2>2, <2>3 DEF Passed
  <2>4. CASE phase = "enter" /\ phase' \in {"build", "open"} /\ modem' = modem + 1
        BY <1>1, <2>1, <2>4 DEF Passed
  <2>5. CASE phase' = "unwind"
        BY <2>5 DEF Passed
  <2> QED BY <1>1, <2>3, <2>4, <2>5
<1>11. CalibrationIsOwn'
       BY <1>1 DEF CalibrationIsOwn
<1> QED BY <1>6, <1>8, <1>9, <1>10, <1>11

\* A control packet is read: the calibration, one that does not count, or the last attempt.
LEMMA ReceiveConnect ==
  ASSUME ConnectInv, Receive
  PROVE  ConnectInv'
<1> USE DEF ConnectInv
<1> DEFINE s == Serial(modem)
           f == device[s].fifo
<1>1. /\ phase = "await" /\ f # <<>> /\ device' = [device EXCEPT ![s].fifo = Tail(@)]
      /\ \/ /\ Head(f) \in {"cal", "old_cal"} /\ cals' = Append(cals, Head(f))
            /\ phase' = "enter"
         \/ cals' = cals /\ phase' \in {"unwind", "await"}
      /\ UNCHANGED <<doc, modem, open, touched, exitLost, undrained>>
      BY DEF Receive
<1>2. modem \in open /\ s \in Serials /\ device[s].held
      BY <1>1 DEF Claimed
<1>3. /\ device \in [Serials -> Device] /\ device[s] \in Device
      /\ f \in Seq(Packets)
      /\ device[s].hil \in BOOLEAN /\ device[s].asked \in BOOLEAN /\ device[s].held \in BOOLEAN
      BY <1>2 DEF ConnectTypeOK, Device
<1>4. /\ Tail(f) \in Seq(Packets) /\ Len(Tail(f)) = Len(f) - 1 /\ Head(f) = f[1]
      /\ \A i \in 1..Len(Tail(f)) : Tail(f)[i] = f[i + 1]
  <2>1. f # <<>>
        BY <1>1
  <2> HIDE DEF f
  <2> QED BY <1>3, <2>1, HeadTailProperties
<1>5. /\ device'[s] = [held |-> device[s].held, hil |-> device[s].hil,
                       asked |-> device[s].asked, fifo |-> Tail(f)]
      /\ \A t \in Serials \ {s} : device'[t] = device[t]
      BY <1>1, <1>2, <1>3 DEF Device
<1>6. device'[s] \in Device
      BY <1>3, <1>4, <1>5, DeviceOf
<1>7. device' \in [Serials -> Device]
  <2> HIDE DEF s, f
  <2> QED BY <1>1, <1>3, <1>5, <1>6
<1>8. s = Serial(modem)
      OBVIOUS
<1>9. 1 \in DOMAIN f /\ DOMAIN f = 1..Len(f) /\ Len(f) \in Nat
      BY <1>1, <1>3
<1> HIDE DEF s, f
<1>10. \A t \in Serials : device'[t].held = device[t].held /\ device'[t].hil = device[t].hil
       BY <1>5
<1>11. /\ cals \in Seq({"cal", "old_cal"}) /\ modem \in Nat \ {0}
       /\ touched \subseteq Serials
       BY DEF ConnectTypeOK
<1>12. ConnectTypeOK'
       BY <1>1, <1>7, <1>11 DEF ConnectTypeOK
<1>13. \A m : Serial(m)' = Serial(m)
       BY <1>1 DEF Serial
<1>14. Claimed'
       BY <1>1, <1>2, <1>10, <1>13 DEF Claimed
<1>15. LeftHil'
       BY <1>1, <1>10, <1>11 DEF LeftHil
<1>16. Len(cals) = modem - 1
       BY <1>1 DEF Passed
<1>17. modem \notin undrained => \A i \in 1..Len(f) : f[i] # "old_cal"
       BY <1>1, <1>8, <1>9 DEF Passed, f
<1>18. Passed'
  <2>1. CASE phase' = "await" /\ cals' = cals
    <3>1. device'[s].fifo = Tail(f)
          BY <1>5
    <3>2. DOMAIN Tail(f) = 1..Len(Tail(f))
          BY <1>4
    <3>3. modem \notin undrained => \A i \in DOMAIN Tail(f) : Tail(f)[i] # "old_cal"
          BY <1>4, <1>9, <1>17, <3>2
    <3> QED BY <1>1, <1>8, <1>13, <1>16, <2>1, <3>1, <3>3 DEF Passed
  <2>2. CASE phase' = "enter" /\ cals' = Append(cals, Head(f))
        BY <1>1, <1>11, <1>16, <2>2 DEF Passed
  <2>3. CASE phase' = "unwind"
        BY <2>3 DEF Passed
  <2> QED BY <1>1, <2>1, <2>2, <2>3
<1>19. CalibrationIsOwn'
  <2>1. CASE cals' = cals
        BY <1>1, <2>1 DEF CalibrationIsOwn
  <2>2. CASE Head(f) \in {"cal", "old_cal"} /\ cals' = Append(cals, Head(f))
    <3>1. /\ DOMAIN cals' = 1..modem /\ cals'[modem] = Head(f)
          /\ \A m \in 1..(modem - 1) : cals'[m] = cals[m]
          BY <1>11, <1>16, <2>2
    <3>2. modem \notin undrained => Head(f) = "cal"
          BY <1>4, <1>9, <1>17, <2>2
    <3>3. \A m \in 1..(modem - 1) : m \notin undrained => cals[m] = "cal"
          BY <1>11, <1>16 DEF CalibrationIsOwn
    <3> QED BY <1>1, <1>11, <3>1, <3>2, <3>3 DEF CalibrationIsOwn
  <2> QED BY <1>1, <2>1, <2>2
<1> QED BY <1>12, <1>14, <1>15, <1>18, <1>19

\* One modem more is destroyed: its device is nobody's, and out of HIL mode unless the
\* command is lost.
LEMMA UnwindConnect ==
  ASSUME ConnectInv, Unwind
  PROVE  ConnectInv'
<1> USE DEF ConnectInv
<1>1. /\ phase = "unwind"
      /\ UNCHANGED <<doc, modem, cals, touched, undrained>>
      BY DEF Unwind
<1>2. CASE open = {} /\ phase' = "failed" /\ UNCHANGED <<open, device, exitLost>>
  <2>1. ConnectTypeOK'
        BY <1>1, <1>2 DEF ConnectTypeOK
  <2>2. Claimed'
        BY <1>1, <1>2 DEF Claimed, Serial
  <2>3. LeftHil' /\ Passed' /\ CalibrationIsOwn'
        BY <1>1, <1>2 DEF LeftHil, Passed, CalibrationIsOwn
  <2> QED BY <2>1, <2>2, <2>3
<1>3. ASSUME open # {}, phase' = phase,
             NEW m, m = IF modem \in open THEN modem ELSE Smallest(open),
             NEW s, s = Serial(m),
             open' = open \ {m},
             \/ exitLost' = exitLost /\ device' = [device EXCEPT ![s].held = FALSE, ![s].hil = FALSE]
             \/ exitLost' = exitLost \union {s} /\ device' = [device EXCEPT ![s].held = FALSE]
      PROVE  ConnectInv'
  <2>1. m \in open
        BY <1>3, SmallestIn DEF ConnectTypeOK
  <2>2. s \in Serials
        BY <1>3, <2>1 DEF Claimed
  <2>3. /\ device \in [Serials -> Device] /\ device[s] \in Device
        /\ touched \subseteq Serials
        BY <2>2 DEF ConnectTypeOK
  <2>4. /\ device[s].hil \in BOOLEAN /\ device[s].asked \in BOOLEAN
        /\ device[s].fifo \in Seq(Packets)
        BY <2>3 DEF Device
  <2>5. PICK h \in BOOLEAN :
          /\ device'[s] = [held |-> FALSE, hil |-> h, asked |-> device[s].asked,
                           fifo |-> device[s].fifo]
          /\ h = FALSE \/ s \in exitLost'
    <3>1. CASE /\ exitLost' = exitLost
               /\ device' = [device EXCEPT ![s].held = FALSE, ![s].hil = FALSE]
      <4>1. device'[s] = [held |-> FALSE, hil |-> FALSE, asked |-> device[s].asked,
                          fifo |-> device[s].fifo]
            BY <2>2, <2>3, <3>1 DEF Device
      <4> QED BY <4>1
    <3>2. CASE exitLost' = exitLost \union {s} /\ device' = [device EXCEPT ![s].held = FALSE]
      <4>1. device'[s] = [held |-> FALSE, hil |-> device[s].hil, asked |-> device[s].asked,
                          fifo |-> device[s].fifo]
            BY <2>2, <2>3, <3>2 DEF Device
      <4> QED BY <2>4, <3>2, <4>1
    <3> QED BY <1>3, <3>1, <3>2
  <2>6. /\ \A t \in Serials \ {s} : device'[t] = device[t]
        /\ exitLost \subseteq exitLost' /\ exitLost' \subseteq exitLost \union {s}
        BY <1>3, <2>3
  <2>7. /\ device'[s] \in Device /\ ~device'[s].held
        /\ ~device'[s].hil \/ s \in exitLost'
    <3>1. device'[s] \in Device
          BY <2>4, <2>5, DeviceOf
    <3>2. ~device'[s].held /\ device'[s].hil = h
          BY <2>5
    <3> QED BY <2>5, <3>1, <3>2
  <2>8. device' \in [Serials -> Device]
        BY <1>3, <2>3, <2>6, <2>7
  <2>9. ConnectTypeOK'
        BY <1>1, <1>3, <2>8 DEF ConnectTypeOK
  <2>10. \A q : Serial(q)' = Serial(q)
         BY <1>1 DEF Serial
  <2>11. \A q \in open' : q \in open /\ Serial(q) \in Serials \ {s}
         BY <1>3, <2>1 DEF Claimed
  <2>12. Claimed'
    <3>1. \A q \in open' : /\ Serial(q) \in Serials
                           /\ device'[Serial(q)].held
          BY <2>6, <2>11 DEF Claimed
    <3>2. \A t \in Serials : device'[t].held => \E q \in open' : Serial(q) = t
          BY <1>3, <2>6, <2>7 DEF Claimed
    <3>3. \A q, r \in open' : Serial(q) = Serial(r) => q = r
          BY <2>11 DEF Claimed
    <3> QED BY <1>1, <1>3, <2>10, <3>1, <3>2, <3>3 DEF Claimed
  <2>13. LeftHil'
    <3>1. ASSUME NEW t \in touched \ exitLost', device'[t].hil
          PROVE  device'[t].held
      <4>1. t # s
            BY <2>7, <3>1
      <4>2. t \in touched \ exitLost /\ device'[t] = device[t]
            BY <2>3, <2>6, <4>1
      <4> QED BY <3>1, <4>2 DEF LeftHil
    <3> QED BY <1>1, <3>1 DEF LeftHil
  <2>14. Passed' /\ CalibrationIsOwn'
         BY <1>1, <1>3 DEF Passed, CalibrationIsOwn
  <2> QED BY <2>9, <2>12, <2>13, <2>14
<1>4. CASE open # {}
  <2>1. PICK m : m = IF modem \in open THEN modem ELSE Smallest(open)
        OBVIOUS
  <2>2. PICK s : s = Serial(m)
        OBVIOUS
  <2>3. /\ phase' = phase /\ open' = open \ {m}
        /\ \/ /\ exitLost' = exitLost
              /\ device' = [device EXCEPT ![s].held = FALSE, ![s].hil = FALSE]
           \/ exitLost' = exitLost \union {s} /\ device' = [device EXCEPT ![s].held = FALSE]
        BY <1>4, <2>1, <2>2 DEF Unwind, Leaves
  <2> QED BY <1>3, <1>4, <2>1, <2>2, <2>3
<1>5. open = {} => phase' = "failed" /\ UNCHANGED <<open, device, exitLost>>
      BY DEF Unwind
<1> QED BY <1>2, <1>4, <1>5

\* What a device sends is no answer to a question of an earlier run.
LEMMA DevicesConnect ==
  ASSUME BringupAssumption, ConnectInv, Devices, doc' = doc
  PROVE  ConnectInv'
<1> USE DEF ConnectInv
<1>1. /\ UNCHANGED <<phase, doc, modem, open, cals, touched, exitLost, undrained>>
      /\ device' \in [Serials -> Device]
      /\ \A s \in Serials :
           /\ device'[s].held = device[s].held /\ device'[s].hil = device[s].hil
           /\ \/ device'[s].fifo = device[s].fifo
              \/ \E p \in Packets \ {"old_cal"} :
                   device'[s].fifo = Append(device[s].fifo, p)
      BY DeviceStep
<1>2. ConnectTypeOK'
      BY <1>1 DEF ConnectTypeOK
<1>3. \A m : Serial(m)' = Serial(m)
      BY <1>1 DEF Serial
<1>4. Claimed'
      BY <1>1, <1>3 DEF Claimed
<1>5. LeftHil'
      BY <1>1 DEF LeftHil, ConnectTypeOK
<1>6. Passed'
  <2>1. ASSUME phase \in {"request", "await"}, modem \notin undrained,
               NEW i \in DOMAIN device'[Serial(modem)].fifo
        PROVE  device'[Serial(modem)].fifo[i] # "old_cal"
    <3> DEFINE s == Serial(modem)
    <3>1. s \in Serials
          BY <2>1 DEF Claimed
    <3>2. device[s].fifo \in Seq(Packets)
          BY <3>1 DEF ConnectTypeOK, Device
    <3>3. \A j \in DOMAIN device[s].fifo : device[s].fifo[j] # "old_cal"
          BY <2>1 DEF Passed
    <3>4. CASE device'[s].fifo = device[s].fifo
          BY <2>1, <3>3, <3>4
    <3>5. ASSUME NEW p \in Packets \ {"old_cal"},
                 device'[s].fifo = Append(device[s].fifo, p)
          PROVE  device'[s].fifo[i] # "old_cal"
          BY <2>1, <3>2, <3>3, <3>5
    <3> QED BY <1>1, <3>1, <3>4, <3>5
  <2> QED BY <1>1, <1>3, <2>1 DEF Passed
<1>7. CalibrationIsOwn'
      BY <1>1 DEF CalibrationIsOwn
<1> QED BY <1>2, <1>4, <1>5, <1>6, <1>7

LEMMA StutterConnect ==
  ASSUME ConnectInv, UNCHANGED bringupVars
  PROVE  ConnectInv'
<1>1. UNCHANGED <<phase, doc, modem, open, cals, device, touched, exitLost, undrained>>
      BY DEF bringupVars
<1> QED BY <1>1 DEF ConnectInv, ConnectTypeOK, Claimed,
           LeftHil, Passed, CalibrationIsOwn,
           Serial

\* While the modems of a scenario are connected, whatever the devices send or keep from an
\* earlier session and whichever transfers fail: a device is claimed by one modem or by
\* nobody, and one that was opened and let go is out of HIL mode (discover_modems, Modem).
THEOREM ConnectInvHolds ==
  ASSUME BringupAssumption
  PROVE  BSpec => []ConnectInv
<1>1. BInit => ConnectInv
      BY InitConnect
<1>2. ConnectInv /\ [BNext]_bringupVars => ConnectInv'
  <2> SUFFICES ASSUME ConnectInv, [BNext]_bringupVars
               PROVE  ConnectInv'
      OBVIOUS
  <2>1. CASE Load
        BY <2>1, LoadConnect
  <2>2. CASE OpenFails \/ ReceiveFails
        BY <2>2, ThrowConnect
  <2>3. CASE Open
        BY <2>3, OpenConnect
  <2>4. CASE Request \/ Enter
        BY <2>4, CommandConnect
  <2>5. CASE Receive
        BY <2>5, ReceiveConnect
  <2>6. CASE Unwind
        BY <2>6, UnwindConnect
  <2>7. CASE Build \/ Wire
        BY <2>7, BuildConnect
  <2>8. CASE Devices
        BY <2>8, DevicesConnect, DocStays
  <2>9. CASE UNCHANGED bringupVars
        BY <2>9, StutterConnect
  <2> QED BY <2>1, <2>2, <2>3, <2>4, <2>5, <2>6, <2>7, <2>8, <2>9
          DEF BNext, Host
<1> QED BY <1>1, <1>2, PTL DEF BSpec

\* An initialize that returns false gives every device back, and leaves none that it opened
\* in HIL mode unless the EXIT_HIL_MODE was lost, wherever in the sequence it failed.
THEOREM FailureIsClean ==
  ASSUME BringupAssumption
  PROVE  BSpec => []CleanFailure
<1>1. ConnectInv => CleanFailure
      BY DEF ConnectInv, ConnectTypeOK, Claimed,
             LeftHil, CleanFailure
<1> QED BY <1>1, ConnectInvHolds, PTL

\* A modem whose FIFO was drained to the end is calibrated with its answer to this run.
THEOREM OwnCalibration ==
  ASSUME BringupAssumption
  PROVE  BSpec => []CalibrationIsOwn
<1>1. ConnectInv => CalibrationIsOwn
      BY DEF ConnectInv
<1> QED BY <1>1, ConnectInvHolds, PTL

\* A set of channel numbers can be put in order, and Listed does so.
InOrder(s, C) ==
  ToSet(s) = C /\ \A i, j \in DOMAIN s : i < j => s[i] < s[j]

LEMMA OrderExists ==
  ASSUME NEW B \in Nat
  PROVE  \A n \in Nat : \A C \in SUBSET (1..B) :
           Cardinality(C) = n => \E s \in [1..n -> C] : InOrder(s, C)
<1> DEFINE S == {n \in Nat : \A C \in SUBSET (1..B) :
                   Cardinality(C) = n => \E s \in [1..n -> C] : InOrder(s, C)}
<1>1. \A C \in SUBSET (1..B) : IsFiniteSet(C) /\ Cardinality(C) \in Nat
  <2>1. IsFiniteSet(1..B)
        BY FS_Interval
  <2> QED BY <2>1, FS_Subset, FS_CardinalityType
<1>2. 0 \in S
  <2>1. SUFFICES ASSUME NEW C \in SUBSET (1..B), Cardinality(C) = 0
                 PROVE  \E s \in [1..0 -> C] : InOrder(s, C)
        OBVIOUS
  <2>2. C = {}
        BY <1>1, <2>1, FS_EmptySet
  <2>3. <<>> \in [1..0 -> C] /\ InOrder(<<>>, C)
        BY <2>2 DEF InOrder, ToSet
  <2> QED BY <2>3
<1>3. ASSUME NEW n \in Nat, n \in S
      PROVE  n + 1 \in S
  <2>1. SUFFICES ASSUME NEW C \in SUBSET (1..B), Cardinality(C) = n + 1
                 PROVE  \E s \in [1..(n + 1) -> C] : InOrder(s, C)
        OBVIOUS
  <2>2. C # {}
        BY <2>1, FS_EmptySet
  <2>3. C \subseteq Nat /\ \A x \in C : x <= B
        OBVIOUS
  <2>4. PICK m \in C : \A x \in C : x <= m
        BY <2>2, <2>3, GreatestOf
  <2>5. Cardinality(C \ {m}) = n /\ C \ {m} \in SUBSET (1..B)
        BY <1>1, <2>1, <2>4, FS_RemoveElement
  <2>6. PICK t \in [1..n -> C \ {m}] : InOrder(t, C \ {m})
        BY <1>3, <2>5
  <2> DEFINE s == [i \in 1..(n + 1) |-> IF i <= n THEN t[i] ELSE m]
  <2>7. \A i \in 1..n : s[i] = t[i] /\ t[i] \in C \ {m}
        OBVIOUS
  <2>8. s[n + 1] = m /\ \A i \in 1..(n + 1) : i \in 1..n \/ i = n + 1
        OBVIOUS
  <2>9. s \in [1..(n + 1) -> C]
        BY <2>4
  <2> HIDE DEF s
  <2>10. ToSet(s) = C
    <3>1. \A x \in C : \E i \in 1..(n + 1) : s[i] = x
      <4>1. TAKE x \in C
      <4>2. CASE x = m
            BY <2>8, <4>2
      <4>3. CASE x # m
        <5>1. PICK i \in DOMAIN t : t[i] = x
              BY <2>6, <4>3 DEF InOrder, ToSet
        <5>2. i \in 1..n /\ i \in 1..(n + 1)
              BY <5>1
        <5> QED BY <2>7, <5>1, <5>2
      <4> QED BY <4>2, <4>3
    <3> QED BY <2>9, <3>1 DEF ToSet
  <2>11. ASSUME NEW i \in 1..(n + 1), NEW j \in 1..(n + 1), i < j
         PROVE  s[i] < s[j]
    <3>1. i \in 1..n
          BY <2>11
    <3>2. CASE j = n + 1
      <4>1. s[i] \in C /\ s[i] # m /\ s[j] = m
            BY <2>7, <2>8, <3>1, <3>2
      <4>2. s[i] <= m /\ s[i] \in Nat /\ m \in Nat
            BY <2>3, <2>4, <4>1
      <4> QED BY <4>1, <4>2
    <3>3. CASE j \in 1..n
      <4>1. DOMAIN t = 1..n
            OBVIOUS
      <4>2. \A a, b \in DOMAIN t : a < b => t[a] < t[b]
            BY <2>6 DEF InOrder
      <4>3. t[i] < t[j]
            BY <2>11, <3>1, <3>3, <4>1, <4>2
      <4> QED BY <2>7, <3>1, <3>3, <4>3
    <3> QED BY <2>8, <3>2, <3>3
  <2>12. InOrder(s, C)
         BY <2>9, <2>10, <2>11 DEF InOrder
  <2> QED BY <2>9, <2>12
<1>4. \A n \in Nat : n \in S
  <2> HIDE DEF S
  <2> QED BY <1>2, <1>3, SetInduction
<1> QED BY <1>4

LEMMA ListedIs ==
  ASSUME NEW B \in Nat, NEW C \in SUBSET (1..B)
  PROVE  /\ IsFiniteSet(C) /\ Cardinality(C) \in Nat
         /\ Listed(C) \in [1..Cardinality(C) -> C]
         /\ \A c \in C : \E i \in DOMAIN Listed(C) : Listed(C)[i] = c
         /\ \A i, j \in DOMAIN Listed(C) : Listed(C)[i] = Listed(C)[j] => i = j
<1>1. IsFiniteSet(C) /\ Cardinality(C) \in Nat
  <2>1. IsFiniteSet(1..B)
        BY FS_Interval
  <2> QED BY <2>1, FS_Subset, FS_CardinalityType
<1>2. \E s \in [1..Cardinality(C) -> C] : InOrder(s, C)
      BY <1>1, OrderExists
<1>3. Listed(C) \in [1..Cardinality(C) -> C] /\ InOrder(Listed(C), C)
      BY <1>2, Zenon DEF Listed, InOrder
<1> HIDE DEF Listed
<1>4. \A c \in C : \E i \in DOMAIN Listed(C) : Listed(C)[i] = c
      BY <1>3 DEF InOrder, ToSet
<1>5. ASSUME NEW i \in DOMAIN Listed(C), NEW j \in DOMAIN Listed(C),
             Listed(C)[i] = Listed(C)[j]
      PROVE  i = j
  <2> DEFINE s == Listed(C)  n == Cardinality(C)
  <2>3. s \in [1..n -> C] /\ n \in Nat /\ i \in DOMAIN s /\ j \in DOMAIN s
        BY <1>1, <1>3, <1>5
  <2> HIDE DEF s, n
  <2>4. i \in 1..n /\ j \in 1..n /\ C \subseteq Nat
        BY <2>3
  <2>5. i \in Nat /\ j \in Nat /\ s[i] \in Nat /\ s[j] \in Nat
    <3>1. s[i] \in C /\ s[j] \in C
          BY <2>3, <2>4
    <3>2. s[i] \in Nat /\ s[j] \in Nat
          BY <2>4, <3>1
    <3>3. i \in Nat /\ j \in Nat
          BY <2>3, <2>4
    <3> QED BY <3>2, <3>3
  <2>1. i \in Nat /\ j \in Nat /\ Listed(C)[i] \in Nat /\ Listed(C)[j] \in Nat
        BY <2>5 DEF s
  <2>2. ~(i < j) /\ ~(j < i)
        BY <1>3, <1>5, <2>1 DEF InOrder
  <2> QED BY <2>1, <2>2
<1> QED BY <1>1, <1>3, <1>4, <1>5

\* The document stays, so what its names stand for does.
LEMMA NamesStay ==
  ASSUME doc' = doc
  PROVE  /\ Declared' = Declared /\ Channels' = Channels /\ Built' = Built
         /\ \A c \in Channels : Index(doc.channels[c].to)' = Index(doc.channels[c].to)
         /\ \A m : From(m)' = From(m) /\ Serial(m)' = Serial(m)
<1>1. Declared' = Declared /\ Channels' = Channels
      BY DEF Declared, Channels
<1>2. \A m : Serial(m)' = Serial(m)
      BY DEF Serial
<1>3. \A m : From(m)' = From(m)
      BY ZenonT(60) DEF From, Index, ModemId, Serial, Channels, Declared
<1>4. \A m : Into(m)' = Into(m)
      BY ZenonT(60) DEF Into, Index, ModemId, Serial, Channels, Declared
<1>5. \A c \in Channels : Index(doc.channels[c].to)' = Index(doc.channels[c].to)
      BY Zenon DEF Index, ModemId, Serial, Channels, Declared
<1>6. Built' = Built
  <2> DEFINE Out(m) == [i \in DOMAIN From(m) |-> [pair |-> From(m)[i], tracker |-> Nobody]]
             Refs(m) == [i \in DOMAIN Into(m) |-> Entry(Into(m)[i])]
             pads == [c \in Channels |-> Or(doc.channels[c].atten, 1)]
             Pad(m) == Canonical(ModemId(m))
             pad == [m \in Declared |-> Pad(m)]
             outgoing == [m \in Declared |-> Out(m)]
             incoming == [m \in Declared |-> Into(m)]
             refs == [m \in Declared |-> Refs(m)]
             none == [m \in Declared |-> Nobody]
  <2>1. /\ Built = [pads |-> pads, pad |-> pad, outgoing |-> outgoing, incoming |-> incoming,
                    refs |-> refs, started |-> none]
        /\ Built' = [pads |-> pads', pad |-> pad', outgoing |-> outgoing',
                     incoming |-> incoming', refs |-> refs', started |-> none']
        BY DEF Built
  <2>2. pads' = pads
        BY DEF Channels, Or
  <2>3. pad' = pad
    <3>1. \A m : ModemId(m)' = ModemId(m)
          BY Zenon DEF ModemId, Serial, Declared
    <3>2. \A id : Canonical(id)' = Canonical(id)
          BY Zenon DEF Canonical, Channels
    <3>3. ASSUME NEW m PROVE Pad(m)' = Pad(m)
      <4>1. PICK id : id = ModemId(m)
            OBVIOUS
      <4>2. id = ModemId(m)'
            BY <3>1, <4>1
      <4> QED BY <3>2, <4>1, <4>2
    <3> HIDE DEF Pad
    <3> QED BY <1>1, <3>3
  <2>4. incoming' = incoming
        BY <1>1, <1>4
  <2>5. outgoing' = outgoing
    <3>1. \A m : Out(m)' = Out(m)
          BY <1>3 DEF Nobody
    <3> HIDE DEF Out
    <3> QED BY <1>1, <3>1
  <2>6. refs' = refs
    <3>1. \A c : Entry(c)' = Entry(c)
      <4> DEFINE Place(m, c) == CHOOSE i \in DOMAIN From(m) : From(m)[i] = c
                 Src(c) == Index(doc.channels[c].from)
      <4>1. \A m, c : Place(m, c)' = Place(m, c)
            BY <1>3, Zenon
      <4>2. \A c : Src(c)' = Src(c)
            BY Zenon DEF Index, ModemId, Serial, Declared
      <4>3. TAKE c
      <4>4. PICK src : src = Src(c)
            OBVIOUS
      <4>5. src = Src(c)'
            BY <4>2, <4>4, Zenon
      <4>6. Entry(c) = [source |-> src, at |-> Place(src, c)]
            BY <4>4, Zenon DEF Entry
      <4>7. Entry(c)' = [source |-> src, at |-> Place(src, c)']
            BY <4>5, Zenon DEF Entry
      <4> HIDE DEF Place
      <4> QED BY <4>1, <4>6, <4>7
    <3>2. \A m : Refs(m)' = Refs(m)
          BY <1>4, <3>1
    <3> HIDE DEF Refs
    <3> QED BY <1>1, <3>2
  <2>7. none' = none
        BY DEF Declared, Nobody
  <2> HIDE DEF pads, pad, outgoing, incoming, refs, none
  <2> QED BY <2>1, <2>2, <2>3, <2>4, <2>5, <2>6, <2>7
<1> QED BY <1>1, <1>2, <1>3, <1>5, <1>6

LEMMA WiredStays ==
  ASSUME doc' = doc
  PROVE  \A n : WiredFirst(n)' = WiredFirst(n)
<1> TAKE n
<1> DEFINE Out(m) == [i \in DOMAIN From(m) |->
                        [pair |-> From(m)[i], tracker |-> TrackerOf(From(m)[i], n)]]
           outgoing == [m \in Declared |-> Out(m)]
           starts == [m \in Declared |-> IF m \in 1..n /\ From(m) # <<>> THEN m ELSE Nobody]
<1>1. Declared' = Declared /\ Built' = Built /\ \A m : From(m)' = From(m)
      BY NamesStay
<1>2. \A c : TrackerOf(c, n)' = TrackerOf(c, n)
      BY Zenon DEF TrackerOf, Index, ModemId, Serial, Declared, Nobody
<1>3. outgoing' = outgoing
  <2>1. \A m : Out(m)' = Out(m)
        BY <1>1, <1>2
  <2> HIDE DEF Out
  <2> QED BY <1>1, <2>1
<1>4. starts' = starts
      BY <1>1 DEF Nobody
<1>5. /\ WiredFirst(n) = [pads |-> Built.pads, pad |-> Built.pad, outgoing |-> outgoing,
                          incoming |-> Built.incoming, refs |-> Built.refs, started |-> starts]
      /\ WiredFirst(n)' = [pads |-> Built'.pads, pad |-> Built'.pad, outgoing |-> outgoing',
                           incoming |-> Built'.incoming, refs |-> Built'.refs,
                           started |-> starts']
      BY DEF WiredFirst
<1> HIDE DEF outgoing, starts
<1> QED BY <1>1, <1>3, <1>4, <1>5

\* A step that leaves the modem and the graph, and goes on connecting or gives up.
LEMMA OnwardGraph ==
  ASSUME BringupAssumption, GraphInv, doc' = doc, Connecting, modem' = modem,
         open \subseteq open', phase' \in {"open", "request", "await", "enter", "unwind"}
  PROVE  GraphInv'
<1>1. Declared' = Declared
      BY NamesStay
<1>2. Accepted'
      BY DEF GraphInv, Accepted, Connecting
<1>3. Opened'
      BY <1>1 DEF GraphInv, Opened, Connecting
<1>4. Wired'
      BY DEF Wired
<1> QED BY <1>2, <1>3, <1>4 DEF GraphInv

\* Nothing is claimed of the graph once initialize has given up.
LEMMA GivenUpGraph ==
  ASSUME GraphInv, doc' = doc, phase' \in {"unwind", "failed", "terminated"}
  PROVE  GraphInv'
BY DEF GraphInv, Accepted, Opened, Wired, Connecting

\* The loader accepts the document, which has a first modem.
LEMMA LoadGraph ==
  ASSUME BringupAssumption, ConnectInv, GraphInv, Load
  PROVE  GraphInv'
<1>1. /\ phase = "load" /\ doc' = doc /\ modem' = modem /\ open' = open
      /\ phase' \in {"open", "failed", "terminated"}
      /\ phase' = "open" => Verdict(doc) = "none"
      BY DEF Load
<1>2. doc \in Documents /\ Sections(doc) /\ modem = 1
      BY <1>1 DEF BringupAssumption, ConnectInv, Passed, GraphInv, Accepted
<1>3. Accepted'
      BY <1>1, <1>2 DEF Accepted, Connecting
<1>4. ASSUME phase' = "open" PROVE 1 \in Declared
  <2>1. doc.modems # <<>>
        BY <1>1, <1>2, <1>4, NamesResolve
  <2> DEFINE M == ToSet(doc.modems)
  <2>2. doc.modems \in Seq(M)
        BY <1>2 DEF Sections
  <2> HIDE DEF M
  <2> QED BY <2>1, <2>2 DEF Declared
<1>5. Declared' = Declared
      BY <1>1, NamesStay
<1>6. Opened'
      BY <1>1, <1>2, <1>4, <1>5 DEF Opened, Connecting
<1>7. Wired'
      BY <1>1 DEF Wired
<1> QED BY <1>3, <1>6, <1>7 DEF GraphInv

\* The modem is in HIL mode: the next one is opened, or all are.
LEMMA EnterGraph ==
  ASSUME BringupAssumption, ConnectInv, GraphInv, Enter, phase' # "unwind"
  PROVE  GraphInv'
<1>1. /\ phase = "enter" /\ doc' = doc /\ modem' = modem + 1 /\ open' = open
      /\ phase' = IF modem = Len(doc.modems) THEN "build" ELSE "open"
      BY DEF Enter, Throw
<1>2. doc \in Documents /\ Sections(doc) /\ Verdict(doc) = "none"
      BY <1>1 DEF BringupAssumption, GraphInv, Accepted, Connecting
<1>3. /\ modem \in Declared /\ 1..(modem - 1) \subseteq open /\ modem \in open
      BY <1>1 DEF GraphInv, Opened, Connecting, ConnectInv, Claimed
<1>4. Declared = 1..Len(doc.modems) /\ Len(doc.modems) \in Nat /\ Declared' = Declared
      BY <1>1, <1>2, SectionsListed, NamesStay DEF Declared
<1>5. Accepted'
      BY <1>1, <1>2 DEF Accepted
<1>6. 1..modem \subseteq open
  <2>1. \A i \in 1..modem : i \in 1..(modem - 1) \/ i = modem
        BY <1>3, <1>4
  <2> QED BY <1>3, <2>1
<1>7. modem \in Nat /\ (modem + 1) - 1 = modem
      BY <1>3, <1>4
<1>8. CASE modem = Len(doc.modems)
  <2>1. Opened'
        BY <1>1, <1>4, <1>6, <1>8 DEF Opened, Connecting
  <2>2. Wired'
        BY <1>1, <1>8 DEF Wired
  <2> QED BY <1>5, <2>1, <2>2 DEF GraphInv
<1>9. CASE modem # Len(doc.modems)
  <2>1. modem + 1 \in Declared
        BY <1>3, <1>4, <1>9
  <2>2. Opened'
        BY <1>1, <1>4, <1>6, <1>7, <1>9, <2>1 DEF Opened, Connecting
  <2>3. Wired'
        BY <1>1, <1>9 DEF Wired
  <2> QED BY <1>5, <2>2, <2>3 DEF GraphInv
<1> QED BY <1>8, <1>9

\* A modem's lists: its own channels, each of them once.
LEMMA ListsAre ==
  ASSUME Sections(doc), NEW m
  PROVE  /\ From(m) \in [1..Len(From(m)) -> Channels] /\ Len(From(m)) \in Nat
         /\ Into(m) \in [1..Len(Into(m)) -> Channels] /\ Len(Into(m)) \in Nat
         /\ \A i \in DOMAIN From(m) : Index(doc.channels[From(m)[i]].from) = m
         /\ \A i \in DOMAIN Into(m) : Index(doc.channels[Into(m)[i]].to) = m
         /\ \A c \in Channels :
              /\ Index(doc.channels[c].from) = m => \E i \in DOMAIN From(m) : From(m)[i] = c
              /\ Index(doc.channels[c].to) = m => \E i \in DOMAIN Into(m) : Into(m)[i] = c
         /\ \A i, j \in DOMAIN From(m) : From(m)[i] = From(m)[j] => i = j
<1> DEFINE F == {c \in Channels : Index(doc.channels[c].from) = m}
           T == {c \in Channels : Index(doc.channels[c].to) = m}
           B == Len(doc.channels)
<1>1. B \in Nat /\ Channels = 1..B
      BY SectionsListed DEF Channels
<1>2. F \in SUBSET (1..B) /\ T \in SUBSET (1..B)
      BY <1>1
<1>3. From(m) = Listed(F) /\ Into(m) = Listed(T)
      BY DEF From, Into
<1>4. \A c \in Channels : /\ c \in F <=> Index(doc.channels[c].from) = m
                          /\ c \in T <=> Index(doc.channels[c].to) = m
      OBVIOUS
<1> HIDE DEF F, T, B
<1>5. /\ Cardinality(F) \in Nat /\ From(m) \in [1..Cardinality(F) -> F]
      /\ \A c \in F : \E i \in DOMAIN From(m) : From(m)[i] = c
      /\ \A i, j \in DOMAIN From(m) : From(m)[i] = From(m)[j] => i = j
      BY <1>1, <1>2, <1>3, ListedIs
<1>6. /\ Cardinality(T) \in Nat /\ Into(m) \in [1..Cardinality(T) -> T]
      /\ \A c \in T : \E i \in DOMAIN Into(m) : Into(m)[i] = c
      BY <1>1, <1>2, <1>3, ListedIs
<1>7. Len(From(m)) = Cardinality(F) /\ Len(Into(m)) = Cardinality(T)
  <2>1. From(m) \in Seq(F) /\ Into(m) \in Seq(T)
        BY <1>5, <1>6
  <2>2. DOMAIN From(m) = 1..Len(From(m)) /\ DOMAIN Into(m) = 1..Len(Into(m))
        BY <2>1
  <2> QED BY <1>5, <1>6, <2>1, <2>2
<1>8. From(m) \in [1..Len(From(m)) -> F] /\ Into(m) \in [1..Len(Into(m)) -> T]
      BY <1>5, <1>6, <1>7
<1>9. F \subseteq Channels /\ T \subseteq Channels
      BY <1>1, <1>2
<1>10. (\A i \in DOMAIN From(m) : From(m)[i] \in F) /\ (\A i \in DOMAIN Into(m) : Into(m)[i] \in T)
       BY <1>8
<1>11. From(m) \in [1..Len(From(m)) -> Channels] /\ Into(m) \in [1..Len(Into(m)) -> Channels]
       BY <1>8, <1>9
<1> QED BY <1>4, <1>5, <1>6, <1>7, <1>9, <1>10, <1>11

\* The entry of a channel is where its source's list has it.
LEMMA EntryIs ==
  ASSUME Sections(doc), NEW c \in Channels, NEW src, NEW at \in DOMAIN From(src)
  PROVE  Entry(c) = [source |-> src, at |-> at] <=> From(src)[at] = c
<1> DEFINE m == Index(doc.channels[c].from)
           e == CHOOSE i \in DOMAIN From(m) : From(m)[i] = c
<1>1. Entry(c) = [source |-> m, at |-> e]
      BY Zenon DEF Entry
<1>2. \E i \in DOMAIN From(m) : From(m)[i] = c
      BY ListsAre
<1>3. e \in DOMAIN From(m) /\ From(m)[e] = c
      BY <1>2, Zenon
<1>4. ASSUME From(src)[at] = c PROVE m = src
      BY <1>4, ListsAre
<1>5. \A i, j \in DOMAIN From(m) : From(m)[i] = From(m)[j] => i = j
      BY ListsAre
<1> HIDE DEF m, e
<1>6. ASSUME Entry(c) = [source |-> src, at |-> at] PROVE From(src)[at] = c
  <2>1. m = src /\ e = at
        BY <1>1, <1>6
  <2> QED BY <1>3, <2>1
<1>7. ASSUME From(src)[at] = c PROVE Entry(c) = [source |-> src, at |-> at]
  <2>1. m = src
        BY <1>4, <1>7
  <2>2. e = at
        BY <1>3, <1>5, <1>7, <2>1
  <2> QED BY <1>1, <2>1, <2>2
<1> QED BY <1>6, <1>7

\* The graph as it is built has no modem wired.
LEMMA BuildGraph ==
  ASSUME BringupAssumption, GraphInv, Build
  PROVE  GraphInv'
<1>1. /\ phase = "build" /\ doc' = doc /\ modem' = 1 /\ open' = open
      /\ phase' = "terminated" \/ (phase' = "wire" /\ graph' = Built /\ Buildable(doc))
      BY DEF Build
<1>2. doc \in Documents /\ Sections(doc) /\ Verdict(doc) = "none" /\ Declared \subseteq open
      BY <1>1 DEF BringupAssumption, GraphInv, Accepted, Opened
<1>3. Declared = 1..Len(doc.modems) /\ Len(doc.modems) \in Nat /\ Declared' = Declared
      BY <1>1, <1>2, SectionsListed, NamesStay DEF Declared
<1>4. 1 \in Declared
  <2>1. doc.modems # <<>>
        BY <1>2, NamesResolve
  <2> DEFINE M == ToSet(doc.modems)
  <2>2. doc.modems \in Seq(M)
        BY <1>2 DEF Sections
  <2> HIDE DEF M
  <2> QED BY <2>1, <2>2 DEF Declared
<1>5. CASE phase' = "terminated"
      BY <1>1, <1>5, GivenUpGraph
<1>6. CASE phase' = "wire" /\ graph' = Built /\ Buildable(doc)
  <2>1. Accepted'
        BY <1>1, <1>2, <1>6 DEF Accepted
  <2>2. Opened'
        BY <1>1, <1>2, <1>3, <1>6 DEF Opened, Connecting
  <2>3. Built = WiredFirst(0)
    <3>1. \A x : ~(x \in 1..0)
          OBVIOUS
    <3>2. \A c : TrackerOf(c, 0) = Nobody
          BY <3>1 DEF TrackerOf
    <3>3. \A m \in Declared : (IF m \in 1..0 /\ From(m) # <<>> THEN m ELSE Nobody) = Nobody
          BY <3>1
    <3> DEFINE Out(m) == [i \in DOMAIN From(m) |-> [pair |-> From(m)[i], tracker |-> Nobody]]
               First(m) == [i \in DOMAIN From(m) |->
                              [pair |-> From(m)[i], tracker |-> TrackerOf(From(m)[i], 0)]]
               outs == [m \in Declared |-> Out(m)]
               firsts == [m \in Declared |-> First(m)]
               none == [m \in Declared |-> Nobody]
               starts == [m \in Declared |-> IF m \in 1..0 /\ From(m) # <<>> THEN m ELSE Nobody]
    <3>4. \A m : Out(m) = First(m)
          BY <3>2
    <3>5. outs = firsts
      <4> HIDE DEF Out, First
      <4> QED BY <3>4
    <3>6. none = starts
          BY <3>3
    <3>7. Built = [pads |-> Built.pads, pad |-> Built.pad, outgoing |-> outs,
                   incoming |-> Built.incoming, refs |-> Built.refs, started |-> none]
          BY DEF Built
    <3>8. WiredFirst(0) = [pads |-> Built.pads, pad |-> Built.pad, outgoing |-> firsts,
                   incoming |-> Built.incoming, refs |-> Built.refs, started |-> starts]
          BY DEF WiredFirst
    <3> HIDE DEF outs, firsts, none, starts
    <3> QED BY <3>5, <3>6, <3>7, <3>8
  <2>4. WiredFirst(0)' = WiredFirst(0)
        BY <1>1, WiredStays
  <2>5. Wired'
    <3>1. modem' - 1 = 0
          BY <1>1
    <3> QED BY <1>1, <1>3, <1>4, <1>6, <2>3, <2>4, <3>1 DEF Wired
  <2> QED BY <2>1, <2>2, <2>5 DEF GraphInv
<1> QED BY <1>1, <1>5, <1>6

\* What feeds a modem are the entries of the channels that lead to it.
LEMMA FedIs ==
  ASSUME Sections(doc), NEW m, NEW src, NEW at \in DOMAIN From(src)
  PROVE  (\E i \in DOMAIN Into(m) : Entry(Into(m)[i]) = [source |-> src, at |-> at])
           <=> Index(doc.channels[From(src)[at]].to) = m
<1>1. From(src)[at] \in Channels
      BY ListsAre
<1>2. \A i \in DOMAIN Into(m) : Into(m)[i] \in Channels
      BY ListsAre
<1>3. ASSUME NEW i \in DOMAIN Into(m), Entry(Into(m)[i]) = [source |-> src, at |-> at]
      PROVE  Index(doc.channels[From(src)[at]].to) = m
  <2>1. From(src)[at] = Into(m)[i]
        BY <1>2, <1>3, EntryIs
  <2>2. Index(doc.channels[Into(m)[i]].to) = m
        BY ListsAre
  <2> QED BY <2>1, <2>2
<1>4. ASSUME Index(doc.channels[From(src)[at]].to) = m
      PROVE  \E i \in DOMAIN Into(m) : Entry(Into(m)[i]) = [source |-> src, at |-> at]
  <2>1. PICK i \in DOMAIN Into(m) : Into(m)[i] = From(src)[at]
    <3> DEFINE c == From(src)[at]
    <3>0. \A x \in Channels : Index(doc.channels[x].to) = m =>
            \E i \in DOMAIN Into(m) : Into(m)[i] = x
          BY ListsAre
    <3>1. c \in Channels /\ Index(doc.channels[c].to) = m
          BY <1>1, <1>4
    <3> HIDE DEF c
    <3>2. \E i \in DOMAIN Into(m) : Into(m)[i] = c
          BY <3>0, <3>1
    <3> QED BY <3>2 DEF c
  <2>2. Entry(Into(m)[i]) = [source |-> src, at |-> at]
        BY <1>1, <2>1, EntryIs
  <2> QED BY <2>2
<1> QED BY <1>3, <1>4

\* One modem more is wired.
LEMMA WireGraph ==
  ASSUME BringupAssumption, GraphInv, Wire
  PROVE  GraphInv'
<1> DEFINE n == modem - 1
           last == IF graph.outgoing[modem] = <<>> THEN Nobody ELSE modem
           Fed(src, at) == \E i \in DOMAIN graph.refs[modem] :
                             graph.refs[modem][i] = [source |-> src, at |-> at]
           New(src) == [at \in DOMAIN graph.outgoing[src] |->
                          IF Fed(src, at)
                          THEN [graph.outgoing[src][at] EXCEPT !.tracker = modem]
                          ELSE graph.outgoing[src][at]]
           Out(m, w) == [i \in DOMAIN From(m) |->
                           [pair |-> From(m)[i], tracker |-> TrackerOf(From(m)[i], w)]]
           Start(m, w) == IF m \in 1..w /\ From(m) # <<>> THEN m ELSE Nobody
<1>1. /\ phase = "wire" /\ doc' = doc /\ modem' = modem + 1 /\ open' = open
      /\ phase' = IF modem = Len(doc.modems) THEN "ready" ELSE phase
      /\ graph' = [graph EXCEPT !.started[modem] = last,
                                !.outgoing = [src \in Declared |-> New(src)]]
  <2>1. graph' = [graph EXCEPT
          !.started[modem] = last,
          !.outgoing = [src \in Declared |-> [at \in DOMAIN @[src] |->
             IF Fed(src, at) THEN [@[src][at] EXCEPT !.tracker = modem] ELSE @[src][at]]]]
        BY Zenon DEF Wire, EntryOf
  <2> QED BY <2>1, Zenon DEF Wire
<1>2. /\ doc \in Documents /\ Sections(doc) /\ Verdict(doc) = "none" /\ Buildable(doc)
      /\ Declared \subseteq open
      BY <1>1 DEF BringupAssumption, GraphInv, Accepted, Opened
<1>3. Declared = 1..Len(doc.modems) /\ Len(doc.modems) \in Nat /\ Declared' = Declared
      BY <1>1, <1>2, SectionsListed, NamesStay DEF Declared
<1>4. modem \in Declared /\ graph = WiredFirst(n)
      BY <1>1 DEF GraphInv, Wired
<1>5. modem \in Nat \ {0} /\ n \in Nat /\ \A x : x \in 1..modem <=> x \in 1..n \/ x = modem
      BY <1>3, <1>4
<1>6. /\ \A src \in Declared : graph.outgoing[src] = Out(src, n)
      /\ graph.refs[modem] = [i \in DOMAIN Into(modem) |-> Entry(Into(modem)[i])]
  <2>1. graph.outgoing = [m \in Declared |-> Out(m, n)] /\ graph.refs = Built.refs
        BY <1>4 DEF WiredFirst
  <2>2. Built.refs = [m \in Declared |-> [i \in DOMAIN Into(m) |-> Entry(Into(m)[i])]]
        BY DEF Built
  <2> HIDE DEF Out
  <2>3. \A src \in Declared : graph.outgoing[src] = Out(src, n)
        BY <2>1
  <2>4. graph.refs[modem] = [i \in DOMAIN Into(modem) |-> Entry(Into(modem)[i])]
        BY <1>4, <2>1, <2>2
  <2> QED BY <2>3, <2>4
<1>7. ASSUME NEW src \in Declared
      PROVE  New(src) = Out(src, modem)
  <2>1. graph.outgoing[src] = Out(src, n)
        BY <1>6
  <2>2. ASSUME NEW at \in DOMAIN From(src)
        PROVE  Fed(src, at) <=> Index(doc.channels[From(src)[at]].to) = modem
    <3>1. Fed(src, at) <=>
            \E i \in DOMAIN Into(modem) : Entry(Into(modem)[i]) = [source |-> src, at |-> at]
          BY <1>6
    <3> HIDE DEF Fed
    <3> QED BY <1>2, <3>1, FedIs
  <2> HIDE DEF Fed
  <2>3. ASSUME NEW at \in DOMAIN From(src)
        PROVE  (IF Fed(src, at) THEN [graph.outgoing[src][at] EXCEPT !.tracker = modem]
                ELSE graph.outgoing[src][at])
               = [pair |-> From(src)[at], tracker |-> TrackerOf(From(src)[at], modem)]
    <3> DEFINE c == From(src)[at]  t == Index(doc.channels[c].to)
    <3>1. graph.outgoing[src][at] = [pair |-> c, tracker |-> TrackerOf(c, n)]
          BY <2>1
    <3>2. /\ TrackerOf(c, n) = IF t \in 1..n THEN t ELSE Nobody
          /\ TrackerOf(c, modem) = IF t \in 1..modem THEN t ELSE Nobody
          BY DEF TrackerOf
    <3>3. Fed(src, at) <=> t = modem
          BY <2>2
    <3> HIDE DEF c, t
    <3>4. TrackerOf(c, modem) = IF t = modem THEN modem ELSE TrackerOf(c, n)
          BY <1>5, <3>2
    <3>5. (IF Fed(src, at) THEN [graph.outgoing[src][at] EXCEPT !.tracker = modem]
           ELSE graph.outgoing[src][at])
          = [pair |-> c, tracker |-> TrackerOf(c, modem)]
          BY <3>1, <3>3, <3>4
    <3> QED BY <3>5 DEF c
  <2>4. DOMAIN graph.outgoing[src] = DOMAIN From(src)
        BY <2>1
  <2> QED BY <2>3, <2>4
<1>8. \A m \in Declared : m # modem => Start(m, modem) = Start(m, n)
      BY <1>5
<1>9. last = Start(modem, modem)
  <2>1. graph.outgoing[modem] = Out(modem, n)
        BY <1>4, <1>6
  <2>2. From(modem) \in [1..Len(From(modem)) -> Channels] /\ Len(From(modem)) \in Nat
        BY <1>2, ListsAre
  <2>3. From(modem) = <<>> <=> Len(From(modem)) = 0
    <3>1. \A s : s \in [1..0 -> Channels] => s = <<>>
          OBVIOUS
    <3>2. From(modem) = <<>> => Len(From(modem)) = 0
          OBVIOUS
    <3> QED BY <2>2, <3>1, <3>2
  <2>4. Out(modem, n) = <<>> <=> Len(From(modem)) = 0
    <3> DEFINE o == Out(modem, n)
    <3>1. DOMAIN o = 1..Len(From(modem))
          BY <2>2
    <3>2. Len(From(modem)) = 0 => o = <<>>
          BY <2>2
    <3>3. o = <<>> => DOMAIN o = {}
          OBVIOUS
    <3> HIDE DEF o
    <3>4. o = <<>> => Len(From(modem)) = 0
      <4>1. \A w \in Nat : 1..w = {} => w = 0
        <5>1. \A w \in Nat : w # 0 => 1 \in 1..w
              OBVIOUS
        <5> QED BY <5>1
      <4> QED BY <2>2, <3>1, <3>3, <4>1
    <3> QED BY <3>2, <3>4 DEF o
  <2>5. modem \in 1..modem
        BY <1>5
  <2> HIDE DEF Out
  <2> QED BY <2>1, <2>3, <2>4, <2>5
<1>10. graph' = WiredFirst(modem)
  <2> DEFINE starts(w) == [m \in Declared |-> Start(m, w)]
             outs(w) == [m \in Declared |-> Out(m, w)]
             news == [src \in Declared |-> New(src)]
  <2>1. \A w : WiredFirst(w) =
          [pads |-> Built.pads, pad |-> Built.pad, outgoing |-> outs(w),
           incoming |-> Built.incoming, refs |-> Built.refs, started |-> starts(w)]
        BY DEF WiredFirst
  <2>2. news = outs(modem)
    <3> HIDE DEF New, Out
    <3> QED BY <1>7
  <2>3. [starts(n) EXCEPT ![modem] = last] = starts(modem)
    <3> HIDE DEF Start, last
    <3> QED BY <1>4, <1>8, <1>9
  <2>4. graph' = [graph EXCEPT !.started[modem] = last, !.outgoing = news]
        BY <1>1
  <2> HIDE DEF news, outs, starts, last, n
  <2>5. graph' = [pads |-> Built.pads, pad |-> Built.pad, outgoing |-> news,
                  incoming |-> Built.incoming, refs |-> Built.refs,
                  started |-> [starts(n) EXCEPT ![modem] = last]]
        BY <1>4, <2>1, <2>4
  <2> QED BY <2>1, <2>2, <2>3, <2>5
<1>11. Accepted'
       BY <1>1, <1>2 DEF Accepted
<1>12. Opened'
       BY <1>1, <1>2, <1>3 DEF Opened, Connecting
<1>13. Wired'
  <2>1. modem' - 1 = modem
        BY <1>1, <1>5
  <2>2. modem # Len(doc.modems) => modem + 1 \in Declared
        BY <1>3, <1>4
  <2> QED BY <1>1, <1>3, <1>10, <2>1, <2>2, WiredStays DEF Wired
<1> QED BY <1>11, <1>12, <1>13 DEF GraphInv

\* Whatever the scenario: the document stays, and the graph is the one built from it with
\* the modems passed wired (build_channel_engine, wire_modem_trackers).
THEOREM GraphInvHolds ==
  ASSUME BringupAssumption
  PROVE  BSpec => []GraphInv
<1>1. BInit => GraphInv
      BY DEF BInit, GraphInv, Accepted, Opened, Wired, Connecting
<1>2. ConnectInv /\ GraphInv /\ [BNext]_bringupVars => GraphInv'
  <2> SUFFICES ASSUME ConnectInv, GraphInv, [BNext]_bringupVars
               PROVE  GraphInv'
      OBVIOUS
  <2>1. doc' = doc
        BY DocStays
  <2>2. CASE Load
        BY <2>2, LoadGraph
  <2>3. CASE OpenFails \/ ReceiveFails
    <3>1. phase' = "unwind"
          BY <2>3 DEF OpenFails, ReceiveFails, Throw
    <3> QED BY <2>1, <3>1, GivenUpGraph
  <2>4. CASE Open \/ Request \/ Receive
    <3>1. /\ Connecting /\ modem' = modem /\ open \subseteq open'
          /\ phase' \in {"request", "await", "enter", "unwind"}
          BY <2>4 DEF Open, Request, Receive, Throw, Connecting
    <3> QED BY <2>1, <3>1, OnwardGraph
  <2>5. CASE Enter
    <3>1. CASE phase' = "unwind"
          BY <2>1, <3>1, GivenUpGraph
    <3>2. CASE phase' # "unwind"
          BY <2>5, <3>2, EnterGraph
    <3> QED BY <3>1, <3>2
  <2>6. CASE Unwind
    <3>1. phase' \in {"unwind", "failed"}
          BY <2>6 DEF Unwind
    <3> QED BY <2>1, <3>1, GivenUpGraph
  <2>7. CASE Build
        BY <2>7, BuildGraph
  <2>8. CASE Wire
        BY <2>8, WireGraph
  <2>9. CASE Devices
    <3>1. /\ Connecting /\ modem' = modem /\ open' = open /\ phase' = phase
          BY <2>9 DEF Devices, Answer, EmitStatus, Queues
    <3>2. phase' \in {"open", "request", "await", "enter"}
          BY <3>1 DEF Connecting
    <3> QED BY <2>1, <3>1, <3>2, OnwardGraph
  <2>10. CASE UNCHANGED bringupVars
    <3>1. UNCHANGED <<phase, doc, modem, open, graph>>
          BY <2>10 DEF bringupVars
    <3>2. Declared' = Declared /\ \A n : WiredFirst(n)' = WiredFirst(n)
          BY <2>1, NamesStay, WiredStays
    <3>3. Accepted' /\ Opened'
          BY <3>1, <3>2 DEF GraphInv, Accepted, Opened, Connecting
    <3>4. Wired'
          BY <3>1, <3>2 DEF GraphInv, Wired
    <3> QED BY <3>3, <3>4 DEF GraphInv
  <2> QED BY <2>2, <2>3, <2>4, <2>5, <2>6, <2>7, <2>8, <2>9, <2>10 DEF BNext, Host
<1> QED BY <1>1, <1>2, ConnectInvHolds, PTL DEF BSpec

\* Once every modem is connected, a channel's names find the modems that have them: the
\* serials are apart because each was claimed, the names because the loader checked them.
LEMMA IndexIs ==
  ASSUME Sections(doc), Verdict(doc) = "none", ConnectInv, Declared \subseteq open,
         NEW m \in Declared
  PROVE  Index(doc.modems[m].id) = m
<1>1. Declared = 1..Len(doc.modems) /\ Declared \subseteq Nat
      BY SectionsListed DEF Declared
<1>2. \A i, j \in Declared : Serial(i) = Serial(j) => i = j
      BY DEF ConnectInv, Claimed
<1>3. \A x \in Nat : Smallest({x}) = x
  <2>1. \A x \in Nat : {x} \subseteq Nat /\ {x} # {}
        OBVIOUS
  <2> QED BY <2>1, SmallestIn
<1>4. ASSUME NEW q \in Declared PROVE ModemId(q) = doc.modems[q].id
  <2>1. {i \in Declared : Serial(i) = Serial(q)} = {q}
        BY <1>2
  <2>2. ModemId(q) = doc.modems[Smallest({q})].id
        BY <2>1, Zenon DEF ModemId
  <2> QED BY <1>1, <1>3, <2>2
<1>5. \A q \in Declared : doc.modems[q].id = doc.modems[m].id => q = m
      BY NamesResolve DEF Declared
<1>6. {q \in Declared : ModemId(q) = doc.modems[m].id} = {m}
      BY <1>4, <1>5
<1>7. Index(doc.modems[m].id) = Smallest({m})
      BY <1>6, Zenon DEF Index
<1> QED BY <1>1, <1>3, <1>7

\* In the engine's graph every channel is filled by its `from` and played by its `to` modem,
\* paced by that receiver's tracker, and every source is aligned by its own estimator, for
\* all scenarios, devices and faults that let initialize get there.
THEOREM GraphIsScenarios ==
  ASSUME BringupAssumption
  PROVE  BSpec => []GraphFollowsScenario
<1>1. ASSUME ConnectInv, GraphInv, phase = "ready", NEW c \in Channels
      PROVE  LET chan == doc.channels[c] IN
             /\ \E m, n \in Declared :
                  /\ doc.modems[m].id = chan.from /\ doc.modems[n].id = chan.to
                  /\ Cardinality({i \in DOMAIN graph.outgoing[m] :
                                    graph.outgoing[m][i] = [pair |-> c, tracker |-> n]}) = 1
                  /\ c \in ToSet(graph.incoming[n]) /\ graph.started[m] = m
             /\ Cardinality({n \in Declared : c \in ToSet(graph.incoming[n])}) = 1
  <2> DEFINE chan == doc.channels[c]
  <2>1. Sections(doc) /\ Verdict(doc) = "none" /\ Declared \subseteq open
        BY <1>1 DEF BringupAssumption, GraphInv, Accepted, Opened
  <2>2. /\ Declared = 1..Len(doc.modems) /\ Len(doc.modems) \in Nat
        /\ graph = WiredFirst(modem - 1) /\ modem - 1 = Len(doc.modems)
        BY <1>1, <2>1, SectionsListed DEF Declared, GraphInv, Wired
  <2>3. graph = WiredFirst(Len(doc.modems))
        BY <2>2
  <2>4. chan.from \in Ids(doc.modems) /\ chan.to \in Ids(doc.modems)
        BY <2>1, NamesResolve DEF Channels
  <2>5. PICK m \in Declared : doc.modems[m].id = chan.from
        BY <2>4 DEF Ids, Declared
  <2>6. PICK n \in Declared : doc.modems[n].id = chan.to
        BY <2>4 DEF Ids, Declared
  <2>7. Index(chan.from) = m
        BY <1>1, <2>1, <2>5, IndexIs
  <2>8. Index(chan.to) = n
        BY <1>1, <2>1, <2>6, IndexIs
  <2> HIDE DEF chan
  <2>9. PICK at \in DOMAIN From(m) : From(m)[at] = c
        BY <2>1, <2>7, ListsAre DEF chan
  <2>10. \A i \in DOMAIN From(m) : From(m)[i] = c => i = at
        BY <2>1, <2>9, ListsAre
  <2>11. TrackerOf(c, Len(doc.modems)) = n
        BY <2>2, <2>8 DEF TrackerOf, chan
  <2>12. graph.outgoing[m] =
           [i \in DOMAIN From(m) |->
              [pair |-> From(m)[i], tracker |-> TrackerOf(From(m)[i], Len(doc.modems))]]
         BY <2>3 DEF WiredFirst
  <2>13. {i \in DOMAIN graph.outgoing[m] :
            graph.outgoing[m][i] = [pair |-> c, tracker |-> n]} = {at}
         BY <2>9, <2>10, <2>11, <2>12
  <2>14. \A q \in Declared : graph.incoming[q] = Into(q)
    <3>1. graph.incoming = Built.incoming
          BY <2>3 DEF WiredFirst
    <3>2. Built.incoming = [q \in Declared |-> Into(q)]
          BY DEF Built
    <3> QED BY <3>1, <3>2
  <2>15. \A q \in Declared : c \in ToSet(graph.incoming[q]) <=> q = n
    <3>1. TAKE q \in Declared
    <3>2. c \in ToSet(Into(q)) <=> \E i \in DOMAIN Into(q) : Into(q)[i] = c
          BY DEF ToSet
    <3>3. (\E i \in DOMAIN Into(q) : Into(q)[i] = c) <=> Index(doc.channels[c].to) = q
          BY <2>1, ListsAre
    <3>4. Index(doc.channels[c].to) = n
          BY <2>8 DEF chan
    <3> QED BY <2>14, <3>2, <3>3, <3>4
  <2>16. {q \in Declared : c \in ToSet(graph.incoming[q])} = {n}
         BY <2>15
  <2>17. graph.started[m] = m
    <3>1. From(m) # <<>>
          BY <2>9
    <3>2. graph.started = [q \in Declared |-> IF q \in 1..Len(doc.modems) /\ From(q) # <<>>
                                              THEN q ELSE Nobody]
          BY <2>3 DEF WiredFirst
    <3> QED BY <2>2, <3>1, <3>2
  <2>18. \A x : Cardinality({x}) = 1
         BY FS_Singleton
  <2>19. Cardinality({i \in DOMAIN graph.outgoing[m] :
            graph.outgoing[m][i] = [pair |-> c, tracker |-> n]}) = 1
         BY <2>13, <2>18
  <2>20. Cardinality({q \in Declared : c \in ToSet(graph.incoming[q])}) = 1
         BY <2>16, <2>18
  <2> QED BY <2>5, <2>6, <2>15, <2>17, <2>19, <2>20 DEF chan
<1>2. ConnectInv /\ GraphInv => GraphFollowsScenario
      BY <1>1 DEF GraphFollowsScenario
<1> QED BY <1>2, ConnectInvHolds, GraphInvHolds, PTL

\* Once the engine is built and wired, its pair buffers have room for a message behind their
\* base delay and latest echo, and no path of a geometric envelope leaves that window.
THEOREM BufferTakesMessage ==
  ASSUME BringupAssumption
  PROVE  BSpec => []BufferHoldsMessage
<1>1. GraphInv => BufferHoldsMessage
  <2> SUFFICES ASSUME GraphInv, phase = "ready", NEW i \in Channels
      PROVE  LET chan == Config.channels[i] IN
        /\ PairCapacity(Config) >=
             BaseDelay(chan) + MaxTapDelta(chan) + Config.environment.duration
        /\ chan.mode = "geometric" =>
             \A range \in chan.geometry.rMin..chan.geometry.rMax :
               \A length \in PathLengths(chan.geometry, range) :
                 Rounded(length - Anchor(chan), Speed(chan.speed))
                   \in 0..MaxTapDelta(chan)
      BY Zenon DEF BufferHoldsMessage
  <2>1. /\ Sections(doc) /\ Numbers(doc) /\ Verdict(doc) = "none" /\ Buildable(doc)
        /\ i \in DOMAIN doc.channels
        BY DEF BringupAssumption, GraphInv, Accepted, Channels
  <2>2. PairCapacity(Config) >=
          BaseDelay(Config.channels[i]) + MaxTapDelta(Config.channels[i])
            + Config.environment.duration
        BY <2>1, CapacityHolds DEF Config
  <2>3. PICK c : c = doc.channels[i]
        OBVIOUS
  <2>4. PICK chan : chan = ChannelConfig(doc, c)
        OBVIOUS
  <2>5. Config.channels[i] = chan
        BY <2>1, <2>3, <2>4 DEF Config, ScenarioConfig
  <2>6. chan.mode = c.mode
        BY <2>1, <2>3, <2>4, ChannelTypes
  <2>7. ~CannotBuild(chan)
        BY <2>1, <2>3, <2>4 DEF Buildable
  <2>8. ASSUME chan.mode = "geometric"
        PROVE  \A range \in chan.geometry.rMin..chan.geometry.rMax :
                 \A length \in PathLengths(chan.geometry, range) :
                   Rounded(length - Anchor(chan), Speed(chan.speed))
                     \in 0..MaxTapDelta(chan)
        BY <2>1, <2>3, <2>4, <2>6, <2>7, <2>8, SceneExtent
  <2> QED BY <2>2, <2>5, <2>8
<1> QED BY <1>1, GraphInvHolds, PTL

-----------------------------------------------------------------------------
(* TapRendering: a channel whose taps move.                                *)

\* Products of numbers that are not negative, and with a larger factor.
LEMMA Products ==
  ASSUME NEW a \in Int, NEW b \in Int, a <= b, NEW q \in Nat
  PROVE  q * a \in Int /\ q * b \in Int /\ q * a <= q * b /\ (0 <= a => q * a \in Nat)
OBVIOUS

LEMMA UnitIs ==
  ASSUME RenderingAssumption
  PROVE  Dt \in Nat \ {0} /\ Block \in Nat \ {0} /\ MaxBatch \in Nat \ {0}
         /\ Unit \in Nat \ {0}
<1>1. Dt \in Nat \ {0} /\ Block \in Nat \ {0} /\ MaxBatch \in Nat \ {0}
      BY RenderingAssumption
<1>2. Dt * Dt \in Nat \ {0}
      BY <1>1
<1>3. 2 * Dt * Dt * Dt \in Nat \ {0}
      BY <1>1, <1>2
<1> QED BY <1>1, <1>3 DEF Unit

\* Catmull-Rom weighs the inner frames to a whole and adds their steps from the outer ones.
LEMMA CurveIs ==
  ASSUME NEW h \in Int, NEW m \in Int, NEW u \in Int, h = m + u,
         NEW a \in Int, NEW b \in Int, NEW c \in Int, NEW d \in Int
  PROVE  2 * h * h * h * b + m * ((c - a) * h * h
                     + m * ((2 * a - 5 * b + 4 * c - d) * h
                            + m * (3 * (b - c) + d - a)))
         = u * (2 * u * u + 5 * m * u + m * m) * b + m * (u * u + 5 * m * u + 2 * m * m) * c
           + m * u * u * (b - a) + m * m * u * (c - d)
<1>1. /\ (c - a) * h * h = (c - a) * (m + u) * (m + u)
      /\ (2 * a - 5 * b + 4 * c - d) * h = (2 * a - 5 * b + 4 * c - d) * (m + u)
      /\ 2 * h * h * h * b = 2 * (m + u) * (m + u) * (m + u) * b
      OBVIOUS
<1> QED BY <1>1

\* The weights: two that sum to the whole, and two of at most an eighth of it together.
LEMMA WeightsAre ==
  ASSUME NEW h \in Nat, NEW m \in Nat, NEW u \in Nat, h = m + u
  PROVE  LET A == u * (2 * u * u + 5 * m * u + m * m)
             B == m * (u * u + 5 * m * u + 2 * m * m)
             P == m * u * u
             Q == m * m * u
         IN /\ A \in Nat /\ B \in Nat /\ P \in Nat /\ Q \in Nat
            /\ A + B = 2 * h * h * h /\ 8 * (P + Q) <= 2 * h * h * h
<1> DEFINE A == u * (2 * u * u + 5 * m * u + m * m)
           B == m * (u * u + 5 * m * u + 2 * m * m)
           P == m * u * u
           Q == m * m * u
<1>1. m * m \in Nat /\ u * u \in Nat /\ m * u \in Nat
      OBVIOUS
<1>2. P \in Nat /\ Q \in Nat
      BY <1>1
<1>3. A \in Nat /\ B \in Nat
  <2>1. 2 * u * u + 5 * m * u + m * m \in Nat /\ u * u + 5 * m * u + 2 * m * m \in Nat
        BY <1>1
  <2> QED BY <2>1
<1>4. A + B = 2 * (m + u) * (m + u) * (m + u)
      OBVIOUS
<1>5. 8 * (P + Q) <= 2 * (m + u) * (m + u) * (m + u)
  <2>1. 0 <= (m - u) * (m - u)
    <3>1. CASE m <= u
      <4>1. u - m \in Nat /\ (m - u) * (m - u) = (u - m) * (u - m)
            BY <3>1
      <4> QED BY <4>1
    <3>2. CASE u <= m
      <4>1. m - u \in Nat
            BY <3>2
      <4> QED BY <4>1
    <3> QED BY <3>1, <3>2
  <2>2. 0 <= (m + u) * ((m - u) * (m - u))
        BY <2>1
  <2>3. 2 * (m + u) * (m + u) * (m + u) - 8 * (P + Q) = 2 * ((m + u) * ((m - u) * (m - u)))
        OBVIOUS
  <2> DEFINE x == (m + u) * ((m - u) * (m - u))  y == 2 * (m + u) * (m + u) * (m + u)
             z == 8 * (P + Q)
  <2>4. x \in Int /\ y \in Int /\ z \in Int
        OBVIOUS
  <2> HIDE DEF x, y, z
  <2>5. 0 <= x /\ y - z = 2 * x
        BY <2>2, <2>3 DEF x, y, z
  <2>6. z <= y
        BY <2>4, <2>5
  <2> QED BY <2>6 DEF y, z
<1> QED BY <1>2, <1>3, <1>4, <1>5

\* Between frames that lie below D and whose outer steps are at most s, the curve is at
\* most an eighth of s above D.
LEMMA CurveBelow ==
  ASSUME RenderingAssumption, NEW m \in 0..Dt, NEW a \in Int, NEW b \in Int, NEW c \in Int,
         NEW d \in Int, NEW D \in Nat, NEW s \in Nat,
         b <= D, c <= D, b - a <= s, c - d <= s
  PROVE  /\ CatmullRom(<<a, b, c, d>>, m) \in Int
         /\ 8 * CatmullRom(<<a, b, c, d>>, m) <= (8 * D + s) * Unit
<1> DEFINE h == Dt  u == Dt - m
           A == u * (2 * u * u + 5 * m * u + m * m)
           B == m * (u * u + 5 * m * u + 2 * m * m)
           P == m * u * u
           Q == m * m * u
           value == CatmullRom(<<a, b, c, d>>, m)
           W == 2 * h * h * h
<1>1. h \in Nat /\ m \in Nat /\ u \in Nat /\ h = m + u
      BY RenderingAssumption
<1>2. value = A * b + B * c + P * (b - a) + Q * (c - d)
  <2>1. value = 2 * h * h * h * b + m * ((c - a) * h * h
                     + m * ((2 * a - 5 * b + 4 * c - d) * h
                            + m * (3 * (b - c) + d - a)))
        BY DEF CatmullRom, Unit
  <2> HIDE DEF value, h, u
  <2> QED BY <1>1, <2>1, CurveIs
<1>3. Unit = W
      BY DEF Unit
<1>4. /\ A \in Nat /\ B \in Nat /\ P \in Nat /\ Q \in Nat
      /\ A + B = W /\ 8 * (P + Q) <= W
  <2> HIDE DEF h, u
  <2> QED BY <1>1, WeightsAre
<1> HIDE DEF A, B, P, Q, W, value
<1>5. /\ A * b \in Int /\ A * b <= A * D /\ A * D \in Int
      /\ B * c \in Int /\ B * c <= B * D /\ B * D \in Int
      /\ P * (b - a) \in Int /\ P * (b - a) <= P * s /\ P * s \in Int
      /\ Q * (c - d) \in Int /\ Q * (c - d) <= Q * s /\ Q * s \in Int
      BY <1>4, Products
<1>6. value \in Int /\ value <= A * D + B * D + P * s + Q * s
      BY <1>2, <1>5
<1>7. A * D + B * D = W * D
      BY <1>4
<1>8. 8 * (P * s + Q * s) <= W * s
  <2>1. 8 * (P + Q) \in Nat /\ W \in Nat
        BY <1>4
  <2>2. s * (8 * (P + Q)) <= s * W
        BY <1>4, <2>1, Products
  <2>3. 8 * (P * s + Q * s) = s * (8 * (P + Q)) /\ s * W = W * s
        BY <1>4, <2>1
  <2> QED BY <2>2, <2>3
<1>9. (8 * D + s) * Unit = 8 * (W * D) + W * s /\ W * D \in Int /\ W * s \in Int
  <2>1. W \in Nat
        BY <1>4
  <2> QED BY <1>3, <2>1
<1>10. 8 * value <= 8 * (W * D) + W * s
  <2> DEFINE x == A * D + B * D  y == P * s + Q * s  v == W * D  w == W * s
  <2>1. x \in Int /\ y \in Int /\ v \in Int /\ w \in Int /\ value <= x + y
        BY <1>5, <1>6, <1>9
  <2>2. x = v /\ 8 * y <= w
        BY <1>7, <1>8
  <2> HIDE DEF x, y, v, w
  <2>3. 8 * value <= 8 * v + w
        BY <1>6, <2>1, <2>2
  <2> QED BY <2>3 DEF v, w
<1> QED BY <1>6, <1>9, <1>10 DEF value

\* The records of a replayed channel lie below its extent.
LEMMA RecordBelow ==
  ASSUME ScenarioAssumption, NEW c, Renderable(c), c.mode = "replay",
         NEW f, f = c.replay.file
  PROVE  /\ f.taps \in Nat \ {0} /\ f.frames \in Nat /\ f.frames >= 2
         /\ MaxTapDelta(c) = f.maxDelay /\ f.maxDelay \in Nat
         /\ \A tap \in 1..f.taps, n \in 0..(f.frames - 1) :
              f.delays[n * f.taps + tap] \in Nat /\ f.delays[n * f.taps + tap] <= f.maxDelay
<1>1. /\ RecordsValid(f) /\ f # Absent /\ f.frames \in Nat /\ f.delays \in Seq(Nat)
      BY DEF Renderable, CannotBuild
<1>2. MaxTapDelta(c) = f.maxDelay
      BY DEF MaxTapDelta
<1>3. /\ f.taps \in 1..MaxTaps /\ f.frames >= 2 /\ f.maxDelay \in 0..MaxTapDelay
      /\ Len(f.delays) = f.taps * f.frames /\ Biggest(ToSet(f.delays)) = f.maxDelay
      BY <1>1 DEF RecordsValid, HeaderValid
<1>4. f.taps \in Nat \ {0} /\ f.maxDelay \in Nat
      BY <1>3, ScenarioAssumption
<1> DEFINE S == ToSet(f.delays)  N0 == Len(f.delays)
<1>5. /\ N0 \in Nat /\ \A i \in 1..N0 : f.delays[i] \in Nat
      /\ S = {f.delays[i] : i \in 1..N0}
  <2> DEFINE g == f.delays
  <2>1. g \in Seq(Nat)
        BY <1>1
  <2> HIDE DEF g
  <2>2. Len(g) \in Nat /\ DOMAIN g = 1..Len(g) /\ \A i \in 1..Len(g) : g[i] \in Nat
        BY <2>1
  <2>3. ToSet(g) = {g[i] : i \in DOMAIN g}
        BY DEF ToSet
  <2> QED BY <2>2, <2>3 DEF g
<1>6. PICK bound \in Nat : \A i \in 1..N0 : f.delays[i] <= bound
  <2> DEFINE g == f.delays
  <2>1. \A i \in 1..N0 : g[i] \in Nat
        BY <1>5
  <2> HIDE DEF g, N0
  <2>2. \E bound \in Nat : \A i \in 1..N0 : g[i] <= bound
        BY <1>5, <2>1, Bounded
  <2> QED BY <2>2 DEF g
<1>7. ASSUME NEW tap \in 1..f.taps, NEW n \in 0..(f.frames - 1)
      PROVE  n * f.taps + tap \in 1..N0
  <2> DEFINE T == f.taps  F == f.frames
  <2>1. T \in Nat \ {0} /\ F \in Nat /\ F >= 2 /\ tap \in 1..T /\ n \in 0..(F - 1)
        BY <1>1, <1>3, <1>4
  <2>2. N0 = T * F
        BY <1>3
  <2> HIDE DEF T, F, N0
  <2>3. n \in Nat /\ F - 1 \in Nat /\ n <= F - 1
        BY <2>1
  <2>4. T * n <= T * (F - 1) /\ T * n \in Nat
        BY <2>1, <2>3, Products
  <2>5. T * (F - 1) = T * F - T /\ T * F \in Nat /\ n * T = T * n
        BY <2>1, <2>3
  <2> DEFINE x == n * T  y == T * F
  <2>6. x \in Nat /\ y \in Nat /\ x <= y - T
        BY <2>4, <2>5
  <2> HIDE DEF x, y
  <2>7. x + tap \in 1..y
        BY <2>1, <2>6
  <2> QED BY <2>2, <2>7 DEF x, y, T
<1>8. \A i \in 1..N0 : f.delays[i] <= f.maxDelay
  <2>1. CASE N0 = 0
        BY <2>1
  <2>2. CASE N0 # 0
    <3>1. S \subseteq Nat /\ S # {} /\ \A x \in S : x <= bound
      <4> DEFINE g(i) == f.delays[i]
      <4>1. S = {g(i) : i \in 1..N0} /\ \A i \in 1..N0 : g(i) \in Nat /\ g(i) <= bound
            BY <1>5, <1>6
      <4>2. 1 \in 1..N0
            BY <1>5, <2>2
      <4> HIDE DEF g, S, N0
      <4> QED BY <4>1, <4>2
    <3>2. \A x \in S : x <= Biggest(S)
      <4> HIDE DEF S
      <4> QED BY <3>1, BiggestIn
    <3> QED BY <1>3, <1>5, <3>2
  <2> QED BY <2>1, <2>2
<1>9. ASSUME NEW tap \in 1..f.taps, NEW n \in 0..(f.frames - 1)
      PROVE  f.delays[n * f.taps + tap] \in Nat /\ f.delays[n * f.taps + tap] <= f.maxDelay
  <2> DEFINE x == n * f.taps + tap
  <2>1. x \in 1..N0
        BY <1>7
  <2> HIDE DEF x
  <2>2. f.delays[x] \in Nat /\ f.delays[x] <= f.maxDelay
        BY <1>5, <1>8, <2>1
  <2> QED BY <2>2 DEF x
<1> QED BY <1>1, <1>2, <1>3, <1>4, <1>9

\* Where a time falls in a record: in the frame interval i, m past its beginning.
LEMMA FrameIs ==
  ASSUME NEW h \in Nat \ {0}, NEW last \in Nat \ {0}, NEW t \in Nat
  PROVE  LET u == Least(t, last * h)
             i == Least(u \div h, last - 1)
         IN i \in 0..(last - 1) /\ u - i * h \in 0..h
<1> DEFINE u == Least(t, last * h)  q == u \div h  i == Least(q, last - 1)
<1>1. last * h \in Nat
      OBVIOUS
<1>2. u \in Nat /\ u <= last * h
      BY <1>1 DEF Least
<1> HIDE DEF u
<1>3. q \in Nat /\ q * h <= u /\ u < q * h + h
      BY <1>2
<1> HIDE DEF q
<1>4. i \in 0..(last - 1)
      BY <1>3 DEF Least
<1>5. CASE q <= last - 1
  <2>1. i = q
        BY <1>5 DEF Least
  <2> HIDE DEF i
  <2> DEFINE x == q * h
  <2>2. x \in Int /\ i * h = x
        BY <1>3, <2>1
  <2> HIDE DEF x
  <2>3. x <= u /\ u < x + h
        BY <1>3 DEF x
  <2>4. u - x \in 0..h
        BY <1>2, <2>2, <2>3
  <2> QED BY <1>4, <2>2, <2>4 DEF i, q, u
<1>6. CASE ~(q <= last - 1)
  <2>1. i = last - 1 /\ last <= q
        BY <1>3, <1>6 DEF Least
  <2>2. h * last <= h * q
        BY <1>3, <2>1, Products
  <2>3. u = last * h
        BY <1>1, <1>2, <1>3, <2>2
  <2>4. u - i * h = h
        BY <2>1, <2>3
  <2> QED BY <1>4, <2>4 DEF q, u
<1> QED BY <1>5, <1>6

\* A replayed delay lies no further above the record than an eighth of a step.
LEMMA SampledBelow ==
  ASSUME ScenarioAssumption, RenderingAssumption, channel \in RenderedChannels,
         channel.mode = "replay", NEW tap \in 1..Trajectory.taps, NEW t \in Nat,
         NEW s \in Nat, Steady(channel, s)
  PROVE  /\ Sampled(tap, t) \in Int
         /\ 8 * Sampled(tap, t) <= (8 * MaxTapDelta(channel) + s) * Unit
<1> DEFINE last == Trajectory.frames - 1
           u == Least(t, Duration)
           i == Least(u \div Dt, last - 1)
           m == u - i * Dt
           at(frame) == Trajectory.delays[Least(Most(frame, 0), last) * Trajectory.taps + tap]
           raw(frame) == Trajectory.delays[frame * Trajectory.taps + tap]
           D == MaxTapDelta(channel)
<1>1. Sampled(tap, t) = CatmullRom(<<at(i - 1), at(i), at(i + 1), at(i + 2)>>, m)
      BY DEF Sampled
<1>2. Renderable(channel)
      BY RenderingAssumption
<1>3. /\ Trajectory.taps \in Nat \ {0} /\ last \in Nat \ {0} /\ D \in Nat
      /\ \A n \in 0..last : raw(n) \in Nat /\ raw(n) <= D
  <2>1. PICK f : f = channel.replay.file
        OBVIOUS
  <2>2. /\ f.taps \in Nat \ {0} /\ f.frames \in Nat /\ f.frames >= 2
        /\ D = f.maxDelay /\ f.maxDelay \in Nat
        /\ \A x \in 1..f.taps, n \in 0..(f.frames - 1) :
             f.delays[n * f.taps + x] \in Nat /\ f.delays[n * f.taps + x] <= f.maxDelay
        BY <1>2, <2>1, RecordBelow
  <2>3. Trajectory = f
        BY <2>1 DEF Trajectory
  <2>4. f.frames - 1 \in Nat \ {0}
        BY <2>2
  <2>5. \A n \in 0..(f.frames - 1) : f.delays[n * f.taps + tap] \in Nat
                                     /\ f.delays[n * f.taps + tap] <= f.maxDelay
        BY <2>2, <2>3
  <2> HIDE DEF D
  <2> QED BY <2>2, <2>3, <2>4, <2>5
<1>4. Dt \in Nat \ {0} /\ Duration = last * Dt
      BY RenderingAssumption DEF Duration
<1>5. i \in 0..(last - 1) /\ m \in 0..Dt
  <2> HIDE DEF last
  <2>1. LET v == Least(t, last * Dt)
            j == Least(v \div Dt, last - 1)
        IN j \in 0..(last - 1) /\ v - j * Dt \in 0..Dt
        BY <1>3, <1>4, FrameIs
  <2> QED BY <1>4, <2>1
<1>6. \A n \in 0..(last - 1) : raw(n) - raw(n + 1) \in -s..s
  <2>1. last - 1 = Trajectory.frames - 2
    <3>1. Trajectory.frames \in Nat
          BY <1>2 DEF Renderable, CannotBuild, Trajectory
    <3> QED BY <3>1
  <2>2. \A n \in 0..(Trajectory.frames - 2) :
          Trajectory.delays[n * Trajectory.taps + tap]
            - Trajectory.delays[(n + 1) * Trajectory.taps + tap] \in -s..s
        BY Zenon DEF Steady, Trajectory
  <2> QED BY <2>1, <2>2
<1> HIDE DEF i, m, u
<1>7. /\ at(i) = raw(i) /\ at(i + 1) = raw(i + 1)
      /\ at(i - 1) \in {raw(i), raw(i - 1)} /\ (i = 0 => at(i - 1) = raw(i))
      /\ at(i + 2) \in {raw(i + 1), raw(i + 2)} /\ (i + 1 = last => at(i + 2) = raw(i + 1))
  <2> DEFINE n(frame) == Least(Most(frame, 0), last)
  <2> HIDE DEF last
  <2>1. n(i) = i /\ n(i + 1) = i + 1
        BY <1>3, <1>5 DEF Least, Most
  <2>2. n(i - 1) = IF i = 0 THEN i ELSE i - 1
        BY <1>3, <1>5 DEF Least, Most
  <2>3. n(i + 2) = IF i + 1 = last THEN i + 1 ELSE i + 2
        BY <1>3, <1>5 DEF Least, Most
  <2>4. \A frame : at(frame) = raw(n(frame))
        OBVIOUS
  <2> HIDE DEF n, at, raw
  <2> QED BY <2>1, <2>2, <2>3, <2>4
<1>8. /\ at(i - 1) \in Int /\ at(i) \in Int /\ at(i + 1) \in Int /\ at(i + 2) \in Int
      /\ at(i) <= D /\ at(i + 1) <= D /\ at(i) - at(i - 1) <= s /\ at(i + 1) - at(i + 2) <= s
  <2> HIDE DEF at, raw, last, D
  <2>1. i \in Nat /\ i \in 0..last /\ i + 1 \in 0..last
        BY <1>3, <1>5
  <2>2. raw(i) \in Nat /\ raw(i) <= D /\ raw(i + 1) \in Nat /\ raw(i + 1) <= D
        BY <1>3, <2>1
  <2>4. at(i - 1) \in Int /\ at(i) - at(i - 1) <= s
    <3>1. CASE at(i - 1) = raw(i)
          BY <1>7, <2>2, <3>1
    <3>2. CASE at(i - 1) = raw(i - 1) /\ i # 0
      <4>1. i - 1 \in 0..(last - 1) /\ i - 1 \in 0..last /\ (i - 1) + 1 = i
            BY <1>3, <1>5, <3>2
      <4>2. raw(i - 1) - raw(i) \in -s..s /\ raw(i - 1) \in Nat
            BY <1>3, <1>6, <4>1
      <4> QED BY <1>7, <2>2, <3>2, <4>2
    <3> QED BY <1>7, <3>1, <3>2
  <2>5. at(i + 2) \in Int /\ at(i + 1) - at(i + 2) <= s
    <3>1. CASE at(i + 2) = raw(i + 1)
          BY <1>7, <2>2, <3>1
    <3>2. CASE at(i + 2) = raw(i + 2) /\ i + 1 # last
      <4>1. i + 1 \in 0..(last - 1) /\ i + 2 \in 0..last /\ (i + 1) + 1 = i + 2
            BY <1>3, <1>5, <3>2
      <4>2. raw(i + 1) - raw(i + 2) \in -s..s /\ raw(i + 2) \in Nat
            BY <1>3, <1>6, <4>1
      <4> QED BY <1>7, <2>2, <3>2, <4>2
    <3> QED BY <1>7, <3>1, <3>2
  <2>6. at(i) = raw(i) /\ at(i + 1) = raw(i + 1)
        BY <1>7
  <2> QED BY <2>2, <2>4, <2>5, <2>6
<1> HIDE DEF at
<1>9. PICK a, b, c, d : a = at(i - 1) /\ b = at(i) /\ c = at(i + 1) /\ d = at(i + 2)
      OBVIOUS
<1>10. CatmullRom(<<a, b, c, d>>, m) \in Int /\ 8 * CatmullRom(<<a, b, c, d>>, m) <= (8 * D + s) * Unit
  <2> HIDE DEF D
  <2> QED BY <1>3, <1>5, <1>8, <1>9, CurveBelow
<1> QED BY <1>1, <1>9, <1>10

\* A quotient stays below what its dividend is a multiple of.
LEMMA DividesBelow ==
  ASSUME NEW a \in Nat, NEW q \in Nat \ {0}, NEW n \in Nat
  PROVE  /\ a \div q \in Nat
         /\ a <= q * n => a \div q <= n
         /\ a < q * n => a \div q < n
<1>1. a \div q \in Nat /\ q * (a \div q) <= a
      OBVIOUS
<1>2. ASSUME n < a \div q PROVE q * n < a
  <2>1. q * (n + 1) <= q * (a \div q)
        BY <1>1, <1>2, Products
  <2>2. q * (n + 1) = q * n + q /\ q * n \in Nat /\ q * (a \div q) \in Nat
        BY <1>1
  <2> QED BY <1>1, <2>1, <2>2
<1>3. ASSUME a \div q = n PROVE q * n <= a
      BY <1>1, <1>3
<1> DEFINE d == a \div q  e == q * n
<1>4. d \in Nat /\ e \in Nat /\ (n < d => e < a) /\ (d = n => e <= a)
      BY <1>1, <1>2, <1>3
<1> HIDE DEF d, e
<1>5. (a <= e => d <= n) /\ (a < e => d < n)
      BY <1>4
<1> QED BY <1>4, <1>5 DEF d, e

\* A product rounded up, or to the nearest, and one that is smaller.
LEMMA RoundedUp ==
  ASSUME NEW x \in Nat, NEW y \in Nat, x <= y, NEW v \in Nat \ {0}, NEW one \in Nat \ {0}
  PROVE  /\ UpTo(y, v) \in Nat /\ Rounded(y, v) \in Nat /\ (x * one) \div v \in Nat
         /\ (x * one) \div v <= UpTo(y, v) * one
         /\ (x * one) \div v < (Rounded(y, v) + 1) * one
<1> DEFINE up == UpTo(y, v)  near == Rounded(y, v)
<1>1. x * one \in Nat /\ y * one \in Nat /\ x * one <= y * one
  <2>1. one * x \in Nat /\ one * y \in Nat /\ one * x <= one * y
        BY Products
  <2> QED BY <2>1
<1>2. up \in Nat /\ y <= v * up
  <2>1. y + v - 1 \in Nat
        OBVIOUS
  <2>2. (y + v - 1) \div v \in Nat /\ y + v - 1 < v * ((y + v - 1) \div v) + v
        BY <2>1
  <2> QED BY <2>2 DEF UpTo
<1>3. near \in Nat /\ y < v * (near + 1)
  <2>1. 2 * y + v \in Nat /\ 2 * v \in Nat \ {0}
        OBVIOUS
  <2>2. /\ (2 * y + v) \div (2 * v) \in Nat
        /\ 2 * y + v < (2 * v) * ((2 * y + v) \div (2 * v)) + 2 * v
    <3> DEFINE a == 2 * y + v  q == 2 * v
    <3>1. a \in Nat /\ q \in Nat \ {0}
          BY <2>1
    <3> HIDE DEF a, q
    <3>2. a \div q \in Nat /\ a < q * (a \div q) + q
          BY <3>1
    <3> QED BY <3>2 DEF a, q
  <2>3. near = (2 * y + v) \div (2 * v)
        BY DEF Rounded
  <2> HIDE DEF near
  <2> DEFINE p == v * near
  <2>4. p \in Nat /\ (2 * v) * near = 2 * p /\ v * (near + 1) = p + v
        BY <2>2, <2>3
  <2>5. 2 * y + v < (2 * v) * near + 2 * v
        BY <2>2, <2>3
  <2> HIDE DEF p
  <2>6. y < p + v
        BY <2>4, <2>5
  <2> QED BY <2>2, <2>3, <2>4, <2>6
<1> HIDE DEF up, near
<1>4. x * one <= v * (up * one) /\ up * one \in Nat
  <2>1. one * y <= one * (v * up)
        BY <1>2, Products
  <2>2. one * (v * up) = v * (up * one) /\ one * y = y * one /\ up * one \in Nat
        BY <1>2
  <2> DEFINE p == v * (up * one)
  <2>3. p \in Nat
        BY <2>2
  <2> HIDE DEF p
  <2>4. y * one <= p
        BY <2>1, <2>2 DEF p
  <2>5. x * one <= p
        BY <1>1, <2>3, <2>4
  <2> QED BY <2>2, <2>5 DEF p
<1>5. x * one < v * ((near + 1) * one) /\ (near + 1) * one \in Nat
  <2> DEFINE p == v * (near + 1)  w == v * ((near + 1) * one)
  <2>1. p \in Nat /\ w = one * p /\ w \in Nat /\ (near + 1) * one \in Nat
        BY <1>3
  <2>2. y + 1 <= p
        BY <1>3, <2>1
  <2> HIDE DEF p, w
  <2>3. one * (y + 1) <= one * p /\ one * (y + 1) = y * one + one
        BY <2>1, <2>2, Products
  <2>4. y * one + one <= w
        BY <2>1, <2>3
  <2>5. x * one < w
        BY <1>1, <2>1, <2>4
  <2> QED BY <2>1, <2>5 DEF w
<1>6. /\ (x * one) \div v \in Nat /\ (x * one) \div v <= up * one
      /\ (x * one) \div v < (near + 1) * one
  <2> DEFINE a == x * one
  <2>1. a \in Nat /\ a <= v * (up * one) /\ a < v * ((near + 1) * one)
        BY <1>1, <1>4, <1>5
  <2> DEFINE b == up * one  c == (near + 1) * one
  <2>2. b \in Nat /\ c \in Nat
        BY <1>4, <1>5
  <2> HIDE DEF a, b, c
  <2>3. a \div v \in Nat /\ a \div v <= b /\ a \div v < c
    <3>1. a <= v * b /\ a < v * c
          BY <2>1 DEF b, c
    <3> QED BY <2>1, <2>2, <3>1, DividesBelow
  <2> QED BY <2>3 DEF a, b, c
<1> QED BY <1>2, <1>3, <1>6 DEF up, near

\* The sizes of a scene: what its envelope's ends make of the paths.
LEMMA EnvelopeIs ==
  ASSUME ScenarioAssumption, RenderingAssumption, NEW c \in RenderedChannels,
         c.mode = "geometric", NEW g, g = c.geometry
  PROVE  /\ g.water \in Nat /\ g.source \in 1..(g.water - 1) /\ g.receiver \in 1..(g.water - 1)
         /\ g.rMin \in Nat /\ g.rMax \in Nat /\ g.rMin <= g.rMax
         /\ Speed(c.speed) \in Nat \ {0} /\ Anchor(c) \in Nat
         /\ Biggest(PathLengths(g, g.rMin)) \in Nat /\ Biggest(PathLengths(g, g.rMax)) \in Nat
         /\ \A x \in PathLengths(g, g.rMax) : x <= Biggest(PathLengths(g, g.rMax))
<1>1. Renderable(c)
      BY RenderingAssumption
<1>2. /\ g.water \in Nat /\ g.source \in 1..(g.water - 1) /\ g.receiver \in 1..(g.water - 1)
      /\ g.rMin \in Nat /\ g.rMax \in Nat /\ g.rMin <= g.rMax
      /\ PathLengths(g, g.rMin) # {}
      BY <1>1 DEF Renderable, CannotBuild
<1>3. Speed(c.speed) \in Nat \ {0}
  <2>1. c.speed \in Int /\ DefaultSpeed \in Nat \ {0}
        BY <1>1, ScenarioAssumption DEF Renderable
  <2> QED BY <2>1 DEF Speed
<1>4. PathLengths(g, g.rMin) \subseteq Nat /\ PathLengths(g, g.rMax) \subseteq Nat
      BY <1>2, Paths
<1>5. Anchor(c) \in Nat
  <2>1. Anchor(c) = Smallest(PathLengths(g, g.rMin))
        BY DEF Anchor
  <2> QED BY <1>2, <1>4, <2>1, SmallestBelow
<1>6. PathLengths(g, g.rMax) # {}
  <2>1. \A x \in PathLengths(g, g.rMin) : \E y \in PathLengths(g, g.rMax) : x <= y
        BY <1>2, PathGrows
  <2> QED BY <1>2, <2>1
<1>7. ASSUME NEW R \in Nat, PathLengths(g, R) # {}
      PROVE  Biggest(PathLengths(g, R)) \in Nat
             /\ \A x \in PathLengths(g, R) : x <= Biggest(PathLengths(g, R))
  <2> DEFINE bound == R * R + (5 * g.water) * (5 * g.water)  S == PathLengths(g, R)
  <2>1. S \subseteq Nat /\ bound \in Nat /\ \A x \in S : x <= bound
        BY <1>2, Paths
  <2>2. S # {}
        BY <1>7
  <2> HIDE DEF bound, S
  <2>3. Biggest(S) \in Nat /\ \A x \in S : x <= Biggest(S)
        BY <2>1, <2>2, BiggestIn
  <2> QED BY <2>3 DEF S
<1> QED BY <1>2, <1>3, <1>5, <1>6, <1>7

\* No path inside the envelope is beyond the channel's extents.
LEMMA ExcessBelow ==
  ASSUME ScenarioAssumption, RenderingAssumption, channel \in RenderedChannels,
         channel.mode = "geometric", NEW p \in ImagePaths, NEW t \in Nat
  PROVE  /\ Excess(p, t) \in Nat
         /\ Excess(p, t) <= WorstExcess * Unit
         /\ Excess(p, t) < (MaxTapDelta(channel) + 1) * Unit
<1> DEFINE g == channel.geometry  v == Speed(channel.speed)  anchor == Anchor(channel)
           range == RangeAt(t)  length == Root(range * range + p[2] * p[2])
           near == PathLengths(g, g.rMin)  far == PathLengths(g, g.rMax)
           span == Biggest(far) - anchor
<1>1. Renderable(channel)
      BY RenderingAssumption
<1>2. /\ g.water \in Nat /\ g.source \in 1..(g.water - 1) /\ g.receiver \in 1..(g.water - 1)
      /\ g.rMin \in Nat /\ g.rMax \in Nat /\ g.rMin <= g.rMax
      /\ v \in Nat \ {0} /\ anchor \in Nat
      /\ Biggest(near) \in Nat /\ Biggest(far) \in Nat /\ \A x \in far : x <= Biggest(far)
      BY EnvelopeIs
<1>3. Unit \in Nat \ {0}
      BY UnitIs
<1>4. range \in Nat /\ g.rMin <= range /\ range <= g.rMax
  <2> DEFINE R == channel.start + channel.velocity * t + (channel.acceleration * t * t) \div 2
  <2>1. R \in Int
    <3>1. /\ channel.start \in Int /\ channel.velocity \in Int /\ channel.acceleration \in Int
          BY <1>1 DEF Renderable
    <3>2. channel.velocity * t \in Int /\ channel.acceleration * t * t \in Int
          BY <3>1
    <3> QED BY <3>1, <3>2
  <2>2. range = Most(g.rMin, Least(g.rMax, R))
        BY DEF RangeAt
  <2> HIDE DEF R, g
  <2>3. Most(g.rMin, Least(g.rMax, R)) \in Nat /\ g.rMin <= Most(g.rMin, Least(g.rMax, R))
        /\ Most(g.rMin, Least(g.rMax, R)) <= g.rMax
        BY <1>2, <2>1 DEF Most, Least
  <2> QED BY <2>2, <2>3
<1>5. length \in PathLengths(g, range)
      BY Zenon DEF ImagePaths, PathLengths
<1>6. Excess(p, t) = Most(0, (length - anchor) * Unit) \div v
      BY DEF Excess
<1>7. /\ WorstExcess = UpTo(Most(0, Most(Biggest(near) - anchor, span)), v)
      /\ MaxTapDelta(channel) = Rounded(Biggest({0, span}), v)
      BY DEF WorstExcess, MaxTapDelta
<1> HIDE DEF g, v, anchor, range, length, near, far, span
<1>9. length \in Nat
      BY <1>2, <1>4, <1>5, Paths
<1>10. length <= Biggest(far)
  <2>1. \E y \in far : length <= y
        BY <1>2, <1>4, <1>5, PathGrows DEF far
  <2>2. far \subseteq Nat
        BY <1>2, Paths DEF far
  <2> QED BY <1>2, <1>9, <2>1, <2>2
<1> DEFINE x == Most(0, length - anchor)  y == Most(0, Most(Biggest(near) - anchor, span))
           z == Biggest({0, span})
<1>13. span \in Int /\ length - anchor <= span
       BY <1>2, <1>9, <1>10 DEF span
<1>14. x \in Nat /\ y \in Nat /\ x <= y
       BY <1>2, <1>9, <1>13 DEF Most
<1>15. z \in Nat /\ x <= z
  <2>1. z \in {0, span} /\ 0 <= z /\ span <= z
    <3> DEFINE a == 0  b == span
    <3>1. a \in Int /\ b \in Int
          BY <1>13
    <3> HIDE DEF a, b
    <3>2. Biggest({a, b}) \in {a, b} /\ a <= Biggest({a, b}) /\ b <= Biggest({a, b})
          BY <3>1, BiggestOfTwo
    <3> QED BY <3>2 DEF a, b
  <2> HIDE DEF z
  <2> QED BY <1>2, <1>9, <1>13, <2>1 DEF Most
<1>16. Most(0, (length - anchor) * Unit) = x * Unit
  <2> DEFINE e == length - anchor
  <2>1. e \in Int
        BY <1>2, <1>9
  <2> HIDE DEF e
  <2>2. CASE 0 <= e
    <3>1. 0 <= e * Unit /\ e * Unit \in Int
          BY <1>3, <2>1, <2>2
    <3> QED BY <2>1, <2>2, <3>1 DEF Most, e
  <2>3. CASE ~(0 <= e)
    <3>1. -e \in Nat /\ (-e) * Unit \in Nat /\ e * Unit = -((-e) * Unit)
          BY <1>3, <2>1, <2>3
    <3>2. e * Unit <= 0 /\ e * Unit \in Int
          BY <3>1
    <3> QED BY <1>3, <2>1, <2>3, <3>2 DEF Most, e
  <2> QED BY <2>2, <2>3
<1> HIDE DEF x, y, z
<1>17. /\ (x * Unit) \div v \in Nat /\ (x * Unit) \div v <= UpTo(y, v) * Unit
       /\ (x * Unit) \div v < (Rounded(z, v) + 1) * Unit
       BY <1>2, <1>3, <1>14, <1>15, RoundedUp
<1>18. WorstExcess = UpTo(y, v) /\ MaxTapDelta(channel) = Rounded(z, v)
       BY <1>7 DEF y, z
<1> QED BY <1>6, <1>16, <1>17, <1>18

\* Where the taps are depends on the channel, the record's offset and the time.
LEMMA TapsMove ==
  ASSUME channel' = channel, offset' = offset, NEW c, c = cursor'
  PROVE  TapsAt(cursor)' = TapsAt(c)
BY DEF TapsAt, Sampled, Ramp, Excess, RangeAt, Trajectory, Duration, ImagePaths

LEMMA SizesKept ==
  ASSUME channel' = channel
  PROVE  Capacity' = Capacity /\ Margin' = Margin /\ WorstExcess' = WorstExcess
<1>1. Margin' = Margin
      BY DEF Margin
<1>2. WorstExcess' = WorstExcess
      BY DEF WorstExcess
<1> QED BY <1>1, <1>2 DEF Capacity

\* The extents of a channel whose taps move.
LEMMA ExtentsAre ==
  ASSUME ScenarioAssumption, RenderingAssumption, channel \in RenderedChannels
  PROVE  /\ MaxTapDelta(channel) \in Nat /\ WorstExcess \in Nat /\ channel.drift \in Int
         /\ channel.mode \in {"replay", "geometric"}
         /\ channel.mode = "replay" => WorstExcess = MaxTapDelta(channel)
<1>1. Renderable(channel)
      BY RenderingAssumption
<1>2. channel.mode \in {"replay", "geometric"} /\ channel.drift \in Int
      BY <1>1 DEF Renderable
<1>3. CASE channel.mode = "replay"
  <2>1. PICK f : f = channel.replay.file
        OBVIOUS
  <2>2. MaxTapDelta(channel) \in Nat
        BY <1>1, <1>3, <2>1, RecordBelow
  <2> QED BY <1>2, <1>3, <2>2 DEF WorstExcess
<1>4. CASE channel.mode = "geometric"
  <2> DEFINE g == channel.geometry  v == Speed(channel.speed)  anchor == Anchor(channel)
             span == Biggest(PathLengths(g, g.rMax)) - anchor
             out == Most(0, Most(Biggest(PathLengths(g, g.rMin)) - anchor, span))
  <2>1. /\ v \in Nat \ {0} /\ anchor \in Nat /\ Biggest(PathLengths(g, g.rMin)) \in Nat
        /\ Biggest(PathLengths(g, g.rMax)) \in Nat
        BY <1>4, EnvelopeIs
  <2>2. MaxTapDelta(channel) = Rounded(Biggest({0, span}), v) /\ WorstExcess = UpTo(out, v)
        BY <1>4 DEF MaxTapDelta, WorstExcess
  <2>3. span \in Int /\ out \in Nat
        BY <2>1 DEF Most
  <2> HIDE DEF out, span, v, anchor, g
  <2>4. Biggest({0, span}) \in Nat
    <3> DEFINE a == 0  b == span
    <3>1. a \in Int /\ b \in Int
          BY <2>3
    <3> HIDE DEF a, b
    <3>2. Biggest({a, b}) \in {a, b} /\ a <= Biggest({a, b})
          BY <3>1, BiggestOfTwo
    <3>3. Biggest({a, b}) \in Int /\ a <= Biggest({a, b})
          BY <3>1, <3>2
    <3> QED BY <3>3 DEF a, b
  <2>5. \A n \in Nat : Rounded(n, v) \in Nat /\ UpTo(n, v) \in Nat
    <3> TAKE n \in Nat
    <3>1. n <= n /\ 1 \in Nat \ {0}
          OBVIOUS
    <3> QED BY <2>1, <3>1, RoundedUp
  <2> QED BY <1>2, <1>4, <2>2, <2>3, <2>4, <2>5
<1> QED BY <1>2, <1>3, <1>4

\* How far a tap lags: no further than the delay line is made for, but for a record's
\* overshoot, and less than a sample beyond the tail.
LEMMA DelaysBelow ==
  ASSUME ScenarioAssumption, RenderingAssumption, channel \in RenderedChannels,
         offset \in Nat, NEW t \in Nat, NEW s \in Nat, Steady(channel, s), NEW tap \in DOMAIN TapsAt(t)
  PROVE  /\ TapsAt(t)[tap].delay \in Int
         /\ 8 * TapsAt(t)[tap].delay <= (8 * WorstExcess + s) * Unit
         /\ s <= 7 => TapsAt(t)[tap].delay < (MaxTapDelta(channel) + 1) * Unit
<1>1. /\ MaxTapDelta(channel) \in Nat /\ WorstExcess \in Nat
      /\ channel.mode \in {"replay", "geometric"}
      /\ channel.mode = "replay" => WorstExcess = MaxTapDelta(channel)
      BY ExtentsAre
<1>2. Unit \in Nat \ {0}
      BY UnitIs
<1> DEFINE delay == TapsAt(t)[tap].delay  D == MaxTapDelta(channel)  W == WorstExcess  one == Unit
<1>3. CASE channel.mode = "replay"
  <2>1. tap \in 1..Trajectory.taps /\ delay = Sampled(tap, offset + t)
        BY <1>3 DEF TapsAt
  <2>2. offset + t \in Nat
        OBVIOUS
  <2>3. delay \in Int /\ 8 * delay <= (8 * D + s) * one
        BY <1>3, <2>1, <2>2, SampledBelow
  <2>4. s <= 7 => delay < (D + 1) * one
    <3>1. D * one \in Int /\ s * one \in Int /\ (8 * D + s) * one = 8 * (D * one) + s * one
          /\ (D + 1) * one = D * one + one
          BY <1>1, <1>2
    <3>2. s <= 7 => s * one <= 7 * one
      <4>1. s <= 7 => one * s <= one * 7
            BY <1>2, Products
      <4> QED BY <1>2, <4>1
    <3> DEFINE a == D * one  b == s * one
    <3> HIDE DEF delay, a, b, one
    <3> QED BY <1>2, <2>3, <3>1, <3>2 DEF a, b, one
  <2> QED BY <1>1, <1>3, <2>3, <2>4
<1>4. CASE channel.mode = "geometric"
  <2>1. tap \in ImagePaths /\ delay = Excess(tap, t)
        BY <1>4 DEF TapsAt
  <2>2. delay \in Nat /\ delay <= W * one /\ delay < (D + 1) * one
        BY <1>4, <2>1, ExcessBelow
  <2>3. 8 * delay <= (8 * W + s) * one
    <3>1. W * one \in Int /\ s * one \in Nat /\ (8 * W + s) * one = 8 * (W * one) + s * one
          BY <1>1, <1>2
    <3> DEFINE a == W * one  b == s * one
    <3> HIDE DEF delay, a, b, one
    <3> QED BY <2>2, <3>1 DEF a, b
  <2> QED BY <2>2, <2>3
<1> QED BY <1>1, <1>3, <1>4

\* Any record is steady to its extent.
LEMMA SteadyAtAll ==
  ASSUME ScenarioAssumption, RenderingAssumption, channel \in RenderedChannels
  PROVE  \E s \in Nat : Steady(channel, s)
<1> DEFINE D == MaxTapDelta(channel)
<1>1. Renderable(channel) /\ D \in Nat
      BY RenderingAssumption, ExtentsAre
<1>2. Steady(channel, D)
  <2>1. SUFFICES ASSUME channel.mode = "replay", NEW f, f = channel.replay.file,
                        NEW tap \in 1..f.taps, NEW n \in 0..(f.frames - 2)
                 PROVE  f.delays[n * f.taps + tap] - f.delays[(n + 1) * f.taps + tap] \in -D..D
        BY Zenon DEF Steady
  <2>2. /\ f.taps \in Nat \ {0} /\ f.frames \in Nat /\ f.frames >= 2 /\ D = f.maxDelay
        /\ \A x \in 1..f.taps, m \in 0..(f.frames - 1) :
             f.delays[m * f.taps + x] \in Nat /\ f.delays[m * f.taps + x] <= f.maxDelay
        BY <1>1, <2>1, RecordBelow
  <2>3. n \in 0..(f.frames - 1) /\ n + 1 \in 0..(f.frames - 1)
        BY <2>2
  <2> DEFINE a == f.delays[n * f.taps + tap]  b == f.delays[(n + 1) * f.taps + tap]
  <2>4. a \in Nat /\ a <= D /\ b \in Nat /\ b <= D
        BY <2>2, <2>3
  <2> HIDE DEF a, b, D
  <2>5. a - b \in -D..D
        BY <1>1, <2>4
  <2> QED BY <2>5 DEF a, b, D
<1> QED BY <1>1, <1>2

\* Doubling adds no odd divisor.
LEMMA Doubled ==
  ASSUME NEW p \in Nat \ {0}, PowerOfTwo(p)
  PROVE  PowerOfTwo(2 * p)
<1>1. SUFFICES ASSUME NEW d \in 2..(2 * p), (2 * p) % d = 0, d % 2 # 0
               PROVE  FALSE
      BY DEF PowerOfTwo
<1>2. PICK e \in Nat \ {0} : d = 2 * e + 1
  <2>1. d = 2 * (d \div 2) + (d % 2) /\ d % 2 = 1
        BY <1>1
  <2>2. d \div 2 \in Nat \ {0}
        BY <1>1
  <2> QED BY <2>1, <2>2
<1> DEFINE q == (2 * p) \div d
<1>3. q \in Nat /\ 2 * p = d * q
  <2> DEFINE x == 2 * p
  <2>1. x \in Nat /\ d \in Nat \ {0} /\ x % d = 0
        BY <1>1
  <2> HIDE DEF x
  <2>2. x \div d \in Nat /\ x = d * (x \div d) + (x % d)
        BY <2>1
  <2>3. d * (x \div d) \in Nat
        BY <2>1, <2>2
  <2>4. x = d * (x \div d)
        BY <2>1, <2>2, <2>3
  <2> QED BY <2>2, <2>4 DEF x
<1> HIDE DEF q
<1>4. PICK r \in Nat : q = 2 * r
  <2>1. e * q \in Nat /\ d * q = 2 * (e * q) + q
        BY <1>2, <1>3
  <2> DEFINE y == e * q
  <2> HIDE DEF y
  <2>2. q = 2 * (p - y) /\ p - y \in Int
        BY <1>3, <2>1 DEF y
  <2>3. p - y \in Nat
        BY <1>3, <2>2
  <2> QED BY <2>2, <2>3
<1>5. p = d * r
  <2>1. d * r \in Nat /\ d * q = 2 * (d * r)
        BY <1>1, <1>4
  <2> DEFINE y == d * r
  <2> HIDE DEF y
  <2>2. 2 * p = 2 * y /\ y \in Nat
        BY <1>3, <2>1 DEF y
  <2> QED BY <2>2 DEF y
<1>6. p % d = 0 /\ d <= p
  <2>1. d \in Nat \ {0} /\ r \in Nat
        BY <1>1
  <2>2. r # 0
        BY <1>5, <2>1
  <2>3. d * 1 <= d * r
        BY <2>1, <2>2, Products
  <2>4. (d * r) % d = 0
        BY <2>1
  <2> QED BY <1>5, <2>1, <2>3, <2>4
<1> QED BY <1>1, <1>6 DEF PowerOfTwo

\* There is a power of two between a number and its double.
LEMMA PowerBetween ==
  ASSUME NEW n \in Nat \ {0}
  PROVE  \E p \in n..(2 * n) : PowerOfTwo(p)
<1> DEFINE S == {m \in Nat : \E p \in (m + 1)..(2 * (m + 1)) : PowerOfTwo(p)}
<1>1. 0 \in S
  <2>1. PowerOfTwo(1) /\ 1 \in (0 + 1)..(2 * (0 + 1))
        BY DEF PowerOfTwo
  <2> QED BY <2>1
<1>2. ASSUME NEW m \in Nat, m \in S
      PROVE  m + 1 \in S
  <2>1. PICK p \in (m + 1)..(2 * (m + 1)) : PowerOfTwo(p)
        BY <1>2
  <2>2. CASE p = m + 1
    <3>1. PowerOfTwo(2 * p) /\ 2 * p \in (m + 1 + 1)..(2 * (m + 1 + 1))
          BY <2>1, <2>2, Doubled
    <3> QED BY <3>1
  <2>3. CASE p # m + 1
    <3>1. p \in (m + 1 + 1)..(2 * (m + 1 + 1))
          BY <2>1, <2>3
    <3> QED BY <2>1, <3>1
  <2> QED BY <2>2, <2>3
<1> HIDE DEF S
<1>3. n - 1 \in S
  <2>1. \A m \in Nat : m \in S
        BY <1>1, <1>2, SetInduction
  <2> QED BY <2>1
<1>4. \E p \in ((n - 1) + 1)..(2 * ((n - 1) + 1)) : PowerOfTwo(p)
      BY <1>3 DEF S
<1>5. (n - 1) + 1 = n
      OBVIOUS
<1> QED BY <1>4, <1>5

\* The drift of a block, its margin, and the ring they make with the extent.
LEMMA CapacityIs ==
  ASSUME ScenarioAssumption, RenderingAssumption, channel \in RenderedChannels
  PROVE  /\ Margin \in Nat /\ UpTo(Block * Most(channel.drift, -channel.drift), Unit) \in Nat
         /\ Margin = 5 + UpTo(Block * Most(channel.drift, -channel.drift), Unit) + Block
         /\ Capacity \in Nat \ {0} /\ WorstExcess + Margin <= Capacity
<1> DEFINE size == Most(channel.drift, -channel.drift)  drifts == UpTo(Block * size, Unit)
<1>1. size \in Nat
  <2>1. channel.drift \in Int
        BY ExtentsAre
  <2> QED BY <2>1 DEF Most
<1>2. Block \in Nat \ {0} /\ Unit \in Nat \ {0}
      BY UnitIs
<1>3. drifts \in Nat
  <2>1. Block * size \in Nat /\ Block * size <= Block * size /\ 1 \in Nat \ {0}
        BY <1>1, <1>2
  <2> DEFINE y == Block * size
  <2> HIDE DEF y, size
  <2>2. UpTo(y, Unit) \in Nat
        BY <1>2, <2>1, RoundedUp DEF y
  <2> QED BY <2>2 DEF y
<1>4. Margin = 4 + drifts + 1 + Block
      BY DEF Margin
<1> HIDE DEF drifts
<1>5. Margin \in Nat /\ Margin = 5 + drifts + Block /\ WorstExcess + Margin \in Nat \ {0}
  <2>1. WorstExcess \in Nat
        BY ExtentsAre
  <2> QED BY <1>2, <1>3, <1>4, <2>1
<1> DEFINE least == WorstExcess + Margin
           S == {p \in least..(2 * least) : PowerOfTwo(p)}
<1>6. Capacity = Smallest(S)
      BY DEF Capacity
<1> HIDE DEF least
<1>7. least \in Nat \ {0}
      BY <1>5 DEF least
<1>8. S \subseteq Nat /\ S # {} /\ \A p \in S : least <= p
      BY <1>7, PowerBetween
<1> HIDE DEF S
<1>9. Smallest(S) \in S
      BY <1>8, SmallestBelow
<1>10. Capacity \in Nat /\ least <= Capacity
      BY <1>6, <1>8, <1>9
<1>11. Capacity \in Nat \ {0}
      BY <1>7, <1>10
<1> QED BY <1>3, <1>5, <1>10, <1>11 DEF least, drifts

\* A sequence made of n elements has that length.
LEMMA MadeOf ==
  ASSUME NEW n \in Nat, NEW S, NEW in \in [1..n -> S]
  PROVE  in \in Seq(S) /\ DOMAIN in = 1..n /\ Len(in) = n
<1>1. in \in Seq(S) /\ DOMAIN in = 1..n
      OBVIOUS
<1>2. Len(in) \in Nat /\ DOMAIN in = 1..Len(in)
      BY <1>1
<1> QED BY <1>1, <1>2

\* What Process and DrainTail have written.
LEMMA Writes ==
  ASSUME Lockstep, RenderingAssumption, Process \/ DrainTail
  PROVE  \E n \in Nat \ {0} : \E in :
           /\ Write(in) /\ DOMAIN in = 1..n /\ Len(in) = n
           /\ producer' = producer + n /\ pending' = n /\ pending = 0
           /\ \/ /\ Process /\ n <= MaxBatch /\ fed' = fed + n
                 /\ in = [i \in 1..n |-> <<message, producer + i - 1>>]
              \/ /\ DrainTail /\ n = Least(Block, left) /\ n <= left /\ n <= Block
                 /\ left' = left - n /\ in = [i \in 1..n |-> Silence]
<1>1. CASE Process
  <2>1. PICK n \in 1..MaxBatch :
               Write([i \in 1..n |-> <<message, producer + i - 1>>]) /\ fed' = fed + n
        BY <1>1 DEF Process
  <2>2. PICK in : in = [i \in 1..n |-> <<message, producer + i - 1>>]
        OBVIOUS
  <2>3. n \in Nat \ {0} /\ n <= MaxBatch /\ pending = 0
        BY <1>1, <2>1, UnitIs DEF Process
  <2>4. in \in [1..n -> {<<message, producer + i - 1>> : i \in 1..n}]
        BY <2>2
  <2>5. DOMAIN in = 1..n /\ Len(in) = n
        BY <2>3, <2>4, MadeOf
  <2>6. Write(in)
        BY <2>1, <2>2
  <2>7. producer' = producer + n /\ pending' = n
        BY <2>5, <2>6 DEF Write
  <2> QED BY <1>1, <2>1, <2>2, <2>3, <2>5, <2>6, <2>7
<1>2. CASE DrainTail
  <2>1. PICK n : n = Least(Block, left)
        OBVIOUS
  <2>2. n \in Nat \ {0} /\ n <= left /\ n <= Block /\ pending = 0
        BY <1>2, <2>1, UnitIs DEF DrainTail, Least, Lockstep
  <2>3. PICK in : in = [i \in 1..n |-> Silence]
        OBVIOUS
  <2>4. in \in [1..n -> {Silence}]
        BY <2>3
  <2>5. DOMAIN in = 1..n /\ Len(in) = n
        BY <2>2, <2>4, MadeOf
  <2>6. Write(in) /\ left' = left - n
        BY <1>2, <2>1, <2>3 DEF DrainTail
  <2>7. producer' = producer + n /\ pending' = n
        BY <2>5, <2>6 DEF Write
  <2> QED BY <1>2, <2>1, <2>2, <2>3, <2>5, <2>6, <2>7
<1> QED BY <1>1, <1>2

LEMMA LockstepInit ==
  ASSUME ScenarioAssumption, RenderingAssumption, RenderInit
  PROVE  Lockstep
<1>1. channel.drift \in Int /\ Unit \in Nat
      BY ExtentsAre, UnitIs DEF RenderInit
<1>2. offset \in Nat
  <2>1. channel.mode = "replay" => channel.replay.offset \in {Absent} \union Nat
        BY RenderingAssumption DEF RenderInit, Renderable
  <2> QED BY <2>1 DEF RenderInit, Or
<1> QED BY <1>1, <1>2 DEF RenderInit, Lockstep

LEMMA LockstepNext ==
  ASSUME ScenarioAssumption, RenderingAssumption, Lockstep, [RenderNext]_renderVars
  PROVE  Lockstep'
<1>1. /\ channel \in RenderedChannels /\ stage \in {"idle", "message", "tail"}
      /\ message \in Nat /\ producer \in Nat /\ fed \in Nat /\ pending \in Nat /\ left \in Nat
      /\ cursor \in Nat /\ offset \in Nat /\ seen \in Nat
      /\ producer = cursor + pending /\ fed <= producer /\ position = cursor * (Unit + channel.drift)
      BY DEF Lockstep
<1>2. /\ channel.drift \in Int /\ Unit \in Nat \ {0} /\ Block \in Nat \ {0}
      /\ MaxTapDelta(channel) \in Nat
      BY <1>1, ExtentsAre, UnitIs
<1>3. CASE OnMessageStart
  <2>1. channel.mode = "replay" => offset' \in Nat
    <3>1. channel.mode = "replay" => Or(channel.replay.offset, 0) \in Nat
      <4>1. channel.mode = "replay" => channel.replay.offset \in {Absent} \union Nat
            BY <1>1, RenderingAssumption DEF Renderable
      <4> QED BY <4>1 DEF Or
    <3>2. channel.mode = "replay" => NextOffset \in Nat
          BY <1>1, <3>1 DEF NextOffset
    <3> QED BY <1>3, <3>2 DEF OnMessageStart
  <2>2. /\ channel' = channel /\ stage' = "message" /\ message' = message + 1 /\ producer' = 0
        /\ cursor' = 0 /\ position' = 0 /\ fed' = 0 /\ pending' = pending /\ left' = left
        /\ stage = "idle"
        /\ channel.mode = "replay" => seen' = 0 /\ resumed' = TRUE
        /\ channel.mode # "replay" => offset' = offset /\ seen' = seen
        BY <1>3 DEF OnMessageStart, Seen
  <2>3. pending = 0 /\ 0 * (Unit + channel.drift) = 0
        BY <1>2, <2>2 DEF Lockstep
  <2> QED BY <1>1, <2>1, <2>2, <2>3, UnitIs DEF Lockstep
<1>4. CASE Process
  <2>1. PICK n \in Nat \ {0} : /\ producer' = producer + n /\ pending' = n /\ pending = 0
                               /\ n <= MaxBatch /\ fed' = fed + n
        BY <1>4, Writes DEF Process, DrainTail
  <2>2. /\ stage = "message" /\ stage' = stage
        /\ UNCHANGED <<channel, message, left, cursor, position, offset, seen, resumed>>
        BY <1>4 DEF Process
  <2> QED BY <1>1, <2>1, <2>2 DEF Lockstep
<1>5. CASE Produce
  <2>1. PICK n : n = Least(Block, pending)
        OBVIOUS
  <2>2. n \in Nat \ {0} /\ n <= pending /\ n <= Block /\ (n # pending => n = Block)
        BY <1>1, <1>2, <1>5, <2>1 DEF Produce, Least
  <2>3. /\ pending' = pending - n /\ cursor' = cursor + n
        /\ position' = position + n * (Unit + channel.drift)
        /\ seen' = (IF channel.mode = "replay" THEN Most(seen, cursor + n) ELSE seen)
        /\ stage' = (IF stage = "tail" /\ left = 0 /\ pending = n THEN "idle" ELSE stage)
        /\ UNCHANGED <<channel, message, fed, left, offset, resumed, producer>>
        BY <1>5, <2>1 DEF Produce
  <2>4. position' = cursor' * (Unit + channel.drift)
    <3> DEFINE v == Unit + channel.drift
    <3>1. v \in Int
          BY <1>2
    <3> HIDE DEF v
    <3>2. cursor * v + n * v = (cursor + n) * v
          BY <1>1, <2>2, <3>1
    <3> QED BY <1>1, <2>3, <3>2 DEF v
  <2>5. seen' \in Nat /\ (channel.mode = "replay" => seen' = cursor')
        BY <1>1, <2>2, <2>3 DEF Lockstep, Most
  <2>6. pending' \in Nat /\ cursor' \in Nat /\ producer' = cursor' + pending' /\ stage # "idle"
        BY <1>1, <2>2, <2>3 DEF Lockstep
  <2>7. stage' = "idle" => pending' = 0 /\ (fed' > 0 => cursor' = fed' + MaxTapDelta(channel'))
    <3>1. stage' = "idle" => stage = "tail" /\ left = 0 /\ pending = n
          BY <2>3, <2>6
    <3>2. stage = "tail" => producer + left = fed + MaxTapDelta(channel)
          BY DEF Lockstep
    <3>3. fed' = fed /\ channel' = channel /\ pending' = pending - n /\ cursor' = cursor + n
          BY <2>3
    <3>4. pending = n => pending' = 0 /\ cursor' = producer
          BY <1>1, <2>2, <3>3
    <3> QED BY <1>1, <1>2, <3>1, <3>2, <3>3, <3>4
  <2>8. stage' = "message" => producer' = fed' /\ pending' <= MaxBatch
    <3>1. stage' = "message" => stage = "message"
          BY <2>3
    <3> QED BY <1>1, <2>2, <2>3, <3>1, UnitIs DEF Lockstep
  <2>9. stage' = "tail" => producer' + left' = fed' + MaxTapDelta(channel') /\ pending' <= Block
    <3>1. stage' = "tail" => stage = "tail"
          BY <2>3
    <3> QED BY <1>1, <1>2, <2>2, <2>3, <3>1 DEF Lockstep
  <2>10. stage' \in {"idle", "message", "tail"}
         BY <1>1, <2>3
  <2>11. channel.mode = "replay" /\ message > 0 => resumed
         BY DEF Lockstep
  <2> QED BY <1>1, <2>3, <2>4, <2>5, <2>6, <2>7, <2>8, <2>9, <2>10, <2>11 DEF Lockstep
<1>6. CASE OnMessageEnd
      BY <1>1, <1>2, <1>6 DEF OnMessageEnd, Lockstep, TailLength
<1>7. CASE DrainTail
  <2>1. PICK n \in Nat \ {0} : /\ producer' = producer + n /\ pending' = n /\ pending = 0
                               /\ n <= left /\ n <= Block /\ left' = left - n
        BY <1>7, Writes DEF Process, DrainTail
  <2>2. /\ stage = "tail" /\ stage' = stage
        /\ UNCHANGED <<channel, message, fed, cursor, position, offset, seen, resumed>>
        BY <1>7 DEF DrainTail
  <2> QED BY <1>1, <1>2, <2>1, <2>2 DEF Lockstep
<1>8. CASE UNCHANGED renderVars
      BY <1>8 DEF renderVars, Lockstep
<1> QED BY <1>3, <1>4, <1>5, <1>6, <1>7, <1>8 DEF RenderNext

\* A tap's delay is a whole number, and the taps are the same at all times.
LEMMA TapsAre ==
  ASSUME ScenarioAssumption, RenderingAssumption, channel \in RenderedChannels,
         offset \in Nat, NEW t \in Nat, NEW u \in Nat
  PROVE  DOMAIN TapsAt(t) = DOMAIN TapsAt(u)
         /\ \A tap \in DOMAIN TapsAt(t) : TapsAt(t)[tap].delay \in Int
<1>1. PICK s \in Nat : Steady(channel, s)
      BY SteadyAtAll
<1>2. \A tap \in DOMAIN TapsAt(t) : TapsAt(t)[tap].delay \in Int
      BY <1>1, DelaysBelow
<1>3. DOMAIN TapsAt(t) = DOMAIN TapsAt(u)
      BY DEF TapsAt
<1> QED BY <1>2, <1>3

\* Where the reads of a block start and end, tap by tap.
LEMMA BlockIs ==
  ASSUME ScenarioAssumption, RenderingAssumption, Lockstep, NEW n \in Nat
  PROVE  LET first == TapsAt(cursor)  last == TapsAt(cursor + n)
             next == position + n * (Unit + channel.drift)
         IN /\ Rendered(n).starts = [tap \in DOMAIN first |->
                                       <<position - first[tap].delay, first[tap].gain>>]
            /\ Rendered(n).ends = [tap \in DOMAIN last |-> <<next - last[tap].delay, last[tap].gain>>]
            /\ Rendered(n).written = producer
            /\ Rendered(n).reads =
                 UNION { {<<tap, x, At(line, x)>> :
                            x \in ReadsOf(position - first[tap].delay, next - last[tap].delay, n)}
                         : tap \in DOMAIN first }
<1> DEFINE first == TapsAt(cursor)  last == TapsAt(cursor + n)
           next == position + n * (Unit + channel.drift)
           to(tap) == position + n * Unit - EndDelay(last[tap], n)
<1>1. /\ cursor \in Nat /\ cursor + n \in Nat /\ offset \in Nat /\ channel \in RenderedChannels
      /\ Unit \in Int /\ channel.drift \in Int
      BY UnitIs, ExtentsAre DEF Lockstep
<1>2. position \in Int
      BY <1>1 DEF Lockstep
<1>3. DOMAIN first = DOMAIN last /\ \A tap \in DOMAIN last : last[tap].delay \in Int
      BY <1>1, TapsAre
<1>4. ASSUME NEW tap \in DOMAIN first PROVE to(tap) = next - last[tap].delay
  <2> DEFINE d == last[tap].delay
  <2>1. d \in Int
        BY <1>3
  <2>2. to(tap) = position + n * Unit - (d - n * channel.drift)
        BY DEF EndDelay
  <2> HIDE DEF d
  <2>3. position + n * Unit - (d - n * channel.drift) = next - d
        BY <1>1, <1>2, <2>1
  <2> QED BY <2>2, <2>3 DEF d
<1>5. Rendered(n) = [starts |-> [tap \in DOMAIN first |-> <<position - first[tap].delay, first[tap].gain>>],
                     ends   |-> [tap \in DOMAIN first |-> <<to(tap), last[tap].gain>>],
                     written |-> producer,
                     reads  |-> UNION { {<<tap, x, At(line, x)>> :
                                            x \in ReadsOf(position - first[tap].delay, to(tap), n)}
                                         : tap \in DOMAIN first }]
      BY DEF Rendered
<1> HIDE DEF first, last, next, to
<1>6. [tap \in DOMAIN first |-> <<to(tap), last[tap].gain>>]
        = [tap \in DOMAIN last |-> <<next - last[tap].delay, last[tap].gain>>]
      BY <1>3, <1>4
<1>7. { {<<tap, x, At(line, x)>> : x \in ReadsOf(position - first[tap].delay, to(tap), n)}
          : tap \in DOMAIN first }
      = { {<<tap, x, At(line, x)>> :
             x \in ReadsOf(position - first[tap].delay, next - last[tap].delay, n)}
          : tap \in DOMAIN first }
      BY <1>4, Zenon
<1> QED BY <1>5, <1>6, <1>7 DEF first, last, next

LEMMA HereNext ==
  ASSUME ScenarioAssumption, RenderingAssumption, Lockstep, Here, [RenderNext]_renderVars
  PROVE  Here'
<1>1. CASE OnMessageStart
      BY <1>1 DEF OnMessageStart, Here
<1>2. CASE Produce
  <2>1. PICK n : n = Least(Block, pending)
        OBVIOUS
  <2>2. n \in Nat
        BY <2>1, UnitIs DEF Lockstep, Least
  <2>3. /\ block' = Rendered(n) /\ cursor' = cursor + n
        /\ position' = position + n * (Unit + channel.drift)
        /\ channel' = channel /\ offset' = offset
        BY <1>2, <2>1 DEF Produce
  <2>4. PICK c : c = cursor'
        OBVIOUS
  <2>5. TapsAt(cursor)' = TapsAt(c)
        BY <2>3, <2>4, TapsMove
  <2>6. block'.ends = [tap \in DOMAIN TapsAt(c) |->
                         <<position' - TapsAt(c)[tap].delay, TapsAt(c)[tap].gain>>]
        BY <2>2, <2>3, <2>4, BlockIs
  <2> QED BY <2>5, <2>6 DEF Here
<1>3. CASE UNCHANGED <<channel, offset, cursor, position, block>>
  <2>1. TapsAt(cursor)' = TapsAt(cursor)
        BY <1>3, TapsMove
  <2> QED BY <1>3, <2>1 DEF Here
<1>4. CASE UNCHANGED renderVars
      BY <1>3, <1>4 DEF renderVars
<1>5. CASE Process
      BY <1>3, <1>5 DEF Process
<1>6. CASE OnMessageEnd
      BY <1>3, <1>6 DEF OnMessageEnd
<1>7. CASE DrainTail
      BY <1>3, <1>7 DEF DrainTail
<1> QED BY <1>1, <1>2, <1>4, <1>5, <1>6, <1>7 DEF RenderNext

\* A block starts where the last one ended.
LEMMA JoinsNext ==
  ASSUME ScenarioAssumption, RenderingAssumption, Lockstep, Here, [RenderNext]_renderVars,
         cursor > 0, cursor' > cursor
  PROVE  block'.starts = block.ends
<1>1. Produce
  <2>1. cursor \in Nat /\ cursor' # cursor /\ cursor' # 0
        BY DEF Lockstep
  <2> QED BY <2>1 DEF RenderNext, OnMessageStart, Process, OnMessageEnd, DrainTail, renderVars
<1>2. PICK n : n = Least(Block, pending)
      OBVIOUS
<1>3. n \in Nat /\ block' = Rendered(n)
      BY <1>1, <1>2, UnitIs DEF Lockstep, Least, Produce
<1>4. block'.starts = [tap \in DOMAIN TapsAt(cursor) |->
                         <<position - TapsAt(cursor)[tap].delay, TapsAt(cursor)[tap].gain>>]
      BY <1>3, BlockIs
<1> QED BY <1>4 DEF Here

\* A message takes the record up where the last one left it.
LEMMA RecordGoes ==
  ASSUME ScenarioAssumption, RenderingAssumption, Lockstep, [RenderNext]_renderVars,
         message > 0, message' > message, channel.mode = "replay", channel.replay.advance
  PROVE  \/ offset' = offset + cursor /\ (Duration - offset' >= Or(channel.replay.wrap, 0)
                                          \/ Or(channel.replay.wrap, 0) = 0)
         \/ offset' = 0 /\ Duration - (offset + cursor) < Or(channel.replay.wrap, 0)
<1>1. OnMessageStart
  <2>1. message \in Nat /\ message' # message
        BY DEF Lockstep
  <2> QED BY <2>1 DEF RenderNext, Process, Produce, OnMessageEnd, DrainTail, renderVars
<1>2. offset' = NextOffset /\ seen = cursor /\ resumed /\ offset \in Nat /\ cursor \in Nat
      BY <1>1 DEF OnMessageStart, Lockstep
<1>3. Or(channel.replay.wrap, 0) \in Nat /\ Duration \in Int
  <2>1. Renderable(channel) /\ Dt \in Nat
        BY RenderingAssumption DEF Lockstep
  <2>2. Or(channel.replay.wrap, 0) \in Nat
        BY <2>1 DEF Renderable, Or
  <2>3. Trajectory.frames \in Nat
        BY <2>1 DEF Renderable, Trajectory
  <2>4. (Trajectory.frames - 1) * Dt \in Int
        BY <2>1, <2>3
  <2> QED BY <2>2, <2>4 DEF Duration
<1>4. NextOffset = IF Or(channel.replay.wrap, 0) > 0
                      /\ Duration - (offset + seen) < Or(channel.replay.wrap, 0)
                   THEN 0 ELSE offset + seen
  <2>1. resumed /\ channel.replay.advance
        BY <1>2
  <2> DEFINE onward == IF resumed THEN offset + seen ELSE Or(channel.replay.offset, 0)
  <2>2. onward = offset + seen
        BY <2>1
  <2>3. NextOffset = IF ~channel.replay.advance THEN Or(channel.replay.offset, 0)
                     ELSE IF Or(channel.replay.wrap, 0) > 0
                             /\ Duration - onward < channel.replay.wrap
                          THEN 0 ELSE onward
        BY DEF NextOffset
  <2> HIDE DEF onward
  <2>4. Or(channel.replay.wrap, 0) > 0 => Or(channel.replay.wrap, 0) = channel.replay.wrap
        BY DEF Or
  <2> QED BY <2>1, <2>2, <2>3, <2>4
<1> DEFINE wrap == Or(channel.replay.wrap, 0)
<1> HIDE DEF wrap
<1>5. CASE wrap > 0 /\ Duration - (offset + cursor) < wrap
      BY <1>2, <1>4, <1>5 DEF wrap
<1>6. CASE ~(wrap > 0 /\ Duration - (offset + cursor) < wrap)
  <2>1. offset' = offset + cursor
        BY <1>2, <1>4, <1>6 DEF wrap
  <2>2. Duration - offset' >= wrap \/ wrap = 0
        BY <1>2, <1>3, <1>6, <2>1 DEF wrap
  <2> QED BY <2>1, <2>2 DEF wrap
<1> QED BY <1>5, <1>6 DEF wrap

LEMMA Floored ==
  ASSUME NEW p \in Int, NEW q \in Nat \ {0}, NEW b \in Int
  PROVE  /\ p \div q \in Int
         /\ q * b <= p => b <= p \div q
         /\ q * b < p /\ p % q = 0 => b < p \div q
<1> DEFINE d == p \div q
<1>1. d \in Int /\ q * d <= p /\ p < q * d + q /\ (p % q = 0 => p = q * d)
      OBVIOUS
<1> HIDE DEF d
<1>2. ASSUME d < b PROVE p < q * b
  <2>1. q * (d + 1) <= q * b /\ q * (d + 1) = q * d + q
    <3>1. d + 1 \in Int /\ d + 1 <= b
          BY <1>1, <1>2
    <3> QED BY <1>1, <3>1, Products
  <2> DEFINE x == q * d  y == q * b
  <2>2. x \in Int /\ y \in Int
        BY <1>1
  <2> HIDE DEF x, y
  <2>3. p < x + q /\ x + q <= y
        BY <1>1, <2>1 DEF x, y
  <2>4. p < y
        BY <2>2, <2>3
  <2> QED BY <2>4 DEF y
<1>3. q * b \in Int
      OBVIOUS
<1>4. q * b <= p => b <= d
      BY <1>1, <1>2, <1>3
<1>5. q * b < p /\ p % q = 0 => b < d
  <2>1. CASE b = d
        BY <1>1, <1>3, <2>1
  <2>2. CASE b # d
        BY <1>1, <1>4, <1>3, <2>2
  <2> QED BY <2>1, <2>2
<1> QED BY <1>1, <1>4, <1>5 DEF d

\* The last read of a block gets as far as its end but for a sample.
LEMMA ReadsReach ==
  ASSUME RenderingAssumption, NEW from \in Int, NEW to \in Int, NEW n \in Nat \ {0},
         NEW a \in Int, (n * Unit) * (a - 1) < from + (n - 1) * to
  PROVE  \E x \in ReadsOf(from, to, n) : x \in Int /\ a <= x
<1> DEFINE p == n * from + (n - 1) * (to - from)  q == n * Unit
<1>1. Unit \in Nat \ {0}
      BY UnitIs
<1>2. p \in Int /\ p = from + (n - 1) * to
      OBVIOUS
<1>3. q \in Nat \ {0}
      BY <1>1
<1>4. Weighed(p \div q, p % q) \subseteq ReadsOf(from, to, n)
  <2>1. n - 1 \in 0..(n - 1)
        OBVIOUS
  <2> QED BY <2>1 DEF ReadsOf
<1>5. q * (a - 1) < p
      BY <1>2
<1> HIDE DEF p, q
<1> DEFINE whole == p \div q
<1>6. /\ whole \in Int /\ a - 1 <= whole /\ (p % q = 0 => a - 1 < whole)
  <2>1. q * (a - 1) \in Int
        BY <1>3
  <2>2. q * (a - 1) <= p
        BY <1>2, <1>5, <2>1
  <2> DEFINE b == a - 1
  <2>3. b \in Int /\ q * b <= p /\ q * b < p /\ p \in Int
        BY <1>2, <1>5, <2>2
  <2> HIDE DEF b, whole
  <2>4. whole \in Int /\ b <= whole /\ (p % q = 0 => b < whole)
        BY <1>3, <2>3, Floored DEF whole
  <2> QED BY <2>4 DEF b
<1> HIDE DEF whole
<1>7. CASE p % q = 0
  <2>1. whole \in Weighed(whole, p % q) /\ a <= whole
        BY <1>6, <1>7 DEF Weighed
  <2> QED BY <1>4, <1>6, <2>1 DEF whole
<1>8. CASE p % q # 0
  <2>1. whole + 1 \in Weighed(whole, p % q) /\ whole + 1 \in Int /\ a <= whole + 1
        BY <1>6, <1>8 DEF Weighed
  <2> QED BY <1>4, <2>1 DEF whole
<1> QED BY <1>7, <1>8

\* No read of a block is more than a sample before both its ends.
LEMMA ReadsFrom ==
  ASSUME RenderingAssumption, NEW from \in Int, NEW to \in Int, NEW n \in Nat \ {0},
         NEW b \in Int, b * Unit <= from, b * Unit <= to
  PROVE  \A x \in ReadsOf(from, to, n) : x \in Int /\ b - 1 <= x
<1>1. Unit \in Nat \ {0} /\ n * Unit \in Nat \ {0}
  <2>1. Unit \in Nat \ {0}
        BY UnitIs
  <2> QED BY <2>1
<1>2. SUFFICES ASSUME NEW i \in 0..(n - 1), NEW p, p = n * from + i * (to - from),
                      NEW x \in Weighed(p \div (n * Unit), p % (n * Unit))
               PROVE  x \in Int /\ b - 1 <= x
      BY DEF ReadsOf
<1> DEFINE q == n * Unit
<1>3. p \in Int /\ q * b <= p
  <2> DEFINE c == b * Unit
  <2>1. c \in Int /\ c <= from /\ c <= to
        BY <1>1
  <2>2. q * b = n * c
        BY <1>1
  <2> HIDE DEF c
  <2>3. n - i \in Nat /\ i \in Nat
        BY <1>2
  <2>4. /\ (n - i) * c <= (n - i) * from /\ (n - i) * c \in Int /\ (n - i) * from \in Int
        BY <2>1, <2>3, Products
  <2>5. i * c <= i * to /\ i * c \in Int /\ i * to \in Int
        BY <2>1, <2>3, Products
  <2>6. (n - i) * c + i * c = n * c /\ (n - i) * from + i * to = n * from + i * (to - from)
        BY <2>1, <2>3
  <2> DEFINE u == (n - i) * c  v == (n - i) * from  w == i * c  z == i * to
  <2>7. u + w <= v + z /\ v + z \in Int
    <3>1. u \in Int /\ v \in Int /\ w \in Int /\ z \in Int /\ u <= v /\ w <= z
          BY <2>4, <2>5
    <3> HIDE DEF u, v, w, z
    <3> QED BY <3>1
  <2> QED BY <1>2, <2>2, <2>6, <2>7
<1>4. q \in Nat \ {0}
      BY <1>1
<1> HIDE DEF q
<1>5. p \div q \in Int /\ b <= p \div q
      BY <1>3, <1>4, Floored
<1> DEFINE whole == p \div q  fraction == p % q
<1>6. x \in Weighed(whole, fraction)
      BY <1>2 DEF q
<1> HIDE DEF whole, fraction
<1>7. whole \in Int /\ b <= whole
      BY <1>5 DEF whole
<1>8. x \in {whole} \union ((whole - 1)..(whole + 2))
      BY <1>6 DEF Weighed
<1> QED BY <1>7, <1>8

\* Reads that start and end less than D + 1 samples behind a clock that is not the slower one.
LEMMA LagsBehind ==
  ASSUME NEW c \in Nat, NEW n \in Nat \ {0}, NEW one \in Nat \ {0}, NEW dr \in Nat, NEW D \in Nat,
         NEW d \in Int, d < (D + 1) * one, NEW e \in Int, e < (D + 1) * one
  PROVE  LET from == c * (one + dr) - d
             to == (c * (one + dr) + n * (one + dr)) - e
         IN /\ from \in Int /\ to \in Int
            /\ (n * one) * ((c + n - 1 - D) - 1) < from + (n - 1) * to
<1> DEFINE from == c * (one + dr) - d
           to == (c * (one + dr) + n * (one + dr)) - e
           b == c - D - 1
<1>1. from \in Int /\ to \in Int /\ b \in Int
      OBVIOUS
<1>2. c * dr \in Nat /\ n * dr \in Nat
  <2>1. c * dr \in Nat
        OBVIOUS
  <2>2. n * dr \in Nat
        OBVIOUS
  <2> QED BY <2>1, <2>2
<1>3. c * (one + dr) = c * one + c * dr /\ n * (one + dr) = n * one + n * dr
      OBVIOUS
<1>4. b * one = c * one - (D + 1) * one /\ (b + n) * one = c * one + n * one - (D + 1) * one
      OBVIOUS
<1>5. b * one < from /\ (b + n) * one <= to
  <2> DEFINE x == c * one  y == n * one  z == (D + 1) * one  u == c * dr  v == n * dr
  <2>1. x \in Int /\ y \in Int /\ z \in Int /\ u \in Nat /\ v \in Nat /\ d < z /\ e < z
        BY <1>2
  <2>2. from = x + u - d /\ to = x + u + (y + v) - e
        BY <1>3
  <2>3. b * one = x - z /\ (b + n) * one = x + y - z
        BY <1>4
  <2> HIDE DEF x, y, z, u, v, from, to, b
  <2> QED BY <2>1, <2>2, <2>3
<1> HIDE DEF from, to
<1>6. (n - 1) * ((b + n) * one) <= (n - 1) * to
  <2> DEFINE x == (b + n) * one
  <2>1. x \in Int /\ n - 1 \in Nat /\ x <= to
        BY <1>1, <1>5
  <2> HIDE DEF x
  <2>2. (n - 1) * x <= (n - 1) * to
        BY <1>1, <2>1, Products
  <2> QED BY <2>2 DEF x
<1>7. (n * one) * ((c + n - 1 - D) - 1) = b * one + (n - 1) * ((b + n) * one)
      OBVIOUS
<1>8. b * one + (n - 1) * ((b + n) * one) < from + (n - 1) * to
  <2> DEFINE x == b * one  y == (n - 1) * ((b + n) * one)  z == (n - 1) * to
  <2>1. x \in Int /\ y \in Int /\ z \in Int /\ x < from /\ y <= z
        BY <1>1, <1>5, <1>6
  <2> HIDE DEF x, y, z
  <2>2. x + y < from + z
        BY <1>1, <2>1
  <2> QED BY <2>2 DEF x, y, z
<1> QED BY <1>1, <1>7, <1>8 DEF from, to

\* A block reads up to where its slowest tap has come.
LEMMA ReachedNext ==
  ASSUME ScenarioAssumption, RenderingAssumption, Lockstep, Reached, Steady(channel, 7),
         [RenderNext]_renderVars
  PROVE  Reached'
<1>1. CASE OnMessageStart
      BY <1>1 DEF OnMessageStart, Reached
<1>2. CASE Produce
  <2>1. PICK n : n = Least(Block, pending)
        OBVIOUS
  <2>2. n \in Nat \ {0}
        BY <1>2, <2>1, UnitIs DEF Lockstep, Least, Produce
  <2>3. /\ block' = Rendered(n) /\ cursor' = cursor + n /\ channel' = channel
        BY <1>2, <2>1 DEF Produce
  <2> DEFINE first == TapsAt(cursor)  last == TapsAt(cursor + n)  D == MaxTapDelta(channel)
             speed == Unit + channel.drift
             from(tap) == position - first[tap].delay
             to(tap) == (position + n * speed) - last[tap].delay
  <2>31. /\ Rendered(n).ends = [j \in DOMAIN last |->
                                  <<(position + n * speed) - last[j].delay, last[j].gain>>]
         /\ Rendered(n).reads = UNION { {<<j, x, At(line, x)>> : x \in ReadsOf(from(j), to(j), n)}
                                        : j \in DOMAIN first }
    <3>1. n \in Nat
          BY <2>2
    <3> QED BY <3>1, BlockIs
  <2>4. SUFFICES ASSUME channel'.drift >= 0, NEW tap \in DOMAIN block'.ends
                 PROVE  \E r \in block'.reads : r[1] = tap /\ r[2] >= cursor' - 1 - MaxTapDelta(channel')
        BY Zenon DEF Reached
  <2>5. /\ cursor \in Nat /\ offset \in Nat /\ channel \in RenderedChannels /\ D \in Nat
        /\ position = cursor * speed /\ channel.drift \in Nat /\ Unit \in Nat \ {0}
        /\ cursor + n \in Nat
        BY <2>2, <2>3, <2>4, UnitIs, ExtentsAre DEF Lockstep
  <2>6. /\ tap \in DOMAIN first /\ tap \in DOMAIN last
        /\ {<<tap, x, At(line, x)>> : x \in ReadsOf(from(tap), to(tap), n)} \subseteq block'.reads
    <3>1. /\ block'.ends = [j \in DOMAIN last |-> <<(position + n * speed) - last[j].delay, last[j].gain>>]
          /\ block'.reads = UNION { {<<j, x, At(line, x)>> : x \in ReadsOf(from(j), to(j), n)}
                                    : j \in DOMAIN first }
      <4> HIDE DEF first, last, from, to, speed
      <4> QED BY <2>3, <2>31
    <3>2. DOMAIN first = DOMAIN last
          BY <2>5, TapsAre
    <3> HIDE DEF first, last, from, to
    <3>3. tap \in DOMAIN last
          BY <2>4, <3>1
    <3> QED BY <3>1, <3>2, <3>3
  <2>7. /\ first[tap].delay \in Int /\ first[tap].delay < (D + 1) * Unit
        /\ last[tap].delay \in Int /\ last[tap].delay < (D + 1) * Unit
        BY <2>5, <2>6, DelaysBelow
  <2>8. /\ from(tap) \in Int /\ to(tap) \in Int
        /\ (n * Unit) * ((cursor + n - 1 - D) - 1) < from(tap) + (n - 1) * to(tap)
    <3> DEFINE d == first[tap].delay  e == last[tap].delay  dr == channel.drift
    <3> HIDE DEF d, e, dr, D, first, last
    <3>1. /\ d \in Int /\ d < (D + 1) * Unit /\ e \in Int /\ e < (D + 1) * Unit
          /\ dr \in Nat
          BY <2>5, <2>7 DEF d, e, dr
    <3>2. from(tap) = cursor * (Unit + dr) - d /\ to(tap) = (cursor * (Unit + dr) + n * (Unit + dr)) - e
          BY <2>5 DEF d, e, dr
    <3> HIDE DEF from, to
    <3> QED BY <2>2, <2>5, <3>1, <3>2, LagsBehind
  <2> DEFINE a == cursor + n - 1 - D
  <2>9. \E x \in ReadsOf(from(tap), to(tap), n) : x \in Int /\ a <= x
    <3>1. a \in Int
          BY <2>2, <2>5
    <3> HIDE DEF a, from, to
    <3>2. (n * Unit) * (a - 1) < from(tap) + (n - 1) * to(tap)
          BY <2>8 DEF a
    <3> QED BY <2>2, <2>8, <3>1, <3>2, ReadsReach
  <2> HIDE DEF from, to
  <2>10. PICK x \in ReadsOf(from(tap), to(tap), n) : x \in Int /\ a <= x
         BY <2>9
  <2> DEFINE r == <<tap, x, At(line, x)>>
  <2>11. r \in block'.reads /\ r[1] = tap /\ r[2] = x
         BY <2>6, <2>10
  <2>12. r[2] >= cursor' - 1 - MaxTapDelta(channel')
         BY <2>2, <2>3, <2>5, <2>10, <2>11
  <2> QED BY <2>11, <2>12
<1>3. CASE UNCHANGED <<channel, cursor, block>>
      BY <1>3 DEF Reached
<1>4. CASE UNCHANGED renderVars
      BY <1>3, <1>4 DEF renderVars
<1>5. CASE Process
      BY <1>3, <1>5 DEF Process
<1>6. CASE OnMessageEnd
      BY <1>3, <1>6 DEF OnMessageEnd
<1>7. CASE DrainTail
      BY <1>3, <1>7 DEF DrainTail
<1> QED BY <1>1, <1>2, <1>4, <1>5, <1>6, <1>7 DEF RenderNext

\* Numbers closer together than the ring is long do not share a slot.
LEMMA SlotsDiffer ==
  ASSUME NEW m \in Nat \ {0}, NEW x \in Int, NEW y \in Int, x < y, y - x < m
  PROVE  x % m # y % m
<1> SUFFICES ASSUME x % m = y % m PROVE FALSE
    OBVIOUS
<1> DEFINE q == x \div m  r == y \div m  a == x % m
<1>1. q \in Int /\ r \in Int /\ a \in Int /\ x = m * q + a /\ y = m * r + a
      OBVIOUS
<1> HIDE DEF q, r, a
<1> DEFINE e == r - q
<1>2. e \in Int /\ y - x = m * e
      BY <1>1
<1> HIDE DEF e
<1>3. CASE e <= 0
  <2>1. m * e <= m * 0
        BY <1>2, <1>3, Products
  <2> QED BY <1>2, <2>1
<1>4. CASE 1 <= e
  <2>1. m * 1 <= m * e
        BY <1>2, <1>4, Products
  <2> QED BY <1>2, <2>1
<1> QED BY <1>2, <1>3, <1>4

LEMMA SlotIs ==
  ASSUME NEW m \in Nat \ {0}, NEW x \in Int
  PROVE  x % m \in 0..(m - 1)
OBVIOUS

\* What is written goes into the slots after the last ones, and into no others in the window.
LEMMA WriteFills ==
  ASSUME NEW m \in Nat \ {0}, Capacity = m, producer \in Nat, DOMAIN line = 0..(m - 1),
         NEW n \in Nat \ {0}, n <= m, NEW in, DOMAIN in = 1..n, Write(in)
  PROVE  /\ DOMAIN line' = DOMAIN line
         /\ \A x \in (producer + n - m)..(producer + n - 1) :
              line'[x % m] = IF x >= producer THEN in[x - producer + 1] ELSE line[x % m]
<1> DEFINE slot(i) == (producer + i - 1) % m
<1>1. line' = [x \in DOMAIN line |->
                 IF \E i \in DOMAIN in : slot(i) = x
                 THEN in[CHOOSE i \in DOMAIN in : slot(i) = x] ELSE line[x]]
      BY DEF Write
<1>2. ASSUME NEW x \in Int, NEW i \in 1..n, producer + n - m <= x, x <= producer + n - 1,
             slot(i) = x % m
      PROVE  i = x - producer + 1
  <2> DEFINE y == producer + i - 1
  <2>1. y \in Int /\ producer <= y /\ y <= producer + n - 1
        OBVIOUS
  <2>2. y % m = x % m
        BY <1>2
  <2> HIDE DEF y
  <2>3. ~(x < y)
    <3>1. SUFFICES ASSUME x < y PROVE FALSE
          OBVIOUS
    <3>2. y - x < m
          BY <1>2, <2>1
    <3> QED BY <2>1, <2>2, <3>1, <3>2, SlotsDiffer
  <2>4. ~(y < x)
    <3>1. SUFFICES ASSUME y < x PROVE FALSE
          OBVIOUS
    <3>2. x - y < m
          BY <1>2, <2>1
    <3> QED BY <2>1, <2>2, <3>1, <3>2, SlotsDiffer
  <2>5. x = y
        BY <2>1, <2>3, <2>4
  <2> QED BY <2>5 DEF y
<1>3. SUFFICES ASSUME NEW x \in (producer + n - m)..(producer + n - 1)
               PROVE  line'[x % m] = IF x >= producer THEN in[x - producer + 1] ELSE line[x % m]
      BY <1>1
<1>4. x \in Int /\ producer + n - m <= x /\ x <= producer + n - 1
      BY <1>3
<1>5. x % m \in DOMAIN line
      BY <1>4, SlotIs
<1>6. CASE x >= producer
  <2> DEFINE i == x - producer + 1
  <2>1. i \in 1..n /\ producer + i - 1 = x
        BY <1>4, <1>6
  <2>2. i \in DOMAIN in /\ slot(i) = x % m
        BY <2>1
  <2>3. \A l \in DOMAIN in : slot(l) = x % m => l = i
        BY <1>2, <1>4
  <2> HIDE DEF i, slot
  <2>4. (CHOOSE l \in DOMAIN in : slot(l) = x % m) = i
        BY <2>2, <2>3, Zenon
  <2> QED BY <1>1, <1>5, <1>6, <2>2, <2>4 DEF i
<1>7. CASE ~(x >= producer)
  <2>1. ~\E l \in DOMAIN in : slot(l) = x % m
    <3>1. SUFFICES ASSUME NEW l \in DOMAIN in, slot(l) = x % m PROVE FALSE
          OBVIOUS
    <3>2. l = x - producer + 1 /\ l \in 1..n
          BY <1>2, <1>4, <3>1
    <3> QED BY <1>4, <1>7, <3>2
  <2> HIDE DEF slot
  <2> QED BY <1>1, <1>5, <1>7, <2>1
<1> QED BY <1>6, <1>7

\* A batch, or a block of the tail, fits into the ring.
LEMMA BatchFits ==
  ASSUME ScenarioAssumption, RenderingAssumption, channel \in RenderedChannels,
         MarginHolds(channel)
  PROVE  MaxBatch <= Capacity /\ Block <= Capacity
<1>1. /\ MaxBatch \in Nat /\ Block \in Nat /\ WorstExcess \in Nat /\ Capacity \in Nat
      /\ WorstExcess + Margin <= Capacity /\ Margin \in Nat
      BY UnitIs, ExtentsAre, CapacityIs
<1>2. Margin >= 5 + Block
  <2>1. PICK d \in Nat : Margin = 5 + d + Block
        BY CapacityIs
  <2> QED BY <1>1, <2>1
<1>3. MaxBatch <= Block + 4
  <2>1. PICK j \in 0..4 : MaxBatch + j <= Block + 4
        BY DEF MarginHolds
  <2> QED BY <1>1, <2>1
<1> QED BY <1>1, <1>2, <1>3

LEMMA FilledNext ==
  ASSUME ScenarioAssumption, RenderingAssumption, Lockstep, Filled, MarginHolds(channel),
         [RenderNext]_renderVars
  PROVE  Filled'
<1>1. PICK m : m = Capacity
      OBVIOUS
<1>2. /\ channel \in RenderedChannels /\ producer \in Nat /\ fed \in Nat /\ fed <= producer
      /\ m \in Nat \ {0} /\ MaxBatch <= m /\ Block <= m
      BY <1>1, CapacityIs, BatchFits DEF Lockstep
<1>3. channel' = channel
      BY DEF RenderNext, OnMessageStart, Process, Produce, OnMessageEnd, DrainTail, renderVars
<1>4. Capacity' = m
      BY <1>1, <1>3, SizesKept
<1>5. /\ DOMAIN line = 0..(m - 1)
      /\ \A x \in (producer - m)..(producer - 1) :
           line[x % m] = IF x \in 0..(fed - 1) THEN <<message, x>> ELSE Silence
      BY <1>1 DEF Filled, At
<1>6. SUFFICES /\ DOMAIN line' = 0..(m - 1)
               /\ \A x \in (producer' - m)..(producer' - 1) :
                    line'[x % m] = IF x \in 0..(fed' - 1) THEN <<message', x>> ELSE Silence
      BY <1>4 DEF Filled, At, Silence
<1>7. CASE OnMessageStart
  <2>1. line' = [x \in DOMAIN line |-> Silence] /\ producer' = 0 /\ fed' = 0
        BY <1>7 DEF OnMessageStart, Clear
  <2>2. ASSUME NEW x \in (0 - m)..(0 - 1)
        PROVE  x % m \in DOMAIN line /\ x \notin 0..(0 - 1)
    <3>1. x \in Int
          BY <2>2
    <3>2. x % m \in 0..(m - 1)
          BY <1>2, <3>1, SlotIs
    <3>3. x \notin 0..(0 - 1)
          BY <3>1
    <3> QED BY <1>5, <3>2, <3>3
  <2> QED BY <1>5, <2>1, <2>2
<1>8. CASE Process \/ DrainTail
  <2>0. PICK n \in Nat \ {0} :
               \E in : /\ Write(in) /\ DOMAIN in = 1..n /\ producer' = producer + n
                       /\ \/ /\ Process /\ n <= MaxBatch /\ fed' = fed + n
                             /\ in = [i \in 1..n |-> <<message, producer + i - 1>>]
                          \/ /\ DrainTail /\ n <= Block /\ in = [i \in 1..n |-> Silence]
        BY <1>8, Writes
  <2>1. PICK in :
               /\ Write(in) /\ DOMAIN in = 1..n /\ producer' = producer + n
               /\ \/ /\ Process /\ n <= MaxBatch /\ fed' = fed + n
                     /\ in = [i \in 1..n |-> <<message, producer + i - 1>>]
                  \/ /\ DrainTail /\ n <= Block /\ in = [i \in 1..n |-> Silence]
        BY <2>0
  <2>2. n <= m
        BY <1>2, <2>1, UnitIs
  <2>3. /\ DOMAIN line' = DOMAIN line
        /\ \A x \in (producer + n - m)..(producer + n - 1) :
             line'[x % m] = IF x >= producer THEN in[x - producer + 1] ELSE line[x % m]
        BY <1>1, <1>2, <1>5, <2>1, <2>2, WriteFills
  <2>4. ASSUME NEW x \in (producer' - m)..(producer' - 1)
        PROVE  line'[x % m] = IF x \in 0..(fed' - 1) THEN <<message', x>> ELSE Silence
    <3>1. x \in Int /\ producer + n - m <= x /\ x <= producer + n - 1
          BY <1>2, <2>1, <2>4
    <3>0. x \in (producer + n - m)..(producer + n - 1)
          BY <1>2, <2>1, <3>1
    <3>2. message' = message
          BY <1>8 DEF Process, DrainTail
    <3>3. CASE x >= producer
      <4>1. line'[x % m] = in[x - producer + 1]
            BY <2>3, <3>0, <3>3
      <4>2. x - producer + 1 \in 1..n /\ producer + (x - producer + 1) - 1 = x
            BY <1>2, <3>1, <3>3
      <4>3. CASE Process /\ fed' = fed + n /\ in = [i \in 1..n |-> <<message, producer + i - 1>>]
        <5>1. fed = producer
              BY <4>3 DEF Process, Lockstep
        <5>4. fed' = producer + n
              BY <4>3, <5>1
        <5>2. x \in 0..(fed' - 1)
              BY <1>2, <3>1, <3>3, <5>4
        <5>3. in[x - producer + 1] = <<message, producer + (x - producer + 1) - 1>>
              BY <4>2, <4>3
        <5> QED BY <3>2, <4>1, <4>2, <5>2, <5>3
      <4>4. CASE DrainTail /\ in = [i \in 1..n |-> Silence]
        <5>1. fed' = fed
              BY <4>4 DEF DrainTail
        <5>2. x \notin 0..(fed' - 1)
              BY <1>2, <3>1, <3>3, <5>1
        <5> QED BY <4>1, <4>2, <4>4, <5>2
      <4> QED BY <2>1, <4>3, <4>4
    <3>4. CASE ~(x >= producer)
      <4>1. line'[x % m] = line[x % m]
            BY <2>3, <3>0, <3>4
      <4>2. x \in (producer - m)..(producer - 1)
            BY <1>2, <2>0, <3>1, <3>4
      <4>3. x \in 0..(fed' - 1) <=> x \in 0..(fed - 1)
        <5>1. CASE Process /\ fed' = fed + n
          <6>1. fed = producer
                BY <5>1 DEF Process, Lockstep
          <6> QED BY <1>2, <3>1, <3>4, <5>1, <6>1
        <5>2. CASE DrainTail
              BY <5>2 DEF DrainTail
        <5> QED BY <2>1, <5>1, <5>2
      <4> QED BY <1>5, <3>2, <4>1, <4>2, <4>3
    <3> QED BY <3>3, <3>4
  <2> QED BY <1>5, <2>1, <2>3, <2>4
<1>9. CASE UNCHANGED <<line, producer, fed, message>>
      BY <1>5, <1>9
<1>10. CASE Produce
       BY <1>9, <1>10 DEF Produce
<1>11. CASE OnMessageEnd
       BY <1>9, <1>11 DEF OnMessageEnd
<1>12. CASE UNCHANGED renderVars
       BY <1>9, <1>12 DEF renderVars
<1> QED BY <1>7, <1>8, <1>10, <1>11, <1>12 DEF RenderNext

LEMMA UpToIs ==
  ASSUME NEW a \in Nat, NEW q \in Nat \ {0}
  PROVE  UpTo(a, q) \in Nat /\ a <= q * UpTo(a, q)
<1>1. a + q - 1 \in Nat
      OBVIOUS
<1> DEFINE x == a + q - 1
<1>2. x \in Nat /\ UpTo(a, q) = x \div q
      BY <1>1 DEF UpTo
<1> HIDE DEF x
<1>3. x \div q \in Nat /\ x < q * (x \div q) + q /\ q * (x \div q) \in Nat
      BY <1>2
<1> DEFINE y == q * (x \div q)
<1>4. y \in Nat /\ x < y + q
      BY <1>3
<1> HIDE DEF y
<1>5. a <= y
      BY <1>4 DEF x
<1> QED BY <1>2, <1>3, <1>5 DEF y

\* A clock that has gained or lost no more than behind samples is at most that far behind.
LEMMA DriftBounds ==
  ASSUME NEW c \in Nat, NEW n \in Nat, NEW one \in Nat \ {0}, NEW dr \in Int, NEW behind \in Nat,
         (c + n) * Most(dr, -dr) <= one * behind
  PROVE  /\ (c - behind) * one <= c * (one + dr)
         /\ (c - behind) * one <= c * (one + dr) + n * (one + dr)
<1> DEFINE size == Most(dr, -dr)
<1>1. size \in Nat /\ -size <= dr
      BY DEF Most
<1>2. (c + n) * size <= one * behind
      OBVIOUS
<1> HIDE DEF size
<1>3. /\ c * (-size) <= c * dr /\ n * (-size) <= n * dr
      /\ c * dr \in Int /\ n * dr \in Int
      BY <1>1, Products
<1>4. c * size \in Nat /\ n * size \in Nat /\ one * behind \in Nat /\ c * one \in Nat /\ n * one \in Nat
      BY <1>1
<1>5. /\ c * (-size) = -(c * size) /\ n * (-size) = -(n * size)
      /\ (c + n) * size = c * size + n * size
      /\ c * (one + dr) = c * one + c * dr /\ n * (one + dr) = n * one + n * dr
      /\ (c - behind) * one = c * one - one * behind
      BY <1>1
<1> DEFINE u == c * size  v == n * size  w == one * behind  x == c * one  y == n * one
           p == c * dr  r == n * dr
<1>6. /\ u \in Nat /\ v \in Nat /\ w \in Nat /\ x \in Nat /\ y \in Nat /\ p \in Int /\ r \in Int
      /\ -u <= p /\ -v <= r /\ u + v <= w
      BY <1>2, <1>3, <1>4, <1>5
<1>7. /\ c * (one + dr) = x + p /\ c * (one + dr) + n * (one + dr) = x + p + (y + r)
      /\ (c - behind) * one = x - w
      BY <1>5
<1> HIDE DEF u, v, w, x, y, p, r
<1>8. x - w <= x + p /\ x - w <= x + p + (y + r)
      BY <1>6
<1> QED BY <1>7, <1>8

\* While the drift is within its margin a block reads nothing that has left the ring.
LEMMA ReadsAreKept ==
  ASSUME ScenarioAssumption, RenderingAssumption, Lockstep, MarginHolds(channel),
         stage # "idle", NEW n \in Nat \ {0},
         NEW behind \in Nat, (cursor + n) * Most(channel.drift, -channel.drift) <= Unit * behind,
         behind < Margin - Block - 4, NEW r \in Rendered(n).reads
  PROVE  r[2] \in Int /\ producer - Capacity <= r[2] /\ r[3] = At(line, r[2])
<1> DEFINE first == TapsAt(cursor)  last == TapsAt(cursor + n)  W == WorstExcess
           speed == Unit + channel.drift
           from(tap) == position - first[tap].delay
           to(tap) == (position + n * speed) - last[tap].delay
<1>1. /\ cursor \in Nat /\ offset \in Nat /\ channel \in RenderedChannels /\ W \in Nat
      /\ position = cursor * speed /\ channel.drift \in Int /\ Unit \in Nat \ {0}
      /\ cursor + n \in Nat /\ producer \in Nat /\ pending \in Nat /\ producer = cursor + pending
      /\ Block \in Nat /\ MaxBatch \in Nat
      BY UnitIs, ExtentsAre DEF Lockstep
<1>2. PICK j \in 0..4 : Steady(channel, 8 * j) /\ MaxBatch + j <= Block + 4
      BY DEF MarginHolds
<1>3. j + pending <= 4 + Block
  <2>1. pending <= MaxBatch \/ pending <= Block
        BY DEF Lockstep
  <2> QED BY <1>1, <1>2, <2>1
<1>4. PICK drifts \in Nat : Margin = 5 + drifts + Block
      BY <1>1, CapacityIs
<1>5. Capacity \in Nat /\ W + 5 + drifts + Block <= Capacity
  <2>1. W + Margin <= Capacity /\ Capacity \in Nat
        BY <1>1, CapacityIs
  <2> QED BY <1>1, <1>4, <2>1
<1>6. behind <= drifts
      BY <1>1, <1>4
<1>7. PICK tap \in DOMAIN first : \E x \in ReadsOf(from(tap), to(tap), n) : r = <<tap, x, At(line, x)>>
  <2>1. Rendered(n).reads = UNION { {<<tap, x, At(line, x)>> : x \in ReadsOf(from(tap), to(tap), n)}
                                    : tap \in DOMAIN first }
    <3>1. n \in Nat
          OBVIOUS
    <3> QED BY <3>1, BlockIs
  <2> HIDE DEF first, from, to
  <2> QED BY <2>1
<1>8. PICK x \in ReadsOf(from(tap), to(tap), n) : r = <<tap, x, At(line, x)>>
      BY <1>7
<1>9. /\ first[tap].delay \in Int /\ 8 * first[tap].delay <= (8 * W + 8 * j) * Unit
      /\ last[tap].delay \in Int /\ 8 * last[tap].delay <= (8 * W + 8 * j) * Unit
  <2>1. 8 * j \in Nat
        OBVIOUS
  <2>2. tap \in DOMAIN last
        BY <1>1, <1>7, TapsAre
  <2> QED BY <1>1, <1>2, <1>7, <2>1, <2>2, DelaysBelow
<1>10. first[tap].delay <= (W + j) * Unit /\ last[tap].delay <= (W + j) * Unit /\ (W + j) * Unit \in Int
  <2> DEFINE v == (W + j) * Unit  d == first[tap].delay  e == last[tap].delay
  <2>1. v \in Int /\ (8 * W + 8 * j) * Unit = 8 * v
        BY <1>1
  <2> HIDE DEF v, d, e
  <2>2. d \in Int /\ e \in Int /\ 8 * d <= 8 * v /\ 8 * e <= 8 * v
        BY <1>9, <2>1 DEF d, e
  <2>3. d <= v /\ e <= v
        BY <2>1, <2>2
  <2> QED BY <2>1, <2>3 DEF d, e, v
<1>11. (cursor - behind) * Unit <= position /\ (cursor - behind) * Unit <= position + n * speed
       BY <1>1, DriftBounds
<1> DEFINE b == cursor - behind - W - j
<1>12. b \in Int /\ b * Unit <= from(tap) /\ b * Unit <= to(tap) /\ from(tap) \in Int /\ to(tap) \in Int
  <2> DEFINE v == (W + j) * Unit  d == first[tap].delay  e == last[tap].delay  a == (cursor - behind) * Unit
             next == position + n * speed
  <2>1. b \in Int /\ b * Unit = a - v /\ a \in Int
        BY <1>1
  <2>2. position \in Int /\ next \in Int
        BY <1>1
  <2> HIDE DEF v, d, e, a, next, first, last, speed
  <2>3. d \in Int /\ e \in Int /\ d <= v /\ e <= v /\ v \in Int /\ a <= position /\ a <= next
        BY <1>9, <1>10, <1>11 DEF d, e, v, a, next
  <2>4. from(tap) = position - d /\ to(tap) = next - e
        BY DEF d, e, next
  <2> HIDE DEF from, to, b
  <2> QED BY <2>1, <2>2, <2>3, <2>4
<1>13. x \in Int /\ b - 1 <= x
  <2> HIDE DEF from, to, b
  <2> QED BY <1>8, <1>12, ReadsFrom
<1>14. producer - Capacity <= x
       BY <1>1, <1>3, <1>5, <1>6, <1>13
<1> QED BY <1>8, <1>13, <1>14

LEMMA IntactNext ==
  ASSUME ScenarioAssumption, RenderingAssumption, Lockstep, Filled, ReadsIntact,
         block.written \in 0..producer, MarginHolds(channel), [RenderNext]_renderVars
  PROVE  ReadsIntact' /\ block'.written \in 0..producer'
<1>1. /\ channel \in RenderedChannels /\ producer \in Nat /\ fed \in Nat /\ pending \in Nat
      /\ cursor \in Nat /\ channel.drift \in Int /\ Unit \in Nat \ {0} /\ Block \in Nat \ {0}
      BY UnitIs, ExtentsAre DEF Lockstep
<1>2. channel' = channel
      BY DEF RenderNext, OnMessageStart, Process, Produce, OnMessageEnd, DrainTail, renderVars
<1>3. Margin' = Margin
      BY <1>2, SizesKept
<1>4. CASE OnMessageStart
  <2>1. block' = Nothing /\ producer' = 0
        BY <1>4 DEF OnMessageStart
  <2>2. block'.reads = {} /\ block'.written = 0
        BY <2>1 DEF Nothing
  <2> QED BY <2>1, <2>2 DEF ReadsIntact
<1>5. CASE Produce
  <2>1. PICK n : n = Least(Block, pending)
        OBVIOUS
  <2>2. n \in Nat \ {0} /\ stage # "idle"
        BY <1>1, <1>5, <2>1 DEF Produce, Least, Lockstep
  <2>3. /\ block' = Rendered(n) /\ cursor' = cursor + n
        /\ UNCHANGED <<producer, fed, message>>
        BY <1>5, <2>1 DEF Produce
  <2>4. block'.written = producer
    <3>1. n \in Nat
          BY <2>2
    <3> QED BY <2>3, <3>1, BlockIs
  <2>5. PICK behind : behind = UpTo((cursor + n) * Most(channel.drift, -channel.drift), Unit)
        OBVIOUS
  <2>6. behind \in Nat /\ (cursor + n) * Most(channel.drift, -channel.drift) <= Unit * behind
    <3> DEFINE size == Most(channel.drift, -channel.drift)  a == (cursor + n) * size
    <3>1. size \in Nat
          BY <1>1 DEF Most
    <3> HIDE DEF size
    <3>2. a \in Nat
          BY <1>1, <2>2, <3>1
    <3> HIDE DEF a
    <3>3. UpTo(a, Unit) \in Nat /\ a <= Unit * UpTo(a, Unit)
          BY <1>1, <3>2, UpToIs
    <3> QED BY <2>5, <3>3 DEF a, size
  <2>7. Drifted' = behind
        BY <1>2, <2>3, <2>5 DEF Drifted
  <2>8. ASSUME behind < Margin - Block - 4, NEW r \in block'.reads, r[2] < block'.written
        PROVE  r[3] = (IF r[2] \in 0..(fed' - 1) THEN <<message', r[2]>> ELSE Silence)
    <3>1. r[2] \in Int /\ producer - Capacity <= r[2] /\ r[3] = At(line, r[2])
          BY <2>2, <2>3, <2>6, <2>8, ReadsAreKept
    <3>2. Capacity \in Nat
          BY <1>1, CapacityIs
    <3>3. r[2] \in (producer - Capacity)..(producer - 1)
          BY <1>1, <2>4, <2>8, <3>1, <3>2
    <3> QED BY <2>3, <3>1, <3>3 DEF Filled
  <2>9. ReadsIntact'
        BY <1>3, <2>7, <2>8 DEF ReadsIntact, Silence
  <2> QED BY <1>1, <2>3, <2>4, <2>9
<1>6. CASE UNCHANGED <<channel, cursor, block, message>> /\ producer' >= producer /\ producer' \in Nat
           /\ (fed' = fed \/ (fed' \in Nat /\ fed' >= fed /\ fed = producer))
  <2>1. Drifted' = Drifted
        BY <1>6 DEF Drifted
  <2>2. block'.written \in 0..producer'
        BY <1>1, <1>6
  <2>3. ASSUME NEW x, x < block.written
        PROVE  x \in 0..(fed' - 1) <=> x \in 0..(fed - 1)
        BY <1>1, <1>6, <2>3
  <2>4. ReadsIntact'
        BY <1>3, <1>6, <2>1, <2>3 DEF ReadsIntact, Silence
  <2> QED BY <2>2, <2>4
<1>7. CASE Process
  <2>1. PICK n \in Nat \ {0} : producer' = producer + n /\ fed' = fed + n
        BY <1>7, Writes DEF Process, DrainTail
  <2>2. fed = producer /\ UNCHANGED <<channel, cursor, block, message>>
        BY <1>7 DEF Process, Lockstep
  <2> QED BY <1>1, <1>6, <2>1, <2>2
<1>8. CASE DrainTail
  <2>1. PICK n \in Nat \ {0} : producer' = producer + n
        BY <1>8, Writes
  <2>2. UNCHANGED <<channel, cursor, block, message>> /\ fed' = fed
        BY <1>8 DEF DrainTail
  <2> QED BY <1>1, <1>6, <2>1, <2>2
<1>9. CASE OnMessageEnd
  <2>1. UNCHANGED <<channel, cursor, block, message>> /\ fed' = fed /\ producer' = producer
        BY <1>9 DEF OnMessageEnd
  <2> QED BY <1>1, <1>6, <2>1
<1>10. CASE UNCHANGED renderVars
  <2>1. UNCHANGED <<channel, cursor, block, message>> /\ fed' = fed /\ producer' = producer
        BY <1>10 DEF renderVars
  <2> QED BY <1>1, <1>6, <2>1
<1> QED BY <1>4, <1>5, <1>7, <1>8, <1>9, <1>10 DEF RenderNext

\* The invariant behind a moving channel's reads.
THEOREM RenderInvHolds == RenderSpec => []RenderInv
<1>1. RenderInit => RenderInv
  <2> SUFFICES ASSUME RenderInit PROVE RenderInv
      OBVIOUS
  <2>1. Lockstep
        BY LockstepInit, ScenarioAssumption, RenderingAssumption
  <2>2. Here /\ Reached
        BY DEF RenderInit, Here, Reached
  <2>3. Filled
    <3>1. PICK m : m = Capacity
          OBVIOUS
    <3>2. m \in Nat \ {0}
          BY <2>1, <3>1, CapacityIs, ScenarioAssumption, RenderingAssumption DEF Lockstep
    <3>3. line = [x \in 0..(m - 1) |-> Silence] /\ producer = 0 /\ fed = 0
          BY <3>1 DEF RenderInit
    <3>4. ASSUME NEW x \in (0 - m)..(0 - 1)
          PROVE  line[x % m] = Silence /\ x \notin 0..(0 - 1)
      <4>1. x \in Int
            BY <3>4
      <4>2. x % m \in 0..(m - 1)
            BY <3>2, <4>1, SlotIs
      <4>3. x \notin 0..(0 - 1)
            BY <4>1
      <4> QED BY <3>3, <4>2, <4>3
    <3> QED BY <3>1, <3>3, <3>4 DEF Filled, At
  <2>4. ReadsIntact /\ block.written \in 0..producer
    <3>1. block.reads = {} /\ block.written = 0 /\ producer = 0
          BY DEF RenderInit, Nothing
    <3> QED BY <3>1 DEF ReadsIntact
  <2> QED BY <2>1, <2>2, <2>3, <2>4 DEF RenderInv
<1>2. RenderInv /\ [RenderNext]_renderVars => RenderInv'
  <2> SUFFICES ASSUME RenderInv, [RenderNext]_renderVars PROVE RenderInv'
      OBVIOUS
  <2>1. Lockstep /\ Here
        BY DEF RenderInv
  <2>2. Lockstep' /\ Here'
        BY <2>1, LockstepNext, HereNext, ScenarioAssumption, RenderingAssumption
  <2>3. channel' = channel
        BY DEF RenderNext, OnMessageStart, Process, Produce, OnMessageEnd, DrainTail, renderVars
  <2>4. ASSUME Steady(channel, 7) PROVE Reached'
    <3>1. Reached
          BY <2>4 DEF RenderInv
    <3> QED BY <2>1, <2>4, <3>1, ReachedNext, ScenarioAssumption, RenderingAssumption
  <2>5. ASSUME MarginHolds(channel)
        PROVE  Filled' /\ ReadsIntact' /\ block'.written \in 0..producer'
    <3>1. Filled /\ ReadsIntact /\ block.written \in 0..producer
          BY <2>5 DEF RenderInv
    <3> QED BY <2>1, <2>5, <3>1, FilledNext, IntactNext, ScenarioAssumption, RenderingAssumption
  <2> QED BY <2>2, <2>3, <2>4, <2>5 DEF RenderInv
<1> QED BY <1>1, <1>2, PTL DEF RenderSpec

\* TapRendering's ReadsIntact: what a tap reads behind the producer is that very sample of
\* this message, or silence around it.  No slot of the delay line is overwritten before its
\* last tap has read it, and none holds a sample of an earlier message, while the accumulated
\* drift is within the margin.  MarginHolds bounds the channels: four samples of margin for
\* the interpolation's overshoot and for what a batch is longer than a block.
THEOREM ReadsAreIntact ==
  ASSUME \A c \in RenderedChannels : MarginHolds(c)
  PROVE  RenderSpec => []ReadsIntact
<1>1. RenderInv => ReadsIntact
      BY DEF RenderInv, Lockstep
<1> QED BY <1>1, RenderInvHolds, PTL

\* TapRendering's LastSampleHeard: once drain_tail has fed its max_tap_delta zeros every tap
\* has read the message's last sample, unless the receiver's clock is the faster one.
\* Steady(c, 7) keeps Catmull-Rom's overshoot below the sample that the tail has to spare.
THEOREM LastIsHeard ==
  ASSUME \A c \in RenderedChannels : Steady(c, 7)
  PROVE  RenderSpec => []LastSampleHeard
<1>1. ASSUME RenderInv, stage = "idle", fed > 0, channel.drift >= 0, NEW tap \in DOMAIN block.ends
      PROVE  \E r \in block.reads : r[1] = tap /\ r[2] >= fed - 1
  <2>1. Lockstep /\ Reached
        BY <1>1 DEF RenderInv, Lockstep
  <2>2. fed \in Nat /\ channel \in RenderedChannels /\ cursor = fed + MaxTapDelta(channel)
        BY <1>1, <2>1 DEF Lockstep
  <2>3. MaxTapDelta(channel) \in Nat
        BY <2>2, ExtentsAre, ScenarioAssumption, RenderingAssumption
  <2>4. cursor > 0 /\ cursor - 1 - MaxTapDelta(channel) = fed - 1
        BY <1>1, <2>2, <2>3
  <2> QED BY <1>1, <2>1, <2>4 DEF Reached
<1>2. RenderInv => LastSampleHeard
      BY <1>1 DEF LastSampleHeard
<1> QED BY <1>2, RenderInvHolds, PTL

\* TapRendering's Seamless: a block starts where the one before it ended, in every tap's read
\* position and gain, whatever the taps do and however the clocks drift.
THEOREM BlocksJoin == RenderSpec => Seamless
<1>1. RenderInv /\ [RenderNext]_renderVars
        => [(cursor > 0 /\ cursor' > cursor) => block'.starts = block.ends]_renderVars
      BY JoinsNext, ScenarioAssumption, RenderingAssumption DEF RenderInv
<1> QED BY <1>1, RenderInvHolds, PTL DEF RenderSpec, Seamless

\* TapRendering's RecordContinues: a message of an advancing replay takes the record up where
\* the last one left it after its drain, or at the record's beginning.
THEOREM RecordGoesOn == RenderSpec => RecordContinues
<1> DEFINE Continues ==
      (message > 0 /\ message' > message /\ channel.mode = "replay") =>
         \/ ~channel.replay.advance
         \/ offset' = offset + cursor /\ (Duration - offset' >= Or(channel.replay.wrap, 0)
                                          \/ Or(channel.replay.wrap, 0) = 0)
         \/ offset' = 0 /\ Duration - (offset + cursor) < Or(channel.replay.wrap, 0)
<1>1. RenderInv /\ [RenderNext]_renderVars => [Continues]_renderVars
  <2> SUFFICES ASSUME RenderInv, [RenderNext]_renderVars, channel.replay.advance,
                      message > 0, message' > message, channel.mode = "replay"
               PROVE  \/ offset' = offset + cursor
                           /\ (Duration - offset' >= Or(channel.replay.wrap, 0)
                               \/ Or(channel.replay.wrap, 0) = 0)
                      \/ offset' = 0 /\ Duration - (offset + cursor) < Or(channel.replay.wrap, 0)
      OBVIOUS
  <2>1. Lockstep
        BY DEF RenderInv
  <2> QED BY <2>1, RecordGoes, ScenarioAssumption, RenderingAssumption
<1> HIDE DEF Continues
<1>2. RenderSpec => [][Continues]_renderVars
      BY <1>1, RenderInvHolds, PTL DEF RenderSpec
<1> QED BY <1>2 DEF RecordContinues, Continues
=============================================================================
