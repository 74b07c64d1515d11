------------------------------ MODULE Bringup -------------------------------
(***************************************************************************)
(* Simulator::initialize and the wiring that follows it: the scenario is   *)
(* loaded, every modem is opened, drained, asked for its calibration and   *)
(* put in HIL mode, and the engine's graph is built from the channels.     *)
(* An exception inside discover_modems unwinds to `false`; one from the    *)
(* other steps reaches no handler, and std::terminate runs no destructor.  *)
(* Modem m is the m-th of the scenario.  The devices are the environment:  *)
(* they answer late or badly, or keep a session's leftovers.  Names that   *)
(* SimulatorLifecycle has too, for run, are prefixed.                      *)
(***************************************************************************)
EXTENDS Scenario

CONSTANTS
  Serials, Present,   \* usb_serials, and those with a device on the bus
  Documents,          \* the scenario files considered
  Leftovers,          \* what a session that crashed may leave in a control FIFO
  FifoSize,           \* packets a device queues before it waits
  MaxRetries,         \* MAX_RETRIES of Modem::calibrate
  MaxFaults           \* bounds the transfers that fail

ASSUME BringupAssumption ==
  /\ Present \subseteq Serials /\ {FifoSize, MaxRetries} \subseteq Nat \ {0}
  /\ \A d \in Documents : Sections(d) /\ Numbers(d)
  /\ MaxFaults \in Nat /\ Leftovers \subseteq Seq({"old_cal", "bad_cal", "status"})

VARIABLES
  phase,      \* where initialize is; "ready", "failed" (false) or "terminated"
  doc,        \* the scenario file
  modem, tries,   \* the modem being connected or wired; calibrate's attempt
  open,       \* modems whose transport is open
  cals,       \* the reply each connected modem was calibrated with
  graph,      \* what ChannelEngine's constructor and wire_modem_trackers made
  device,     \* per serial: claimed, in HIL mode, request pending, control FIFO
  touched,    \* serials opened in this run
  exitLost,   \* serials whose EXIT_HIL_MODE did not arrive
  undrained,  \* modems whose drain stopped before the FIFO was empty
  faults

bringupVars ==
  <<phase, doc, modem, tries, open, cals, graph, device, touched, exitLost, undrained, faults>>
links == <<device, touched, exitLost, undrained>>

Nobody == 0
Serial(m) == doc.modems[m].serial
Declared == DOMAIN doc.modems
Config == ScenarioConfig(doc)
Channels == DOMAIN doc.channels

BInit ==
  /\ phase = "load" /\ doc \in Documents /\ modem = 1 /\ tries = 0
  /\ open = {} /\ cals = <<>> /\ graph = Absent
  /\ device \in [Serials -> [held : {FALSE}, hil : {FALSE}, asked : {FALSE}, fifo : {<<>>}]
                            \union [held : {FALSE}, hil : {TRUE}, asked : {FALSE}, fifo : Leftovers]]
  /\ touched = {} /\ exitLost = {} /\ undrained = {} /\ faults = 0

Fault == faults < MaxFaults /\ faults' = faults + 1

-----------------------------------------------------------------------------
(* The host: load_scenario, discover_and_connect, build_channel_engine.    *)

\* load_scenario catches the loader's own error and no other.
Load ==
  /\ phase = "load"
  /\ phase' = CASE Verdict(doc) = "none" -> "open"
                [] Verdict(doc) = "load" -> "failed"
                [] OTHER -> "terminated"
  /\ UNCHANGED <<doc, modem, tries, open, cals, graph, links, faults>>

Throw == phase' = "unwind" /\ UNCHANGED <<doc, modem, tries, cals, graph>>

\* UsbTransport::open finds no such device, or cannot open or claim it.
OpenFails ==
  /\ phase = "open" /\ Throw /\ UNCHANGED <<open, links>>
  /\ \/ (Serial(modem) \notin Present \/ device[Serial(modem)].held) /\ UNCHANGED faults
     \/ Fault

\* Mutant: the control endpoint is not drained.
Drained_DataOnly(s, rest) == device[s].fifo
\* drain_in_endpoint: all of it, or what a failed read leaves.
Drained(s, rest) == rest

Open ==
  LET s == Serial(modem) IN
  /\ phase = "open" /\ s \in Present /\ ~device[s].held
  /\ \E n \in 0..Len(device[s].fifo) :
       LET rest == SubSeq(device[s].fifo, n + 1, Len(device[s].fifo)) IN
       /\ IF rest = <<>> THEN UNCHANGED <<undrained, faults>>
          ELSE Fault /\ undrained' = undrained \union {modem}
       /\ device' = [device EXCEPT ![s].held = TRUE, ![s].fifo = Drained(s, rest)]
  /\ open' = open \union {modem} /\ touched' = touched \union {s}
  /\ phase' = "request" /\ UNCHANGED <<doc, modem, tries, cals, graph, exitLost>>

\* A command is delivered or not; the send may be reported failed either way.
Commanded(s, field) == device' = [device EXCEPT ![s][field] = TRUE]

Request ==
  /\ phase = "request" /\ UNCHANGED <<open, touched, exitLost, undrained>>
  /\ \/ /\ Commanded(Serial(modem), "asked") /\ phase' = "await" /\ tries' = 0
        /\ UNCHANGED <<doc, modem, cals, graph, faults>>
     \/ Fault /\ Throw /\ (Commanded(Serial(modem), "asked") \/ UNCHANGED device)

\* Mutant: calibrate reads until a calibration arrives.
Exhausted_Never(n) == FALSE
Exhausted(n) == n = MaxRetries

\* recv_control and decode_calibration: other packets and values out of range are skipped.
Receive ==
  LET s == Serial(modem)  packet == Head(device[s].fifo) IN
  /\ phase = "await" /\ device[s].fifo # <<>>
  /\ device' = [device EXCEPT ![s].fifo = Tail(@)]
  /\ IF packet \in {"cal", "old_cal"}
     THEN cals' = Append(cals, packet) /\ phase' = "enter" /\ UNCHANGED tries
     ELSE /\ tries' = IF tries < MaxRetries THEN tries + 1 ELSE tries
          /\ UNCHANGED cals
          /\ phase' = IF Exhausted(tries + 1) THEN "unwind" ELSE phase
  /\ UNCHANGED <<doc, modem, open, graph, touched, exitLost, undrained, faults>>

\* Nothing arrives in CTRL_TIMEOUT_MS, or the transfer fails.
ReceiveFails ==
  /\ phase = "await" /\ Throw /\ UNCHANGED <<open, links>>
  /\ (device[Serial(modem)].fifo = <<>> /\ UNCHANGED faults) \/ Fault

Enter ==
  /\ phase = "enter" /\ UNCHANGED <<open, touched, exitLost, undrained>>
  /\ \/ /\ Commanded(Serial(modem), "hil") /\ modem' = modem + 1
        /\ phase' = IF modem = Len(doc.modems) THEN "build" ELSE "open"
        /\ UNCHANGED <<doc, tries, cals, graph, faults>>
     \/ Fault /\ Throw /\ (Commanded(Serial(modem), "hil") \/ UNCHANGED device)

\* Mutant: only the modems already in the vector are told to leave.
Leaves_Connected(m) == m < modem
\* ~Modem sends EXIT_HIL_MODE whenever its transport is open.
Leaves(m) == TRUE

\* The modem being connected is destroyed first, then the vector's, in order.
Unwind ==
  /\ phase = "unwind" /\ UNCHANGED <<doc, modem, tries, cals, graph, touched, undrained>>
  /\ IF open = {}
     THEN phase' = "failed" /\ UNCHANGED <<open, device, exitLost, faults>>
     ELSE LET m == IF modem \in open THEN modem ELSE Smallest(open)  s == Serial(m) IN
          /\ open' = open \ {m} /\ UNCHANGED phase
          /\ \/ /\ Leaves(m) /\ UNCHANGED <<exitLost, faults>>
                /\ device' = [device EXCEPT ![s].held = FALSE, ![s].hil = FALSE]
             \/ /\ ~Leaves(m) /\ UNCHANGED <<exitLost, faults>>
                /\ device' = [device EXCEPT ![s].held = FALSE]
             \/ /\ Fault /\ exitLost' = exitLost \union {s}
                /\ device' = [device EXCEPT ![s].held = FALSE]

\* Contexts are matched by serial; the first channel to a modem names its attenuation.
ModemId(m) == doc.modems[Smallest({i \in Declared : Serial(i) = Serial(m)})].id
Index(id) == Smallest({m \in Declared : ModemId(m) = id})
Canonical(id) ==
  LET own == {c \in Channels : doc.channels[c].to = id}
  IN IF own = {} THEN 1 ELSE Or(doc.channels[Smallest(own)].atten, 1)

\* The channels of C, in the order of the scenario.
Listed(C) ==
  CHOOSE s \in [1..Cardinality(C) -> C] :
    ToSet(s) = C /\ \A i, j \in DOMAIN s : i < j => s[i] < s[j]

\* A modem's outgoing and incoming lists, and where a channel is in its source's.
From(m) == Listed({c \in Channels : Index(doc.channels[c].from) = m})
Into(m) == Listed({c \in Channels : Index(doc.channels[c].to) = m})
Entry(c) ==
  LET src == Index(doc.channels[c].from)
  IN [source |-> src, at |-> CHOOSE i \in DOMAIN From(src) : From(src)[i] = c]

\* One PairBuffer per channel, in its source's and in its receiver's list.
Built ==
  [pads     |-> [c \in Channels |-> Or(doc.channels[c].atten, 1)],
   pad      |-> [m \in Declared |-> Canonical(ModemId(m))],
   outgoing |-> [m \in Declared |-> [i \in DOMAIN From(m) |->
                                     [pair |-> From(m)[i], tracker |-> Nobody]]],
   incoming |-> [m \in Declared |-> Into(m)],
   refs     |-> [m \in Declared |-> [i \in DOMAIN Into(m) |-> Entry(Into(m)[i])]],
   started  |-> [m \in Declared |-> Nobody]]

\* build_channel_engine: what a model's constructor throws is not caught.
Build ==
  /\ phase = "build" /\ modem' = 1
  /\ IF Buildable(doc) THEN phase' = "wire" /\ graph' = Built
     ELSE phase' = "terminated" /\ UNCHANGED graph
  /\ UNCHANGED <<doc, tries, open, cals, links, faults>>

\* Mutant: the receiver's own index for the source's.
EntryOf_Own(m, i) == [source |-> graph.refs[m][i].source, at |-> i]
EntryOf(m, i) == graph.refs[m][i]

\* wire_modem_trackers: a modem's estimator to its worker, its tracker to every entry that
\* feeds it.
Wire ==
  LET fed(src, at) ==
        \E i \in DOMAIN graph.refs[modem] : EntryOf(modem, i) = [source |-> src, at |-> at]
  IN /\ phase = "wire" /\ modem' = modem + 1
     /\ phase' = IF modem = Len(doc.modems) THEN "ready" ELSE phase
     /\ graph' = [graph EXCEPT
          !.started[modem] = IF graph.outgoing[modem] = <<>> THEN Nobody ELSE modem,
          !.outgoing = [src \in Declared |-> [at \in DOMAIN @[src] |->
             IF fed(src, at) THEN [@[src][at] EXCEPT !.tracker = modem] ELSE @[src][at]]]]
     /\ UNCHANGED <<doc, tries, open, cals, links, faults>>

Host == Load \/ OpenFails \/ Open \/ Request \/ Receive \/ ReceiveFails \/ Enter
        \/ Unwind \/ Build \/ Wire

-----------------------------------------------------------------------------
(* The devices.                                                            *)

Queues(s, packet, asked) ==
  /\ Len(device[s].fifo) < FifoSize
  /\ device' = [device EXCEPT ![s].fifo = Append(@, packet), ![s].asked = asked]
  /\ UNCHANGED <<phase, doc, modem, tries, open, cals, graph, touched, exitLost, undrained>>

\* A modem answers its calibration request, now and then out of range.
Answer(s) ==
  /\ device[s].asked
  /\ (Queues(s, "cal", FALSE) /\ UNCHANGED faults) \/ (Queues(s, "bad_cal", FALSE) /\ Fault)

\* Status packets come unasked, more of them from a modem left in HIL mode.
EmitStatus(s) ==
  /\ device[s].hil \/ device[s].asked
  /\ Queues(s, "status", device[s].asked) /\ UNCHANGED faults

Finished == phase \in {"ready", "failed", "terminated"}

\* Once all are connected nothing here reads their FIFOs.
Connecting == phase \in {"open", "request", "await", "enter"}

Devices == Connecting /\ \E s \in Present : Answer(s) \/ EmitStatus(s)

BNext == Host \/ Devices

BSpec == BInit /\ [][BNext]_bringupVars /\ WF_bringupVars(Host)

-----------------------------------------------------------------------------
(* Properties.                                                             *)

\* A failed initialize gives every device back, and leaves none that it opened in HIL
\* mode unless the EXIT_HIL_MODE itself was lost, wherever in the sequence it failed.
CleanFailure ==
  phase = "failed" => \A s \in Serials :
    ~device[s].held /\ (s \in touched \ exitLost => ~device[s].hil)

\* Unless the drain was cut short, a modem is calibrated with its answer to this run's
\* request, never with one a previous session left in the FIFO.
CalibrationIsOwn ==
  \A m \in DOMAIN cals : m \notin undrained => cals[m] = "cal"

\* The inductive invariant behind the two.
Packets == {"cal", "old_cal", "bad_cal", "status"}
Device == [held : BOOLEAN, hil : BOOLEAN, asked : BOOLEAN, fifo : Seq(Packets)]

\* Every variable the two depend on keeps its type.
ConnectTypeOK ==
  /\ phase \in {"load", "open", "request", "await", "enter", "build", "wire", "ready",
                "unwind", "failed", "terminated"}
  /\ modem \in Nat \ {0} /\ open \subseteq Nat /\ cals \in Seq({"cal", "old_cal"})
  /\ device \in [Serials -> Device] /\ touched \subseteq Serials

\* A device is claimed by one modem, whose transport is open; the one being connected is.
Claimed ==
  /\ \A m \in open : Serial(m) \in Serials /\ device[Serial(m)].held
  /\ \A s \in Serials : device[s].held => \E m \in open : Serial(m) = s
  /\ \A m, n \in open : Serial(m) = Serial(n) => m = n
  /\ phase \in {"request", "await", "enter"} => modem \in open
  /\ phase \in {"load", "failed"} => open = {}

\* A device opened in this run is let go out of HIL mode, or its EXIT_HIL_MODE is lost.
LeftHil == \A s \in touched \ exitLost : device[s].hil => device[s].held

\* One calibration for each modem passed, and no old one where the drain got to the end.
Passed ==
  /\ phase = "load" => modem = 1
  /\ phase \in {"load", "open", "request", "await"} => Len(cals) = modem - 1
  /\ phase = "enter" => Len(cals) = modem
  /\ phase \in {"request", "await"} /\ modem \notin undrained =>
       \A i \in DOMAIN device[Serial(modem)].fifo : device[Serial(modem)].fifo[i] # "old_cal"

ConnectInv == ConnectTypeOK /\ Claimed /\ LeftHil /\ Passed /\ CalibrationIsOwn

\* The document stays; what is not in order in it stops Load, or else Build.
Accepted ==
  /\ doc \in Documents
  /\ Connecting \/ phase \in {"build", "wire", "ready"} => Verdict(doc) = "none"
  /\ phase \in {"wire", "ready"} => Buildable(doc)

\* The transports of the modems passed are open, of all once the engine is built.
Opened ==
  /\ Connecting => modem \in Declared /\ 1..(modem - 1) \subseteq open
  /\ phase \in {"build", "wire", "ready"} => Declared \subseteq open

\* The graph with the first n modems wired: a channel's entry has the tracker of the modem
\* it leads to, if that is one of them.
TrackerOf(c, n) ==
  LET m == Index(doc.channels[c].to) IN IF m \in 1..n THEN m ELSE Nobody
WiredFirst(n) ==
  [pads |-> Built.pads, pad |-> Built.pad,
   outgoing |-> [m \in Declared |-> [i \in DOMAIN From(m) |->
                   [pair |-> From(m)[i], tracker |-> TrackerOf(From(m)[i], n)]]],
   incoming |-> Built.incoming, refs |-> Built.refs,
   started |-> [m \in Declared |-> IF m \in 1..n /\ From(m) # <<>> THEN m ELSE Nobody]]

\* The graph is the one built, with the modems passed wired.
Wired ==
  /\ phase = "wire" => modem \in Declared
  /\ phase = "ready" => modem = Len(doc.modems) + 1
  /\ phase \in {"wire", "ready"} => graph = WiredFirst(modem - 1)

GraphInv == Accepted /\ Opened /\ Wired

\* When initialize is done, the engine's indices follow the scenario's names: a channel's
\* buffer is filled by its `from` and played by its `to` modem, is paced by the tracker of
\* that receiver, and every source is aligned by its own estimator.
GraphFollowsScenario ==
  phase = "ready" => \A c \in Channels :
    LET channel == doc.channels[c] IN
    /\ \E m, n \in Declared :
         /\ doc.modems[m].id = channel.from /\ doc.modems[n].id = channel.to
         /\ Cardinality({i \in DOMAIN graph.outgoing[m] :
                           graph.outgoing[m][i] = [pair |-> c, tracker |-> n]}) = 1
         /\ c \in ToSet(graph.incoming[n]) /\ graph.started[m] = m
    /\ Cardinality({n \in Declared : c \in ToSet(graph.incoming[n])}) = 1

\* Every buffer of an accepted scenario holds a message of the declared duration behind its
\* base delay and its latest echo; a geometric scene keeps every echo within the extent it
\* reported, and behind its base delay, at all ranges of its envelope.
BufferHoldsMessage ==
  phase = "ready" => \A c \in Channels :
    LET channel == Config.channels[c] IN
    /\ PairCapacity(Config) >= BaseDelay(channel) + MaxTapDelta(channel) + Config.environment.duration
    /\ channel.mode = "geometric" =>
         \A range \in channel.geometry.rMin..channel.geometry.rMax :
           \A length \in PathLengths(channel.geometry, range) :
             Rounded(length - Anchor(channel), Speed(channel.speed)) \in 0..MaxTapDelta(channel)

\* initialize returns or dies: a modem that never answers, or answers anything else for
\* ever, does not hold the main thread.
InitializeReturns == <>Finished

\* What simulator.hpp promises of initialize: a fatal error returns false.
FatalErrorsReturnFalse == phase # "terminated"

\* What build_channel_engine says of rx_atten_idx: the first channel's value is used for
\* the receiver, also where a sibling disagrees.
AttenuationIsCanonical ==
  phase = "ready" => \A m \in Declared : \A c \in ToSet(graph.incoming[m]) :
    graph.pads[c] = graph.pad[m]
=============================================================================
