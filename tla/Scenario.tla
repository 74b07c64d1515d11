------------------------------ MODULE Scenario ------------------------------
(***************************************************************************)
(* What ScenarioLoader makes of a scenario file (config/scenario_loader.cpp)*)
(* and the sizes the engine derives from it.  A document is a record of    *)
(* sections: a key that is missing is Absent; `ill` is the set of the keys *)
(* of a section whose value yaml-cpp cannot convert ("rest": the keys that *)
(* are only converted and stored).  Lengths are whole metres, times samples*)
(***************************************************************************)
EXTENDS Integers, Sequences, FiniteSets, SequencesExt

CONSTANTS
  Absent,               \* a key the document does not have
  MaxModems, MaxTaps,   \* MAX_MODEMS, MAX_TAPS_PER_CHANNEL
  MaxTapDelay,          \* MAX_MULTIPATH_DELAY_S, in samples
  MaxImageOrder,        \* kMaxImageOrder
  DefaultRange, DefaultSpeed, DefaultDuration,   \* scenario.hpp
  SecondSamples         \* sample_rate, the floor of the worst extent

ASSUME ScenarioAssumption ==
  {MaxModems, MaxTaps, MaxTapDelay, MaxImageOrder, DefaultRange, DefaultSpeed,
   DefaultDuration, SecondSamples} \subseteq Nat \ {0}

Or(v, default) == IF v = Absent THEN default ELSE v
Biggest(S) == CHOOSE x \in S : \A y \in S : y <= x
Smallest(S) == CHOOSE x \in S : \A y \in S : x <= y

-----------------------------------------------------------------------------
(* parse: the checks in the order the loader makes them, each <<what is    *)
(* thrown, whether>>: "load" for the loader's own, "yaml" for a conversion.*)

Refuse(p) == <<"load", p>>
Reads(section, key) == <<"yaml", key \in section.ill>>
Lacks(section, key) == Refuse(section[key] = Absent)

HeadChecks(d) == << Refuse(~d.map), Lacks(d, "name"), Reads(d, "name"), Reads(d, "rest") >>

EnvironmentChecks(e) ==
  << Reads(e, "rest"), Refuse(e.centerFreq # Absent), Reads(e, "duration"),
     Refuse(Or(e.duration, 1) <= 0) >>

OneTransducer(t) ==
  << Reads(t, "id"), Refuse(~t.map), Lacks(t, "tvr"), Lacks(t, "rvr"), Reads(t, "rest") >>
TransducerChecks(d) ==
  << Refuse(~d.library) >>
  \o FlattenSeq([i \in DOMAIN d.transducers |-> OneTransducer(d.transducers[i])])

Ids(section) == {section[i].id : i \in DOMAIN section}

\* No modems, no channels: a missing, an empty or a misshapen section.
OneModem(d, i) ==
  LET m == d.modems[i] IN
  << Lacks(m, "id"), Lacks(m, "serial"), Reads(m, "id"),
     Refuse(\E j \in 1..(i - 1) : d.modems[j].id = m.id), Lacks(m, "transducer"),
     Refuse(m.transducer \notin Ids(d.transducers)), Reads(m, "rest"),
     Refuse(Or(m.tolerance, 0) < 0) >>
ModemChecks(d) ==
  << Refuse(d.modems = <<>>), Refuse(Len(d.modems) > MaxModems) >>
  \o FlattenSeq([i \in DOMAIN d.modems |-> OneModem(d, i)])

\* R_0: initial_range_m when provided, else range_m.
StartRange(c) == IF Or(c.initial, -1) > 0 THEN c.initial ELSE Or(c.range, DefaultRange)

\* The range envelope of a scene; its defaults bracket R_0.
Scene(c) ==
  [c.geometry EXCEPT !.rMin = IF Or(@, -1) <= 0 THEN StartRange(c) \div 2 ELSE @,
                     !.rMax = IF Or(@, -1) <= 0 THEN StartRange(c) * 2 ELSE @]

SceneChecks(c) ==
  LET g == Scene(c) IN
  << Reads(g, "rest"), Refuse(g.bounces \notin 0..MaxImageOrder), Refuse(g.water <= 0),
     Refuse(g.source \notin 1..(g.water - 1)), Refuse(g.receiver \notin 1..(g.water - 1)),
     Refuse(g.exponent <= 0), Refuse(~(g.rMin < StartRange(c) /\ StartRange(c) < g.rMax)) >>
GeometryChecks(c) ==
  IF c.mode # "geometric" THEN <<>>
  ELSE << Lacks(c, "geometry"), Refuse(c.taps # Absent) >>
       \o (IF c.geometry = Absent THEN <<>> ELSE SceneChecks(c))

\* read_and_validate_header; a file that is not there is no .octt either.
HeaderValid(f) ==
  f # Absent => /\ f.octt /\ f.taps \in 1..MaxTaps /\ f.frames >= 2
                /\ f.maxDelay \in 0..MaxTapDelay

RecordChecks(r) ==
  << Lacks(r, "file"), Reads(r, "file"), Reads(r, "offset"), Refuse(Or(r.offset, 0) < 0),
     Reads(r, "rest"), Refuse(Or(r.wrap, 0) < 0), Refuse(~HeaderValid(r.file)) >>
ReplayChecks(c) ==
  IF c.mode # "replay" THEN <<>>
  ELSE << Lacks(c, "replay"), Refuse(c.taps # Absent), Refuse(c.geometry # Absent),
          Refuse(c.initial # Absent) >>
       \o (IF c.replay = Absent THEN <<>> ELSE RecordChecks(c.replay))

\* Motion comes from the record; a static channel must be left a ray.
StaticChecks(c) ==
  IF c.taps = Absent THEN << Refuse(~c.los) >>
  ELSE << Refuse(Len(c.taps) > MaxTaps), Reads(c, "taps"),
          Refuse(\E i \in DOMAIN c.taps : c.taps[i] \notin 0..MaxTapDelay),
          Refuse(~c.los /\ \E i \in DOMAIN c.taps : c.taps[i] = 0) >>
TapChecks(d, c) ==
  << Refuse(c.mode = "replay" /\ \E i \in DOMAIN d.modems :
              d.modems[i].id = c.from /\ Or(d.modems[i].motion, 0) # 0) >>
  \o (IF c.mode # "static" THEN <<>> ELSE StaticChecks(c))

LinkChecks(d, c) ==
  << Lacks(c, "from"), Lacks(c, "to"), Refuse(c.from \notin Ids(d.modems)),
     Refuse(c.to \notin Ids(d.modems)), Reads(c, "range"), Refuse(Or(c.range, 1) <= 0),
     Reads(c, "atten"), Refuse(Or(c.atten, 1) \notin 0..1), Reads(c, "delay"),
     Refuse(Or(c.delay, 0) < 0), Reads(c, "initial"), Refuse(Or(c.initial, 1) <= 0),
     Reads(c, "rest"), Refuse(c.mode \notin {"static", "geometric", "replay"}) >>
OneChannel(d, c) ==
  LinkChecks(d, c) \o GeometryChecks(c) \o ReplayChecks(c) \o TapChecks(d, c)
ChannelChecks(d) ==
  << Refuse(d.channels = <<>>) >>
  \o FlattenSeq([i \in DOMAIN d.channels |-> OneChannel(d, d.channels[i])])

NoiseChecks(n) == << Reads(n, "rest"), Refuse(n.level # Absent), Reads(n, "disable") >>

\* A section that is missing is an empty sequence.
Sections(d) ==
  /\ d.modems \in Seq(ToSet(d.modems)) /\ d.channels \in Seq(ToSet(d.channels))
  /\ d.transducers \in Seq(ToSet(d.transducers))

\* What converts to a number is one, and a geometry has all its fields.
Numbers(d) ==
  LET number == {Absent} \union Int
      e == d.environment
  IN /\ {e.speed, e.maxRange, e.duration} \subseteq number
     /\ \A i \in DOMAIN d.channels : LET c == d.channels[i] IN
          /\ {c.range, c.delay, c.initial} \subseteq number
          /\ c.taps = Absent \/ c.taps \in Seq(Int)
          /\ c.geometry = Absent \/ c.geometry \in
               [bounces : Int, water : Int, source : Int, receiver : Int, exponent : Int,
                rMin : number, rMax : number, ill : SUBSET {"rest"},
                enabled : SUBSET {"direct", "surface", "bottom", "surface_bottom",
                                  "bottom_surface"}]

\* load: the file is read and parsed, then checked section by section.
Checks(d) ==
  << Refuse(~d.parses) >> \o HeadChecks(d) \o EnvironmentChecks(d.environment)
  \o TransducerChecks(d) \o ModemChecks(d) \o ChannelChecks(d) \o NoiseChecks(d.noise)
  \o << Reads(d, "logging") >>

\* What load throws: the first check that fails; "none" if the document is accepted.
Verdict(d) ==
  LET checks == Checks(d)
      failed == {i \in DOMAIN checks : checks[i][2]}
  IN IF failed = {} THEN "none" ELSE checks[Smallest(failed)][1]

-----------------------------------------------------------------------------
(* The configuration: defaults filled in, environment and modem inherited. *)

EnvironmentConfig(e) ==
  [speed |-> Or(e.speed, DefaultSpeed), maxRange |-> Or(e.maxRange, 0),
   duration |-> Or(e.duration, DefaultDuration)]

\* taps: StaticRenderer's; an empty list means the direct path.
ChannelConfig(d, c) ==
  [from |-> c.from, to |-> c.to, mode |-> c.mode, range |-> Or(c.range, DefaultRange),
   delay |-> Or(c.delay, -1), atten |-> Or(c.atten, 1),
   speed |-> EnvironmentConfig(d.environment).speed,
   taps |-> IF Or(c.taps, <<>>) = <<>> THEN <<0>> ELSE c.taps, start |-> StartRange(c),
   geometry |-> IF c.mode = "geometric" THEN Scene(c) ELSE Absent, replay |-> c.replay]

ScenarioConfig(d) ==
  [modems |-> d.modems,
   channels |-> [i \in DOMAIN d.channels |-> ChannelConfig(d, d.channels[i])],
   environment |-> EnvironmentConfig(d.environment)]

-----------------------------------------------------------------------------
(* Extents.                                                                *)

Speed(v) == IF v > 0 THEN v ELSE DefaultSpeed
Rounded(a, b) == (2 * a + b) \div (2 * b)
Root(n) == CHOOSE k \in 0..n : k * k <= n /\ n < (k + 1) * (k + 1)

\* Image-method arrivals: reflection order, vertical offset and enable flag.
Candidates(g) ==
  LET s == g.source  r == g.receiver  w == g.water IN
  { <<0, s - r, "direct" \in g.enabled>>, <<1, s + r, "surface" \in g.enabled>>,
    <<1, 2*w - s - r, "bottom" \in g.enabled>>,
    <<2, 2*w - s + r, "surface_bottom" \in g.enabled>>,
    <<2, 2*w + s - r, "bottom_surface" \in g.enabled>>,
    <<3, 2*w + s + r, TRUE>>, <<3, 4*w - s - r, TRUE>>,
    <<4, 4*w + s - r, TRUE>>, <<4, 4*w - s + r, TRUE>> }

\* compute_paths: the lengths of the enabled paths at range R.
PathLengths(g, R) ==
  { Root(R * R + p[2] * p[2]) : p \in {q \in Candidates(g) : q[1] <= g.bounces /\ q[3]} }

\* propagation_delay_s overrides the range, for the models that take a bulk delay.
BulkDelay(c) == IF c.delay >= 0 THEN c.delay ELSE Rounded(c.range, Speed(c.speed))

\* Mutant: anchored where the message starts.
Anchor_Start(c) == Smallest(PathLengths(c.geometry, c.start))
\* The shortest path at the near end of the envelope.
Anchor(c) == Smallest(PathLengths(c.geometry, c.geometry.rMin))

BaseDelay(c) ==
  IF c.mode = "geometric" THEN Rounded(Anchor(c), Speed(c.speed)) ELSE BulkDelay(c)

MaxTapDelta(c) ==
  CASE c.mode = "static" -> Biggest(ToSet(c.taps))
    [] c.mode = "replay" -> c.replay.file.maxDelay
    [] OTHER -> Rounded(Biggest({0, Biggest(PathLengths(c.geometry, c.geometry.rMax)) - Anchor(c)}),
                        Speed(c.speed))

\* TapTrajectory::load: a record for every tap and frame, none of them negative,
\* and the header's maximum theirs.
RecordsValid(f) ==
  /\ HeaderValid(f) /\ Len(f.delays) = f.taps * f.frames
  /\ ToSet(f.delays) \subseteq Nat /\ Biggest(ToSet(f.delays)) = f.maxDelay

\* What make_renderer throws on: a scene without a path, an unreadable trajectory.
CannotBuild(c) ==
  \/ c.mode = "geometric" /\ PathLengths(c.geometry, c.geometry.rMin) = {}
  \/ c.mode = "replay" /\ ~RecordsValid(c.replay.file)

\* The engine's constructor makes every channel's renderer.
Buildable(d) == \A i \in DOMAIN d.channels : ~CannotBuild(ChannelConfig(d, d.channels[i]))

WriteExtent(c) == BaseDelay(c) + MaxTapDelta(c)

WorstExtent(cfg) == Biggest({WriteExtent(cfg.channels[i]) : i \in DOMAIN cfg.channels})

\* pair_capacity_for_extent: the environment's floor, and a whole message in flight.
PairCapacity(cfg) ==
  LET declared == IF cfg.environment.maxRange > 0
                  THEN Rounded(cfg.environment.maxRange, Speed(cfg.environment.speed)) + MaxTapDelay ELSE 0
      worst    == Biggest({WorstExtent(cfg), declared})
  IN (IF worst = 0 THEN SecondSamples ELSE worst) + cfg.environment.duration
=============================================================================
