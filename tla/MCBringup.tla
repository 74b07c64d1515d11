----------------------------- MODULE MCBringup ------------------------------
(***************************************************************************)
(* Instances of Bringup: a handful of sound scenarios, and every way of    *)
(* spoiling one of them that the loader tells apart.                       *)
(***************************************************************************)
EXTENDS Bringup

Modem(id, serial) ==
  [id |-> id, serial |-> serial, transducer |-> 1, tolerance |-> Absent,
   motion |-> Absent, ill |-> {}]

Static(from, to) ==
  [from |-> from, to |-> to, range |-> 6, atten |-> Absent, los |-> TRUE, delay |-> Absent,
   initial |-> Absent, mode |-> "static", geometry |-> Absent, replay |-> Absent,
   taps |-> Absent, ill |-> {}]

Pool ==
  [bounces |-> 2, water |-> 5, source |-> 2, receiver |-> 3, exponent |-> 1,
   rMin |-> Absent, rMax |-> Absent, enabled |-> {"direct", "surface", "bottom"}, ill |-> {}]
Geometric(from, to) == [Static(from, to) EXCEPT !.mode = "geometric", !.geometry = Pool]

Track == [octt |-> TRUE, taps |-> 1, frames |-> 2, maxDelay |-> 3, delays |-> <<1, 3>>]
Replay(from, to) ==
  [Static(from, to) EXCEPT !.mode = "replay", !.replay =
     [file |-> Track, offset |-> Absent, wrap |-> Absent, ill |-> {}]]

Base ==
  [parses |-> TRUE, map |-> TRUE, name |-> 1, logging |-> 1, ill |-> {}, library |-> TRUE,
   environment |-> [speed |-> 1, centerFreq |-> Absent, maxRange |-> Absent,
                    duration |-> 4, ill |-> {}],
   transducers |-> <<[id |-> 1, map |-> TRUE, tvr |-> 1, rvr |-> 1, ill |-> {}]>>,
   modems |-> <<Modem(1, "s1"), Modem(2, "s2")>>,
   channels |-> <<Static(1, 2), Static(2, 1)>>,
   noise |-> [level |-> Absent, ill |-> {}]]
Single == [Base EXCEPT !.modems = <<Modem(1, "s1")>>, !.channels = <<Static(1, 1)>>]

With(channels) == [Base EXCEPT !.channels = channels]
Alone(c) == [Single EXCEPT !.channels = <<c>>]

Sound == {
  Base, Single,
  With(<<Static(1, 2), Static(1, 1), Static(2, 1), Static(2, 2)>>),
  With(<<[Static(1, 2) EXCEPT !.taps = <<0, 2>>, !.delay = 9], Geometric(2, 1)>>),
  With(<<Replay(2, 1), [Geometric(1, 2) EXCEPT !.initial = 9]>>),
  [With(<<Static(2, 1)>>) EXCEPT !.environment.maxRange = 20, !.environment.speed = 0] }

\* The second modem is not on the bus, or is the first one again.
Unreachable == {
  [Base EXCEPT !.modems = <<Modem(1, "s1"), Modem(2, "s3")>>],
  [Base EXCEPT !.modems = <<Modem(1, "s1"), Modem(2, "s1")>>] }

Refused ==
  { [Single EXCEPT !.parses = FALSE], [Single EXCEPT !.map = FALSE],
    [Single EXCEPT !.name = Absent], [Single EXCEPT !.library = FALSE],
    [Single EXCEPT !.environment.centerFreq = 1], [Single EXCEPT !.environment.duration = 0],
    [Single EXCEPT !.transducers[1].map = FALSE], [Single EXCEPT !.transducers[1].tvr = Absent],
    [Single EXCEPT !.transducers[1].rvr = Absent],
    [Single EXCEPT !.modems = <<>>], [Base EXCEPT !.modems = @ \o @],
    [Single EXCEPT !.modems[1].id = Absent], [Single EXCEPT !.modems[1].serial = Absent],
    [Single EXCEPT !.modems[1].transducer = Absent], [Single EXCEPT !.modems[1].transducer = 9],
    [Single EXCEPT !.modems[1].tolerance = -1], [Base EXCEPT !.modems[2].id = 1],
    [Single EXCEPT !.channels = <<>>], [Single EXCEPT !.noise.level = 1],
    [Alone(Replay(1, 1)) EXCEPT !.modems[1].motion = 1] }
  \union
  { Alone(c) : c \in {
    [Static(1, 1) EXCEPT !.from = Absent], [Static(1, 1) EXCEPT !.to = Absent],
    [Static(1, 1) EXCEPT !.from = 9], [Static(1, 1) EXCEPT !.to = 9],
    [Static(1, 1) EXCEPT !.range = 0], [Static(1, 1) EXCEPT !.atten = 2],
    [Static(1, 1) EXCEPT !.delay = -1], [Static(1, 1) EXCEPT !.initial = 0],
    [Static(1, 1) EXCEPT !.mode = "ray"], [Static(1, 1) EXCEPT !.los = FALSE],
    [Static(1, 1) EXCEPT !.taps = <<0, 1, 2, 3>>], [Static(1, 1) EXCEPT !.taps = <<99>>],
    [Static(1, 1) EXCEPT !.los = FALSE, !.taps = <<0>>],
    [Geometric(1, 1) EXCEPT !.geometry = Absent], [Geometric(1, 1) EXCEPT !.taps = <<1>>],
    [Geometric(1, 1) EXCEPT !.geometry.bounces = 5], [Geometric(1, 1) EXCEPT !.geometry.water = 0],
    [Geometric(1, 1) EXCEPT !.geometry.source = 5],
    [Geometric(1, 1) EXCEPT !.geometry.receiver = 0],
    [Geometric(1, 1) EXCEPT !.geometry.exponent = 0],
    [Geometric(1, 1) EXCEPT !.geometry.rMin = 7],
    [Replay(1, 1) EXCEPT !.replay = Absent], [Replay(1, 1) EXCEPT !.taps = <<1>>],
    [Replay(1, 1) EXCEPT !.geometry = Pool], [Replay(1, 1) EXCEPT !.initial = 7],
    [Replay(1, 1) EXCEPT !.replay.file = Absent], [Replay(1, 1) EXCEPT !.replay.offset = -1],
    [Replay(1, 1) EXCEPT !.replay.wrap = -1], [Replay(1, 1) EXCEPT !.replay.file.octt = FALSE],
    [Replay(1, 1) EXCEPT !.replay.file.maxDelay = 99] } }

\* Accepted or half read, and then thrown on.
Fatal ==
  { [Single EXCEPT !.ill = {"name"}], [Single EXCEPT !.ill = {"logging"}],
    [Single EXCEPT !.noise.ill = {"disable"}], [Single EXCEPT !.environment.ill = {"duration"}],
    [Single EXCEPT !.modems[1].ill = {"id"}], [Single EXCEPT !.transducers[1].ill = {"rest"}] }
  \union
  { Alone(c) : c \in {
    [Static(1, 1) EXCEPT !.ill = {"range"}],
    [Geometric(1, 1) EXCEPT !.geometry.enabled = {}, !.geometry.bounces = 1],
    [Replay(1, 1) EXCEPT !.replay.file.delays = <<1, 2>>],
    [Replay(1, 1) EXCEPT !.replay.file.frames = 3] } }

\* Two channels to one modem that disagree about its attenuation pad.
Siblings ==
  { With(<<[Static(1, 2) EXCEPT !.atten = 0], Static(2, 2)>>) }

AllDocuments == Sound \union Unreachable \union Refused \union Fatal
NothingLeft == {}
SessionLeft == {<<"status", "old_cal">>}
=============================================================================
