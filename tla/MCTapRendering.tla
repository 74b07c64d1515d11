--------------------------- MODULE MCTapRendering ---------------------------
(* Instances of TapRendering for TLC. *)
EXTENDS TapRendering

Channel ==
  [mode |-> "replay", speed |-> 2, start |-> 4, delay |-> Absent, range |-> 4,
   geometry |-> Absent, replay |-> Absent, drift |-> 0, velocity |-> 0, acceleration |-> 0]

Record(taps, frames, delays, biggest) ==
  [octt |-> TRUE, taps |-> taps, frames |-> frames, maxDelay |-> biggest, delays |-> delays]
Replays(file, advance, wrap) ==
  [Channel EXCEPT !.replay = [file |-> file, offset |-> 1, wrap |-> wrap, advance |-> advance]]

\* Two taps, one still and one that recedes; a record longer than a message.
Long == Record(2, 10, <<2,2, 2,3, 2,3, 2,4, 2,4, 2,5, 2,5, 2,5, 2,5, 2,5>>, 5)
\* One tap that comes nearer; a message outlasts it.
Short == Record(1, 3, <<5, 4, 3>>, 5)

\* Direct and surface path of a source that leaves, stops and returns.
Pool ==
  [bounces |-> 1, water |-> 5, source |-> 2, receiver |-> 3, exponent |-> 1,
   rMin |-> 3, rMax |-> 8, enabled |-> {"direct", "surface"}, ill |-> {}]
Moving(v, a) ==
  [Channel EXCEPT !.mode = "geometric", !.geometry = Pool, !.velocity = v, !.acceleration = a]

Drifting(c) == {[c EXCEPT !.drift = d] : d \in {-1, 0, 1}}
MCChannels ==
  Drifting(Replays(Long, TRUE, 4)) \union Drifting(Moving(2, -1))
  \union {Replays(Long, TRUE, Absent), Replays(Short, TRUE, 1), Replays(Short, FALSE, Absent),
          Moving(1, 0)}

\* No delay is below two samples; only the clocks differ.
MCFastSource == {[Replays(Long, TRUE, 4) EXCEPT !.drift = 1]}
=============================================================================
