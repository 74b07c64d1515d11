---------------------------- MODULE TapRendering ----------------------------
(***************************************************************************)
(* A channel whose taps move: TapSourceRenderer writes the source samples  *)
(* 1:1 into a SourceDelayLine and reads them back once per tap, at a       *)
(* position that follows the tap's delay across the block.  The taps come  *)
(* from a recorded trajectory (ReplayTapSource) or from the image-method   *)
(* scene (GeometricTapSource); the sizes are Scenario's.  Times are whole  *)
(* samples, delays and read positions counted in Unit-ths of a sample.     *)
(***************************************************************************)
EXTENDS Scenario

CONSTANTS
  RenderedChannels, \* the channels tried: ChannelConfig with drift (Unit-ths gained per
                    \* sample), start, velocity and acceleration; replay with `advance`
  Dt,               \* samples between two frames of a record
  Block,            \* PROCESSING_BLOCK_SIZE
  MaxBatch,         \* most samples SourceWorker hands over at once
  MessageLimit, MaxLength

\* A channel the loader let through and make_renderer had what it needs for.
Renderable(c) ==
  /\ {c.drift, c.speed, c.start, c.velocity, c.acceleration} \subseteq Int
  /\ \/ /\ c.mode = "replay" /\ {c.replay.offset, c.replay.wrap} \subseteq {Absent} \union Nat
        /\ c.replay.file # Absent /\ c.replay.file.frames \in Nat
        /\ c.replay.file.delays \in Seq(Nat)
     \/ /\ c.mode = "geometric"
        /\ c.geometry.water \in Nat
        /\ {c.geometry.source, c.geometry.receiver} \subseteq 1..(c.geometry.water - 1)
        /\ {c.geometry.rMin, c.geometry.rMax} \subseteq Nat /\ c.geometry.rMin <= c.geometry.rMax
  /\ ~CannotBuild(c)

ASSUME RenderingAssumption ==
  /\ {Dt, Block, MaxBatch, MessageLimit, MaxLength} \subseteq Nat \ {0}
  /\ \A c \in RenderedChannels : Renderable(c)

VARIABLES
  channel, stage, message,
  line, producer,   \* SourceDelayLine: its ring, and what was written since clear
  fed,              \* how much of that came from the source
  pending, left,    \* of this call of process, of drain_tail
  cursor, position, \* pair_buffer_out_cursor_, source_delay_line_cursor_
  offset, seen, resumed,   \* ReplayTapSource: message_offset_s_, max_t_seen_s_
  block             \* the last block: where each tap's reads start and end, the reads,
                    \* and the producer at the time

renderVars == <<channel, stage, message, line, producer, fed, pending, left, cursor, position,
                offset, seen, resumed, block>>

Silence == <<>>
Unit == 2 * Dt * Dt * Dt
Least(a, b) == IF a <= b THEN a ELSE b
Most(a, b) == IF a >= b THEN a ELSE b
UpTo(a, b) == (a + b - 1) \div b

-----------------------------------------------------------------------------
(* TapTrajectory and ReplayTapSource.                                      *)

Trajectory == channel.replay.file
Duration == (Trajectory.frames - 1) * Dt

\* Catmull-Rom between frames 1 and 2 of p, m Dt-ths of the way.
CatmullRom(p, m) ==
  Unit * p[2] + m * ((p[3] - p[1]) * Dt * Dt
                     + m * ((2 * p[1] - 5 * p[2] + 4 * p[3] - p[4]) * Dt
                            + m * (3 * (p[2] - p[3]) + p[4] - p[1])))

\* sample: time and frames are clamped to the record.
Sampled(tap, t) ==
  LET last == Trajectory.frames - 1
      u == Least(t, Duration)
      i == Least(u \div Dt, last - 1)
      at(frame) == Trajectory.delays[Least(Most(frame, 0), last) * Trajectory.taps + tap]
  IN CatmullRom(<<at(i - 1), at(i), at(i + 1), at(i + 2)>>, u - i * Dt)

\* The amplitude falls to zero in the frame interval after the record's end.
Ramp(t) == IF t <= Duration THEN Dt ELSE Most(0, Dt - (t - Duration))

\* Mutant: the high-water mark is that of all messages.
Seen_Kept == seen
Seen == 0

\* on_message_start: pinned, or on from where the last message has come to.
NextOffset ==
  LET config == channel.replay
      onward == IF resumed THEN offset + seen ELSE Or(config.offset, 0)
  IN IF ~config.advance THEN Or(config.offset, 0)
     ELSE IF Or(config.wrap, 0) > 0 /\ Duration - onward < config.wrap THEN 0 ELSE onward

-----------------------------------------------------------------------------
(* GeometricTapSource.                                                     *)

\* compute_paths: one tap for each of them.
ImagePaths == {p \in Candidates(channel.geometry) : p[1] <= channel.geometry.bounces /\ p[3]}

\* range_at_source_time, clamped to the envelope.
RangeAt(t) ==
  LET R == channel.start + channel.velocity * t + (channel.acceleration * t * t) \div 2
  IN Most(channel.geometry.rMin, Least(channel.geometry.rMax, R))

\* resolve: the excess over the anchor.
Excess(path, t) ==
  Most(0, (Root(RangeAt(t) * RangeAt(t) + path[2] * path[2]) - Anchor(channel)) * Unit)
    \div Speed(channel.speed)

\* sdl_worst_excess_samples: the longest path at either end of the envelope.
WorstExcess ==
  LET g == channel.geometry
      longest(R) == Biggest(PathLengths(g, R)) - Anchor(channel)
  IN IF channel.mode = "replay" THEN MaxTapDelta(channel)
     ELSE UpTo(Most(0, Most(longest(g.rMin), longest(g.rMax))), Speed(channel.speed))

-----------------------------------------------------------------------------
(* TapSourceRenderer.                                                      *)

\* taps_at: the delay and the gain of every tap.
TapsAt(t) ==
  IF channel.mode = "replay"
  THEN [k \in 1..Trajectory.taps |-> [delay |-> Sampled(k, offset + t), gain |-> Ramp(offset + t)]]
  ELSE [k \in ImagePaths |-> [delay |-> Excess(k, t), gain |-> Dt]]

\* The margins: interpolation, the drift of a block, the block being read.
Margin == 4 + UpTo(Block * Most(channel.drift, -channel.drift), Unit) + 1 + Block
\* resize rounds up to a power of two.
PowerOfTwo(p) == \A d \in 2..p : p % d = 0 => d % 2 = 0
Capacity ==
  LET least == WorstExcess + Margin
  IN Smallest({p \in least..(2 * least) : PowerOfTwo(p)})

\* The sample read_at(x) meets in the ring.
At(ring, x) == ring[x % Capacity]

\* read_at weighs four samples, one if the position is whole.
Weighed(whole, fraction) == IF fraction = 0 THEN {whole} ELSE (whole - 1)..(whole + 2)

\* Mutant: the drift is left to the cursor alone.
EndDelay_NoDrift(tap, n) == tap.delay
\* The drift of the block is baked into the delay at its end.
EndDelay(tap, n) == tap.delay - n * channel.drift

\* PerTapFarrow::produce: n reads from `from` towards `to`, which is the next block's.
ReadsOf(from, to, n) ==
  UNION { LET p == n * from + i * (to - from)
          IN Weighed(p \div (n * Unit), p % (n * Unit)) : i \in 0..(n - 1) }

Nothing == [starts |-> <<>>, ends |-> <<>>, written |-> 0, reads |-> {}]

Rendered(n) ==
  LET first == TapsAt(cursor)
      last  == TapsAt(cursor + n)
      from(k) == position - first[k].delay
      to(k)   == position + n * Unit - EndDelay(last[k], n)
  IN [starts |-> [k \in DOMAIN first |-> <<from(k), first[k].gain>>],
      ends   |-> [k \in DOMAIN first |-> <<to(k), last[k].gain>>],
      written |-> producer,
      reads  |-> UNION { {<<k, x, At(line, x)>> : x \in ReadsOf(from(k), to(k), n)}
                         : k \in DOMAIN first }]

RenderInit ==
  /\ channel \in RenderedChannels /\ stage = "idle" /\ message = 0
  /\ line = [x \in 0..(Capacity - 1) |-> Silence] /\ producer = 0 /\ fed = 0
  /\ pending = 0 /\ left = 0 /\ cursor = 0 /\ position = 0
  /\ offset = (IF channel.mode = "replay" THEN Or(channel.replay.offset, 0) ELSE 0)
  /\ seen = 0 /\ resumed = FALSE /\ block = Nothing

\* Mutant: only the producer cursor is reset.
Clear_Kept == line
Clear == [x \in DOMAIN line |-> Silence]

OnMessageStart ==
  /\ stage = "idle" /\ message < MessageLimit
  /\ stage' = "message" /\ message' = message + 1
  /\ line' = Clear /\ producer' = 0 /\ cursor' = 0 /\ position' = 0
  /\ fed' = 0 /\ block' = Nothing
  /\ IF channel.mode = "replay"
     THEN offset' = NextOffset /\ seen' = Seen /\ resumed' = TRUE
     ELSE UNCHANGED <<offset, seen, resumed>>
  /\ UNCHANGED <<channel, pending, left>>

\* SourceDelayLine::write.
Write(in) ==
  LET slot(i) == (producer + i - 1) % Capacity IN
  /\ line' = [x \in DOMAIN line |->
                IF \E i \in DOMAIN in : slot(i) = x
                THEN in[CHOOSE i \in DOMAIN in : slot(i) = x] ELSE line[x]]
  /\ producer' = producer + Len(in) /\ pending' = Len(in)

\* process is called with what SourceWorker has read.
Process ==
  /\ stage = "message" /\ pending = 0
  /\ \E count \in 1..MaxBatch :
       /\ fed + count <= MaxLength
       /\ Write([i \in 1..count |-> <<message, producer + i - 1>>]) /\ fed' = fed + count
  /\ UNCHANGED <<channel, stage, message, left, cursor, position, offset, seen, resumed, block>>

\* One block of process, and its commit.
Produce ==
  LET n == Least(Block, pending) IN
  /\ pending > 0
  /\ block' = Rendered(n) /\ pending' = pending - n
  /\ cursor' = cursor + n /\ position' = position + n * (Unit + channel.drift)
  /\ seen' = IF channel.mode = "replay" THEN Most(seen, cursor + n) ELSE seen
  /\ stage' = IF stage = "tail" /\ left = 0 /\ pending = n THEN "idle" ELSE stage
  /\ UNCHANGED <<channel, message, line, producer, fed, left, offset, resumed>>

\* Mutant: the last, shorter chunk is not fed.
TailLength_WholeBlocks == (MaxTapDelta(channel) \div Block) * Block
TailLength == MaxTapDelta(channel)

OnMessageEnd ==
  /\ stage = "message" /\ pending = 0
  /\ left' = TailLength /\ stage' = IF TailLength = 0 THEN "idle" ELSE "tail"
  /\ UNCHANGED <<channel, message, line, producer, fed, pending, cursor, position, offset,
                 seen, resumed, block>>

\* drain_tail: zeros, a block at a time.
DrainTail ==
  /\ stage = "tail" /\ pending = 0 /\ left > 0
  /\ Write([i \in 1..Least(Block, left) |-> Silence]) /\ left' = left - Least(Block, left)
  /\ UNCHANGED <<channel, stage, message, fed, cursor, position, offset, seen, resumed, block>>

RenderNext == OnMessageStart \/ Process \/ Produce \/ OnMessageEnd \/ DrainTail
RenderSpec == RenderInit /\ [][RenderNext]_renderVars

-----------------------------------------------------------------------------
(* Properties.                                                             *)

\* The drift accumulated so far, in whole samples.
Drifted == UpTo(cursor * Most(channel.drift, -channel.drift), Unit)

\* What a tap reads behind the producer is that very sample of this message, or silence
\* before its first and after its last: no slot was overwritten before its last tap has
\* read it and none holds a sample of an earlier message, as long as the accumulated drift
\* is within the margin, which is that of one block.
ReadsIntact ==
  Drifted < Margin - Block - 4 =>
    \A r \in block.reads :
      r[2] < block.written => r[3] = (IF r[2] \in 0..(fed - 1) THEN <<message, r[2]>> ELSE Silence)

\* A block starts where the one before it ended, in every tap's read position and gain,
\* with the drift: tap_source.hpp's condition for the output to be free of clicks.
Seamless == [][(cursor > 0 /\ cursor' > cursor) => block'.starts = block.ends]_renderVars

\* Once the tail is drained every tap has read the message's last sample, unless the
\* receiver's clock is the faster one.
LastSampleHeard ==
  (stage = "idle" /\ fed > 0 /\ channel.drift >= 0) =>
    \A k \in DOMAIN block.ends : \E r \in block.reads : r[1] = k /\ r[2] >= fed - 1

\* A message of an advancing replay takes the record up where the last one left it, after
\* its drain, or at its beginning if what remains is in the dead zone.
RecordContinues ==
  [][(message > 0 /\ message' > message /\ channel.mode = "replay") =>
       \/ ~channel.replay.advance
       \/ offset' = offset + cursor /\ (Duration - offset' >= Or(channel.replay.wrap, 0)
                                        \/ Or(channel.replay.wrap, 0) = 0)
       \/ offset' = 0 /\ Duration - (offset + cursor) < Or(channel.replay.wrap, 0)]_renderVars

\* What source_delay_line.hpp asks of the caller of read_at: the samples that enter the
\* interpolation have been written and are still in the ring.
ReadsInWindow ==
  \A r \in block.reads : r[2] >= 0 => r[2] \in (block.written - Capacity)..(block.written - 1)

-----------------------------------------------------------------------------
(* The inductive invariant behind these properties.                        *)

\* Delay line and cursor move together: what is pending has been written and not been read.
Lockstep ==
  /\ channel \in RenderedChannels /\ stage \in {"idle", "message", "tail"}
  /\ {message, producer, fed, pending, left, cursor, offset, seen} \subseteq Nat
  /\ producer = cursor + pending /\ fed <= producer
  /\ position = cursor * (Unit + channel.drift)
  /\ stage = "idle" => pending = 0 /\ (fed > 0 => cursor = fed + MaxTapDelta(channel))
  /\ stage = "message" => producer = fed /\ pending <= MaxBatch
  /\ stage = "tail" => producer + left = fed + MaxTapDelta(channel) /\ pending <= Block
  /\ channel.mode = "replay" => seen = cursor /\ (message > 0 => resumed)

\* The last block ended where the taps are now.
Here ==
  cursor > 0 => block.ends = [k \in DOMAIN TapsAt(cursor) |->
                                <<position - TapsAt(cursor)[k].delay, TapsAt(cursor)[k].gain>>]

\* The last block's reads reached as far as the slowest tap allows.
Reached ==
  cursor > 0 /\ channel.drift >= 0 =>
    \A k \in DOMAIN block.ends :
      \E r \in block.reads : r[1] = k /\ r[2] >= cursor - 1 - MaxTapDelta(channel)

\* The ring holds the last Capacity samples of the message, silence around it.
Filled ==
  /\ DOMAIN line = 0..(Capacity - 1)
  /\ \A x \in (producer - Capacity)..(producer - 1) :
       At(line, x) = IF x \in 0..(fed - 1) THEN <<message, x>> ELSE Silence

\* A tap of c's record moves by at most s samples between two frames.  Catmull-Rom leaves
\* the range of the frames by no more than an eighth of that.
Steady(c, s) ==
  c.mode = "replay" =>
    LET f == c.replay.file IN
    \A tap \in 1..f.taps, n \in 0..(f.frames - 2) :
      f.delays[n * f.taps + tap] - f.delays[(n + 1) * f.taps + tap] \in -s..s

\* The four samples of margin cover the overshoot, j samples at most, and what a batch is
\* longer than a block.
MarginHolds(c) == \E j \in 0..4 : Steady(c, 8 * j) /\ MaxBatch + j <= Block + 4

RenderInv ==
  /\ Lockstep /\ Here
  /\ Steady(channel, 7) => Reached
  /\ MarginHolds(channel) => Filled /\ ReadsIntact /\ block.written \in 0..producer
=============================================================================
