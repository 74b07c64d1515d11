---------------------------- MODULE ReceiverMix ----------------------------
(***************************************************************************)
(* The receiver side of the mixer: ModemIO::send_rx_data tops rx_ring up   *)
(* with ReceiverMix::pull, which sums one chunk after another from every   *)
(* incoming PairBuffer, and sends a packet when the fill tracker lets it.  *)
(* Sources commit at any moment, also between two read_advance calls of    *)
(* one chunk; a read_advance is one step, as AdditiveStream allows.        *)
(* A DAC sample is the position each PairBuffer contributed to it,         *)
(* numbered from 1, and 0 where a PairBuffer had nothing committed; noise  *)
(* and the DAC conversion change no position and are left out.             *)
(***************************************************************************)
EXTENDS Integers, Sequences

CONSTANTS Pairs,         \* number of incoming PairBuffers
          SamplesPerPkt, \* samples_per_pkt_
          Chunk,         \* scratch size, PROCESSING_BLOCK_SIZE
          RingCapacity,  \* rx_ring's capacity
          MaxCommit,     \* samples one commit exposes
          MaxMark,       \* bound: positions committed per PairBuffer
          MaxPulls       \* bound: calls of pull

ASSUME MixAssumption ==
  /\ Pairs \in Nat \ {0} /\ SamplesPerPkt \in Nat \ {0} /\ Chunk \in Nat \ {0}
  /\ RingCapacity \in Nat \ {0} /\ MaxCommit \in Nat /\ MaxMark \in Nat
  /\ MaxPulls \in Nat

VARIABLES
  mark, read,    \* PairBuffer -> committed watermark, read position
  at,            \* where the ModemIO thread is
  left, pair,    \* pull's remaining count and the PairBuffer it reads next
  sum,           \* sum_scratch_
  rxRing,        \* DAC samples queued for the modem
  drops,         \* rx_ring_drops_
  pulls,         \* calls of pull
  sent, failed,  \* packets delivered, packets whose send failed
  mixed          \* history: every DAC sample mixed

vars == <<mark, read, at, left, pair, sum, rxRing, drops, pulls, sent, failed, mixed>>

PairIndex == 1..Pairs
Least(a, b) == IF a < b THEN a ELSE b
Silence(n) == [i \in 1..n |-> [k \in PairIndex |-> 0]]

Init ==
  /\ mark = [k \in PairIndex |-> 0] /\ read = [k \in PairIndex |-> 0]
  /\ at = "idle" /\ left = 0 /\ pair = 1 /\ sum = <<>>
  /\ rxRing = <<>> /\ drops = 0 /\ pulls = 0 /\ sent = 0 /\ failed = 0
  /\ mixed = <<>>

\* A source commits samples for this receiver.
Commit(k, n) ==
  /\ mark[k] + n <= MaxMark
  /\ mark' = [mark EXCEPT ![k] = @ + n]
  /\ UNCHANGED <<read, at, left, pair, sum, rxRing, drops, pulls, sent, failed, mixed>>

NeedsPull == Len(rxRing) < SamplesPerPkt

\* send_rx_data: pull one packet's worth when less than a packet is queued.
SendRxData ==
  /\ at = "idle"
  /\ IF NeedsPull
     THEN /\ pulls < MaxPulls /\ pulls' = pulls + 1
          /\ left' = SamplesPerPkt /\ sum' = Silence(Least(SamplesPerPkt, Chunk))
          /\ pair' = 1 /\ at' = "mix"
     ELSE at' = "send" /\ UNCHANGED <<pulls, left, sum, pair>>
  /\ UNCHANGED <<mark, read, rxRing, drops, sent, failed, mixed>>

Got(k) == Least(Len(sum), mark[k] - read[k])

\* Mutants: the head moves by the chunk asked for; it keeps the last sample back.
Advance_Chunk(k) == Len(sum)
Advance_Short(k) == IF Got(k) > 0 THEN Got(k) - 1 ELSE 0
Advance(k) == Got(k)

\* read_advance of the next PairBuffer; what is missing stays silent.
ReadPair ==
  /\ at = "mix" /\ pair <= Pairs
  /\ sum' = [i \in DOMAIN sum |->
               IF i <= Got(pair) THEN [sum[i] EXCEPT ![pair] = read[pair] + i] ELSE sum[i]]
  /\ read' = [read EXCEPT ![pair] = @ + Advance(pair)]
  /\ pair' = pair + 1
  /\ UNCHANGED <<mark, at, left, rxRing, drops, pulls, sent, failed, mixed>>

\* The chunk is complete: rx_ring.write, count the excess, go on with the rest.
WriteChunk ==
  /\ at = "mix" /\ pair > Pairs
  /\ LET n == Len(sum)
         accepted == Least(n, RingCapacity - Len(rxRing))
     IN /\ rxRing' = rxRing \o SubSeq(sum, 1, accepted)
        /\ drops' = drops + (n - accepted)
        /\ mixed' = mixed \o sum
        /\ left' = left - n
        /\ sum' = Silence(Least(left', Chunk))
        /\ at' = IF left' > 0 THEN "mix" ELSE "send"
  /\ pair' = 1
  /\ UNCHANGED <<mark, read, pulls, sent, failed>>

\* Still less than a packet, or the fill tracker does not want one yet.
Hold ==
  /\ at = "send"
  /\ at' = "idle"
  /\ UNCHANGED <<mark, read, left, pair, sum, rxRing, drops, pulls, sent, failed, mixed>>

\* Mutant: the packet is read from rx_ring only when its send succeeded.
Consumed_OnSuccess(ok) == IF ok THEN SamplesPerPkt ELSE 0
Consumed(ok) == SamplesPerPkt

\* A packet is read from rx_ring and sent; a failed send is not repeated.
SendPacket(ok) ==
  /\ at = "send" /\ Len(rxRing) >= SamplesPerPkt
  /\ rxRing' = SubSeq(rxRing, Consumed(ok) + 1, Len(rxRing))
  /\ IF ok THEN sent' = sent + 1 /\ UNCHANGED failed
           ELSE failed' = failed + 1 /\ UNCHANGED sent
  /\ at' = "idle"
  /\ UNCHANGED <<mark, read, left, pair, sum, drops, pulls, mixed>>

Mixer == SendRxData \/ ReadPair \/ WriteChunk
Next == \/ \E k \in PairIndex, n \in 1..MaxCommit : Commit(k, n)
        \/ Mixer \/ Hold \/ \E ok \in BOOLEAN : SendPacket(ok)

Spec == Init /\ [][Next]_vars

\* The ModemIO loop runs for ever and the tracker lets a packet out again and
\* again (its keepalive); whether the transport accepts it is open.
FairSpec == Spec /\ WF_vars(Mixer \/ Hold) /\ SF_vars(\E ok \in BOOLEAN : SendPacket(ok))

-----------------------------------------------------------------------------
DacSample == [PairIndex -> 0..MaxMark]

\* Types, and the ring within its capacity.
TypeOK ==
  /\ mark \in [PairIndex -> 0..MaxMark] /\ read \in [PairIndex -> 0..MaxMark]
  /\ at \in {"idle", "mix", "send"} /\ left \in 0..SamplesPerPkt
  /\ pair \in 1..(Pairs + 1) /\ sum \in Seq(DacSample)
  /\ rxRing \in Seq(DacSample) /\ Len(rxRing) <= RingCapacity
  /\ drops \in Nat /\ pulls \in 0..MaxPulls /\ sent \in Nat /\ failed \in Nat
  /\ mixed \in Seq(DacSample)

\* In the samples s, PairBuffer k's positions 1..n come out once each and in order.
Heard(s, k, n) ==
  /\ \A i, j \in DOMAIN s : i < j /\ s[j][k] # 0 => s[i][k] < s[j][k]
  /\ {s[i][k] : i \in DOMAIN s} \ {0} = 1..n

\* Each PairBuffer's positions come out once each, in order and without holes,
\* however commits fall between the reads: silence delays them, never drops them.
InOrder == \A k \in PairIndex : Heard(mixed \o sum, k, read[k])

\* send_rx_data pulls only below one packet, so rx_ring never holds two packets
\* and, with room for them, pull never drops: rx_ring_drops_ stays 0.
NeverTwoPackets ==
  /\ Len(rxRing) < 2 * SamplesPerPkt
  /\ RingCapacity >= 2 * SamplesPerPkt - 1 => drops = 0

\* Every DAC sample mixed is still queued, was counted as dropped, or left in a
\* packet, delivered or not: a failed send loses its samples and repeats none.
SamplesAccounted ==
  Len(mixed) = Len(rxRing) + drops + SamplesPerPkt * (sent + failed)

\* The inductive invariant behind these.  A chunk is silent where it is not yet read into,
\* there is one only while pull runs, and what pull has still to write fits below two packets.
ChunkInProgress ==
  /\ at = "mix" => /\ left > 0 /\ Len(sum) = Least(left, Chunk)
                   /\ \A i \in DOMAIN sum, k \in pair..Pairs : sum[i][k] = 0
  /\ at # "mix" => left = 0 /\ sum = <<>>
  /\ Len(rxRing) + left < 2 * SamplesPerPkt
  /\ \A k \in PairIndex : read[k] <= mark[k]

IInv == TypeOK /\ ChunkInProgress /\ InOrder /\ NeverTwoPackets /\ SamplesAccounted

\* Nothing committed stays behind in a PairBuffer: one more packet's worth of
\* pull takes everything up to samples_per_pkt_ that was there when it began,
\* however its chunks fall (pulls < MaxPulls: the bound leaves that pull).
AllMixed ==
  \A k \in PairIndex, p \in 1..Least(MaxMark, SamplesPerPkt) :
    (mark[k] >= p /\ pulls < MaxPulls) ~> (read[k] >= p)
=============================================================================
