-------------------------- MODULE ReceiverMixProofs ---------------------------
(***************************************************************************)
(* Proofs about ReceiverMix, for every number of PairBuffers, packet,      *)
(* chunk and ring size, and however commits fall between the reads: every  *)
(* position is mixed once and in order, rx_ring never holds two packets,   *)
(* and every sample mixed is accounted for.                                *)
(***************************************************************************)
EXTENDS ReceiverMix, SequenceTheorems, TLAPS

\* The constants are numbers.
LEMMA Sizes ==
  /\ Pairs \in Nat /\ Pairs > 0 /\ SamplesPerPkt \in Nat /\ SamplesPerPkt > 0
  /\ Chunk \in Nat /\ Chunk > 0 /\ RingCapacity \in Nat /\ MaxMark \in Nat /\ MaxPulls \in Nat
  /\ MaxCommit \in Nat
  BY MixAssumption

-----------------------------------------------------------------------------
(* Sequences of DAC samples.                                               *)

\* A function on 1..n is a sequence of length n.
LEMMA FunctionIsSeq ==
  ASSUME NEW S, NEW n \in Nat, NEW f \in [1..n -> S]
  PROVE  f \in Seq(S) /\ Len(f) = n /\ DOMAIN f = 1..n
<1>1. f \in Seq(S)
  BY SeqDef
<1>2. 1..Len(f) = 1..n /\ Len(f) \in Nat
  BY <1>1, LenProperties
<1>3. Len(f) = n
  BY <1>2
<1>4. QED
  BY <1>1, <1>3

\* The elements of p \o q are those of p, then those of q.
LEMMA Appended ==
  ASSUME NEW S, NEW p \in Seq(S), NEW q \in Seq(S)
  PROVE  /\ p \o q \in Seq(S) /\ Len(p \o q) = Len(p) + Len(q) /\ Len(p) \in Nat /\ Len(q) \in Nat
         /\ DOMAIN (p \o q) = 1..(Len(p) + Len(q))
         /\ \A i \in 1..Len(p) : (p \o q)[i] = p[i]
         /\ \A i \in 1..Len(q) : (p \o q)[Len(p) + i] = q[i]
<1> DEFINE r == p \o q  a == Len(p)  b == Len(q)
<1>1. a \in Nat /\ b \in Nat
  BY LenProperties
<1>2. /\ r \in Seq(S) /\ Len(r) = a + b
      /\ \A i \in 1..(a + b) : r[i] = IF i <= a THEN p[i] ELSE q[i - a]
  BY ConcatProperties
<1> HIDE DEF r, a, b
<1>3. DOMAIN r = 1..(a + b)
  BY <1>2, LenProperties
<1>4. \A i \in 1..a : r[i] = p[i]
  BY <1>1, <1>2
<1>5. ASSUME NEW i \in 1..b PROVE r[a + i] = q[i]
  <2>1. a + i \in 1..(a + b) /\ ~(a + i <= a) /\ (a + i) - a = i
    BY <1>1
  <2>2. r[a + i] = IF a + i <= a THEN p[a + i] ELSE q[(a + i) - a]
    BY <1>2, <2>1
  <2>3. QED
    BY <2>1, <2>2
<1>6. QED
  BY <1>1, <1>2, <1>3, <1>4, <1>5 DEF r, a, b

\* Silence is a chunk of samples to which no PairBuffer has contributed.
LEMMA SilentChunk ==
  ASSUME NEW n \in Nat
  PROVE  /\ Silence(n) \in Seq(DacSample) /\ Len(Silence(n)) = n /\ DOMAIN Silence(n) = 1..n
         /\ \A i \in 1..n, k \in PairIndex : Silence(n)[i][k] = 0
<1>1. [k \in PairIndex |-> 0] \in DacSample
  BY Sizes DEF DacSample
<1>2. Silence(n) \in [1..n -> DacSample]
  BY <1>1 DEF Silence
<1>3. \A i \in 1..n, k \in PairIndex : Silence(n)[i][k] = 0
  BY DEF Silence
<1>4. QED
  BY <1>2, <1>3, FunctionIsSeq

\* A DAC sample holds a number for every PairBuffer.
LEMMA Contributions ==
  ASSUME NEW s \in Seq(DacSample), NEW i \in DOMAIN s, NEW k \in PairIndex
  PROVE  s[i] \in DacSample /\ s[i][k] \in Nat
<1>1. s[i] \in DacSample
  BY ElementOfSeq, LenProperties
<1>2. QED
  BY <1>1, Sizes DEF DacSample

\* Silence behind what was mixed is no position.
LEMMA HeardThenSilence ==
  ASSUME NEW s \in Seq(DacSample), NEW n \in Nat, NEW k \in PairIndex, NEW r \in Nat, Heard(s, k, r)
  PROVE  Heard(s \o Silence(n), k, r)
<1> DEFINE t == s \o Silence(n)  a == Len(s)
<1>1. /\ Silence(n) \in Seq(DacSample) /\ Len(Silence(n)) = n
      /\ \A i \in 1..n : Silence(n)[i][k] = 0
  BY SilentChunk
<1>2. /\ t \in Seq(DacSample) /\ a \in Nat /\ DOMAIN t = 1..(a + n) /\ DOMAIN s = 1..a
      /\ \A i \in 1..a : t[i] = s[i]
      /\ \A i \in 1..n : t[a + i] = Silence(n)[i]
  <2> DEFINE z == Silence(n)
  <2>1. z \in Seq(DacSample) /\ Len(z) = n
    BY <1>1
  <2> HIDE DEF z
  <2>2. /\ s \o z \in Seq(DacSample) /\ Len(s) \in Nat /\ DOMAIN (s \o z) = 1..(Len(s) + Len(z))
        /\ \A i \in 1..Len(s) : (s \o z)[i] = s[i]
        /\ \A i \in 1..Len(z) : (s \o z)[Len(s) + i] = z[i]
    <3>1. z \in Seq(DacSample)
      BY <2>1
    <3>2. QED
      BY ONLY s \in Seq(DacSample), <3>1, Appended
  <2>3. DOMAIN s = 1..Len(s)
    BY LenProperties
  <2>4. QED
    BY <2>1, <2>2, <2>3 DEF z
<1> HIDE DEF t, a
<1>3. \A i \in 1..(a + n) : i \in 1..a \/ (~(i <= a) /\ t[i][k] = 0)
  <2>1. ASSUME NEW i \in 1..(a + n), ~(i <= a) PROVE t[i][k] = 0
    <3>1. i - a \in 1..n /\ a + (i - a) = i
      BY <1>2, <2>1
    <3>2. t[a + (i - a)] = Silence(n)[i - a] /\ Silence(n)[i - a][k] = 0
      BY <1>1, <1>2, <3>1
    <3>3. QED
      BY <3>1, <3>2
  <2>2. QED
    BY <1>2, <2>1
<1>4. ASSUME NEW i \in DOMAIN t, NEW j \in DOMAIN t, i < j, t[j][k] # 0 PROVE t[i][k] < t[j][k]
  <2>1. j \in 1..a
    BY <1>2, <1>3, <1>4
  <2>2. i \in 1..a
    BY <1>2, <1>4, <2>1
  <2>3. QED
    BY <1>2, <1>4, <2>1, <2>2 DEF Heard
<1>5. {t[i][k] : i \in DOMAIN t} \ {0} = {s[i][k] : i \in DOMAIN s} \ {0}
  <2>1. ASSUME NEW i \in DOMAIN t, t[i][k] # 0 PROVE i \in DOMAIN s /\ t[i][k] = s[i][k]
    BY <1>2, <1>3, <2>1
  <2>2. ASSUME NEW i \in DOMAIN s PROVE i \in DOMAIN t /\ t[i][k] = s[i][k]
    BY <1>2, <2>2
  <2>3. QED
    BY <2>1, <2>2
<1>6. QED
  BY <1>4, <1>5 DEF Heard, t

\* What a PairBuffer has contributed depends on its part of the samples alone.
LEMMA HeardAlone ==
  ASSUME NEW s \in Seq(DacSample), NEW t \in Seq(DacSample), DOMAIN t = DOMAIN s,
         NEW k \in PairIndex, \A i \in DOMAIN s : t[i][k] = s[i][k], NEW r, Heard(s, k, r)
  PROVE  Heard(t, k, r)
<1>1. {t[i][k] : i \in DOMAIN t} = {s[i][k] : i \in DOMAIN s}
  OBVIOUS
<1>2. \A i, j \in DOMAIN t : i < j /\ t[j][k] # 0 => t[i][k] < t[j][k]
  BY DEF Heard
<1>3. QED
  BY <1>1, <1>2 DEF Heard

\* The next g positions, read into the first places of a chunk still silent.
LEMMA HeardThenRead ==
  ASSUME NEW p \in Seq(DacSample), NEW q \in Seq(DacSample), NEW u \in Seq(DacSample),
         Len(u) = Len(q), NEW g \in Nat, g <= Len(q), NEW k \in PairIndex, NEW r \in Nat,
         \A i \in 1..Len(q) : q[i][k] = 0,
         \A i \in 1..Len(q) : u[i][k] = IF i <= g THEN r + i ELSE 0,
         Heard(p \o q, k, r)
  PROVE  Heard(p \o u, k, r + g)
<1> DEFINE s == p \o q  t == p \o u  a == Len(p)  b == Len(q)
<1>1. /\ a \in Nat /\ b \in Nat /\ DOMAIN s = 1..(a + b) /\ s \in Seq(DacSample)
      /\ \A i \in 1..a : s[i] = p[i]
      /\ \A i \in 1..b : s[a + i] = q[i]
  BY Appended
<1>2. /\ DOMAIN t = 1..(a + b) /\ t \in Seq(DacSample)
      /\ \A i \in 1..a : t[i] = p[i]
      /\ \A i \in 1..b : t[a + i] = u[i]
  <2>1. /\ DOMAIN t = 1..(Len(p) + Len(u)) /\ t \in Seq(DacSample)
        /\ \A i \in 1..Len(p) : t[i] = p[i]
        /\ \A i \in 1..Len(u) : t[Len(p) + i] = u[i]
    BY ONLY u \in Seq(DacSample), p \in Seq(DacSample), Appended
  <2>2. QED
    BY <2>1
<1>3. g <= b /\ Heard(s, k, r)
  OBVIOUS
<1>4. \A i \in 1..b : s[a + i][k] = 0 /\ t[a + i][k] = IF i <= g THEN r + i ELSE 0
  BY <1>1, <1>2
<1>5. \A i \in 1..a : t[i][k] = s[i][k]
  BY <1>1, <1>2
<1>6. \A i \in 1..(a + b) : s[i][k] \in Nat
  BY <1>1, Contributions
<1> HIDE DEF s, t, a, b
<1>7. \A i \in 1..(a + b) : s[i][k] <= r
  <2>1. ASSUME NEW i \in 1..(a + b), s[i][k] # 0 PROVE s[i][k] \in 1..r
    BY <1>1, <1>3, <2>1 DEF Heard
  <2>2. QED
    BY <1>6, <2>1
<1>8. \A i \in 1..(a + b) : i \in 1..a \/ (i - a \in 1..b /\ a + (i - a) = i)
  BY <1>1
<1>9. ASSUME NEW i \in DOMAIN t, NEW j \in DOMAIN t, i < j, t[j][k] # 0 PROVE t[i][k] < t[j][k]
  <2>1. CASE j \in 1..a
    <3>1. i \in 1..a /\ i \in DOMAIN s /\ j \in DOMAIN s
      BY <1>1, <1>2, <1>9, <2>1
    <3>2. s[j][k] # 0 => s[i][k] < s[j][k]
      BY <1>3, <1>9, <3>1 DEF Heard
    <3>3. QED
      BY <1>5, <1>9, <2>1, <3>1, <3>2
  <2>2. CASE ~(j \in 1..a)
    <3>1. j - a \in 1..b /\ a + (j - a) = j
      BY <1>2, <1>8, <2>2
    <3>2. j - a <= g /\ t[j][k] = r + (j - a)
      BY <1>4, <1>9, <3>1
    <3>3. CASE i \in 1..a
      <4>1. t[i][k] \in Nat /\ t[i][k] <= r
        BY <1>1, <1>2, <1>5, <1>6, <1>7, <3>3
      <4>2. QED
        BY <1>1, <3>1, <3>2, <4>1
    <3>4. CASE ~(i \in 1..a)
      <4>1. i - a \in 1..b /\ a + (i - a) = i
        BY <1>2, <1>8, <3>4
      <4>2. i - a < j - a
        BY <1>1, <1>9, <1>2
      <4>3. i - a <= g
        BY <1>1, <3>1, <3>2, <4>1, <4>2
      <4>4. t[i][k] = r + (i - a)
        BY <1>4, <4>1, <4>3
      <4>5. QED
        BY <1>1, <3>1, <3>2, <4>1, <4>2, <4>4
    <3>5. QED
      BY <3>3, <3>4
  <2>3. QED
    BY <2>1, <2>2
<1>10. ASSUME NEW i \in DOMAIN t, t[i][k] # 0 PROVE t[i][k] \in 1..(r + g)
  <2>1. CASE i \in 1..a
    <3>1. t[i][k] = s[i][k] /\ i \in 1..(a + b)
      BY <1>2, <1>5, <2>1, <1>10
    <3>2. t[i][k] \in Nat /\ t[i][k] <= r
      BY <1>6, <1>7, <3>1
    <3>3. QED
      BY <1>10, <3>2
  <2>2. CASE ~(i \in 1..a)
    <3>1. i - a \in 1..b /\ a + (i - a) = i
      BY <1>2, <1>8, <2>2
    <3>2. i - a <= g /\ t[i][k] = r + (i - a)
      BY <1>4, <1>10, <3>1
    <3>3. QED
      BY <3>1, <3>2
  <2>3. QED
    BY <2>1, <2>2
<1>11. ASSUME NEW v \in 1..(r + g) PROVE \E i \in DOMAIN t : t[i][k] = v
  <2>1. CASE v <= r
    <3>1. v \in {s[i][k] : i \in DOMAIN s}
      BY <1>3, <2>1 DEF Heard
    <3>2. PICK i \in DOMAIN s : s[i][k] = v
      BY <3>1
    <3>3. i \in 1..a
      <4>1. ASSUME i - a \in 1..b, a + (i - a) = i PROVE s[i][k] = 0
        BY <1>4, <4>1
      <4>2. s[i][k] # 0 /\ i \in 1..(a + b)
        BY <1>1, <3>2
      <4>3. QED
        BY <1>8, <4>1, <4>2
    <3>4. QED
      BY <1>1, <1>2, <1>5, <3>2, <3>3
  <2>2. CASE ~(v <= r)
    <3>1. v - r \in 1..b /\ v - r <= g /\ r + (v - r) = v
      BY <1>1, <1>3, <2>2
    <3>2. t[a + (v - r)][k] = v /\ a + (v - r) \in DOMAIN t
      BY <1>1, <1>2, <1>4, <3>1
    <3>3. QED
      BY <3>2
  <2>3. QED
    BY <2>1, <2>2
<1>12. {t[i][k] : i \in DOMAIN t} \ {0} = 1..(r + g)
  <2>1. 0 \notin 1..(r + g)
    OBVIOUS
  <2>2. QED
    BY <1>10, <1>11, <2>1
<1>13. Heard(t, k, r + g)
  BY <1>9, <1>12 DEF Heard
<1>14. QED
  BY <1>13 DEF t

-----------------------------------------------------------------------------
(* The inductive invariant, action by action.                              *)

\* What the proofs use of the invariant's types.
LEMMA Lengths ==
  ASSUME TypeOK
  PROVE  /\ sum \in Seq(DacSample) /\ Len(sum) \in Nat /\ DOMAIN sum = 1..Len(sum)
         /\ rxRing \in Seq(DacSample) /\ Len(rxRing) \in Nat /\ Len(rxRing) <= RingCapacity
         /\ mixed \in Seq(DacSample) /\ Len(mixed) \in Nat
         /\ left \in Nat /\ drops \in Nat /\ sent \in Nat /\ failed \in Nat /\ pulls \in Nat
         /\ pair \in 1..(Pairs + 1) /\ \A k \in PairIndex : read[k] \in Nat /\ mark[k] \in Nat
  BY LenProperties, Sizes DEF TypeOK

\* A commit moves a watermark only.
LEMMA CommitStep ==
  ASSUME IInv, NEW k \in PairIndex, NEW n \in 1..MaxCommit, Commit(k, n)
  PROVE  IInv'
<1> USE Sizes
<1>1. /\ mark' = [mark EXCEPT ![k] = @ + n] /\ mark[k] + n <= MaxMark
      /\ UNCHANGED <<read, at, left, pair, sum, rxRing, drops, pulls, sent, failed, mixed>>
  BY DEF Commit
<1>2. mark \in [PairIndex -> 0..MaxMark] /\ read \in [PairIndex -> 0..MaxMark]
  BY DEF IInv, TypeOK
<1>3. mark[k] + n \in 0..MaxMark
  BY <1>1, <1>2
<1>4. mark' \in [PairIndex -> 0..MaxMark]
  BY <1>1, <1>2, <1>3
<1>5. TypeOK'
  BY <1>1, <1>4 DEF IInv, TypeOK
<1>6. ASSUME NEW j \in PairIndex PROVE read'[j] <= mark'[j]
  <2>1. read[j] <= mark[j] /\ mark[j] \in Nat /\ read[j] \in Nat
    BY <1>2 DEF IInv, ChunkInProgress
  <2>2. mark'[j] = mark[j] \/ mark'[j] = mark[j] + n
    BY <1>1, <1>2
  <2>3. QED
    BY <1>1, <2>1, <2>2
<1>7. ChunkInProgress'
  BY <1>1, <1>6 DEF IInv, ChunkInProgress
<1>8. InOrder' /\ NeverTwoPackets' /\ SamplesAccounted'
  BY <1>1 DEF IInv, InOrder, NeverTwoPackets, SamplesAccounted
<1>9. QED
  BY <1>5, <1>7, <1>8 DEF IInv

\* A pull begins with a silent chunk, and only below one packet.
LEMMA SendRxDataStep ==
  ASSUME IInv, SendRxData
  PROVE  IInv'
<1> USE Sizes
<1>1. /\ at = "idle" /\ left = 0 /\ sum = <<>>
      /\ UNCHANGED <<mark, read, rxRing, drops, sent, failed, mixed>>
  BY DEF SendRxData, IInv, ChunkInProgress
<1>2. TypeOK /\ InOrder /\ NeverTwoPackets /\ SamplesAccounted
      /\ \A k \in PairIndex : read[k] <= mark[k]
  BY DEF IInv, ChunkInProgress
<1>3. NeverTwoPackets' /\ SamplesAccounted' /\ \A k \in PairIndex : read'[k] <= mark'[k]
  BY <1>1, <1>2 DEF NeverTwoPackets, SamplesAccounted
<1>4. CASE NeedsPull
  <2> DEFINE n == Least(SamplesPerPkt, Chunk)
  <2>1. /\ pulls < MaxPulls /\ pulls' = pulls + 1 /\ left' = SamplesPerPkt /\ sum' = Silence(n)
        /\ pair' = 1 /\ at' = "mix" /\ Len(rxRing) < SamplesPerPkt
    BY <1>4 DEF SendRxData, NeedsPull
  <2>2. n \in Nat
    BY DEF Least
  <2>3. n = Least(left', Chunk)
    BY <2>1
  <2> HIDE DEF n
  <2>4. /\ sum' \in Seq(DacSample) /\ Len(sum') = n /\ DOMAIN sum' = 1..n
        /\ \A i \in 1..n, k \in PairIndex : sum'[i][k] = 0
    BY <2>1, <2>2, SilentChunk
  <2>5. TypeOK'
    BY <1>1, <1>2, <2>1, <2>4 DEF TypeOK
  <2>6. \A i \in DOMAIN sum', k \in pair'..Pairs : sum'[i][k] = 0
    BY <2>1, <2>4 DEF PairIndex
  <2>7. Len(rxRing') + left' < 2 * SamplesPerPkt /\ left' > 0
    <3>1. Len(rxRing) \in Nat
      BY <1>2, Lengths
    <3>2. QED
      BY <1>1, <2>1, <3>1
  <2>8. ChunkInProgress'
    BY <1>3, <2>1, <2>3, <2>4, <2>6, <2>7 DEF ChunkInProgress
  <2>9. InOrder'
    <3> SUFFICES ASSUME NEW k \in PairIndex PROVE Heard(mixed' \o sum', k, read'[k])
      BY DEF InOrder
    <3>1. mixed \o sum = mixed /\ mixed \in Seq(DacSample) /\ read[k] \in Nat
      BY <1>1, <1>2, Lengths, ConcatEmptySeq
    <3>2. Heard(mixed, k, read[k])
      BY <1>2, <3>1 DEF InOrder
    <3>3. QED
      BY <1>1, <2>1, <2>2, <3>1, <3>2, HeardThenSilence
  <2>10. QED
    BY <1>3, <2>5, <2>8, <2>9 DEF IInv
<1>5. CASE ~NeedsPull
  <2>1. at' = "send" /\ UNCHANGED <<pulls, left, sum, pair>>
    BY <1>5 DEF SendRxData
  <2>2. TypeOK' /\ InOrder'
    BY <1>1, <1>2, <2>1 DEF TypeOK, InOrder
  <2>3. ChunkInProgress'
    BY <1>1, <2>1 DEF IInv, ChunkInProgress
  <2>4. QED
    BY <1>3, <2>2, <2>3 DEF IInv
<1>6. QED
  BY <1>4, <1>5

\* read_advance puts the next positions of one PairBuffer into the chunk.
LEMMA ReadPairStep ==
  ASSUME IInv, ReadPair
  PROVE  IInv'
<1> USE Sizes
<1> DEFINE g == Got(pair)
<1>1. /\ at = "mix" /\ pair <= Pairs
      /\ sum' = [i \in DOMAIN sum |-> IF i <= g THEN [sum[i] EXCEPT ![pair] = read[pair] + i]
                                      ELSE sum[i]]
      /\ read' = [read EXCEPT ![pair] = @ + g] /\ pair' = pair + 1
      /\ UNCHANGED <<mark, at, left, rxRing, drops, pulls, sent, failed, mixed>>
  BY DEF ReadPair, Advance
<1>2. /\ TypeOK /\ InOrder /\ NeverTwoPackets /\ SamplesAccounted /\ ChunkInProgress
  BY DEF IInv
<1>3. /\ sum \in Seq(DacSample) /\ Len(sum) \in Nat /\ DOMAIN sum = 1..Len(sum)
      /\ mixed \in Seq(DacSample) /\ Len(mixed) \in Nat
  BY <1>2, Lengths
<1>4. pair \in PairIndex /\ pair \in Nat /\ pair' \in 1..(Pairs + 1)
  BY <1>1, <1>2 DEF TypeOK, PairIndex
<1>5. /\ mark \in [PairIndex -> 0..MaxMark] /\ read \in [PairIndex -> 0..MaxMark]
      /\ \A k \in PairIndex : read[k] <= mark[k]
  BY <1>2 DEF TypeOK, ChunkInProgress
<1>6. /\ g \in Nat /\ g <= Len(sum) /\ g <= mark[pair] - read[pair]
  <2>1. read[pair] \in Nat /\ mark[pair] \in Nat /\ read[pair] <= mark[pair]
    BY <1>4, <1>5
  <2>2. QED
    BY <1>3, <2>1 DEF Got, Least
<1> HIDE DEF g
<1>7. /\ read[pair] \in Nat /\ mark[pair] \in Nat /\ mark[pair] <= MaxMark
      /\ read[pair] + g <= mark[pair]
  BY <1>4, <1>5, <1>6
<1>8. read' \in [PairIndex -> 0..MaxMark]
  <2>1. read[pair] + g \in 0..MaxMark
    BY <1>6, <1>7
  <2>2. QED
    BY <1>1, <1>4, <1>5, <2>1
<1>9. ASSUME NEW k \in PairIndex PROVE read'[k] <= mark'[k]
  BY <1>1, <1>4, <1>5, <1>7
<1>10. /\ sum' \in Seq(DacSample) /\ Len(sum') = Len(sum) /\ DOMAIN sum' = 1..Len(sum)
  <2>1. ASSUME NEW i \in 1..Len(sum)
        PROVE  (IF i <= g THEN [sum[i] EXCEPT ![pair] = read[pair] + i] ELSE sum[i]) \in DacSample
    <3>1. sum[i] \in DacSample
      BY <1>3, ElementOfSeq
    <3>2. CASE i <= g
      <4>1. read[pair] + i \in 0..MaxMark
        BY <1>6, <1>7, <3>2
      <4>2. [sum[i] EXCEPT ![pair] = read[pair] + i] \in DacSample
        BY <3>1, <4>1 DEF DacSample
      <4>3. QED
        BY <3>2, <4>2
    <3>3. CASE ~(i <= g)
      BY <3>1, <3>3
    <3>4. QED
      BY <3>2, <3>3
  <2>2. sum' \in [1..Len(sum) -> DacSample]
    BY <1>1, <1>3, <2>1
  <2>3. QED
    BY <1>3, <2>2, FunctionIsSeq
<1>11. /\ \A i \in 1..Len(sum) : sum'[i][pair] = IF i <= g THEN read[pair] + i ELSE 0
       /\ \A i \in 1..Len(sum), k \in PairIndex : k # pair => sum'[i][k] = sum[i][k]
  <2>1. \A i \in 1..Len(sum) : sum[i] \in [PairIndex -> 0..MaxMark] /\ sum[i][pair] = 0
    <3>1. \A i \in DOMAIN sum, k \in pair..Pairs : sum[i][k] = 0
      BY <1>1, <1>2 DEF ChunkInProgress
    <3>2. pair \in pair..Pairs
      BY <1>1, <1>4
    <3>3. \A i \in 1..Len(sum) : sum[i] \in DacSample
      BY <1>3, ElementOfSeq
    <3>4. QED
      BY <1>3, <3>1, <3>2, <3>3 DEF DacSample
  <2>2. ASSUME NEW i \in 1..Len(sum)
        PROVE  /\ sum'[i][pair] = IF i <= g THEN read[pair] + i ELSE 0
               /\ \A k \in PairIndex : k # pair => sum'[i][k] = sum[i][k]
    <3>1. sum'[i] = IF i <= g THEN [sum[i] EXCEPT ![pair] = read[pair] + i] ELSE sum[i]
      BY <1>1, <1>3
    <3>2. CASE i <= g
      BY <1>4, <2>1, <3>1, <3>2
    <3>3. CASE ~(i <= g)
      BY <2>1, <3>1, <3>3
    <3>4. QED
      BY <3>2, <3>3
  <2>3. QED
    BY <2>2
<1>12. TypeOK'
  BY <1>1, <1>2, <1>4, <1>8, <1>10 DEF TypeOK
<1>13. ChunkInProgress'
  <2>1. ASSUME NEW i \in DOMAIN sum', NEW k \in pair'..Pairs PROVE sum'[i][k] = 0
    <3>1. i \in 1..Len(sum) /\ k \in PairIndex /\ k # pair /\ k \in pair..Pairs
      BY <1>1, <1>4, <1>10 DEF PairIndex
    <3>2. sum[i][k] = 0
      BY <1>1, <1>2, <1>3, <3>1 DEF ChunkInProgress
    <3>3. QED
      BY <1>11, <3>1, <3>2
  <2>2. left > 0 /\ Len(sum) = Least(left, Chunk) /\ Len(rxRing) + left < 2 * SamplesPerPkt
    BY <1>1, <1>2 DEF ChunkInProgress
  <2>3. QED
    BY <1>1, <1>9, <1>10, <2>1, <2>2 DEF ChunkInProgress
<1>14. InOrder'
  <2> SUFFICES ASSUME NEW k \in PairIndex PROVE Heard(mixed' \o sum', k, read'[k])
    BY DEF InOrder
  <2>1. Heard(mixed \o sum, k, read[k])
    BY <1>2 DEF InOrder
  <2>2. CASE k = pair
    <3>1. \A i \in 1..Len(sum) : sum[i][k] = 0
      <4>1. k \in pair..Pairs
        BY <1>1, <1>4, <2>2
      <4>2. QED
        BY <1>1, <1>2, <1>3, <4>1 DEF ChunkInProgress
    <3>2. \A i \in 1..Len(sum) : sum'[i][k] = IF i <= g THEN read[k] + i ELSE 0
      BY <1>11, <2>2
    <3>3. Heard(mixed \o sum', k, read[k] + g)
      BY <1>3, <1>6, <1>7, <1>10, <2>1, <2>2, <3>1, <3>2, HeardThenRead
    <3>4. read'[k] = read[k] + g /\ mixed' = mixed
      BY <1>1, <1>4, <1>5, <2>2
    <3>5. QED
      BY <3>3, <3>4
  <2>3. CASE k # pair
    <3> DEFINE s == mixed \o sum  t == mixed \o sum'
    <3>1. /\ s \in Seq(DacSample) /\ DOMAIN s = 1..(Len(mixed) + Len(sum))
          /\ \A i \in 1..Len(mixed) : s[i] = mixed[i]
          /\ \A i \in 1..Len(sum) : s[Len(mixed) + i] = sum[i]
      <4>1. sum \in Seq(DacSample) /\ mixed \in Seq(DacSample)
        BY <1>3
      <4>2. QED
        BY ONLY <4>1, Appended
    <3>2. /\ t \in Seq(DacSample) /\ DOMAIN t = 1..(Len(mixed) + Len(sum'))
          /\ \A i \in 1..Len(mixed) : t[i] = mixed[i]
          /\ \A i \in 1..Len(sum') : t[Len(mixed) + i] = sum'[i]
      <4>1. sum' \in Seq(DacSample) /\ mixed \in Seq(DacSample)
        BY <1>3, <1>10
      <4>2. QED
        BY ONLY <4>1, Appended
    <3>3. Len(sum') = Len(sum) /\ Len(sum) \in Nat /\ Len(mixed) \in Nat
      BY <1>3, <1>10
    <3> HIDE DEF s, t
    <3>4. ASSUME NEW i \in DOMAIN s PROVE t[i][k] = s[i][k]
      <4>1. i \in 1..Len(mixed) \/ (i - Len(mixed) \in 1..Len(sum)
                                    /\ Len(mixed) + (i - Len(mixed)) = i)
        BY <3>1, <3>3
      <4>2. CASE i \in 1..Len(mixed)
        BY <3>1, <3>2, <4>2
      <4>3. CASE i - Len(mixed) \in 1..Len(sum) /\ Len(mixed) + (i - Len(mixed)) = i
        <5>1. sum'[i - Len(mixed)][k] = sum[i - Len(mixed)][k]
          BY <1>11, <2>3, <4>3
        <5>2. QED
          BY <3>1, <3>2, <3>3, <4>3, <5>1
      <4>4. QED
        BY <4>1, <4>2, <4>3
    <3>5. DOMAIN t = DOMAIN s
      BY <3>1, <3>2, <3>3
    <3>6. Heard(s, k, read[k])
      BY <2>1 DEF s
    <3>7. Heard(t, k, read[k])
      BY <3>1, <3>2, <3>4, <3>5, <3>6, HeardAlone
    <3>8. read'[k] = read[k] /\ mixed' = mixed
      BY <1>1, <1>5, <2>3
    <3>9. QED
      BY <3>7, <3>8 DEF t
  <2>4. QED
    BY <2>2, <2>3
<1>15. NeverTwoPackets' /\ SamplesAccounted'
  BY <1>1, <1>2 DEF NeverTwoPackets, SamplesAccounted
<1>16. QED
  BY <1>12, <1>13, <1>14, <1>15 DEF IInv

\* A complete chunk goes behind what is mixed, as much of it as fits behind what is queued.
LEMMA WriteChunkStep ==
  ASSUME IInv, WriteChunk
  PROVE  IInv'
<1> USE Sizes
<1> DEFINE n == Len(sum)
           accepted == Least(n, RingCapacity - Len(rxRing))
           head == SubSeq(sum, 1, accepted)
           rest == Least(left - n, Chunk)
<1>1. /\ at = "mix" /\ rxRing' = rxRing \o head /\ drops' = drops + (n - accepted)
      /\ mixed' = mixed \o sum /\ left' = left - n /\ sum' = Silence(rest)
      /\ at' = (IF left' > 0 THEN "mix" ELSE "send") /\ pair' = 1
      /\ UNCHANGED <<mark, read, pulls, sent, failed>>
  BY DEF WriteChunk
<1>2. /\ TypeOK /\ InOrder /\ NeverTwoPackets /\ SamplesAccounted /\ ChunkInProgress
  BY DEF IInv
<1>3. /\ sum \in Seq(DacSample) /\ n \in Nat /\ mixed \in Seq(DacSample) /\ Len(mixed) \in Nat
      /\ rxRing \in Seq(DacSample) /\ Len(rxRing) \in Nat /\ Len(rxRing) <= RingCapacity
      /\ left \in Nat /\ drops \in Nat
  BY <1>2, Lengths
<1>4. left > 0 /\ n = Least(left, Chunk) /\ Len(rxRing) + left < 2 * SamplesPerPkt
  BY <1>1, <1>2 DEF ChunkInProgress
<1>5. n > 0 /\ n <= left /\ left - n \in Nat
  BY <1>3, <1>4 DEF Least
<1> HIDE DEF n
<1>6. /\ accepted \in Nat /\ accepted <= n /\ Len(rxRing) + accepted <= RingCapacity
      /\ (n <= RingCapacity - Len(rxRing) => accepted = n)
  BY <1>3 DEF Least
<1>7. rest \in Nat
  BY <1>5 DEF Least
<1>8. /\ sum' \in Seq(DacSample) /\ Len(sum') = rest /\ DOMAIN sum' = 1..rest
      /\ \A i \in 1..rest, k \in PairIndex : sum'[i][k] = 0
  BY <1>1, <1>7, SilentChunk
<1> HIDE DEF accepted, rest
<1>9. head \in Seq(DacSample) /\ Len(head) = accepted
  <2>1. \A i \in 1..accepted : sum[i] \in DacSample
    BY <1>3, <1>6, ElementOfSeq DEF n
  <2>2. 1 \in Int /\ accepted \in Int
    BY <1>6
  <2>3. /\ SubSeq(sum, 1, accepted) \in Seq(DacSample)
        /\ Len(SubSeq(sum, 1, accepted)) = IF 1 <= accepted THEN accepted - 1 + 1 ELSE 0
    BY <2>1, <2>2, SubSeqProperties
  <2>4. QED
    BY <1>6, <2>3
<1> HIDE DEF head
<1>10. rxRing' \in Seq(DacSample) /\ Len(rxRing') = Len(rxRing) + accepted
  BY <1>1, <1>3, <1>9, ConcatProperties
<1>11. mixed' \in Seq(DacSample) /\ Len(mixed') = Len(mixed) + n
  BY <1>1, <1>3, ConcatProperties DEF n
<1>12. TypeOK'
  <2>1. Len(rxRing') <= RingCapacity /\ drops' \in Nat
    BY <1>1, <1>3, <1>6, <1>10
  <2>2. left' \in 0..SamplesPerPkt
    BY <1>1, <1>2, <1>3, <1>5 DEF TypeOK
  <2>3. at' \in {"idle", "mix", "send"} /\ pair' \in 1..(Pairs + 1)
    BY <1>1
  <2>4. QED
    BY <1>1, <1>2, <1>8, <1>10, <1>11, <2>1, <2>2, <2>3 DEF TypeOK
<1>13. ChunkInProgress'
  <2>1. Len(rxRing') + left' < 2 * SamplesPerPkt
    <3>1. left' = left - n /\ Len(rxRing') = Len(rxRing) + accepted
      BY <1>1, <1>10
    <3>2. n \in Nat /\ left \in Nat /\ Len(rxRing) \in Nat
      BY <1>3
    <3>3. QED
      BY <1>4, <1>6, <3>1, <3>2
  <2>2. \A k \in PairIndex : read'[k] <= mark'[k]
    BY <1>1, <1>2 DEF ChunkInProgress
  <2>3. CASE left' > 0
    <3>1. Len(sum') = Least(left', Chunk)
      BY <1>1, <1>8 DEF rest
    <3>2. \A i \in DOMAIN sum', k \in pair'..Pairs : sum'[i][k] = 0
      BY <1>1, <1>8 DEF PairIndex
    <3>3. QED
      BY <1>1, <2>1, <2>2, <2>3, <3>1, <3>2 DEF ChunkInProgress
  <2>4. CASE ~(left' > 0)
    <3>1. left' = 0 /\ rest = 0
      BY <1>1, <1>5, <2>4 DEF rest, Least
    <3>2. sum' = <<>>
      BY <1>8, <3>1, EmptySeq
    <3>3. QED
      BY <1>1, <2>1, <2>2, <2>4, <3>1, <3>2 DEF ChunkInProgress
  <2>5. QED
    BY <2>3, <2>4
<1>14. InOrder'
  <2> SUFFICES ASSUME NEW k \in PairIndex PROVE Heard(mixed' \o sum', k, read'[k])
    BY DEF InOrder
  <2>1. Heard(mixed', k, read[k]) /\ read[k] \in Nat
    BY <1>1, <1>2, Lengths DEF InOrder
  <2>2. Heard(mixed' \o Silence(rest), k, read[k])
    BY <1>7, <1>11, <2>1, HeardThenSilence
  <2>3. QED
    BY <1>1, <2>2
<1>15. NeverTwoPackets'
  <2>1. Len(rxRing') < 2 * SamplesPerPkt
    BY <1>3, <1>4, <1>5, <1>6, <1>10
  <2>2. ASSUME RingCapacity >= 2 * SamplesPerPkt - 1 PROVE drops' = 0
    <3>1. n <= RingCapacity - Len(rxRing)
      BY <1>3, <1>4, <1>5, <2>2
    <3>2. drops = 0 /\ accepted = n
      BY <1>2, <1>6, <2>2, <3>1 DEF NeverTwoPackets
    <3>3. n \in Nat /\ drops' = drops + (n - accepted)
      BY <1>1, <1>3
    <3>4. QED
      BY <3>2, <3>3
  <2>3. QED
    BY <2>1, <2>2 DEF NeverTwoPackets
<1>16. SamplesAccounted'
  <2> DEFINE gone == SamplesPerPkt * (sent + failed)
  <2>1. gone \in Nat /\ Len(mixed) = Len(rxRing) + drops + gone
    BY <1>2, Lengths DEF SamplesAccounted
  <2> HIDE DEF gone
  <2>2. Len(mixed') = Len(rxRing') + drops' + gone
    BY <1>1, <1>3, <1>6, <1>10, <1>11, <2>1
  <2>3. QED
    BY <1>1, <2>2 DEF SamplesAccounted, gone
<1>17. QED
  BY <1>12, <1>13, <1>14, <1>15, <1>16 DEF IInv

\* A packet leaves rx_ring, delivered or not.
LEMMA SendPacketStep ==
  ASSUME IInv, NEW ok \in BOOLEAN, SendPacket(ok)
  PROVE  IInv'
<1> USE Sizes
<1>1. /\ at = "send" /\ Len(rxRing) >= SamplesPerPkt /\ at' = "idle"
      /\ rxRing' = SubSeq(rxRing, SamplesPerPkt + 1, Len(rxRing))
      /\ UNCHANGED <<mark, read, left, pair, sum, drops, pulls, mixed>>
  BY DEF SendPacket, Consumed
<1>2. /\ TypeOK /\ InOrder /\ NeverTwoPackets /\ SamplesAccounted /\ ChunkInProgress
  BY DEF IInv
<1>3. /\ rxRing \in Seq(DacSample) /\ Len(rxRing) \in Nat /\ Len(rxRing) <= RingCapacity
      /\ sent \in Nat /\ failed \in Nat /\ left = 0
  BY <1>1, <1>2, Lengths DEF ChunkInProgress
<1>4. sent' \in Nat /\ failed' \in Nat /\ sent' + failed' = (sent + failed) + 1
  BY <1>3 DEF SendPacket
<1>5. rxRing' \in Seq(DacSample) /\ Len(rxRing') = Len(rxRing) - SamplesPerPkt
  <2> DEFINE a == SamplesPerPkt + 1  b == Len(rxRing)
  <2>1. a \in Int /\ b \in Int /\ \A i \in a..b : rxRing[i] \in DacSample
    BY <1>3, ElementOfSeq
  <2>2. /\ rxRing' = SubSeq(rxRing, a, b)
    BY <1>1
  <2> HIDE DEF a, b
  <2>3. rxRing' \in Seq(DacSample) /\ Len(rxRing') = IF a <= b THEN b - a + 1 ELSE 0
    BY <2>1, <2>2, SubSeqProperties
  <2>4. QED
    BY <1>1, <1>3, <2>3 DEF a, b
<1>6. TypeOK'
  <2>1. Len(rxRing') <= RingCapacity
    BY <1>3, <1>5
  <2>2. QED
    BY <1>1, <1>2, <1>4, <1>5, <2>1 DEF TypeOK
<1>7. ChunkInProgress'
  <2>1. Len(rxRing') + left' < 2 * SamplesPerPkt
    BY <1>1, <1>2, <1>3, <1>5 DEF ChunkInProgress
  <2>2. QED
    BY <1>1, <1>2, <2>1 DEF ChunkInProgress
<1>8. InOrder'
  BY <1>1, <1>2 DEF InOrder
<1>9. NeverTwoPackets'
  <2>1. Len(rxRing') < 2 * SamplesPerPkt
    BY <1>2, <1>3, <1>5 DEF NeverTwoPackets
  <2>2. QED
    BY <1>1, <1>2, <2>1 DEF NeverTwoPackets
<1>10. SamplesAccounted'
  <2> DEFINE p == sent + failed
  <2>1. p \in Nat /\ sent' + failed' = p + 1
    <3>1. p \in Nat
      BY <1>3
    <3>2. sent' + failed' = p + 1
      BY <1>4, Zenon
    <3>3. QED
      BY <3>1, <3>2
  <2>2. Len(mixed) = Len(rxRing) + drops + SamplesPerPkt * p /\ Len(mixed) \in Nat /\ drops \in Nat
    BY <1>2, Lengths DEF SamplesAccounted
  <2> HIDE DEF p
  <2>3. SamplesPerPkt * (p + 1) = SamplesPerPkt * p + SamplesPerPkt /\ SamplesPerPkt * p \in Nat
    BY <2>1
  <2> DEFINE gone == SamplesPerPkt * p  more == SamplesPerPkt * (p + 1)
  <2>4. gone \in Nat /\ more = gone + SamplesPerPkt /\ Len(mixed) = Len(rxRing) + drops + gone
    BY <2>2, <2>3
  <2>5. Len(mixed') = Len(mixed) /\ drops' = drops /\ SamplesPerPkt * (sent' + failed') = more
    BY <1>1, <2>1
  <2> HIDE DEF gone, more
  <2>6. Len(mixed') = Len(rxRing') + drops' + more
    BY <1>3, <1>5, <2>2, <2>4, <2>5
  <2>7. QED
    BY <2>5, <2>6 DEF SamplesAccounted
<1>11. QED
  BY <1>6, <1>7, <1>8, <1>9, <1>10 DEF IInv

\* The inductive invariant holds before the first pull.
LEMMA InitIInv == Init => IInv
<1> SUFFICES ASSUME Init PROVE IInv
  OBVIOUS
<1> USE Sizes
<1>1. /\ mark = [k \in PairIndex |-> 0] /\ read = [k \in PairIndex |-> 0]
      /\ at = "idle" /\ left = 0 /\ pair = 1 /\ sum = <<>> /\ rxRing = <<>>
      /\ drops = 0 /\ pulls = 0 /\ sent = 0 /\ failed = 0 /\ mixed = <<>>
  BY DEF Init
<1>2. <<>> \in Seq(DacSample) /\ Len(<<>>) = 0 /\ DOMAIN <<>> = {} /\ <<>> \o <<>> = <<>>
  BY ConcatEmptySeq
<1>3. mark \in [PairIndex -> 0..MaxMark] /\ read \in [PairIndex -> 0..MaxMark]
  BY <1>1
<1>4. pair \in 1..(Pairs + 1) /\ left \in 0..SamplesPerPkt /\ pulls \in 0..MaxPulls
  BY <1>1
<1>5. TypeOK
  BY <1>1, <1>2, <1>3, <1>4 DEF TypeOK
<1>6. ChunkInProgress
  <2>1. Len(rxRing) + left < 2 * SamplesPerPkt
    BY <1>1, <1>2
  <2>2. \A k \in PairIndex : read[k] <= mark[k]
    BY <1>1
  <2>3. QED
    BY <1>1, <2>1, <2>2 DEF ChunkInProgress
<1>7. InOrder
  <2> SUFFICES ASSUME NEW k \in PairIndex PROVE Heard(<<>>, k, 0)
    BY <1>1, <1>2 DEF InOrder
  <2>1. 1..0 = {} /\ {<<>>[i][k] : i \in DOMAIN <<>>} = {}
    BY <1>2
  <2>2. QED
    BY <1>2, <2>1 DEF Heard
<1>8. NeverTwoPackets /\ SamplesAccounted
  BY <1>1, <1>2 DEF NeverTwoPackets, SamplesAccounted
<1>9. QED
  BY <1>5, <1>6, <1>7, <1>8 DEF IInv

\* Every step keeps the inductive invariant.
LEMMA StepIInv == IInv /\ [Next]_vars => IInv'
<1> SUFFICES ASSUME IInv, [Next]_vars PROVE IInv'
  OBVIOUS
<1>1. CASE \E k \in PairIndex, n \in 1..MaxCommit : Commit(k, n)
  BY <1>1, CommitStep
<1>2. CASE Mixer
  BY <1>2, SendRxDataStep, ReadPairStep, WriteChunkStep DEF Mixer
<1>3. CASE Hold
  BY <1>3 DEF Hold, IInv, TypeOK, ChunkInProgress, InOrder, NeverTwoPackets, SamplesAccounted
<1>4. CASE \E ok \in BOOLEAN : SendPacket(ok)
  BY <1>4, SendPacketStep
<1>5. CASE UNCHANGED vars
  BY <1>5 DEF vars, IInv, TypeOK, ChunkInProgress, InOrder, NeverTwoPackets, SamplesAccounted
<1>6. QED
  BY <1>1, <1>2, <1>3, <1>4, <1>5 DEF Next

-----------------------------------------------------------------------------
(* The theorems.                                                           *)

\* The inductive invariant holds in every reachable state.
THEOREM IInvHolds == Spec => []IInv
<1>1. Init => IInv
  BY InitIInv
<1>2. IInv /\ [Next]_vars => IInv'
  BY StepIInv
<1>3. QED
  BY <1>1, <1>2, PTL DEF Spec

\* Every field keeps its type; rx_ring stays within its capacity.
THEOREM TypeCorrect == Spec => []TypeOK
<1>1. IInv => TypeOK
  BY DEF IInv
<1>2. QED
  BY <1>1, IInvHolds, PTL

\* ReceiverMix::pull mixes every position of every PairBuffer once, in order and without
\* holes, however the sources' commits fall between its reads and whatever the transport does.
THEOREM MixedInOrder == Spec => []InOrder
<1>1. IInv => InOrder
  BY DEF IInv
<1>2. QED
  BY <1>1, IInvHolds, PTL

\* send_rx_data never lets two packets gather in rx_ring, so rx_ring_drops_ stays 0 on every
\* ring with room for two packets less one sample.
THEOREM NoTwoPackets == Spec => []NeverTwoPackets
<1>1. IInv => NeverTwoPackets
  BY DEF IInv
<1>2. QED
  BY <1>1, IInvHolds, PTL

\* Every DAC sample mixed is queued, counted as dropped, or left in a packet.
THEOREM AllAccounted == Spec => []SamplesAccounted
<1>1. IInv => SamplesAccounted
  BY DEF IInv
<1>2. QED
  BY <1>1, IInvHolds, PTL
=============================================================================
