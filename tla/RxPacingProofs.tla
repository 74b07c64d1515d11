--------------------------- MODULE RxPacingProofs -----------------------------
(***************************************************************************)
(* Proofs about RxPacing, for every packet and buffer size, latency, ring  *)
(* and id range: the tracker's extrapolation is exact as long as no        *)
(* transfer went wrong since its anchor, its catch-up is bounded, the modem*)
(* refuses no packet while no transfer goes wrong, and a lost status leaves*)
(* the measured rate true.                                                 *)
(***************************************************************************)
EXTENDS RxPacing, SequenceTheorems, TLAPS

\* The constants are numbers.
LEMMA Sizes ==
  /\ P \in Nat /\ Capacity \in Nat /\ Target \in Nat /\ Period \in Nat /\ Burst \in Nat
  /\ Keepalive \in Nat /\ Ring \in Nat /\ Ids \in Nat /\ Unit \in Nat
  /\ P > 0 /\ Period > 0 /\ Burst > 0 /\ Keepalive > 0 /\ Ring > 0 /\ Ids > 0 /\ Unit > 0
  /\ Low \in Nat /\ High \in Nat /\ Catchup \in Nat /\ Latency \in Nat /\ MaxPending \in Nat
  /\ MaxAge \in Nat /\ MaxFaults \in Nat /\ MaxEntryAge \in Nat /\ MaxEntryAge > Latency
  /\ MaxEntryAge <= MaxAge
  /\ Burst <= Period /\ Ring < Ids /\ EntryFills \subseteq 0..Capacity
  /\ Unit \in Rates /\ Rates \subseteq Nat
  BY PacingAssumption

-----------------------------------------------------------------------------
(* Arithmetic.                                                             *)

\* The only multiple of m strictly between -m and m is 0.
LEMMA SmallMultiple ==
  ASSUME NEW m \in Nat \ {0}, NEW d \in Int, m * d < m, -m < m * d
  PROVE  d = 0
<1>1. CASE d >= 1
  <2>1. m * d = m * (d - 1) + m /\ m * (d - 1) >= 0
    BY <1>1, Z3
  <2>2. QED
    BY <2>1, Z3
<1>2. CASE d <= -1
  <2>1. m * d = m * (d + 1) - m /\ m * (d + 1) <= 0
    BY <1>2, Z3
  <2>2. QED
    BY <2>1, Z3
<1>3. QED
  BY <1>1, <1>2, Z3

\* At the nominal rate a modem plays one sample per tick: rounding adds nothing.
LEMMA RoundedAtUnit ==
  ASSUME NEW n \in Nat
  PROVE  (2 * n * Unit + Unit) \div (2 * Unit) = n
<1> DEFINE m == 2 * Unit  a == 2 * n * Unit + Unit  q == a \div m  r == a % m  d == q - n
<1>1. m \in Nat \ {0} /\ Unit \in Nat /\ Unit < m /\ Unit > 0
  BY Sizes
<1>2. a = m * n + Unit
  BY Sizes, Z3
<1>3. a \in Int
  BY Sizes, Z3
<1> HIDE DEF a, m
<1>4. q \in Int /\ r \in 0..(m - 1) /\ a = m * q + r
  BY <1>1, <1>3, Z3
<1> HIDE DEF q, r
<1>5. m * (q - n) = m * q - m * n
  BY <1>1, <1>4, Z3
<1>6. d \in Int /\ m * d = Unit - r
  <2> DEFINE mq == m * q  mn == m * n
  <2>1. mq \in Int /\ mn \in Int
    BY <1>1, <1>4, Z3
  <2>2. a = mn + Unit /\ a = mq + r /\ m * d = mq - mn
    BY <1>2, <1>4, <1>5
  <2> HIDE DEF mq, mn
  <2>3. QED
    BY <1>1, <1>4, <2>1, <2>2
<1> HIDE DEF d
<1>7. d = 0
  BY <1>1, <1>4, <1>6, SmallMultiple
<1>8. q = n
  BY <1>4, <1>7 DEF d
<1>9. QED
  BY <1>8 DEF q, a, m

\* As many steps of size b as fit below x are no more than the quotient.
LEMMA StepsThatFit ==
  ASSUME NEW b \in Nat \ {0}, NEW x \in Nat, NEW k \in Nat, k * b <= x
  PROVE  k <= x \div b /\ x \div b \in Int
<1> DEFINE q == x \div b  r == x % b
<1>1. q \in Int /\ r \in 0..(b - 1) /\ x = b * q + r
  BY Z3
<1> HIDE DEF q, r
<1>2. SUFFICES ASSUME k >= q + 1 PROVE FALSE
  BY <1>1 DEF q
<1>3. (k - (q + 1)) * b >= 0
  BY <1>1, <1>2, Z3
<1>4. (k - (q + 1)) * b = k * b - (b * q + b)
  BY <1>1, Z3
<1>5. b * q \in Int /\ k * b \in Int
  BY <1>1, Z3
<1>6. QED
  BY <1>1, <1>3, <1>4, <1>5

\* Ids wrap.
LEMMA NextIdIs ==
  ASSUME NEW id \in 0..(Ids - 1)
  PROVE  NextId(id) = (IF id + 1 = Ids THEN 0 ELSE id + 1) /\ NextId(id) \in 0..(Ids - 1)
<1>1. Ids \in Nat \ {0}
  BY Sizes
<1>2. CASE id + 1 = Ids
  <2>1. Ids % Ids = 0
    BY <1>1, Z3
  <2>2. QED
    BY <1>1, <1>2, <2>1 DEF NextId
<1>3. CASE id + 1 # Ids
  <2>1. (id + 1) \in 0..(Ids - 1)
    BY <1>1, <1>3
  <2>2. (id + 1) % Ids = id + 1
    BY <1>1, <2>1, Z3
  <2>3. QED
    BY <1>3, <2>1, <2>2 DEF NextId
<1>4. QED
  BY <1>2, <1>3

LEMMA ClampIs ==
  ASSUME NEW x \in Int, NEW lo \in Int, NEW hi \in Int, lo <= hi
  PROVE  /\ Clamp(x, lo, hi) \in Int /\ lo <= Clamp(x, lo, hi) /\ Clamp(x, lo, hi) <= hi
         /\ (lo <= x /\ x <= hi => Clamp(x, lo, hi) = x)
         /\ (x < lo => Clamp(x, lo, hi) = lo) /\ (x > hi => Clamp(x, lo, hi) = hi)
  BY DEF Clamp

-----------------------------------------------------------------------------
(* What the tracker's operations do to its fields.                         *)

\* A function on 1..n is a sequence of length n.
LEMMA FunctionIsSeq ==
  ASSUME NEW S, NEW n \in Nat, NEW f \in [1..n -> S]
  PROVE  f \in Seq(S) /\ Len(f) = n /\ DOMAIN f = 1..n
<1>1. f \in Seq(S)
  BY SeqDef
<1>2. 1..Len(f) = 1..n /\ Len(f) \in Nat
  BY <1>1, LenProperties
<1>3. Len(f) = n
  BY <1>2
<1>4. QED
  BY <1>1, <1>3

\* The fields of a tracker.
LEMMA TrackerFields ==
  ASSUME NEW u \in Tracker
  PROVE  /\ u.has \in BOOLEAN /\ u.fill \in 0..Capacity /\ u.age \in 0..MaxAge /\ u.sent \in Nat
         /\ u.ring \in Seq(Entry) /\ Len(u.ring) \in Nat /\ DOMAIN u.ring = 1..Len(u.ring)
         /\ u.rate \in Rates /\ u.sched \in BOOLEAN /\ u.due \in Int /\ u.since \in 0..Keepalive
         /\ u.holding \in BOOLEAN /\ u.fallback \in BOOLEAN /\ u.skip \in BOOLEAN
         /\ u.prev \in -1..(Ids - 1)
         /\ \A i \in DOMAIN u.ring : u.ring[i].id \in 0..(Ids - 1) /\ u.ring[i].age \in 0..MaxEntryAge
<1>1. /\ u.has \in BOOLEAN /\ u.fill \in 0..Capacity /\ u.age \in 0..MaxAge /\ u.sent \in Nat
      /\ u.ring \in Seq(Entry)
      /\ u.rate \in Rates /\ u.sched \in BOOLEAN /\ u.due \in Int /\ u.since \in 0..Keepalive
      /\ u.holding \in BOOLEAN /\ u.fallback \in BOOLEAN /\ u.skip \in BOOLEAN
      /\ u.prev \in -1..(Ids - 1)
  BY DEF Tracker
<1>2. Len(u.ring) \in Nat /\ DOMAIN u.ring = 1..Len(u.ring)
  BY <1>1, LenProperties
<1>3. ASSUME NEW i \in DOMAIN u.ring
      PROVE  u.ring[i].id \in 0..(Ids - 1) /\ u.ring[i].age \in 0..MaxEntryAge
  <2>1. u.ring[i] \in Entry
    BY <1>1, <1>2, ElementOfSeq
  <2>2. QED
    BY <2>1 DEF Entry
<1>4. QED
  BY <1>1, <1>2, <1>3

\* A blank tracker keeps the rate alone.
LEMMA BlankIs ==
  ASSUME NEW r \in Rates
  PROVE  /\ Blank(r) \in Tracker /\ Blank(r).ring = <<>> /\ Blank(r).rate = r
         /\ Blank(r).sched = FALSE /\ Blank(r).has = FALSE /\ Blank(r).since = 0
         /\ Blank(r).prev = -1
<1>1. <<>> \in Seq(Entry) /\ -1 \in -1..(Ids - 1)
  BY Sizes
<1>2. QED
  BY <1>1, Sizes DEF Blank, Tracker

\* on_packet_sent puts an entry before the others, of which the oldest may go.
LEMMA SentIs ==
  ASSUME NEW u \in Tracker, NEW id \in 0..(Ids - 1), NEW v, v = Sent(u, id)
  PROVE  /\ v \in Tracker /\ v.sent = u.sent + P
         /\ v.has = u.has /\ v.fill = u.fill /\ v.age = u.age /\ v.rate = u.rate
         /\ v.sched = u.sched /\ v.due = u.due /\ v.since = u.since /\ v.prev = u.prev
         /\ Len(v.ring) <= Ring /\ Len(v.ring) > 0 /\ Len(v.ring) <= Len(u.ring) + 1
         /\ v.ring[1] = [id |-> id, age |-> 0]
         /\ \A i \in DOMAIN v.ring : i > 1 => (i - 1) \in DOMAIN u.ring /\ v.ring[i] = u.ring[i - 1]
<1> USE Sizes
<1> DEFINE e == <<[id |-> id, age |-> 0]>>
           all == e \o u.ring
           n == IF Len(all) > Ring THEN Ring ELSE Len(all)
           cut == SubSeq(all, 1, n)
<1>1. u.ring \in Seq(Entry) /\ Len(u.ring) \in Nat /\ DOMAIN u.ring = 1..Len(u.ring) /\ u.sent \in Nat
  BY TrackerFields
<1>2. e \in Seq(Entry) /\ Len(e) = 1 /\ e[1] = [id |-> id, age |-> 0]
  BY DEF Entry
<1>3. v = [u EXCEPT !.sent = @ + P, !.ring = cut]
  BY DEF Sent
<1> HIDE DEF e
<1>4. /\ all \in Seq(Entry) /\ Len(all) = 1 + Len(u.ring)
      /\ \A i \in 1..(1 + Len(u.ring)) : all[i] = IF i <= 1 THEN e[i] ELSE u.ring[i - 1]
  <2>1. u.ring \in Seq(Entry) /\ e \in Seq(Entry)
    BY <1>1, <1>2
  <2>2. /\ all \in Seq(Entry) /\ Len(all) = Len(e) + Len(u.ring)
        /\ \A i \in 1..(Len(e) + Len(u.ring)) :
             all[i] = IF i <= Len(e) THEN e[i] ELSE u.ring[i - Len(e)]
    BY ONLY <2>1, ConcatProperties
  <2>3. QED
    BY <1>2, <2>2
<1>5. n \in Nat /\ n > 0 /\ n <= Ring /\ n <= Len(all)
  BY <1>1, <1>4
<1> HIDE DEF all, n
<1>6. cut \in Seq(Entry) /\ Len(cut) = n /\ \A i \in 1..n : cut[i] = all[i]
  <2>1. \A i \in 1..n : all[i] \in Entry
    BY <1>1, <1>4, <1>5, ElementOfSeq
  <2>2. 1 \in Int /\ n \in Int
    BY <1>5
  <2>3. /\ cut \in Seq(Entry) /\ Len(cut) = (IF 1 <= n THEN n - 1 + 1 ELSE 0)
        /\ \A i \in 1..(n - 1 + 1) : cut[i] = all[1 + i - 1]
    BY <2>1, <2>2, SubSeqProperties
  <2>4. n - 1 + 1 = n /\ \A i \in 1..n : 1 + i - 1 = i
    BY <1>5
  <2>5. QED
    BY <1>5, <2>3, <2>4
<1> HIDE DEF cut
<1>7. v \in Tracker
  <2>1. u.sent + P \in Nat
    BY <1>1
  <2>2. QED
    BY <1>3, <1>6, <2>1 DEF Tracker
<1>8. /\ v.ring = cut /\ v.sent = u.sent + P
      /\ v.has = u.has /\ v.fill = u.fill /\ v.age = u.age /\ v.rate = u.rate
      /\ v.sched = u.sched /\ v.due = u.due /\ v.since = u.since /\ v.prev = u.prev
  BY <1>3 DEF Tracker
<1>9. DOMAIN cut = 1..n
  BY <1>6, LenProperties
<1>10. Len(cut) <= Ring /\ Len(cut) > 0 /\ Len(cut) <= Len(u.ring) + 1
  BY <1>1, <1>4, <1>5, <1>6
<1>11. cut[1] = [id |-> id, age |-> 0]
  <2>1. 1 \in 1..n /\ 1 \in 1..(1 + Len(u.ring)) /\ 1 <= 1
    BY <1>1, <1>5
  <2>2. cut[1] = all[1]
    BY <1>6, <2>1, Zenon
  <2>3. all[1] = e[1]
    BY <1>4, <2>1, Zenon
  <2>4. QED
    BY <1>2, <2>2, <2>3, Zenon
<1>12. ASSUME NEW i \in 1..n, i > 1 PROVE (i - 1) \in DOMAIN u.ring /\ cut[i] = u.ring[i - 1]
  <2>1. i \in 1..(1 + Len(u.ring)) /\ ~(i <= 1) /\ i - 1 \in 1..Len(u.ring)
    BY <1>1, <1>4, <1>5, <1>12
  <2>2. QED
    BY <1>1, <1>4, <1>6, <2>1
<1>13. QED
  BY <1>7, <1>8, <1>9, <1>10, <1>11, <1>12

\* A tick ages the anchor and the entries.
LEMMA AgedIs ==
  ASSUME NEW u \in Tracker, NEW v, v = Aged(u)
  PROVE  /\ v \in Tracker /\ v.has = u.has /\ v.fill = u.fill /\ v.sent = u.sent /\ v.rate = u.rate
         /\ v.sched = u.sched /\ v.prev = u.prev
         /\ v.age = (IF u.has THEN Clamp(u.age + 1, 0, MaxAge) ELSE 0)
         /\ v.due = (IF u.sched THEN Clamp(u.due - 1, -(Behind + 1), u.due) ELSE 0)
         /\ v.since = (IF u.sched THEN Clamp(u.since + 1, 0, Keepalive) ELSE 0)
         /\ Len(v.ring) = Len(u.ring) /\ DOMAIN v.ring = DOMAIN u.ring
         /\ \A i \in DOMAIN u.ring : /\ v.ring[i].id = u.ring[i].id
                                     /\ v.ring[i].age = Clamp(u.ring[i].age + 1, 0, MaxEntryAge)
<1> USE Sizes
<1>1. /\ u.ring \in Seq(Entry) /\ Len(u.ring) \in Nat /\ DOMAIN u.ring = 1..Len(u.ring)
      /\ u.age \in 0..MaxAge /\ u.since \in 0..Keepalive /\ u.due \in Int
      /\ \A i \in DOMAIN u.ring : u.ring[i].id \in 0..(Ids - 1) /\ u.ring[i].age \in 0..MaxEntryAge
  BY TrackerFields
<1> DEFINE age == IF u.has THEN Clamp(u.age + 1, 0, MaxAge) ELSE 0
           due == IF u.sched THEN Clamp(u.due - 1, -(Behind + 1), u.due) ELSE 0
           since == IF u.sched THEN Clamp(u.since + 1, 0, Keepalive) ELSE 0
           ring == [i \in DOMAIN u.ring |->
                     [id |-> u.ring[i].id, age |-> Clamp(u.ring[i].age + 1, 0, MaxEntryAge)]]
<1>2. v = [u EXCEPT !.age = age, !.ring = ring, !.due = due, !.since = since]
  BY Zenon DEF Aged, Behind
<1>3. age \in 0..MaxAge /\ since \in 0..Keepalive
  BY <1>1 DEF Clamp
<1>4. due \in Int
  <2>1. Behind \in Int
    BY Z3 DEF Behind
  <2>2. QED
    BY <1>1, <2>1 DEF Clamp
<1>5. ASSUME NEW i \in DOMAIN u.ring
      PROVE  /\ ring[i] \in Entry /\ ring[i].id = u.ring[i].id
             /\ ring[i].age = Clamp(u.ring[i].age + 1, 0, MaxEntryAge)
  <2>1. u.ring[i].id \in 0..(Ids - 1) /\ u.ring[i].age \in 0..MaxEntryAge
    BY <1>1
  <2>2. Clamp(u.ring[i].age + 1, 0, MaxEntryAge) \in 0..MaxEntryAge
    BY <2>1 DEF Clamp
  <2>3. ring[i] = [id |-> u.ring[i].id, age |-> Clamp(u.ring[i].age + 1, 0, MaxEntryAge)]
    OBVIOUS
  <2>4. QED
    BY <2>1, <2>2, <2>3 DEF Entry
<1> HIDE DEF age, due, since
<1>6. ring \in [1..Len(u.ring) -> Entry]
  BY <1>1, <1>5
<1> HIDE DEF ring
<1>7. ring \in Seq(Entry) /\ Len(ring) = Len(u.ring) /\ DOMAIN ring = DOMAIN u.ring
  BY <1>1, <1>6, FunctionIsSeq
<1>8. v \in Tracker
  BY <1>2, <1>3, <1>4, <1>7 DEF Tracker
<1>9. /\ v.has = u.has /\ v.fill = u.fill /\ v.sent = u.sent /\ v.rate = u.rate /\ v.sched = u.sched
      /\ v.prev = u.prev /\ v.age = age /\ v.due = due /\ v.since = since /\ v.ring = ring
  BY <1>2 DEF Tracker
<1>10. QED
  BY <1>5, <1>7, <1>8, <1>9 DEF age, due, since

\* A tracker with fields of their types is a tracker.
LEMMA Updated ==
  ASSUME NEW u \in Tracker
  PROVE  /\ \A b \in BOOLEAN, d \in Int, n \in 0..Keepalive :
              [u EXCEPT !.sched = b, !.due = d, !.since = n] \in Tracker
         /\ \A b \in BOOLEAN : [u EXCEPT !.holding = b] \in Tracker
         /\ \A n \in 0..Keepalive : [u EXCEPT !.since = n] \in Tracker
         /\ \A d \in Int, n \in 0..Keepalive : [u EXCEPT !.since = n, !.due = d] \in Tracker
         /\ \A b, c \in BOOLEAN, f \in 0..Capacity, a \in 0..MaxAge, n \in Nat :
              [u EXCEPT !.has = b, !.fill = f, !.age = a, !.sent = n, !.fallback = c] \in Tracker
         /\ \A b, c, d \in BOOLEAN, f \in 0..Capacity, a \in 0..MaxAge, n \in Nat :
              [u EXCEPT !.has = b, !.fill = f, !.age = a, !.sent = n, !.fallback = c, !.skip = d]
                \in Tracker
         /\ \A b \in BOOLEAN, r \in Rates, n \in -1..(Ids - 1) :
              [u EXCEPT !.rate = r, !.prev = n, !.skip = b] \in Tracker
<1>1. \A b \in BOOLEAN, d \in Int, n \in 0..Keepalive :
        [u EXCEPT !.sched = b, !.due = d, !.since = n] \in Tracker
  BY DEF Tracker
<1>2. \A b \in BOOLEAN : [u EXCEPT !.holding = b] \in Tracker
  BY DEF Tracker
<1>3. /\ \A n \in 0..Keepalive : [u EXCEPT !.since = n] \in Tracker
      /\ \A d \in Int, n \in 0..Keepalive : [u EXCEPT !.since = n, !.due = d] \in Tracker
  BY DEF Tracker
<1>4. \A b, c \in BOOLEAN, f \in 0..Capacity, a \in 0..MaxAge, n \in Nat :
        [u EXCEPT !.has = b, !.fill = f, !.age = a, !.sent = n, !.fallback = c] \in Tracker
  BY ZenonT(120) DEF Tracker
<1>5. \A b, c, d \in BOOLEAN, f \in 0..Capacity, a \in 0..MaxAge, n \in Nat :
        [u EXCEPT !.has = b, !.fill = f, !.age = a, !.sent = n, !.fallback = c, !.skip = d] \in Tracker
  BY ZenonT(120) DEF Tracker
<1>6. \A b \in BOOLEAN, r \in Rates, n \in -1..(Ids - 1) :
        [u EXCEPT !.rate = r, !.prev = n, !.skip = b] \in Tracker
  BY DEF Tracker
<1>7. QED
  BY <1>1, <1>2, <1>3, <1>4, <1>5, <1>6

\* An anchor is the status's, and of a packet of the ring unless it is a fallback; the
\* ring and the schedule are as before.
LEMMA TakenIs ==
  ASSUME NEW u \in Tracker, NEW st \in Status, NEW r \in Rates,
         NEW w, w = StatusTaken(u, st, r)
  PROVE  /\ w \in Tracker /\ w.has /\ w.fill = st.fill /\ w.ring = u.ring /\ w.rate = r
         /\ w.sched = u.sched /\ w.due = u.due /\ w.since = u.since /\ w.prev = st.expected
         /\ Anchored(u, st).fallback \in BOOLEAN /\ Anchored(u, st).fill = st.fill
         /\ w.age = Anchored(u, st).age
         /\ ~Anchored(u, st).fallback => \E i \in DOMAIN u.ring :
              u.ring[i].id = st.ref /\ w.age = u.ring[i].age /\ w.sent = (i - 1) * P
<1> USE Sizes
<1>0. /\ TRUE \in BOOLEAN /\ FALSE \in BOOLEAN /\ 0 \in 0..MaxAge /\ 0 \in Nat /\ 0 \in Int
      /\ 0 \in 0..Keepalive
  OBVIOUS
<1>1. /\ st.fill \in 0..Capacity /\ st.expected \in -1..(Ids - 1) /\ u.prev \in -1..(Ids - 1)
      /\ DOMAIN u.ring = 1..Len(u.ring)
      /\ \A i \in DOMAIN u.ring : u.ring[i].age \in 0..MaxEntryAge
  BY TrackerFields DEF Status
<1> DEFINE v == Anchored(u, st)
<1>2. w = [v EXCEPT !.rate = r, !.prev = st.expected, !.skip = FALSE]
  BY Zenon DEF StatusTaken
<1>3. CASE Found(u, st.ref) # {}
  <2> DEFINE k == CHOOSE k \in Found(u, st.ref) : TRUE
  <2>1. k \in DOMAIN u.ring /\ u.ring[k].id = st.ref
    BY <1>3 DEF Found
  <2>2. v = [u EXCEPT !.has = TRUE, !.fill = st.fill, !.age = u.ring[k].age,
                      !.sent = (k - 1) * P, !.fallback = FALSE]
    BY <1>3, Zenon DEF Anchored
  <2> HIDE DEF k, v
  <2>3. u.ring[k].age \in 0..MaxAge
    BY <1>1, <2>1
  <2>4. (k - 1) * P \in Nat
    <3>1. k - 1 \in Nat
      BY <1>1, <2>1
    <3>2. QED
      BY <3>1, Z3
  <2> DEFINE age == u.ring[k].age  sent == (k - 1) * P
  <2>5. v = [u EXCEPT !.has = TRUE, !.fill = st.fill, !.age = age, !.sent = sent, !.fallback = FALSE]
    BY <2>2
  <2>6. age \in 0..MaxAge /\ sent \in Nat
    BY <2>3, <2>4
  <2> HIDE DEF age, sent
  <2>7. v \in Tracker /\ w \in Tracker
    <3>1. v \in Tracker
      <4>1. \A b, c \in BOOLEAN, f \in 0..Capacity, a \in 0..MaxAge, n \in Nat :
              [u EXCEPT !.has = b, !.fill = f, !.age = a, !.sent = n, !.fallback = c] \in Tracker
        BY ONLY u \in Tracker, Updated
      <4>2. QED
        BY ONLY <1>0, <1>1, <2>5, <2>6, <4>1, Zenon
    <3>2. w \in Tracker
      <4>1. \A b \in BOOLEAN, p \in Rates, n \in -1..(Ids - 1) :
              [v EXCEPT !.rate = p, !.prev = n, !.skip = b] \in Tracker
        BY ONLY <3>1, Updated
      <4>2. QED
        BY ONLY <1>0, <1>1, <1>2, <4>1, r \in Rates, Zenon
    <3>3. QED
      BY <3>1, <3>2
  <2>8. /\ w.has /\ w.fill = st.fill /\ w.ring = u.ring /\ w.rate = r
        /\ w.sched = u.sched /\ w.due = u.due /\ w.since = u.since /\ w.prev = st.expected
        /\ v.fallback = FALSE /\ w.age = age /\ w.sent = sent /\ w.age = v.age /\ v.fill = st.fill
    BY <1>2, <2>5 DEF Tracker
  <2>9. QED
    BY <2>1, <2>7, <2>8 DEF age, sent, v
<1>4. CASE Found(u, st.ref) = {}
  <2>1. v = [u EXCEPT !.has = TRUE, !.fill = st.fill, !.age = 0, !.sent = 0,
                      !.fallback = TRUE, !.skip = TRUE]
    BY <1>4, Zenon DEF Anchored
  <2> HIDE DEF v
  <2>2. v \in Tracker /\ w \in Tracker
    <3>1. v \in Tracker
      <4>1. \A b, c, d \in BOOLEAN, f \in 0..Capacity, a \in 0..MaxAge, n \in Nat :
              [u EXCEPT !.has = b, !.fill = f, !.age = a, !.sent = n, !.fallback = c, !.skip = d]
                \in Tracker
        BY ONLY u \in Tracker, Updated
      <4>2. QED
        BY ONLY <1>0, <1>1, <2>1, <4>1, Zenon
    <3>2. w \in Tracker
      <4>1. \A b \in BOOLEAN, p \in Rates, n \in -1..(Ids - 1) :
              [v EXCEPT !.rate = p, !.prev = n, !.skip = b] \in Tracker
        BY ONLY <3>1, Updated
      <4>2. QED
        BY ONLY <1>0, <1>1, <1>2, <4>1, r \in Rates, Zenon
    <3>3. QED
      BY <3>1, <3>2
  <2>3. /\ w.has /\ w.fill = st.fill /\ w.ring = u.ring /\ w.rate = r
        /\ w.sched = u.sched /\ w.due = u.due /\ w.since = u.since /\ w.prev = st.expected
        /\ v.fallback = TRUE /\ w.age = v.age /\ v.fill = st.fill
    BY <1>2, <2>1 DEF Tracker
  <2>4. QED
    BY <2>2, <2>3 DEF v
<1>5. QED
  BY <1>3, <1>4

\* A call of should_send changes the schedule alone: it moves on when the call says yes,
\* unless that is for a keepalive.
LEMMA DecidedIs ==
  ASSUME NEW u \in Tracker, NEW s, s = Scheduled(u), NEW v, v = Decided(s)
  PROVE  /\ v \in Tracker /\ v.has = u.has /\ v.fill = u.fill /\ v.age = u.age /\ v.sent = u.sent
         /\ v.rate = u.rate /\ v.ring = u.ring /\ v.sched /\ Go(s) \in BOOLEAN
         /\ v.prev = u.prev
         /\ s.due = (IF u.sched THEN u.due ELSE 0) /\ s.since = (IF u.sched THEN u.since ELSE 0)
         /\ ~Go(s) => v.due = s.due /\ v.since = s.since
         /\ Go(s) => /\ v.since = 0
                     /\ \/ v.due = s.due /\ s.since >= Keepalive
                        \/ s.due <= 0 /\ \E p \in {Burst, Period} : v.due = Rescheduled(s.due, p)
<1> USE Sizes
<1>0. /\ TRUE \in BOOLEAN /\ FALSE \in BOOLEAN /\ 0 \in 0..MaxAge /\ 0 \in Nat /\ 0 \in Int
      /\ 0 \in 0..Keepalive
  OBVIOUS
<1>1. /\ s \in Tracker /\ s.has = u.has /\ s.fill = u.fill /\ s.age = u.age /\ s.sent = u.sent
      /\ s.rate = u.rate /\ s.ring = u.ring /\ s.sched /\ s.prev = u.prev
      /\ s.due = (IF u.sched THEN u.due ELSE 0) /\ s.since = (IF u.sched THEN u.since ELSE 0)
  <2>1. CASE u.sched
    BY <2>1 DEF Scheduled
  <2>2. CASE ~u.sched
    <3>1. s = [u EXCEPT !.sched = TRUE, !.due = 0, !.since = 0]
      BY <2>2 DEF Scheduled
    <3>2. s \in Tracker
      <4>1. \A b \in BOOLEAN, d \in Int, n \in 0..Keepalive :
              [u EXCEPT !.sched = b, !.due = d, !.since = n] \in Tracker
        BY ONLY u \in Tracker, Updated
      <4>2. QED
        BY ONLY <1>0, <3>1, <4>1, Zenon
    <3>3. /\ s.has = u.has /\ s.fill = u.fill /\ s.age = u.age /\ s.sent = u.sent
          /\ s.rate = u.rate /\ s.ring = u.ring /\ s.prev = u.prev /\ s.sched = TRUE /\ s.due = 0 /\ s.since = 0
      BY <3>1 DEF Tracker
    <3>4. QED
      BY <2>2, <3>2, <3>3
  <2>3. QED
    BY <2>1, <2>2
<1>2. s.due \in Int /\ s.since \in 0..Keepalive /\ s.holding \in BOOLEAN
  BY <1>1, TrackerFields
<1> DEFINE holds == Holds(s)  w == [s EXCEPT !.holding = holds]  p == SlotPeriod(s)
           due == Rescheduled(s.due, p)
<1>3. holds \in BOOLEAN
  <2>1. CASE s.holding
    BY <2>1, Zenon DEF Holds
  <2>2. CASE ~s.holding
    <3>1. (Effective(s) > Target + High) \in BOOLEAN
      OBVIOUS
    <3>2. QED
      BY <2>2, <3>1, Zenon DEF Holds
  <2>3. QED
    BY <2>1, <2>2
<1>4. p \in {Burst, Period} /\ due \in Int
  <2>1. p \in {Burst, Period}
    BY DEF SlotPeriod
  <2>2. QED
    BY <1>2, <2>1 DEF Rescheduled
<1>5. v = IF ~Go(s) THEN w ELSE IF holds THEN [w EXCEPT !.since = 0]
                                ELSE [w EXCEPT !.since = 0, !.due = due]
  BY Zenon DEF Decided
<1>6. Go(s) \in BOOLEAN /\ (Go(s) => IF holds THEN s.since >= Keepalive ELSE s.due <= 0)
  <2> DEFINE rare == s.since >= Keepalive  open == s.due <= 0
  <2>1. Go(s) = IF holds THEN rare ELSE open
    BY Zenon DEF Go, KeepaliveDue
  <2>2. rare \in BOOLEAN /\ open \in BOOLEAN
    OBVIOUS
  <2> HIDE DEF holds, rare, open
  <2>3. CASE holds
    BY <2>1, <2>2, <2>3, Zenon DEF rare
  <2>4. CASE ~holds
    BY <2>1, <2>2, <2>4, Zenon DEF open
  <2>5. QED
    BY <2>3, <2>4
<1> HIDE DEF holds, p
<1>7. p \in {Burst, Period} => (due = Rescheduled(s.due, p))
  OBVIOUS
<1> HIDE DEF due
<1>8. w \in Tracker /\ [w EXCEPT !.since = 0] \in Tracker /\ [w EXCEPT !.since = 0, !.due = due] \in Tracker
  <2>1. w \in Tracker
    BY <1>1, <1>3 DEF Tracker
  <2>2. due \in Int
    BY <1>4
  <2> HIDE DEF w
  <2>3. [w EXCEPT !.since = 0] \in Tracker
    BY <2>1, <1>0, Updated, Zenon
  <2>4. [w EXCEPT !.since = 0, !.due = due] \in Tracker
    BY <2>1, <2>2, <1>0, Updated, Zenon
  <2>5. QED
    BY <2>1, <2>3, <2>4
<1>9. /\ w.has = s.has /\ w.fill = s.fill /\ w.age = s.age /\ w.sent = s.sent /\ w.rate = s.rate
      /\ w.ring = s.ring /\ w.prev = s.prev /\ w.sched = s.sched /\ w.due = s.due /\ w.since = s.since
  BY <1>1 DEF Tracker
<1> HIDE DEF w
<1>10. CASE ~Go(s)
  <2>1. v = w
    BY <1>5, <1>10
  <2>2. /\ v \in Tracker /\ v.has = u.has /\ v.fill = u.fill /\ v.age = u.age /\ v.sent = u.sent
        /\ v.rate = u.rate /\ v.ring = u.ring /\ v.prev = u.prev /\ v.sched /\ v.due = s.due /\ v.since = s.since
    BY <1>1, <1>8, <1>9, <2>1
  <2>3. QED
    BY <1>1, <1>6, <1>10, <2>2
<1>11. CASE Go(s) /\ holds
  <2>1. v = [w EXCEPT !.since = 0]
    BY <1>5, <1>11
  <2>2. v \in Tracker
    BY <1>8, <2>1
  <2>3. /\ v.has = w.has /\ v.fill = w.fill /\ v.age = w.age /\ v.sent = w.sent
        /\ v.rate = w.rate /\ v.ring = w.ring /\ v.prev = w.prev /\ v.sched = w.sched /\ v.since = 0 /\ v.due = w.due
    BY <1>8, <2>1 DEF Tracker
  <2>4. s.since >= Keepalive
    BY <1>6, <1>11
  <2>5. QED
    BY <1>1, <1>9, <1>11, <2>2, <2>3, <2>4
<1>12. CASE Go(s) /\ ~holds
  <2>1. v = [w EXCEPT !.since = 0, !.due = due]
    BY <1>5, <1>12
  <2>2. /\ v \in Tracker /\ v.has = u.has /\ v.fill = u.fill /\ v.age = u.age /\ v.sent = u.sent
        /\ v.rate = u.rate /\ v.ring = u.ring /\ v.prev = u.prev /\ v.sched /\ v.since = 0 /\ v.due = due
    <3>1. v \in Tracker
      BY <1>8, <2>1
    <3>2. /\ v.has = w.has /\ v.fill = w.fill /\ v.age = w.age /\ v.sent = w.sent
          /\ v.rate = w.rate /\ v.ring = w.ring /\ v.prev = w.prev /\ v.sched = w.sched /\ v.since = 0 /\ v.due = due
      BY <1>8, <2>1 DEF Tracker
    <3>3. QED
      BY <1>1, <1>9, <3>1, <3>2
  <2>3. s.due <= 0 /\ p \in {Burst, Period} /\ v.due = Rescheduled(s.due, p)
    BY <1>4, <1>6, <1>7, <1>12, <2>2
  <2>4. \E q \in {Burst, Period} : v.due = Rescheduled(s.due, q)
    BY <2>3, Zenon
  <2>5. QED
    BY <1>1, <1>12, <2>2, <2>3, <2>4
<1>13. QED
  BY <1>3, <1>6, <1>10, <1>11, <1>12

-----------------------------------------------------------------------------
(* What the operations on the statuses under way do.                       *)

\* Two statuses that report the same; whether they are pure and for how long they wait is
\* another matter.
SameReport(w, q) ==
  w.state = q.state /\ w.fill = q.fill /\ w.expected = q.expected /\ w.ref = q.ref /\ w.own = q.own

\* A report comes last.
LEMMA ReportIs ==
  ASSUME NEW q \in Seq(Status), NEW m \in ModemState, NEW ref \in 0..(Ids - 1), NEW own \in BOOLEAN,
         NEW w, w = Report(q, m, ref, own)
  PROVE  /\ w \in Seq(Status) /\ Len(w) = Len(q) + 1 /\ \A i \in 1..Len(q) : w[i] = q[i]
         /\ LET n == Len(q) + 1 IN
              /\ w[n].state = m.state /\ w[n].fill = m.fill /\ w[n].ref = ref /\ w[n].wait = 0
              /\ w[n].expected = m.expected /\ w[n].own = own
<1> DEFINE st == [state |-> m.state, fill |-> m.fill, expected |-> m.expected,
                  ref |-> ref, pure |-> TRUE, own |-> own, wait |-> 0]
<1>1. st \in Status
  BY Sizes DEF ModemState, Status
<1>2. w = Append(q, st)
  BY DEF Report
<1> HIDE DEF st
<1>3. /\ w \in Seq(Status) /\ Len(w) = Len(q) + 1 /\ w[Len(q) + 1] = st
      /\ \A i \in 1..Len(q) : w[i] = q[i]
  BY <1>1, <1>2, AppendProperties
<1>4. QED
  BY <1>3 DEF st

\* Taint takes the pure flag alone.
LEMMA TaintedIs ==
  ASSUME NEW q \in Seq(Status), NEW w, w = Tainted(q)
  PROVE  /\ w \in Seq(Status) /\ Len(w) = Len(q) /\ DOMAIN w = DOMAIN q
         /\ \A i \in DOMAIN q : /\ ~w[i].pure /\ w[i].state = q[i].state /\ w[i].wait = q[i].wait
                                /\ SameReport(w[i], q[i])
<1>1. Len(q) \in Nat /\ DOMAIN q = 1..Len(q) /\ \A i \in DOMAIN q : q[i] \in Status
  BY LenProperties, ElementOfSeq
<1>2. w = [i \in 1..Len(q) |-> [q[i] EXCEPT !.pure = FALSE]]
  BY <1>1 DEF Tainted
<1>3. ASSUME NEW i \in DOMAIN q
      PROVE  /\ w[i] \in Status /\ ~w[i].pure /\ w[i].state = q[i].state /\ w[i].wait = q[i].wait
             /\ SameReport(w[i], q[i])
  <2>1. w[i] = [q[i] EXCEPT !.pure = FALSE] /\ q[i] \in Status
    BY <1>1, <1>2, <1>3
  <2>2. QED
    BY <2>1 DEF Status, SameReport
<1>4. w \in [1..Len(q) -> Status]
  BY <1>1, <1>2, <1>3
<1>5. w \in Seq(Status) /\ Len(w) = Len(q) /\ DOMAIN w = DOMAIN q
  BY <1>1, <1>4, FunctionIsSeq
<1>6. QED
  BY <1>3, <1>5

\* A tick lets every status wait.
LEMMA WaitedIs ==
  ASSUME NEW q \in Seq(Status), \A i \in DOMAIN q : q[i].wait < Latency,
         NEW w, w = Waited(q)
  PROVE  /\ w \in Seq(Status) /\ Len(w) = Len(q) /\ DOMAIN w = DOMAIN q
         /\ \A i \in DOMAIN q : /\ w[i].state = q[i].state /\ w[i].pure = q[i].pure
                                /\ w[i].ref = q[i].ref /\ w[i].fill = q[i].fill
                                /\ w[i].wait = q[i].wait + 1 /\ SameReport(w[i], q[i])
<1>1. Len(q) \in Nat /\ DOMAIN q = 1..Len(q) /\ \A i \in DOMAIN q : q[i] \in Status
  BY LenProperties, ElementOfSeq
<1>2. ASSUME NEW i \in DOMAIN q
      PROVE  /\ w[i] \in Status /\ w[i].state = q[i].state /\ w[i].pure = q[i].pure
             /\ w[i].ref = q[i].ref /\ w[i].fill = q[i].fill /\ w[i].wait = q[i].wait + 1
             /\ SameReport(w[i], q[i])
  <2>1. w[i] = [q[i] EXCEPT !.wait = q[i].wait + 1] /\ q[i] \in Status /\ q[i].wait < Latency
    BY <1>1 DEF Waited
  <2>2. q[i].wait + 1 \in 0..Latency
    <3>1. q[i].wait \in 0..Latency
      BY <2>1 DEF Status
    <3>2. q[i].wait < Latency
      BY <2>1
    <3>3. QED
      BY ONLY <3>1, <3>2, Sizes
  <2>3. QED
    BY <2>1, <2>2 DEF Status, SameReport
<1>3. w \in [1..Len(q) -> Status]
  BY <1>1, <1>2 DEF Waited
<1>4. w \in Seq(Status) /\ Len(w) = Len(q) /\ DOMAIN w = DOMAIN q
  BY <1>1, <1>3, FunctionIsSeq
<1>5. QED
  BY <1>2, <1>4

\* The first status goes.
LEMMA TailIs ==
  ASSUME NEW q \in Seq(Status), q # <<>>
  PROVE  /\ Len(q) \in Nat \ {0} /\ Head(q) \in Status /\ Head(q) = q[1] /\ Tail(q) \in Seq(Status)
         /\ Len(Tail(q)) = Len(q) - 1 /\ \A i \in 1..(Len(q) - 1) : Tail(q)[i] = q[i + 1]
<1>1. Len(q) \in Nat /\ Len(q) # 0
  BY EmptySeq, LenProperties
<1>2. Head(q) \in Status /\ Head(q) = q[1]
  BY HeadTailProperties
<1>3. Tail(q) \in Seq(Status) /\ Len(Tail(q)) = Len(q) - 1
  BY HeadTailProperties
<1>4. \A i \in 1..Len(Tail(q)) : Tail(q)[i] = q[i + 1]
  BY HeadTailProperties
<1>5. QED
  BY <1>1, <1>2, <1>3, <1>4

-----------------------------------------------------------------------------
(* Types.                                                                  *)

\* Transfer hands the statuses under way on, perhaps with a report and perhaps tainted.
LEMMA Delivered ==
  ASSUME TypeOK, NEW taken \in BOOLEAN, NEW ok \in BOOLEAN, Transfer(taken, ok)
  PROVE  /\ modem' \in ModemState /\ statuses' \in Seq(Status)
         /\ Len(statuses') = Len(statuses) + (IF taken THEN 1 ELSE 0)
         /\ taken => /\ modem.state = "RX" /\ modem'.state = "RX" /\ modem'.fill = modem.fill + P
                     /\ modem'.fill <= Capacity /\ modem'.expected = NextId(modem.expected)
         /\ ~taken => modem' = modem
         /\ \A i \in 1..Len(statuses) : /\ statuses'[i].state = statuses[i].state
                                        /\ statuses'[i].wait = statuses[i].wait
                                        /\ SameReport(statuses'[i], statuses[i])
         /\ taken => LET i == Len(statuses) + 1 IN
                     /\ statuses'[i].state = "RX" /\ statuses'[i].wait = 0
                     /\ statuses'[i].fill = modem'.fill /\ statuses'[i].expected = modem'.expected
                     /\ statuses'[i].ref = txId /\ statuses'[i].own = ok
         /\ taken = ok =>
              /\ \A i \in 1..Len(statuses) : statuses'[i] = statuses[i]
              /\ taken => LET i == Len(statuses) + 1 IN
                          statuses'[i].fill = modem'.fill /\ statuses'[i].ref = txId
         /\ taken # ok => \A i \in 1..Len(statuses') : ~statuses'[i].pure
<1> USE Sizes
<1>1. modem \in ModemState /\ statuses \in Seq(Status) /\ txId \in 0..(Ids - 1)
  BY DEF TypeOK
<1> DEFINE q == IF taken THEN Report(statuses, modem', txId, ok) ELSE statuses
           n == Len(statuses)
<1>2. n \in Nat /\ DOMAIN statuses = 1..n
  BY <1>1, LenProperties
<1>3. statuses' = IF taken = ok THEN q ELSE Tainted(q)
  BY Zenon DEF Transfer
<1>4. /\ modem' \in ModemState
      /\ taken => /\ modem.state = "RX" /\ modem'.state = "RX" /\ modem'.fill = modem.fill + P
                  /\ modem'.fill <= Capacity /\ modem'.expected = NextId(modem.expected)
      /\ ~taken => modem' = modem
  <2>1. CASE taken
    <3>1. modem.state = "RX" /\ modem.fill + P <= Capacity
      BY <2>1 DEF Transfer, Accepts
    <3>2. modem' = [modem EXCEPT !.fill = modem.fill + P, !.expected = NextId(modem.expected)]
      BY <2>1 DEF Transfer
    <3>3. modem.expected \in 0..(Ids - 1) /\ modem.fill \in 0..Capacity
      BY <1>1 DEF ModemState
    <3>4. NextId(modem.expected) \in 0..(Ids - 1) /\ modem.fill + P \in 0..Capacity
      BY <3>1, <3>3, NextIdIs
    <3>5. QED
      BY <1>1, <2>1, <3>1, <3>2, <3>4 DEF ModemState
  <2>2. CASE ~taken
    BY <1>1, <2>2 DEF Transfer
  <2>3. QED
    BY <2>1, <2>2
<1>5. /\ q \in Seq(Status) /\ Len(q) = n + (IF taken THEN 1 ELSE 0)
      /\ \A i \in 1..n : q[i] = statuses[i]
      /\ taken => /\ q[n + 1].state = "RX" /\ q[n + 1].wait = 0
                  /\ q[n + 1].fill = modem'.fill /\ q[n + 1].ref = txId
                  /\ q[n + 1].expected = modem'.expected /\ q[n + 1].own = ok
  <2>1. CASE taken
    <3>1. /\ q \in Seq(Status) /\ Len(q) = n + 1 /\ \A i \in 1..n : q[i] = statuses[i]
          /\ q[n + 1].state = modem'.state /\ q[n + 1].fill = modem'.fill
          /\ q[n + 1].ref = txId /\ q[n + 1].wait = 0
          /\ q[n + 1].expected = modem'.expected /\ q[n + 1].own = ok
      BY <1>1, <1>4, <2>1, ReportIs
    <3>2. QED
      BY <1>4, <2>1, <3>1
  <2>2. CASE ~taken
    BY <1>1, <1>2, <2>2
  <2>3. QED
    BY <2>1, <2>2
<1> HIDE DEF q
<1>6. CASE taken = ok
  <2>1. statuses' = q
    BY <1>3, <1>6
  <2>2. QED
    BY <1>4, <1>5, <1>6, <2>1 DEF SameReport
<1>7. CASE taken # ok
  <2>1. statuses' = Tainted(q)
    BY <1>3, <1>7
  <2>2. /\ statuses' \in Seq(Status) /\ Len(statuses') = Len(q) /\ DOMAIN statuses' = DOMAIN q
        /\ \A i \in DOMAIN q : /\ ~statuses'[i].pure /\ statuses'[i].state = q[i].state
                               /\ statuses'[i].wait = q[i].wait /\ SameReport(statuses'[i], q[i])
    BY <1>5, <2>1, TaintedIs
  <2>3. DOMAIN q = 1..Len(q)
    BY <1>5, LenProperties
  <2>4. 1..n \subseteq DOMAIN q /\ (taken => n + 1 \in DOMAIN q)
    BY <1>2, <1>5, <2>3
  <2>5. QED
    BY <1>4, <1>5, <1>7, <2>2, <2>3, <2>4 DEF SameReport
<1>8. QED
  BY <1>6, <1>7

\* A tick ages every status, and taints them when the modem runs dry.
LEMMA Ticked ==
  ASSUME TypeOK, Tick
  PROVE  /\ modem' \in ModemState /\ modem'.state = modem.state
         /\ modem'.expected = modem.expected /\ modem'.fill <= modem.fill
         /\ statuses' \in Seq(Status) /\ Len(statuses') = Len(statuses)
         /\ \A i \in 1..Len(statuses) : /\ statuses'[i].state = statuses[i].state
                                        /\ statuses'[i].wait = statuses[i].wait + 1
                                        /\ statuses[i].wait < Latency
                                        /\ SameReport(statuses'[i], statuses[i])
         /\ Starves => \A i \in 1..Len(statuses) : ~statuses'[i].pure
         /\ ~Starves => \A i \in 1..Len(statuses) :
              /\ statuses'[i].pure = statuses[i].pure /\ statuses'[i].ref = statuses[i].ref
              /\ statuses'[i].fill = statuses[i].fill
         /\ modem.state = "RX" /\ ~Starves => modem.fill > 0 /\ modem'.fill = modem.fill - 1
<1> USE Sizes
<1>1. modem \in ModemState /\ statuses \in Seq(Status)
  BY DEF TypeOK
<1>2. modem.fill \in 0..Capacity
  BY <1>1 DEF ModemState
<1>3. Clamp(modem.fill - 1, 0, Capacity) \in 0..Capacity
  BY <1>2 DEF Clamp
<1>4. modem' = [modem EXCEPT !.fill = Clamp(modem.fill - 1, 0, Capacity)]
  BY DEF Tick
<1>5. /\ modem' \in ModemState /\ modem'.state = modem.state /\ modem'.expected = modem.expected
      /\ modem'.fill = Clamp(modem.fill - 1, 0, Capacity)
  BY <1>1, <1>3, <1>4 DEF ModemState
<1>6. modem.state = "RX" /\ ~Starves => modem.fill > 0 /\ modem'.fill = modem.fill - 1
  BY <1>2, <1>5 DEF Starves, Clamp
<1> DEFINE q == IF Starves THEN Tainted(statuses) ELSE statuses
<1>7. statuses' = Waited(q)
  BY DEF Tick
<1>8. Len(statuses) \in Nat /\ DOMAIN statuses = 1..Len(statuses)
  BY <1>1, LenProperties
<1>9. /\ q \in Seq(Status) /\ Len(q) = Len(statuses) /\ DOMAIN q = 1..Len(statuses)
      /\ \A i \in 1..Len(statuses) : /\ q[i].state = statuses[i].state /\ q[i].wait = statuses[i].wait
                                     /\ SameReport(q[i], statuses[i])
      /\ Starves => \A i \in 1..Len(statuses) : ~q[i].pure
      /\ ~Starves => q = statuses
  <2>1. CASE Starves
    BY <1>1, <1>8, <2>1, TaintedIs
  <2>2. CASE ~Starves
    BY <1>1, <1>8, <2>2 DEF SameReport
  <2>3. QED
    BY <2>1, <2>2
<1> HIDE DEF q
<1>10. \A i \in DOMAIN q : q[i].wait < Latency
  BY <1>8, <1>9 DEF Tick
<1>11. /\ statuses' \in Seq(Status) /\ Len(statuses') = Len(q)
       /\ \A i \in DOMAIN q : /\ statuses'[i].state = q[i].state /\ statuses'[i].pure = q[i].pure
                              /\ statuses'[i].ref = q[i].ref /\ statuses'[i].fill = q[i].fill
                              /\ statuses'[i].wait = q[i].wait + 1
                              /\ SameReport(statuses'[i], q[i])
  <2>1. q \in Seq(Status)
    BY <1>9
  <2>2. QED
    BY ONLY <1>7, <1>10, <2>1, WaitedIs
<1>12. \A i \in 1..Len(statuses) : /\ statuses'[i].state = statuses[i].state
                                   /\ statuses'[i].wait = statuses[i].wait + 1
                                   /\ statuses[i].wait < Latency
                                   /\ SameReport(statuses'[i], statuses[i])
  BY <1>8, <1>9, <1>10, <1>11 DEF SameReport
<1>13. Starves => \A i \in 1..Len(statuses) : ~statuses'[i].pure
  BY <1>9, <1>11
<1>14. ~Starves => \A i \in 1..Len(statuses) :
              /\ statuses'[i].pure = statuses[i].pure /\ statuses'[i].ref = statuses[i].ref
              /\ statuses'[i].fill = statuses[i].fill
  BY <1>9, <1>11
<1>15. modem'.fill <= modem.fill
  BY <1>2, <1>5 DEF Clamp
<1>16. QED
  BY <1>15, <1>5, <1>6, <1>9, <1>11, <1>12, <1>13, <1>14

\* The modem's own steps put one report behind the statuses under way.
LEMMA Left ==
  ASSUME TypeOK, ModemLeaves
  PROVE  /\ modem' \in ModemState /\ modem'.state = "TX" /\ statuses' \in Seq(Status)
         /\ Len(statuses') = Len(statuses) + 1
         /\ statuses'[Len(statuses) + 1].state = "TX"
         /\ \A i \in 1..Len(statuses) : /\ statuses'[i].state = statuses[i].state /\ ~statuses'[i].pure
                                        /\ statuses'[i].wait = statuses[i].wait
                                        /\ SameReport(statuses'[i], statuses[i])
<1>1. statuses \in Seq(Status) /\ Len(statuses) \in Nat /\ DOMAIN statuses = 1..Len(statuses)
  BY LenProperties DEF TypeOK
<1>2. /\ Tainted(statuses) \in Seq(Status) /\ Len(Tainted(statuses)) = Len(statuses)
      /\ \A i \in 1..Len(statuses) : /\ ~Tainted(statuses)[i].pure
                                     /\ Tainted(statuses)[i].state = statuses[i].state
                                     /\ Tainted(statuses)[i].wait = statuses[i].wait
                                     /\ SameReport(Tainted(statuses)[i], statuses[i])
  BY <1>1, TaintedIs
<1>3. modem' = [state |-> "TX", fill |-> 0, expected |-> 0]
  BY DEF ModemLeaves
<1>4. modem' \in ModemState /\ modem'.state = "TX"
  BY <1>3, Sizes DEF ModemState
<1>5. statuses' = Report(Tainted(statuses), modem', Ids - 1, TRUE)
  BY DEF ModemLeaves
<1>6. Ids - 1 \in 0..(Ids - 1) /\ TRUE \in BOOLEAN
  BY Sizes
<1>7. /\ statuses' \in Seq(Status) /\ Len(statuses') = Len(Tainted(statuses)) + 1
      /\ \A i \in 1..Len(Tainted(statuses)) : statuses'[i] = Tainted(statuses)[i]
      /\ statuses'[Len(Tainted(statuses)) + 1].state = modem'.state
  <2>1. Tainted(statuses) \in Seq(Status) /\ modem' \in ModemState
    BY <1>2, <1>4
  <2>2. PICK own \in BOOLEAN, ref \in 0..(Ids - 1) : own = TRUE /\ ref = Ids - 1
    BY <1>6, Zenon
  <2>3. statuses' = Report(Tainted(statuses), modem', ref, own)
    BY <1>5, <2>2
  <2>4. QED
    BY <2>1, <2>3, ReportIs
<1>8. statuses'[Len(statuses) + 1].state = "TX"
  BY <1>2, <1>4, <1>7
<1>9. QED
  BY <1>2, <1>4, <1>7, <1>8

LEMMA Received ==
  ASSUME TypeOK, ModemReceives
  PROVE  /\ modem' \in ModemState /\ modem'.state = "RX" /\ statuses' \in Seq(Status)
         /\ Len(statuses') = 1 /\ statuses'[1].state = "RX" /\ statuses'[1].wait = 0
         /\ statuses'[1].fill = modem'.fill /\ statuses'[1].expected = modem'.expected
<1>1. statuses = <<>> /\ <<>> \in Seq(Status) /\ Len(<<>>) = 0
  BY EmptySeq DEF ModemReceives
<1>2. modem' \in ModemState /\ modem'.state = "RX"
  <2>1. modem' \in [state : {"RX"}, fill : EntryFills, expected : {0}]
    BY DEF ModemReceives
  <2>2. {"RX"} \subseteq {"RX", "TX"} /\ EntryFills \subseteq 0..Capacity /\ {0} \subseteq 0..(Ids - 1)
    BY Sizes
  <2>3. QED
    BY <2>1, <2>2 DEF ModemState
<1>3. statuses' = Report(statuses, modem', Ids - 1, TRUE)
  BY DEF ModemReceives
<1>4. Ids - 1 \in 0..(Ids - 1) /\ TRUE \in BOOLEAN /\ statuses \in Seq(Status) /\ Len(statuses) = 0
  BY <1>1, Sizes
<1>5. /\ statuses' \in Seq(Status) /\ Len(statuses') = Len(statuses) + 1
      /\ statuses'[Len(statuses) + 1].state = modem'.state
      /\ statuses'[Len(statuses) + 1].fill = modem'.fill
      /\ statuses'[Len(statuses) + 1].expected = modem'.expected
      /\ statuses'[Len(statuses) + 1].wait = 0
  <2>1. statuses \in Seq(Status) /\ modem' \in ModemState
    BY <1>2, <1>4
  <2>2. PICK own \in BOOLEAN, ref \in 0..(Ids - 1) : own = TRUE /\ ref = Ids - 1
    BY <1>4, Zenon
  <2>3. statuses' = Report(statuses, modem', ref, own)
    BY <1>3, <2>2
  <2>4. QED
    BY <2>1, <2>3, ReportIs
<1>6. Len(statuses) + 1 = 1
  BY <1>4
<1>7. /\ statuses'[1].state = "RX" /\ statuses'[1].wait = 0
      /\ statuses'[1].fill = modem'.fill /\ statuses'[1].expected = modem'.expected
  BY <1>2, <1>5, <1>6
<1>8. QED
  BY <1>2, <1>5, <1>6, <1>7

\* The rates a status may lead to are rates.
LEMMA RatesStay ==
  ASSUME NEW u \in Tracker, NEW v, NEW st
  PROVE  NewRates(u, v, st) \subseteq Rates
<1>1. u.rate \in Rates
  BY TrackerFields
<1>2. QED
  BY <1>1, Zenon DEF NewRates

\* A status is taken off; one that changes the state resets the tracker first, and an anchor
\* is exact only if a packet of the ring dates it.
LEMMA Handled ==
  ASSUME TypeOK, PollStatus
  PROVE  LET st == statuses[1] IN
         /\ statuses # <<>> /\ st \in Status /\ state' = st.state
         /\ statuses' \in Seq(Status) /\ Len(statuses) \in Nat \ {0}
         /\ Len(statuses') = Len(statuses) - 1
         /\ \A i \in 1..(Len(statuses) - 1) : statuses'[i] = statuses[i + 1]
         /\ t' \in Tracker
         /\ st.state = state => /\ t'.ring = t.ring /\ t'.sched = t.sched /\ t'.due = t.due
                                /\ t'.since = t.since /\ atOnce' = atOnce /\ txId' = txId
         /\ st.state # state => /\ t'.ring = <<>> /\ ~t'.sched /\ atOnce' = 0 /\ txId' = 0
                                /\ t'.since = 0
         /\ exact' \in BOOLEAN /\ dated' \in BOOLEAN /\ biased' \in BOOLEAN
         /\ exact' => /\ st.state = "RX" /\ st.pure /\ t'.has /\ t'.fill = st.fill
                      /\ \E i \in DOMAIN t'.ring :
                           /\ t'.ring[i].id = st.ref /\ t'.age = t'.ring[i].age
                           /\ t'.sent = (i - 1) * P
<1> DEFINE st == statuses[1]
           u == IF st.state # state THEN Reset(t) ELSE t
           v == Anchored(u, st)
<1>1. statuses \in Seq(Status) /\ t \in Tracker /\ exact \in BOOLEAN /\ dated \in BOOLEAN /\ biased \in BOOLEAN
  BY DEF TypeOK
<1>2. statuses # <<>>
  BY DEF PollStatus
<1>3. /\ Len(statuses) \in Nat \ {0} /\ st \in Status /\ Head(statuses) = st
      /\ Tail(statuses) \in Seq(Status) /\ Len(Tail(statuses)) = Len(statuses) - 1
      /\ \A i \in 1..(Len(statuses) - 1) : Tail(statuses)[i] = statuses[i + 1]
  BY <1>1, <1>2, TailIs
<1>4. statuses' = Tail(statuses)
  BY DEF PollStatus
<1>5. /\ state' = st.state
      /\ txId' = IF st.state # state THEN 0 ELSE txId
      /\ atOnce' = IF st.state # state THEN 0 ELSE atOnce
      /\ IF st.state = "RX"
         THEN /\ \E r \in NewRates(u, v, st) : t' = StatusTaken(u, st, r)
              /\ exact' = (st.pure /\ ~v.fallback)
              /\ dated' = (st.own /\ ~v.fallback)
              /\ biased' = (biased \/ (Infers(u, v, st) /\ ~(dated /\ dated')))
         ELSE /\ t' = u /\ exact' = FALSE /\ dated' = FALSE
              /\ biased' = (t.rate # Unit)
  BY <1>3, Zenon DEF PollStatus
<1>6. /\ u \in Tracker
      /\ st.state = state => u = t
      /\ st.state # state => u.ring = <<>> /\ u.sched = FALSE /\ u.since = 0
  <2>1. t.rate \in Rates
    BY <1>1, TrackerFields
  <2>2. CASE st.state = state
    BY <1>1, <2>2
  <2>3. CASE st.state # state
    <3>1. u = Blank(t.rate)
      BY <2>3 DEF Reset
    <3>2. QED
      BY <2>1, <2>3, <3>1, BlankIs
  <2>4. QED
    BY <2>2, <2>3
<1>7. st.pure \in BOOLEAN /\ st.own \in BOOLEAN
  BY <1>3 DEF Status
<1> HIDE DEF st, u
<1>8. /\ t' \in Tracker /\ t'.ring = u.ring /\ t'.sched = u.sched /\ t'.due = u.due
      /\ t'.since = u.since /\ exact' \in BOOLEAN /\ dated' \in BOOLEAN /\ biased' \in BOOLEAN
      /\ exact' => /\ st.state = "RX" /\ st.pure /\ t'.has /\ t'.fill = st.fill
                   /\ \E i \in DOMAIN t'.ring :
                        /\ t'.ring[i].id = st.ref /\ t'.age = t'.ring[i].age
                        /\ t'.sent = (i - 1) * P
  <2>1. CASE st.state = "RX"
    <3>1. PICK r \in NewRates(u, v, st) : t' = StatusTaken(u, st, r)
      BY <1>5, <2>1
    <3>2. r \in Rates
      BY <1>6, RatesStay
    <3>0. st \in Status /\ u \in Tracker /\ t' = StatusTaken(u, st, r)
      BY <1>3, <1>6, <3>1
    <3>3. /\ t' \in Tracker /\ t'.has /\ t'.fill = st.fill /\ t'.ring = u.ring
          /\ t'.sched = u.sched /\ t'.due = u.due /\ t'.since = u.since
          /\ v.fallback \in BOOLEAN
          /\ ~v.fallback => \E i \in DOMAIN u.ring :
               u.ring[i].id = st.ref /\ t'.age = u.ring[i].age /\ t'.sent = (i - 1) * P
      BY ONLY <3>0, <3>2, TakenIs
    <3>4. exact' = (st.pure /\ ~v.fallback) /\ exact' \in BOOLEAN
      BY <1>5, <1>7, <2>1, <3>3
    <3>5. dated' \in BOOLEAN /\ biased' \in BOOLEAN
      BY <1>1, <1>5, <1>7, <2>1, <3>3, Zenon DEF Infers
    <3>6. QED
      BY <2>1, <3>3, <3>4, <3>5
  <2>2. CASE st.state # "RX"
    <3>1. t' = u /\ exact' = FALSE /\ dated' = FALSE /\ biased' = (t.rate # Unit)
      BY <1>5, <2>2
    <3>2. biased' \in BOOLEAN
      BY <3>1, Zenon
    <3>3. QED
      BY <1>6, <3>1, <3>2
  <2>3. QED
    BY <2>1, <2>2
<1>9. st.state = state => /\ t'.ring = t.ring /\ t'.sched = t.sched /\ t'.due = t.due
                          /\ t'.since = t.since /\ atOnce' = atOnce /\ txId' = txId
  BY <1>5, <1>6, <1>8
<1>10. st.state # state => /\ t'.ring = <<>> /\ ~t'.sched /\ atOnce' = 0 /\ txId' = 0
                           /\ t'.since = 0
  BY <1>5, <1>6, <1>8
<1>11. QED
  BY <1>2, <1>3, <1>4, <1>5, <1>8, <1>9, <1>10 DEF st

\* What a status does to the anchor and to the rate: only one that names a packet of the ring
\* dates the anchor, and a rate inferred between two anchors that are dated lies between
\* the old one and what was counted between the two.
LEMMA Judged ==
  ASSUME TypeOK, PollStatus
  PROVE  LET st == statuses[1] IN
         /\ st.state = "TX" => /\ state = "TX" => t' = t
                               /\ state = "RX" => t'.prev = -1 /\ ~t'.has
                               /\ t'.prev = (IF state = "RX" THEN -1 ELSE t.prev)
                               /\ t'.rate = t.rate /\ biased' = (t.rate # Unit)
         /\ st.state = "RX" =>
              /\ t'.has /\ t'.prev = st.expected /\ t'.fill = st.fill
              /\ dated' => /\ st.own /\ state = "RX"
                           /\ \E i \in DOMAIN t.ring : t.ring[i].id = st.ref /\ t'.age = t.ring[i].age
              /\ ~biased' =>
                   /\ ~biased
                   /\ \/ t'.rate = t.rate
                      \/ /\ state = "RX" /\ dated /\ dated' /\ t.prev # -1 /\ t.age > t'.age
                         /\ LET dt   == t.age - t'.age
                                seen == (((st.expected - t.prev) % Ids) * P - (st.fill - t.fill)) * Unit
                            IN \/ t.rate * dt <= t'.rate * dt /\ t'.rate * dt <= seen
                               \/ seen <= t'.rate * dt /\ t'.rate * dt <= t.rate * dt
<1> DEFINE st == statuses[1]
           u == IF st.state # state THEN Reset(t) ELSE t
           v == Anchored(u, st)
<1>1. /\ statuses \in Seq(Status) /\ t \in Tracker /\ state \in {"RX", "TX"}
      /\ dated \in BOOLEAN /\ biased \in BOOLEAN /\ t.rate \in Rates
  BY TrackerFields DEF TypeOK
<1>2. st \in Status /\ Head(statuses) = st
  BY <1>1, TailIs DEF PollStatus
<1>3. /\ IF st.state = "RX"
         THEN /\ \E r \in NewRates(u, v, st) : t' = StatusTaken(u, st, r)
              /\ dated' = (st.own /\ ~v.fallback)
              /\ biased' = (biased \/ (Infers(u, v, st) /\ ~(dated /\ dated')))
         ELSE t' = u /\ biased' = (t.rate # Unit)
  BY <1>2, Zenon DEF PollStatus
<1>4. st.state \in {"RX", "TX"} /\ st.own \in BOOLEAN
  BY <1>2 DEF Status
<1>5. /\ u \in Tracker /\ u.rate = t.rate
      /\ st.state = state => u = t
      /\ st.state # state => u.ring = <<>> /\ ~u.has /\ u.prev = -1
  <2>1. CASE st.state = state
    BY <1>1, <2>1
  <2>2. CASE st.state # state
    <3>1. u = Blank(t.rate)
      BY <2>2 DEF Reset
    <3>2. QED
      BY <1>1, <2>2, <3>1, BlankIs
  <2>3. QED
    BY <2>1, <2>2
<1> HIDE DEF st, u, v
<1>6. CASE st.state = "TX"
  <2>1. t' = u /\ biased' = (t.rate # Unit)
    BY <1>3, <1>6
  <2>2. CASE state = "TX"
    <3>1. t' = t
      BY <1>5, <1>6, <2>1, <2>2
    <3>2. QED
      BY <1>6, <2>1, <2>2, <3>1 DEF st
  <2>3. CASE state = "RX"
    <3>1. t'.prev = -1 /\ ~t'.has /\ t'.rate = t.rate
      BY <1>5, <1>6, <2>1, <2>3
    <3>2. QED
      BY <1>6, <2>1, <2>3, <3>1 DEF st
  <2>4. QED
    BY <1>1, <2>2, <2>3
<1>7. CASE st.state = "RX"
  <2>1. PICK r \in NewRates(u, v, st) : t' = StatusTaken(u, st, r)
    BY <1>3, <1>7
  <2>2. r \in Rates
    BY <1>5, RatesStay
  <2>3. st \in Status /\ u \in Tracker /\ t' = StatusTaken(u, st, r)
    BY <1>2, <1>5, <2>1
  <2>4. /\ t'.has /\ t'.fill = st.fill /\ t'.prev = st.expected /\ t'.rate = r
        /\ v.fallback \in BOOLEAN /\ v.fill = st.fill /\ t'.age = v.age
        /\ ~v.fallback => \E i \in DOMAIN u.ring : u.ring[i].id = st.ref /\ t'.age = u.ring[i].age
    BY ONLY <2>2, <2>3, TakenIs DEF v
  <2>5. dated' = (st.own /\ ~v.fallback) /\ biased' = (biased \/ (Infers(u, v, st) /\ ~(dated /\ dated')))
    BY <1>3, <1>7
  <2>6. dated' => /\ st.own /\ state = "RX"
                  /\ \E i \in DOMAIN t.ring : t.ring[i].id = st.ref /\ t'.age = t.ring[i].age
    <3>1. SUFFICES ASSUME dated' PROVE state = "RX" /\ u = t
      BY <2>4, <2>5
    <3>2. PICK i \in DOMAIN u.ring : u.ring[i].id = st.ref
      BY <2>4, <2>5, <3>1
    <3>3. u.ring # <<>>
      <4>1. DOMAIN <<>> = {}
        OBVIOUS
      <4>2. QED
        BY <3>2, <4>1
    <3>4. QED
      BY <1>5, <1>7, <3>3
  <2>7. ASSUME ~biased'
        PROVE  /\ ~biased
               /\ \/ t'.rate = t.rate
                  \/ /\ state = "RX" /\ dated /\ dated' /\ t.prev # -1 /\ t.age > t'.age
                     /\ LET dt   == t.age - t'.age
                            seen == (((st.expected - t.prev) % Ids) * P - (st.fill - t.fill)) * Unit
                        IN \/ t.rate * dt <= t'.rate * dt /\ t'.rate * dt <= seen
                           \/ seen <= t'.rate * dt /\ t'.rate * dt <= t.rate * dt
    <3>1. ~biased /\ (Infers(u, v, st) => dated /\ dated')
      BY <1>1, <2>5, <2>7
    <3>2. CASE ~Infers(u, v, st)
      <4>1. r = u.rate
        BY <3>2, Zenon DEF NewRates
      <4>2. QED
        BY <1>5, <2>4, <3>1, <4>1
    <3>3. CASE Infers(u, v, st)
      <4>1. u.has /\ u.prev # -1 /\ u.age > v.age /\ dated /\ dated'
        BY <3>1, <3>3 DEF Infers
      <4>2. u = t /\ state = "RX"
        BY <1>5, <1>7, <4>1
      <4>3. LET seen == Played(u, v, st) * Unit  dt == u.age - v.age IN
              \/ u.rate * dt <= r * dt /\ r * dt <= seen
              \/ seen <= r * dt /\ r * dt <= u.rate * dt
        BY <3>3, Zenon DEF NewRates
      <4>4. Played(u, v, st) = ((st.expected - t.prev) % Ids) * P - (st.fill - t.fill)
        BY <2>4, <4>2 DEF Played
      <4>5. QED
        BY <2>4, <3>1, <4>1, <4>2, <4>3, <4>4, Zenon
    <3>4. QED
      BY <3>2, <3>3
  <2>8. QED
    BY <1>7, <2>4, <2>6, <2>7 DEF st
<1>8. QED
  BY <1>4, <1>6, <1>7

\* The program starts with everything of its type, and every step keeps it so.
LEMMA TypeInit ==
  ASSUME Init
  PROVE  TypeOK /\ t.ring = <<>> /\ t.sched = FALSE /\ exact = FALSE /\ atOnce = 0
<1> USE Sizes
<1>1. Blank(Unit) \in Tracker /\ Blank(Unit).ring = <<>> /\ Blank(Unit).sched = FALSE
  BY BlankIs
<1>2. t = Blank(Unit)
  BY DEF Init
<1>3. t \in Tracker /\ t.ring = <<>> /\ t.sched = FALSE
  BY <1>1, <1>2
<1>4. Len(t.ring) <= Ring
  BY <1>3, EmptySeq
<1>5. modem \in ModemState
  <2>1. modem \in [state : {"RX"}, fill : EntryFills, expected : {0}]
    BY DEF Init
  <2>2. {"RX"} \subseteq {"RX", "TX"} /\ EntryFills \subseteq 0..Capacity /\ {0} \subseteq 0..(Ids - 1)
    OBVIOUS
  <2>3. QED
    BY <2>1, <2>2 DEF ModemState
<1>6. statuses \in Seq(Status) /\ state \in {"RX", "TX"} /\ txId \in 0..(Ids - 1)
  BY EmptySeq DEF Init
<1>7. sending \in BOOLEAN /\ exact \in BOOLEAN /\ dated \in BOOLEAN /\ biased \in BOOLEAN
  BY Zenon DEF Init
<1>8. exact = FALSE /\ atOnce = 0 /\ faults \in Nat
  BY DEF Init
<1>9. QED
  BY <1>3, <1>4, <1>5, <1>6, <1>7, <1>8 DEF TypeOK

LEMMA TypeStep ==
  ASSUME TypeOK, [Next]_vars
  PROVE  TypeOK'
<1> USE Sizes
<1>1. /\ modem \in ModemState /\ statuses \in Seq(Status)
      /\ state \in {"RX", "TX"} /\ txId \in 0..(Ids - 1) /\ sending \in BOOLEAN
      /\ t \in Tracker /\ Len(t.ring) <= Ring
      /\ faults \in Nat /\ atOnce \in Nat
      /\ exact \in BOOLEAN /\ dated \in BOOLEAN /\ biased \in BOOLEAN
  BY DEF TypeOK
<1>2. CASE Tick
  <2>1. t' = Aged(t) /\ atOnce' = 0 /\ UNCHANGED <<state, txId, sending, faults, dated>>
    BY <1>2 DEF Tick
  <2>2. t' \in Tracker /\ Len(t'.ring) = Len(t.ring)
    BY <1>1, <2>1, AgedIs
  <2>3. exact' \in BOOLEAN /\ biased' \in BOOLEAN
    BY <1>1, <1>2, Zenon DEF Tick
  <2>4. modem' \in ModemState /\ statuses' \in Seq(Status)
    BY <1>2, Ticked
  <2>5. QED
    BY <1>1, <2>1, <2>2, <2>3, <2>4 DEF TypeOK
<1>3. CASE ModemLeaves
  <2>1. modem' \in ModemState /\ statuses' \in Seq(Status)
    BY <1>3, Left
  <2>2. exact' = FALSE /\ UNCHANGED <<state, txId, sending, t, faults, dated, biased, atOnce>>
    BY <1>3 DEF ModemLeaves, host
  <2>3. QED
    BY <1>1, <2>1, <2>2 DEF TypeOK
<1>4. CASE ModemReceives
  <2>1. modem' \in ModemState /\ statuses' \in Seq(Status)
    BY <1>4, Received
  <2>2. UNCHANGED <<state, txId, sending, t, faults, exact, dated, biased, atOnce>>
    BY <1>4 DEF ModemReceives, host
  <2>3. QED
    BY <1>1, <2>1, <2>2 DEF TypeOK
<1>5. CASE SendRx
  <2> DEFINE u == Scheduled(t)
  <2>1. /\ t' = Decided(u) /\ sending' = Go(u) /\ atOnce' = IF Go(u) THEN atOnce + 1 ELSE atOnce
        /\ UNCHANGED <<modem, statuses, state, txId, faults, exact, dated, biased>>
    BY <1>5, Zenon DEF SendRx
  <2>2. t' \in Tracker /\ t'.ring = t.ring /\ Go(u) \in BOOLEAN
    BY <1>1, <2>1, DecidedIs
  <2> HIDE DEF u
  <2>3. sending' \in BOOLEAN /\ atOnce' \in Nat
    BY <1>1, <2>1, <2>2
  <2>4. QED
    BY <1>1, <2>1, <2>2, <2>3 DEF TypeOK
<1>6. CASE SendReturns
  <2>1. PICK taken \in BOOLEAN, ok \in BOOLEAN : Transfer(taken, ok)
    BY <1>6 DEF SendReturns
  <2>2. modem' \in ModemState /\ statuses' \in Seq(Status)
    BY <2>1, Delivered
  <2>3. /\ sending' = FALSE /\ exact' = (exact /\ taken = ok)
        /\ faults' = faults + (IF ok /\ taken = Accepts THEN 0 ELSE 1)
        /\ UNCHANGED <<state, dated, biased, atOnce>>
    BY <2>1, Zenon DEF Transfer
  <2>4. exact' \in BOOLEAN /\ sending' \in BOOLEAN
    BY <1>1, <2>3, Zenon
  <2>5. faults' \in Nat
    BY <1>1, <2>3
  <2>6. t' \in Tracker /\ Len(t'.ring) <= Ring /\ txId' \in 0..(Ids - 1)
    <3>1. CASE ok
      <4>1. t' = Sent(t, txId) /\ txId' = NextId(txId)
        BY <2>1, <3>1 DEF Transfer
      <4>2. QED
        BY <1>1, <4>1, SentIs, NextIdIs
    <3>2. CASE ~ok
      BY <1>1, <2>1, <3>2 DEF Transfer
    <3>3. QED
      BY <3>1, <3>2
  <2>7. QED
    BY <1>1, <2>2, <2>3, <2>4, <2>5, <2>6 DEF TypeOK
<1>7. CASE PollStatus
  <2> DEFINE st == statuses[1]
  <2>1. /\ st \in Status /\ state' = st.state /\ statuses' \in Seq(Status) /\ t' \in Tracker
        /\ st.state = state => t'.ring = t.ring /\ atOnce' = atOnce /\ txId' = txId
        /\ st.state # state => t'.ring = <<>> /\ atOnce' = 0 /\ txId' = 0
        /\ exact' \in BOOLEAN /\ dated' \in BOOLEAN /\ biased' \in BOOLEAN
    BY <1>7, Handled
  <2> HIDE DEF st
  <2>2. st.state \in {"RX", "TX"} /\ UNCHANGED <<modem, sending, faults>>
    BY <1>7, <2>1 DEF Status, PollStatus
  <2>3. Len(t'.ring) <= Ring /\ atOnce' \in Nat /\ txId' \in 0..(Ids - 1)
    BY <1>1, <2>1, EmptySeq
  <2>4. QED
    BY <1>1, <2>1, <2>2, <2>3 DEF TypeOK
<1>8. CASE UNCHANGED vars
  BY <1>1, <1>8 DEF vars, host, TypeOK
<1>9. QED
  BY <1>2, <1>3, <1>4, <1>5, <1>6, <1>7, <1>8 DEF Next, Io

-----------------------------------------------------------------------------
(* Sessions do not mix.                                                    *)

\* The statuses under way, by their number.
LEMMA Places ==
  ASSUME TypeOK
  PROVE  /\ Pending \in Nat /\ DOMAIN statuses = 1..Pending /\ \A i \in 1..Pending : statuses[i] \in Status
         /\ Pending = 0 <=> statuses = <<>>
<1>1. statuses \in Seq(Status)
  BY DEF TypeOK
<1>2. Pending \in Nat /\ DOMAIN statuses = 1..Pending
  BY <1>1, LenProperties DEF Pending
<1>3. \A i \in 1..Pending : statuses[i] \in Status
  BY <1>1, ElementOfSeq DEF Pending
<1>4. Pending = 0 <=> statuses = <<>>
  BY <1>1, EmptySeq DEF Pending
<1>5. QED
  BY <1>2, <1>3, <1>4

LEMMA SessionsInit ==
  ASSUME Init
  PROVE  SessionsInTurn
<1>1. /\ TypeOK /\ modem.state = "RX" /\ statuses = <<>> /\ state = "RX"
      /\ sending = FALSE /\ exact = FALSE
  BY TypeInit DEF Init
<1>2. Pending = 0 /\ DOMAIN statuses = 1..0
  BY <1>1, Places
<1>3. QED
  BY <1>1, <1>2, Sizes DEF SessionsInTurn

LEMMA SessionsStep ==
  ASSUME TypeOK, TypeOK', SessionsInTurn, [Next]_vars
  PROVE  SessionsInTurn'
<1> DEFINE n == Pending  m == Pending'
<1>1. /\ n \in Nat /\ DOMAIN statuses = 1..n /\ n = Len(statuses)
      /\ (n = 0 <=> statuses = <<>>)
  BY Places DEF Pending
<1>2. /\ m \in Nat /\ DOMAIN statuses' = 1..m /\ m = Len(statuses')
      /\ (m = 0 <=> statuses' = <<>>)
  <2>1. Pending' = Len(statuses')
    BY DEF Pending
  <2>2. statuses' \in Seq(Status)
    BY DEF TypeOK
  <2>3. Len(statuses') \in Nat /\ DOMAIN statuses' = 1..Len(statuses')
    BY <2>2, LenProperties
  <2>4. Len(statuses') = 0 <=> statuses' = <<>>
    BY <2>2, EmptySeq
  <2>5. QED
    BY <2>1, <2>3, <2>4
<1> HIDE DEF n, m
<1>3. /\ modem.state \in {"RX", "TX"} /\ state \in {"RX", "TX"}
      /\ exact \in BOOLEAN /\ sending \in BOOLEAN
  BY DEF TypeOK, ModemState
<1>4. /\ sending \/ exact => state = "RX"
      /\ exact => modem.state = "RX"
      /\ modem.state = "RX" /\ state = "RX" =>
           /\ \A j \in 1..n : statuses[j].state = "RX"
           /\ n <= MaxPending /\ (sending => n < MaxPending)
      /\ modem.state = "RX" /\ state = "TX" => n = 1 /\ statuses[1].state = "RX"
      /\ modem.state = "TX" =>
           \/ n = 0 /\ state = "TX"
           \/ /\ n # 0 /\ statuses[n].state = "TX"
              /\ \A j \in 1..(n - 1) : statuses[j].state = "RX" /\ ~statuses[j].pure
  BY <1>1 DEF SessionsInTurn, n
<1>5. SUFFICES
      /\ sending' \/ exact' => state' = "RX"
      /\ exact' => modem'.state = "RX"
      /\ modem'.state = "RX" /\ state' = "RX" =>
           /\ \A j \in 1..m : statuses'[j].state = "RX"
           /\ m <= MaxPending /\ (sending' => m < MaxPending)
      /\ modem'.state = "RX" /\ state' = "TX" => m = 1 /\ statuses'[1].state = "RX"
      /\ modem'.state = "TX" =>
           \/ m = 0 /\ state' = "TX"
           \/ /\ m # 0 /\ statuses'[m].state = "TX"
              /\ \A j \in 1..(m - 1) : statuses'[j].state = "RX" /\ ~statuses'[j].pure
  BY <1>2 DEF SessionsInTurn, m
<1> USE Sizes
<1>6. CASE Tick
  <2>1. /\ modem'.state = modem.state /\ m = n
        /\ \A i \in 1..n : statuses'[i].state = statuses[i].state
        /\ Starves => \A i \in 1..n : ~statuses'[i].pure
        /\ ~Starves => \A i \in 1..n : statuses'[i].pure = statuses[i].pure
    BY <1>1, <1>2, <1>6, Ticked
  <2>2. state' = state /\ sending' = sending
    BY <1>6 DEF Tick
  <2>3. exact' => exact
    BY <1>6, Zenon DEF Tick
  <2>4. \A i \in 1..n : ~statuses[i].pure => ~statuses'[i].pure
    BY <2>1
  <2>5. QED
    BY <1>1, <1>3, <1>4, <2>1, <2>2, <2>3, <2>4
<1>7. CASE ModemLeaves
  <2>1. /\ modem'.state = "TX" /\ m = n + 1 /\ statuses'[n + 1].state = "TX"
        /\ \A i \in 1..n : statuses'[i].state = statuses[i].state /\ ~statuses'[i].pure
    BY <1>1, <1>2, <1>7, Left
  <2>2. modem.state = "RX" /\ state' = state /\ sending' = sending /\ exact' = FALSE
    BY <1>7 DEF ModemLeaves, host
  <2>3. \A j \in 1..n : statuses[j].state = "RX"
    BY <1>1, <1>3, <1>4, <2>2
  <2>4. \A j \in 1..(m - 1) : statuses'[j].state = "RX" /\ ~statuses'[j].pure
    BY <1>1, <2>1, <2>3
  <2>5. QED
    BY <1>1, <1>3, <1>4, <2>1, <2>2, <2>4
<1>8. CASE ModemReceives
  <2>1. modem'.state = "RX" /\ m = 1 /\ statuses'[1].state = "RX"
    BY <1>2, <1>8, Received
  <2>2. modem.state = "TX" /\ state = "TX" /\ state' = state /\ sending' = sending /\ exact' = exact
    BY <1>8 DEF ModemReceives, host
  <2>3. QED
    BY <1>3, <1>4, <2>1, <2>2
<1>9. CASE SendRx
  <2>1. state = "RX" /\ n < MaxPending /\ UNCHANGED <<modem, statuses, state, exact>>
    BY <1>1, <1>9 DEF SendRx
  <2>2. m = n
    BY <1>1, <1>2, <2>1
  <2>3. QED
    BY <1>1, <1>3, <1>4, <2>1, <2>2
<1>10. CASE SendReturns
  <2>1. PICK taken \in BOOLEAN, ok \in BOOLEAN : Transfer(taken, ok)
    BY <1>10 DEF SendReturns
  <2>2. /\ m = n + (IF taken THEN 1 ELSE 0)
        /\ taken => modem.state = "RX" /\ modem'.state = "RX"
        /\ ~taken => modem' = modem
        /\ \A i \in 1..n : statuses'[i].state = statuses[i].state
        /\ taken => statuses'[n + 1].state = "RX"
        /\ taken = ok => \A i \in 1..n : statuses'[i] = statuses[i]
        /\ taken # ok => \A i \in 1..m : ~statuses'[i].pure
    BY <1>1, <1>2, <2>1, Delivered
  <2>3. sending /\ sending' = FALSE /\ state' = state
    BY <2>1 DEF Transfer
  <2>4. exact' => exact
    BY <2>1, Zenon DEF Transfer
  <2>5. CASE taken
    BY <1>1, <1>3, <1>4, <2>2, <2>3, <2>4, <2>5
  <2>6. CASE ~taken
    <3>1. m = n /\ modem' = modem
      BY <1>1, <2>2, <2>6
    <3>2. \A i \in 1..n : ~statuses[i].pure => ~statuses'[i].pure
      BY <2>2, <3>1
    <3>3. state = "RX" /\ state' = "RX" /\ ~sending'
      BY <1>4, <2>3
    <3>4. CASE modem.state = "RX"
      <4>1. \A j \in 1..m : statuses'[j].state = "RX"
        BY <1>4, <2>2, <3>1, <3>3, <3>4
      <4>2. m <= MaxPending
        BY <1>4, <3>1, <3>3, <3>4
      <4>3. QED
        BY <3>1, <3>3, <3>4, <4>1, <4>2
    <3>5. CASE modem.state = "TX"
      <4>1. /\ n # 0 /\ statuses[n].state = "TX"
            /\ \A j \in 1..(n - 1) : statuses[j].state = "RX" /\ ~statuses[j].pure
        BY <1>4, <3>3, <3>5
      <4>2. m # 0 /\ statuses'[m].state = "TX"
        <5>1. n \in 1..n
          BY ONLY <1>1, <4>1
        <5>2. statuses'[n].state = statuses[n].state
          BY <2>2, <5>1, Zenon
        <5>3. QED
          BY <3>1, <4>1, <5>2
      <4>3. ASSUME NEW j \in 1..(m - 1)
            PROVE  statuses'[j].state = "RX" /\ ~statuses'[j].pure
        <5>1. j \in 1..(n - 1) /\ j \in 1..n
          BY <1>1, <3>1, <4>3
        <5>2. statuses'[j].state = statuses[j].state
          BY <2>2, <5>1, Zenon
        <5>3. QED
          BY <3>2, <4>1, <5>1, <5>2, Zenon
      <4>4. ~exact'
        BY <1>4, <2>4, <3>5
      <4>5. QED
        BY <3>1, <3>3, <3>5, <4>2, <4>3, <4>4
    <3>6. QED
      BY <1>3, <3>4, <3>5
  <2>7. QED
    BY <2>5, <2>6
<1>11. CASE PollStatus
  <2> DEFINE st == statuses[1]
  <2>1. /\ n # 0 /\ state' = st.state /\ m = n - 1 /\ \A i \in 1..(n - 1) : statuses'[i] = statuses[i + 1]
        /\ exact' => st.state = "RX" /\ st.pure
    BY <1>1, <1>2, <1>11, Handled
  <2>2. ~sending /\ sending' = sending /\ modem' = modem
    BY <1>11 DEF PollStatus
  <2>3. CASE modem.state = "RX" /\ state = "RX"
    <3>1. st.state = "RX" /\ \A j \in 1..m : statuses'[j].state = "RX"
      BY <1>1, <1>4, <2>1, <2>3
    <3>2. QED
      BY <1>1, <1>4, <2>1, <2>2, <2>3, <3>1
  <2>4. CASE modem.state = "RX" /\ state = "TX"
    <3>1. st.state = "RX" /\ m = 0
      BY <1>4, <2>1, <2>4
    <3>2. QED
      BY <2>1, <2>2, <2>4, <3>1
  <2>5. CASE modem.state = "TX"
    <3>1. /\ statuses[n].state = "TX"
          /\ \A j \in 1..(n - 1) : statuses[j].state = "RX" /\ ~statuses[j].pure
      BY <1>4, <2>1, <2>5
    <3>2. CASE n = 1
      BY <2>1, <2>2, <2>5, <3>1, <3>2
    <3>3. CASE n # 1
      <4>1. 1 \in 1..(n - 1)
        BY <1>1, <2>1, <3>3
      <4>2. st.state = "RX" /\ ~st.pure
        BY <3>1, <4>1
      <4>3. m # 0 /\ statuses'[m].state = "TX"
        BY <1>1, <2>1, <3>1, <3>3
      <4>4. \A j \in 1..(m - 1) : statuses'[j].state = "RX" /\ ~statuses'[j].pure
        BY <1>1, <2>1, <3>1
      <4>5. QED
        BY <2>1, <2>2, <2>5, <4>2, <4>3, <4>4
    <3>4. QED
      BY <3>2, <3>3
  <2>6. QED
    BY <1>3, <2>3, <2>4, <2>5
<1>12. CASE UNCHANGED vars
  <2>1. UNCHANGED <<modem, statuses, state, sending, exact>> /\ m = n
    BY <1>1, <1>2, <1>12 DEF vars, host
  <2>2. QED
    BY <1>4, <2>1
<1>13. QED
  BY <1>6, <1>7, <1>8, <1>9, <1>10, <1>11, <1>12 DEF Next, Io

-----------------------------------------------------------------------------
(* The ring is in order.                                                   *)

\* With one more packet sent, every earlier one is a place further back.
LEMMA BeforeMoves ==
  ASSUME NEW id \in 0..(Ids - 1), NEW next, next = NextId(id)
  PROVE  /\ SentBefore(next, 1) = id
         /\ \A n \in 1..(Ids - 1) : SentBefore(next, n + 1) = SentBefore(id, n)
<1>1. next = IF id + 1 = Ids THEN 0 ELSE id + 1
  BY NextIdIs
<1>2. CASE id + 1 = Ids
  <2>1. next = 0
    BY <1>1, <1>2
  <2>2. QED
    BY <1>2, <2>1, Sizes DEF SentBefore
<1>3. CASE id + 1 # Ids
  <2>1. next = id + 1
    BY <1>1, <1>3
  <2>2. QED
    BY <1>3, <2>1, Sizes DEF SentBefore
<1>4. QED
  BY <1>2, <1>3

\* Among the last Ids packets an id names one.
LEMMA BeforeIsOne ==
  ASSUME NEW id \in 0..(Ids - 1), NEW m \in 1..Ids, NEW n \in 1..Ids,
         SentBefore(id, m) = SentBefore(id, n)
  PROVE  m = n
  BY Sizes DEF SentBefore

LEMMA RingStep ==
  ASSUME TypeOK, TypeOK', RingInOrder, [Next]_vars
  PROVE  RingInOrder'
<1>1. t \in Tracker /\ t' \in Tracker /\ txId \in 0..(Ids - 1) /\ Len(t.ring) <= Ring /\ Len(t'.ring) <= Ring
  BY DEF TypeOK
<1>2. /\ DOMAIN t.ring = 1..Len(t.ring) /\ Len(t.ring) \in Nat
      /\ DOMAIN t'.ring = 1..Len(t'.ring) /\ Len(t'.ring) \in Nat
  BY <1>1, TrackerFields
<1>3. ASSUME t'.ring = t.ring, txId' = txId
      PROVE  RingInOrder'
  BY <1>3 DEF RingInOrder
<1>4. CASE Tick
  <2>1. t' = Aged(t) /\ txId' = txId
    BY <1>4 DEF Tick
  <2>2. DOMAIN t'.ring = DOMAIN t.ring /\ \A i \in DOMAIN t.ring : t'.ring[i].id = t.ring[i].id
    BY <1>1, <2>1, AgedIs
  <2>3. QED
    BY <2>1, <2>2 DEF RingInOrder
<1>5. CASE SendRx
  <2>1. t' = Decided(Scheduled(t)) /\ txId' = txId
    BY <1>5, Zenon DEF SendRx
  <2>2. t'.ring = t.ring
    BY <1>1, <2>1, DecidedIs
  <2>3. QED
    BY <1>3, <2>1, <2>2
<1>6. CASE SendReturns
  <2>1. PICK taken \in BOOLEAN, ok \in BOOLEAN : Transfer(taken, ok)
    BY <1>6 DEF SendReturns
  <2>2. CASE ok
    <3>1. t' = Sent(t, txId) /\ txId' = NextId(txId)
      BY <2>1, <2>2 DEF Transfer
    <3>2. /\ t'.ring[1] = [id |-> txId, age |-> 0]
          /\ \A i \in DOMAIN t'.ring : i > 1 =>
               (i - 1) \in DOMAIN t.ring /\ t'.ring[i] = t.ring[i - 1]
      BY <1>1, <3>1, SentIs
    <3>3. t'.ring[1].id = txId
      BY <3>2
    <3>4. SentBefore(txId', 1) = txId /\ \A n \in 1..(Ids - 1) : SentBefore(txId', n + 1) = SentBefore(txId, n)
      BY <1>1, <3>1, BeforeMoves
    <3>5. ASSUME NEW i \in DOMAIN t'.ring
          PROVE  t'.ring[i].id = SentBefore(txId', i)
      <4>1. CASE i = 1
        BY <3>3, <3>4, <4>1
      <4>2. CASE i # 1
        <5>1. i > 1 /\ i <= Ring /\ i \in Nat
          BY <1>1, <1>2, <3>5, <4>2, Sizes
        <5>2. (i - 1) \in DOMAIN t.ring /\ t'.ring[i] = t.ring[i - 1]
          BY <3>2, <3>5, <5>1
        <5>3. t.ring[i - 1].id = SentBefore(txId, i - 1)
          BY <5>2 DEF RingInOrder
        <5>4. (i - 1) \in 1..(Ids - 1) /\ (i - 1) + 1 = i
          BY <5>1, Sizes
        <5>5. SentBefore(txId', (i - 1) + 1) = SentBefore(txId, i - 1)
          BY <3>4, <5>4
        <5>6. QED
          BY <5>2, <5>3, <5>4, <5>5
      <4>3. QED
        BY <4>1, <4>2
    <3>6. QED
      BY <3>5 DEF RingInOrder
  <2>3. CASE ~ok
    BY <1>3, <2>1, <2>3 DEF Transfer
  <2>4. QED
    BY <2>2, <2>3
<1>7. CASE PollStatus
  <2>1. CASE statuses[1].state = state
    <3>1. t'.ring = t.ring /\ txId' = txId
      BY <1>7, <2>1, Handled
    <3>2. QED
      BY <1>3, <3>1
  <2>2. CASE statuses[1].state # state
    <3>1. t'.ring = <<>>
      BY <1>7, <2>2, Handled
    <3>2. DOMAIN t'.ring = {}
      BY <1>2, <3>1, EmptySeq
    <3>3. QED
      BY <3>2 DEF RingInOrder
  <2>3. QED
    BY <2>1, <2>2
<1>8. CASE ModemLeaves \/ ModemReceives \/ UNCHANGED vars
  BY <1>3, <1>8 DEF ModemLeaves, ModemReceives, vars, host
<1>9. QED
  BY <1>4, <1>5, <1>6, <1>7, <1>8 DEF Next, Io

-----------------------------------------------------------------------------
(* The catch-up is bounded.                                                *)

\* The products the schedule is compared with.
LEMMA Slots ==
  /\ Catchup * Period \in Nat /\ Behind = Catchup * Period + Period
  /\ (Catchup + 2) * Period = Catchup * Period + Period + Period
  /\ \A p \in {Burst, Period} : Catchup * p \in Nat /\ Catchup * p <= Catchup * Period
<1>1. Catchup \in Nat /\ Period \in Nat /\ Burst \in Nat /\ Burst <= Period
  BY Sizes
<1>2. Catchup * Period \in Nat /\ Catchup * Burst \in Nat
  BY <1>1, Z3
<1>3. Behind = Catchup * Period + Period
  BY <1>1, Z3 DEF Behind
<1>4. (Catchup + 2) * Period = Catchup * Period + Period + Period
  BY <1>1, Z3
<1>5. Catchup * Burst <= Catchup * Period
  <2>1. Catchup * (Period - Burst) >= 0 /\ Catchup * (Period - Burst) = Catchup * Period - Catchup * Burst
    BY <1>1, Z3
  <2>2. QED
    BY <1>2, <2>1
<1>6. QED
  BY <1>2, <1>3, <1>4, <1>5

\* A slot is added, or what is owed is given up; it is given up when it is more than Behind.
LEMMA RescheduledIs ==
  ASSUME NEW due \in Int, due <= 0, NEW p \in {Burst, Period}, NEW d, d = Rescheduled(due, p)
  PROVE  /\ d \in Int /\ d <= Period
         /\ d > 0 \/ (d >= due + Burst /\ d >= -(Catchup * Period))
         /\ due < -Behind => d > 0
<1> DEFINE cp == Catchup * p  cP == Catchup * Period
<1>1. /\ cp \in Nat /\ cP \in Nat /\ cp <= cP /\ Behind = cP + Period
      /\ p \in Nat /\ p > 0 /\ Burst <= p /\ p <= Period /\ Burst \in Nat /\ Period \in Nat
  BY Slots, Sizes
<1>2. d = IF -(due + p) > cp THEN p ELSE due + p
  BY DEF Rescheduled
<1> HIDE DEF cp, cP
<1>3. d > 0 \/ (d >= due + Burst /\ d >= -cP)
  BY <1>1, <1>2
<1>4. due < -Behind => d > 0
  BY <1>1, <1>2
<1>5. d \in Int /\ d <= Period
  BY <1>1, <1>2
<1>6. QED
  BY <1>3, <1>4, <1>5 DEF cP

LEMMA PacedStep ==
  ASSUME KeepaliveIsRare, TypeOK, TypeOK', Paced, CatchUpBounded, [Next]_vars
  PROVE  Paced' /\ CatchUpBounded'
<1> USE Sizes
<1> DEFINE cp == Catchup * Period  limit == cp \div Burst
<1>1. /\ t \in Tracker /\ t.sched \in BOOLEAN /\ t.due \in Int /\ t.since \in 0..Keepalive /\ atOnce \in Nat
  BY TrackerFields DEF TypeOK
<1>2. /\ t' \in Tracker /\ t'.sched \in BOOLEAN /\ t'.due \in Int /\ t'.since \in 0..Keepalive
      /\ atOnce' \in Nat
  BY TrackerFields DEF TypeOK
<1>3. cp \in Nat /\ Behind = cp + Period /\ Keepalive > cp + Period + Period
  BY Slots DEF KeepaliveIsRare
<1>4. limit \in Int /\ limit >= 0
  BY <1>3, StepsThatFit, 0 * Burst <= cp
<1>5. atOnce <= 2 + limit
  BY DEF CatchUpBounded
<1>6. /\ t.sched => t.due >= -(Behind + 1) /\ (t.due <= Period - t.since \/ t.due = -(Behind + 1))
      /\ atOnce > 0 => /\ t.sched /\ t.since = 0
                       /\ \/ t.due > 0
                          \/ t.due >= (atOnce - 1) * Burst - cp
                          \/ atOnce = 1 /\ t.due < -Behind
  BY DEF Paced
<1>7. SUFFICES
      /\ t'.sched => t'.due >= -(Behind + 1) /\ (t'.due <= Period - t'.since \/ t'.due = -(Behind + 1))
      /\ atOnce' > 0 => /\ t'.sched /\ t'.since = 0
                        /\ \/ t'.due > 0
                           \/ t'.due >= (atOnce' - 1) * Burst - cp
                           \/ atOnce' = 1 /\ t'.due < -Behind
      /\ atOnce' <= 2 + limit
  BY DEF Paced, CatchUpBounded, Behind
<1> HIDE DEF cp, limit
<1>8. ASSUME t'.sched = t.sched, t'.due = t.due, t'.since = t.since, atOnce' = atOnce
      PROVE  /\ t'.sched => t'.due >= -(Behind + 1)
                            /\ (t'.due <= Period - t'.since \/ t'.due = -(Behind + 1))
             /\ atOnce' > 0 => /\ t'.sched /\ t'.since = 0
                               /\ \/ t'.due > 0
                                  \/ t'.due >= (atOnce' - 1) * Burst - cp
                                  \/ atOnce' = 1 /\ t'.due < -Behind
             /\ atOnce' <= 2 + limit
  BY <1>5, <1>6, <1>8
<1>9. CASE Tick
  <2>1. t' = Aged(t) /\ atOnce' = 0
    BY <1>9 DEF Tick
  <2>2. /\ t'.sched = t.sched
        /\ t'.due = (IF t.sched THEN Clamp(t.due - 1, -(Behind + 1), t.due) ELSE 0)
        /\ t'.since = (IF t.sched THEN Clamp(t.since + 1, 0, Keepalive) ELSE 0)
    BY <1>1, <2>1, AgedIs
  <2>3. CASE t.sched
    <3>1. t.due >= -(Behind + 1) /\ (t.due <= Period - t.since \/ t.due = -(Behind + 1))
      BY <1>6, <2>3
    <3>2. t'.due = Clamp(t.due - 1, -(Behind + 1), t.due) /\ t'.since = Clamp(t.since + 1, 0, Keepalive)
      BY <2>2, <2>3
    <3>3. t'.due = (IF t.due - 1 < -(Behind + 1) THEN -(Behind + 1) ELSE t.due - 1)
      BY <1>1, <1>3, <3>1, <3>2 DEF Clamp
    <3>4. t'.since <= t.since + 1
      BY <1>1, <3>2 DEF Clamp
    <3>5. t'.due >= -(Behind + 1) /\ (t'.due <= Period - t'.since \/ t'.due = -(Behind + 1))
      BY <1>1, <1>2, <1>3, <3>1, <3>3, <3>4
    <3>6. QED
      BY <1>4, <2>1, <3>5
  <2>4. CASE ~t.sched
    BY <1>4, <2>1, <2>2, <2>4
  <2>5. QED
    BY <2>3, <2>4
<1>10. CASE SendRx
  <2> DEFINE u == Scheduled(t)
  <2>1. t' = Decided(u) /\ atOnce' = IF Go(u) THEN atOnce + 1 ELSE atOnce
    BY <1>10, Zenon DEF SendRx
  <2>2. /\ t'.sched /\ Go(u) \in BOOLEAN
        /\ u.due = (IF t.sched THEN t.due ELSE 0) /\ u.since = (IF t.sched THEN t.since ELSE 0)
        /\ ~Go(u) => t'.due = u.due /\ t'.since = u.since
        /\ Go(u) => /\ t'.since = 0
                    /\ \/ t'.due = u.due /\ u.since >= Keepalive
                       \/ u.due <= 0 /\ \E p \in {Burst, Period} : t'.due = Rescheduled(u.due, p)
    BY <1>1, <2>1, DecidedIs
  <2> DEFINE go == Go(u)  due == u.due  since == u.since
  <2>3. /\ due \in Int /\ since \in 0..Keepalive
        /\ due >= -(Behind + 1) /\ (due <= Period - since \/ due = -(Behind + 1))
    BY <1>1, <1>3, <1>6, <2>2
  <2>4. atOnce > 0 => /\ since = 0
                      /\ \/ due > 0
                         \/ due >= (atOnce - 1) * Burst - cp
                         \/ atOnce = 1 /\ due < -Behind
    BY <1>6, <2>2
  <2>5. /\ atOnce' = IF go THEN atOnce + 1 ELSE atOnce
        /\ t'.sched /\ go \in BOOLEAN
        /\ ~go => t'.due = due /\ t'.since = since
        /\ go => /\ t'.since = 0
                 /\ \/ t'.due = due /\ since >= Keepalive
                    \/ due <= 0 /\ \E p \in {Burst, Period} : t'.due = Rescheduled(due, p)
    BY <2>1, <2>2
  <2> HIDE DEF u, go, due, since
  <2>6. CASE ~go
    BY <1>5, <2>3, <2>4, <2>5, <2>6
  <2>7. CASE go /\ t'.due = due /\ since >= Keepalive
    <3>1. atOnce = 0
      BY <1>1, <2>4, <2>7
    <3>2. atOnce' = 1 /\ t'.since = 0
      BY <2>5, <2>7, <3>1
    <3>3. due < -Behind /\ t'.due < -Behind
      BY <1>3, <2>3, <2>7
    <3>4. t'.due >= -(Behind + 1) /\ t'.due <= Period - 0
      BY <1>3, <2>3, <2>7, <3>3
    <3>5. QED
      BY <1>4, <2>5, <3>2, <3>3, <3>4
  <2>8. CASE go /\ due <= 0 /\ \E p \in {Burst, Period} : t'.due = Rescheduled(due, p)
    <3>1. PICK p \in {Burst, Period} : t'.due = Rescheduled(due, p)
      BY <2>8
    <3>2. /\ t'.due \in Int /\ t'.due <= Period
          /\ t'.due > 0 \/ (t'.due >= due + Burst /\ t'.due >= -cp)
          /\ due < -Behind => t'.due > 0
      BY <2>3, <2>8, <3>1, RescheduledIs DEF cp
    <3>3. atOnce' = atOnce + 1 /\ t'.since = 0
      BY <2>5, <2>8
    <3>4. t'.due >= -(Behind + 1) /\ t'.due <= Period - 0
      BY <1>3, <3>2
    <3>5. CASE atOnce = 0
      <4>1. (atOnce' - 1) * Burst = 0
        BY <3>3, <3>5, Z3
      <4>2. t'.due > 0 \/ t'.due >= (atOnce' - 1) * Burst - cp
        BY <1>3, <3>2, <4>1
      <4>3. QED
        BY <1>4, <2>5, <3>3, <3>4, <3>5, <4>2
    <3>6. CASE atOnce > 0
      <4> DEFINE k == (atOnce - 1) * Burst
      <4>1. k \in Int /\ (atOnce' - 1) * Burst = k + Burst
        <5>1. k \in Int /\ ((atOnce + 1) - 1) * Burst = k + Burst
          BY <1>1, Z3
        <5>2. QED
          BY <3>3, <5>1
      <4> HIDE DEF k
      <4>2. due >= k - cp \/ (atOnce = 1 /\ due < -Behind)
        BY <2>3, <2>4, <2>8, <3>6 DEF k
      <4>3. t'.due > 0 \/ t'.due >= (atOnce' - 1) * Burst - cp
        BY <1>3, <2>3, <3>2, <4>1, <4>2
      <4>4. atOnce' <= 2 + limit
        <5>1. CASE atOnce = 1
          BY <1>4, <3>3, <5>1
        <5>2. CASE atOnce # 1
          <6>1. k <= cp /\ atOnce - 1 \in Nat
            BY <1>1, <1>3, <2>3, <2>8, <3>6, <4>1, <4>2, <5>2
          <6>2. atOnce - 1 <= limit
            BY <1>3, <6>1, StepsThatFit DEF k, limit
          <6>3. QED
            BY <1>1, <1>4, <3>3, <6>2
        <5>3. QED
          BY <5>1, <5>2
      <4>5. QED
        BY <2>5, <3>3, <3>4, <4>3, <4>4
    <3>7. QED
      BY <1>1, <3>5, <3>6
  <2>9. QED
    BY <2>5, <2>6, <2>7, <2>8
<1>11. CASE SendReturns
  <2>1. PICK taken \in BOOLEAN, ok \in BOOLEAN : Transfer(taken, ok)
    BY <1>11 DEF SendReturns
  <2>2. atOnce' = atOnce
    BY <2>1 DEF Transfer
  <2>3. t'.sched = t.sched /\ t'.due = t.due /\ t'.since = t.since
    <3>1. CASE ok
      <4>1. t' = Sent(t, txId) /\ txId \in 0..(Ids - 1)
        BY <2>1, <3>1 DEF Transfer, TypeOK
      <4>2. QED
        BY <1>1, <4>1, SentIs
    <3>2. CASE ~ok
      BY <2>1, <3>2 DEF Transfer
    <3>3. QED
      BY <3>1, <3>2
  <2>4. QED
    BY <1>8, <2>2, <2>3
<1>12. CASE PollStatus
  <2>1. CASE statuses[1].state = state
    BY <1>8, <1>12, <2>1, Handled
  <2>2. CASE statuses[1].state # state
    <3>1. ~t'.sched /\ atOnce' = 0
      BY <1>12, <2>2, Handled
    <3>2. QED
      BY <1>4, <3>1
  <2>3. QED
    BY <2>1, <2>2
<1>13. CASE ModemLeaves \/ ModemReceives \/ UNCHANGED vars
  BY <1>8, <1>13 DEF ModemLeaves, ModemReceives, vars, host
<1>14. QED
  BY <1>9, <1>10, <1>11, <1>12, <1>13 DEF Next, Io

-----------------------------------------------------------------------------
(* The statuses and the anchor are in step with the modem.                 *)

LEMMA Times ==
  \A k \in Nat : k * P \in Nat /\ (k + 1) * P = k * P + P /\ 0 * P = 0
<1>1. P \in Nat
  BY Sizes
<1>2. QED
  BY <1>1, Z3


LEMMA ReportsStep ==
  ASSUME BoundsAreWide, TypeOK, TypeOK', SessionsInTurn, ReportsInStep, [Next]_vars
  PROVE  ReportsInStep'
<1> USE Sizes
<1> DEFINE n == Pending  m == Pending'
<1>1. /\ n \in Nat /\ DOMAIN statuses = 1..n /\ n = Len(statuses)
      /\ (n = 0 <=> statuses = <<>>) /\ \A i \in 1..n : statuses[i] \in Status
  BY Places DEF Pending
<1>2. m = Len(statuses') /\ m \in Nat /\ DOMAIN statuses' = 1..m /\ \A i \in 1..m : statuses'[i] \in Status
  <2>1. m = Len(statuses') /\ statuses' \in Seq(Status)
    BY DEF Pending, TypeOK
  <2>2. /\ Len(statuses') \in Nat /\ DOMAIN statuses' = 1..Len(statuses')
        /\ \A i \in 1..Len(statuses') : statuses'[i] \in Status
    BY <2>1, LenProperties, ElementOfSeq
  <2>3. QED
    BY <2>1, <2>2
<1>3. /\ t \in Tracker /\ t' \in Tracker /\ txId \in 0..(Ids - 1) /\ modem \in ModemState
      /\ modem.fill \in 0..Capacity
  BY DEF TypeOK, ModemState
<1>4. modem.state = "RX" /\ state = "RX" =>
        /\ \A j \in 1..n : statuses[j].state = "RX"
        /\ n <= MaxPending /\ (sending => n < MaxPending)
        /\ \A j \in 1..n : statuses[j].pure =>
             /\ statuses[j].ref = SentBefore(txId, (n - j) + 1)
             /\ modem.fill = (statuses[j].fill + (n - j) * P) - statuses[j].wait
             /\ (n - j) + 1 \in DOMAIN t.ring => t.ring[(n - j) + 1].age = statuses[j].wait
  BY <1>1 DEF SessionsInTurn, ReportsInStep, n
<1>5. SUFFICES ASSUME modem'.state = "RX", state' = "RX", NEW j \in 1..m, statuses'[j].pure
               PROVE  /\ statuses'[j].ref = SentBefore(txId', (m - j) + 1)
                      /\ modem'.fill = (statuses'[j].fill + (m - j) * P) - statuses'[j].wait
                      /\ (m - j) + 1 \in DOMAIN t'.ring => t'.ring[(m - j) + 1].age = statuses'[j].wait
  BY <1>2 DEF ReportsInStep, m
<1> HIDE DEF n, m
<1>6. MaxPending <= Ids /\ Latency <= Capacity /\ Capacity + Latency <= MaxAge
  BY DEF BoundsAreWide
<1>7. ASSUME modem.state = "RX", state = "RX", m = n, txId' = txId, t'.ring = t.ring,
             modem'.fill = modem.fill, statuses'[j] = statuses[j]
      PROVE  /\ statuses'[j].ref = SentBefore(txId', (m - j) + 1)
             /\ modem'.fill = (statuses'[j].fill + (m - j) * P) - statuses'[j].wait
             /\ (m - j) + 1 \in DOMAIN t'.ring => t'.ring[(m - j) + 1].age = statuses'[j].wait
  BY <1>4, <1>5, <1>7
<1>8. CASE Tick
  <2>1. /\ modem'.state = modem.state /\ m = n
        /\ statuses'[j].wait = statuses[j].wait + 1
        /\ Starves => ~statuses'[j].pure
        /\ ~Starves => /\ statuses'[j].pure = statuses[j].pure /\ statuses'[j].ref = statuses[j].ref
                       /\ statuses'[j].fill = statuses[j].fill
        /\ modem.state = "RX" /\ ~Starves => modem.fill > 0 /\ modem'.fill = modem.fill - 1
    <3>1. m = n
      BY <1>1, <1>2, <1>8, Ticked
    <3>2. j \in 1..Len(statuses)
      BY <1>1, <3>1
    <3>3. QED
      BY <1>8, <3>1, <3>2, Ticked
  <2>2. state' = state /\ txId' = txId /\ t' = Aged(t)
    BY <1>8 DEF Tick
  <2>3. /\ statuses[j].pure /\ modem.state = "RX" /\ state = "RX" /\ j \in 1..n
        /\ modem'.fill = modem.fill - 1 /\ statuses'[j].fill = statuses[j].fill
        /\ statuses'[j].ref = statuses[j].ref
    BY <1>5, <2>1, <2>2
  <2>4. /\ statuses[j].ref = SentBefore(txId, (n - j) + 1)
        /\ modem.fill = (statuses[j].fill + (n - j) * P) - statuses[j].wait
        /\ (n - j) + 1 \in DOMAIN t.ring => t.ring[(n - j) + 1].age = statuses[j].wait
    BY <1>4, <2>3
  <2>5. statuses[j] \in Status /\ statuses'[j] \in Status
    BY <1>1, <1>2, <1>5, <2>3
  <2>6. /\ statuses[j].fill \in Nat /\ statuses[j].wait \in Nat
        /\ statuses'[j].wait \in 0..Latency
    BY <2>5 DEF Status
  <2>7. (m - j) * P \in Nat /\ m - j = n - j
    <3>1. m - j \in Nat
      BY <1>1, <2>1, <2>3
    <3>2. QED
      BY <2>1, <3>1, Times
  <2>8. modem'.fill = (statuses'[j].fill + (m - j) * P) - statuses'[j].wait
    <3> DEFINE x == (m - j) * P
    <3>1. x \in Nat /\ modem.fill = (statuses[j].fill + x) - statuses[j].wait
      BY <2>4, <2>7
    <3> HIDE DEF x
    <3>2. modem'.fill = (statuses'[j].fill + x) - statuses'[j].wait
      BY <1>3, <2>1, <2>3, <2>6, <3>1
    <3>3. QED
      BY <3>2 DEF x
  <2>9. ASSUME (m - j) + 1 \in DOMAIN t'.ring
        PROVE  t'.ring[(m - j) + 1].age = statuses'[j].wait
    <3> DEFINE k == (m - j) + 1
    <3>1. k \in DOMAIN t.ring /\ t'.ring[k].age = Clamp(t.ring[k].age + 1, 0, MaxEntryAge)
      BY <1>3, <2>2, <2>9, AgedIs
    <3>2. t.ring[k].age = statuses[j].wait
      BY <2>4, <2>7, <3>1
    <3>3. t'.ring[k].age = Clamp(statuses'[j].wait, 0, MaxEntryAge)
      BY <2>1, <3>1, <3>2
    <3> HIDE DEF k
    <3>4. Clamp(statuses'[j].wait, 0, MaxEntryAge) = statuses'[j].wait
      BY <2>6 DEF Clamp
    <3>5. QED
      BY <3>3, <3>4 DEF k
  <2>10. QED
    BY <2>2, <2>3, <2>4, <2>7, <2>8, <2>9
<1>9. CASE SendRx
  <2>1. t' = Decided(Scheduled(t)) /\ UNCHANGED <<modem, statuses, state, txId>>
    BY <1>9, Zenon DEF SendRx
  <2>2. t'.ring = t.ring
    BY <1>3, <2>1, DecidedIs
  <2>3. m = n
    BY <1>1, <1>2, <2>1
  <2>4. QED
    BY <1>5, <1>7, <2>1, <2>2, <2>3
<1>10. CASE SendReturns
  <2>1. PICK taken \in BOOLEAN, ok \in BOOLEAN : Transfer(taken, ok)
    BY <1>10 DEF SendReturns
  <2>2. /\ m = n + (IF taken THEN 1 ELSE 0)
        /\ taken => /\ modem.state = "RX" /\ modem'.fill = modem.fill + P
        /\ ~taken => modem' = modem
        /\ taken => LET i == n + 1 IN statuses'[i].wait = 0
        /\ taken = ok =>
             /\ \A i \in 1..n : statuses'[i] = statuses[i]
             /\ taken => LET i == n + 1 IN
                         statuses'[i].fill = modem'.fill /\ statuses'[i].ref = txId
        /\ taken # ok => \A i \in 1..m : ~statuses'[i].pure
    BY <1>1, <1>2, <2>1, Delivered
  <2>3. sending /\ state' = state
    BY <2>1 DEF Transfer
  <2>4. taken = ok
    BY <1>5, <2>2
  <2>5. modem.state = "RX" /\ state = "RX"
    BY <1>5, <2>2, <2>3
  <2>6. CASE ~taken
    <3>1. t' = t /\ txId' = txId
      BY <2>1, <2>4, <2>6 DEF Transfer
    <3>2. m = n /\ modem' = modem /\ statuses'[j] = statuses[j]
      BY <1>1, <1>5, <2>2, <2>4, <2>6
    <3>3. QED
      BY <1>7, <2>5, <3>1, <3>2
  <2>7. CASE taken
    <3>1. t' = Sent(t, txId) /\ txId' = NextId(txId)
      BY <2>1, <2>4, <2>7 DEF Transfer
    <3>2. /\ t'.ring[1] = [id |-> txId, age |-> 0]
          /\ \A i \in DOMAIN t'.ring : i > 1 =>
               (i - 1) \in DOMAIN t.ring /\ t'.ring[i] = t.ring[i - 1]
      BY <1>3, <3>1, SentIs
    <3>3. /\ SentBefore(txId', 1) = txId
          /\ \A k \in 1..(Ids - 1) : SentBefore(txId', k + 1) = SentBefore(txId, k)
      BY <1>3, <3>1, BeforeMoves
    <3>4. m = n + 1 /\ n < MaxPending
      BY <1>1, <1>4, <2>2, <2>3, <2>5, <2>7
    <3>5. CASE j = n + 1
      <4>1. m - j = 0
        BY <1>1, <3>4, <3>5
      <4>2. statuses'[j].wait = 0 /\ statuses'[j].fill = modem'.fill /\ statuses'[j].ref = txId
        BY <2>2, <2>4, <2>7, <3>5
      <4>3. t'.ring[1].age = 0
        BY <3>2
      <4>4. 0 * P = 0 /\ modem'.fill \in Int
        BY <1>3, <2>2, <2>7, Times
      <4>5. QED
        BY <3>3, <4>1, <4>2, <4>3, <4>4
    <3>6. CASE j # n + 1
      <4> DEFINE k == (n - j) + 1
      <4>1. j \in 1..n /\ k \in Nat /\ k >= 1 /\ k < Ids /\ m - j = k /\ n - j \in Nat /\ (n - j) + 1 = k
        BY <1>1, <1>6, <3>4, <3>6
      <4>2. statuses'[j] = statuses[j] /\ statuses[j].pure
        BY <1>5, <2>2, <2>4, <4>1
      <4>3. /\ statuses[j].ref = SentBefore(txId, k)
            /\ modem.fill = (statuses[j].fill + (n - j) * P) - statuses[j].wait
            /\ k \in DOMAIN t.ring => t.ring[k].age = statuses[j].wait
        BY <1>4, <2>5, <4>1, <4>2
      <4>4. statuses'[j].ref = SentBefore(txId', k + 1)
        BY <3>3, <4>1, <4>2, <4>3
      <4>5. modem'.fill = (statuses'[j].fill + (m - j) * P) - statuses'[j].wait
        <5> DEFINE x == (n - j) * P  y == (m - j) * P
        <5>1. x \in Nat /\ y = x + P
          BY <4>1, Times
        <5>2. statuses[j].fill \in Nat /\ statuses[j].wait \in Nat
          BY <1>1, <4>1 DEF Status
        <5>3. modem.fill = (statuses[j].fill + x) - statuses[j].wait
          BY <4>3
        <5> HIDE DEF x, y
        <5>4. modem'.fill = (statuses'[j].fill + y) - statuses'[j].wait
          BY <1>3, <2>2, <2>7, <4>2, <5>1, <5>2, <5>3
        <5>5. QED
          BY <5>4 DEF y
      <4>6. ASSUME (m - j) + 1 \in DOMAIN t'.ring
            PROVE  t'.ring[(m - j) + 1].age = statuses'[j].wait
        <5>1. k + 1 \in DOMAIN t'.ring /\ k + 1 > 1 /\ (k + 1) - 1 = k
          BY <4>1, <4>6
        <5>2. k \in DOMAIN t.ring /\ t'.ring[k + 1] = t.ring[k]
          BY <3>2, <5>1
        <5>3. QED
          BY <4>1, <4>2, <4>3, <5>2
      <4>7. QED
        BY <4>1, <4>4, <4>5, <4>6
    <3>7. QED
      BY <3>5, <3>6
  <2>8. QED
    BY <2>6, <2>7
<1>11. CASE PollStatus
  <2>1. /\ state' = statuses[1].state /\ m = n - 1 /\ modem' = modem
        /\ \A i \in 1..(n - 1) : statuses'[i] = statuses[i + 1]
        /\ statuses[1].state = state => t'.ring = t.ring /\ txId' = txId
    <3>1. modem' = modem
      BY <1>11 DEF PollStatus
    <3>2. QED
      BY <1>1, <1>2, <1>11, <3>1, Handled
  <2>2. modem.state = "RX" /\ state = "RX"
    <3>1. modem.state = "RX"
      BY <1>5, <2>1
    <3>2. state = "TX" => n = 1
      BY <3>1 DEF SessionsInTurn, n
    <3>3. QED
      BY <1>2, <1>5, <2>1, <3>1, <3>2 DEF TypeOK
  <2>3. j + 1 \in 1..n /\ statuses'[j] = statuses[j + 1] /\ n - (j + 1) = m - j
    BY <1>1, <1>5, <2>1
  <2>4. t'.ring = t.ring /\ txId' = txId
    BY <1>5, <2>1, <2>2
  <2>5. /\ statuses[j + 1].ref = SentBefore(txId, (m - j) + 1)
        /\ modem.fill = (statuses[j + 1].fill + (m - j) * P) - statuses[j + 1].wait
        /\ (m - j) + 1 \in DOMAIN t.ring => t.ring[(m - j) + 1].age = statuses[j + 1].wait
    BY <1>4, <1>5, <2>2, <2>3
  <2>6. QED
    BY <2>1, <2>3, <2>4, <2>5
<1>12. CASE ModemLeaves
  BY <1>5, <1>12, Left
<1>13. CASE ModemReceives
  BY <1>5, <1>13 DEF ModemReceives, host
<1>14. CASE UNCHANGED vars
  <2>1. UNCHANGED <<modem, statuses, state, txId, t>> /\ m = n
    BY <1>1, <1>2, <1>14 DEF vars, host
  <2>2. QED
    BY <1>5, <1>7, <2>1
<1>15. QED
  BY <1>8, <1>9, <1>10, <1>11, <1>12, <1>13, <1>14 DEF Next, Io

\* The host and the modem count on together: what is taken has the id expected, a transfer
\* told otherwise than it went taints every report, and a change of state resets both.
LEMMA IdsStep ==
  ASSUME TypeOK, TypeOK', SessionsInTurn, SessionsInTurn', IdsInStep, [Next]_vars
  PROVE  IdsInStep'
<1> USE Sizes
<1>1. /\ statuses \in Seq(Status) /\ statuses' \in Seq(Status)
      /\ Len(statuses) \in Nat /\ Len(statuses') \in Nat
      /\ DOMAIN statuses = 1..Len(statuses) /\ DOMAIN statuses' = 1..Len(statuses')
  BY LenProperties DEF TypeOK
<1>2. SUFFICES ASSUME modem'.state = "RX"
               PROVE  IF state' = "RX"
                      THEN exact' \/ (\E j \in DOMAIN statuses' : statuses'[j].pure)
                             => txId' = modem'.expected
                      ELSE modem'.expected = 0
  BY DEF IdsInStep
<1>3. CASE Tick
  <2>1. /\ modem'.state = modem.state /\ modem'.expected = modem.expected
        /\ Len(statuses') = Len(statuses)
        /\ \A i \in 1..Len(statuses) : statuses'[i].pure => statuses[i].pure
    <3>1. \A i \in 1..Len(statuses) : /\ Starves => ~statuses'[i].pure
                                      /\ ~Starves => statuses'[i].pure = statuses[i].pure
      BY <1>3, Ticked
    <3>2. QED
      BY <1>3, <3>1, Ticked
  <2>2. state' = state /\ txId' = txId /\ (exact' => exact)
    BY <1>3 DEF Tick
  <2>3. QED
    BY <1>1, <1>2, <2>1, <2>2 DEF IdsInStep
<1>4. CASE ModemLeaves
  BY <1>2, <1>4 DEF ModemLeaves
<1>5. CASE ModemReceives
  BY <1>2, <1>5 DEF ModemReceives, host
<1>6. CASE SendRx
  BY <1>2, <1>6 DEF SendRx, IdsInStep
<1>7. CASE SendReturns
  <2>1. PICK taken \in BOOLEAN, ok \in BOOLEAN : Transfer(taken, ok)
    BY <1>7, Zenon DEF SendReturns
  <2>2. state = "RX" /\ state' = state /\ exact' = (exact /\ taken = ok)
    BY <2>1 DEF Transfer, SessionsInTurn
  <2>3. CASE taken # ok
    BY <1>1, <2>1, <2>2, <2>3, Delivered
  <2>4. CASE taken /\ ok
    <3>1. txId = modem.expected /\ txId' = NextId(txId)
      BY <2>1, <2>4 DEF Transfer, Accepts
    <3>2. modem'.expected = NextId(modem.expected)
      BY <2>1, <2>4, Delivered
    <3>3. QED
      BY <2>2, <3>1, <3>2
  <2>5. CASE ~taken /\ ~ok
    <3>1. modem' = modem /\ Len(statuses') = Len(statuses)
      <4>1. modem' = modem
        BY <2>1, <2>5, Delivered, Zenon
      <4>2. Len(statuses') = Len(statuses) + (IF taken THEN 1 ELSE 0)
        BY <2>1, Delivered, Zenon
      <4>3. QED
        BY <1>1, <2>5, <4>1, <4>2
    <3>2. \A i \in 1..Len(statuses) : statuses'[i] = statuses[i]
      <4>1. taken = ok
        BY <2>5
      <4>2. QED
        BY <2>1, <4>1, Delivered, Zenon
    <3>3. txId' = txId
      BY <2>1, <2>5, Zenon DEF Transfer
    <3>4. QED
      BY <1>1, <1>2, <2>2, <3>1, <3>2, <3>3 DEF IdsInStep
  <2>6. QED
    BY <2>3, <2>4, <2>5
<1>8. CASE PollStatus
  <2> DEFINE st == statuses[1]
  <2>1. modem' = modem
    BY <1>8 DEF PollStatus
  <2>2. /\ statuses # <<>> /\ state' = st.state /\ 1 \in DOMAIN statuses
        /\ Len(statuses') = Len(statuses) - 1
        /\ \A i \in 1..(Len(statuses) - 1) : statuses'[i] = statuses[i + 1]
        /\ st.state = state => txId' = txId
        /\ st.state # state => txId' = 0
        /\ exact' => st.pure
    <3>1. /\ statuses # <<>> /\ state' = st.state /\ Len(statuses) \in Nat \ {0}
          /\ Len(statuses') = Len(statuses) - 1
          /\ \A i \in 1..(Len(statuses) - 1) : statuses'[i] = statuses[i + 1]
      BY <1>8, Handled
    <3>2. /\ st.state = state => txId' = txId
          /\ st.state # state => txId' = 0
      BY <1>8, Handled
    <3>3. exact' => st.pure
      BY <1>8, Handled
    <3>4. QED
      BY <1>1, <3>1, <3>2, <3>3
  <2>3. st.state = "RX"
    <3>1. state \in {"RX", "TX"}
      BY DEF TypeOK
    <3>2. QED
      BY <1>2, <2>1, <2>2, <3>1 DEF SessionsInTurn
  <2>4. CASE state = "RX"
    <3>1. exact' \/ (\E j \in DOMAIN statuses' : statuses'[j].pure)
            => \E j \in DOMAIN statuses : statuses[j].pure
      BY <1>1, <2>2
    <3>2. QED
      BY <1>2, <2>1, <2>2, <2>3, <2>4, <3>1 DEF IdsInStep
  <2>5. CASE state # "RX"
    BY <1>2, <2>1, <2>2, <2>3, <2>5 DEF IdsInStep
  <2>6. QED
    BY <2>4, <2>5
<1>9. CASE UNCHANGED vars
  BY <1>2, <1>9 DEF vars, host, IdsInStep
<1>10. QED
  BY <1>3, <1>4, <1>5, <1>6, <1>7, <1>8, <1>9 DEF Next, Io

LEMMA AnchorStep ==
  ASSUME BoundsAreWide, TypeOK, TypeOK', SessionsInTurn, SessionsInTurn', RingInOrder, ReportsInStep,
         AnchorInStep, [Next]_vars
  PROVE  AnchorInStep'
<1> USE Sizes
<1> DEFINE n == Pending  m == Pending'
<1>1. /\ n \in Nat /\ n = Len(statuses) /\ DOMAIN statuses = 1..n
      /\ (n = 0 <=> statuses = <<>>) /\ \A i \in 1..n : statuses[i] \in Status
  BY Places DEF Pending
<1>2. /\ m \in Nat /\ m = Len(statuses') /\ (m = 0 <=> statuses' = <<>>)
      /\ \A i \in 1..m : statuses'[i] \in Status
  <2>1. m = Len(statuses') /\ statuses' \in Seq(Status)
    BY DEF Pending, TypeOK
  <2>2. Len(statuses') \in Nat /\ \A i \in 1..Len(statuses') : statuses'[i] \in Status
    BY <2>1, LenProperties, ElementOfSeq
  <2>3. Len(statuses') = 0 <=> statuses' = <<>>
    BY <2>1, EmptySeq
  <2>4. QED
    BY <2>1, <2>2, <2>3
<1>3. /\ t \in Tracker /\ t' \in Tracker /\ txId \in 0..(Ids - 1) /\ modem.fill \in 0..Capacity
      /\ t.fill \in 0..Capacity /\ t.age \in 0..MaxAge /\ t.sent \in Nat
      /\ t'.fill \in 0..Capacity /\ t'.age \in 0..MaxAge /\ t'.sent \in Nat
      /\ DOMAIN t.ring = 1..Len(t.ring) /\ Len(t.ring) <= Ring /\ Len(t.ring) \in Nat
  BY TrackerFields DEF TypeOK, ModemState
<1>4. exact => /\ modem.state = "RX" /\ state = "RX" /\ t.has /\ t.sent = n * P
               /\ modem.fill = (t.fill + t.sent) - t.age
               /\ n # 0 => t.age <= Capacity + statuses[1].wait
  BY <1>1 DEF SessionsInTurn, AnchorInStep, n
<1>5. exact' => modem'.state = "RX" /\ state' = "RX"
  BY DEF SessionsInTurn
<1>6. SUFFICES ASSUME exact'
               PROVE  /\ t'.has /\ t'.sent = m * P
                      /\ modem'.fill = (t'.fill + t'.sent) - t'.age
                      /\ m # 0 => t'.age <= Capacity + statuses'[1].wait
  BY <1>2 DEF AnchorInStep, m
<1> HIDE DEF n, m
<1>7. MaxPending <= Ids /\ Latency <= Capacity /\ Capacity + Latency <= MaxAge
  BY DEF BoundsAreWide
<1>8. n * P \in Nat /\ (n + 1) * P = n * P + P /\ (n = 0 => n * P = 0)
  BY <1>1, Times
<1>9. ASSUME exact, m = n, t'.has = t.has, t'.sent = t.sent, t'.fill = t.fill, t'.age = t.age,
             modem' = modem, n # 0 => statuses'[1] = statuses[1]
      PROVE  /\ t'.has /\ t'.sent = m * P
             /\ modem'.fill = (t'.fill + t'.sent) - t'.age
             /\ m # 0 => t'.age <= Capacity + statuses'[1].wait
  BY <1>4, <1>9
<1>10. CASE Tick
  <2>1. exact /\ ~Starves /\ t' = Aged(t)
    BY <1>6, <1>10 DEF Tick
  <2>2. /\ m = n /\ modem.fill > 0 /\ modem'.fill = modem.fill - 1
        /\ n # 0 => statuses'[1].wait = statuses[1].wait + 1
    <3>1. m = n
      BY <1>1, <1>2, <1>10, Ticked
    <3>2. n # 0 => 1 \in 1..Len(statuses)
      BY <1>1
    <3>3. modem.state = "RX"
      BY <1>4, <2>1
    <3>4. QED
      BY <1>10, <2>1, <3>1, <3>2, <3>3, Ticked
  <2>3. /\ t'.has = t.has /\ t'.fill = t.fill /\ t'.sent = t.sent
        /\ t'.age = (IF t.has THEN Clamp(t.age + 1, 0, MaxAge) ELSE 0)
    BY <1>3, <2>1, AgedIs
  <2>4. t.age + 1 <= MaxAge
    <3>1. CASE n = 0
      <4>1. t.sent = 0 /\ modem.fill = (t.fill + t.sent) - t.age /\ modem.fill > 0
        BY <1>4, <1>8, <2>1, <2>2, <3>1
      <4>2. QED
        BY ONLY <1>3, <1>7, <4>1, Sizes
    <3>2. CASE n # 0
      <4>1. statuses'[1] \in Status /\ statuses[1] \in Status
        BY <1>1, <1>2, <2>2, <3>2
      <4>2. statuses'[1].wait \in 0..Latency /\ statuses[1].wait \in 0..Latency
        BY <4>1 DEF Status
      <4>3. t.age <= Capacity + statuses[1].wait
        BY <1>4, <2>1, <3>2
      <4>4. QED
        <5>1. statuses'[1].wait = statuses[1].wait + 1
          BY <2>2, <3>2
        <5>2. QED
          BY ONLY <1>3, <1>7, <4>2, <4>3, <5>1, Sizes
    <3>3. QED
      BY <3>1, <3>2
  <2>5. t'.age = t.age + 1
    <3>1. Clamp(t.age + 1, 0, MaxAge) = t.age + 1
      BY <1>3, <2>4 DEF Clamp
    <3>2. t.has
      BY <1>4, <2>1
    <3>3. QED
      BY <2>3, <3>1, <3>2
  <2>6. modem'.fill = (t'.fill + t'.sent) - t'.age
    BY <1>3, <1>4, <2>1, <2>2, <2>3, <2>5
  <2>7. m # 0 => t'.age <= Capacity + statuses'[1].wait
    <3>1. SUFFICES ASSUME n # 0 PROVE t.age + 1 <= Capacity + (statuses[1].wait + 1)
      BY <2>2, <2>5
    <3>2. statuses[1] \in Status
      BY <1>1, <3>1
    <3>3. statuses[1].wait \in 0..Latency
      BY <3>2 DEF Status
    <3>4. QED
      <4>1. t.age <= Capacity + statuses[1].wait
        BY <1>4, <2>1, <3>1
      <4>2. QED
        BY ONLY <1>3, <3>3, <4>1, Sizes
  <2>8. QED
    BY <1>4, <2>1, <2>2, <2>3, <2>6, <2>7
<1>11. CASE SendRx
  <2>1. t' = Decided(Scheduled(t)) /\ UNCHANGED <<modem, statuses, exact>>
    BY <1>11, Zenon DEF SendRx
  <2>2. t'.has = t.has /\ t'.sent = t.sent /\ t'.fill = t.fill /\ t'.age = t.age
    BY <1>3, <2>1, DecidedIs
  <2>3. m = n
    BY <1>1, <1>2, <2>1
  <2>4. QED
    BY <1>6, <1>9, <2>1, <2>2, <2>3
<1>12. CASE SendReturns
  <2>1. PICK taken \in BOOLEAN, ok \in BOOLEAN : Transfer(taken, ok)
    BY <1>12 DEF SendReturns
  <2>2. exact /\ taken = ok
    BY <1>6, <2>1, Zenon DEF Transfer
  <2>3. /\ m = n + (IF taken THEN 1 ELSE 0)
        /\ taken => modem'.fill = modem.fill + P
        /\ ~taken => modem' = modem
        /\ \A i \in 1..n : statuses'[i] = statuses[i]
        /\ taken => LET i == n + 1 IN statuses'[i].wait = 0
    BY <1>1, <1>2, <2>1, <2>2, Delivered
  <2>4. CASE ~taken
    <3>1. t' = t
      BY <2>1, <2>2, <2>4 DEF Transfer
    <3>2. m = n /\ (n # 0 => statuses'[1] = statuses[1])
      BY <1>1, <2>3, <2>4
    <3>3. QED
      BY <1>9, <2>2, <2>3, <2>4, <3>1, <3>2
  <2>5. CASE taken
    <3>1. t' = Sent(t, txId)
      BY <2>1, <2>2, <2>5 DEF Transfer
    <3>2a. t \in Tracker /\ txId \in 0..(Ids - 1)
      BY <1>3
    <3>2. t'.has = t.has /\ t'.sent = t.sent + P /\ t'.fill = t.fill /\ t'.age = t.age
      BY ONLY <3>1, <3>2a, SentIs
    <3>3. m = n + 1 /\ modem'.fill = modem.fill + P
      BY <1>1, <2>3, <2>5
    <3>4. t'.sent = m * P
      BY <1>4, <1>8, <2>2, <3>2, <3>3
    <3>5. modem'.fill = (t'.fill + t'.sent) - t'.age
      <4>1. modem.fill = (t.fill + t.sent) - t.age
        BY <1>4, <2>2
      <4>2. modem.fill \in Int /\ t.fill \in Int /\ t.sent \in Int /\ t.age \in Int /\ P \in Int
        BY <1>3
      <4>3. t'.sent = t.sent + P /\ t'.fill = t.fill /\ t'.age = t.age /\ modem'.fill = modem.fill + P
        BY <3>2, <3>3
      <4>4. QED
        BY ONLY <4>1, <4>2, <4>3
    <3>6. t'.age <= Capacity + statuses'[1].wait
      <4>1. CASE n = 0
        <5>1. statuses'[1].wait = 0
          BY <2>3, <2>5, <4>1
        <5>2. t.age <= Capacity
          BY <1>3, <1>4, <1>8, <2>2, <4>1
        <5>3. QED
          BY <3>2, <5>1, <5>2
      <4>2. CASE n # 0
        <5>1. statuses'[1] = statuses[1]
          BY <1>1, <2>3, <4>2
        <5>2. QED
          BY <1>4, <2>2, <3>2, <4>2, <5>1
      <4>3. QED
        BY <4>1, <4>2
    <3>7. QED
      BY <1>4, <2>2, <3>2, <3>4, <3>5, <3>6
  <2>6. QED
    BY <2>4, <2>5
<1>13. CASE PollStatus
  <2> DEFINE st == statuses[1]
  <2>1. /\ n # 0 /\ st \in Status /\ state' = st.state /\ m = n - 1
        /\ st.state = state => t'.ring = t.ring
        /\ st.state # state => t'.ring = <<>>
        /\ st.state = "RX" /\ st.pure /\ t'.has /\ t'.fill = st.fill
    BY <1>1, <1>2, <1>6, <1>13, Handled
  <2>2. PICK k \in DOMAIN t'.ring :
          t'.ring[k].id = st.ref /\ t'.age = t'.ring[k].age /\ t'.sent = (k - 1) * P
    BY <1>6, <1>13, Handled
  <2>3. modem' = modem
    BY <1>13 DEF PollStatus
  <2>4. modem.state = "RX"
    BY <1>5, <1>6, <2>3
  <2>5. state = "RX" /\ t'.ring = t.ring
    <3>1. CASE st.state = state
      BY <2>1, <3>1
    <3>2. CASE st.state # state
      <4>1. t'.ring = <<>>
        BY <2>1, <3>2
      <4>2. Len(t'.ring) = 0 /\ DOMAIN t'.ring = 1..Len(t'.ring)
        BY <1>3, <4>1, TrackerFields, EmptySeq
      <4>3. QED
        BY <2>2, <4>2
    <3>3. QED
      BY <3>1, <3>2
  <2>6. /\ n <= MaxPending
        /\ st.ref = SentBefore(txId, (n - 1) + 1)
        /\ modem.fill = (st.fill + (n - 1) * P) - st.wait
        /\ (n - 1) + 1 \in DOMAIN t.ring => t.ring[(n - 1) + 1].age = st.wait
    <3>1. 1 \in 1..n
      BY <1>1, <2>1
    <3>2. QED
      BY <1>1, <2>1, <2>4, <2>5, <3>1 DEF SessionsInTurn, ReportsInStep, n
  <2>7. k = n
    <3>1. k \in 1..Ids /\ n \in 1..Ids /\ (n - 1) + 1 = n
      <4>1. k \in 1..Len(t.ring)
        BY <1>3, <2>2, <2>5
      <4>2. n \in Nat /\ n # 0 /\ n <= Ids
        BY <1>1, <1>7, <2>1, <2>6
      <4>3. QED
        BY ONLY <1>3, <4>1, <4>2, Sizes
    <3>2. SentBefore(txId, k) = SentBefore(txId, n)
      BY <2>2, <2>5, <2>6, <3>1 DEF RingInOrder
    <3>3. QED
      BY <1>3, <3>1, <3>2, BeforeIsOne
  <2>8. t'.age = st.wait /\ t'.sent = (n - 1) * P
    <3>1. (n - 1) + 1 = n
      BY <1>1
    <3>2. n \in DOMAIN t.ring
      BY <2>2, <2>5, <2>7
    <3>3. t.ring[n].age = st.wait
      BY <2>6, <3>1, <3>2
    <3>4. QED
      BY <2>2, <2>5, <2>7, <3>3
  <2>9. t'.sent = m * P /\ modem'.fill = (t'.fill + t'.sent) - t'.age
    BY <2>1, <2>3, <2>6, <2>8
  <2>10. m # 0 => t'.age <= Capacity + statuses'[1].wait
    <3>1. SUFFICES ASSUME m # 0 PROVE st.wait <= Capacity + statuses'[1].wait
      BY <2>8
    <3>2. statuses'[1] \in Status
      BY <1>2, <3>1
    <3>3. statuses'[1].wait \in 0..Latency /\ st.wait \in 0..Latency
      BY <2>1, <3>2 DEF Status
    <3>4. QED
      BY <1>7, <3>3
  <2>11. QED
    BY <2>1, <2>9, <2>10
<1>14. CASE ModemLeaves
  BY <1>6, <1>14 DEF ModemLeaves
<1>15. CASE ModemReceives
  <2>1. exact' = exact /\ modem.state = "TX"
    BY <1>15 DEF ModemReceives
  <2>2. QED
    BY <1>4, <1>6, <2>1
<1>16. CASE UNCHANGED vars
  <2>1. UNCHANGED <<modem, statuses, t, exact>> /\ m = n
    BY <1>1, <1>2, <1>16 DEF vars, host
  <2>2. QED
    BY <1>6, <1>9, <2>1
<1>17. QED
  BY <1>10, <1>11, <1>12, <1>13, <1>14, <1>15, <1>16 DEF Next, Io

\* An anchor in step gives the estimate that is exact.
LEMMA InStepIsExact ==
  ASSUME TypeOK, AnchorInStep
  PROVE  EstimateExact
<1>1. SUFFICES ASSUME exact, t.rate = Unit PROVE Estimate(t) = modem.fill
  BY DEF EstimateExact
<1>2. t.has /\ modem.fill = (t.fill + t.sent) - t.age
  BY <1>1 DEF AnchorInStep
<1>3. t.age \in Nat /\ t.fill \in Nat /\ t.sent \in Nat /\ modem.fill \in 0..Capacity
  BY Sizes, TrackerFields DEF TypeOK, ModemState
<1>4. Consumed(t, t.age) = t.age
  <2>1. (2 * t.age * Unit + Unit) \div (2 * Unit) = t.age
    BY <1>3, RoundedAtUnit
  <2>2. QED
    BY <1>1, <2>1 DEF Consumed
<1>5. Estimate(t) = Clamp(t.fill + t.sent - t.age, 0, Capacity)
  BY <1>2, <1>4 DEF Estimate
<1>6. QED
  BY <1>2, <1>3, <1>5, Sizes DEF Clamp

-----------------------------------------------------------------------------
(* No packet is refused while the estimate is exact.                       *)

\* What the estimate and the fill should_send decides on are.
LEMMA EstimateIs ==
  ASSUME NEW u \in Tracker
  PROVE  /\ Estimate(u) \in Int
         /\ Effective(u) = u.fill \/ Effective(u) = Estimate(u)
<1> USE Sizes
<1>1. u.fill \in 0..Capacity /\ u.age \in Nat /\ u.sent \in Nat /\ u.rate \in Nat
  <2>1. u.fill \in 0..Capacity /\ u.age \in 0..MaxAge /\ u.sent \in Nat /\ u.rate \in Rates
    BY TrackerFields
  <2>2. u.rate \in Nat
    BY ONLY <2>1, Sizes, Zenon
  <2>3. u.fill \in 0..Capacity /\ u.age \in Nat /\ u.sent \in Nat
    BY ONLY <2>1, Sizes
  <2>4. QED
    BY <2>2, <2>3
<1>2. Consumed(u, u.age) \in Int
  <2> DEFINE a == 2 * u.age * u.rate + Unit  m == 2 * Unit
  <2>1. a \in Int /\ m \in Nat \ {0}
    BY <1>1, Z3
  <2> HIDE DEF a, m
  <2>2. a \div m \in Int
    BY <2>1, Z3
  <2>3. QED
    BY <2>2 DEF Consumed, a, m
<1>3. Clamp(u.fill + u.sent - Consumed(u, u.age), 0, Capacity) \in Int
  BY <1>1, <1>2 DEF Clamp
<1>4. QED
  BY <1>3 DEF Estimate, Effective

\* should_send says yes for a keepalive, or when the fill it decides on is not above the
\* level that holds.
LEMMA GoMeans ==
  ASSUME NEW u \in Tracker, Go(u)
  PROVE  u.since >= Keepalive \/ u.fill <= Target + High \/ Estimate(u) <= Target + High
<1> USE Sizes
<1>1. u.fill \in Int /\ u.holding \in BOOLEAN
  BY TrackerFields
<1>2. Estimate(u) \in Int /\ (Effective(u) = u.fill \/ Effective(u) = Estimate(u))
  BY EstimateIs
<1>3. CASE Holds(u)
  BY <1>3 DEF Go, KeepaliveDue
<1>4. CASE ~Holds(u)
  <2>1. Effective(u) \in Int
    BY <1>1, <1>2
  <2>2. Effective(u) <= Target + High
    BY <1>1, <1>4, <2>1 DEF Holds
  <2>3. QED
    BY <1>2, <2>2
<1>5. QED
  BY <1>3, <1>4

LEMMA AtRestStep ==
  ASSUME TypeOK, TypeOK', SessionsInTurn, AtRest, [Next]_vars
  PROVE  AtRest'
<1> USE Sizes
<1> DEFINE n == Pending  m == Pending'
<1>1. /\ n \in Nat /\ n = Len(statuses) /\ DOMAIN statuses = 1..n /\ (n = 0 <=> statuses = <<>>)
  BY Places DEF Pending
<1>2. m = Len(statuses') /\ m \in Nat /\ DOMAIN statuses' = 1..m
  BY LenProperties DEF Pending, TypeOK
<1>3. /\ t \in Tracker /\ t' \in Tracker /\ txId \in 0..(Ids - 1) /\ state \in {"RX", "TX"}
      /\ modem.state \in {"RX", "TX"}
  BY DEF TypeOK, ModemState
<1>4. /\ state = "TX" => /\ ~t.sched /\ t.since = 0 /\ t.prev = -1
                         /\ \A j \in 1..n : j > 1 => statuses[j].state = "TX"
      /\ t.prev # -1 => t.has
  BY <1>1 DEF AtRest
<1>5. SUFFICES
      /\ state' = "TX" => /\ ~t'.sched /\ t'.since = 0 /\ t'.prev = -1
                          /\ \A j \in 1..m : j > 1 => statuses'[j].state = "TX"
      /\ t'.prev # -1 => t'.has
  BY <1>2 DEF AtRest
<1>6. modem.state = "RX" /\ state = "TX" => n = 1 /\ statuses[1].state = "RX"
  BY DEF SessionsInTurn, n
<1>7. modem.state = "TX" =>
        \/ n = 0
        \/ statuses[n].state = "TX" /\ \A j \in 1..(n - 1) : statuses[j].state = "RX"
  BY <1>1 DEF SessionsInTurn, n
<1> HIDE DEF n, m
<1>8. CASE Tick
  <2>1. m = n /\ \A j \in 1..n : statuses'[j].state = statuses[j].state
    BY <1>1, <1>2, <1>8, Ticked
  <2>2. state' = state /\ t' = Aged(t)
    BY <1>8 DEF Tick
  <2>3. /\ t'.prev = t.prev /\ t'.has = t.has /\ t'.sched = t.sched
        /\ t'.since = (IF t.sched THEN Clamp(t.since + 1, 0, Keepalive) ELSE 0)
    BY <1>3, <2>2, AgedIs
  <2>4. QED
    BY <1>4, <2>1, <2>2, <2>3
<1>9. CASE ModemLeaves
  <2>1. /\ m = n + 1 /\ statuses'[n + 1].state = "TX"
        /\ \A j \in 1..n : statuses'[j].state = statuses[j].state
    BY <1>1, <1>2, <1>9, Left
  <2>2. state' = state /\ t' = t
    BY <1>9 DEF ModemLeaves, host
  <2>3. QED
    BY <1>1, <1>4, <2>1, <2>2
<1>10. CASE ModemReceives
  <2>1. m = 1
    BY <1>2, <1>10, Received
  <2>2. state' = state /\ t' = t
    BY <1>10 DEF ModemReceives, host
  <2>3. QED
    BY <1>4, <2>1, <2>2
<1>11. CASE SendRx
  <2>1. state = "RX" /\ state' = state /\ t' = Decided(Scheduled(t))
    BY <1>11, Zenon DEF SendRx
  <2>2. t'.prev = t.prev /\ t'.has = t.has
    BY <1>3, <2>1, DecidedIs
  <2>3. QED
    BY <1>4, <2>1, <2>2
<1>12. CASE SendReturns
  <2>1. PICK taken \in BOOLEAN, ok \in BOOLEAN : Transfer(taken, ok)
    BY <1>12 DEF SendReturns
  <2>2. state = "RX" /\ state' = state
    BY <2>1 DEF Transfer, SessionsInTurn
  <2>3. t'.prev = t.prev /\ t'.has = t.has
    <3>1. CASE ok
      <4>1. t' = Sent(t, txId) /\ t \in Tracker /\ txId \in 0..(Ids - 1)
        BY <1>3, <2>1, <3>1 DEF Transfer
      <4>2. QED
        BY ONLY <4>1, SentIs
    <3>2. CASE ~ok
      BY <2>1, <3>2 DEF Transfer
    <3>3. QED
      BY <3>1, <3>2
  <2>4. QED
    BY <1>4, <2>2, <2>3
<1>13. CASE PollStatus
  <2> DEFINE st == statuses[1]
  <2>1. /\ n # 0 /\ state' = st.state /\ m = n - 1
        /\ st.state # state => ~t'.sched /\ t'.since = 0
    BY <1>1, <1>2, <1>13, Handled
  <2>2. /\ st.state = "TX" => t'.prev = (IF state = "RX" THEN -1 ELSE t.prev)
                              /\ (state = "TX" => t' = t) /\ (state = "RX" => ~t'.has)
        /\ st.state = "RX" => t'.has
    BY <1>3, <1>13, Judged
  <2>3. CASE st.state = "TX"
    <3>1. n = 1
      <4>1. modem.state = "TX"
        BY <1>1, <1>3, <1>6, <2>1, <2>3 DEF SessionsInTurn, n
      <4>2. 1 \in 1..(n - 1) => st.state = "RX"
        BY <1>7, <2>1, <4>1
      <4>3. QED
        BY <1>1, <2>1, <2>3, <4>2
    <3>2. CASE state = "RX"
      BY <2>1, <2>2, <2>3, <3>1, <3>2
    <3>3. CASE state = "TX"
      BY <1>4, <2>1, <2>2, <2>3, <3>1, <3>3
    <3>4. QED
      BY <1>3, <3>2, <3>3
  <2>4. CASE st.state # "TX"
    <3>1. st.state = "RX"
      BY <1>13, <2>4, Handled DEF Status
    <3>2. QED
      BY <2>1, <2>2, <2>4, <3>1
  <2>5. QED
    BY <2>3, <2>4
<1>14. CASE UNCHANGED vars
  <2>1. UNCHANGED <<statuses, state, t>> /\ m = n
    BY <1>1, <1>2, <1>14 DEF vars, host
  <2>2. QED
    BY <1>4, <2>1
<1>15. QED
  BY <1>8, <1>9, <1>10, <1>11, <1>12, <1>13, <1>14 DEF Next, Io

\* Nothing but a packet that is taken puts more into the modem.
LEMMA DrainedStep ==
  ASSUME TypeOK, TypeOK', SessionsInTurn, AtRest, Drained, [Next]_vars
  PROVE  Drained'
<1> USE Sizes
<1> DEFINE left(n) == IF n < Capacity THEN Capacity - n ELSE 0
<1>1. /\ t \in Tracker /\ t' \in Tracker /\ txId \in 0..(Ids - 1) /\ sending \in BOOLEAN
      /\ sending' \in BOOLEAN /\ modem.fill \in 0..Capacity /\ modem'.fill \in 0..Capacity
      /\ modem \in ModemState
  BY DEF TypeOK, ModemState
<1>2. t.since \in Nat /\ t'.since \in Nat
  <2>1. t.since \in 0..Keepalive /\ t'.since \in 0..Keepalive
    BY <1>1, TrackerFields
  <2>2. QED
    BY <2>1
<1>3. modem.fill <= left(t.since) + (IF sending THEN 0 ELSE P)
  BY DEF Drained
<1>4. SUFFICES modem'.fill <= left(t'.since) + (IF sending' THEN 0 ELSE P)
  BY DEF Drained
<1>5. \A n \in Nat : left(n) \in Nat
  OBVIOUS
<1>6. left(0) = Capacity
  OBVIOUS
<1>7. \A i, j \in Nat : i <= j => left(j) <= left(i)
  OBVIOUS
<1>8a. \A n \in Nat : left(n) - 1 <= left(n + 1)
  OBVIOUS
<1> HIDE DEF left
<1>8. ASSUME t'.since = t.since, modem' = modem, sending' = sending
      PROVE  modem'.fill <= left(t'.since) + (IF sending' THEN 0 ELSE P)
  BY <1>3, <1>8
<1>9. ASSUME t'.since = 0
      PROVE  modem'.fill <= left(t'.since) + (IF sending' THEN 0 ELSE P)
  BY <1>1, <1>6, <1>9
<1>10. CASE Tick
  <2>1. t' = Aged(t) /\ sending' = sending
    BY <1>10 DEF Tick
  <2>2. t'.since = (IF t.sched THEN Clamp(t.since + 1, 0, Keepalive) ELSE 0)
    BY <1>1, <2>1, AgedIs
  <2>3. CASE t.sched
    <3>1. t'.since <= t.since + 1
      <4>1. t.since \in 0..Keepalive
        BY <1>1, TrackerFields
      <4>2. QED
        BY <2>2, <2>3, <4>1 DEF Clamp
    <3>2. left(t.since + 1) <= left(t'.since) /\ left(t.since) - 1 <= left(t.since + 1)
          /\ left(t'.since) \in Nat /\ left(t.since) \in Nat /\ left(t.since + 1) \in Nat
      <4>1. t.since + 1 \in Nat
        BY <1>2
      <4>2. left(t.since + 1) <= left(t'.since)
        BY <1>2, <1>7, <3>1, <4>1
      <4>3. left(t.since) \in Nat
        BY <1>2, <1>5
      <4>4. left(t.since + 1) \in Nat /\ left(t'.since) \in Nat
        BY <1>2, <1>5, <4>1
      <4>5. left(t.since) - 1 <= left(t.since + 1)
        BY <1>2, <1>8a
      <4>6. QED
        BY <4>2, <4>3, <4>4, <4>5
    <3>3. modem'.fill = (IF modem.fill = 0 THEN 0 ELSE modem.fill - 1)
      <4>1. modem' = [modem EXCEPT !.fill = Clamp(modem.fill - 1, 0, Capacity)]
        BY <1>10 DEF Tick
      <4>2. modem'.fill = Clamp(modem.fill - 1, 0, Capacity)
        BY <1>1, <4>1 DEF ModemState
      <4>3. QED
        BY <1>1, <4>2 DEF Clamp
    <3>4. QED
      BY <1>1, <1>3, <2>1, <3>2, <3>3
  <2>4. CASE ~t.sched
    BY <1>9, <2>2, <2>4
  <2>5. QED
    BY <2>3, <2>4
<1>11. CASE ModemLeaves
  <2>1. modem'.fill = 0
    BY <1>11 DEF ModemLeaves
  <2>2. QED
    BY <1>1, <1>2, <1>5, <2>1
<1>12. CASE ModemReceives
  <2>1. state = "TX" /\ t' = t
    BY <1>12 DEF ModemReceives, host
  <2>2. QED
    BY <1>9, <2>1 DEF AtRest
<1>13. CASE SendRx
  <2> DEFINE s == Scheduled(t)
  <2>1. t' = Decided(s) /\ sending' = Go(s) /\ modem' = modem /\ ~sending
    BY <1>13, Zenon DEF SendRx
  <2>2. /\ s.since = (IF t.sched THEN t.since ELSE 0)
        /\ ~Go(s) => t'.since = s.since
        /\ Go(s) => t'.since = 0
    BY <1>1, <2>1, DecidedIs
  <2> HIDE DEF s
  <2>3. CASE Go(s) \/ ~t.sched
    BY <1>9, <2>2, <2>3
  <2>4. CASE ~Go(s) /\ t.sched
    <3>1. t'.since = t.since /\ sending' = FALSE /\ sending = FALSE
      BY <1>1, <2>1, <2>2, <2>4
    <3>2. QED
      BY <1>8, <2>1, <3>1
  <2>5. QED
    BY <2>3, <2>4
<1>14. CASE SendReturns
  <2>1. PICK taken \in BOOLEAN, ok \in BOOLEAN : Transfer(taken, ok)
    BY <1>14 DEF SendReturns
  <2>2. sending /\ sending' = FALSE
    BY <2>1 DEF Transfer
  <2>3. t'.since = t.since
    <3>1. CASE ok
      <4>1. t' = Sent(t, txId) /\ t \in Tracker /\ txId \in 0..(Ids - 1)
        BY <1>1, <2>1, <3>1 DEF Transfer
      <4>2. QED
        BY ONLY <4>1, SentIs
    <3>2. CASE ~ok
      BY <2>1, <3>2 DEF Transfer
    <3>3. QED
      BY <3>1, <3>2
  <2>4. modem'.fill = modem.fill \/ modem'.fill = modem.fill + P
    BY <2>1, Delivered
  <2>5. left(t.since) \in Nat
    BY <1>2, <1>5
  <2>6. QED
    BY <1>1, <1>3, <2>2, <2>3, <2>4, <2>5
<1>15. CASE PollStatus
  <2>1. modem' = modem /\ sending' = sending
    BY <1>15 DEF PollStatus
  <2>2. t'.since = t.since \/ t'.since = 0
    BY <1>15, Handled
  <2>3. QED
    BY <1>8, <1>9, <2>1, <2>2
<1>16. CASE UNCHANGED vars
  BY <1>8, <1>16 DEF vars, host
<1>17. QED
  BY <1>10, <1>11, <1>12, <1>13, <1>14, <1>15, <1>16 DEF Next, Io

\* A decision to send finds room: the estimate or the anchor is not above the level that
\* holds, or the modem has drained since the last one.
LEMMA RefusedStep ==
  ASSUME RoomIsEnough, TypeOK, TypeOK', SessionsInTurn, SessionsInTurn', AnchorInStep, Drained,
         IdsInStep', NeverRefused, [Next]_vars
  PROVE  NeverRefused'
<1> USE Sizes
<1>1. /\ t \in Tracker /\ t' \in Tracker /\ txId \in 0..(Ids - 1) /\ sending \in BOOLEAN
      /\ modem.fill \in 0..Capacity /\ modem'.fill \in 0..Capacity /\ exact \in BOOLEAN
      /\ modem \in ModemState
  BY DEF TypeOK, ModemState
<1>2. SUFFICES ASSUME sending', exact', t'.rate = Unit, modem'.state = "RX"
               PROVE  modem'.fill + P <= Capacity
  BY DEF NeverRefused, Accepts, SessionsInTurn, IdsInStep
<1>3. ASSUME sending, exact, t.rate = Unit, modem.state = "RX", modem'.fill <= modem.fill
      PROVE  modem'.fill + P <= Capacity
  <2>1. modem.fill + P <= Capacity
    BY <1>3 DEF NeverRefused, Accepts
  <2>2. QED
    BY <1>1, <1>3, <2>1
<1>4. CASE Tick
  <2>1. t' = Aged(t) /\ sending' = sending /\ exact' = (exact /\ ~Starves)
    BY <1>4 DEF Tick
  <2>2. t'.rate = t.rate
    BY <1>1, <2>1, AgedIs
  <2>3. modem'.state = modem.state /\ modem'.fill <= modem.fill
    BY <1>4, Ticked
  <2>4. QED
    BY <1>2, <1>3, <2>1, <2>2, <2>3
<1>5. CASE ModemLeaves
  BY <1>2, <1>5 DEF ModemLeaves
<1>6. CASE ModemReceives
  <2>1. exact' = exact /\ modem.state = "TX"
    BY <1>6 DEF ModemReceives
  <2>2. QED
    BY <1>2, <2>1 DEF SessionsInTurn
<1>7. CASE SendRx
  <2> DEFINE s == Scheduled(t)
  <2>1. /\ t' = Decided(s) /\ sending' = Go(s) /\ UNCHANGED <<modem, statuses, state, exact>>
        /\ ~sending /\ state = "RX" /\ Len(statuses) < MaxPending
    BY <1>7, Zenon DEF SendRx
  <2>2. /\ s.since = (IF t.sched THEN t.since ELSE 0) /\ s.fill = t.fill
        /\ s \in Tracker /\ Estimate(s) = Estimate(t) /\ t'.rate = t.rate
    <3>1. s.since = (IF t.sched THEN t.since ELSE 0) /\ t'.rate = t.rate
      BY <1>1, <2>1, DecidedIs
    <3>2. s.fill = t.fill /\ s \in Tracker /\ Estimate(s) = Estimate(t)
      <4>1. CASE t.sched
        BY <1>1, <4>1 DEF Scheduled
      <4>2. CASE ~t.sched
        <5>1. s = [t EXCEPT !.sched = TRUE, !.due = 0, !.since = 0]
          BY <4>2 DEF Scheduled
        <5>2. TRUE \in BOOLEAN /\ 0 \in Int /\ 0 \in 0..Keepalive
          OBVIOUS
        <5>3. s \in Tracker
          <6>1. \A b \in BOOLEAN, d \in Int, n \in 0..Keepalive :
                  [t EXCEPT !.sched = b, !.due = d, !.since = n] \in Tracker
            BY ONLY <1>1, Updated
          <6>2. QED
            BY ONLY <5>1, <5>2, <6>1, Zenon
        <5>4. /\ s.has = t.has /\ s.fill = t.fill /\ s.age = t.age /\ s.sent = t.sent
              /\ s.rate = t.rate
          BY <1>1, <5>1 DEF Tracker
        <5>5. Estimate(s) = Estimate(t)
          BY <5>4 DEF Estimate, Consumed
        <5>6. QED
          BY <5>3, <5>4, <5>5
      <4>3. QED
        BY <4>1, <4>2
    <3>3. QED
      BY <3>1, <3>2
  <2>3. exact /\ t.rate = Unit /\ modem.state = "RX" /\ Go(s)
    BY <1>2, <2>1, <2>2
  <2> HIDE DEF s
  <2>4. s.since >= Keepalive \/ t.fill <= Target + High \/ Estimate(t) <= Target + High
    BY <2>2, <2>3, GoMeans
  <2>5. Estimate(t) = modem.fill
    BY <2>3, InStepIsExact DEF EstimateExact
  <2>6. Target + High + MaxPending * P <= Capacity /\ 2 * P <= Keepalive /\ 2 * P <= Capacity
    BY DEF RoomIsEnough
  <2>7. Pending \in Nat /\ Pending + 1 <= MaxPending
    <3>1. Pending \in Nat
      BY Places
    <3>2. QED
      BY <2>1, <3>1 DEF Pending
  <2>8. Pending * P \in Nat /\ MaxPending * P \in Nat /\ Pending * P + P <= MaxPending * P
    <3>1. (MaxPending - (Pending + 1)) * P >= 0 /\ Pending * P \in Nat /\ MaxPending * P \in Nat
      BY <2>7, Z3
    <3>2. (MaxPending - (Pending + 1)) * P = MaxPending * P - (Pending * P + P)
      BY <2>7, Z3
    <3>3. QED
      BY <3>1, <3>2
  <2> DEFINE now == Pending * P  most == MaxPending * P
  <2>9. /\ now \in Nat /\ most \in Nat /\ now + P <= most /\ Target + High + most <= Capacity
    BY <2>6, <2>8
  <2>10. t.sent = now /\ modem.fill = (t.fill + t.sent) - t.age
    BY <2>3 DEF AnchorInStep
  <2>11. t.fill \in Nat /\ t.age \in Nat
    <3>1. t.fill \in 0..Capacity /\ t.age \in 0..MaxAge
      BY <1>1, TrackerFields
    <3>2. QED
      BY <3>1
  <2> HIDE DEF now, most
  <2>12. CASE Estimate(t) <= Target + High
    BY <1>1, <2>1, <2>5, <2>9, <2>12
  <2>13. CASE t.fill <= Target + High
    BY <1>1, <2>1, <2>9, <2>10, <2>11, <2>13
  <2>14. CASE s.since >= Keepalive
    <3>1. t.since \in 0..Keepalive
      BY <1>1, TrackerFields
    <3>2. t.since = Keepalive
      BY <2>2, <2>14, <3>1
    <3>3. modem.fill <= (IF t.since < Capacity THEN Capacity - t.since ELSE 0) + P
      BY <2>1 DEF Drained
    <3>4. QED
      BY <1>1, <2>1, <2>6, <3>2, <3>3
  <2>15. QED
    BY <2>4, <2>12, <2>13, <2>14
<1>8. CASE SendReturns
  BY <1>2, <1>8 DEF SendReturns, Transfer
<1>9. CASE PollStatus
  BY <1>2, <1>9 DEF PollStatus
<1>10. CASE UNCHANGED vars
  <2>1. UNCHANGED <<sending, exact, t, modem>>
    BY <1>10 DEF vars, host
  <2>2. QED
    BY <1>1, <1>2, <1>3, <2>1
<1>11. QED
  BY <1>4, <1>5, <1>6, <1>7, <1>8, <1>9, <1>10 DEF Next, Io

-----------------------------------------------------------------------------
(* What goes wrong does not move the rate.                                 *)

\* A rate between the true one and the true one is the true one.
LEMMA RateIsUnit ==
  ASSUME NEW d \in Nat \ {0}, NEW r \in Nat,
         \/ Unit * d <= r * d /\ r * d <= d * Unit
         \/ d * Unit <= r * d /\ r * d <= Unit * d
  PROVE  r = Unit
<1>1. Unit \in Nat
  BY Sizes
<1>2. r * d = Unit * d
  BY <1>1, Z3
<1>3. d * (r - Unit) = 0
  BY <1>1, <1>2, Z3
<1>4. r - Unit = 0
  BY <1>1, <1>3, SmallMultiple
<1>5. QED
  BY <1>1, <1>4

\* An id is one ahead of the one before.
LEMMA NextIsOneAhead ==
  ASSUME NEW id \in 0..(Ids - 1), NEW next, next = NextId(id)
  PROVE  (next - id) % Ids = 1
<1>1. Ids \in Nat /\ Ids > 1
  BY Sizes
<1>2. next = IF id + 1 = Ids THEN 0 ELSE id + 1
  BY NextIdIs
<1>3. CASE id + 1 # Ids
  <2>1. next - id = 1
    BY <1>2, <1>3
  <2>2. 1 % Ids = 1
    BY <1>1, Z3
  <2>3. QED
    BY <2>1, <2>2
<1>4. CASE id + 1 = Ids
  <2>1. next - id = 1 - Ids
    BY <1>1, <1>2, <1>4
  <2> DEFINE a == 1 - Ids  q == a \div Ids  rest == a % Ids
  <2>2. a \in Int /\ q \in Int /\ rest \in 0..(Ids - 1) /\ a = Ids * q + rest
    BY <1>1, Z3
  <2> HIDE DEF q, rest
  <2>3. Ids * (q + 1) = 1 - rest
    <3>1. Ids * (q + 1) = Ids * q + Ids /\ Ids * q \in Int
      BY <1>1, <2>2, Z3
    <3>2. QED
      BY <1>1, <2>2, <3>1
  <2>4. q + 1 = 0
    BY <1>1, <2>2, <2>3, SmallMultiple
  <2>5. rest = 1
    BY <1>1, <2>2, <2>3, <2>4
  <2>6. QED
    BY <2>1, <2>5 DEF rest
<1>5. QED
  BY <1>3, <1>4

\* The products the ids are compared with.
LEMMA Moments ==
  /\ PerMoment \in Nat
  /\ \A k \in Nat : k * PerMoment \in Nat /\ (k + 1) * PerMoment = k * PerMoment + PerMoment
  /\ 0 * PerMoment = 0
  /\ IdsAreMany => \A k \in 0..Latency : k * PerMoment + PerMoment + 2 <= Ids
<1>1. (Catchup * Period) \div Burst \in Nat
  <2>1. Catchup * Period \in Nat /\ 0 * Burst = 0 /\ Burst \in Nat \ {0}
    BY Slots, Sizes, Z3
  <2>2. 0 <= (Catchup * Period) \div Burst /\ (Catchup * Period) \div Burst \in Int
    BY <2>1, StepsThatFit
  <2>3. QED
    BY <2>2
<1>2. PerMoment \in Nat
  BY <1>1 DEF PerMoment
<1>3. \A k \in Nat : k * PerMoment \in Nat /\ (k + 1) * PerMoment = k * PerMoment + PerMoment
  BY <1>2, Z3
<1>4. 0 * PerMoment = 0
  BY <1>2, Z3
<1>5. ASSUME IdsAreMany, NEW k \in 0..Latency
      PROVE  k * PerMoment + PerMoment + 2 <= Ids
  <2>1. (Latency + 1) * PerMoment + 2 <= Ids
    BY <1>5 DEF IdsAreMany
  <2>2. Latency \in Nat /\ k \in Nat /\ Latency - k \in Nat
    BY Sizes
  <2>3. (Latency + 1) * PerMoment = (Latency - k) * PerMoment + (k * PerMoment + PerMoment)
    BY <1>2, <2>2, Z3
  <2>4. (Latency - k) * PerMoment \in Nat /\ k * PerMoment \in Nat
    BY <1>3, <2>2
  <2>5. QED
    BY <1>2, <2>1, <2>3, <2>4, Sizes
<1>6. QED
  BY <1>2, <1>3, <1>4, <1>5

LEMMA OwnStep ==
  ASSUME IdsAreMany, TypeOK, TypeOK', SessionsInTurn, AtRest, CatchUpBounded, OwnInRing, [Next]_vars
  PROVE  OwnInRing'
<1> USE Sizes
<1> DEFINE n == Pending  m == Pending'  spent(k) == k * PerMoment
<1>1. /\ n \in Nat /\ n = Len(statuses) /\ DOMAIN statuses = 1..n /\ (n = 0 <=> statuses = <<>>)
      /\ \A i \in 1..n : statuses[i] \in Status
  BY Places DEF Pending
<1>2. m = Len(statuses') /\ m \in Nat /\ DOMAIN statuses' = 1..m /\ \A i \in 1..m : statuses'[i] \in Status
  <2>1. m = Len(statuses') /\ statuses' \in Seq(Status)
    BY DEF Pending, TypeOK
  <2>2. QED
    BY <2>1, LenProperties, ElementOfSeq
<1>3. /\ t \in Tracker /\ t' \in Tracker /\ txId \in 0..(Ids - 1) /\ state \in {"RX", "TX"}
      /\ sending \in BOOLEAN /\ sending' \in BOOLEAN /\ atOnce \in Nat /\ Len(t.ring) <= Ring
      /\ Len(t'.ring) <= Ring
  BY DEF TypeOK
<1>4. /\ DOMAIN t.ring = 1..Len(t.ring) /\ DOMAIN t'.ring = 1..Len(t'.ring)
      /\ Len(t.ring) \in Nat /\ Len(t'.ring) \in Nat
  BY <1>3, TrackerFields
<1>5. state = "RX" => \A j \in 1..n : statuses[j].state = "RX" /\ statuses[j].own =>
        \E k \in 0..(Ids - 1) :
          /\ k + (IF sending THEN 1 ELSE 0) <= spent(statuses[j].wait) + atOnce + 1
          /\ statuses[j].ref = SentBefore(txId, k + 1)
          /\ k + 1 \in DOMAIN t.ring => t.ring[k + 1].age = statuses[j].wait
  BY <1>1 DEF OwnInRing
<1>6. SUFFICES ASSUME state' = "RX", NEW j \in 1..m, statuses'[j].state = "RX", statuses'[j].own
               PROVE  \E k \in 0..(Ids - 1) :
                        /\ k + (IF sending' THEN 1 ELSE 0) <= spent(statuses'[j].wait) + atOnce' + 1
                        /\ statuses'[j].ref = SentBefore(txId', k + 1)
                        /\ k + 1 \in DOMAIN t'.ring => t'.ring[k + 1].age = statuses'[j].wait
  BY <1>2 DEF OwnInRing
<1>7. /\ \A k \in Nat : spent(k) \in Nat /\ spent(k + 1) = spent(k) + PerMoment
      /\ \A k \in 0..Latency : spent(k) + PerMoment + 2 <= Ids
      /\ PerMoment \in Nat /\ atOnce <= PerMoment
  BY Moments DEF CatchUpBounded, PerMoment
<1> HIDE DEF n, m, spent
<1>9. ASSUME NEW i \in 1..n, state = "RX", SameReport(statuses'[j], statuses[i])
      PROVE  \E k \in 0..(Ids - 1) :
               /\ k + (IF sending THEN 1 ELSE 0) <= spent(statuses[i].wait) + atOnce + 1
               /\ statuses'[j].ref = SentBefore(txId, k + 1)
               /\ k + 1 \in DOMAIN t.ring => t.ring[k + 1].age = statuses[i].wait
  BY <1>5, <1>6, <1>9 DEF SameReport
<1>10. CASE Tick
  <2>1. /\ m = n /\ SameReport(statuses'[j], statuses[j]) /\ statuses'[j].wait = statuses[j].wait + 1
        /\ j \in 1..n
    <3>1. m = n
      BY <1>1, <1>2, <1>10, Ticked
    <3>2. j \in 1..Len(statuses)
      BY <1>1, <1>6, <3>1
    <3>3. QED
      BY <1>10, <1>1, <3>1, <3>2, Ticked
  <2>2. state' = state /\ txId' = txId /\ t' = Aged(t) /\ sending' = sending /\ atOnce' = 0
    BY <1>10 DEF Tick
  <2>3. PICK k \in 0..(Ids - 1) :
               /\ k + (IF sending THEN 1 ELSE 0) <= spent(statuses[j].wait) + atOnce + 1
               /\ statuses'[j].ref = SentBefore(txId, k + 1)
               /\ k + 1 \in DOMAIN t.ring => t.ring[k + 1].age = statuses[j].wait
    BY <1>6, <1>9, <2>1, <2>2
  <2>4. statuses[j].wait \in Nat /\ statuses'[j].wait \in 0..Latency
    BY <1>1, <1>2, <1>6, <2>1 DEF Status
  <2>5. k + (IF sending' THEN 1 ELSE 0) <= spent(statuses'[j].wait) + atOnce' + 1
    <3>1. spent(statuses'[j].wait) = spent(statuses[j].wait) + PerMoment /\ spent(statuses[j].wait) \in Nat
      BY <1>7, <2>1, <2>4
    <3>2. atOnce \in Nat /\ PerMoment \in Nat /\ atOnce <= PerMoment /\ k \in Nat
      BY <1>3, <1>7, <2>3
    <3>3. k + (IF sending' THEN 1 ELSE 0) <= spent(statuses[j].wait) + atOnce + 1
      BY <2>2, <2>3
    <3>4. CASE sending'
      <4>1. k + 1 <= spent(statuses[j].wait) + atOnce + 1
        BY <3>3, <3>4
      <4>2. k + 1 <= spent(statuses'[j].wait) + 0 + 1
        BY ONLY <3>1, <3>2, <4>1
      <4>3. QED
        BY <2>2, <3>4, <4>2
    <3>5. CASE ~sending'
      <4>1. k + 0 <= spent(statuses[j].wait) + atOnce + 1
        BY <3>3, <3>5
      <4>2. k + 0 <= spent(statuses'[j].wait) + 0 + 1
        BY ONLY <3>1, <3>2, <4>1
      <4>3. QED
        BY <2>2, <3>5, <4>2
    <3>6. QED
      BY <3>4, <3>5
  <2>6. ASSUME k + 1 \in DOMAIN t'.ring PROVE t'.ring[k + 1].age = statuses'[j].wait
    <3>1. k + 1 \in DOMAIN t.ring /\ t'.ring[k + 1].age = Clamp(t.ring[k + 1].age + 1, 0, MaxEntryAge)
      BY <1>3, <2>2, <2>6, AgedIs
    <3>2. t'.ring[k + 1].age = Clamp(statuses'[j].wait, 0, MaxEntryAge)
      BY <2>1, <2>3, <3>1
    <3>3. Clamp(statuses'[j].wait, 0, MaxEntryAge) = statuses'[j].wait
      BY <2>4 DEF Clamp
    <3>4. QED
      BY <3>2, <3>3
  <2>7. QED
    BY <2>2, <2>3, <2>5, <2>6
<1>11. CASE ModemLeaves
  <2>1. /\ m = n + 1 /\ statuses'[n + 1].state = "TX"
        /\ \A i \in 1..n : /\ SameReport(statuses'[i], statuses[i])
                           /\ statuses'[i].wait = statuses[i].wait
    BY <1>1, <1>2, <1>11, Left
  <2>2. state' = state /\ txId' = txId /\ t' = t /\ sending' = sending /\ atOnce' = atOnce
    BY <1>11 DEF ModemLeaves, host
  <2>3. j \in 1..n
    BY <1>1, <1>6, <2>1
  <2>4. QED
    BY <1>6, <1>9, <2>1, <2>2, <2>3
<1>12. CASE ModemReceives
  BY <1>6, <1>12 DEF ModemReceives, host
<1>13. CASE SendRx
  <2> DEFINE go == Go(Scheduled(t))
  <2>1. /\ state = "RX" /\ ~sending /\ t' = Decided(Scheduled(t)) /\ sending' = go
        /\ atOnce' = (IF go THEN atOnce + 1 ELSE atOnce) /\ statuses' = statuses /\ txId' = txId
    BY <1>13, Zenon DEF SendRx
  <2>2. t'.ring = t.ring /\ go \in BOOLEAN
    BY <1>3, <2>1, DecidedIs
  <2> HIDE DEF go
  <2>3. j \in 1..n /\ SameReport(statuses'[j], statuses[j])
    BY <1>1, <1>2, <1>6, <2>1 DEF SameReport
  <2>4. PICK k \in 0..(Ids - 1) :
               /\ k + (IF sending THEN 1 ELSE 0) <= spent(statuses[j].wait) + atOnce + 1
               /\ statuses'[j].ref = SentBefore(txId, k + 1)
               /\ k + 1 \in DOMAIN t.ring => t.ring[k + 1].age = statuses[j].wait
    BY <1>9, <2>1, <2>3
  <2>6. spent(statuses[j].wait) \in Nat /\ statuses'[j].wait = statuses[j].wait
    <3>1. statuses[j].wait \in 0..Latency
      BY <1>1, <2>3 DEF Status
    <3>2. QED
      BY <1>7, <2>1, <3>1
  <2>7. k + (IF sending' THEN 1 ELSE 0) <= spent(statuses'[j].wait) + atOnce' + 1
    BY <1>3, <2>1, <2>2, <2>4, <2>6
  <2>8. QED
    BY <2>1, <2>2, <2>4, <2>6, <2>7
<1>14. CASE SendReturns
  <2>1. PICK taken \in BOOLEAN, ok \in BOOLEAN : Transfer(taken, ok)
    BY <1>14 DEF SendReturns
  <2>2. /\ m = n + (IF taken THEN 1 ELSE 0)
        /\ \A i \in 1..n : /\ SameReport(statuses'[i], statuses[i])
                           /\ statuses'[i].wait = statuses[i].wait
        /\ taken => /\ statuses'[n + 1].wait = 0 /\ statuses'[n + 1].ref = txId
                    /\ statuses'[n + 1].own = ok
    BY <1>1, <1>2, <2>1, Delivered
  <2>3. /\ sending /\ sending' = FALSE /\ atOnce' = atOnce /\ state' = state
        /\ IF ok THEN t' = Sent(t, txId) /\ txId' = NextId(txId) ELSE t' = t /\ txId' = txId
    BY <2>1, Zenon DEF Transfer
  <2>5. ok => /\ t'.ring[1] = [id |-> txId, age |-> 0]
              /\ \A i \in DOMAIN t'.ring : i > 1 =>
                   (i - 1) \in DOMAIN t.ring /\ t'.ring[i] = t.ring[i - 1]
              /\ SentBefore(txId', 1) = txId
              /\ \A i \in 1..(Ids - 1) : SentBefore(txId', i + 1) = SentBefore(txId, i)
    <3>1. SUFFICES ASSUME ok
                   PROVE  /\ t'.ring[1] = [id |-> txId, age |-> 0]
                          /\ \A i \in DOMAIN t'.ring : i > 1 =>
                               (i - 1) \in DOMAIN t.ring /\ t'.ring[i] = t.ring[i - 1]
                          /\ SentBefore(txId', 1) = txId
                          /\ \A i \in 1..(Ids - 1) : SentBefore(txId', i + 1) = SentBefore(txId, i)
      OBVIOUS
    <3>2. t' = Sent(t, txId) /\ txId' = NextId(txId)
      BY <2>3, <3>1
    <3>3. t \in Tracker /\ txId \in 0..(Ids - 1)
      BY <1>3
    <3>4. QED
      BY ONLY <3>2, <3>3, SentIs, BeforeMoves
  <2>6. CASE j \in 1..n
    <3>1. PICK k \in 0..(Ids - 1) :
               /\ k + (IF sending THEN 1 ELSE 0) <= spent(statuses[j].wait) + atOnce + 1
               /\ statuses'[j].ref = SentBefore(txId, k + 1)
               /\ k + 1 \in DOMAIN t.ring => t.ring[k + 1].age = statuses[j].wait
      BY <1>6, <1>9, <2>2, <2>3, <2>6
    <3>2. statuses'[j].wait = statuses[j].wait /\ statuses[j].wait \in 0..Latency
      BY <1>1, <2>2, <2>6 DEF Status
    <3>3. spent(statuses[j].wait) \in Nat /\ spent(statuses[j].wait) + PerMoment + 2 <= Ids
      BY <1>7, <3>2
    <3>4. CASE ~ok
      <4>1. k + (IF sending' THEN 1 ELSE 0) <= spent(statuses'[j].wait) + atOnce' + 1
        BY <1>3, <2>3, <3>1, <3>2, <3>3
      <4>2. QED
        BY <2>3, <3>1, <3>2, <3>4, <4>1
    <3>5. CASE ok
      <4>1. k + 1 \in 0..(Ids - 1) /\ k + 1 \in 1..(Ids - 1)
        <5>1. k + 1 <= spent(statuses[j].wait) + atOnce + 1
          BY <2>3, <3>1
        <5>2. atOnce \in Nat /\ PerMoment \in Nat /\ atOnce <= PerMoment /\ k \in Nat
          BY <1>3, <1>7, <3>1
        <5>3. QED
          BY ONLY <3>3, <5>1, <5>2, Sizes
      <4>2. (k + 1) + (IF sending' THEN 1 ELSE 0) <= spent(statuses'[j].wait) + atOnce' + 1
        BY <1>3, <2>3, <3>1, <3>2, <3>3
      <4>3. statuses'[j].ref = SentBefore(txId', (k + 1) + 1)
        BY <2>5, <3>1, <3>5, <4>1
      <4>4. ASSUME (k + 1) + 1 \in DOMAIN t'.ring
            PROVE  t'.ring[(k + 1) + 1].age = statuses'[j].wait
        <5>1. (k + 1) + 1 > 1 /\ ((k + 1) + 1) - 1 = k + 1
          BY <4>1
        <5>2. k + 1 \in DOMAIN t.ring /\ t'.ring[(k + 1) + 1] = t.ring[k + 1]
          BY <2>5, <3>5, <4>4, <5>1
        <5>3. QED
          BY <3>1, <3>2, <5>2
      <4>5. QED
        BY <4>1, <4>2, <4>3, <4>4
    <3>6. QED
      BY <3>4, <3>5
  <2>7. CASE ~(j \in 1..n)
    <3>1. taken /\ j = n + 1
      BY <1>1, <1>6, <2>2, <2>7
    <3>2. ok /\ statuses'[j].wait = 0 /\ statuses'[j].ref = txId
      BY <1>6, <2>2, <3>1
    <3>3. 0 + (IF sending' THEN 1 ELSE 0) <= spent(statuses'[j].wait) + atOnce' + 1
      <4>1. spent(statuses'[j].wait) \in Nat
        BY <1>7, <3>2
      <4>2. atOnce' \in Nat /\ sending' = FALSE
        BY <1>3, <2>3
      <4>3. QED
        BY ONLY <4>1, <4>2
    <3>4. statuses'[j].ref = SentBefore(txId', 0 + 1)
      BY <2>5, <3>2
    <3>5. t'.ring[0 + 1].age = statuses'[j].wait
      BY <2>5, <3>2
    <3>6. 0 \in 0..(Ids - 1)
      OBVIOUS
    <3>7. QED
      BY <3>3, <3>4, <3>5, <3>6
  <2>8. QED
    BY <2>6, <2>7
<1>15. CASE PollStatus
  <2> DEFINE st == statuses[1]
  <2>1. /\ n # 0 /\ state' = st.state /\ m = n - 1
        /\ \A i \in 1..(n - 1) : statuses'[i] = statuses[i + 1]
        /\ st.state = state => t'.ring = t.ring /\ atOnce' = atOnce /\ txId' = txId
    BY <1>1, <1>2, <1>15, Handled
  <2>2. sending' = sending
    BY <1>15 DEF PollStatus
  <2>3. j + 1 \in 1..n /\ statuses'[j] = statuses[j + 1] /\ j + 1 > 1
    BY <1>1, <1>6, <2>1
  <2>4. state = "RX"
    <3>1. SUFFICES ASSUME state = "TX" PROVE FALSE
      BY <1>3
    <3>2. statuses[j + 1].state = "TX"
      BY <1>1, <2>3, <3>1 DEF AtRest
    <3>3. QED
      BY <1>6, <2>3, <3>2
  <2>5. SameReport(statuses'[j], statuses[j + 1])
    BY <2>3 DEF SameReport
  <2>6. t'.ring = t.ring /\ atOnce' = atOnce /\ txId' = txId
    BY <1>6, <2>1, <2>4
  <2>7. QED
    BY <1>9, <2>2, <2>3, <2>4, <2>5, <2>6
<1>16. CASE UNCHANGED vars
  <2>1. UNCHANGED <<statuses, state, t, txId, sending, atOnce>> /\ m = n
    BY <1>1, <1>2, <1>16 DEF vars, host
  <2>2. SameReport(statuses'[j], statuses[j])
    BY <2>1 DEF SameReport
  <2>3. QED
    BY <1>6, <1>9, <2>1, <2>2
<1>17. QED
  BY <1>10, <1>11, <1>12, <1>13, <1>14, <1>15, <1>16 DEF Next, Io

\* An anchor that is dated has the age of the status it was taken from.
LEMMA DatedByWait ==
  ASSUME TypeOK, RingInOrder, OwnInRing, PollStatus, statuses[1].state = "RX", dated'
  PROVE  t'.age = statuses[1].wait
<1> USE Sizes
<1>1. statuses[1].own /\ state = "RX"
  BY Judged
<1>2. PICK i \in DOMAIN t.ring : t.ring[i].id = statuses[1].ref /\ t'.age = t.ring[i].age
  BY Judged
<1>3. 1 \in DOMAIN statuses
  <2>1. Len(statuses) \in Nat \ {0}
    BY Handled
  <2>2. QED
    BY <2>1, Places DEF Pending
<1>4. PICK k \in 0..(Ids - 1) :
        /\ statuses[1].ref = SentBefore(txId, k + 1)
        /\ k + 1 \in DOMAIN t.ring => t.ring[k + 1].age = statuses[1].wait
  BY <1>1, <1>3 DEF OwnInRing
<1>5. t \in Tracker /\ Len(t.ring) <= Ring /\ txId \in 0..(Ids - 1)
  BY DEF TypeOK
<1>6. DOMAIN t.ring = 1..Len(t.ring) /\ Len(t.ring) \in Nat
  BY <1>5, TrackerFields
<1>7. i \in 1..Ids /\ k + 1 \in 1..Ids
  BY <1>5, <1>6
<1>8. SentBefore(txId, i) = SentBefore(txId, k + 1)
  BY <1>2, <1>4 DEF RingInOrder
<1>9. i = k + 1
  BY <1>5, <1>7, <1>8, BeforeIsOne
<1>10. QED
  BY <1>2, <1>4, <1>9

\* Every report counts one packet more than the one before, as long as the modem did not run
\* dry; so what is inferred from two of them is the true rate.
LEMMA CountStep ==
  ASSUME BoundsAreWide, TypeOK, TypeOK', SessionsInTurn, SessionsInTurn', RingInOrder, AtRest, AtRest',
         OwnInRing, ~biased => ReportsCount /\ t.rate = Unit, [Next]_vars, ~biased'
  PROVE  ReportsCount' /\ t'.rate = Unit
<1> USE Sizes
<1> DEFINE n == Pending  m == Pending'
<1>1. /\ n \in Nat /\ n = Len(statuses) /\ DOMAIN statuses = 1..n /\ (n = 0 <=> statuses = <<>>)
      /\ \A i \in 1..n : statuses[i] \in Status
  BY Places DEF Pending
<1>2. m = Len(statuses') /\ m \in Nat /\ DOMAIN statuses' = 1..m /\ \A i \in 1..m : statuses'[i] \in Status
  <2>1. m = Len(statuses') /\ statuses' \in Seq(Status)
    BY DEF Pending, TypeOK
  <2>2. QED
    BY <2>1, LenProperties, ElementOfSeq
<1>3. /\ t \in Tracker /\ t' \in Tracker /\ txId \in 0..(Ids - 1) /\ state \in {"RX", "TX"}
      /\ modem \in ModemState /\ modem' \in ModemState /\ dated \in BOOLEAN /\ dated' \in BOOLEAN
      /\ biased \in BOOLEAN
  BY DEF TypeOK
<1>4. /\ t.fill \in 0..Capacity /\ t.age \in 0..MaxAge /\ t'.fill \in 0..Capacity /\ t'.age \in 0..MaxAge
      /\ t.prev \in -1..(Ids - 1) /\ t'.prev \in -1..(Ids - 1)
      /\ modem.fill \in 0..Capacity /\ modem'.fill \in 0..Capacity
      /\ modem.state \in {"RX", "TX"} /\ modem.expected \in 0..(Ids - 1)
  BY <1>3, TrackerFields DEF ModemState
<1>5. ASSUME NEW i \in 1..n
      PROVE  /\ statuses[i].fill \in 0..Capacity /\ statuses[i].wait \in 0..Latency
             /\ statuses[i].expected \in 0..(Ids - 1)
  BY <1>1, <1>5 DEF Status
<1>6. ~biased =>
        /\ t.rate = Unit
        /\ \A j \in 1..n : statuses[j].state = "RX" =>
             /\ state = "RX" => statuses[j].fill >= P
             /\ j > 1 => Counted(statuses[j], statuses[j - 1].expected, statuses[j - 1].fill,
                                 statuses[j - 1].wait, TRUE)
             /\ j = 1 /\ t.prev # -1 => Counted(statuses[j], t.prev, t.fill, t.age, dated)
        /\ modem.state = "RX" =>
             IF n > 0
             THEN modem.expected = statuses[n].expected /\ modem.fill = statuses[n].fill - statuses[n].wait
             ELSE t.prev # -1 => modem.expected = t.prev /\ (dated => modem.fill = t.fill - t.age)
  BY <1>1 DEF ReportsCount, n
<1>7. SUFFICES
        /\ t'.rate = Unit
        /\ \A j \in 1..m : statuses'[j].state = "RX" =>
             /\ state' = "RX" => statuses'[j].fill >= P
             /\ j > 1 => Counted(statuses'[j], statuses'[j - 1].expected, statuses'[j - 1].fill,
                                 statuses'[j - 1].wait, TRUE)
             /\ j = 1 /\ t'.prev # -1 => Counted(statuses'[j], t'.prev, t'.fill, t'.age, dated')
        /\ modem'.state = "RX" =>
             IF m > 0
             THEN modem'.expected = statuses'[m].expected /\ modem'.fill = statuses'[m].fill - statuses'[m].wait
             ELSE t'.prev # -1 => modem'.expected = t'.prev /\ (dated' => modem'.fill = t'.fill - t'.age)
  BY <1>2 DEF ReportsCount, Counted, m
<1> HIDE DEF n, m
<1>8. Latency <= Capacity /\ Capacity + Latency <= MaxAge
  BY DEF BoundsAreWide
<1>9. t.prev # -1 => t.has /\ state = "RX"
  BY <1>3 DEF AtRest
<1> DEFINE Same == /\ m = n /\ t'.rate = t.rate /\ state' = state /\ t'.prev = t.prev /\ t'.fill = t.fill
                   /\ t'.age = t.age /\ dated' = dated /\ modem' = modem /\ biased' = biased
                   /\ \A i \in 1..n : statuses'[i] = statuses[i]
<1>10. ASSUME Same
       PROVE  /\ t'.rate = Unit
              /\ \A j \in 1..m : statuses'[j].state = "RX" =>
                   /\ state' = "RX" => statuses'[j].fill >= P
                   /\ j > 1 => Counted(statuses'[j], statuses'[j - 1].expected, statuses'[j - 1].fill,
                                       statuses'[j - 1].wait, TRUE)
                   /\ j = 1 /\ t'.prev # -1 => Counted(statuses'[j], t'.prev, t'.fill, t'.age, dated')
              /\ modem'.state = "RX" =>
                   IF m > 0
                   THEN /\ modem'.expected = statuses'[m].expected
                        /\ modem'.fill = statuses'[m].fill - statuses'[m].wait
                   ELSE t'.prev # -1 => modem'.expected = t'.prev
                                        /\ (dated' => modem'.fill = t'.fill - t'.age)
  <2>1. ~biased
    BY <1>10
  <2>2. ASSUME NEW j \in 1..n, j > 1 PROVE j - 1 \in 1..n
    BY <1>1, <2>2
  <2>3. n > 0 => n \in 1..n
    BY <1>1
  <2>4. \A j \in 1..n : j > 1 => statuses'[j - 1] = statuses[j - 1]
    BY <1>10, <2>2
  <2>5. QED
    BY <1>6, <1>10, <2>1, <2>3, <2>4
<1> HIDE DEF Same
<1>11. CASE Tick
  <2>1. /\ ~biased /\ ~Starves /\ t' = Aged(t) /\ state' = state /\ dated' = dated
    BY <1>3, <1>7, <1>11 DEF Tick
  <2>2. /\ m = n /\ modem'.state = modem.state /\ modem'.expected = modem.expected
        /\ modem.state = "RX" => modem.fill > 0 /\ modem'.fill = modem.fill - 1
        /\ \A i \in 1..n : /\ statuses'[i].wait = statuses[i].wait + 1 /\ statuses[i].wait < Latency
                           /\ SameReport(statuses'[i], statuses[i])
    BY <1>1, <1>2, <1>11, <2>1, Ticked
  <2>3. /\ t'.rate = t.rate /\ t'.prev = t.prev /\ t'.fill = t.fill /\ t'.has = t.has
        /\ t'.age = (IF t.has THEN Clamp(t.age + 1, 0, MaxAge) ELSE 0)
    BY <1>3, <2>1, AgedIs
  <2>4. t.prev # -1 /\ t.age + 1 <= MaxAge => t'.age = t.age + 1
    BY <1>4, <1>9, <2>3 DEF Clamp
  <2>5. ASSUME NEW j \in 1..n, statuses'[j].state = "RX"
        PROVE  /\ state' = "RX" => statuses'[j].fill >= P
               /\ j > 1 => Counted(statuses'[j], statuses'[j - 1].expected, statuses'[j - 1].fill,
                                   statuses'[j - 1].wait, TRUE)
               /\ j = 1 /\ t'.prev # -1 => Counted(statuses'[j], t'.prev, t'.fill, t'.age, dated')
    <3>1. /\ statuses[j].state = "RX" /\ statuses'[j].fill = statuses[j].fill
          /\ statuses'[j].expected = statuses[j].expected /\ statuses'[j].wait = statuses[j].wait + 1
      BY <2>2, <2>5 DEF SameReport
    <3>2. state' = "RX" => statuses'[j].fill >= P
      BY <1>6, <2>1, <3>1
    <3>3. ASSUME j > 1
          PROVE  Counted(statuses'[j], statuses'[j - 1].expected, statuses'[j - 1].fill,
                         statuses'[j - 1].wait, TRUE)
      <4>1. j - 1 \in 1..n
        BY <1>1, <3>3
      <4>2. /\ statuses'[j - 1].fill = statuses[j - 1].fill
            /\ statuses'[j - 1].expected = statuses[j - 1].expected
            /\ statuses'[j - 1].wait = statuses[j - 1].wait + 1
        BY <2>2, <4>1 DEF SameReport
      <4>3. Counted(statuses[j], statuses[j - 1].expected, statuses[j - 1].fill,
                    statuses[j - 1].wait, TRUE)
        BY <1>6, <2>1, <3>1, <3>3
      <4>4. statuses[j].wait \in Nat /\ statuses[j - 1].wait \in Nat /\ statuses[j - 1].fill \in Nat
        <5>1. statuses[j].wait \in 0..Latency /\ statuses[j - 1].wait \in 0..Latency
              /\ statuses[j - 1].fill \in 0..Capacity
          BY <1>5, <4>1
        <5>2. QED
          BY <5>1
      <4>5. QED
        BY <3>1, <4>2, <4>3, <4>4 DEF Counted
    <3>4. ASSUME j = 1, t'.prev # -1
          PROVE  Counted(statuses'[j], t'.prev, t'.fill, t'.age, dated')
      <4>1. Counted(statuses[j], t.prev, t.fill, t.age, dated)
        BY <1>6, <2>1, <2>3, <3>1, <3>4
      <4>2. statuses'[j].expected = NextId(t'.prev)
        BY <2>3, <3>1, <4>1 DEF Counted
      <4>3. ASSUME dated'
            PROVE  statuses'[j].fill = (t'.fill + P) - (t'.age - statuses'[j].wait)
        <5>1. statuses[j].fill = (t.fill + P) - (t.age - statuses[j].wait)
          BY <2>1, <4>1, <4>3 DEF Counted
        <5>2. statuses[j].fill \in 0..Capacity /\ statuses[j].wait \in 0..Latency
          BY <1>5
        <5>3. statuses[j].fill >= P /\ statuses[j].wait < Latency
          BY <1>6, <1>9, <2>1, <2>2, <2>3, <3>1, <3>4
        <5>4. t.fill \in 0..Capacity /\ t.age \in 0..MaxAge
          BY <1>4
        <5>5. t.age + 1 <= MaxAge
          BY ONLY <1>8, <5>1, <5>2, <5>3, <5>4, Sizes
        <5>6. t'.age = t.age + 1 /\ t'.fill = t.fill
          BY <2>3, <2>4, <3>4, <5>5
        <5>7. (t.fill + P) - ((t.age + 1) - (statuses[j].wait + 1)) = statuses[j].fill
          BY ONLY <5>1, <5>2, <5>4, Sizes
        <5>8. QED
          BY <3>1, <5>6, <5>7
      <4>4. QED
        BY <4>2, <4>3 DEF Counted
    <3>5. QED
      BY <3>2, <3>3, <3>4
  <2>6. ASSUME modem'.state = "RX"
        PROVE  IF m > 0
               THEN /\ modem'.expected = statuses'[m].expected
                    /\ modem'.fill = statuses'[m].fill - statuses'[m].wait
               ELSE t'.prev # -1 => modem'.expected = t'.prev
                                    /\ (dated' => modem'.fill = t'.fill - t'.age)
    <3>1. CASE n > 0
      <4>1. n \in 1..n
        BY <1>1, <3>1
      <4>2. /\ statuses'[n].fill = statuses[n].fill /\ statuses'[n].expected = statuses[n].expected
            /\ statuses'[n].wait = statuses[n].wait + 1
        BY <2>2, <4>1 DEF SameReport
      <4>3. modem.expected = statuses[n].expected /\ modem.fill = statuses[n].fill - statuses[n].wait
        BY <1>6, <2>1, <2>2, <2>6, <3>1
      <4>4. statuses[n].fill \in 0..Capacity /\ statuses[n].wait \in 0..Latency
        BY <1>5, <4>1
      <4>5. modem'.fill = statuses'[n].fill - statuses'[n].wait
        <5>1. modem'.fill = modem.fill - 1
          BY <2>2, <2>6
        <5>2. (statuses[n].fill - statuses[n].wait) - 1 = statuses[n].fill - (statuses[n].wait + 1)
          BY ONLY <4>4, Sizes
        <5>3. QED
          BY <4>2, <4>3, <5>1, <5>2
      <4>6. QED
        BY <2>2, <3>1, <4>2, <4>3, <4>5
    <3>2. CASE ~(n > 0)
      <4>1. t.prev # -1 => modem.expected = t.prev /\ (dated => modem.fill = t.fill - t.age)
        BY <1>6, <2>1, <2>2, <2>6, <3>2
      <4>2. ASSUME t'.prev # -1, dated'
            PROVE  modem'.fill = t'.fill - t'.age
        <5>1. modem.fill = t.fill - t.age /\ modem.fill > 0 /\ modem'.fill = modem.fill - 1
          BY <2>1, <2>2, <2>3, <2>6, <4>1, <4>2
        <5>2. t.age + 1 <= MaxAge
          BY ONLY <1>4, <1>8, <5>1, Sizes
        <5>3. t'.age = t.age + 1
          BY <2>3, <2>4, <4>2, <5>2
        <5>4. (t.fill - t.age) - 1 = t.fill - (t.age + 1)
          BY ONLY <1>4, Sizes
        <5>5. QED
          BY <2>3, <5>1, <5>3, <5>4
      <4>3. QED
        BY <2>2, <2>3, <3>2, <4>1, <4>2
    <3>3. QED
      BY <3>1, <3>2
  <2>7. t'.rate = Unit
    BY <1>6, <2>1, <2>3
  <2>8. QED
    BY <2>2, <2>5, <2>6, <2>7
<1>12. CASE ModemLeaves
  <2>1. /\ m = n + 1 /\ statuses'[n + 1].state = "TX" /\ modem'.state = "TX"
        /\ \A i \in 1..n : SameReport(statuses'[i], statuses[i]) /\ statuses'[i].wait = statuses[i].wait
    BY <1>1, <1>2, <1>12, Left
  <2>2. state' = state /\ t' = t /\ dated' = dated /\ ~biased
    BY <1>7, <1>12 DEF ModemLeaves, host
  <2>3. ASSUME NEW j \in 1..m, statuses'[j].state = "RX"
        PROVE  /\ state' = "RX" => statuses'[j].fill >= P
               /\ j > 1 => Counted(statuses'[j], statuses'[j - 1].expected, statuses'[j - 1].fill,
                                   statuses'[j - 1].wait, TRUE)
               /\ j = 1 /\ t'.prev # -1 => Counted(statuses'[j], t'.prev, t'.fill, t'.age, dated')
    <3>1. j \in 1..n
      BY <1>1, <2>1, <2>3
    <3>2. /\ statuses[j].state = "RX" /\ statuses'[j].fill = statuses[j].fill
          /\ statuses'[j].expected = statuses[j].expected /\ statuses'[j].wait = statuses[j].wait
      BY <2>1, <2>3, <3>1 DEF SameReport
    <3>3. j > 1 => /\ statuses'[j - 1].fill = statuses[j - 1].fill
                   /\ statuses'[j - 1].expected = statuses[j - 1].expected
                   /\ statuses'[j - 1].wait = statuses[j - 1].wait
      <4>1. j > 1 => j - 1 \in 1..n
        BY <1>1, <3>1
      <4>2. QED
        BY <2>1, <4>1 DEF SameReport
    <3>4. QED
      BY <1>6, <2>2, <3>1, <3>2, <3>3 DEF Counted
  <2>4. QED
    BY <1>6, <2>1, <2>2, <2>3
<1>13. CASE ModemReceives
  <2>1. /\ m = 1 /\ statuses'[1].wait = 0 /\ statuses'[1].fill = modem'.fill
        /\ statuses'[1].expected = modem'.expected
    BY <1>2, <1>13, Received
  <2>2. state = "TX" /\ state' = state /\ t' = t /\ ~biased
    BY <1>7, <1>13 DEF ModemReceives, host
  <2>3. t'.prev = -1
    BY <2>2 DEF AtRest
  <2>4. modem'.fill = statuses'[1].fill - statuses'[1].wait
    BY <1>4, <2>1
  <2>5. QED
    BY <1>6, <2>1, <2>2, <2>3, <2>4
<1>14. CASE SendRx
  <2>1. /\ t' = Decided(Scheduled(t)) /\ UNCHANGED <<modem, statuses, state, dated, biased>>
    BY <1>14, Zenon DEF SendRx
  <2>2. t'.rate = t.rate /\ t'.prev = t.prev /\ t'.fill = t.fill /\ t'.age = t.age
    BY <1>3, <2>1, DecidedIs
  <2>3. Same
    BY <1>1, <1>2, <2>1, <2>2 DEF Same
  <2>4. QED
    BY <1>10, <2>3
<1>15. CASE SendReturns
  <2>1. PICK taken \in BOOLEAN, ok \in BOOLEAN : Transfer(taken, ok)
    BY <1>15 DEF SendReturns
  <2>2. /\ m = n + (IF taken THEN 1 ELSE 0)
        /\ \A i \in 1..n : SameReport(statuses'[i], statuses[i]) /\ statuses'[i].wait = statuses[i].wait
        /\ taken => /\ statuses'[n + 1].wait = 0 /\ statuses'[n + 1].state = "RX"
                    /\ statuses'[n + 1].fill = modem'.fill
                    /\ statuses'[n + 1].expected = modem'.expected
                    /\ modem.state = "RX" /\ modem'.fill = modem.fill + P
                    /\ modem'.expected = NextId(modem.expected)
        /\ ~taken => modem' = modem
    BY <1>1, <1>2, <2>1, Delivered
  <2>3. /\ state' = state /\ dated' = dated /\ biased' = biased /\ ~biased
        /\ IF ok THEN t' = Sent(t, txId) ELSE t' = t
    BY <1>7, <2>1, Zenon DEF Transfer
  <2>4. t'.rate = t.rate /\ t'.prev = t.prev /\ t'.fill = t.fill /\ t'.age = t.age
    <3>1. CASE ok
      <4>1. t' = Sent(t, txId) /\ t \in Tracker /\ txId \in 0..(Ids - 1)
        BY <1>3, <2>3, <3>1
      <4>2. QED
        BY ONLY <4>1, SentIs
    <3>2. CASE ~ok
      BY <2>3, <3>2
    <3>3. QED
      BY <3>1, <3>2
  <2>5. ASSUME NEW i \in 1..n
        PROVE  /\ statuses'[i].state = statuses[i].state /\ statuses'[i].fill = statuses[i].fill
               /\ statuses'[i].expected = statuses[i].expected /\ statuses'[i].wait = statuses[i].wait
    BY <2>2 DEF SameReport
  <2>6. ASSUME NEW j \in 1..n, statuses'[j].state = "RX"
        PROVE  /\ state' = "RX" => statuses'[j].fill >= P
               /\ j > 1 => Counted(statuses'[j], statuses'[j - 1].expected, statuses'[j - 1].fill,
                                   statuses'[j - 1].wait, TRUE)
               /\ j = 1 /\ t'.prev # -1 => Counted(statuses'[j], t'.prev, t'.fill, t'.age, dated')
    <3>1. j > 1 => j - 1 \in 1..n
      BY <1>1
    <3>2. QED
      BY <1>6, <2>3, <2>4, <2>5, <2>6, <3>1 DEF Counted
  <2>7. CASE ~taken
    <3>1. m = n /\ modem' = modem
      BY <1>1, <2>2, <2>7
    <3>2. n > 0 => n \in 1..n
      BY <1>1
    <3>3. modem'.state = "RX" =>
             IF m > 0
             THEN modem'.expected = statuses'[m].expected /\ modem'.fill = statuses'[m].fill - statuses'[m].wait
             ELSE t'.prev # -1 => modem'.expected = t'.prev /\ (dated' => modem'.fill = t'.fill - t'.age)
      BY <1>6, <2>3, <2>4, <2>5, <3>1, <3>2
    <3>4. QED
      BY <1>6, <2>3, <2>4, <2>6, <3>1, <3>3
  <2>8. CASE taken
    <3> DEFINE new == statuses'[n + 1]
    <3>1. m = n + 1 /\ m > 0 /\ new.wait = 0 /\ new.fill = modem'.fill /\ new.expected = modem'.expected
      BY <1>1, <2>2, <2>8
    <3>2. /\ modem.state = "RX" /\ modem'.fill = modem.fill + P /\ modem'.expected = NextId(modem.expected)
      BY <2>2, <2>8
    <3>3. modem'.fill = statuses'[m].fill - statuses'[m].wait /\ modem'.expected = statuses'[m].expected
      BY <1>4, <3>1
    <3>4. state' = "RX" => new.fill >= P
      BY <1>4, <3>1, <3>2
    <3>5. n > 0 => Counted(new, statuses'[n].expected, statuses'[n].fill, statuses'[n].wait, TRUE)
      <4>1. SUFFICES ASSUME n > 0
                     PROVE  Counted(new, statuses'[n].expected, statuses'[n].fill, statuses'[n].wait, TRUE)
        OBVIOUS
      <4>2. n \in 1..n
        BY <1>1, <4>1
      <4>3. modem.expected = statuses[n].expected /\ modem.fill = statuses[n].fill - statuses[n].wait
        BY <1>6, <2>3, <3>2, <4>1
      <4>4. /\ statuses'[n].fill = statuses[n].fill /\ statuses'[n].expected = statuses[n].expected
            /\ statuses'[n].wait = statuses[n].wait
        BY <2>5, <4>2
      <4>5. statuses[n].fill \in 0..Capacity /\ statuses[n].wait \in 0..Latency
        BY <1>5, <4>2
      <4>6. (statuses[n].fill - statuses[n].wait) + P = (statuses[n].fill + P) - (statuses[n].wait - 0)
        BY ONLY <4>5, Sizes
      <4>7. new.fill = (statuses'[n].fill + P) - (statuses'[n].wait - new.wait)
        BY <3>1, <3>2, <4>3, <4>4, <4>6
      <4>8. QED
        BY <3>1, <3>2, <4>3, <4>4, <4>7 DEF Counted
    <3>6. n = 0 /\ t'.prev # -1 => Counted(new, t'.prev, t'.fill, t'.age, dated')
      <4>1. SUFFICES ASSUME n = 0, t'.prev # -1 PROVE Counted(new, t'.prev, t'.fill, t'.age, dated')
        OBVIOUS
      <4>2. modem.expected = t.prev /\ (dated => modem.fill = t.fill - t.age)
        BY <1>6, <2>3, <2>4, <3>2, <4>1
      <4>3. (t.fill - t.age) + P = (t.fill + P) - (t.age - 0)
        BY ONLY <1>4, Sizes
      <4>4. dated' => new.fill = (t'.fill + P) - (t'.age - new.wait)
        BY <2>3, <2>4, <3>1, <3>2, <4>2, <4>3
      <4>5. QED
        BY <2>4, <3>1, <3>2, <4>2, <4>4 DEF Counted
    <3>7. \A j \in 1..m : j \in 1..n \/ j = n + 1
      BY <1>1, <3>1
    <3> HIDE DEF new
    <3>8. ASSUME NEW j \in 1..m, statuses'[j].state = "RX"
          PROVE  /\ state' = "RX" => statuses'[j].fill >= P
                 /\ j > 1 => Counted(statuses'[j], statuses'[j - 1].expected, statuses'[j - 1].fill,
                                     statuses'[j - 1].wait, TRUE)
                 /\ j = 1 /\ t'.prev # -1 => Counted(statuses'[j], t'.prev, t'.fill, t'.age, dated')
      <4>1. CASE j \in 1..n
        BY <2>6, <3>8, <4>1
      <4>2. CASE j = n + 1
        <5>1. statuses'[j] = new /\ j - 1 = n /\ (j = 1 => n = 0) /\ (j > 1 => n > 0)
          BY <1>1, <4>2 DEF new
        <5>2. QED
          BY <3>4, <3>5, <3>6, <4>2, <5>1
      <4>3. QED
        BY <3>7, <4>1, <4>2
    <3>9. QED
      BY <1>6, <2>3, <2>4, <3>1, <3>3, <3>8
  <2>9. QED
    BY <2>7, <2>8
<1>16. CASE PollStatus
  <2> DEFINE st == statuses[1]
  <2>1. /\ n # 0 /\ n > 0 /\ state' = st.state /\ m = n - 1 /\ modem' = modem
        /\ \A i \in 1..(n - 1) : statuses'[i] = statuses[i + 1]
    <3>1. modem' = modem
      BY <1>16 DEF PollStatus
    <3>2. QED
      BY <1>1, <1>2, <1>16, <3>1, Handled
  <2>2. 1 \in 1..n /\ st.state \in {"RX", "TX"}
    BY <1>1, <2>1 DEF Status
  <2>3. CASE st.state = "TX"
    <3>1. modem.state = "TX" /\ n = 1
      <4>1. modem.state = "TX"
        <5>1. SUFFICES ASSUME modem.state = "RX" PROVE FALSE
          BY <1>4
        <5>2. statuses[1].state = "RX"
          BY <1>1, <1>3, <2>2, <5>1 DEF SessionsInTurn
        <5>3. QED
          BY <2>3, <5>2
      <4>2. \A j \in 1..(n - 1) : statuses[j].state = "RX"
        BY <1>1, <2>1, <4>1 DEF SessionsInTurn, n
      <4>3. 1 \in 1..(n - 1) => FALSE
        BY <2>3, <4>2
      <4>4. QED
        BY <1>1, <2>1, <4>1, <4>3
    <3>2. t'.rate = Unit
      BY <1>7, <1>16, <2>3, Judged
    <3>3. m = 0
      BY <2>1, <3>1
    <3>4. QED
      BY <2>1, <3>1, <3>2, <3>3
  <2>4. CASE st.state = "RX"
    <3>1. /\ t'.prev = st.expected /\ t'.fill = st.fill
          /\ ~biased
          /\ \/ t'.rate = t.rate
             \/ /\ state = "RX" /\ dated /\ dated' /\ t.prev # -1 /\ t.age > t'.age
                /\ LET dt   == t.age - t'.age
                       seen == (((st.expected - t.prev) % Ids) * P - (st.fill - t.fill)) * Unit
                   IN \/ t.rate * dt <= t'.rate * dt /\ t'.rate * dt <= seen
                      \/ seen <= t'.rate * dt /\ t'.rate * dt <= t.rate * dt
      BY <1>7, <1>16, <2>4, Judged
    <3>2. dated' => t'.age = st.wait
      BY <1>16, <2>4, DatedByWait
    <3>3. st.fill \in 0..Capacity /\ st.wait \in 0..Latency /\ st.expected \in 0..(Ids - 1)
      BY <1>5, <2>2
    <3>4. t'.rate = Unit
      <4>1. CASE t'.rate = t.rate
        BY <1>6, <3>1, <4>1
      <4>2. CASE t'.rate # t.rate
        <5> DEFINE dt == t.age - t'.age
                   seen == (((st.expected - t.prev) % Ids) * P - (st.fill - t.fill)) * Unit
        <5>1. /\ dated /\ dated' /\ t.prev # -1 /\ t.age > t'.age
              /\ \/ t.rate * dt <= t'.rate * dt /\ t'.rate * dt <= seen
                 \/ seen <= t'.rate * dt /\ t'.rate * dt <= t.rate * dt
          BY <3>1, <4>2
        <5>2. Counted(st, t.prev, t.fill, t.age, dated)
          BY <1>6, <2>2, <2>4, <3>1, <5>1
        <5>3. st.expected = NextId(t.prev) /\ st.fill = (t.fill + P) - (t.age - st.wait)
          BY <5>1, <5>2 DEF Counted
        <5>4. (st.expected - t.prev) % Ids = 1
          <6>1. t.prev \in 0..(Ids - 1)
            BY <1>4, <5>1
          <6>2. QED
            BY <5>3, <6>1, NextIsOneAhead
        <5>5. 1 * P - (st.fill - t.fill) = t.age - t'.age /\ dt \in Nat \ {0}
          BY <1>4, <3>2, <3>3, <5>1, <5>3
        <5>6. seen = dt * Unit
          BY <5>4, <5>5
        <5>7. t.rate = Unit /\ t'.rate \in Nat
          <6>1. t'.rate \in Rates
            BY <1>3, TrackerFields
          <6>2. QED
            BY ONLY <1>6, <3>1, <6>1, Sizes, Zenon
        <5> HIDE DEF dt, seen
        <5>8. \/ Unit * dt <= t'.rate * dt /\ t'.rate * dt <= dt * Unit
              \/ dt * Unit <= t'.rate * dt /\ t'.rate * dt <= Unit * dt
          BY <5>1, <5>6, <5>7
        <5>9. QED
          BY <5>5, <5>7, <5>8, RateIsUnit
      <4>3. QED
        BY <4>1, <4>2
    <3>5. ASSUME NEW j \in 1..m, statuses'[j].state = "RX"
          PROVE  /\ state' = "RX" => statuses'[j].fill >= P
                 /\ j > 1 => Counted(statuses'[j], statuses'[j - 1].expected, statuses'[j - 1].fill,
                                     statuses'[j - 1].wait, TRUE)
                 /\ j = 1 /\ t'.prev # -1 => Counted(statuses'[j], t'.prev, t'.fill, t'.age, dated')
      <4>1. /\ j + 1 \in 1..n /\ j + 1 > 1 /\ (j + 1) - 1 = j /\ statuses'[j] = statuses[j + 1]
            /\ j > 1 => j - 1 \in 1..(n - 1) /\ (j - 1) + 1 = j
        BY <1>1, <2>1
      <4>2. j > 1 => statuses'[j - 1] = statuses[j]
        BY <2>1, <4>1
      <4>3. statuses[j + 1].state = "RX"
        BY <3>5, <4>1
      <4>4. state = "RX"
        <5>1. SUFFICES ASSUME state = "TX" PROVE FALSE
          BY <1>3
        <5>2. statuses[j + 1].state = "TX"
          BY <1>1, <4>1, <5>1 DEF AtRest
        <5>3. QED
          BY <4>3, <5>2
      <4>5. /\ statuses[j + 1].fill >= P
            /\ Counted(statuses[j + 1], statuses[j].expected, statuses[j].fill, statuses[j].wait, TRUE)
        BY <1>6, <3>1, <4>1, <4>3, <4>4
      <4>6. ASSUME j = 1, t'.prev # -1
            PROVE  Counted(statuses'[j], t'.prev, t'.fill, t'.age, dated')
        BY <3>1, <3>2, <4>1, <4>5, <4>6 DEF Counted
      <4>7. QED
        BY <4>1, <4>2, <4>5, <4>6
    <3>6. ASSUME modem'.state = "RX"
          PROVE  IF m > 0
                 THEN /\ modem'.expected = statuses'[m].expected
                      /\ modem'.fill = statuses'[m].fill - statuses'[m].wait
                 ELSE t'.prev # -1 => modem'.expected = t'.prev
                                      /\ (dated' => modem'.fill = t'.fill - t'.age)
      <4>1. modem.expected = statuses[n].expected /\ modem.fill = statuses[n].fill - statuses[n].wait
        BY <1>6, <2>1, <3>1, <3>6
      <4>2. CASE m > 0
        <5>1. m \in 1..(n - 1) /\ m + 1 = n
          BY <1>1, <2>1, <4>2
        <5>2. statuses'[m] = statuses[n]
          BY <2>1, <5>1
        <5>3. QED
          BY <2>1, <4>1, <4>2, <5>2
      <4>3. CASE ~(m > 0)
        <5>1. n = 1
          BY <1>1, <2>1, <4>3
        <5>2. QED
          BY <2>1, <3>1, <3>2, <4>1, <4>3, <5>1
      <4>4. QED
        BY <4>2, <4>3
    <3>7. QED
      BY <3>4, <3>5, <3>6
  <2>5. QED
    BY <2>2, <2>3, <2>4
<1>17. CASE UNCHANGED vars
  <2>1. UNCHANGED <<statuses, state, t, modem, dated, biased>> /\ m = n
    BY <1>1, <1>2, <1>17 DEF vars, host
  <2>2. Same
    BY <2>1 DEF Same
  <2>3. QED
    BY <1>10, <2>2
<1>18. QED
  BY <1>11, <1>12, <1>13, <1>14, <1>15, <1>16, <1>17 DEF Next, Io

-----------------------------------------------------------------------------
(* The theorems.                                                           *)

LEMMA IInvInit ==
  ASSUME Init
  PROVE  IInv
<1>1. /\ TypeOK /\ t.ring = <<>> /\ t.sched = FALSE /\ exact = FALSE /\ atOnce = 0
      /\ statuses = <<>> /\ t \in Tracker
  BY TypeInit DEF Init, TypeOK
<1>2. SessionsInTurn
  BY SessionsInit
<1>3. RingInOrder
  <2>1. Len(t.ring) = 0 /\ DOMAIN t.ring = 1..Len(t.ring)
    BY <1>1, TrackerFields, EmptySeq
  <2>2. QED
    BY <2>1 DEF RingInOrder
<1>4. ReportsInStep /\ AnchorInStep
  <2>1. DOMAIN statuses = 1..0
    BY <1>1, Places
  <2>2. QED
    BY <1>1, <2>1 DEF ReportsInStep, AnchorInStep
<1>5. Paced
  BY <1>1 DEF Paced
<1>6. CatchUpBounded
  <2>1. Catchup * Period \in Nat /\ 0 * Burst = 0 /\ Burst \in Nat \ {0}
    BY Slots, Sizes, Z3
  <2>2. 0 <= (Catchup * Period) \div Burst /\ (Catchup * Period) \div Burst \in Int
    BY <2>1, StepsThatFit
  <2>3. QED
    BY <1>1, <2>2 DEF CatchUpBounded
<1>7. IdsInStep
  BY DEF Init, IdsInStep
<1>8. QED
  BY <1>1, <1>2, <1>3, <1>4, <1>5, <1>6, <1>7 DEF IInv

\* The inductive invariant holds of every behaviour of the two sides.
THEOREM IInvHolds == Spec => []IInv
<1>1. Init => IInv
  BY IInvInit
<1>2. IInv /\ [Next]_vars => IInv'
  <2> SUFFICES ASSUME IInv, [Next]_vars PROVE IInv'
    OBVIOUS
  <2>1. TypeOK /\ SessionsInTurn /\ RingInOrder /\ IdsInStep
    BY DEF IInv
  <2>2. TypeOK'
    BY <2>1, TypeStep
  <2>3. SessionsInTurn' /\ RingInOrder' /\ IdsInStep'
    BY <2>1, <2>2, SessionsStep, RingStep, IdsStep
  <2>4. ASSUME BoundsAreWide PROVE ReportsInStep' /\ AnchorInStep'
    BY <2>1, <2>2, <2>3, <2>4, ReportsStep, AnchorStep DEF IInv
  <2>5. ASSUME KeepaliveIsRare PROVE Paced' /\ CatchUpBounded'
    BY <2>1, <2>2, <2>5, PacedStep DEF IInv
  <2>6. BoundsAreWide' = BoundsAreWide /\ KeepaliveIsRare' = KeepaliveIsRare
    BY DEF BoundsAreWide, KeepaliveIsRare
  <2>7. QED
    BY <2>2, <2>3, <2>4, <2>5, <2>6 DEF IInv
<1>3. QED
  BY <1>1, <1>2, PTL DEF Spec

LEMMA FlowInit ==
  ASSUME Init
  PROVE  FlowInv
<1> USE Sizes
<1>1. /\ TypeOK /\ statuses = <<>> /\ state = "RX" /\ t = Blank(Unit) /\ sending = FALSE /\ exact = FALSE
      /\ Pending = 0 /\ DOMAIN statuses = 1..0
  <2>1. TypeOK /\ statuses = <<>> /\ state = "RX" /\ t = Blank(Unit) /\ sending = FALSE /\ exact = FALSE
    BY TypeInit DEF Init
  <2>2. QED
    BY <2>1, Places
<1>2. t.prev = -1 /\ t.since = 0 /\ t.rate = Unit
  BY <1>1, BlankIs
<1>3. modem.fill \in 0..Capacity
  BY <1>1 DEF TypeOK, ModemState
<1>4. AtRest
  BY <1>1, <1>2 DEF AtRest
<1>5. Drained
  BY <1>1, <1>2, <1>3 DEF Drained
<1>6. NeverRefused
  BY <1>1 DEF NeverRefused
<1>7. OwnInRing
  BY <1>1 DEF OwnInRing
<1>8. ReportsCount
  BY <1>1, <1>2 DEF ReportsCount
<1>9. QED
  BY <1>2, <1>4, <1>5, <1>6, <1>7, <1>8 DEF FlowInv

\* The invariant of what flows between the two sides holds of every behaviour.
THEOREM FlowInvHolds == Spec => []FlowInv
<1>1. Init => FlowInv
  BY FlowInit
<1>2. IInv /\ IInv' /\ FlowInv /\ [Next]_vars => FlowInv'
  <2> SUFFICES ASSUME IInv, IInv', FlowInv, [Next]_vars PROVE FlowInv'
    OBVIOUS
  <2>1. TypeOK /\ TypeOK' /\ SessionsInTurn /\ SessionsInTurn' /\ RingInOrder
    BY DEF IInv
  <2>2. AtRest /\ Drained
    BY DEF FlowInv
  <2>3. AtRest' /\ Drained'
    BY <2>1, <2>2, AtRestStep, DrainedStep
  <2>4. ASSUME BoundsAreWide, RoomIsEnough PROVE NeverRefused'
    <3>1. AnchorInStep /\ NeverRefused /\ IdsInStep'
      BY <2>4 DEF IInv, FlowInv
    <3>2. QED
      BY <2>1, <2>2, <2>4, <3>1, RefusedStep
  <2>5. ASSUME BoundsAreWide, KeepaliveIsRare, IdsAreMany
        PROVE  OwnInRing' /\ (~biased' => ReportsCount' /\ t'.rate = Unit)
    <3>1. CatchUpBounded /\ OwnInRing /\ (~biased => ReportsCount /\ t.rate = Unit)
      BY <2>5 DEF IInv, FlowInv
    <3>2. OwnInRing'
      BY <2>1, <2>2, <2>5, <3>1, OwnStep
    <3>3. ~biased' => ReportsCount' /\ t'.rate = Unit
      BY <2>1, <2>2, <2>3, <2>5, <3>1, CountStep
    <3>4. QED
      BY <3>2, <3>3
  <2>6. /\ BoundsAreWide' = BoundsAreWide /\ KeepaliveIsRare' = KeepaliveIsRare
        /\ RoomIsEnough' = RoomIsEnough /\ IdsAreMany' = IdsAreMany
    BY DEF BoundsAreWide, KeepaliveIsRare, RoomIsEnough, IdsAreMany, PerMoment
  <2>7. QED
    BY <2>3, <2>4, <2>5, <2>6 DEF FlowInv
<1>3. QED
  BY <1>1, <1>2, IInvHolds, PTL DEF Spec

\* TypeOK: the tracker, the modem and the statuses between them keep their types, with any
\* transfers gone wrong and any changes of the modem's state.
THEOREM TypeCorrect == Spec => []TypeOK
<1>1. IInv => TypeOK
  BY DEF IInv
<1>2. QED
  BY <1>1, IInvHolds, PTL

\* EstimateExact: with ids that do not repeat among the statuses under way, the fill that
\* extrapolated_fill arrives at is what the modem holds, for every packet size, latency and
\* ring, as long as no transfer went wrong since the anchor's packet.
THEOREM EstimateIsExact ==
  ASSUME BoundsAreWide
  PROVE  Spec => []EstimateExact
<1>1. IInv => EstimateExact
  BY InStepIsExact DEF IInv
<1>2. QED
  BY <1>1, IInvHolds, PTL

\* CatchUpBounded: with a keepalive rarer than the catch-up reaches back, the I/O thread
\* makes up for MAX_CATCHUP_SLOTS nominal slots at most, however long it was held up.
THEOREM CatchUpIsBounded ==
  ASSUME KeepaliveIsRare
  PROVE  Spec => []CatchUpBounded
<1>1. IInv => CatchUpBounded
  BY DEF IInv
<1>2. QED
  BY <1>1, IInvHolds, PTL

\* NeverRefused: where the levels leave room for what may be under way, a host whose
\* estimate is exact never starts a packet that the modem cannot take, at the burst rate, in
\* a catch-up or as a keepalive.
THEOREM NeverIsRefused ==
  ASSUME BoundsAreWide, RoomIsEnough
  PROVE  Spec => []NeverRefused
<1>1. FlowInv => NeverRefused
  BY DEF FlowInv
<1>2. QED
  BY <1>1, FlowInvHolds, PTL

\* DropsDoNotBias: with more ids than packets sent while a status is under way, the smoothed
\* rate stays the true one whatever packets are reported sent that were not taken, or failed
\* though they were, for any number of them, as long as the modem does not run dry and every
\* inferred rate is between two anchors that have their packets' send times.
THEOREM RateStaysTrue ==
  ASSUME BoundsAreWide, KeepaliveIsRare, IdsAreMany
  PROVE  Spec => []DropsDoNotBias
<1>1. FlowInv => DropsDoNotBias
  BY DEF FlowInv, DropsDoNotBias
<1>2. QED
  BY <1>1, FlowInvHolds, PTL
=============================================================================
