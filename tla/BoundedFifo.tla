---------------------------- MODULE BoundedFifo ----------------------------
(***************************************************************************)
(* What an SPSCRingBuffer promises its two threads: a bounded first-in     *)
(* first-out queue.  A write appends a prefix of what it was given, a read *)
(* takes a prefix of what is queued; neither ever loses, repeats or        *)
(* reorders an item.  Items are the numbers of their order of acceptance.  *)
(***************************************************************************)
EXTENDS Naturals, Sequences

CONSTANT Cap            \* items the queue holds at most

VARIABLES accepted,     \* number of items accepted so far
          queue,        \* items accepted and not taken yet
          taken         \* items taken, in the order the reader got them

fvars == <<accepted, queue, taken>>

FInit == accepted = 0 /\ queue = <<>> /\ taken = <<>>

Put(n) == /\ Len(queue) + n <= Cap
          /\ queue' = queue \o [i \in 1..n |-> accepted + i]
          /\ accepted' = accepted + n
          /\ UNCHANGED taken

Take(n) == /\ n <= Len(queue)
           /\ taken' = taken \o SubSeq(queue, 1, n)
           /\ queue' = SubSeq(queue, n + 1, Len(queue))
           /\ UNCHANGED accepted

FNext == \E n \in 1..Cap : Put(n) \/ Take(n)

FifoSpec == FInit /\ [][FNext]_fvars
=============================================================================
