--------------------------- MODULE AdditiveStream ---------------------------
(***************************************************************************)
(* What a PairBuffer promises: an unbounded stream indexed by absolute     *)
(* receiver time.  Contributions are mixed in ahead of a committed         *)
(* boundary, the boundary only grows, and the receiver hears the positions *)
(* below it once each, in order, with everything that was ever mixed there *)
(* and nothing else.  There is no ring, no wrap and no producer or         *)
(* consumer state here (pair_buffer.hpp, "Coordinate system").             *)
(***************************************************************************)
EXTENDS Naturals

CONSTANTS Position,      \* receiver-time sample positions
          Contribution   \* identities of the samples that may be mixed in

VARIABLES mixed,         \* the <<position, contribution>> pairs accepted so far
          committed,     \* first position that is not committed yet
          delivered,     \* number of positions the receiver has heard
          heard          \* what it heard, as <<position, contribution>> pairs

svars == <<mixed, committed, delivered, heard>>

SInit == /\ mixed = {} /\ heard = {}
         /\ committed = 0 /\ delivered = 0

Mix(p, c) == /\ p >= committed
             /\ mixed' = mixed \union {<<p, c>>}
             /\ UNCHANGED <<committed, delivered, heard>>

Commit(w) == /\ w > committed
             /\ committed' = w
             /\ UNCHANGED <<mixed, delivered, heard>>

Deliver == /\ delivered < committed
           /\ heard' = heard \union {x \in mixed : x[1] = delivered}
           /\ delivered' = delivered + 1
           /\ UNCHANGED <<mixed, committed>>

SNext == \/ \E p \in Position, c \in Contribution : Mix(p, c)
         \/ \E w \in Position : Commit(w)
         \/ Deliver

StreamSpec == SInit /\ [][SNext]_svars
=============================================================================
