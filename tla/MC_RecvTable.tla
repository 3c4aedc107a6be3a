---------------------------- MODULE MC_RecvTable ----------------------------
(***************************************************************************)
(* Instances of RecvTable.  Document 1 is our own; 2, 4, 6, ... come from  *)
(* the peer and fall into the slots of a receive table of two or three.    *)
(***************************************************************************)
EXTENDS RecvTable, TLC

Doc(parent, segs, special) == [parent |-> parent, segs |-> segs, special |-> special]

Symmetry == Permutations(Threads)

\* 1 <- 2 <- 4 and 1 <- 6 <- 8 in two slots: 6 follows 2 and 8 follows 4.
Tree == (2 :> Doc(1, 1, FALSE)) @@ (4 :> Doc(2, 2, TRUE)) @@ (6 :> Doc(1, 2, FALSE)) @@ (8 :> Doc(6, 1, FALSE))

\* Children of 1 that take turns in two slots.
Turns == (2 :> Doc(1, 1, FALSE)) @@ (4 :> Doc(1, 1, FALSE)) @@ (6 :> Doc(1, 1, FALSE)) @@ (8 :> Doc(1, 1, FALSE))

\* A reply to 1 in two segments, its child, and a second document that asks for the buffer.
Reply == (2 :> Doc(1, 2, TRUE)) @@ (4 :> Doc(2, 1, FALSE)) @@ (6 :> Doc(1, 1, TRUE))

\* A reply 2 to 1 in two segments and 6 that asks for the same buffer; 4 and 10 are children
\* of 3 and have the same slot.
Replies == (2 :> Doc(1, 2, TRUE)) @@ (4 :> Doc(3, 1, FALSE)) @@ (6 :> Doc(1, 1, TRUE)) @@ (10 :> Doc(3, 2, TRUE))

\* Documents for two slots whose children and successors the peer sends too early.
Unruly == (2 :> Doc(1, 2, FALSE)) @@ (4 :> Doc(2, 1, FALSE)) @@ (6 :> Doc(4, 1, FALSE)) @@ (8 :> Doc(3, 1, FALSE))

\* 4 may come before its parent 2; 2 has two segments, and 6 has its slot.
OrphanFirst == (2 :> Doc(1, 2, FALSE)) @@ (4 :> Doc(2, 1, FALSE)) @@ (6 :> Doc(1, 1, FALSE))

\* 6 has the slot of its parent 2.
OwnSlot == (2 :> Doc(1, 1, FALSE)) @@ (6 :> Doc(2, 1, FALSE))

\* Documents in two segments, with a special parent, that take turns in one slot.
SpecialTurns == (2 :> Doc(1, 2, TRUE)) @@ (4 :> Doc(1, 2, TRUE))
=============================================================================
