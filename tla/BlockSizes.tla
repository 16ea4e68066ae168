------------------------------ MODULE BlockSizes ----------------------------
(***************************************************************************)
(* The arithmetic of buddy blocks, for kernel/mm/buddy.c.  A block is its  *)
(* first page and its level.                                               *)
(***************************************************************************)
EXTENDS Integers

Size(l) == 2^l

(***************************************************************************)
(* page_id ^ (1 << bplevel), for the first page of a block.                *)
(***************************************************************************)
BuddyOf(p, l) ==
  IF (p \div Size(l)) % 2 = 0 THEN p + Size(l) ELSE p - Size(l)

(***************************************************************************)
(* page_id & buddy_id: the first page of the block the two make.           *)
(***************************************************************************)
Lower(p, q) == IF p < q THEN p ELSE q

(* The pages of a block.                                                   *)
PagesOf(b) == b[1] .. b[1] + Size(b[2]) - 1
=============================================================================
