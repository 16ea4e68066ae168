-------------------------------- MODULE Blocks ------------------------------
(***************************************************************************)
(* The memory that the buddy system of kernel/mm/buddy.c divides in        *)
(* blocks.  Pages are numbered from buddy.start_page.                      *)
(***************************************************************************)
EXTENDS BlockSizes

CONSTANTS
  MAX_BUDDY_ORDER,  \* the highest level, 4 in the code
  NBLOCK            \* how many blocks of that level the memory makes

Order == 0..MAX_BUDDY_ORDER

ASSUME BlockAssumption == MAX_BUDDY_ORDER \in Nat /\ NBLOCK \in Nat \ {0}

NPAGE == NBLOCK * Size(MAX_BUDDY_ORDER)
Page == 0..NPAGE-1
=============================================================================
