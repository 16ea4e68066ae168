--------------------------- MODULE PageAllocator ----------------------------
(***************************************************************************)
(* What a page allocator promises: a block that is handed out is a run of  *)
(* pages none of which anybody else holds, and it stays the holder's until *)
(* the holder gives it back.                                               *)
(***************************************************************************)
EXTENDS Integers

CONSTANTS Pages,   \* the page numbers
          Lengths  \* the lengths a block can have

VARIABLE taken     \* the blocks handed out, each one a set of pages

Run(first, n) == first .. first + n - 1

Init == taken = {}

Alloc(first, n) ==
  /\ Run(first, n) \subseteq Pages
  /\ \A b \in taken : b \intersect Run(first, n) = {}
  /\ taken' = taken \union {Run(first, n)}

Free(b) == taken' = taken \ {b}

Next ==
  \/ \E first \in Pages, n \in Lengths : Alloc(first, n)
  \/ \E b \in taken : Free(b)

Spec == Init /\ [][Next]_taken
=============================================================================
