----------------------------- MODULE FileBlocks -----------------------------
(***************************************************************************)
(* What the block cache of an open file promises: the file's blocks read   *)
(* back as they were written, and a new block is empty.                    *)
(***************************************************************************)
CONSTANTS Block,   \* the blocks a file may get
          Sector,  \* the sectors of a block
          Value,   \* what a sector may hold
          Zero     \* what an erased one holds

VARIABLE content   \* the sectors of each block the file has

Init == \E owned \in SUBSET Block : content \in [owned -> [Sector -> Value]]

Write(b, s, v) == content' = [content EXCEPT ![b][s] = v]

Extend(b) ==
  content' = [c \in DOMAIN content \union {b} |->
                IF c = b THEN [s \in Sector |-> Zero] ELSE content[c]]

Next ==
  \/ \E b \in DOMAIN content, s \in Sector, v \in Value : Write(b, s, v)
  \/ \E b \in Block \ DOMAIN content : Extend(b)

Spec == Init /\ [][Next]_content
=============================================================================
