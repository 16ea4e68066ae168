------------------------------- MODULE MCFat --------------------------------
(***************************************************************************)
(* Files and moves for the runs of Fat.                                    *)
(***************************************************************************)
EXTENDS Fat

A == <<1, "a">>
B == <<1, "b">>
C == <<2, "a">>

MCPath == {A, B, C}

(* Between the directories, the name being the same: a rename renames      *)
(* nothing, since fs_mv copies the old name with the rest of the entry.    *)
MCMoves == {<<A, C>>, <<C, A>>}
=============================================================================
