----------------------------- MODULE StraySave ------------------------------
(***************************************************************************)
(* The editor saves a file in a directory that does not exist.  fs_create  *)
(* and fs_open fail, save_file looks at neither result, and the editor's   *)
(* FILE is still that of the file it saved before: its entry, its chain.   *)
(* fs_open has set dir_entry_pos to -1, and left dir_entry_sector.         *)
(***************************************************************************)
EXTENDS MCFat

CONSTANT Stray    \* files of a directory that is not there: pairs <<0, name>>

VARIABLE editor   \* the FILE of myvi, which lasts from one use to the next

strayVars == <<vars, editor>>

StrayInit == Init /\ editor = NoFile

(***************************************************************************)
(* Bound: what is saved in this way fits one cluster, and something has    *)
(* been saved before.                                                      *)
(***************************************************************************)
save_file(p, v) ==
  /\ editor # NoFile
  /\ Begin("vi", p, p, 1, v, "write")
  /\ file' = [editor EXCEPT !.buf = {}, !.at = editor.entry.start, !.done = 0]
  /\ UNCHANGED <<fat, hint, dir, card, todo, editor>>

(***************************************************************************)
(* fs_close writes the entry one byte before the first one of the old      *)
(* file's directory, whose name is lost.  The model ends there.            *)
(***************************************************************************)
Shifted == [name |-> "?", start |-> 0, size |-> 0]

CloseStray ==
  /\ Goes("close") /\ cmd.src \in Stray
  /\ dir' = [dir EXCEPT ![<<file.slot[1], 1>>] = Shifted]
  /\ todo' = fs_fflush \o <<"data">>
  /\ cmd' = [cmd EXCEPT !.next = "ruined"]
  /\ UNCHANGED <<fat, hint, card, file, before, editor>>

Others ==
  /\ ~(Goes("close") /\ cmd.src \in Stray)
  /\ Next
  /\ editor' = IF Goes("close") /\ cmd.op = "vi" THEN file ELSE editor

StrayNext ==
  \/ \E p \in Stray, v \in Value : save_file(p, v)
  \/ CloseStray
  \/ Others

StraySpec == StrayInit /\ [][StrayNext]_strayVars

MCStray == {<<0, "a">>}
=============================================================================
