------------------------------- MODULE Editor -------------------------------
(***************************************************************************)
(* The editor vi, usr/myvi.c: a text buffer, a cursor, the part of the     *)
(* text on the screen, three modes, one key at a time.  Locations count    *)
(* from 0 as in the code.  The file is the content fs_read and fs_write    *)
(* see: writing starts at its beginning and never shortens it.             *)
(*                                                                         *)
(* Backspace at the start of the text moves the cursor to -1, before the   *)
(* buffer; what the editor does from there is modelled for one place.      *)
(***************************************************************************)
EXTENDS Integers, Sequences

CONSTANTS
  BUFFER_SIZE, ROW_LEN, COLUMN_LEN,
  Letter,   \* what is typed besides the Enter key
  Files,    \* contents the file may have before, as sequences
  MaxInst   \* bound: keys on the last line; the code has room for COLUMN_LEN
            \* and would write on behind them (myvi.c:331)

NL == "nl"
CR == "cr"
Other == "other"
Foreign == "?"       \* the byte before the buffer, which is not the editor's
Char == Letter \union {NL}
NoFile == <<"no file">>

ASSUME EditorAssumption ==
  /\ {BUFFER_SIZE, ROW_LEN, COLUMN_LEN, MaxInst} \subseteq Nat \ {0}
  /\ BUFFER_SIZE > 2 /\ MaxInst <= COLUMN_LEN
  /\ Files \subseteq Seq(Char \union {CR})
  /\ Letter \intersect {NL, CR, Foreign} = {}

VARIABLES
  text,      \* buffer[0..size-1]
  below,     \* buffer[-1]
  cursor_location, page_location, page_end,
  mode,      \* 0 command, 1 insert, 2 last line
  inst,      \* instruction[0..inst_len-1]
  err,       \* 0 while the editor runs
  file,
  slipped,   \* the cursor has been at -1 in this session
  wide       \* a line has been as wide as the screen in this session

vars == <<text, below, cursor_location, page_location, page_end, mode, inst,
          err, file, slipped, wide>>

-----------------------------------------------------------------------------
(***************************************************************************)
(* screen_flush.  Pos: the row and column where the character at a         *)
(* location goes; a full row breaks.  What begins below the last row is    *)
(* not shown, and page_end is the first such location.                     *)
(***************************************************************************)
At(t, loc) == IF loc < 0 THEN below ELSE t[loc + 1]

Pos(t, page) ==
  LET pos[loc \in page..Len(t)] ==
        IF loc = page THEN [row |-> 0, column |-> 0]
        ELSE LET p == pos[loc - 1]
             IN  IF At(t, loc - 1) = NL \/ p.column + 1 = COLUMN_LEN
                 THEN [row |-> p.row + 1, column |-> 0]
                 ELSE [row |-> p.row, column |-> p.column + 1]
  IN  pos

PageEnd(t, page) ==
  LET pos == Pos(t, page)
      hidden == {loc \in page..Len(t) : pos[loc].row >= ROW_LEN}
  IN  IF hidden = {} THEN Len(t)
      ELSE CHOOSE loc \in hidden : \A other \in hidden : loc <= other

-----------------------------------------------------------------------------
(***************************************************************************)
(* Lines.  LineStart: of the line with loc; LineEnd: its newline, the end  *)
(* of the text when there is none.                                         *)
(***************************************************************************)
LineStart(t, loc) ==
  CHOOSE s \in 0..loc :
    /\ s = 0 \/ t[s] = NL
    /\ \A r \in s+1..loc : t[r] # NL

LineEnd(t, loc) ==
  CHOOSE e \in loc..Len(t) :
    /\ e = Len(t) \/ At(t, e) = NL
    /\ \A r \in loc..e-1 : At(t, r) # NL

ShortLines(t) ==
  \A loc \in 0..Len(t)-1 : LineEnd(t, loc) - LineStart(t, loc) < COLUMN_LEN

page_location_last_line(t) ==
  IF page_location = 0 THEN 0 ELSE LineStart(t, page_location - 1)

page_location_next_line(t) ==
  LET next == LineEnd(t, page_location) + 1
  IN  IF next < Len(t) THEN next ELSE page_location

(* It does not go to the first line: loc <= 0 returns. *)
cursor_prev_line ==
  IF cursor_location <= 0 \/ LineStart(text, cursor_location - 1) = 0
  THEN cursor_location
  ELSE LineStart(text, cursor_location - 1)

cursor_next_line ==
  LET next == LineEnd(text, cursor_location) + 1
  IN  IF next < Len(text) THEN next ELSE cursor_location

(***************************************************************************)
(* insert_key and delete_key at a location, -1 included: the shifts then   *)
(* take in the byte before the buffer.                                     *)
(***************************************************************************)
Inserted(key, site) ==
  IF site < 0 THEN <<below>> \o text
  ELSE SubSeq(text, 1, site) \o <<key>> \o SubSeq(text, site + 1, Len(text))

Deleted(site) ==
  IF site < 0 THEN Tail(text)
  ELSE SubSeq(text, 1, site) \o SubSeq(text, site + 2, Len(text))

-----------------------------------------------------------------------------
(***************************************************************************)
(* load_file: carriage returns are dropped, a last newline is added; a     *)
(* text that fills the buffer but one makes the editor stop.               *)
(***************************************************************************)
Kept(f) ==
  LET kept[i \in 0..Len(f)] ==
        IF i = 0 THEN <<>>
        ELSE IF f[i] = CR THEN kept[i - 1] ELSE Append(kept[i - 1], f[i])
  IN  kept[Len(f)]

Loaded(f) ==
  LET read == Kept(f)
  IN  IF f = NoFile THEN <<NL>>
      ELSE IF Len(read) >= BUFFER_SIZE - 1 THEN SubSeq(read, 1, BUFFER_SIZE - 1)
      ELSE IF read = <<>> \/ read[Len(read)] # NL THEN Append(read, NL)
      ELSE read

LoadError(f) ==
  IF f # NoFile /\ Len(Kept(f)) >= BUFFER_SIZE - 1 THEN 2 ELSE 0

(***************************************************************************)
(* save_file: fs_create when the file is new, fs_write of the buffer.  When *)
(* the file system fails in between, the file may not be there, or keep its *)
(* length; the text reached the card up to some sector (a text fits into a  *)
(* cluster), behind is what was there, Foreign where the cluster is new.    *)
(***************************************************************************)
WrittenAtEnd(f, t) == IF f = NoFile THEN t ELSE f \o t

Written(f, t) == IF f = NoFile THEN t ELSE t \o SubSeq(f, Len(t) + 1, Len(f))

Old(f, i) == IF f # NoFile /\ i <= Len(f) THEN f[i] ELSE Foreign

Spoilt(f, t) ==
  LET length == IF f = NoFile THEN 0 ELSE Len(f)
      grown  == IF length < Len(t) THEN Len(t) ELSE length
  IN  {f} \union
      { [i \in 1..n |-> IF i <= reached THEN t[i] ELSE Old(f, i)] :
          n \in {length, grown}, reached \in 0..Len(t) }

(* myvi begins; the file may have been removed, or another one is named. *)
myvi(f) ==
  /\ err # 0
  /\ file' = f
  /\ text' = Loaded(f) /\ err' = LoadError(f)
  /\ below' = Foreign
  /\ cursor_location' = 0 /\ page_location' = 0
  /\ page_end' = PageEnd(Loaded(f), 0)
  /\ mode' = 0 /\ inst' = <<>>
  /\ slipped' = FALSE /\ wide' = ~ShortLines(Loaded(f))

Init ==
  /\ text = <<>> /\ below = Foreign
  /\ cursor_location = 0 /\ page_location = 0 /\ page_end = 0
  /\ mode = 0 /\ inst = <<>> /\ err = 1
  /\ slipped = FALSE /\ wide = FALSE
  /\ file \in Files \union {NoFile}

-----------------------------------------------------------------------------
(***************************************************************************)
(* The end of do_command_mode: the page follows the cursor by one line,    *)
(* then the screen is drawn.                                               *)
(***************************************************************************)
Show(t, cursor, page) ==
  /\ text' = t /\ cursor_location' = cursor
  /\ page_location' = page /\ page_end' = PageEnd(t, page)
  /\ wide' = (wide \/ ~ShortLines(t))

FollowLate(t, cursor) ==
  LET page == IF cursor < page_location THEN page_location_last_line(t)
              ELSE IF cursor > page_end THEN page_location_next_line(t)
              ELSE page_location
  IN  Show(t, cursor, page)

Follow(t, cursor) ==
  LET page == IF cursor < page_location THEN page_location_last_line(t)
              ELSE IF cursor >= page_end THEN page_location_next_line(t)
              ELSE page_location
  IN  Show(t, cursor, page)

Command == err = 0 /\ mode = 0 /\ UNCHANGED <<err, file, slipped>>

MoveCursor(loc) ==
  /\ Command
  /\ Follow(text, loc)
  /\ UNCHANGED <<below, mode, inst>>

KeyJ == MoveCursor(cursor_next_line)

KeyK == MoveCursor(cursor_prev_line)

KeyH == MoveCursor(IF cursor_location > 0 /\ At(text, cursor_location - 1) # NL
                   THEN cursor_location - 1 ELSE cursor_location)

LeftOfEnd == cursor_location + 1 < Len(text) /\ At(text, cursor_location) # NL

KeyL == MoveCursor(IF LeftOfEnd THEN cursor_location + 1 ELSE cursor_location)

(* The last newline stays. *)
MayDeleteAny == Len(text) > 0

MayDelete == cursor_location # Len(text) - 1

KeyX ==
  /\ Command
  /\ IF MayDelete
     THEN /\ Follow(Deleted(cursor_location), cursor_location)
          /\ below' = IF cursor_location < 0 THEN text[1] ELSE below
     ELSE Follow(text, cursor_location) /\ UNCHANGED below
  /\ UNCHANGED <<mode, inst>>

KeyColon ==
  /\ Command
  /\ mode' = 2 /\ inst' = <<":">>
  /\ Follow(text, cursor_location)
  /\ UNCHANGED below

KeyI ==
  /\ Command
  /\ mode' = 1
  /\ UNCHANGED <<text, below, cursor_location, page_location, page_end, inst, wide>>

-----------------------------------------------------------------------------
(***************************************************************************)
(* do_insert_mode.  Only one line up or down follows a key here too.       *)
(***************************************************************************)
InsertMode == err = 0 /\ mode = 1 /\ UNCHANGED <<inst, file>>

Escape ==
  /\ InsertMode
  /\ mode' = 0
  /\ UNCHANGED <<text, below, cursor_location, page_location, page_end, err,
                 slipped, wide>>

(* bound: the cursor goes to -1 and no further *)
Backspace ==
  /\ InsertMode
  /\ cursor_location >= 0
  /\ LET t == IF cursor_location # 0 THEN Deleted(cursor_location - 1) ELSE text
         page == IF cursor_location - 1 < page_location
                 THEN page_location_last_line(t) ELSE page_location
     IN  Show(t, cursor_location - 1, page)
  /\ slipped' = (slipped \/ cursor_location = 0)
  /\ UNCHANGED <<below, mode, err>>

Full == Len(text) >= BUFFER_SIZE

Type(key) ==
  /\ InsertMode
  /\ err' = IF Full THEN 1 ELSE 0
  /\ LET t == IF Full THEN text ELSE Inserted(key, cursor_location)
         page == IF cursor_location + 1 >= PageEnd(t, page_location)
                 THEN page_location_next_line(t) ELSE page_location
     IN  Show(t, cursor_location + 1, page)
  /\ below' = IF ~Full /\ cursor_location < 0 THEN key ELSE below
  /\ UNCHANGED <<mode, slipped>>

-----------------------------------------------------------------------------
(***************************************************************************)
(* do_last_line_mode.                                                      *)
(***************************************************************************)
LastLine ==
  /\ err = 0 /\ mode = 2
  /\ page_end' = PageEnd(text, page_location)
  /\ UNCHANGED <<text, below, cursor_location, page_location, slipped, wide>>

(* Other stands for the keys that lead to no command. *)
Quit == <<":", "q", "!">>
Save == <<":", "w", "q">>
Leads(keys) == \E c \in {Quit, Save} : keys = SubSeq(c, 1, Len(keys)) /\ Len(keys) <= 3

LastLineKey(key) ==
  /\ LastLine
  /\ Len(inst) < MaxInst
  /\ key # Other => Leads(Append(inst, key))
  /\ inst' = Append(inst, key)
  /\ UNCHANGED <<mode, err, file>>

LastLineBackspace ==
  /\ LastLine
  /\ inst' = IF inst = <<>> THEN inst ELSE SubSeq(inst, 1, Len(inst) - 1)
  /\ UNCHANGED <<mode, err, file>>

LastLineEscape ==
  /\ LastLine
  /\ inst' = <<>> /\ mode' = 0
  /\ UNCHANGED <<err, file>>

LastLineEnter ==
  /\ LastLine
  /\ inst # Save
  /\ err' = IF inst = Quit THEN 1 ELSE 0
  /\ UNCHANGED <<inst, mode, file>>

(* What the file system returns is not looked at: the editor ends.         *)
SaveEnds ==
  /\ LastLine
  /\ inst = Save
  /\ err' = 1
  /\ UNCHANGED <<inst, mode>>

SaveSucceeds == SaveEnds /\ file' = Written(file, text)

SaveFails == SaveEnds /\ file' \in Spoilt(file, text)

Next ==
  \/ \E f \in Files \union {NoFile} : myvi(f)
  \/ KeyJ \/ KeyK \/ KeyH \/ KeyL \/ KeyX \/ KeyColon \/ KeyI
  \/ Escape \/ Backspace \/ \E key \in Char : Type(key)
  \/ \E key \in {":", "w", "q", "!", Other} : LastLineKey(key)
  \/ LastLineBackspace \/ LastLineEscape \/ LastLineEnter
  \/ SaveSucceeds \/ SaveFails

Spec == Init /\ [][Next]_vars

-----------------------------------------------------------------------------
(* The text fits the buffer, the page is a part of the text, and the       *)
(* cursor leaves it by no more than a backspace at its start takes it.     *)
TypeOK ==
  /\ Len(text) \in 0..BUFFER_SIZE
  /\ \A i \in 1..Len(text) : text[i] \in Char \union {Foreign}
  /\ below \in Char \union {Foreign}
  /\ cursor_location \in -1..BUFFER_SIZE + 1
  /\ 0 <= page_location /\ page_location <= page_end /\ page_end <= Len(text)
  /\ mode \in 0..2 /\ err \in 0..2 /\ Len(inst) <= MaxInst
  /\ slipped \in BOOLEAN /\ wide \in BOOLEAN

(* The cursor is on a character of the text and the text ends with a       *)
(* newline, whatever is typed, moved and deleted, until a backspace at the *)
(* start of the text (insert mode decrements the cursor even then); and    *)
(* even after that the buffer of myvi.c:12 is never written beyond its end.*)
CursorInText ==
  /\ TypeOK
  /\ (err = 0 /\ ~slipped) =>
    /\ cursor_location \in 0..Len(text) - 1
    /\ text[Len(text)] = NL

(* The cursor is on the screen: moving the page by a single line after a   *)
(* key is enough, for insertions and joined lines too, as long as no line  *)
(* of the session has been as wide as the screen.  After one that was, the *)
(* cursor may stay off the screen though every line is short again.        *)
CursorOnScreen ==
  (err = 0 /\ ~slipped /\ ~wide) =>
    page_location <= cursor_location /\ cursor_location < page_end

(* What a save put on the card that the file system carried out is what    *)
(* the editor shows when it opens the file again, though loading drops and *)
(* adds characters: unless the file was longer before (its end stays) or   *)
(* the text fills the buffer (load_file gives up one character before      *)
(* insert_key does).  Of a save that failed, which the editor does not     *)
(* tell from the others, nothing is said.                                  *)
RoundTrip ==
  [][SaveSucceeds /\ ~slipped /\ Len(text) < BUFFER_SIZE - 1
       /\ (file = NoFile \/ Len(file) <= Len(text))
     => Loaded(file') = text]_vars
=============================================================================
