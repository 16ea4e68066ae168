------------------------------ MODULE Keyboard ------------------------------
(***************************************************************************)
(* The keyboard, kernel/driver/ps2.c: the interrupt handler puts the keys  *)
(* pressed into a ring, the Shell takes them out with kernel_getkey while  *)
(* interrupts are on, so the handler may run between any two of its steps. *)
(*                                                                         *)
(* A scan byte is named by its hexadecimal text.  The n-th entry stored is *)
(* known by n: what is modelled is which entries reach the Shell and when. *)
(* An entry is a key, or the byte Nothing that ps2_handler may take in     *)
(* after an acknowledge.                                                   *)
(***************************************************************************)
EXTENDS Integers, Sequences, FiniteSets

CONSTANTS
  RING,      \* slots of the ring, 32 in the code
  Key,       \* the keys that are typed: their bytes, without release prefix
  MaxTyped,  \* bound: keys pressed
  MaxWait    \* bound: bytes the keyboard has ready, 63 in the controller

Slot == 0..RING-1

(* The bytes the handler knows. *)
Caps  == "58"
Shift == {<<"12">>, <<"59">>}
Ctrl  == {<<"14">>, <<"e0", "14">>}
Alt   == {<<"11">>, <<"e0", "11">>}
Ack   == "fa"
Nothing == "00"   \* what the data register gives when there is no byte

(* Those from 80 on that are sent for keys.  The handler takes each of them *)
(* for a prefix, the 83 of F7 as well.                                      *)
High == {"83", "84", "e0", "e1", "f0"}

(* An extended key's e0 stays in front of its release prefix. *)
Released(k) == IF k[1] = "e0" THEN <<"e0", "f0">> \o Tail(k) ELSE <<"f0">> \o k

ASSUME KeyboardAssumption ==
  {RING, MaxTyped, MaxWait} \subseteq Nat \ {0}

(* The keys that the handler can tell: neither F7 nor Print Screen and      *)
(* Pause, whose codes are longer.                                           *)
ASSUME KeyAssumption ==
  \A k \in Key :
    /\ k \in Seq(STRING) /\ Len(k) \in {1, 2}
    /\ Len(k) = 2 => k[1] = "e0"
    /\ k[Len(k)] \notin High \union {Ack}

VARIABLES
  wire,     \* bytes the keyboard has yet to deliver
  down,     \* the keys held down
  typed,    \* how many were pressed
  buffer,   \* the ring: which key, 0 when erased
  ready,
  wptr, rptr,
  key_buffer, keyboard_state, keyboard_cmd_state,
  reader,   \* where kernel_getkey is, the entry it copied, init_buffer's i
  stored,   \* how many entries the handler has stored
  delivered,\* how many kernel_getkey has returned
  wiped,    \* how many init_buffer erased that nobody had read
  got,      \* those that reached the Shell and still lie in the ring
  overrun,  \* an entry that nobody had read was overwritten
  torn      \* the handler stored an entry while init_buffer was at work

ringVars == <<buffer, ready, wptr, rptr>>
typist == <<wire, down, typed>>
ghosts == <<stored, delivered, wiped, got, overrun, torn>>
vars == <<typist, ringVars, key_buffer, keyboard_state, keyboard_cmd_state,
          reader, ghosts>>

Init ==
  /\ wire = <<>> /\ down = {} /\ typed = 0
  /\ buffer = [i \in Slot |-> 0]
  /\ ready = [i \in Slot |-> 0]
  /\ wptr = 0 /\ rptr = 0
  /\ key_buffer = <<>> /\ keyboard_state = {} /\ keyboard_cmd_state = 0
  /\ reader = [pc |-> "getkey", key |-> 0, i |-> 0]
  /\ stored = 0 /\ delivered = 0 /\ wiped = 0 /\ got = {}
  /\ overrun = FALSE /\ torn = FALSE

-----------------------------------------------------------------------------
(***************************************************************************)
(* Somebody types.  The keyboard sends a key's bytes one after another; an *)
(* answer to the host comes after them.                                    *)
(***************************************************************************)
Press(k) ==
  /\ typed < MaxTyped /\ k \notin down
  /\ Len(wire) + Len(k) <= MaxWait
  /\ wire' = wire \o k
  /\ down' = down \union {k}
  /\ typed' = typed + 1
  /\ UNCHANGED <<ringVars, key_buffer, keyboard_state, keyboard_cmd_state,
                 reader, ghosts>>

Release(k) ==
  /\ k \in down
  /\ Len(wire) + Len(Released(k)) <= MaxWait
  /\ wire' = wire \o Released(k)
  /\ down' = down \ {k}
  /\ UNCHANGED <<typed, ringVars, key_buffer, keyboard_state,
                 keyboard_cmd_state, reader, ghosts>>

-----------------------------------------------------------------------------
(***************************************************************************)
(* One turn of ps2_handler's loop, with byte b in ps2_data_reg.  s is what *)
(* the handler changes; s.answer what the keyboard will send for the       *)
(* commands written to the data register.                                  *)
(***************************************************************************)
ModifiersOneCtrl(state, code) ==
  CASE code = <<Caps>> -> IF "caps" \in state THEN state \ {"caps"}
                          ELSE state \union {"caps"}
    [] code \in Shift -> state \union {"shift"}
    [] code \in {Released(k) : k \in Shift} -> state \ {"shift"}
    [] code \in Ctrl -> state \union {"ctrl"}
    [] code = <<"f0", "14">> -> state \ {"ctrl"}
    [] OTHER -> state

Modifiers(state, code) ==
  CASE code = <<Caps>> -> IF "caps" \in state THEN state \ {"caps"}
                          ELSE state \union {"caps"}
    [] code \in Shift -> state \union {"shift"}
    [] code \in {Released(k) : k \in Shift} -> state \ {"shift"}
    [] code \in Ctrl -> state \union {"ctrl"}
    [] code \in {Released(k) : k \in Ctrl} -> state \ {"ctrl"}
    [] code \in Alt -> state \union {"alt"}
    [] code \in {Released(k) : k \in Alt} -> state \ {"alt"}
    [] OTHER -> state

Stored(s) ==
  [s EXCEPT !.buffer[s.wptr] = s.stored + 1,
            !.ready[s.wptr]  = 1,
            !.wptr    = (s.wptr + 1) % RING,
            !.stored  = s.stored + 1,
            !.overrun = s.overrun \/ s.ready[s.wptr] = 1]

Acknowledged(s) ==
  [s EXCEPT !.answer = IF s.cmd = 1 THEN Append(s.answer, Ack) ELSE s.answer,
            !.cmd = 0]

Complete(s, code) ==
  LET t == IF Len(code) = 1 THEN Stored(s) ELSE s
  IN  [t EXCEPT !.mods = Modifiers(s.mods, code),
                !.cmd = IF code = <<Caps>> THEN 1 ELSE s.cmd,
                !.answer = IF code = <<Caps>> THEN Append(s.answer, Ack)
                           ELSE s.answer,
                !.keys = <<>>]

Turn(s, b) ==
  IF b = Ack THEN Acknowledged(s)
  ELSE IF b \in High THEN [s EXCEPT !.keys = Append(s.keys, b)]
  ELSE Complete(s, Append(s.keys, b))

(***************************************************************************)
(* ps2_handler.  A run takes the bytes that have arrived; the Shell cannot *)
(* step in between and the next run follows at once, so a run is taken as  *)
(* short as the loop lets it be.  That is one byte, except that after an   *)
(* acknowledge the loop goes on with the count it read before: it reads    *)
(* the data register again, and when no byte has arrived finds Nothing.    *)
(* A run that finds one of the bits 16 to 18 of the status set returns     *)
(* before it reads (ps2.c:132): a step that changes nothing.               *)
(***************************************************************************)
Bytes(n) == IF wire[n] = Ack THEN Append(SubSeq(wire, 1, n), Nothing)
            ELSE SubSeq(wire, 1, n)

(* Where kernel_getkey is inside init_buffer. *)
Erasing == {"erase", "unready_all", "reset_wptr", "reset_rptr"}

ps2_handler ==
  \E n \in {m \in 1..Len(wire) : \A i \in 1..m-1 : wire[i] = Ack} :
    LET loop[i \in 0..Len(Bytes(n))] ==
          IF i = 0
          THEN [buffer |-> buffer, ready |-> ready, wptr |-> wptr,
                keys |-> key_buffer, mods |-> keyboard_state,
                cmd |-> keyboard_cmd_state, answer |-> <<>>,
                stored |-> stored, overrun |-> overrun]
          ELSE Turn(loop[i-1], Bytes(n)[i])
        s == loop[Len(Bytes(n))]
    IN  /\ wire' = SubSeq(wire, n + 1, Len(wire)) \o s.answer
        /\ buffer' = s.buffer /\ ready' = s.ready /\ wptr' = s.wptr
        /\ key_buffer' = s.keys /\ keyboard_state' = s.mods
        /\ keyboard_cmd_state' = s.cmd
        /\ stored' = s.stored /\ overrun' = s.overrun
        /\ torn' = (torn \/ (reader.pc \in Erasing /\ s.stored > stored))
        /\ UNCHANGED <<down, typed, rptr, reader, got, delivered, wiped>>

-----------------------------------------------------------------------------
(***************************************************************************)
(* kernel_getkey, called by kernel_getchar until it gives a key.  The look *)
(* at ready and the copy are one step: the handler never clears ready.     *)
(***************************************************************************)
handlerVars == <<typist, key_buffer, keyboard_state, keyboard_cmd_state>>

GetCopy ==
  /\ reader.pc = "getkey" /\ ready[rptr] = 1
  /\ reader' = [reader EXCEPT !.pc = "unready", !.key = buffer[rptr]]
  /\ UNCHANGED <<handlerVars, ringVars, ghosts>>

GetUnreadyNot ==
  /\ reader.pc = "unready"
  /\ reader' = [reader EXCEPT !.pc = "advance"]
  /\ UNCHANGED <<handlerVars, ringVars, ghosts>>

GetUnready ==
  /\ reader.pc = "unready"
  /\ ready' = [ready EXCEPT ![rptr] = 0]
  /\ reader' = [reader EXCEPT !.pc = "advance"]
  /\ UNCHANGED <<handlerVars, buffer, wptr, rptr, ghosts>>

Wrapped == rptr + 1 = RING

GetAdvance ==
  /\ reader.pc = "advance"
  /\ rptr' = rptr + 1
  /\ reader' = [reader EXCEPT !.pc = IF Wrapped THEN "erase" ELSE "return", !.i = 0]
  /\ UNCHANGED <<handlerVars, buffer, ready, wptr, ghosts>>

(* init_buffer: the two fields of a slot after another, then the indices. *)
EraseBuffer ==
  /\ reader.pc = "erase"
  /\ buffer' = [buffer EXCEPT ![reader.i] = 0]
  /\ reader' = [reader EXCEPT !.pc = "unready_all"]
  /\ UNCHANGED <<handlerVars, ready, wptr, rptr, ghosts>>

SlotErased ==
  reader' = [reader EXCEPT !.pc = IF reader.i + 1 = RING THEN "reset_wptr" ELSE "erase",
                           !.i = (reader.i + 1) % RING]

EraseReadyNot ==
  /\ reader.pc = "unready_all"
  /\ SlotErased
  /\ UNCHANGED <<handlerVars, ringVars, ghosts>>

EraseReady ==
  /\ reader.pc = "unready_all"
  /\ ready' = [ready EXCEPT ![reader.i] = 0]
  /\ wiped' = wiped + ready[reader.i]
  /\ SlotErased
  /\ UNCHANGED <<handlerVars, buffer, wptr, rptr, stored, delivered, got, overrun, torn>>

ResetWriteNot ==
  /\ reader.pc = "reset_wptr"
  /\ reader' = [reader EXCEPT !.pc = "reset_rptr"]
  /\ UNCHANGED <<handlerVars, ringVars, ghosts>>

ResetWrite ==
  /\ reader.pc = "reset_wptr"
  /\ wptr' = 0
  /\ reader' = [reader EXCEPT !.pc = "reset_rptr"]
  /\ UNCHANGED <<handlerVars, buffer, ready, rptr, ghosts>>

ResetRead ==
  /\ reader.pc = "reset_rptr"
  /\ rptr' = 0
  /\ reader' = [reader EXCEPT !.pc = "return"]
  /\ UNCHANGED <<handlerVars, buffer, ready, wptr, ghosts>>

(***************************************************************************)
(* The key is returned, and sooner or later the Shell calls again: it is   *)
(* in kernel_getchar's loop, or busy with a command for long.              *)
(***************************************************************************)
GetReturn ==
  /\ reader.pc = "return"
  /\ delivered' = delivered + 1
  /\ got' = {k \in got \union {reader.key} : \E i \in Slot : buffer[i] = k}
  /\ reader' = [pc |-> "getkey", key |-> 0, i |-> 0]
  /\ UNCHANGED <<handlerVars, ringVars, stored, wiped, overrun, torn>>

Read ==
  \/ GetCopy \/ GetUnready \/ GetAdvance \/ GetReturn
  \/ EraseBuffer \/ EraseReady \/ ResetWrite \/ ResetRead

Next ==
  \/ \E k \in Key : Press(k) \/ Release(k)
  \/ ps2_handler
  \/ Read

(***************************************************************************)
(* The interrupt comes once a byte is there, its status bits clear sooner  *)
(* or later, and the Shell goes on reading (it has nothing else to do);    *)
(* nobody has to type.                                                     *)
(***************************************************************************)
Spec == Init /\ [][Next]_vars /\ WF_vars(ps2_handler) /\ WF_vars(Read)

-----------------------------------------------------------------------------
(* Both indices stay in the ring, rptr except between the increment that   *)
(* takes it to the end (ps2.c:207) and init_buffer; one prefix byte at     *)
(* most waits for the rest of its key.                                     *)
TypeOK ==
  /\ down \subseteq Key
  /\ buffer \in [Slot -> 0..stored] /\ ready \in [Slot -> {0, 1}]
  /\ wptr \in Slot
  /\ rptr \in Slot \/ (rptr = RING /\ reader.pc \in Erasing)
  /\ keyboard_state \subseteq {"caps", "shift", "ctrl", "alt"}
  /\ Len(key_buffer) <= 2 /\ keyboard_cmd_state \in {0, 1}
  /\ reader \in [pc : {"getkey", "unready", "advance", "return"} \union Erasing,
                 key : 0..stored, i : Slot]
  /\ got \subseteq 1..stored

(* What kernel_getkey returns is an entry that the handler stored (a key,   *)
(* or the byte Nothing of an acknowledge), never an erased slot nor an      *)
(* entry it returned before, whatever the handler overwrites and wherever   *)
(* it interrupts kernel_getkey and init_buffer.                             *)
AtMostOnce ==
  [][GetReturn => reader.key \notin got \union {0}]_vars

Unread == {i \in Slot : ready[i] = 1}

(* As long as no entry was overwritten unread and none arrived inside       *)
(* init_buffer, the unread ones are the last that were stored and lie       *)
(* between rptr and wptr in their order and without gaps: kernel_getkey     *)
(* never meets an empty slot with keys behind it, nor an older key after a  *)
(* newer.  Those stored before them reached the Shell, each of them, but    *)
(* for the ones that init_buffer erased unread when rptr came to the end of *)
(* the ring with newer keys at its front.                                   *)
PendingWindow ==
  /\ TypeOK
  /\ (reader.pc = "getkey" /\ ~overrun /\ ~torn) =>
       LET n == Cardinality(Unread)
       IN  /\ (rptr + n) % RING = wptr
           /\ \A j \in 0..n-1 :
                LET i == (rptr + j) % RING
                IN  ready[i] = 1 /\ buffer[i] = stored - n + 1 + j
           /\ delivered + wiped = stored - n

(* Every modifier that is on belongs to a key that is still held: no       *)
(* sequence of presses, releases and acknowledges leaves one stuck.        *)
NoStuckModifier ==
  (wire = <<>> /\ key_buffer = <<>>) =>
    /\ "shift" \in keyboard_state => Shift \intersect down # {}
    /\ "ctrl" \in keyboard_state => Ctrl \intersect down # {}
    /\ "alt" \in keyboard_state => Alt \intersect down # {}

(* Once nobody types any more, the Shell has read the ring empty, unless a *)
(* key arrived inside init_buffer: such a one may lie where rptr is not.   *)
Drained == <>[](torn \/ \A i \in Slot : ready[i] = 0)
=============================================================================
