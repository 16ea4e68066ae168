-------------------------- MODULE Keyboard_proofs ---------------------------
(***************************************************************************)
(* The keyboard for every size of the ring, every set of keys that the     *)
(* handler can tell, and any number of keys typed.                         *)
(***************************************************************************)
EXTENDS Keyboard, NatLemmas, SequenceTheorems, FiniteSetTheorems

(* The assumption about the numbers.                                       *)
LEMMA Sizes == RING \in Nat /\ RING > 0 /\ MaxTyped \in Nat /\ MaxWait \in Nat
BY KeyboardAssumption

-----------------------------------------------------------------------------
(***************************************************************************)
(* What a run of ps2_handler comes to.  The loop is a recursive function;  *)
(* its values are found turn by turn, as the acknowledges at the front     *)
(* change nothing after the first one.                                     *)
(***************************************************************************)
Start ==
  [buffer |-> buffer, ready |-> ready, wptr |-> wptr,
   keys |-> key_buffer, mods |-> keyboard_state,
   cmd |-> keyboard_cmd_state, answer |-> <<>>,
   stored |-> stored, overrun |-> overrun]

Loop(bs, m) ==
  CHOOSE loop : loop = [i \in 0..m |-> IF i = 0 THEN Start ELSE Turn(loop[i-1], bs[i])]

Acks(n) == IF n = 1 THEN Start ELSE Acknowledged(Start)

(* An acknowledge to nothing is passed over.                               *)
LEMMA AcksRepeat ==
  /\ Acknowledged(Acknowledged(Start)) = Acknowledged(Start)
  /\ Acknowledged(Start) = [Start EXCEPT
        !.answer = IF keyboard_cmd_state = 1 THEN <<Ack>> ELSE <<>>, !.cmd = 0]
<1>1. PICK t : t = [Start EXCEPT
        !.answer = IF keyboard_cmd_state = 1 THEN <<Ack>> ELSE <<>>, !.cmd = 0]
  OBVIOUS
<1>2. Append(<<>>, Ack) = <<Ack>>
  OBVIOUS
<1>3. Acknowledged(Start) = t
  BY <1>1, <1>2 DEF Acknowledged, Start
<1>4. t.cmd = 0 /\ t = [t EXCEPT !.answer = t.answer, !.cmd = 0]
  BY <1>1 DEF Start
<1>5. Acknowledged(t) = t
  BY <1>4 DEF Acknowledged
<1> QED BY <1>1, <1>3, <1>5

(* The loop is the function that its definition describes.                 *)
LEMMA LoopExists ==
  ASSUME NEW n \in Nat \ {0}, NEW m \in {n, n + 1}, NEW bs, \A i \in 1..n-1 : bs[i] = Ack
  PROVE  /\ Loop(bs, m)[0] = Start
         /\ \A i \in 1..m : Loop(bs, m)[i] = Turn(Loop(bs, m)[i - 1], bs[i])
<1> DEFINE g == [i \in 0..m |-> IF i = 0 THEN Start
                                ELSE IF i < n THEN Acknowledged(Start)
                                ELSE IF i = n THEN Turn(Acks(n), bs[n])
                                ELSE Turn(Turn(Acks(n), bs[n]), bs[n + 1])]
<1> DEFINE Body(loop) == [i \in 0..m |-> IF i = 0 THEN Start ELSE Turn(loop[i-1], bs[i])]
<1>1. \A s : Turn(s, Ack) = Acknowledged(s)
  BY DEF Turn
<1>2. ASSUME NEW i \in 1..m PROVE g[i] = Turn(g[i - 1], bs[i])
  <2>1. i \in Nat /\ i >= 1 /\ i - 1 \in 0..m /\ i \in 0..m /\ n \in Nat /\ m \in Nat /\ i <= n + 1
    OBVIOUS
  <2>2. CASE i < n
    <3>1. bs[i] = Ack /\ g[i] = Acknowledged(Start)
      BY <2>1, <2>2
    <3>2. CASE i = 1
      <4>1. g[i - 1] = Start
        BY <2>1, <3>2
      <4> QED BY <1>1, <3>1, <4>1
    <3>3. CASE i # 1
      <4>1. g[i - 1] = Acknowledged(Start)
        BY <2>1, <2>2, <3>3
      <4> QED BY <1>1, <3>1, <4>1, AcksRepeat
    <3> QED BY <3>2, <3>3
  <2>3. CASE i = n
    <3>1. g[i] = Turn(Acks(n), bs[n])
      BY <2>1, <2>3
    <3>2. g[i - 1] = Acks(n)
      <4>1. CASE n = 1
        BY <2>1, <2>3, <4>1 DEF Acks
      <4>2. CASE n # 1
        BY <2>1, <2>3, <4>2 DEF Acks
      <4> QED BY <4>1, <4>2
    <3> QED BY <2>3, <3>1, <3>2
  <2>4. CASE i = n + 1
    <3>1. g[i] = Turn(Turn(Acks(n), bs[n]), bs[n + 1]) /\ g[n] = Turn(Acks(n), bs[n])
      BY <2>1, <2>4
    <3> QED BY <2>1, <2>4, <3>1
  <2> QED BY <2>1, <2>2, <2>3, <2>4
<1>3. g = Body(g)
  <2>1. g[0] = Start
    OBVIOUS
  <2>2. \A i \in 0..m : g[i] = IF i = 0 THEN Start ELSE Turn(g[i-1], bs[i])
    BY <1>2, <2>1
  <2> HIDE DEF Body
  <2>3. Body(g) = [i \in 0..m |-> IF i = 0 THEN Start ELSE Turn(g[i-1], bs[i])]
    BY DEF Body
  <2>4. \A i \in 0..m : g[i] = Body(g)[i]
    BY <2>2, <2>3
  <2> QED BY <2>3, <2>4
<1>4. PICK f : f = Loop(bs, m)
  OBVIOUS
<1>5. f = Body(f)
  <2> HIDE DEF g
  <2>1. Loop(bs, m) = CHOOSE loop : loop = Body(loop)
    BY DEF Loop
  <2> HIDE DEF Body
  <2> QED BY <1>3, <1>4, <2>1
<1>6. f[0] = Start /\ \A i \in 1..m : f[i] = Turn(f[i - 1], bs[i])
  <2>1. \A i \in 0..m : f[i] = IF i = 0 THEN Start ELSE Turn(f[i-1], bs[i])
    BY <1>5
  <2>2. 0 \in 0..m /\ \A i \in 1..m : i \in 0..m /\ i # 0
    OBVIOUS
  <2> QED BY <2>1, <2>2
<1> QED BY <1>4, <1>6

(* After the acknowledges come one byte, or the last of them and Nothing.  *)
LEMMA LoopEnds ==
  ASSUME NEW n \in Nat \ {0}, NEW m \in {n, n + 1}, NEW bs, \A i \in 1..n-1 : bs[i] = Ack
  PROVE  Loop(bs, m)[m] = IF m = n THEN Turn(Acks(n), bs[n])
                          ELSE Turn(Turn(Acks(n), bs[n]), bs[n + 1])
<1>1. PICK f : f = Loop(bs, m)
  OBVIOUS
<1>2. f[0] = Start /\ \A i \in 1..m : f[i] = Turn(f[i - 1], bs[i])
  BY <1>1, LoopExists
<1>3. \A s : Turn(s, Ack) = Acknowledged(s)
  BY DEF Turn
<1> DEFINE P(i) == f[i] = Acknowledged(Start)
<1> DEFINE Bad == {i \in 1..n-1 : ~P(i)}
<1>4. \A i \in 1..n-1 : P(i)
  <2>1. \A i \in 1..n-1 : i = 1 \/ P(i - 1) => P(i)
    <3> SUFFICES ASSUME NEW i \in 1..n-1, i = 1 \/ P(i - 1) PROVE P(i)
      OBVIOUS
    <3>1. i \in 1..m /\ bs[i] = Ack
      OBVIOUS
    <3>2. f[i] = Acknowledged(f[i - 1])
      BY <1>2, <1>3, <3>1
    <3>3. CASE i = 1
      BY <1>2, <3>2, <3>3
    <3>4. CASE P(i - 1)
      BY <3>2, <3>4, AcksRepeat
    <3> QED BY <3>3, <3>4
  <2>2. \A k : k \in Bad <=> k \in 1..n-1 /\ ~P(k)
    OBVIOUS
  <2> HIDE DEF P, Bad
  <2>3. Bad \subseteq Nat
    BY <2>2
  <2>4. CASE Bad # {}
    <3>1. PICK x \in Bad : \A y \in Bad : x <= y
      BY <2>3, <2>4, LeastNat
    <3>2. x \in 1..n-1 /\ ~P(x) /\ x \in Nat
      BY <2>2, <3>1
    <3>3. x # 1 /\ ~P(x - 1)
      BY <2>1, <3>2
    <3>4. x - 1 \in 1..n-1
      BY <3>2, <3>3
    <3>5. x - 1 \in Bad
      BY <2>2, <3>3, <3>4
    <3> QED BY <3>1, <3>2, <3>5
  <2> QED BY <2>2, <2>4
<1>5. f[n - 1] = Acks(n)
  <2>1. CASE n = 1
    BY <1>2, <2>1 DEF Acks
  <2>2. CASE n # 1
    <3>1. n - 1 \in 1..n-1
      BY <2>2
    <3> QED BY <1>4, <2>2, <3>1 DEF Acks
  <2> QED BY <2>1, <2>2
<1>6. f[n] = Turn(Acks(n), bs[n])
  <2>1. n \in 1..m
    OBVIOUS
  <2> QED BY <1>2, <1>5, <2>1
<1>7. CASE m = n
  BY <1>1, <1>6, <1>7
<1>8. CASE m = n + 1
  <2>1. m \in 1..m /\ m - 1 = n /\ m # n
    BY <1>8
  <2>2. f[m] = Turn(f[n], bs[m])
    BY <1>2, <2>1
  <2> QED BY <1>1, <1>6, <1>8, <2>1, <2>2
<1> QED BY <1>7, <1>8

-----------------------------------------------------------------------------
(* What the handler leaves in the ring when it stores a key, and when not. *)
Stores ==
  /\ buffer' = [buffer EXCEPT ![wptr] = stored + 1]
  /\ ready' = [ready EXCEPT ![wptr] = 1]
  /\ wptr' = (wptr + 1) % RING /\ stored' = stored + 1
  /\ overrun' = (overrun \/ ready[wptr] = 1)
  /\ torn' = (torn \/ reader.pc \in Erasing)

LeavesRing == UNCHANGED <<buffer, ready, wptr, stored, overrun>> /\ torn' = torn

(* The bytes up to the n-th are taken; answers may come.                   *)
Takes(n, answers) ==
  /\ n \in 1..Len(wire) /\ \A i \in 1..n-1 : wire[i] = Ack
  /\ answers \in Seq({Ack}) /\ wire' = SubSeq(wire, n + 1, Len(wire)) \o answers
  /\ keyboard_cmd_state' \in {0, 1}
  /\ UNCHANGED <<down, typed, rptr, reader, got, delivered, wiped>>

(* The last of them is a prefix, or it ends a code.                        *)
Prefixes(n) ==
  /\ wire[n] \in High /\ key_buffer' = Append(key_buffer, wire[n])
  /\ LeavesRing /\ UNCHANGED keyboard_state

Completes(n) ==
  LET code == Append(key_buffer, IF wire[n] = Ack THEN Nothing ELSE wire[n])
  IN  /\ wire[n] \notin High /\ key_buffer' = <<>>
      /\ keyboard_state' = Modifiers(keyboard_state, code)
      /\ IF Len(code) = 1 THEN Stores ELSE LeavesRing

Byte == (UNION {{k[i] : i \in DOMAIN k} : k \in Key}) \union {"e0", "f0", Ack, Nothing}

HandlerTypes ==
  /\ wire \in Seq(Byte) /\ key_buffer \in Seq(Byte)
  /\ stored \in Nat /\ keyboard_cmd_state \in {0, 1}
  /\ torn \in BOOLEAN /\ overrun \in BOOLEAN

(* A turn t of the loop that completed a code.                             *)
Completed(t, code) ==
  /\ t.keys = <<>> /\ t.mods = Modifiers(keyboard_state, code)
  /\ t.cmd \in {0, 1} /\ t.answer \in Seq({Ack})
  /\ Len(code) = 1 => /\ t.buffer = [buffer EXCEPT ![wptr] = stored + 1]
                      /\ t.ready = [ready EXCEPT ![wptr] = 1]
                      /\ t.wptr = (wptr + 1) % RING /\ t.stored = stored + 1
                      /\ t.overrun = (overrun \/ ready[wptr] = 1)
  /\ Len(code) # 1 => /\ t.buffer = buffer /\ t.ready = ready /\ t.wptr = wptr
                      /\ t.stored = stored /\ t.overrun = overrun

(* Completing a code: only its length decides whether it is stored.          *)
LEMMA CompleteIs ==
  ASSUME HandlerTypes, NEW a \in Seq({Ack}), NEW c \in {0, 1}, NEW s, NEW code,
         s = [Start EXCEPT !.answer = a, !.cmd = c]
  PROVE  Completed(Complete(s, code), code)
<1>0. PICK t : t = Complete(s, code)
  OBVIOUS
<1>1. /\ s.buffer = buffer /\ s.ready = ready /\ s.wptr = wptr /\ s.mods = keyboard_state
      /\ s.cmd = c /\ s.answer = a /\ s.stored = stored /\ s.overrun = overrun
      /\ s = [buffer |-> buffer, ready |-> ready, wptr |-> wptr,
              keys |-> key_buffer, mods |-> keyboard_state, cmd |-> c, answer |-> a,
              stored |-> stored, overrun |-> overrun]
  BY DEF Start
<1>2. Append(a, Ack) \in Seq({Ack})
  BY AppendProperties
<1>3. PICK u : u = IF Len(code) = 1 THEN Stored(s) ELSE s
  OBVIOUS
<1>4. t = [u EXCEPT !.mods = Modifiers(s.mods, code),
                    !.cmd = IF code = <<Caps>> THEN 1 ELSE s.cmd,
                    !.answer = IF code = <<Caps>> THEN Append(s.answer, Ack) ELSE s.answer,
                    !.keys = <<>>]
  BY <1>0, <1>3 DEF Complete
<1>5. u = IF Len(code) = 1
          THEN [buffer |-> [buffer EXCEPT ![wptr] = stored + 1], ready |-> [ready EXCEPT ![wptr] = 1],
                wptr |-> (wptr + 1) % RING, keys |-> key_buffer, mods |-> keyboard_state, cmd |-> c,
                answer |-> a, stored |-> stored + 1, overrun |-> (overrun \/ ready[wptr] = 1)]
          ELSE s
  <2>1. CASE Len(code) = 1
    <3>1. u = [buffer |-> [buffer EXCEPT ![wptr] = stored + 1], ready |-> [ready EXCEPT ![wptr] = 1],
               wptr |-> (wptr + 1) % RING, keys |-> key_buffer, mods |-> keyboard_state, cmd |-> c,
               answer |-> a, stored |-> stored + 1, overrun |-> (overrun \/ ready[wptr] = 1)]
      BY <1>1, <1>3, <2>1 DEF Stored
    <3> QED BY <2>1, <3>1
  <2>2. CASE Len(code) # 1
    BY <1>3, <2>2
  <2> QED BY <2>1, <2>2
<1>6. /\ t.keys = <<>> /\ t.mods = Modifiers(keyboard_state, code)
      /\ t.cmd = (IF code = <<Caps>> THEN 1 ELSE c)
      /\ t.answer = (IF code = <<Caps>> THEN Append(a, Ack) ELSE a)
      /\ t.buffer = u.buffer /\ t.ready = u.ready /\ t.wptr = u.wptr
      /\ t.stored = u.stored /\ t.overrun = u.overrun
  BY <1>1, <1>4, <1>5
<1>7. t.cmd \in {0, 1} /\ t.answer \in Seq({Ack})
  BY <1>2, <1>6
<1>8. Completed(t, code)
  BY <1>1, <1>5, <1>6, <1>7 DEF Completed
<1> QED BY <1>0, <1>8

(* Either a prefix is added to what is there, or a code ends.              *)
LEMMA HandlerIs ==
  ASSUME HandlerTypes, ps2_handler
  PROVE  \E n, answers : Takes(n, answers) /\ (Prefixes(n) \/ Completes(n))
<1>1. PICK n, s :
               /\ n \in {k \in 1..Len(wire) : \A i \in 1..k-1 : wire[i] = Ack}
               /\ s = Loop(Bytes(n), Len(Bytes(n)))[Len(Bytes(n))]
               /\ wire' = SubSeq(wire, n + 1, Len(wire)) \o s.answer
               /\ buffer' = s.buffer /\ ready' = s.ready /\ wptr' = s.wptr
               /\ key_buffer' = s.keys /\ keyboard_state' = s.mods
               /\ keyboard_cmd_state' = s.cmd
               /\ stored' = s.stored /\ overrun' = s.overrun
               /\ torn' = (torn \/ (reader.pc \in Erasing /\ s.stored > stored))
               /\ UNCHANGED <<down, typed, rptr, reader, got, delivered, wiped>>
  BY DEF ps2_handler, Loop, Start
<1>2. n \in 1..Len(wire) /\ (\A i \in 1..n-1 : wire[i] = Ack) /\ n \in Nat \ {0} /\ n <= Len(wire)
      /\ wire \in Seq(Byte) /\ Len(wire) \in Nat
  BY <1>1 DEF HandlerTypes
<1>3. PICK bs : bs = Bytes(n)
  OBVIOUS
<1>4. PICK m : m = IF wire[n] = Ack THEN n + 1 ELSE n
  OBVIOUS
<1>5. Len(bs) = m /\ (\A i \in 1..n : bs[i] = wire[i]) /\ (wire[n] = Ack => bs[n + 1] = Nothing)
  <2>1. PICK f : f = SubSeq(wire, 1, n)
    OBVIOUS
  <2>2. f \in Seq(Byte) /\ Len(f) = n /\ \A i \in 1..n : f[i] = wire[i]
    BY <1>2, <2>1
  <2>3. CASE wire[n] = Ack
    <3>1. bs = Append(f, Nothing)
      BY <1>3, <2>1, <2>3 DEF Bytes
    <3>2. Nothing \in Byte
      BY DEF Byte
    <3> QED BY <1>2, <1>4, <2>2, <2>3, <3>1, <3>2
  <2>4. CASE wire[n] # Ack
    <3>1. bs = f
      BY <1>3, <2>1, <2>4 DEF Bytes
    <3> QED BY <1>4, <2>2, <2>4, <3>1
  <2> QED BY <2>3, <2>4
<1>6. s = IF m = n THEN Turn(Acks(n), wire[n]) ELSE Turn(Turn(Acks(n), wire[n]), Nothing)
  <2>1. (\A i \in 1..n-1 : bs[i] = Ack) /\ m \in {n, n + 1} /\ bs[n] = wire[n]
    <3>1. n \in 1..n /\ \A i \in 1..n-1 : i \in 1..n
      BY <1>2
    <3> QED BY <1>2, <1>4, <1>5, <3>1
  <2>2. s = Loop(bs, m)[m]
    BY <1>1, <1>3, <1>5
  <2>3. Loop(bs, m)[m] = IF m = n THEN Turn(Acks(n), bs[n]) ELSE Turn(Turn(Acks(n), bs[n]), bs[n + 1])
    BY <1>2, <2>1, LoopEnds
  <2> QED BY <1>2, <1>4, <1>5, <2>1, <2>2, <2>3
<1>7. <<>> \in Seq({Ack}) /\ <<Ack>> \in Seq({Ack}) /\ keyboard_cmd_state \in {0, 1}
  BY DEF HandlerTypes
<1>8. PICK a \in Seq({Ack}), c \in {0, 1} : Acks(n) = [Start EXCEPT !.answer = a, !.cmd = c]
  <2>1. CASE n = 1
    <3>0. Start.answer = <<>> /\ Start.cmd = keyboard_cmd_state
          /\ Start = [Start EXCEPT !.answer = Start.answer, !.cmd = Start.cmd]
      BY DEF Start
    <3>1. Acks(n) = [Start EXCEPT !.answer = <<>>, !.cmd = keyboard_cmd_state]
      BY <2>1, <3>0 DEF Acks
    <3> QED BY <1>7, <3>1
  <2>2. CASE n # 1
    <3>1. Acks(n) = [Start EXCEPT !.answer = IF keyboard_cmd_state = 1 THEN <<Ack>> ELSE <<>>,
                                 !.cmd = 0]
      BY <2>2, AcksRepeat DEF Acks
    <3>2. (IF keyboard_cmd_state = 1 THEN <<Ack>> ELSE <<>>) \in Seq({Ack})
      BY <1>7
    <3> QED BY <1>7, <3>1, <3>2
  <2> QED BY <2>1, <2>2
<1>9. Ack \notin High /\ Nothing \notin High /\ Nothing # Ack
  BY DEF Ack, High, Nothing
<1>10. stored \in Nat /\ stored + 1 > stored /\ ~(stored > stored)
  BY DEF HandlerTypes
<1>11. Acks(n).keys = key_buffer
  BY <1>8 DEF Start
<1>12. CASE wire[n] \in High
  <2>1. s = [Acks(n) EXCEPT !.keys = Append(key_buffer, wire[n])]
    BY <1>4, <1>6, <1>9, <1>11, <1>12 DEF Turn
  <2>2. /\ s.buffer = buffer /\ s.ready = ready /\ s.wptr = wptr /\ s.mods = keyboard_state
        /\ s.cmd = c /\ s.answer = a /\ s.stored = stored /\ s.overrun = overrun
        /\ s.keys = Append(key_buffer, wire[n])
    BY <1>8, <2>1 DEF Start
  <2>3. Takes(n, a)
    BY <1>1, <1>2, <2>2 DEF Takes
  <2>4. Prefixes(n)
    BY <1>1, <1>10, <1>12, <2>2 DEF Prefixes, LeavesRing, HandlerTypes
  <2> QED BY <2>3, <2>4
<1>13. ASSUME wire[n] \notin High,
              NEW code, code = Append(key_buffer, IF wire[n] = Ack THEN Nothing ELSE wire[n]),
              NEW b \in Seq({Ack}), NEW d \in {0, 1},
              s = Complete([Start EXCEPT !.answer = b, !.cmd = d], code)
       PROVE  Takes(n, s.answer) /\ Completes(n)
  <2>1. PICK r : r = [Start EXCEPT !.answer = b, !.cmd = d]
    OBVIOUS
  <2>2. Completed(s, code)
    <3>1. s = Complete(r, code)
      BY <1>13, <2>1
    <3>2. Completed(Complete(r, code), code)
      BY <2>1, CompleteIs
    <3> QED BY <3>1, <3>2
  <2>3. Takes(n, s.answer)
    BY <1>1, <1>2, <2>2 DEF Takes, Completed
  <2>4. CASE Len(code) = 1
    <3>1. Stores
      BY <1>1, <1>10, <2>2, <2>4 DEF Stores, Completed
    <3> QED BY <1>1, <1>13, <2>2, <2>3, <2>4, <3>1 DEF Completes, Completed
  <2>5. CASE Len(code) # 1
    <3>1. LeavesRing
      BY <1>1, <1>10, <2>2, <2>5 DEF LeavesRing, HandlerTypes, Completed
    <3> QED BY <1>1, <1>13, <2>2, <2>3, <2>5, <3>1 DEF Completes, Completed
  <2> QED BY <2>4, <2>5
<1>14. CASE wire[n] \notin High /\ wire[n] # Ack
  <2>1. s = Complete(Acks(n), Append(key_buffer, wire[n]))
    BY <1>4, <1>6, <1>11, <1>14 DEF Turn
  <2>2. PICK code : code = Append(key_buffer, IF wire[n] = Ack THEN Nothing ELSE wire[n])
    OBVIOUS
  <2>3. s = Complete([Start EXCEPT !.answer = a, !.cmd = c], code)
    BY <1>8, <1>14, <2>1, <2>2
  <2>4. Takes(n, s.answer) /\ Completes(n)
    BY <1>13, <1>14, <2>2, <2>3
  <2> QED BY <2>4
<1>15. CASE wire[n] = Ack
  <2>1. \A r : Turn(r, Ack) = Acknowledged(r)
    BY DEF Turn
  <2>2. Turn(Acks(n), Ack) = Acknowledged(Start)
    BY <2>1, AcksRepeat DEF Acks
  <2>3. s = Turn(Acknowledged(Start), Nothing)
    <3>1. m # n
      BY <1>2, <1>4, <1>15
    <3> QED BY <1>6, <1>15, <2>2, <3>1
  <2>4. PICK b : b = IF keyboard_cmd_state = 1 THEN <<Ack>> ELSE <<>>
    OBVIOUS
  <2>5. b \in Seq({Ack}) /\ Acknowledged(Start) = [Start EXCEPT !.answer = b, !.cmd = 0]
    BY <1>7, <2>4, AcksRepeat
  <2>6. Acknowledged(Start).keys = key_buffer
    BY <2>5 DEF Start
  <2>7. s = Complete(Acknowledged(Start), Append(key_buffer, Nothing))
    BY <1>9, <2>3, <2>6 DEF Turn
  <2>8. PICK code : code = Append(key_buffer, IF wire[n] = Ack THEN Nothing ELSE wire[n])
    OBVIOUS
  <2>9. s = Complete([Start EXCEPT !.answer = b, !.cmd = 0], code)
    BY <1>15, <2>5, <2>7, <2>8
  <2>10. Takes(n, s.answer) /\ Completes(n)
    BY <1>9, <1>13, <1>15, <2>5, <2>8, <2>9
  <2> QED BY <2>10
<1> QED BY <1>12, <1>14, <1>15

-----------------------------------------------------------------------------
(***************************************************************************)
(* Bytes and codes.  A code is prefixes and a final byte, so that in a     *)
(* line of bytes each final byte tells with those before it what it ends.  *)
(***************************************************************************)
Final == Byte \ (High \union {Ack})

Codes == {<<b>> : b \in Final} \union {<<"e0", b>> : b \in Final}
           \union {<<"f0", b>> : b \in Final} \union {<<"e0", "f0", b>> : b \in Final}

Pending == {<<>>, <<"e0">>, <<"f0">>, <<"e0", "f0">>}

(* Of the bytes that a keyboard sends, only e0 and f0 are prefixes: the      *)
(* others end a code or are acknowledges.                                    *)
LEMMA BytesAre ==
  /\ "e0" \in Byte /\ "f0" \in Byte /\ Ack \in Byte /\ Nothing \in Byte
  /\ "e0" \in High /\ "f0" \in High /\ "e0" # "f0" /\ Ack \notin High
  /\ \A b \in Byte : b \in Final \/ b = "e0" \/ b = "f0" \/ b = Ack
  /\ \A b \in Final : b \in Byte /\ b # "e0" /\ b # "f0" /\ b # Ack /\ b \notin High
  /\ \A b \in Byte : b \in High => b = "e0" \/ b = "f0"
<1>1. /\ "e0" \in Byte /\ "f0" \in Byte /\ Ack \in Byte /\ Nothing \in Byte
      /\ "e0" \in High /\ "f0" \in High /\ "e0" # "f0" /\ Ack \notin High
      /\ Nothing \notin High \union {Ack}
  BY DEF Byte, High, Ack, Nothing
<1>2. \A b \in Byte : b \in Final \/ b = "e0" \/ b = "f0" \/ b = Ack
  <2> SUFFICES ASSUME NEW b \in Byte, b \in High PROVE b = "e0" \/ b = "f0"
    BY DEF Final
  <2>1. CASE b \in {"e0", "f0", Ack, Nothing}
    BY <1>1, <2>1
  <2>2. CASE \E k \in Key : b \in {k[i] : i \in DOMAIN k}
    <3>1. PICK k \in Key : b \in {k[i] : i \in DOMAIN k}
      BY <2>2
    <3>2. /\ k \in Seq(STRING) /\ Len(k) \in {1, 2} /\ (Len(k) = 2 => k[1] = "e0")
          /\ k[Len(k)] \notin High \union {Ack}
      BY KeyAssumption
    <3>3. PICK i \in 1..Len(k) : b = k[i]
      BY <3>1, <3>2
    <3> QED BY <3>2, <3>3
  <2> QED BY <2>1, <2>2 DEF Byte
<1>3. \A b \in Final : b \in Byte /\ b # "e0" /\ b # "f0" /\ b # Ack /\ b \notin High
  BY <1>1 DEF Final
<1> QED BY <1>1, <1>2, <1>3

(* What is typed are codes of one or two bytes.                            *)
LEMMA KeyIs ==
  ASSUME NEW k \in Key
  PROVE  \E b \in Final : k = <<b>> \/ k = <<"e0", b>>
<1>1. /\ k \in Seq(STRING) /\ Len(k) \in {1, 2} /\ (Len(k) = 2 => k[1] = "e0")
      /\ k[Len(k)] \notin High \union {Ack}
  BY KeyAssumption
<1>2. \A i \in DOMAIN k : k[i] \in Byte
  BY DEF Byte
<1>3. CASE Len(k) = 1
  <2>1. k = <<k[1]>>
    BY <1>1, <1>3
  <2>2. k[1] \in Final
    BY <1>1, <1>2, <1>3 DEF Final
  <2> QED BY <2>1, <2>2
<1>4. CASE Len(k) = 2
  <2>1. k = <<"e0", k[2]>>
    BY <1>1, <1>4
  <2>2. k[2] \in Final
    BY <1>1, <1>2, <1>4 DEF Final
  <2> QED BY <2>1, <2>2
<1> QED BY <1>1, <1>3, <1>4

(* f0 stands in front of the byte that ends the code, behind an e0.          *)
LEMMA ReleasedIs ==
  /\ \A b : b # "e0" => Released(<<b>>) = <<"f0", b>>
  /\ \A b : Released(<<"e0", b>>) = <<"e0", "f0", b>>
<1>1. ASSUME NEW b, b # "e0" PROVE Released(<<b>>) = <<"f0", b>>
  <2>1. PICK S : S = {"f0", b}
    OBVIOUS
  <2>2. <<"f0">> \in Seq(S) /\ <<b>> \in Seq(S) /\ Len(<<"f0">>) = 1 /\ Len(<<b>>) = 1
    BY <2>1
  <2>3. PICK c : c = <<"f0">> \o <<b>>
    OBVIOUS
  <2>4. c \in Seq(S) /\ Len(c) = 2 /\ c[1] = "f0" /\ c[2] = b
    <3>1. c \in Seq(S) /\ Len(c) = 1 + 1
          /\ \A i \in 1..1+1 : c[i] = IF i <= 1 THEN <<"f0">>[i] ELSE <<b>>[i - 1]
      BY <2>2, <2>3, ConcatProperties
    <3> QED BY <3>1
  <2>5. c = <<"f0", b>>
    BY <2>4
  <2> QED BY <1>1, <2>3, <2>5 DEF Released
<1>2. ASSUME NEW b PROVE Released(<<"e0", b>>) = <<"e0", "f0", b>>
  <2>1. PICK S : S = {"e0", "f0", b}
    OBVIOUS
  <2>2. /\ <<"e0", "f0">> \in Seq(S) /\ <<b>> \in Seq(S)
        /\ Len(<<"e0", "f0">>) = 2 /\ Len(<<b>>) = 1
    BY <2>1
  <2>3. Tail(<<"e0", b>>) = <<b>>
    OBVIOUS
  <2>4. PICK c : c = <<"e0", "f0">> \o <<b>>
    OBVIOUS
  <2>5. c \in Seq(S) /\ Len(c) = 3 /\ c[1] = "e0" /\ c[2] = "f0" /\ c[3] = b
    <3>1. c \in Seq(S) /\ Len(c) = 2 + 1
          /\ \A i \in 1..2+1 : c[i] = IF i <= 2 THEN <<"e0", "f0">>[i] ELSE <<b>>[i - 2]
      BY <2>2, <2>4, ConcatProperties
    <3> QED BY <3>1
  <2>6. c = <<"e0", "f0", b>>
    BY <2>5
  <2> QED BY <2>3, <2>4, <2>6 DEF Released
<1> QED BY <1>1, <1>2

-----------------------------------------------------------------------------
(***************************************************************************)
(* A line: bytes in the order in which the handler takes them.             *)
(***************************************************************************)
Prev(w, j) == IF j > 1 THEN w[j - 1] ELSE Ack

CodeAt(w, j) ==
  IF Prev(w, j) = "f0"
    THEN IF Prev(w, j - 1) = "e0" THEN <<"e0", "f0", w[j]>> ELSE <<"f0", w[j]>>
    ELSE IF Prev(w, j) = "e0" THEN <<"e0", w[j]>> ELSE <<w[j]>>

Ends(w) == {j \in 1..Len(w) : w[j] \in Final}

(* Prefixes are followed by what completes them.                           *)
Regular(w) ==
  /\ w \in Seq(Byte)
  /\ \A j \in 1..Len(w) :
       /\ w[j] = "e0" => j < Len(w) /\ (w[j + 1] \in Final \/ w[j + 1] = "f0")
       /\ w[j] = "f0" => j < Len(w) /\ w[j + 1] \in Final

(* v is w without its first d bytes, followed by acknowledges.             *)
Rest(w, d, v) ==
  /\ v \in Seq(Byte) /\ Len(v) >= Len(w) - d
  /\ \A j \in 1..Len(w)-d : v[j] = w[j + d]
  /\ \A j \in Len(w)-d+1..Len(v) : v[j] = Ack

(* The same ends and codes, d places further on.                           *)
Shifted(w, d, v) ==
  /\ \A j \in Nat : j \in Ends(v) <=> j > 0 /\ j + d \in Ends(w)
  /\ \A j \in Ends(v) : CodeAt(v, j) = CodeAt(w, j + d)

(* Answers behind what is left of a line cut nothing through.                *)
LEMMA RestRegular ==
  ASSUME NEW w, Regular(w), NEW d \in 0..Len(w), NEW v, Rest(w, d, v)
  PROVE  Regular(v)
<1>1. /\ w \in Seq(Byte) /\ v \in Seq(Byte) /\ Len(w) \in Nat /\ Len(v) \in Nat
      /\ d \in Nat /\ d <= Len(w) /\ Len(w) - d <= Len(v)
  BY DEF Regular, Rest
<1> SUFFICES ASSUME NEW j \in 1..Len(v)
             PROVE  /\ v[j] = "e0" => j < Len(v) /\ (v[j + 1] \in Final \/ v[j + 1] = "f0")
                    /\ v[j] = "f0" => j < Len(v) /\ v[j + 1] \in Final
  BY <1>1 DEF Regular
<1>2. CASE j > Len(w) - d
  <2>1. v[j] = Ack
    BY <1>1, <1>2 DEF Rest
  <2> QED BY <2>1, BytesAre
<1>3. CASE j <= Len(w) - d
  <2>1. v[j] = w[j + d] /\ j + d \in 1..Len(w) /\ j \in Nat
    BY <1>1, <1>3 DEF Rest
  <2>2. ASSUME j + d < Len(w) PROVE j < Len(v) /\ v[j + 1] = w[j + d + 1]
    <3>1. j + 1 \in 1..Len(w)-d /\ j + 1 + d = j + d + 1
      BY <1>1, <2>1, <2>2
    <3>2. v[j + 1] = w[j + 1 + d]
      BY <3>1 DEF Rest
    <3> QED BY <1>1, <2>1, <3>1, <3>2
  <2>3. w[j + d] = "e0" => j + d < Len(w) /\ (w[j + d + 1] \in Final \/ w[j + d + 1] = "f0")
    BY <2>1 DEF Regular
  <2>4. w[j + d] = "f0" => j + d < Len(w) /\ w[j + d + 1] \in Final
    BY <2>1 DEF Regular
  <2> QED BY <2>1, <2>2, <2>3, <2>4
<1> QED BY <1>1, <1>2, <1>3

(* Where a code ended nothing is cut through.                              *)
LEMMA RestShifted ==
  ASSUME NEW w, Regular(w), NEW d \in 0..Len(w), d = 0 \/ w[d] \notin High,
         NEW v, Rest(w, d, v)
  PROVE  Shifted(w, d, v)
<1>1. /\ w \in Seq(Byte) /\ v \in Seq(Byte) /\ Len(w) \in Nat /\ Len(v) \in Nat
      /\ d \in Nat /\ d <= Len(w) /\ Len(w) - d <= Len(v)
  BY DEF Regular, Rest
<1>2. ASSUME NEW j \in Nat
      PROVE  j \in Ends(v) <=> j > 0 /\ j + d \in Ends(w)
  <2>1. CASE j > Len(w) - d
    <3>1. j + d \notin Ends(w)
      BY <1>1, <2>1 DEF Ends
    <3>2. j \in 1..Len(v) => v[j] = Ack
      BY <1>1, <2>1 DEF Rest
    <3> QED BY <3>1, <3>2, BytesAre DEF Ends
  <2>2. CASE j > 0 /\ j <= Len(w) - d
    <3>1. v[j] = w[j + d] /\ j \in 1..Len(v) /\ j + d \in 1..Len(w)
      BY <1>1, <2>2 DEF Rest
    <3> QED BY <2>2, <3>1 DEF Ends
  <2>3. CASE j = 0
    BY <1>1, <2>3 DEF Ends
  <2> QED BY <1>1, <2>1, <2>2, <2>3
<1>3. ASSUME NEW j \in Ends(v)
      PROVE  CodeAt(v, j) = CodeAt(w, j + d)
  <2>1. j \in Nat /\ j > 0 /\ j + d \in 1..Len(w)
    BY <1>2, <1>1 DEF Ends
  <2>2. v[j] = w[j + d]
    BY <1>1, <2>1 DEF Rest
  <2>3. ASSUME NEW i \in Nat, i > 1, i <= j
        PROVE  Prev(v, i) = Prev(w, i + d)
    <3>1. i - 1 \in 1..Len(w)-d /\ i + d > 1 /\ i - 1 + d = i + d - 1
      BY <1>1, <2>1, <2>3
    <3>2. v[i - 1] = w[i + d - 1]
      BY <3>1 DEF Rest
    <3> QED BY <2>3, <3>1, <3>2 DEF Prev
  <2>4. ASSUME NEW i \in Nat, i <= 1
        PROVE  Prev(v, i) = Ack
    BY <2>4 DEF Prev
  <2>5. Prev(w, 1 + d) \notin High
    <3>1. CASE d = 0
      BY <3>1, BytesAre DEF Prev
    <3>2. CASE d # 0
      <4>1. 1 + d > 1 /\ 1 + d - 1 = d
        BY <1>1, <3>2
      <4> QED BY <3>2, <4>1 DEF Prev
    <3> QED BY <3>1, <3>2
  <2>6. CASE j = 1
    <3>1. Prev(v, j) = Ack /\ Prev(w, j + d) \notin High
      BY <2>4, <2>5, <2>6
    <3>2. CodeAt(v, j) = <<v[j]>>
      BY <3>1, BytesAre DEF CodeAt
    <3>3. CodeAt(w, j + d) = <<w[j + d]>>
      BY <3>1, BytesAre DEF CodeAt
    <3> QED BY <2>2, <3>2, <3>3
  <2>7. CASE j = 2
    <3>1. Prev(v, j) = Prev(w, j + d)
      BY <2>1, <2>3, <2>7
    <3>2. Prev(v, j - 1) # "e0" /\ Prev(w, j + d - 1) # "e0"
      <4>1. j - 1 = 1 /\ j + d - 1 = 1 + d
        BY <1>1, <2>7
      <4> QED BY <2>4, <2>5, <4>1, BytesAre
    <3>3. PICK k : k = j + d
      OBVIOUS
    <3>4. Prev(v, j) = Prev(w, k) /\ Prev(w, k - 1) # "e0" /\ v[j] = w[k]
      BY <1>1, <2>1, <2>2, <3>1, <3>2, <3>3
    <3>5. CodeAt(v, j) = CodeAt(w, k)
      BY <3>2, <3>4 DEF CodeAt
    <3> QED BY <3>3, <3>5
  <2>8. CASE j > 2
    <3>1. Prev(v, j) = Prev(w, j + d)
      BY <2>1, <2>3, <2>8
    <3>2. Prev(v, j - 1) = Prev(w, j + d - 1)
      <4>1. j - 1 \in Nat /\ j - 1 > 1 /\ j - 1 <= j /\ j - 1 + d = j + d - 1
        BY <1>1, <2>1, <2>8
      <4> QED BY <2>3, <4>1
    <3>3. PICK k : k = j + d
      OBVIOUS
    <3>4. Prev(v, j) = Prev(w, k) /\ Prev(v, j - 1) = Prev(w, k - 1) /\ v[j] = w[k]
      BY <1>1, <2>1, <2>2, <3>1, <3>2, <3>3
    <3>5. CodeAt(v, j) = CodeAt(w, k)
      BY <3>4 DEF CodeAt
    <3> QED BY <3>3, <3>5
  <2> QED BY <2>1, <2>6, <2>7, <2>8
<1> QED BY <1>2, <1>3 DEF Shifted

(* v is w with the code c behind it.                                       *)
Behind(w, c, v) ==
  /\ Regular(v) /\ Len(v) \in Ends(v) /\ CodeAt(v, Len(v)) = c
  /\ Ends(v) = Ends(w) \union {Len(v)} /\ Len(v) > Len(w)
  /\ \A j \in Ends(w) : CodeAt(v, j) = CodeAt(w, j)

(* A code typed behind a line ends there and leaves those before it alone.   *)
LEMMA CodeBehind ==
  ASSUME NEW w, Regular(w), NEW c \in Codes
  PROVE  Behind(w, c, w \o c)
<1>1. PICK b \in Final : \/ c = <<b>> /\ Len(c) = 1
                         \/ c = <<"e0", b>> /\ Len(c) = 2
                         \/ c = <<"f0", b>> /\ Len(c) = 2
                         \/ c = <<"e0", "f0", b>> /\ Len(c) = 3
  BY DEF Codes
<1>2. /\ c \in Seq(Byte) /\ Len(c) \in {1, 2, 3} /\ c[Len(c)] = b
      /\ Len(c) = 2 => c[1] = "e0" \/ c[1] = "f0"
      /\ Len(c) = 3 => c[1] = "e0" /\ c[2] = "f0"
  <2>0. PICK e, f : e = "e0" /\ f = "f0" /\ e \in Byte /\ f \in Byte /\ b \in Byte
    BY BytesAre
  <2>1. CASE c = <<b>>
    BY <2>0, <2>1
  <2>2. CASE c = <<"e0", b>>
    <3>1. c = <<e, b>>
      BY <2>0, <2>2
    <3>2. c \in Seq(Byte) /\ Len(c) = 2 /\ c[1] = e /\ c[2] = b
      BY <2>0, <3>1
    <3> QED BY <2>0, <3>2
  <2>3. CASE c = <<"f0", b>>
    <3>1. c = <<f, b>>
      BY <2>0, <2>3
    <3>2. c \in Seq(Byte) /\ Len(c) = 2 /\ c[1] = f /\ c[2] = b
      BY <2>0, <3>1
    <3> QED BY <2>0, <3>2
  <2>4. CASE c = <<"e0", "f0", b>>
    <3>1. c = <<e, f, b>>
      BY <2>0, <2>4
    <3>2. c \in Seq(Byte) /\ Len(c) = 3 /\ c[1] = e /\ c[2] = f /\ c[3] = b
      BY <2>0, <3>1
    <3> QED BY <2>0, <3>2
  <2> QED BY <1>1, <2>1, <2>2, <2>3, <2>4
<1>3. PICK v : v = w \o c
  OBVIOUS
<1>4. PICK m \in Nat : m = Len(w) /\ w \in Seq(Byte)
  BY DEF Regular
<1>5. PICK n \in {1, 2, 3} : n = Len(c)
  BY <1>2
<1>6. v \in Seq(Byte) /\ Len(v) = m + n
      /\ \A i \in 1..m+n : v[i] = IF i <= m THEN w[i] ELSE c[i - m]
  BY <1>2, <1>3, <1>4, <1>5, ConcatProperties
<1>7. \A i \in 1..m : v[i] = w[i]
  BY <1>6
<1>8. v[m + n] = b /\ m + n \in 1..m+n
      /\ (n = 2 => v[m + 1] = c[1]) /\ (n = 3 => v[m + 1] = "e0" /\ v[m + 2] = "f0")
  BY <1>2, <1>5, <1>6
<1>9. m > 0 => w[m] \notin High
  <2> SUFFICES ASSUME m > 0 PROVE w[m] \notin High
    OBVIOUS
  <2>1. m \in 1..Len(w) /\ w[m] \in Byte /\ ~(m < Len(w))
    BY <1>4
  <2> QED BY <2>1, BytesAre DEF Regular
<1>10. Regular(v)
  <2> SUFFICES ASSUME NEW j \in 1..m+n
               PROVE  /\ v[j] = "e0" => j < m + n /\ (v[j + 1] \in Final \/ v[j + 1] = "f0")
                      /\ v[j] = "f0" => j < m + n /\ v[j + 1] \in Final
    BY <1>6 DEF Regular
  <2>1. CASE j < m
    <3>1. v[j] = w[j] /\ v[j + 1] = w[j + 1] /\ j \in 1..Len(w)
      BY <1>4, <1>7, <2>1
    <3>2. /\ w[j] = "e0" => w[j + 1] \in Final \/ w[j + 1] = "f0"
          /\ w[j] = "f0" => w[j + 1] \in Final
      BY <3>1 DEF Regular
    <3> QED BY <1>5, <2>1, <3>1, <3>2
  <2>2. CASE j = m
    BY <1>7, <1>9, <2>2, BytesAre
  <2>3. CASE j > m
    <3>1. j = m + 1 \/ j = m + 2 \/ j = m + 3
      <4>1. j <= m + n /\ j \in Int
        OBVIOUS
      <4>2. CASE n = 1
        BY <2>3, <4>1, <4>2
      <4>3. CASE n = 2
        BY <2>3, <4>1, <4>3
      <4>4. CASE n = 3
        BY <2>3, <4>1, <4>4
      <4> QED BY <4>2, <4>3, <4>4
    <3> QED BY <1>2, <1>5, <1>8, <2>3, <3>1, BytesAre
  <2> QED BY <1>4, <2>1, <2>2, <2>3
<1>11. Ends(v) = Ends(w) \union {m + n}
  <2>1. ASSUME NEW j \in 1..m PROVE j \in Ends(v) <=> j \in Ends(w)
    BY <1>4, <1>5, <1>6, <1>7, <2>1 DEF Ends
  <2>2. ASSUME NEW j \in m+1..m+n PROVE j \in Ends(v) <=> j = m + n
    <3>1. CASE j = m + n
      BY <1>6, <1>8, <3>1 DEF Ends
    <3>2. CASE j # m + n
      <4>1. n # 1 /\ (n = 2 => j = m + 1) /\ (n = 3 => j = m + 1 \/ j = m + 2)
        BY <1>5, <2>2, <3>2
      <4>2. v[j] = "e0" \/ v[j] = "f0"
        BY <1>2, <1>5, <1>8, <4>1
      <4> QED BY <3>2, <4>2, BytesAre DEF Ends
    <3> QED BY <3>1, <3>2
  <2>3. Ends(v) \subseteq 1..m+n /\ Ends(w) \subseteq 1..m
    BY <1>4, <1>6 DEF Ends
  <2>4. \A j \in 1..m+n : j \in 1..m \/ j \in m+1..m+n
    BY <1>5
  <2>5. m + n \in 1..m+n /\ m + n \in m+1..m+n
    BY <1>5
  <2>6. \A j : j \in Ends(v) <=> j \in Ends(w) \/ j = m + n
    BY <2>1, <2>2, <2>3, <2>4, <2>5
  <2> QED BY <2>6
<1>12. ASSUME NEW j \in Ends(w) PROVE CodeAt(v, j) = CodeAt(w, j)
  <2>1. j \in 1..m /\ v[j] = w[j]
    BY <1>4, <1>7 DEF Ends
  <2>2. \A i \in Int : i <= j => Prev(v, i) = Prev(w, i)
    BY <1>7, <2>1 DEF Prev
  <2>3. j \in Int /\ j - 1 \in Int /\ j - 1 <= j
    BY <2>1
  <2>4. Prev(v, j) = Prev(w, j) /\ Prev(v, j - 1) = Prev(w, j - 1)
    BY <2>2, <2>3
  <2> QED BY <2>1, <2>4 DEF CodeAt
<1>13. CodeAt(v, m + n) = c
  <2>1. Prev(v, m + 1) \notin High
    <3>1. CASE m = 0
      BY <3>1, BytesAre DEF Prev
    <3>2. CASE m > 0
      <4>1. m + 1 > 1 /\ m + 1 - 1 = m /\ v[m] = w[m]
        BY <1>7, <3>2
      <4> QED BY <1>9, <3>2, <4>1 DEF Prev
    <3> QED BY <3>1, <3>2
  <2>2. CASE n = 1
    <3>1. CodeAt(v, m + 1) = <<v[m + 1]>>
      BY <2>1, BytesAre DEF CodeAt
    <3>2. c = <<b>>
      BY <1>1, <1>5, <2>2
    <3> QED BY <1>8, <2>2, <3>1, <3>2
  <2>3. CASE n = 2
    <3>1. Prev(v, m + 2) = c[1]
      <4>1. m + 2 > 1 /\ m + 2 - 1 = m + 1
        OBVIOUS
      <4> QED BY <1>8, <2>3, <4>1 DEF Prev
    <3>2. m + 2 - 1 = m + 1
      OBVIOUS
    <3>3. c = <<"e0", b>> \/ c = <<"f0", b>>
      BY <1>1, <1>5, <2>3
    <3>4. Prev(v, m + 1) # "e0"
      BY <2>1, BytesAre
    <3>5. CASE c = <<"e0", b>>
      <4>1. Prev(v, m + 2) = "e0"
        BY <3>1, <3>5
      <4> QED BY <1>8, <2>3, <3>5, <4>1, BytesAre DEF CodeAt
    <3>6. CASE c = <<"f0", b>>
      <4>1. Prev(v, m + 2) = "f0"
        BY <3>1, <3>6
      <4> QED BY <1>8, <2>3, <3>2, <3>4, <3>6, <4>1, BytesAre DEF CodeAt
    <3> QED BY <3>3, <3>5, <3>6
  <2>4. CASE n = 3
    <3>1. Prev(v, m + 3) = "f0" /\ Prev(v, m + 2) = "e0"
      <4>1. m + 3 > 1 /\ m + 3 - 1 = m + 2 /\ m + 2 > 1 /\ m + 2 - 1 = m + 1
        OBVIOUS
      <4> QED BY <1>8, <2>4, <4>1 DEF Prev
    <3>2. m + 3 - 1 = m + 2
      OBVIOUS
    <3>3. c = <<"e0", "f0", b>>
      BY <1>1, <1>5, <2>4
    <3> QED BY <1>8, <2>4, <3>1, <3>2, <3>3 DEF CodeAt
  <2> QED BY <1>5, <2>2, <2>3, <2>4
<1>14. Behind(w, c, v)
  BY <1>4, <1>5, <1>6, <1>10, <1>11, <1>12, <1>13 DEF Behind
<1> QED BY <1>3, <1>14

-----------------------------------------------------------------------------
(***************************************************************************)
(* A modifier m and its keys On.  The last code on the line that is about  *)
(* m decides what m is going to be; with none on the line it is what it is.*)
(***************************************************************************)
Off(On) == {Released(k) : k \in On}

Last(w, On, j) ==
  /\ j \in Ends(w) /\ CodeAt(w, j) \in On
  /\ \A i \in Ends(w) : i > j => CodeAt(w, i) \notin On \union Off(On)

Silent(w, On) == \A j \in Ends(w) : CodeAt(w, j) \notin On \union Off(On)

Tied(w, mods, dn, m, On) ==
  /\ \A j : Last(w, On, j) => CodeAt(w, j) \in dn
  /\ Silent(w, On) /\ m \in mods => On \intersect dn # {}

(* A release is told from a press, and from another key's.                 *)
Told(On) ==
  \A k \in Key : /\ Released(k) \notin On
                 /\ Released(k) \in Off(On) => k \in On

(* What a code does to m.                                                  *)
Sets(mods, code, m, On, mods2) ==
  m \in mods2 => code \in On \/ (m \in mods /\ code \notin Off(On))

(* A key that is pressed is held and its code is the last.                   *)
LEMMA PressTied ==
  ASSUME NEW w, NEW v, NEW k, Behind(w, k, v), NEW mods, NEW dn, NEW m, NEW On,
         Tied(w, mods, dn, m, On)
  PROVE  Tied(v, mods, dn \union {k}, m, On)
<1>1. ASSUME NEW j, Last(v, On, j)
      PROVE  CodeAt(v, j) \in dn \union {k}
  <2>1. CASE j = Len(v)
    BY <2>1 DEF Behind
  <2>2. CASE j # Len(v)
    <3>1. Last(w, On, j) /\ CodeAt(v, j) = CodeAt(w, j)
      BY <1>1, <2>2 DEF Last, Behind
    <3> QED BY <3>1 DEF Tied
  <2> QED BY <2>1, <2>2
<1>2. ASSUME Silent(v, On), m \in mods
      PROVE  On \intersect (dn \union {k}) # {}
  <2>1. Silent(w, On)
    BY <1>2 DEF Silent, Behind
  <2> QED BY <1>2, <2>1 DEF Tied
<1> QED BY <1>1, <1>2 DEF Tied

(* The code of a release makes a modifier go out with its key.               *)
LEMMA ReleaseTied ==
  ASSUME NEW w, NEW v, NEW k \in Key, Behind(w, Released(k), v), NEW mods, NEW dn, NEW m, NEW On,
         Told(On), Tied(w, mods, dn, m, On), Ends(w) \subseteq 1..Len(w), Len(w) \in Nat,
         Len(v) \in Nat
  PROVE  Tied(v, mods, dn \ {k}, m, On)
<1>1. Released(k) \notin On /\ (Released(k) \in Off(On) => k \in On)
  BY DEF Told
<1>2. Len(v) \in Ends(v) /\ CodeAt(v, Len(v)) = Released(k) /\ Len(v) > Len(w)
  BY DEF Behind
<1>3. CASE k \in On
  <2>1. Released(k) \in Off(On)
    BY <1>3 DEF Off
  <2>2. ~Silent(v, On)
    BY <1>2, <2>1 DEF Silent
  <2>3. ASSUME NEW j, Last(v, On, j)
        PROVE  FALSE
    <3>1. j # Len(v)
      BY <1>1, <1>2, <2>3 DEF Last
    <3>2. j \in Ends(w)
      BY <2>3, <3>1 DEF Last, Behind
    <3>3. Len(v) > j
      BY <1>2, <3>2
    <3> QED BY <1>2, <2>1, <2>3, <3>3 DEF Last
  <2> QED BY <2>2, <2>3 DEF Tied
<1>4. CASE k \notin On
  <2>1. ASSUME NEW j, Last(v, On, j)
        PROVE  CodeAt(v, j) \in dn \ {k}
    <3>1. j # Len(v)
      BY <1>1, <1>2, <2>1 DEF Last
    <3>2. Last(w, On, j) /\ CodeAt(v, j) = CodeAt(w, j) /\ CodeAt(w, j) \in On
      BY <2>1, <3>1 DEF Last, Behind
    <3> QED BY <1>4, <3>2 DEF Tied
  <2>2. ASSUME Silent(v, On), m \in mods
        PROVE  On \intersect (dn \ {k}) # {}
    <3>1. Silent(w, On)
      BY <2>2 DEF Silent, Behind
    <3>2. On \intersect dn # {}
      BY <2>2, <3>1 DEF Tied
    <3> QED BY <1>4, <3>2
  <2> QED BY <2>1, <2>2 DEF Tied
<1> QED BY <1>3, <1>4

(* No code about m is taken from the line.                                 *)
LEMMA PassedTied ==
  ASSUME NEW w, NEW v, NEW d \in Nat, Shifted(w, d, v), NEW mods, NEW dn, NEW m, NEW On,
         NEW mods2, Tied(w, mods, dn, m, On), m \in mods2 => m \in mods,
         \A j \in Ends(w) : j > d, \A j \in Ends(v) : j \in Nat, \A j \in Ends(w) : j \in Nat
  PROVE  Tied(v, mods2, dn, m, On)
<1>1. \A j \in Ends(w) : j - d \in Ends(v) /\ CodeAt(v, j - d) = CodeAt(w, j)
  <2> SUFFICES ASSUME NEW j \in Ends(w)
               PROVE  j - d \in Ends(v) /\ CodeAt(v, j - d) = CodeAt(w, j)
    OBVIOUS
  <2>1. PICK i \in Nat : i = j - d /\ i > 0 /\ i + d = j
    OBVIOUS
  <2>2. i \in Ends(v)
    BY <2>1 DEF Shifted
  <2>3. CodeAt(v, i) = CodeAt(w, i + d)
    BY <2>2 DEF Shifted
  <2> QED BY <2>1, <2>2, <2>3
<1>2. \A j \in Ends(v) : j + d \in Ends(w) /\ CodeAt(v, j) = CodeAt(w, j + d)
  BY DEF Shifted
<1>3. ASSUME NEW j, Last(v, On, j)
      PROVE  CodeAt(v, j) \in dn
  <2>1. j \in Ends(v) /\ j \in Nat /\ CodeAt(v, j) \in On
    BY <1>3 DEF Last
  <2>2. j + d \in Ends(w) /\ CodeAt(w, j + d) = CodeAt(v, j)
    BY <1>2, <2>1
  <2>3. ASSUME NEW i \in Ends(w), i > j + d
        PROVE  CodeAt(w, i) \notin On \union Off(On)
    <3>1. i - d \in Ends(v) /\ CodeAt(v, i - d) = CodeAt(w, i) /\ i \in Nat
      BY <1>1
    <3>2. i - d > j
      BY <2>1, <2>3, <3>1
    <3> QED BY <1>3, <3>1, <3>2 DEF Last
  <2>4. Last(w, On, j + d)
    BY <2>1, <2>2, <2>3 DEF Last
  <2> QED BY <2>2, <2>4 DEF Tied
<1>4. ASSUME Silent(v, On), m \in mods2
      PROVE  On \intersect dn # {}
  <2>1. Silent(w, On)
    BY <1>1, <1>4 DEF Silent
  <2> QED BY <1>4, <2>1 DEF Tied
<1> QED BY <1>3, <1>4 DEF Tied

(* One code is taken, the first of the line.                               *)
LEMMA TakenTied ==
  ASSUME NEW w, NEW v, NEW d \in Nat, Shifted(w, d, v), NEW mods, NEW dn, NEW m, NEW On,
         NEW mods2, Tied(w, mods, dn, m, On), Sets(mods, CodeAt(w, d), m, On, mods2),
         d \in Ends(w), \A j \in Ends(w) : j >= d,
         \A j \in Ends(v) : j \in Nat, \A j \in Ends(w) : j \in Nat
  PROVE  Tied(v, mods2, dn, m, On)
<1>1. \A j \in Ends(w) : j # d => j - d \in Ends(v) /\ CodeAt(v, j - d) = CodeAt(w, j)
  <2> SUFFICES ASSUME NEW j \in Ends(w), j # d
               PROVE  j - d \in Ends(v) /\ CodeAt(v, j - d) = CodeAt(w, j)
    OBVIOUS
  <2>1. PICK i \in Nat : i = j - d /\ i > 0 /\ i + d = j
    OBVIOUS
  <2>2. i \in Ends(v)
    BY <2>1 DEF Shifted
  <2>3. CodeAt(v, i) = CodeAt(w, i + d)
    BY <2>2 DEF Shifted
  <2> QED BY <2>1, <2>2, <2>3
<1>2. \A j \in Ends(v) : j + d \in Ends(w) /\ CodeAt(v, j) = CodeAt(w, j + d)
  BY DEF Shifted
<1>3. ASSUME NEW j, Last(v, On, j)
      PROVE  CodeAt(v, j) \in dn
  <2>1. j \in Ends(v) /\ j \in Nat /\ CodeAt(v, j) \in On /\ j > 0
    BY <1>3 DEF Last, Shifted
  <2>2. j + d \in Ends(w) /\ CodeAt(w, j + d) = CodeAt(v, j)
    BY <1>2, <2>1
  <2>3. ASSUME NEW i \in Ends(w), i > j + d
        PROVE  CodeAt(w, i) \notin On \union Off(On)
    <3>1. i \in Nat /\ i # d
      BY <2>1, <2>3
    <3>2. i - d \in Ends(v) /\ CodeAt(v, i - d) = CodeAt(w, i)
      BY <1>1, <3>1
    <3>3. i - d > j
      BY <2>1, <2>3, <3>1
    <3> QED BY <1>3, <3>2, <3>3 DEF Last
  <2>4. Last(w, On, j + d)
    BY <2>1, <2>2, <2>3 DEF Last
  <2> QED BY <2>2, <2>4 DEF Tied
<1>4. ASSUME Silent(v, On), m \in mods2
      PROVE  On \intersect dn # {}
  <2>1. \A i \in Ends(w) : i > d => CodeAt(w, i) \notin On \union Off(On)
    BY <1>1, <1>4 DEF Silent
  <2>2. CASE CodeAt(w, d) \in On
    <3>1. Last(w, On, d)
      BY <2>1, <2>2 DEF Last
    <3> QED BY <2>2, <3>1 DEF Tied
  <2>3. CASE CodeAt(w, d) \notin On
    <3>1. m \in mods /\ CodeAt(w, d) \notin Off(On)
      BY <1>4, <2>3 DEF Sets
    <3>2. Silent(w, On)
      <4>1. \A i \in Ends(w) : i = d \/ i > d
        OBVIOUS
      <4> QED BY <2>1, <2>3, <3>1, <4>1 DEF Silent
    <3> QED BY <3>1, <3>2 DEF Tied
  <2> QED BY <2>2, <2>3
<1> QED BY <1>3, <1>4 DEF Tied

-----------------------------------------------------------------------------
(***************************************************************************)
(* The line of the keyboard: the prefixes in key_buffer and the bytes that *)
(* have yet to be delivered.                                               *)
(***************************************************************************)
Line == key_buffer \o wire

(* The handler has kept the prefixes of a code that is to come.            *)
Waiting == HandlerTypes /\ key_buffer \in Pending /\ Regular(Line)

(* Which byte is where on the line.                                         *)
LEMMA LineIs ==
  ASSUME HandlerTypes
  PROVE  /\ Line \in Seq(Byte) /\ Len(Line) = Len(key_buffer) + Len(wire)
         /\ Len(key_buffer) \in Nat /\ Len(wire) \in Nat
         /\ \A i \in 1..Len(key_buffer) : Line[i] = key_buffer[i]
         /\ \A i \in 1..Len(wire) : Line[Len(key_buffer) + i] = wire[i]
<1>1. wire \in Seq(Byte) /\ key_buffer \in Seq(Byte)
  BY DEF HandlerTypes
<1>2. PICK p \in Nat, m \in Nat : p = Len(key_buffer) /\ m = Len(wire)
  BY <1>1
<1>3. PICK w : w = key_buffer \o wire
  OBVIOUS
<1>4. w \in Seq(Byte) /\ Len(w) = p + m
      /\ \A i \in 1..p+m : w[i] = IF i <= p THEN key_buffer[i] ELSE wire[i - p]
  BY <1>1, <1>2, <1>3, ConcatProperties
<1>5. \A i \in 1..p : w[i] = key_buffer[i]
  BY <1>4
<1>6. \A i \in 1..m : w[p + i] = wire[i]
  <2> SUFFICES ASSUME NEW i \in 1..m PROVE w[p + i] = wire[i]
    OBVIOUS
  <2>1. p + i \in 1..p+m /\ ~(p + i <= p) /\ p + i - p = i
    OBVIOUS
  <2> QED BY <1>4, <2>1
<1> QED BY <1>2, <1>3, <1>4, <1>5, <1>6 DEF Line

(* Short sequences, as key_buffer grows.                                    *)
LEMMA Appended ==
  ASSUME NEW x, NEW y, NEW z
  PROVE  /\ Append(<<>>, z) = <<z>> /\ Append(<<x>>, z) = <<x, z>>
         /\ Append(<<x, y>>, z) = <<x, y, z>>
<1>1. PICK S : S = {x, y, z}
  OBVIOUS
<1>2. PICK a, b : a = <<x>> /\ b = <<x, y>>
  OBVIOUS
<1>3. a \in Seq(S) /\ b \in Seq(S) /\ Len(a) = 1 /\ Len(b) = 2 /\ z \in S
  BY <1>1, <1>2
<1>4. Append(a, z) = <<x, z>>
  <2>1. PICK c : c = Append(a, z)
    OBVIOUS
  <2>2. c \in Seq(S) /\ Len(c) = 2
        /\ c[1] = x /\ c[2] = z
    BY <1>2, <1>3, <2>1, AppendProperties
  <2>3. c = <<x, z>>
    BY <2>2
  <2> QED BY <2>1, <2>3
<1>5. Append(b, z) = <<x, y, z>>
  <2>1. PICK c : c = Append(b, z)
    OBVIOUS
  <2>2. c \in Seq(S) /\ Len(c) = 3
        /\ c[1] = x /\ c[2] = y /\ c[3] = z
    BY <1>2, <1>3, <2>1, AppendProperties
  <2>3. c = <<x, y, z>>
    BY <2>2
  <2> QED BY <2>1, <2>3
<1> QED BY <1>2, <1>4, <1>5

(* A prefix is next to what completes it: no acknowledge comes between.    *)
LEMMA Front ==
  ASSUME Waiting, NEW n, NEW answers, Takes(n, answers)
  PROVE  \/ key_buffer = <<>>
         \/ /\ n = 1 /\ wire[1] # Ack
            /\ \/ key_buffer = <<"e0">> /\ wire[1] = "f0"
               \/ key_buffer # <<>> /\ wire[1] \in Final
<1>1. HandlerTypes /\ n \in 1..Len(wire) /\ (\A i \in 1..n-1 : wire[i] = Ack) /\ Len(wire) \in Nat
  BY DEF Waiting, Takes, HandlerTypes
<1>2. CASE key_buffer # <<>>
  <2>1. PICK p \in {1, 2} : Len(key_buffer) = p
    BY <1>2 DEF Waiting, Pending
  <2>2. p \in 1..Len(Line) /\ Line[p] = key_buffer[p] /\ Line[p + 1] = wire[1]
    <3>1. p \in 1..p /\ 1 \in 1..Len(wire)
      BY <1>1, <2>1
    <3> QED BY <1>1, <2>1, <3>1, LineIs
  <2>3. /\ key_buffer[p] = "e0" => wire[1] \in Final \/ wire[1] = "f0"
        /\ key_buffer[p] = "f0" => wire[1] \in Final
    BY <2>2 DEF Waiting, Regular
  <2>4. \/ key_buffer = <<"e0">> /\ key_buffer[p] = "e0"
        \/ key_buffer[p] = "f0"
    BY <1>2, <2>1 DEF Waiting, Pending
  <2>5. wire[1] # Ack
    BY <2>3, <2>4, BytesAre DEF Ack
  <2>6. n = 1
    BY <1>1, <2>5
  <2> QED BY <1>2, <2>3, <2>4, <2>5, <2>6
<1> QED BY <1>2

(* The bytes of the next line, when the handler keeps kb.                  *)
LEMMA NextLine ==
  ASSUME Waiting, NEW n, NEW answers, Takes(n, answers), key_buffer' \in Seq(Byte)
  PROVE  /\ wire' \in Seq(Byte) /\ Line' \in Seq(Byte)
         /\ Len(Line') = Len(key_buffer') + (Len(wire) - n) + Len(answers)
         /\ \A i \in 1..Len(key_buffer') : Line'[i] = key_buffer'[i]
         /\ \A i \in 1..Len(wire)-n : Line'[Len(key_buffer') + i] = wire[n + i]
         /\ \A i \in Len(wire)-n+1..Len(wire)-n+Len(answers) : Line'[Len(key_buffer') + i] = Ack
<1>1. /\ wire \in Seq(Byte) /\ Len(wire) \in Nat /\ n \in 1..Len(wire)
      /\ answers \in Seq({Ack}) /\ wire' = SubSeq(wire, n + 1, Len(wire)) \o answers
  BY DEF Waiting, Takes, HandlerTypes
<1>2. PICK m \in Nat : m = Len(wire)
  BY <1>1
<1>3. PICK a \in Nat : a = Len(answers)
  BY <1>1
<1>4. PICK s : s = SubSeq(wire, n + 1, m)
  OBVIOUS
<1>5. s \in Seq(Byte) /\ Len(s) = m - n /\ \A i \in 1..m-n : s[i] = wire[n + i]
  <2>1. n + 1 \in 1..m+1 /\ n \in Nat /\ n <= m
    BY <1>1, <1>2
  <2>2. /\ s \in Seq(Byte) /\ Len(s) = m - (n + 1) + 1
        /\ \A i \in 1..m-(n+1)+1 : s[i] = wire[n + 1 + i - 1]
    <3>1. \A i \in n+1..m : wire[i] \in Byte
      BY <1>1, <1>2, <2>1
    <3>2. PICK k \in Int : k = n + 1
      BY <2>1
    <3>3. m \in Int /\ k <= m + 1 /\ \A i \in k..m : wire[i] \in Byte
      BY <2>1, <3>1, <3>2
    <3> QED BY <1>4, <3>2, <3>3, SubSeqProperties
  <2>3. ASSUME NEW i \in 1..m-n PROVE s[i] = wire[n + i]
    BY <2>1, <2>2
  <2> QED BY <2>1, <2>2, <2>3
<1>6. answers \in Seq(Byte) /\ \A i \in 1..a : answers[i] = Ack
  <2>1. Ack \in Byte
    BY BytesAre
  <2> QED BY <1>1, <1>3, <2>1
<1>7. PICK r \in Nat : r = m - n
  <2>1. n \in 1..m
    BY <1>1, <1>2
  <2>2. m - n \in Nat
    BY <2>1
  <2> QED BY <2>2
<1>8. PICK u : u = s \o answers
  OBVIOUS
<1>9. u \in Seq(Byte) /\ Len(u) = r + a
      /\ \A i \in 1..r+a : u[i] = IF i <= r THEN s[i] ELSE answers[i - r]
  <2>1. s \in Seq(Byte) /\ answers \in Seq(Byte) /\ Len(s) = r /\ Len(answers) = a
    BY <1>3, <1>5, <1>6, <1>7
  <2> QED BY <1>8, <2>1, ConcatProperties
<1>10. PICK kb \in Seq(Byte) : kb = key_buffer'
  OBVIOUS
<1>11. PICK p \in Nat : p = Len(kb)
  OBVIOUS
<1>12. PICK v : v = kb \o u
  OBVIOUS
<1>13. v \in Seq(Byte) /\ Len(v) = p + (r + a)
       /\ \A i \in 1..p+(r+a) : v[i] = IF i <= p THEN kb[i] ELSE u[i - p]
  <2>1. PICK q \in Nat : q = r + a
    OBVIOUS
  <2>2. u \in Seq(Byte) /\ kb \in Seq(Byte) /\ Len(u) = q /\ Len(kb) = p
    BY <1>9, <1>11, <2>1
  <2>3. v \in Seq(Byte) /\ Len(v) = p + q
        /\ \A i \in 1..p+q : v[i] = IF i <= p THEN kb[i] ELSE u[i - p]
    BY <1>12, <2>2, ConcatProperties
  <2> QED BY <2>1, <2>3
<1>14. Line' = v /\ wire' = u
  BY <1>1, <1>2, <1>4, <1>8, <1>10, <1>12 DEF Line
<1>15. \A i \in 1..p : v[i] = kb[i]
  BY <1>13
<1>16. ASSUME NEW i \in 1..r PROVE v[p + i] = wire[n + i]
  <2>1. p + i \in 1..p+(r+a) /\ ~(p + i <= p) /\ p + i - p = i /\ i \in 1..r+a /\ i <= r
    OBVIOUS
  <2>2. v[p + i] = u[i]
    BY <1>13, <2>1
  <2>3. u[i] = s[i]
    BY <1>9, <2>1
  <2> QED BY <1>5, <1>7, <2>2, <2>3
<1>17. ASSUME NEW i \in r+1..r+a PROVE v[p + i] = Ack
  <2>1. p + i \in 1..p+(r+a) /\ ~(p + i <= p) /\ p + i - p = i /\ i \in 1..r+a /\ ~(i <= r)
        /\ i - r \in 1..a
    OBVIOUS
  <2>2. v[p + i] = u[i]
    BY <1>13, <2>1
  <2>3. u[i] = answers[i - r]
    BY <1>9, <2>1
  <2> QED BY <1>6, <2>1, <2>2, <2>3
<1>18. Len(Line') = p + r + a
  BY <1>13, <1>14
<1> QED BY <1>2, <1>3, <1>7, <1>9, <1>10, <1>11, <1>13, <1>14, <1>15, <1>16, <1>17, <1>18

(* What is taken is at the front of the line; nothing ends before it.      *)
LEMMA Taken ==
  ASSUME Waiting, NEW n, NEW answers, Takes(n, answers)
  PROVE  /\ n \in 1..Len(wire) /\ Line[Len(key_buffer) + n] = wire[n]
         /\ Len(key_buffer) + n \in 1..Len(Line)
         /\ \A j \in 1..Len(Line) : j < Len(key_buffer) + n => Line[j] \notin Final
         /\ \A j \in Ends(Line) : j >= Len(key_buffer) + n
<1>1. HandlerTypes /\ n \in 1..Len(wire) /\ (\A i \in 1..n-1 : wire[i] = Ack) /\ Len(wire) \in Nat
  BY DEF Waiting, Takes, HandlerTypes
<1>2. PICK p \in Nat, m \in Nat : p = Len(key_buffer) /\ m = Len(wire)
  BY <1>1, LineIs
<1>3. \A i \in 1..p : key_buffer[i] \notin Final
  BY <1>2, BytesAre DEF Waiting, Pending
<1>4. /\ Len(Line) = p + m /\ \A i \in 1..p : Line[i] = key_buffer[i]
      /\ \A i \in 1..m : Line[p + i] = wire[i]
  BY <1>1, <1>2, LineIs
<1>5. ASSUME NEW j \in 1..p+m, j < p + n
      PROVE  Line[j] \notin Final
  <2>1. CASE j <= p
    <3>1. j \in 1..p
      BY <2>1
    <3> QED BY <1>3, <1>4, <3>1
  <2>2. CASE j > p
    <3>1. PICK i \in 1..m : i = j - p
      BY <2>2
    <3>2. p + i = j /\ i \in 1..n-1
      BY <1>1, <1>5, <3>1
    <3>3. Line[j] = Ack
      BY <1>1, <1>4, <3>1, <3>2
    <3> QED BY <3>3, BytesAre
  <2> QED BY <2>1, <2>2
<1>6. n \in 1..m /\ p + n \in 1..p+m
  BY <1>1, <1>2
<1>7. \A j \in Ends(Line) : j >= p + n
  BY <1>4, <1>5, <1>6 DEF Ends
<1> QED BY <1>1, <1>2, <1>4, <1>5, <1>6, <1>7

(* Keeping a prefix, the handler drops the acknowledges in front of it.    *)
LEMMA PrefixLine ==
  ASSUME Waiting, NEW n, NEW answers, Takes(n, answers), Prefixes(n)
  PROVE  /\ Waiting' /\ n - 1 \in Nat /\ Shifted(Line, n - 1, Line')
         /\ \A j \in Ends(Line) : j > n - 1
<1>1. /\ HandlerTypes /\ n \in 1..Len(wire) /\ (\A i \in 1..n-1 : wire[i] = Ack)
      /\ Len(wire) \in Nat /\ wire \in Seq(Byte) /\ answers \in Seq({Ack})
  BY DEF Waiting, Takes, HandlerTypes
<1>2. wire[n] \in {"e0", "f0"} /\ wire[n] \in Byte
  BY <1>1, BytesAre DEF Prefixes
<1>3. key_buffer' = Append(key_buffer, wire[n])
  BY DEF Prefixes
<1>4. key_buffer' \in Pending
  <2>1. CASE key_buffer = <<>>
    <3>1. key_buffer' = <<wire[n]>>
      BY <1>3, <2>1, Appended
    <3> QED BY <1>2, <3>1 DEF Pending
  <2>2. CASE key_buffer # <<>>
    <3>1. wire[n] \notin Final
      BY <1>2, BytesAre
    <3>2. key_buffer = <<"e0">> /\ wire[n] = "f0"
      BY <2>2, <3>1, Front
    <3>3. key_buffer' = <<"e0", "f0">>
      BY <1>3, <3>2, Appended
    <3> QED BY <3>3 DEF Pending
  <2> QED BY <2>1, <2>2
<1>5. key_buffer \in Seq(Byte)
  BY <1>1 DEF HandlerTypes
<1>6. PICK p \in Nat, m \in Nat, a \in Nat : p = Len(key_buffer) /\ m = Len(wire) /\ a = Len(answers)
  BY <1>1, <1>5
<1>7. /\ key_buffer' \in Seq(Byte) /\ Len(key_buffer') = p + 1
      /\ key_buffer'[p + 1] = wire[n] /\ \A i \in 1..p : key_buffer'[i] = key_buffer[i]
  <2>1. PICK kb : kb = Append(key_buffer, wire[n])
    OBVIOUS
  <2>2. kb \in Seq(Byte) /\ Len(kb) = p + 1 /\ kb[p + 1] = wire[n]
        /\ \A i \in 1..p : kb[i] = key_buffer[i]
    BY <1>2, <1>5, <1>6, <2>1, AppendProperties
  <2> QED BY <1>3, <2>1, <2>2
<1>8. /\ wire' \in Seq(Byte) /\ Line' \in Seq(Byte) /\ Len(Line') = p + 1 + (m - n) + a
      /\ \A i \in 1..p+1 : Line'[i] = key_buffer'[i]
      /\ \A i \in 1..m-n : Line'[p + 1 + i] = wire[n + i]
      /\ \A i \in m-n+1..m-n+a : Line'[p + 1 + i] = Ack
  <2>1. Len(key_buffer') = p + 1
    BY <1>7
  <2> QED BY <1>6, <1>7, <2>1, NextLine
<1>9. /\ Len(Line) = p + m /\ \A i \in 1..p : Line[i] = key_buffer[i]
      /\ \A i \in 1..m : Line[p + i] = wire[i]
  BY <1>1, <1>6, LineIs
<1>10. p = 0 \/ n = 1
  <2>1. CASE key_buffer = <<>>
    BY <1>6, <2>1
  <2> QED BY <2>1, Front
<1>11. n \in 1..m /\ m - n \in Nat /\ n \in Nat
  BY <1>1, <1>6
<1>12. \A j \in 1..p+m-(n-1) : Line'[j] = Line[j + (n - 1)]
  <2> SUFFICES ASSUME NEW j \in 1..p+m-(n-1) PROVE Line'[j] = Line[j + (n - 1)]
    OBVIOUS
  <2>1. CASE j <= p
    <3>1. j \in 1..p /\ j \in 1..p+1 /\ j + (n - 1) = j
      BY <1>10, <2>1
    <3> QED BY <1>7, <1>8, <1>9, <3>1
  <2>2. CASE j = p + 1
    <3>1. j \in 1..p+1 /\ j + (n - 1) = p + n
      BY <1>11, <2>2
    <3> QED BY <1>7, <1>8, <1>9, <1>11, <2>2, <3>1
  <2>3. CASE j > p + 1
    <3>1. PICK i \in 1..m-n : i = j - (p + 1)
      BY <1>11, <2>3
    <3>2. p + 1 + i = j /\ n + i \in 1..m /\ j + (n - 1) = p + (n + i)
      BY <1>11, <3>1
    <3>3. Line'[j] = wire[n + i]
      BY <1>8, <3>1, <3>2
    <3>4. Line[p + (n + i)] = wire[n + i]
      BY <1>9, <3>2
    <3> QED BY <3>2, <3>3, <3>4
  <2> QED BY <2>1, <2>2, <2>3
<1>13. \A j \in p+m-(n-1)+1..p+1+(m-n)+a : Line'[j] = Ack
  <2> SUFFICES ASSUME NEW j \in p+m-(n-1)+1..p+1+(m-n)+a PROVE Line'[j] = Ack
    OBVIOUS
  <2>1. PICK i \in m-n+1..m-n+a : i = j - (p + 1)
    BY <1>11
  <2>2. p + 1 + i = j
    BY <2>1
  <2> QED BY <1>8, <2>1, <2>2
<1>14. Rest(Line, n - 1, Line')
  BY <1>8, <1>9, <1>11, <1>12, <1>13 DEF Rest
<1>15. n - 1 \in 0..Len(Line) /\ n - 1 \in Nat
  BY <1>9, <1>11
<1>16. Regular(Line)
  BY DEF Waiting
<1>17. n - 1 = 0 \/ Line[n - 1] \notin High
  <2>1. CASE n # 1
    <3>1. p + (n - 1) = n - 1 /\ n - 1 \in 1..m /\ n - 1 \in 1..n-1
      BY <1>10, <1>11, <2>1
    <3>2. Line[n - 1] = wire[n - 1]
      BY <1>9, <3>1
    <3> QED BY <1>1, <3>1, <3>2, BytesAre
  <2> QED BY <2>1
<1>18. Regular(Line') /\ Shifted(Line, n - 1, Line')
  <2>1. PICK d \in 0..Len(Line) : d = n - 1
    BY <1>15
  <2> QED BY <1>14, <1>16, <1>17, <2>1, RestRegular, RestShifted
<1>19. HandlerTypes'
  BY <1>7, <1>8 DEF Waiting, HandlerTypes, Takes, Prefixes, LeavesRing
<1>20. \A j \in Ends(Line) : j > n - 1
  <2> SUFFICES ASSUME NEW j \in Ends(Line) PROVE j > n - 1
    OBVIOUS
  <2>1. j >= p + n /\ j \in Nat
    BY <1>6, Taken DEF Ends
  <2> QED BY <1>11, <2>1
<1> QED BY <1>4, <1>15, <1>18, <1>19, <1>20 DEF Waiting

(* Completing a code, it drops the code, or the acknowledges.              *)
LEMMA CompleteLine ==
  ASSUME Waiting, NEW n, NEW answers, Takes(n, answers), Completes(n)
  PROVE  /\ Waiting' /\ Len(key_buffer) + n \in Nat
         /\ Shifted(Line, Len(key_buffer) + n, Line')
         /\ \/ /\ wire[n] = Ack /\ key_buffer = <<>>
               /\ \A j \in Ends(Line) : j > Len(key_buffer) + n
            \/ /\ wire[n] # Ack /\ Len(key_buffer) + n \in Ends(Line)
               /\ Append(key_buffer, wire[n]) = CodeAt(Line, Len(key_buffer) + n)
<1>1. /\ HandlerTypes /\ n \in 1..Len(wire) /\ (\A i \in 1..n-1 : wire[i] = Ack)
      /\ Len(wire) \in Nat /\ wire \in Seq(Byte) /\ answers \in Seq({Ack})
  BY DEF Waiting, Takes, HandlerTypes
<1>2. wire[n] \notin High /\ wire[n] \in Byte /\ key_buffer' = <<>>
  BY <1>1 DEF Completes
<1>3. key_buffer \in Seq(Byte)
  BY <1>1 DEF HandlerTypes
<1>4. PICK p \in Nat, m \in Nat, a \in Nat : p = Len(key_buffer) /\ m = Len(wire) /\ a = Len(answers)
  BY <1>1, <1>3
<1>5. key_buffer' \in Seq(Byte) /\ Len(key_buffer') = 0 /\ key_buffer' \in Pending
  BY <1>2 DEF Pending
<1>6. /\ wire' \in Seq(Byte) /\ Line' \in Seq(Byte) /\ Len(Line') = (m - n) + a
      /\ \A i \in 1..m-n : Line'[i] = wire[n + i]
      /\ \A i \in m-n+1..m-n+a : Line'[i] = Ack
  <2>1. /\ wire' \in Seq(Byte) /\ Line' \in Seq(Byte) /\ Len(Line') = 0 + (m - n) + a
        /\ \A i \in 1..m-n : Line'[0 + i] = wire[n + i]
        /\ \A i \in m-n+1..m-n+a : Line'[0 + i] = Ack
    BY <1>4, <1>5, NextLine
  <2>2. \A i \in Int : 0 + i = i
    OBVIOUS
  <2>3. m - n \in Int
    BY <1>1
  <2> QED BY <2>1, <2>2, <2>3
<1>7. /\ Len(Line) = p + m /\ \A i \in 1..p : Line[i] = key_buffer[i]
      /\ \A i \in 1..m : Line[p + i] = wire[i]
  BY <1>1, <1>4, LineIs
<1>8. n \in 1..m /\ m - n \in Nat /\ n \in Nat
  BY <1>1, <1>4
<1>9. PICK d \in 0..Len(Line) : d = p + n
  BY <1>7, <1>8
<1>10. \A j \in 1..p+m-d : Line'[j] = Line[j + d]
  <2> SUFFICES ASSUME NEW j \in 1..p+m-d PROVE Line'[j] = Line[j + d]
    OBVIOUS
  <2>1. j \in 1..m-n /\ n + j \in 1..m /\ j + d = p + (n + j)
    BY <1>8, <1>9
  <2> QED BY <1>6, <1>7, <2>1
<1>11. \A j \in p+m-d+1..(m-n)+a : Line'[j] = Ack
  <2>1. p + m - d = m - n
    BY <1>8, <1>9
  <2> QED BY <1>6, <2>1
<1>12. Rest(Line, d, Line')
  <2>1. (m - n) + a >= p + m - d
    BY <1>8, <1>9
  <2> QED BY <1>6, <1>7, <1>10, <1>11, <2>1 DEF Rest
<1>13. Line[d] = wire[n] /\ d \in 1..Len(Line) /\ \A j \in Ends(Line) : j >= d
  BY <1>4, <1>9, Taken
<1>14. Regular(Line)
  BY DEF Waiting
<1>15. Regular(Line') /\ Shifted(Line, d, Line')
  BY <1>2, <1>12, <1>13, <1>14, RestRegular, RestShifted
<1>16. HandlerTypes'
  <2>1. stored' \in Nat /\ torn' \in BOOLEAN /\ overrun' \in BOOLEAN
    <3>1. Stores \/ LeavesRing
      BY DEF Completes
    <3>2. stored \in Nat /\ torn \in BOOLEAN /\ overrun \in BOOLEAN
      BY <1>1 DEF HandlerTypes
    <3>3. CASE Stores
      BY <3>2, <3>3 DEF Stores
    <3>4. CASE LeavesRing
      BY <3>2, <3>4 DEF LeavesRing
    <3> QED BY <3>1, <3>3, <3>4
  <2> QED BY <1>5, <1>6, <2>1 DEF HandlerTypes, Takes
<1>17. Waiting'
  BY <1>5, <1>15, <1>16 DEF Waiting
<1>18. CASE wire[n] = Ack
  <2>1. key_buffer = <<>>
    BY <1>18, Front, BytesAre
  <2>2. d \notin Ends(Line)
    BY <1>13, <1>18, BytesAre DEF Ends
  <2>3. \A j \in Ends(Line) : j > d
    <3> SUFFICES ASSUME NEW j \in Ends(Line) PROVE j > d
      OBVIOUS
    <3>1. j >= d /\ j # d /\ j \in Nat
      BY <1>13, <2>2 DEF Ends
    <3> QED BY <3>1
  <2> QED BY <1>4, <1>9, <1>15, <1>17, <1>18, <2>1, <2>3
<1>19. CASE wire[n] # Ack
  <2>1. wire[n] \in Final
    BY <1>2, <1>19, BytesAre DEF Final
  <2>2. d \in Ends(Line)
    BY <1>13, <2>1 DEF Ends
  <2>3. Append(key_buffer, wire[n]) = CodeAt(Line, d)
    <3>1. CASE key_buffer = <<>>
      <4>1. p = 0 /\ d = n
        BY <1>4, <1>8, <1>9, <3>1
      <4>2. Prev(Line, d) = Ack
        <5>1. CASE n = 1
          BY <4>1, <5>1 DEF Prev
        <5>2. CASE n # 1
          <6>1. d > 1 /\ p + (n - 1) = d - 1 /\ n - 1 \in 1..m /\ n - 1 \in 1..n-1
            BY <1>8, <4>1, <5>2
          <6>2. Line[d - 1] = Ack
            BY <1>1, <1>7, <6>1
          <6> QED BY <6>1, <6>2 DEF Prev
        <5> QED BY <5>1, <5>2
      <4>3. CodeAt(Line, d) = <<wire[n]>>
        BY <1>13, <4>2, BytesAre DEF CodeAt
      <4>4. Append(<<>>, wire[n]) = <<wire[n]>>
        OBVIOUS
      <4> QED BY <3>1, <4>3, <4>4
    <3>2. CASE key_buffer # <<>>
      <4>1. n = 1 /\ p \in {1, 2} /\ d = p + 1 /\ d > 1 /\ d - 1 = p
        <5>1. n = 1 /\ p \in {1, 2}
          BY <1>4, <3>2, Front DEF Waiting, Pending
        <5> QED BY <1>9, <5>1
      <4>2. Prev(Line, d) = key_buffer[p]
        <5>1. Line[p] = key_buffer[p]
          BY <1>7, <4>1
        <5> QED BY <4>1, <5>1 DEF Prev
      <4>3. CASE key_buffer = <<"e0">>
        <5>1. Prev(Line, d) = "e0"
          BY <1>4, <4>2, <4>3
        <5>2. CodeAt(Line, d) = <<"e0", wire[n]>>
          BY <1>13, <5>1, BytesAre DEF CodeAt
        <5> QED BY <4>3, <5>2, Appended
      <4>4. CASE key_buffer = <<"f0">>
        <5>1. Prev(Line, d) = "f0" /\ p = 1
          BY <1>4, <4>2, <4>4
        <5>2. Prev(Line, d - 1) = Ack
          <6>1. d - 1 = 1
            BY <4>1, <5>1
          <6> QED BY <6>1 DEF Prev
        <5>3. CodeAt(Line, d) = <<"f0", wire[n]>>
          BY <1>13, <5>1, <5>2, BytesAre DEF CodeAt, Ack
        <5> QED BY <4>4, <5>3, Appended
      <4>5. CASE key_buffer = <<"e0", "f0">>
        <5>1. Prev(Line, d) = "f0" /\ p = 2
          BY <1>4, <4>2, <4>5
        <5>2. Prev(Line, d - 1) = "e0"
          <6>1. d - 1 = 2 /\ Line[1] = "e0"
            BY <1>7, <4>1, <4>5, <5>1
          <6>2. d - 1 > 1 /\ d - 1 - 1 = 1
            BY <6>1
          <6> QED BY <6>1, <6>2 DEF Prev
        <5>3. CodeAt(Line, d) = <<"e0", "f0", wire[n]>>
          BY <1>13, <5>1, <5>2, BytesAre DEF CodeAt
        <5> QED BY <4>5, <5>3, Appended
      <4> QED BY <3>2, <4>3, <4>4, <4>5 DEF Waiting, Pending
    <3> QED BY <3>1, <3>2
  <2> QED BY <1>4, <1>9, <1>15, <1>17, <1>19, <2>2, <2>3
<1> QED BY <1>18, <1>19

-----------------------------------------------------------------------------
(***************************************************************************)
(* What the handler knows of the three modifiers.                          *)
(***************************************************************************)

(* Tuples are told by their length and their parts.                        *)
LEMMA Tuples ==
  /\ \A a, b : <<a>> = <<b>> <=> a = b
  /\ \A a, b, c, d : <<a, b>> = <<c, d>> <=> a = c /\ b = d
  /\ \A a, b, c, d, e, f : <<a, b, c>> = <<d, e, f>> <=> a = d /\ b = e /\ c = f
  /\ \A a, b, c : <<a>> # <<b, c>>
  /\ \A a, b, c, d : <<a>> # <<b, c, d>>
  /\ \A a, b, c, d, e : <<a, b>> # <<c, d, e>>
<1>1. \A a, b, c : <<a>> # <<b, c>>
  <2> TAKE a, b, c
  <2>1. Len(<<a>>) = 1 /\ Len(<<b, c>>) = 2
    OBVIOUS
  <2> QED BY <2>1
<1>2. \A a, b, c, d : <<a>> # <<b, c, d>>
  <2> TAKE a, b, c, d
  <2>1. Len(<<a>>) = 1 /\ Len(<<b, c, d>>) = 3
    OBVIOUS
  <2> QED BY <2>1
<1>3. \A a, b, c, d, e : <<a, b>> # <<c, d, e>>
  <2> TAKE a, b, c, d, e
  <2>1. Len(<<a, b>>) = 2 /\ Len(<<c, d, e>>) = 3
    OBVIOUS
  <2> QED BY <2>1
<1>4. \A a, b : <<a>> = <<b>> <=> a = b
  OBVIOUS
<1>5. \A a, b, c, d : <<a, b>> = <<c, d>> <=> a = c /\ b = d
  OBVIOUS
<1>6. \A a, b, c, d, e, f : <<a, b, c>> = <<d, e, f>> <=> a = d /\ b = e /\ c = f
  OBVIOUS
<1> QED BY <1>1, <1>2, <1>3, <1>4, <1>5, <1>6

(* A key's press and release are told from those of other keys.            *)
LEMMA ToldIs ==
  ASSUME NEW On, \A c \in On : \E x : x # "e0" /\ x # "f0" /\ (c = <<x>> \/ c = <<"e0", x>>)
  PROVE  Told(On)
<1> SUFFICES ASSUME NEW k \in Key
             PROVE  /\ Released(k) \notin On
                    /\ Released(k) \in Off(On) => k \in On
  BY DEF Told
<1>1. PICK b \in Final : k = <<b>> \/ k = <<"e0", b>>
  BY KeyIs
<1>2. b # "e0" /\ "e0" # "f0"
  BY <1>1, BytesAre
<1>3. ASSUME NEW c \in On
      PROVE  Released(k) # c /\ (Released(k) = Released(c) => k = c)
  <2>1. PICK x : x # "e0" /\ x # "f0" /\ (c = <<x>> \/ c = <<"e0", x>>)
    OBVIOUS
  <2>2. \/ c = <<x>> /\ Released(c) = <<"f0", x>>
        \/ c = <<"e0", x>> /\ Released(c) = <<"e0", "f0", x>>
    BY <2>1, ReleasedIs
  <2>3. CASE k = <<b>>
    <3>1. Released(k) = <<"f0", b>>
      BY <1>2, <2>3, ReleasedIs
    <3> QED BY <1>2, <2>1, <2>2, <2>3, <3>1, Tuples
  <2>4. CASE k = <<"e0", b>>
    <3>1. Released(k) = <<"e0", "f0", b>>
      BY <2>4, ReleasedIs
    <3> QED BY <1>2, <2>1, <2>2, <2>4, <3>1, Tuples
  <2> QED BY <1>1, <2>3, <2>4
<1> QED BY <1>3 DEF Off

Mods == {"caps", "shift", "ctrl", "alt"}

(* Each modifier is turned on by its keys only, and off when one of them is *)
(* released.  No other code touches it, Nothing included.                   *)
LEMMA ModifiersSet ==
  ASSUME NEW state, NEW code
  PROVE  /\ Sets(state, code, "shift", Shift, Modifiers(state, code))
         /\ Sets(state, code, "ctrl", Ctrl, Modifiers(state, code))
         /\ Sets(state, code, "alt", Alt, Modifiers(state, code))
         /\ state \subseteq Mods => Modifiers(state, code) \subseteq Mods
<1>1. PICK new : new = Modifiers(state, code)
  OBVIOUS
<1>2. PICK s, r, c, a, p : s = "12" /\ r = "59" /\ c = "14" /\ a = "11" /\ p = "58"
  OBVIOUS
<1>3. PICK e, f : e = "e0" /\ f = "f0"
  OBVIOUS
<1>4. /\ s # c /\ s # a /\ s # p /\ r # c /\ r # a /\ r # p /\ c # a /\ c # p /\ a # p /\ e # f
      /\ \A x \in {s, r, c, a, p} : x # e /\ x # f
  BY <1>2, <1>3
<1>5. PICK ss, fss, cs, fcs, as, fas :
         /\ ss = {<<s>>, <<r>>} /\ fss = {<<f, s>>, <<f, r>>}
         /\ cs = {<<c>>, <<e, c>>} /\ fcs = {<<f, c>>, <<e, f, c>>}
         /\ as = {<<a>>, <<e, a>>} /\ fas = {<<f, a>>, <<e, f, a>>}
  OBVIOUS
<1>6. /\ Shift = ss /\ Ctrl = cs /\ Alt = as /\ Caps = p
      /\ Off(Shift) = fss /\ Off(Ctrl) = fcs /\ Off(Alt) = fas
  <2>1. Shift = ss /\ Ctrl = cs /\ Alt = as /\ Caps = p
    BY <1>2, <1>3, <1>5 DEF Shift, Ctrl, Alt, Caps
  <2>2. \A x : x # e => Released(<<x>>) = <<f, x>> /\ Released(<<e, x>>) = <<e, f, x>>
    BY <1>3, ReleasedIs
  <2>3. Off(Shift) = fss
    BY <1>4, <1>5, <2>1, <2>2 DEF Off
  <2>4. Off(Ctrl) = fcs
    BY <1>4, <1>5, <2>1, <2>2 DEF Off
  <2>5. Off(Alt) = fas
    BY <1>4, <1>5, <2>1, <2>2 DEF Off
  <2> QED BY <2>1, <2>3, <2>4, <2>5
<1>7. new = CASE code = <<p>> -> IF "caps" \in state THEN state \ {"caps"}
                                 ELSE state \union {"caps"}
              [] code \in ss -> state \union {"shift"}
              [] code \in fss -> state \ {"shift"}
              [] code \in cs -> state \union {"ctrl"}
              [] code \in fcs -> state \ {"ctrl"}
              [] code \in as -> state \union {"alt"}
              [] code \in fas -> state \ {"alt"}
              [] OTHER -> state
  BY <1>1, <1>6 DEF Modifiers, Off
<1>8. /\ <<p>> \notin ss \union fss \union cs \union fcs \union as \union fas
      /\ \A x \in ss : x \notin fss \union cs \union fcs \union as \union fas
      /\ \A x \in fss : x \notin cs \union fcs \union as \union fas
      /\ \A x \in cs : x \notin fcs \union as \union fas
      /\ \A x \in fcs : x \notin as \union fas
      /\ \A x \in as : x \notin fas
  BY <1>4, <1>5, Tuples
<1>9. /\ code = <<p>> => new = IF "caps" \in state THEN state \ {"caps"} ELSE state \union {"caps"}
      /\ code \in ss => new = state \union {"shift"}
      /\ code \in fss => new = state \ {"shift"}
      /\ code \in cs => new = state \union {"ctrl"}
      /\ code \in fcs => new = state \ {"ctrl"}
      /\ code \in as => new = state \union {"alt"}
      /\ code \in fas => new = state \ {"alt"}
      /\ code # <<p>> /\ code \notin ss \union fss \union cs \union fcs \union as \union fas
           => new = state
  BY <1>7, <1>8
<1>10. "caps" # "shift" /\ "caps" # "ctrl" /\ "caps" # "alt" /\ "shift" # "ctrl"
       /\ "shift" # "alt" /\ "ctrl" # "alt"
  OBVIOUS
<1>11. Sets(state, code, "shift", Shift, new)
  BY <1>6, <1>8, <1>9, <1>10 DEF Sets
<1>12. Sets(state, code, "ctrl", Ctrl, new)
  BY <1>6, <1>8, <1>9, <1>10 DEF Sets
<1>13. Sets(state, code, "alt", Alt, new)
  BY <1>6, <1>8, <1>9, <1>10 DEF Sets
<1>14. state \subseteq Mods => new \subseteq Mods
  BY <1>9 DEF Mods
<1> QED BY <1>1, <1>11, <1>12, <1>13, <1>14

-----------------------------------------------------------------------------
(***************************************************************************)
(* The steps and the line.                                                 *)
(***************************************************************************)
Modifier(m, On) ==
  /\ Told(On) /\ <<Nothing>> \notin On
  /\ \A state, code : Sets(state, code, m, On, Modifiers(state, code))

(* The three that the handler knows.                                       *)
LEMMA ModifierIs ==
  Modifier("shift", Shift) /\ Modifier("ctrl", Ctrl) /\ Modifier("alt", Alt)
<1>1. /\ Shift = {<<"12">>, <<"59">>} /\ Ctrl = {<<"14">>, <<"e0", "14">>}
      /\ Alt = {<<"11">>, <<"e0", "11">>} /\ Nothing = "00"
  BY DEF Shift, Ctrl, Alt, Nothing
<1>2. Told(Shift)
  BY <1>1, ToldIs
<1>3. Told(Ctrl)
  BY <1>1, ToldIs
<1>4. Told(Alt)
  BY <1>1, ToldIs
<1>5. <<Nothing>> \notin Shift /\ <<Nothing>> \notin Ctrl /\ <<Nothing>> \notin Alt
  BY <1>1, Tuples
<1> QED BY <1>2, <1>3, <1>4, <1>5, ModifiersSet DEF Modifier

(* What ends on a line ends at a place of it.                              *)
LEMMA EndsIn ==
  ASSUME NEW w, Regular(w)
  PROVE  Ends(w) \subseteq 1..Len(w) /\ Len(w) \in Nat /\ \A j \in Ends(w) : j \in Nat
BY DEF Regular, Ends

(* A press and a release put a code behind the line.                       *)
LEMMA TypedLine ==
  ASSUME Waiting, NEW k \in Key, NEW c, c = k \/ c = Released(k),
         wire' = wire \o c,
         UNCHANGED <<key_buffer, stored, keyboard_cmd_state, torn, overrun>>
  PROVE  Waiting' /\ Behind(Line, c, Line')
<1>1. c \in Codes
  <2>1. PICK b \in Final : k = <<b>> \/ k = <<"e0", b>>
    BY KeyIs
  <2>2. b # "e0"
    BY <2>1, BytesAre
  <2>3. CASE k = <<b>>
    BY <2>2, <2>3, ReleasedIs DEF Codes
  <2>4. CASE k = <<"e0", b>>
    BY <2>4, ReleasedIs DEF Codes
  <2> QED BY <2>1, <2>3, <2>4
<1>2. c \in Seq(Byte)
  <2>1. PICK e, f : e = "e0" /\ f = "f0" /\ e \in Byte /\ f \in Byte
    BY BytesAre
  <2>2. \A b \in Final : b \in Byte
    BY BytesAre
  <2>3. \A b \in Byte : <<b>> \in Seq(Byte) /\ <<e, b>> \in Seq(Byte) /\ <<f, b>> \in Seq(Byte)
                        /\ <<e, f, b>> \in Seq(Byte)
    BY <2>1
  <2> QED BY <1>1, <2>1, <2>2, <2>3 DEF Codes
<1>3. key_buffer \in Seq(Byte) /\ wire \in Seq(Byte)
  BY DEF Waiting, HandlerTypes
<1>4. wire' \in Seq(Byte)
  BY <1>2, <1>3, ConcatProperties
<1>5. Line' = Line \o c
  <2>1. key_buffer \o (wire \o c) = (key_buffer \o wire) \o c
    BY <1>2, <1>3, ConcatAssociative
  <2> QED BY <2>1 DEF Line
<1>6. Behind(Line, c, Line')
  BY <1>1, <1>5, CodeBehind DEF Waiting
<1>7. HandlerTypes'
  BY <1>4 DEF Waiting, HandlerTypes
<1>8. Waiting'
  BY <1>6, <1>7 DEF Waiting, Behind
<1> QED BY <1>6, <1>8

(* A run of the handler keeps each modifier tied to its keys.              *)
LEMMA HandlerTied ==
  ASSUME Waiting, ps2_handler
  PROVE  /\ Waiting'
         /\ \A m, On : Modifier(m, On) /\ Tied(Line, keyboard_state, down, m, On)
                         => Tied(Line', keyboard_state', down', m, On)
<1>1. PICK n, answers : Takes(n, answers) /\ (Prefixes(n) \/ Completes(n))
  BY HandlerIs DEF Waiting
<1>2. down' = down
  BY <1>1 DEF Takes
<1>3. CASE Prefixes(n)
  <2>1. /\ Waiting' /\ n - 1 \in Nat /\ Shifted(Line, n - 1, Line')
        /\ \A j \in Ends(Line) : j > n - 1
    BY <1>1, <1>3, PrefixLine
  <2>2. keyboard_state' = keyboard_state
    BY <1>3 DEF Prefixes
  <2>3. ASSUME NEW m, NEW On, Tied(Line, keyboard_state, down, m, On)
        PROVE  Tied(Line', keyboard_state', down', m, On)
    <3>1. PICK v, mods, mods2, dn, w : v = Line' /\ mods = keyboard_state /\ mods2 = keyboard_state'
                                       /\ dn = down /\ w = Line
      OBVIOUS
    <3>2. Regular(w) /\ Regular(v)
      BY <2>1, <3>1 DEF Waiting
    <3>3. PICK d \in Nat : d = n - 1
      BY <2>1
    <3>4. Shifted(w, d, v) /\ (\A j \in Ends(w) : j > d) /\ mods2 = mods /\ Tied(w, mods, dn, m, On)
      BY <2>1, <2>2, <2>3, <3>1, <3>3
    <3>5. Tied(v, mods2, dn, m, On)
      BY <3>2, <3>4, EndsIn, PassedTied
    <3> QED BY <1>2, <3>1, <3>5
  <2> QED BY <2>1, <2>3
<1>4. CASE Completes(n)
  <2>1. PICK d : d = Len(key_buffer) + n
    OBVIOUS
  <2>2. /\ Waiting' /\ d \in Nat /\ Shifted(Line, d, Line')
        /\ \/ wire[n] = Ack /\ key_buffer = <<>> /\ \A j \in Ends(Line) : j > d
           \/ wire[n] # Ack /\ d \in Ends(Line) /\ Append(key_buffer, wire[n]) = CodeAt(Line, d)
    BY <1>1, <1>4, <2>1, CompleteLine
  <2>3. keyboard_state' =
          Modifiers(keyboard_state,
                    Append(key_buffer, IF wire[n] = Ack THEN Nothing ELSE wire[n]))
    BY <1>4 DEF Completes
  <2>4. \A j \in Ends(Line) : j >= d
    BY <1>1, <2>1, Taken
  <2>5. ASSUME NEW m, NEW On, Modifier(m, On), Tied(Line, keyboard_state, down, m, On)
        PROVE  Tied(Line', keyboard_state', down', m, On)
    <3>1. PICK v, mods, mods2, dn, w : v = Line' /\ mods = keyboard_state /\ mods2 = keyboard_state'
                                       /\ dn = down /\ w = Line
      OBVIOUS
    <3>2. Regular(w) /\ Regular(v)
      BY <2>2, <3>1 DEF Waiting
    <3>3. Shifted(w, d, v) /\ Tied(w, mods, dn, m, On)
      BY <2>2, <2>5, <3>1
    <3>4. \A code : Sets(mods, code, m, On, Modifiers(mods, code))
      BY <2>5 DEF Modifier
    <3>5. CASE wire[n] = Ack
      <4>1. Append(<<>>, Nothing) = <<Nothing>>
        BY Appended
      <4>2. mods2 = Modifiers(mods, <<Nothing>>) /\ \A j \in Ends(w) : j > d
        BY <2>2, <2>3, <3>1, <3>5, <4>1
      <4>3. m \in mods2 => m \in mods
        BY <2>5, <3>4, <4>2 DEF Sets, Modifier
      <4>4. Tied(v, mods2, dn, m, On)
        BY <2>2, <3>2, <3>3, <4>2, <4>3, EndsIn, PassedTied
      <4> QED BY <1>2, <3>1, <4>4
    <3>6. CASE wire[n] # Ack
      <4>1. mods2 = Modifiers(mods, CodeAt(w, d)) /\ d \in Ends(w) /\ \A j \in Ends(w) : j >= d
        BY <2>2, <2>3, <2>4, <3>1, <3>6
      <4>2. Sets(mods, CodeAt(w, d), m, On, mods2)
        BY <3>4, <4>1
      <4>3. Tied(v, mods2, dn, m, On)
        BY <2>2, <3>2, <3>3, <4>1, <4>2, EndsIn, TakenTied
      <4> QED BY <1>2, <3>1, <4>3
    <3> QED BY <3>5, <3>6
  <2> QED BY <2>2, <2>5
<1> QED BY <1>1, <1>3, <1>4

(* A key's press and release do.                                           *)
LEMMA TypistTied ==
  ASSUME Waiting, NEW k \in Key, Press(k) \/ Release(k)
  PROVE  /\ Waiting'
         /\ \A m, On : Modifier(m, On) /\ Tied(Line, keyboard_state, down, m, On)
                         => Tied(Line', keyboard_state', down', m, On)
<1>1. CASE Press(k)
  <2>1. /\ wire' = wire \o k /\ down' = down \union {k} /\ keyboard_state' = keyboard_state
        /\ UNCHANGED <<key_buffer, stored, keyboard_cmd_state, torn, overrun>>
    BY <1>1 DEF Press, ghosts
  <2>2. Waiting' /\ Behind(Line, k, Line')
    BY <2>1, TypedLine
  <2>3. ASSUME NEW m, NEW On, Tied(Line, keyboard_state, down, m, On)
        PROVE  Tied(Line', keyboard_state', down', m, On)
    <3>1. PICK v : v = Line'
      OBVIOUS
    <3>2. Tied(v, keyboard_state, down \union {k}, m, On)
      BY <2>2, <2>3, <3>1, PressTied
    <3> QED BY <2>1, <3>1, <3>2
  <2> QED BY <2>2, <2>3
<1>2. CASE Release(k)
  <2>1. /\ wire' = wire \o Released(k) /\ down' = down \ {k} /\ keyboard_state' = keyboard_state
        /\ UNCHANGED <<key_buffer, stored, keyboard_cmd_state, torn, overrun>>
    BY <1>2 DEF Release, ghosts
  <2>2. Waiting' /\ Behind(Line, Released(k), Line')
    BY <2>1, TypedLine
  <2>3. ASSUME NEW m, NEW On, Modifier(m, On), Tied(Line, keyboard_state, down, m, On)
        PROVE  Tied(Line', keyboard_state', down', m, On)
    <3>1. PICK v : v = Line'
      OBVIOUS
    <3>2. Regular(v) /\ Regular(Line)
      BY <2>2, <3>1 DEF Waiting
    <3>3. Told(On)
      BY <2>3 DEF Modifier
    <3>4. /\ Ends(Line) \subseteq 1..Len(Line) /\ Len(Line) \in Nat /\ Len(v) \in Nat
          /\ Behind(Line, Released(k), v)
      BY <2>2, <3>1, <3>2, EndsIn
    <3>5. Tied(v, keyboard_state, down \ {k}, m, On)
      BY <2>3, <3>3, <3>4, ReleaseTied
    <3> QED BY <2>1, <3>1, <3>5
  <2> QED BY <2>2, <2>3
<1> QED BY <1>1, <1>2

-----------------------------------------------------------------------------
(***************************************************************************)
(* The ring.                                                               *)
(***************************************************************************)

(* A slot's distance from r, in the direction in which the indices go.     *)
Dist(r, i) == IF r <= i THEN i - r ELSE i - r + RING

(* The unread keys are the last n that were stored, from r on.             *)
Window(r, n) ==
  /\ r \in Slot /\ n \in 0..RING
  /\ IF n = RING THEN wptr = r ELSE Dist(r, wptr) = n
  /\ \A i \in Slot : /\ ready[i] = 1 <=> Dist(r, i) < n
                     /\ Dist(r, i) < n => buffer[i] = stored - n + 1 + Dist(r, i)

(* Where the next key is read, while one is on its way to the Shell.       *)
NextRead == IF reader.pc = "advance"
            THEN IF Wrapped THEN 0 ELSE rptr + 1
            ELSE rptr

(* The types, with those of the handler.                                   *)
RingTypes ==
  /\ stored \in Nat /\ torn \in BOOLEAN /\ overrun \in BOOLEAN
  /\ buffer \in [Slot -> 0..stored] /\ ready \in [Slot -> {0, 1}]
  /\ wptr \in Slot
  /\ rptr \in Slot \/ (rptr = RING /\ reader.pc \in Erasing)
  /\ reader \in [pc : {"getkey", "unready", "advance", "return"} \union Erasing,
                 key : 0..stored, i : Slot]
  /\ got \subseteq 1..stored

(* No key lies in the ring twice, none that is unread was handed over, and  *)
(* the one on its way is not unread any more.                               *)
Once ==
  /\ \A i, j \in Slot : buffer[i] = buffer[j] /\ buffer[i] # 0 => i = j
  /\ \A i \in Slot : ready[i] = 1 =>
       \/ buffer[i] # 0 /\ buffer[i] \notin got
       \/ reader.pc = "unready_all" /\ i = reader.i
  /\ reader.pc # "getkey" =>
       /\ reader.key # 0 /\ reader.key \notin got
       /\ \A i \in Slot : buffer[i] = reader.key /\ ready[i] = 1
                            => reader.pc = "unready" /\ i = rptr

(* As long as nothing was overwritten unread nor stored in init_buffer.    *)
Windowed ==
  ~overrun /\ ~torn =>
    /\ reader.pc \in {"getkey", "unready", "advance", "return"} =>
         \E n \in 0..RING : Window(NextRead, n) /\ (reader.pc = "unready" => n > 0)
    /\ reader.pc \in {"erase", "unready_all"} => \A j \in Slot : j < reader.i => ready[j] = 0
    /\ reader.pc \in {"reset_wptr", "reset_rptr"} => \A j \in Slot : ready[j] = 0
    /\ reader.pc = "reset_rptr" => wptr = 0

Ring == RingTypes /\ Once /\ Windowed

(* A remainder by the size of the ring, less than twice round.             *)
LEMMA Wrap ==
  ASSUME NEW a \in Nat, a < 2 * RING
  PROVE  a % RING = IF a < RING THEN a ELSE a - RING
BY Sizes

(* One slot on, everything is nearer by one, but for the slot that was left. *)
LEMMA Distances ==
  ASSUME NEW r \in Slot
  PROVE  /\ Dist(r, r) = 0
         /\ \A i \in Slot : Dist(r, i) \in 0..RING-1
         /\ \A i, j \in Slot : Dist(r, i) = Dist(r, j) => i = j
         /\ \A s \in Slot : s = (IF r + 1 = RING THEN 0 ELSE r + 1) =>
              /\ \A i \in Slot : Dist(s, i) = IF i = r THEN RING - 1 ELSE Dist(r, i) - 1
              /\ \A q \in Slot : IF Dist(q, r) + 1 = RING THEN s = q
                                 ELSE Dist(q, s) = Dist(q, r) + 1
BY Sizes DEF Dist, Slot

(* The indices go round.                                                    *)
LEMMA NextSlot ==
  ASSUME NEW r \in Slot
  PROVE  /\ (IF r + 1 = RING THEN 0 ELSE r + 1) \in Slot
         /\ (r + 1) % RING = IF r + 1 = RING THEN 0 ELSE r + 1
<1>1. r \in Nat /\ r < RING /\ r + 1 < 2 * RING
  BY Sizes DEF Slot
<1>2. PICK a \in Nat : a = r + 1
  BY <1>1
<1>3. a % RING = IF a < RING THEN a ELSE a - RING
  BY <1>1, <1>2, Wrap
<1> QED BY <1>1, <1>2, <1>3, Sizes DEF Slot

(* Where the ring and the reader are left alone.                           *)
LEMMA RingSame ==
  ASSUME Ring, UNCHANGED <<ringVars, reader, stored, got, overrun, torn>>
  PROVE  Ring'
<1>1. RingTypes'
  BY DEF Ring, RingTypes, ringVars, Erasing
<1>2. Once'
  BY DEF Ring, Once, ringVars
<1>3. Windowed'
  <2>1. NextRead' = NextRead /\ \A r, n : Window(r, n)' <=> Window(r, n)
    BY DEF NextRead, Wrapped, Window, ringVars
  <2> QED BY <2>1 DEF Ring, Windowed, ringVars
<1> QED BY <1>1, <1>2, <1>3 DEF Ring

(* The handler stores a key.                                               *)
LEMMA RingStored ==
  ASSUME Ring, Stores, UNCHANGED <<rptr, reader, got>>
  PROVE  Ring'
<1>1. /\ stored \in Nat /\ torn \in BOOLEAN /\ overrun \in BOOLEAN
      /\ buffer \in [Slot -> 0..stored] /\ ready \in [Slot -> {0, 1}] /\ wptr \in Slot
      /\ got \subseteq 1..stored
      /\ reader \in [pc : {"getkey", "unready", "advance", "return"} \union Erasing,
                     key : 0..stored, i : Slot]
      /\ rptr \in Slot \/ (rptr = RING /\ reader.pc \in Erasing)
  BY DEF Ring, RingTypes, Erasing
<1>2. /\ buffer' = [buffer EXCEPT ![wptr] = stored + 1] /\ ready' = [ready EXCEPT ![wptr] = 1]
      /\ wptr' = (wptr + 1) % RING /\ stored' = stored + 1
      /\ overrun' = (overrun \/ ready[wptr] = 1)
      /\ torn' = (torn \/ reader.pc \in Erasing)
      /\ rptr' = rptr /\ reader' = reader /\ got' = got
  BY DEF Stores
<1>3. /\ buffer'[wptr] = stored + 1 /\ ready'[wptr] = 1
      /\ \A i \in Slot : i # wptr => buffer'[i] = buffer[i] /\ ready'[i] = ready[i]
      /\ \A i \in Slot : buffer[i] \in 0..stored
  BY <1>1, <1>2
<1>4. wptr' = (IF wptr + 1 = RING THEN 0 ELSE wptr + 1) /\ wptr' \in Slot
  BY <1>1, <1>2, NextSlot
<1>5. RingTypes'
  <2>1. buffer' \in [Slot -> 0..stored'] /\ ready' \in [Slot -> {0, 1}]
    BY <1>1, <1>2
  <2>2. reader' \in [pc : {"getkey", "unready", "advance", "return"} \union Erasing,
                     key : 0..stored', i : Slot]
    BY <1>1, <1>2
  <2>3. stored' \in Nat /\ torn' \in BOOLEAN /\ overrun' \in BOOLEAN /\ got' \subseteq 1..stored'
    BY <1>1, <1>2
  <2> QED BY <1>1, <1>2, <1>4, <2>1, <2>2, <2>3 DEF RingTypes, Erasing
<1>6. Once'
  <2>1. Once /\ reader.key \in 0..stored
    BY <1>1 DEF Ring
  <2>2. \A i, j \in Slot : buffer'[i] = buffer'[j] /\ buffer'[i] # 0 => i = j
    BY <1>1, <1>3, <2>1 DEF Once
  <2>3. \A i \in Slot : ready'[i] = 1 =>
             \/ buffer'[i] # 0 /\ buffer'[i] \notin got
             \/ reader.pc = "unready_all" /\ i = reader.i
    BY <1>1, <1>3, <2>1 DEF Once
  <2>4. \A i \in Slot : buffer'[i] = reader.key /\ ready'[i] = 1
                          => buffer[i] = reader.key /\ ready[i] = 1
    BY <1>1, <1>3, <2>1
  <2> QED BY <1>2, <2>1, <2>2, <2>3, <2>4 DEF Once
<1>7. Windowed'
  <2> SUFFICES ASSUME ~overrun, ready[wptr] # 1, ~torn, reader.pc \notin Erasing
               PROVE  Windowed'
    BY <1>1, <1>2 DEF Windowed
  <2>0. PICK n \in 0..RING : Window(NextRead, n) /\ (reader.pc = "unready" => n > 0)
    <3>1. reader.pc \in {"getkey", "unready", "advance", "return"}
      BY <1>1 DEF Erasing
    <3>2. \E n \in 0..RING : Window(NextRead, n) /\ (reader.pc = "unready" => n > 0)
      BY <3>1 DEF Ring, Windowed
    <3> QED BY <3>2
  <2>1. PICK r : r = NextRead /\ Window(r, n)
    BY <2>0
  <2>2. /\ r \in Slot /\ n \in Nat /\ n <= RING
        /\ IF n = RING THEN wptr = r ELSE Dist(r, wptr) = n
        /\ \A i \in Slot : /\ ready[i] = 1 <=> Dist(r, i) < n
                           /\ Dist(r, i) < n => buffer[i] = stored - n + 1 + Dist(r, i)
    BY <2>1, Sizes DEF Window
  <2>3. n < RING
    <3>1. n = RING => Dist(r, wptr) = 0
      BY <2>2, Distances
    <3> QED BY <1>1, <2>2, <3>1, Sizes
  <2>4. Dist(r, wptr) = n /\ IF n + 1 = RING THEN wptr' = r ELSE Dist(r, wptr') = n + 1
    <3>1. Dist(r, wptr) = n
      BY <2>2, <2>3
    <3> QED BY <1>1, <1>4, <2>2, <3>1, Distances
  <2>5. ASSUME NEW i \in Slot
        PROVE  /\ ready'[i] = 1 <=> Dist(r, i) < n + 1
               /\ Dist(r, i) < n + 1 => buffer'[i] = stored + 1 - (n + 1) + 1 + Dist(r, i)
    <3>1. Dist(r, i) \in Nat /\ Dist(r, i) < RING
      BY <2>2, Sizes, Distances
    <3>2. CASE i = wptr
      BY <1>1, <1>3, <2>2, <2>4, <3>2
    <3>3. CASE i # wptr
      <4>1. Dist(r, i) # n
        BY <1>1, <2>2, <2>4, <3>3, Distances
      <4>2. Dist(r, i) < n + 1 <=> Dist(r, i) < n
        BY <2>2, <3>1, <4>1
      <4>3. ready'[i] = ready[i] /\ buffer'[i] = buffer[i]
        BY <1>3, <3>3
      <4> QED BY <1>1, <2>2, <3>1, <4>2, <4>3
    <3> QED BY <3>2, <3>3
  <2>6. n + 1 \in 0..RING
    BY <2>2, <2>3, Sizes
  <2>7. Window(r, n + 1)'
    <3>1. PICK m \in 0..RING : m = n + 1
      BY <2>6
    <3>2. IF m = RING THEN wptr' = r ELSE Dist(r, wptr') = m
      BY <2>4, <3>1
    <3>3. \A i \in Slot : /\ ready'[i] = 1 <=> Dist(r, i) < m
                          /\ Dist(r, i) < m => buffer'[i] = stored' - m + 1 + Dist(r, i)
      <4> SUFFICES ASSUME NEW i \in Slot
                   PROVE  /\ ready'[i] = 1 <=> Dist(r, i) < m
                          /\ Dist(r, i) < m => buffer'[i] = stored' - m + 1 + Dist(r, i)
        OBVIOUS
      <4>1. stored' = stored + 1 /\ stored \in Nat /\ n \in Nat /\ m = n + 1
        BY <1>1, <1>2, <2>2, <3>1
      <4>2. Dist(r, i) \in Nat
        BY <2>2, Sizes, Distances
      <4>3. /\ ready'[i] = 1 <=> Dist(r, i) < n + 1
            /\ Dist(r, i) < n + 1 => buffer'[i] = stored + 1 - (n + 1) + 1 + Dist(r, i)
        BY <2>5
      <4> QED BY <4>1, <4>2, <4>3
    <3>4. Window(r, m)'
      BY <2>2, <3>2, <3>3 DEF Window
    <3> QED BY <3>1, <3>4
  <2>8. NextRead' = r
    BY <1>2, <2>1 DEF NextRead, Wrapped
  <2>9. n + 1 > 0
    BY <2>2
  <2>10. reader'.pc \notin {"erase", "unready_all", "reset_wptr", "reset_rptr"}
    BY <1>2 DEF Erasing
  <2>11. \E k \in 0..RING : Window(NextRead, k)' /\ (reader'.pc = "unready" => k > 0)
    BY <2>6, <2>7, <2>8, <2>9
  <2> QED BY <2>10, <2>11 DEF Windowed
<1> QED BY <1>5, <1>6, <1>7 DEF Ring

(* Which fields a step of the reader changes.                              *)
LEMMA Readers ==
  ASSUME RingTypes
  PROVE  /\ \A p : [reader EXCEPT !.pc = p] = [pc |-> p, key |-> reader.key, i |-> reader.i]
         /\ \A p, k : [reader EXCEPT !.pc = p, !.key = k] = [pc |-> p, key |-> k, i |-> reader.i]
         /\ \A p, i : [reader EXCEPT !.pc = p, !.i = i] = [pc |-> p, key |-> reader.key, i |-> i]
<1>1. PICK P, K, I : reader \in [pc : P, key : K, i : I]
  BY DEF RingTypes, Erasing
<1>2. ASSUME NEW p
      PROVE  [reader EXCEPT !.pc = p] = [pc |-> p, key |-> reader.key, i |-> reader.i]
  <2>1. PICK s : s = [reader EXCEPT !.pc = p]
    OBVIOUS
  <2>2. s.pc = p /\ s.key = reader.key /\ s.i = reader.i
    BY <1>1, <2>1
  <2>3. s \in [pc : P \union {p}, key : K, i : I]
    BY <1>1, <2>1
  <2>4. s = [pc |-> s.pc, key |-> s.key, i |-> s.i]
    BY <2>3
  <2> QED BY <2>1, <2>2, <2>4
<1>3. ASSUME NEW p, NEW k
      PROVE  [reader EXCEPT !.pc = p, !.key = k] = [pc |-> p, key |-> k, i |-> reader.i]
  <2>1. PICK s : s = [reader EXCEPT !.pc = p, !.key = k]
    OBVIOUS
  <2>2. s.pc = p /\ s.key = k /\ s.i = reader.i
    BY <1>1, <2>1
  <2>3. s \in [pc : P \union {p}, key : K \union {k}, i : I]
    BY <1>1, <2>1
  <2>4. s = [pc |-> s.pc, key |-> s.key, i |-> s.i]
    BY <2>3
  <2> QED BY <2>1, <2>2, <2>4
<1>4. ASSUME NEW p, NEW i
      PROVE  [reader EXCEPT !.pc = p, !.i = i] = [pc |-> p, key |-> reader.key, i |-> i]
  <2>1. PICK s : s = [reader EXCEPT !.pc = p, !.i = i]
    OBVIOUS
  <2>2. s.pc = p /\ s.key = reader.key /\ s.i = i
    BY <1>1, <2>1
  <2>3. s \in [pc : P \union {p}, key : K, i : I \union {i}]
    BY <1>1, <2>1
  <2>4. s = [pc |-> s.pc, key |-> s.key, i |-> s.i]
    BY <2>3
  <2> QED BY <2>1, <2>2, <2>4
<1> QED BY <1>2, <1>3, <1>4

(* kernel_getkey copies a key out of the first slot of the window.           *)
LEMMA RingCopied ==
  ASSUME Ring, GetCopy
  PROVE  Ring'
<1>1. /\ reader.pc = "getkey" /\ ready[rptr] = 1
      /\ reader' = [reader EXCEPT !.pc = "unready", !.key = buffer[rptr]]
      /\ UNCHANGED <<buffer, ready, wptr, rptr, stored, got, overrun, torn>>
  BY DEF GetCopy, ringVars, ghosts
<1>2. RingTypes /\ Once /\ Windowed
  BY DEF Ring
<1>3. rptr \in Slot /\ buffer[rptr] \in 0..stored /\ reader.i \in Slot
  BY <1>1, <1>2 DEF RingTypes, Erasing
<1>4. /\ reader'.pc = "unready" /\ reader'.key = buffer[rptr] /\ reader'.i = reader.i
      /\ reader' = [pc |-> "unready", key |-> buffer[rptr], i |-> reader.i]
  BY <1>1, <1>2, Readers
<1>5. RingTypes'
  BY <1>1, <1>2, <1>3, <1>4 DEF RingTypes, Erasing
<1>6. Once'
  BY <1>1, <1>2, <1>3, <1>4 DEF Once
<1>7. Windowed'
  <2>1. \A r, n : Window(r, n)' <=> Window(r, n)
    BY <1>1 DEF Window
  <2>2. NextRead = rptr /\ NextRead' = rptr
    BY <1>1, <1>4 DEF NextRead
  <2>3. \A n \in 0..RING : Window(rptr, n) => n > 0
    BY <1>1, <1>3, Sizes, Distances DEF Window
  <2> QED BY <1>1, <1>2, <1>4, <2>1, <2>2, <2>3 DEF Windowed
<1> QED BY <1>5, <1>6, <1>7 DEF Ring

(* It marks the slot as read: the window loses its first slot.               *)
LEMMA RingUnready ==
  ASSUME Ring, GetUnready
  PROVE  Ring'
<1>1. /\ reader.pc = "unready" /\ ready' = [ready EXCEPT ![rptr] = 0]
      /\ reader' = [reader EXCEPT !.pc = "advance"]
      /\ UNCHANGED <<buffer, wptr, rptr, stored, got, overrun, torn>>
  BY DEF GetUnready, ghosts
<1>2. RingTypes /\ Once /\ Windowed
  BY DEF Ring
<1>3. /\ rptr \in Slot /\ reader.key \in 0..stored /\ reader.i \in Slot /\ ready \in [Slot -> {0, 1}]
      /\ stored \in Nat
  BY <1>1, <1>2 DEF RingTypes, Erasing
<1>4. /\ reader'.pc = "advance" /\ reader'.key = reader.key /\ reader'.i = reader.i
      /\ reader' = [pc |-> "advance", key |-> reader.key, i |-> reader.i]
  BY <1>1, <1>2, Readers
<1>5. /\ ready'[rptr] = 0 /\ ready' \in [Slot -> {0, 1}]
      /\ \A i \in Slot : i # rptr => ready'[i] = ready[i]
  BY <1>1, <1>3
<1>6. RingTypes'
  BY <1>1, <1>2, <1>3, <1>4, <1>5 DEF RingTypes, Erasing
<1>7. Once'
  BY <1>1, <1>2, <1>3, <1>4, <1>5 DEF Once
<1>8. Windowed'
  <2> SUFFICES ASSUME ~overrun, ~torn
               PROVE  \E n \in 0..RING : Window(NextRead, n)'
    BY <1>1, <1>4 DEF Windowed
  <2>1. PICK n \in 0..RING : Window(rptr, n) /\ n > 0
    BY <1>1, <1>2 DEF Windowed, NextRead
  <2>2. PICK r \in Slot : r = (IF rptr + 1 = RING THEN 0 ELSE rptr + 1)
    BY <1>3, NextSlot
  <2>3. NextRead' = r
    BY <1>1, <1>4, <2>2 DEF NextRead, Wrapped
  <2>4. PICK q \in Slot : q = rptr
    BY <1>3
  <2>5. \A i \in Slot : Dist(r, i) = IF i = q THEN RING - 1 ELSE Dist(q, i) - 1
    BY <2>2, <2>4, Distances
  <2>6. /\ IF n = RING THEN wptr = q ELSE Dist(q, wptr) = n
        /\ \A i \in Slot : /\ ready[i] = 1 <=> Dist(q, i) < n
                           /\ Dist(q, i) < n => buffer[i] = stored - n + 1 + Dist(q, i)
    BY <2>1, <2>4 DEF Window
  <2>7. wptr \in Slot
    BY <1>2 DEF RingTypes, Erasing
  <2>8. PICK m \in 0..RING : m = n - 1 /\ m < RING /\ n \in Nat
    BY <2>1, Sizes
  <2>9. /\ Dist(q, q) = 0 /\ \A i \in Slot : Dist(q, i) \in Nat /\ Dist(q, i) < RING
        /\ \A i \in Slot : Dist(q, i) = 0 => i = q
    BY Sizes, Distances
  <2>10. Dist(r, wptr) = m
    BY <2>5, <2>6, <2>7, <2>8, <2>9, Sizes
  <2>11. ASSUME NEW i \in Slot
         PROVE  /\ ready'[i] = 1 <=> Dist(r, i) < m
                /\ Dist(r, i) < m => buffer[i] = stored - m + 1 + Dist(r, i)
    <3>1. CASE i = q
      BY <1>5, <2>4, <2>5, <2>8, <3>1, Sizes
    <3>2. CASE i # q
      <4>1. ready'[i] = ready[i] /\ Dist(r, i) = Dist(q, i) - 1 /\ Dist(q, i) \in Nat
        BY <1>5, <2>4, <2>5, <2>9, <3>2
      <4>2. /\ ready[i] = 1 <=> Dist(q, i) < n
            /\ Dist(q, i) < n => buffer[i] = stored - n + 1 + Dist(q, i)
        BY <2>6
      <4> QED BY <1>3, <2>8, <4>1, <4>2
    <3> QED BY <3>1, <3>2
  <2>12. Window(r, m)'
    BY <1>1, <2>8, <2>10, <2>11 DEF Window
  <2> QED BY <2>3, <2>12
<1> QED BY <1>6, <1>7, <1>8 DEF Ring

(* It moves rptr, which the window has left behind already.                  *)
LEMMA RingAdvanced ==
  ASSUME Ring, GetAdvance
  PROVE  Ring'
<1>1. /\ reader.pc = "advance" /\ rptr' = rptr + 1
      /\ reader' = [reader EXCEPT !.pc = IF Wrapped THEN "erase" ELSE "return", !.i = 0]
      /\ UNCHANGED <<buffer, ready, wptr, stored, got, overrun, torn>>
  BY DEF GetAdvance, ghosts
<1>2. RingTypes /\ Once /\ Windowed
  BY DEF Ring
<1>3. rptr \in Slot /\ reader.key \in 0..stored /\ 0 \in Slot
  BY <1>1, <1>2, Sizes DEF RingTypes, Slot, Erasing
<1>4. PICK p \in {"erase", "return"} : p = IF Wrapped THEN "erase" ELSE "return"
  OBVIOUS
<1>5. /\ reader'.pc = p /\ reader'.key = reader.key /\ reader'.i = 0
      /\ reader' = [pc |-> p, key |-> reader.key, i |-> 0]
  <2>1. reader' = [reader EXCEPT !.pc = p, !.i = 0]
    BY <1>1, <1>4
  <2> QED BY <1>2, <2>1, Readers
<1>6. /\ p = "return" => rptr + 1 \in Slot /\ ~Wrapped
      /\ p = "erase" => rptr + 1 = RING /\ Wrapped
  BY <1>3, <1>4, Sizes DEF Wrapped, Slot
<1>7. RingTypes'
  BY <1>1, <1>2, <1>3, <1>5, <1>6 DEF RingTypes, Erasing
<1>8. Once'
  BY <1>1, <1>2, <1>5 DEF Once
<1>9. Windowed'
  <2>1. CASE p = "erase"
    <3>1. \A j \in Slot : ~(j < 0)
      BY Sizes DEF Slot
    <3> QED BY <1>1, <1>5, <2>1, <3>1 DEF Windowed
  <2>2. CASE p = "return"
    <3>1. \A r, n : Window(r, n)' <=> Window(r, n)
      BY <1>1 DEF Window
    <3>2. NextRead = rptr + 1 /\ NextRead' = rptr + 1
      BY <1>1, <1>5, <1>6, <2>2 DEF NextRead
    <3> QED BY <1>1, <1>2, <1>5, <2>2, <3>1, <3>2 DEF Windowed
  <2> QED BY <2>1, <2>2
<1> QED BY <1>7, <1>8, <1>9 DEF Ring

(* init_buffer erases a slot: first what is in it.                          *)
LEMMA RingErased ==
  ASSUME Ring, EraseBuffer
  PROVE  Ring'
<1>1. /\ reader.pc = "erase" /\ buffer' = [buffer EXCEPT ![reader.i] = 0]
      /\ reader' = [reader EXCEPT !.pc = "unready_all"]
      /\ UNCHANGED <<ready, wptr, rptr, stored, got, overrun, torn>>
  BY DEF EraseBuffer, ghosts
<1>2. RingTypes /\ Once /\ Windowed
  BY DEF Ring
<1>3. PICK i \in Slot : i = reader.i
  BY <1>2 DEF RingTypes, Erasing
<1>4. /\ reader'.pc = "unready_all" /\ reader'.key = reader.key /\ reader'.i = i
      /\ reader' = [pc |-> "unready_all", key |-> reader.key, i |-> i]
  BY <1>1, <1>2, <1>3, Readers
<1>5. /\ buffer'[i] = 0 /\ buffer' \in [Slot -> 0..stored]
      /\ \A j \in Slot : j # i => buffer'[j] = buffer[j]
  BY <1>1, <1>2, <1>3 DEF RingTypes, Erasing
<1>6. reader.key \in 0..stored
  BY <1>2 DEF RingTypes, Erasing
<1>7. RingTypes'
  BY <1>1, <1>2, <1>4, <1>5, <1>6 DEF RingTypes, Erasing
<1>8. Once'
  <2>1. \A j \in Slot : buffer'[j] # 0 => j # i
    BY <1>5
  <2>2. \A j \in Slot : ready[j] = 1 /\ j # i => buffer[j] # 0 /\ buffer[j] \notin got
    BY <1>1, <1>2 DEF Once
  <2> QED BY <1>1, <1>2, <1>4, <1>5, <2>1, <2>2 DEF Once
<1>9. Windowed'
  BY <1>1, <1>2, <1>3, <1>4 DEF Windowed
<1> QED BY <1>7, <1>8, <1>9 DEF Ring

(* Then its mark.                                                          *)
LEMMA RingUnmarked ==
  ASSUME Ring, EraseReady
  PROVE  Ring'
<1>1. /\ reader.pc = "unready_all" /\ ready' = [ready EXCEPT ![reader.i] = 0]
      /\ reader' = [reader EXCEPT
           !.pc = IF reader.i + 1 = RING THEN "reset_wptr" ELSE "erase", !.i = (reader.i + 1) % RING]
      /\ UNCHANGED <<buffer, wptr, rptr, stored, got, overrun, torn>>
  BY DEF EraseReady, SlotErased
<1>2. RingTypes /\ Once /\ Windowed
  BY DEF Ring
<1>3. PICK i \in Slot : i = reader.i
  BY <1>2 DEF RingTypes, Erasing
<1>4. PICK s \in Slot : s = (i + 1) % RING /\ s = IF i + 1 = RING THEN 0 ELSE i + 1
  BY NextSlot
<1>5. PICK p \in {"erase", "reset_wptr"} : p = IF i + 1 = RING THEN "reset_wptr" ELSE "erase"
  OBVIOUS
<1>6. /\ reader'.pc = p /\ reader'.key = reader.key /\ reader'.i = s
      /\ reader' = [pc |-> p, key |-> reader.key, i |-> s]
  <2>1. reader' = [reader EXCEPT !.pc = p, !.i = s]
    BY <1>1, <1>3, <1>4, <1>5
  <2> QED BY <1>2, <2>1, Readers
<1>7. /\ ready'[i] = 0 /\ ready' \in [Slot -> {0, 1}]
      /\ \A j \in Slot : j # i => ready'[j] = ready[j]
  BY <1>1, <1>2, <1>3 DEF RingTypes, Erasing
<1>8. reader.key \in 0..stored
  BY <1>2 DEF RingTypes, Erasing
<1>9. RingTypes'
  BY <1>1, <1>2, <1>6, <1>7, <1>8 DEF RingTypes, Erasing
<1>10. Once'
  <2>1. \A j \in Slot : ready'[j] = 1 => j # i /\ ready[j] = 1
    BY <1>7
  <2>2. \A j \in Slot : ready[j] = 1 /\ j # i => buffer[j] # 0 /\ buffer[j] \notin got
    BY <1>2, <1>3 DEF Once
  <2> QED BY <1>1, <1>2, <1>6, <2>1, <2>2 DEF Once
<1>11. Windowed'
  <2> SUFFICES ASSUME ~overrun, ~torn
               PROVE  /\ p = "erase" => \A j \in Slot : j < s => ready'[j] = 0
                      /\ p = "reset_wptr" => \A j \in Slot : ready'[j] = 0
    BY <1>1, <1>5, <1>6 DEF Windowed
  <2>1. \A j \in Slot : j < i => ready[j] = 0
    BY <1>1, <1>2, <1>3 DEF Windowed
  <2>2. \A j \in Slot : j < i + 1 => ready'[j] = 0
    <3>1. \A j \in Slot : j < i + 1 => j = i \/ j < i
      BY Sizes DEF Slot
    <3> QED BY <1>7, <2>1, <3>1
  <2>3. \A j \in Slot : j < RING
    BY Sizes DEF Slot
  <2> QED BY <1>4, <1>5, <2>2, <2>3
<1> QED BY <1>9, <1>10, <1>11 DEF Ring

(* It resets the indices of a ring that is empty, one after the other.       *)
LEMMA RingReset ==
  ASSUME Ring, ResetWrite
  PROVE  Ring'
<1>1. /\ reader.pc = "reset_wptr" /\ wptr' = 0
      /\ reader' = [reader EXCEPT !.pc = "reset_rptr"]
      /\ UNCHANGED <<buffer, ready, rptr, stored, got, overrun, torn>>
  BY DEF ResetWrite, ghosts
<1>2. RingTypes /\ Once /\ Windowed
  BY DEF Ring
<1>3. reader.key \in 0..stored /\ reader.i \in Slot /\ 0 \in Slot
  BY <1>2, Sizes DEF RingTypes, Slot, Erasing
<1>4. /\ reader'.pc = "reset_rptr" /\ reader'.key = reader.key /\ reader'.i = reader.i
      /\ reader' = [pc |-> "reset_rptr", key |-> reader.key, i |-> reader.i]
  BY <1>1, <1>2, Readers
<1>5. RingTypes'
  BY <1>1, <1>2, <1>3, <1>4 DEF RingTypes, Erasing
<1>6. Once'
  BY <1>1, <1>2, <1>4 DEF Once
<1>7. Windowed'
  BY <1>1, <1>2, <1>4 DEF Windowed
<1> QED BY <1>5, <1>6, <1>7 DEF Ring

LEMMA RingRewound ==
  ASSUME Ring, ResetRead
  PROVE  Ring'
<1>1. /\ reader.pc = "reset_rptr" /\ rptr' = 0
      /\ reader' = [reader EXCEPT !.pc = "return"]
      /\ UNCHANGED <<buffer, ready, wptr, stored, got, overrun, torn>>
  BY DEF ResetRead, ghosts
<1>2. RingTypes /\ Once /\ Windowed
  BY DEF Ring
<1>3. reader.key \in 0..stored /\ reader.i \in Slot /\ 0 \in Slot
  BY <1>2, Sizes DEF RingTypes, Slot, Erasing
<1>4. /\ reader'.pc = "return" /\ reader'.key = reader.key /\ reader'.i = reader.i
      /\ reader' = [pc |-> "return", key |-> reader.key, i |-> reader.i]
  BY <1>1, <1>2, Readers
<1>5. RingTypes'
  BY <1>1, <1>2, <1>3, <1>4 DEF RingTypes, Erasing
<1>6. Once'
  BY <1>1, <1>2, <1>4 DEF Once
<1>7. Windowed'
  <2> SUFFICES ASSUME ~overrun, ~torn
               PROVE  \E n \in 0..RING : Window(NextRead, n)'
    BY <1>1, <1>4 DEF Windowed
  <2>1. wptr = 0 /\ \A j \in Slot : ready[j] = 0
    BY <1>1, <1>2 DEF Windowed
  <2>2. NextRead' = 0
    BY <1>1, <1>4 DEF NextRead
  <2>3. Dist(0, 0) = 0 /\ (\A j \in Slot : ~(Dist(0, j) < 0)) /\ 0 \in 0..RING /\ 0 # RING
    BY <1>3, Sizes, Distances
  <2>4. Window(0, 0)'
    BY <1>1, <1>3, <2>1, <2>3 DEF Window
  <2> QED BY <2>2, <2>3, <2>4
<1> QED BY <1>5, <1>6, <1>7 DEF Ring

(* The key is handed over, and was not before.                              *)
LEMMA RingReturned ==
  ASSUME Ring, GetReturn
  PROVE  Ring' /\ reader.key \notin got \union {0}
<1>1. /\ reader.pc = "return"
      /\ got' = {k \in got \union {reader.key} : \E i \in Slot : buffer[i] = k}
      /\ reader' = [pc |-> "getkey", key |-> 0, i |-> 0]
      /\ UNCHANGED <<buffer, ready, wptr, rptr, stored, overrun, torn>>
  BY DEF GetReturn, ringVars
<1>2. RingTypes /\ Once /\ Windowed
  BY DEF Ring
<1>3. reader.key # 0 /\ reader.key \notin got
  BY <1>1, <1>2 DEF Once
<1>4. /\ reader.key \in 1..stored /\ got \subseteq 1..stored
      /\ 0 \in Slot /\ rptr \in Slot /\ 0 \in 0..stored
  BY <1>1, <1>2, <1>3, Sizes DEF RingTypes, Slot, Erasing
<1>5. reader'.pc = "getkey" /\ reader'.key = 0 /\ reader'.i = 0
  BY <1>1
<1>6. RingTypes'
  BY <1>1, <1>2, <1>4, <1>5 DEF RingTypes, Erasing
<1>7. Once'
  BY <1>1, <1>2, <1>5 DEF Once
<1>8. Windowed'
  <2>1. \A r, n : Window(r, n)' <=> Window(r, n)
    BY <1>1 DEF Window
  <2>2. NextRead = rptr /\ NextRead' = rptr
    BY <1>1, <1>5 DEF NextRead
  <2> QED BY <1>1, <1>2, <1>5, <2>1, <2>2 DEF Windowed
<1> QED BY <1>3, <1>6, <1>7, <1>8 DEF Ring

-----------------------------------------------------------------------------
(***************************************************************************)
(* The account of the entries: each that was stored has been returned, was *)
(* erased unread, lies in the ring or is on its way.                       *)
(***************************************************************************)
OnItsWay == IF reader.pc \in {"getkey", "unready"} THEN 0 ELSE 1

Counted ==
  /\ delivered \in Nat /\ wiped \in Nat
  /\ reader.pc = "unready" => ready[rptr] = 1
  /\ ~overrun => delivered + wiped + Cardinality(Unread) + OnItsWay = stored

(* A mark that is set or cleared counts for one.                           *)
LEMMA Marked ==
  ASSUME ready \in [Slot -> {0, 1}], NEW s \in Slot, NEW v \in {0, 1},
         ready' = [ready EXCEPT ![s] = v]
  PROVE  /\ Cardinality(Unread) \in Nat
         /\ Cardinality(Unread') = Cardinality(Unread) - ready[s] + v
<1> DEFINE R == {i \in Slot : i # s /\ ready[i] = 1}
<1>1. IsFiniteSet(Slot)
  BY Sizes, FS_Interval DEF Slot
<1>2. IsFiniteSet(R) /\ s \notin R
  BY <1>1, FS_Subset
<1>3. Unread = (IF ready[s] = 1 THEN R \union {s} ELSE R)
  BY DEF Unread
<1>4. Unread' = (IF v = 1 THEN R \union {s} ELSE R)
  <2>1. ready'[s] = v /\ \A i \in Slot : i # s => ready'[i] = ready[i]
    OBVIOUS
  <2>2. Unread' = {i \in Slot : ready'[i] = 1}
    BY DEF Unread
  <2> QED BY <2>1, <2>2
<1> HIDE DEF R
<1>5. Cardinality(R) \in Nat /\ Cardinality(R \union {s}) = Cardinality(R) + 1
  BY <1>2, FS_CardinalityType, FS_AddElement
<1>6. ready[s] \in {0, 1}
  OBVIOUS
<1>7. Cardinality(Unread) = Cardinality(R) + ready[s]
  BY <1>3, <1>5, <1>6
<1>8. Cardinality(Unread') = Cardinality(R) + v
  BY <1>4, <1>5
<1> QED BY <1>5, <1>6, <1>7, <1>8

(* Where neither the marks nor the reader's place change.                  *)
LEMMA CountedSame ==
  ASSUME Counted, UNCHANGED <<ready, rptr, reader, stored, delivered, wiped, overrun>>
  PROVE  Counted'
BY DEF Counted, OnItsWay, Unread

(* The handler stores an entry.                                            *)
LEMMA CountedStored ==
  ASSUME Ring, Counted, Stores, UNCHANGED <<rptr, reader, got, delivered, wiped>>
  PROVE  Counted'
<1>1. /\ ready \in [Slot -> {0, 1}] /\ wptr \in Slot /\ stored \in Nat /\ overrun \in BOOLEAN
      /\ ready' = [ready EXCEPT ![wptr] = 1] /\ stored' = stored + 1
      /\ overrun' = (overrun \/ ready[wptr] = 1)
  BY DEF Ring, RingTypes, Stores, Erasing
<1>2. /\ Cardinality(Unread) \in Nat
      /\ Cardinality(Unread') = Cardinality(Unread) - ready[wptr] + 1
  BY <1>1, Marked
<1>3. OnItsWay' = OnItsWay /\ OnItsWay \in {0, 1}
  BY DEF OnItsWay
<1>4. ~overrun' => delivered' + wiped' + Cardinality(Unread') + OnItsWay' = stored'
  <2> SUFFICES ASSUME ~overrun, ready[wptr] # 1
               PROVE  delivered + wiped + Cardinality(Unread') + OnItsWay' = stored'
    BY <1>1
  <2>1. ready[wptr] = 0
    BY <1>1
  <2>2. delivered + wiped + Cardinality(Unread) + OnItsWay = stored
    BY DEF Counted
  <2>3. PICK c \in Nat, d \in Nat : c = Cardinality(Unread) /\ d = Cardinality(Unread')
    BY <1>2, <2>1
  <2>4. d = c + 1 /\ delivered \in Nat /\ wiped \in Nat
    BY <1>2, <2>1, <2>3 DEF Counted
  <2> QED BY <1>1, <1>3, <2>2, <2>3, <2>4
<1>5. reader.pc = "unready" => ready'[rptr] = 1
  BY <1>1 DEF Counted
<1> QED BY <1>4, <1>5 DEF Counted

(* The reader takes one out, erases one, or returns one.                    *)
LEMMA CountedRead ==
  ASSUME Ring, Counted, Read
  PROVE  Counted'
<1>1. /\ RingTypes /\ ready \in [Slot -> {0, 1}] /\ stored \in Nat
      /\ delivered \in Nat /\ wiped \in Nat
      /\ ~overrun => delivered + wiped + Cardinality(Unread) + OnItsWay = stored
  BY DEF Ring, RingTypes, Counted, Erasing
<1>2. PICK c \in Nat : c = Cardinality(Unread)
  <2>1. IsFiniteSet(Unread)
    <3>1. IsFiniteSet(Slot) /\ Unread \subseteq Slot
      BY Sizes, FS_Interval DEF Slot, Unread
    <3> QED BY <3>1, FS_Subset
  <2> QED BY <2>1, FS_CardinalityType
<1>3. /\ \A p : [reader EXCEPT !.pc = p].pc = p
      /\ \A p, k : [reader EXCEPT !.pc = p, !.key = k].pc = p
      /\ \A p, i : [reader EXCEPT !.pc = p, !.i = i].pc = p
  BY <1>1, Readers
<1>4. CASE GetCopy
  <2>1. /\ reader.pc = "getkey" /\ ready[rptr] = 1
        /\ reader' = [reader EXCEPT !.pc = "unready", !.key = buffer[rptr]]
        /\ UNCHANGED <<ready, rptr, stored, delivered, wiped, overrun>>
    BY <1>4 DEF GetCopy, ringVars, ghosts
  <2>2. reader'.pc = "unready"
    BY <1>3, <2>1
  <2>3. OnItsWay' = OnItsWay /\ Unread' = Unread
    BY <2>1, <2>2 DEF OnItsWay, Unread
  <2> QED BY <1>1, <2>1, <2>3 DEF Counted
<1>5. CASE GetUnready
  <2>1. /\ reader.pc = "unready" /\ ready' = [ready EXCEPT ![rptr] = 0] /\ ready[rptr] = 1
        /\ reader' = [reader EXCEPT !.pc = "advance"] /\ rptr \in Slot
        /\ UNCHANGED <<rptr, stored, delivered, wiped, overrun>>
    BY <1>1, <1>5 DEF GetUnready, ghosts, Counted, RingTypes, Erasing
  <2>2. reader'.pc = "advance"
    BY <1>3, <2>1
  <2>3. OnItsWay = 0 /\ OnItsWay' = 1
    BY <2>1, <2>2 DEF OnItsWay
  <2>4. Cardinality(Unread') = c - 1 + 0
    BY <1>1, <1>2, <2>1, Marked
  <2>5. ~overrun => delivered + wiped + Cardinality(Unread') + 1 = stored
    BY <1>1, <1>2, <2>3, <2>4
  <2> QED BY <1>1, <2>1, <2>2, <2>3, <2>5 DEF Counted
<1>6. CASE EraseReady
  <2>1. /\ reader.pc = "unready_all" /\ ready' = [ready EXCEPT ![reader.i] = 0]
        /\ wiped' = wiped + ready[reader.i] /\ reader.i \in Slot
        /\ reader' = [reader EXCEPT
             !.pc = IF reader.i + 1 = RING THEN "reset_wptr" ELSE "erase", !.i = (reader.i + 1) % RING]
        /\ UNCHANGED <<rptr, stored, delivered, overrun>>
    BY <1>1, <1>6 DEF EraseReady, SlotErased, RingTypes, Erasing
  <2>2. PICK p \in {"erase", "reset_wptr"} :
               p = IF reader.i + 1 = RING THEN "reset_wptr" ELSE "erase"
    OBVIOUS
  <2>3. reader'.pc = p
    BY <1>3, <2>1, <2>2
  <2>4. OnItsWay = 1 /\ OnItsWay' = 1
    BY <2>1, <2>3 DEF OnItsWay
  <2>5. PICK m \in {0, 1} : m = ready[reader.i]
    BY <1>1, <2>1
  <2>6. Cardinality(Unread') = c - m + 0
    BY <1>1, <1>2, <2>1, <2>5, Marked
  <2>7. wiped' \in Nat /\ (~overrun => delivered + wiped' + Cardinality(Unread') + 1 = stored)
    BY <1>1, <1>2, <2>1, <2>4, <2>5, <2>6
  <2>8. reader'.pc # "unready"
    BY <2>3
  <2> QED BY <1>1, <2>1, <2>4, <2>7, <2>8 DEF Counted
<1>7. CASE GetReturn
  <2>1. /\ reader.pc = "return" /\ reader' = [pc |-> "getkey", key |-> 0, i |-> 0]
        /\ delivered' = delivered + 1
        /\ UNCHANGED <<ready, rptr, stored, wiped, overrun>>
    BY <1>7 DEF GetReturn, ringVars
  <2>2. OnItsWay = 1 /\ OnItsWay' = 0 /\ Unread' = Unread /\ reader'.pc = "getkey"
    BY <2>1 DEF OnItsWay, Unread
  <2>3. ~overrun => (delivered + 1) + wiped + c + 0 = stored
    BY <1>1, <1>2, <2>2
  <2> QED BY <1>1, <1>2, <2>1, <2>2, <2>3 DEF Counted
<1>8. CASE GetAdvance \/ EraseBuffer \/ ResetWrite \/ ResetRead
  <2>1. /\ reader.pc \notin {"getkey", "unready"}
        /\ reader'.pc \in {"erase", "return", "unready_all", "reset_rptr"}
        /\ UNCHANGED <<ready, stored, delivered, wiped, overrun>>
    <3>1. CASE GetAdvance
      <4>1. /\ reader.pc = "advance" /\ UNCHANGED <<ready, stored, delivered, wiped, overrun>>
            /\ reader' = [reader EXCEPT !.pc = IF Wrapped THEN "erase" ELSE "return", !.i = 0]
        BY <3>1 DEF GetAdvance, ghosts
      <4>2. reader'.pc = IF Wrapped THEN "erase" ELSE "return"
        BY <1>3, <4>1
      <4> QED BY <4>1, <4>2
    <3>2. CASE EraseBuffer
      <4>1. /\ reader.pc = "erase" /\ reader' = [reader EXCEPT !.pc = "unready_all"]
            /\ UNCHANGED <<ready, stored, delivered, wiped, overrun>>
        BY <3>2 DEF EraseBuffer, ghosts
      <4> QED BY <1>3, <4>1
    <3>3. CASE ResetWrite
      <4>1. /\ reader.pc = "reset_wptr" /\ reader' = [reader EXCEPT !.pc = "reset_rptr"]
            /\ UNCHANGED <<ready, stored, delivered, wiped, overrun>>
        BY <3>3 DEF ResetWrite, ghosts
      <4> QED BY <1>3, <4>1
    <3>4. CASE ResetRead
      <4>1. /\ reader.pc = "reset_rptr" /\ reader' = [reader EXCEPT !.pc = "return"]
            /\ UNCHANGED <<ready, stored, delivered, wiped, overrun>>
        BY <3>4 DEF ResetRead, ghosts
      <4> QED BY <1>3, <4>1
    <3> QED BY <1>8, <3>1, <3>2, <3>3, <3>4
  <2>2. OnItsWay' = OnItsWay /\ Unread' = Unread /\ reader'.pc # "unready"
    BY <2>1 DEF OnItsWay, Unread
  <2> QED BY <1>1, <2>1, <2>2 DEF Counted
<1> QED BY <1>4, <1>5, <1>6, <1>7, <1>8 DEF Read

-----------------------------------------------------------------------------
(***************************************************************************)
(* The invariant of the keyboard and what it gives.                        *)
(***************************************************************************)
LineInv ==
  /\ Waiting /\ down \subseteq Key /\ keyboard_state \subseteq Mods
  /\ Tied(Line, keyboard_state, down, "shift", Shift)
  /\ Tied(Line, keyboard_state, down, "ctrl", Ctrl)
  /\ Tied(Line, keyboard_state, down, "alt", Alt)

KeyboardInv == Ring /\ Counted /\ LineInv

(* Nothing is typed, stored or read at first.                              *)
LEMMA KeyboardInit == Init => KeyboardInv
<1> SUFFICES ASSUME Init PROVE KeyboardInv
  OBVIOUS
<1>1. /\ wire = <<>> /\ down = {} /\ key_buffer = <<>> /\ keyboard_state = {}
      /\ keyboard_cmd_state = 0 /\ stored = 0 /\ got = {} /\ overrun = FALSE /\ torn = FALSE
      /\ delivered = 0 /\ wiped = 0
      /\ wptr = 0 /\ rptr = 0 /\ reader = [pc |-> "getkey", key |-> 0, i |-> 0]
      /\ buffer = [i \in Slot |-> 0] /\ ready = [i \in Slot |-> 0]
  BY DEF Init
<1>2. Line = <<>> /\ <<>> \in Seq(Byte) /\ Len(<<>>) = 0
  BY <1>1 DEF Line
<1>3. Regular(Line)
  BY <1>2 DEF Regular
<1>4. Waiting
  BY <1>1, <1>2, <1>3 DEF Waiting, HandlerTypes, Pending
<1>5. \A m, On : Tied(Line, keyboard_state, down, m, On)
  <2>1. Ends(Line) = {}
    BY <1>2 DEF Ends
  <2> QED BY <1>1, <2>1 DEF Tied, Last, Silent
<1>6. LineInv
  BY <1>1, <1>4, <1>5 DEF LineInv
<1>7. 0 \in Slot /\ 0 \in Nat
  BY Sizes DEF Slot
<1>8. RingTypes
  BY <1>1, <1>7 DEF RingTypes, Erasing
<1>9. Once
  BY <1>1 DEF Once
<1>10. Windowed
  <2>1. Dist(0, 0) = 0 /\ (\A j \in Slot : ~(Dist(0, j) < 0)) /\ 0 \in 0..RING /\ 0 # RING
    BY <1>7, Sizes, Distances
  <2>2. Window(0, 0)
    BY <1>1, <1>7, <2>1 DEF Window
  <2>3. NextRead = 0
    BY <1>1 DEF NextRead
  <2> QED BY <1>1, <2>1, <2>2, <2>3 DEF Windowed
<1>11. Counted
  <2>1. Unread = {} /\ OnItsWay = 0 /\ Cardinality({}) = 0
    BY <1>1, FS_EmptySet DEF Unread, OnItsWay
  <2> QED BY <1>1, <2>1 DEF Counted
<1> QED BY <1>6, <1>8, <1>9, <1>10, <1>11 DEF KeyboardInv, Ring

(* Neither a key pressed or released nor the reader disturbs the other half. *)
LEMMA LineKept ==
  ASSUME LineInv, UNCHANGED <<handlerVars, stored, torn, overrun>>
  PROVE  LineInv'
<1>1. Line' = Line
  BY DEF Line, handlerVars, typist
<1>2. Waiting'
  BY <1>1 DEF LineInv, Waiting, HandlerTypes, handlerVars, typist
<1> QED BY <1>1, <1>2 DEF LineInv, handlerVars, typist

(* Every step keeps the invariant.                                         *)
LEMMA KeyboardStep == KeyboardInv /\ [Next]_vars => KeyboardInv'
<1> SUFFICES ASSUME KeyboardInv, [Next]_vars PROVE KeyboardInv'
  OBVIOUS
<1>1. /\ Ring /\ Counted /\ LineInv /\ Waiting /\ HandlerTypes
      /\ down \subseteq Key /\ keyboard_state \subseteq Mods
  BY DEF KeyboardInv, LineInv, Waiting
<1>2. ASSUME NEW k \in Key, Press(k) \/ Release(k)
      PROVE  KeyboardInv'
  <2>1. Ring'
    BY <1>1, <1>2, RingSame DEF Press, Release, ringVars, ghosts
  <2>2. down' \subseteq Key /\ keyboard_state' = keyboard_state
    BY <1>1, <1>2 DEF Press, Release
  <2>3. LineInv'
    BY <1>1, <1>2, <2>2, TypistTied, ModifierIs DEF LineInv
  <2>4. Counted'
    BY <1>1, <1>2, CountedSame DEF Press, Release, ringVars, ghosts
  <2> QED BY <2>1, <2>3, <2>4 DEF KeyboardInv
<1>3. CASE ps2_handler
  <2>1. PICK n, answers : Takes(n, answers) /\ (Prefixes(n) \/ Completes(n))
    BY <1>1, <1>3, HandlerIs
  <2>2. UNCHANGED <<down, rptr, reader, got, delivered, wiped>>
    BY <2>1 DEF Takes
  <2>3. Ring' /\ Counted'
    <3>1. CASE Stores
      BY <1>1, <2>2, <3>1, RingStored, CountedStored
    <3>2. CASE LeavesRing
      BY <1>1, <2>2, <3>2, RingSame, CountedSame DEF LeavesRing, ringVars
    <3> QED BY <2>1, <3>1, <3>2 DEF Prefixes, Completes
  <2>4. keyboard_state' \subseteq Mods
    <3>1. \/ keyboard_state' = keyboard_state
          \/ \E code : keyboard_state' = Modifiers(keyboard_state, code)
      BY <2>1 DEF Prefixes, Completes
    <3> QED BY <1>1, <3>1, ModifiersSet
  <2>5. LineInv'
    BY <1>1, <1>3, <2>2, <2>4, HandlerTied, ModifierIs DEF LineInv
  <2> QED BY <2>3, <2>5 DEF KeyboardInv
<1>4. CASE Read
  <2>1. Ring'
    BY <1>1, <1>4, RingCopied, RingUnready, RingAdvanced, RingErased, RingUnmarked, RingReset,
       RingRewound, RingReturned DEF Read
  <2>2. UNCHANGED <<handlerVars, stored, torn, overrun>>
    BY <1>4 DEF Read, GetCopy, GetUnready, GetAdvance, EraseBuffer, EraseReady, ResetWrite,
                ResetRead, GetReturn, ghosts
  <2>3. Counted'
    BY <1>1, <1>4, CountedRead
  <2> QED BY <1>1, <2>1, <2>2, <2>3, LineKept DEF KeyboardInv
<1>5. CASE UNCHANGED vars
  <2>1. Ring'
    BY <1>1, <1>5, RingSame DEF vars, ghosts
  <2>2. LineInv'
    BY <1>1, <1>5, LineKept DEF vars, ghosts, handlerVars
  <2>3. Counted'
    BY <1>1, <1>5, CountedSame DEF vars, ghosts, ringVars
  <2> QED BY <2>1, <2>2, <2>3 DEF KeyboardInv
<1> QED BY <1>2, <1>3, <1>4, <1>5 DEF Next

(* The line, the ring and the reader stay in step with each other, whatever *)
(* is typed and wherever the handler interrupts kernel_getkey.              *)
THEOREM KeyboardInductive == Spec => []KeyboardInv
<1> QED BY KeyboardInit, KeyboardStep, PTL DEF Spec

(* What kernel_getkey returns is an entry that the handler stored, never an *)
(* erased slot nor one that it returned before.                             *)
THEOREM KeysOnce == Spec => AtMostOnce
<1>1. KeyboardInv /\ [Next]_vars => [GetReturn => reader.key \notin got \union {0}]_vars
  BY RingReturned DEF KeyboardInv
<1> QED BY <1>1, KeyboardInductive, PTL DEF Spec, AtMostOnce

(* With nothing on the line, the last code about a modifier is the one that *)
(* set it.                                                                  *)
THEOREM NoModifierSticks == Spec => []NoStuckModifier
<1>1. KeyboardInv => NoStuckModifier
  <2> SUFFICES ASSUME KeyboardInv, wire = <<>>, key_buffer = <<>>
               PROVE  /\ "shift" \in keyboard_state => Shift \intersect down # {}
                      /\ "ctrl" \in keyboard_state => Ctrl \intersect down # {}
                      /\ "alt" \in keyboard_state => Alt \intersect down # {}
    BY DEF NoStuckModifier
  <2>1. Line = <<>> /\ Len(<<>>) = 0
    BY DEF Line
  <2>2. Ends(Line) = {}
    BY <2>1 DEF Ends
  <2>3. \A m, On : Tied(Line, keyboard_state, down, m, On) /\ m \in keyboard_state
                     => On \intersect down # {}
    BY <2>2 DEF Tied, Silent
  <2> QED BY <2>3 DEF KeyboardInv, LineInv
<1> QED BY <1>1, KeyboardInductive, PTL

(* The slots of a window are as many as it has keys.                       *)
LEMMA WindowCount ==
  ASSUME Ring, NEW r, NEW n, Window(r, n)
  PROVE  Cardinality({i \in Slot : ready[i] = 1}) = n
<1> DEFINE S == {i \in Slot : ready[i] = 1}
<1> DEFINE f == [j \in 1..n |-> IF r + (j - 1) < RING THEN r + (j - 1) ELSE r + (j - 1) - RING]
<1>1. r \in Nat /\ r < RING /\ n \in Nat /\ n <= RING /\ r \in Slot
  BY Sizes DEF Window, Slot
<1>2. \A i \in Slot : ready[i] = 1 <=> Dist(r, i) < n
  BY DEF Window
<1>3. ASSUME NEW j \in 1..n
      PROVE  f[j] \in Slot /\ Dist(r, f[j]) = j - 1
  BY <1>1, Sizes DEF Dist, Slot
<1>4. \A j \in 1..n : f[j] \in S
  <2> HIDE DEF f
  <2> SUFFICES ASSUME NEW j \in 1..n PROVE f[j] \in S
    OBVIOUS
  <2>1. f[j] \in Slot /\ Dist(r, f[j]) = j - 1 /\ j - 1 < n
    BY <1>1, <1>3
  <2>2. ready[f[j]] = 1
    BY <1>2, <2>1
  <2> QED BY <2>1, <2>2
<1>5. \A i, j \in 1..n : f[i] = f[j] => i = j
  <2> SUFFICES ASSUME NEW i \in 1..n, NEW j \in 1..n, f[i] = f[j] PROVE i = j
    OBVIOUS
  <2>1. Dist(r, f[i]) = i - 1 /\ Dist(r, f[j]) = j - 1
    BY <1>3
  <2> HIDE DEF f
  <2> QED BY <2>1
<1>6. ASSUME NEW i \in S
      PROVE  \E j \in 1..n : f[j] = i
  <2>1. Dist(r, i) \in Nat /\ Dist(r, i) < n /\ i \in Slot
    BY <1>1, <1>2, Sizes, Distances
  <2>2. PICK j \in 1..n : j = Dist(r, i) + 1
    BY <1>1, <2>1
  <2>3. Dist(r, f[j]) = Dist(r, i) /\ f[j] \in Slot
    BY <1>3, <2>1, <2>2
  <2> HIDE DEF f
  <2>4. f[j] = i
    BY <1>1, <2>1, <2>3, Distances
  <2> QED BY <2>4
<1>7. f \in Bijection(1..n, S)
  <2>1. f \in [1..n -> S]
    BY <1>4
  <2> HIDE DEF f, S
  <2> QED BY <1>5, <1>6, <2>1 DEF Bijection, Injection, Surjection, IsInjective
<1>8. ExistsBijection(1..n, S)
  <2> HIDE DEF f, S
  <2> QED BY <1>7 DEF ExistsBijection
<1> QED BY <1>1, <1>8, FS_CountingElements

(* As long as no entry was overwritten unread and none arrived inside       *)
(* init_buffer, the unread ones lie between rptr and wptr in the order they *)
(* were stored in, and all that were stored before them were returned, but  *)
(* for as many as init_buffer erased unread.                                *)
THEOREM WindowHolds == Spec => []PendingWindow
<1>1. KeyboardInv => PendingWindow
  <2> SUFFICES ASSUME KeyboardInv PROVE PendingWindow
    OBVIOUS
  <2>1. Ring /\ Counted /\ LineInv /\ RingTypes /\ Windowed
    BY DEF KeyboardInv, Ring
  <2>2. TypeOK
    <3>1. key_buffer \in Pending /\ keyboard_cmd_state \in {0, 1}
      BY <2>1 DEF LineInv, Waiting, HandlerTypes
    <3>2. Len(key_buffer) <= 2
      <4>1. Len(<<>>) = 0 /\ Len(<<"e0">>) = 1 /\ Len(<<"f0">>) = 1 /\ Len(<<"e0", "f0">>) = 2
        OBVIOUS
      <4>2. PICK l \in {0, 1, 2} : l = Len(key_buffer)
        BY <3>1, <4>1 DEF Pending
      <4>3. l <= 2
        OBVIOUS
      <4> QED BY <4>2, <4>3
    <3> QED BY <2>1, <3>1, <3>2 DEF TypeOK, RingTypes, LineInv, Mods
  <2>3. ASSUME reader.pc = "getkey", ~overrun, ~torn,
               NEW n, n = Cardinality(Unread)
        PROVE  /\ (rptr + n) % RING = wptr
               /\ \A j \in 0..n-1 :
                    /\ ready[(rptr + j) % RING] = 1
                    /\ buffer[(rptr + j) % RING] = stored - n + 1 + j
              /\ delivered + wiped = stored - n
    <3>1. PICK m \in 0..RING : Window(rptr, m)
      BY <2>1, <2>3 DEF Windowed, NextRead
    <3>2. m = n
      BY <2>1, <2>3, <3>1, WindowCount DEF Unread
    <3>3. PICK r \in Slot : r = rptr
      BY <3>1 DEF Window
    <3>4. /\ r \in Nat /\ r < RING /\ n \in Nat /\ n <= RING /\ wptr \in Slot
          /\ IF n = RING THEN wptr = r ELSE Dist(r, wptr) = n
          /\ \A i \in Slot : /\ ready[i] = 1 <=> Dist(r, i) < n
                             /\ Dist(r, i) < n => buffer[i] = stored - n + 1 + Dist(r, i)
      BY <2>1, <3>1, <3>2, <3>3, Sizes DEF Window, RingTypes, Slot, Erasing
    <3>5. (r + n) % RING = wptr
      <4>1. PICK a \in Nat : a = r + n /\ a < 2 * RING
        BY <3>4, Sizes
      <4>2. a % RING = IF a < RING THEN a ELSE a - RING
        BY <4>1, Wrap
      <4>3. wptr = IF a < RING THEN a ELSE a - RING
        BY <3>4, <4>1, Sizes DEF Dist, Slot
      <4> QED BY <4>1, <4>2, <4>3
    <3>6. ASSUME NEW j \in 0..n-1
          PROVE  /\ ready[(r + j) % RING] = 1
                 /\ buffer[(r + j) % RING] = stored - n + 1 + j
      <4>1. PICK a \in Nat : a = r + j /\ a < 2 * RING
        BY <3>4, Sizes
      <4>2. PICK i : i = a % RING
        OBVIOUS
      <4>3. i = IF a < RING THEN a ELSE a - RING
        BY <4>1, <4>2, Wrap
      <4>4. i \in Slot /\ Dist(r, i) = j /\ j < n
        BY <3>4, <4>1, <4>3, Sizes DEF Dist, Slot
      <4>5. ready[i] = 1 /\ buffer[i] = stored - n + 1 + j
        BY <3>4, <4>4
      <4> QED BY <4>1, <4>2, <4>5
    <3>7. delivered + wiped = stored - n
      <4>1. delivered + wiped + n + 0 = stored /\ delivered \in Nat /\ wiped \in Nat
        BY <2>1, <2>3 DEF Counted, OnItsWay
      <4> QED BY <3>4, <4>1
    <3> QED BY <3>3, <3>5, <3>6, <3>7
  <2> QED BY <2>2, <2>3 DEF PendingWindow
<1> QED BY <1>1, KeyboardInductive, PTL
=============================================================================
