---------------------------- MODULE Editor_proofs ----------------------------
(***************************************************************************)
(* The editor for every size of the buffer and of the screen: the cursor   *)
(* stays in the text and on the screen, the buffer is never overrun, and   *)
(* what was saved is what is loaded.                                       *)
(***************************************************************************)
EXTENDS Editor, FiniteSets, NatLemmas, SequenceTheorems, FiniteSetTheorems

Shown == Char \union {Foreign}

Key == {":", "w", "q", "!", Other}

-----------------------------------------------------------------------------
(***************************************************************************)
(* Lines.                                                                  *)
(***************************************************************************)

(* What the search backwards for the start of a line finds.                *)
LEMMA LineStartIs ==
  ASSUME NEW t, NEW loc \in Nat, NEW s, s = LineStart(t, loc)
  PROVE  /\ s \in 0..loc
         /\ s = 0 \/ t[s] = NL
         /\ \A r \in s+1..loc : t[r] # NL
<1> DEFINE Starts == {r \in 0..loc : r = 0 \/ t[r] = NL}
           IsStart(r) == /\ r = 0 \/ t[r] = NL
                         /\ \A q \in r+1..loc : t[q] # NL
<1>1. Starts \subseteq 0..loc /\ 0 \in Starts
  OBVIOUS
<1>2. PICK r \in Starts : \A q \in Starts : q <= r
  <2> HIDE DEF Starts
  <2> QED BY <1>1, GreatestNat
<1>3. r \in 0..loc /\ IsStart(r)
  <2>1. ASSUME NEW q \in r+1..loc PROVE t[q] # NL
    <3>1. q \in 0..loc /\ ~(q <= r)
      BY <1>1
    <3> QED BY <1>2, <3>1
  <2> QED BY <2>1
<1>4. s = CHOOSE q \in 0..loc : IsStart(q)
  BY DEF LineStart
<1>5. s \in 0..loc /\ IsStart(s)
  <2> HIDE DEF IsStart
  <2> QED BY <1>3, <1>4
<1> QED BY <1>5

(* What the search for the end of a line finds.                            *)
LEMMA LineEndIs ==
  ASSUME NEW t, Len(t) \in Nat, NEW loc \in Int, -1 <= loc, loc <= Len(t),
         NEW e, e = LineEnd(t, loc)
  PROVE  /\ e \in loc..Len(t)
         /\ e = Len(t) \/ At(t, e) = NL
         /\ \A r \in loc..e-1 : At(t, r) # NL
<1> DEFINE Ends == {x \in 0..Len(t)+1 : x - 1 >= loc /\ (x - 1 = Len(t) \/ At(t, x - 1) = NL)}
           IsEnd(r) == /\ r = Len(t) \/ At(t, r) = NL
                       /\ \A q \in loc..r-1 : At(t, q) # NL
<1>1. PICK n \in Nat : n = Len(t)
  OBVIOUS
<1>2. Ends \subseteq Nat /\ n + 1 \in Ends
  BY <1>1
<1>3. PICK x \in Ends : \A y \in Ends : x <= y
  <2> HIDE DEF Ends
  <2> QED BY <1>2, LeastNat
<1>4. x - 1 \in loc..n /\ IsEnd(x - 1)
  <2>1. ASSUME NEW q \in loc..x-1-1 PROVE At(t, q) # NL
    <3>1. q + 1 \in 0..n+1 /\ ~(x <= q + 1) /\ q + 1 - 1 = q
      BY <1>1, <1>3
    <3>2. q + 1 \notin Ends
      BY <1>3, <3>1
    <3> QED BY <1>1, <3>1, <3>2
  <2> QED BY <1>1, <1>3, <2>1
<1>5. e = CHOOSE q \in loc..n : IsEnd(q)
  BY <1>1 DEF LineEnd
<1>6. e \in loc..n /\ IsEnd(e)
  <2>1. PICK z : z = x - 1
    OBVIOUS
  <2>2. z \in loc..n /\ IsEnd(z)
    BY <1>4, <2>1
  <2> HIDE DEF IsEnd
  <2> QED BY <1>5, <2>2
<1> QED BY <1>1, <1>6

(* The first location that is not drawn.                                   *)
LEMMA PageEndIs ==
  ASSUME NEW t, Len(t) \in Nat, NEW page \in 0..Len(t), NEW e, e = PageEnd(t, page)
  PROVE  /\ e \in page..Len(t)
         /\ e = Len(t) \/ Pos(t, page)[e].row >= ROW_LEN
         /\ \A loc \in page..Len(t) : Pos(t, page)[loc].row >= ROW_LEN => e <= loc
<1>1. PICK n \in Nat : n = Len(t)
  OBVIOUS
<1>2. PICK pos : pos = Pos(t, page)
  OBVIOUS
<1> DEFINE hidden == {loc \in page..n : pos[loc].row >= ROW_LEN}
<1>3. e = IF hidden = {} THEN n
          ELSE CHOOSE loc \in hidden : \A other \in hidden : loc <= other
  BY <1>1, <1>2 DEF PageEnd
<1>4. hidden \subseteq Nat
  BY <1>1
<1>5. CASE hidden = {}
  BY <1>1, <1>2, <1>3, <1>5
<1>6. CASE hidden # {}
  <2>1. e \in hidden /\ \A other \in hidden : e <= other
    <3> HIDE DEF hidden
    <3>1. \E x \in hidden : \A y \in hidden : x <= y
      BY <1>4, <1>6, LeastNat
    <3> QED BY <1>3, <1>6, <3>1
  <2> QED BY <1>1, <1>2, <2>1
<1> QED BY <1>5, <1>6

-----------------------------------------------------------------------------
(***************************************************************************)
(* What load_file keeps of a file.                                         *)
(***************************************************************************)
OneMore(s, c) == IF c = CR THEN s ELSE Append(s, c)

KeptUpTo(f, m, g) ==
  g = [i \in 0..m |-> IF i = 0 THEN <<>> ELSE OneMore(g[i - 1], f[i])]

(* The loop over the characters is the function its definition describes.  *)
LEMMA KeptExists ==
  ASSUME NEW f, NEW n \in Nat
  PROVE  \E g : KeptUpTo(f, n, g)
<1> DEFINE P(m) == \E g : KeptUpTo(f, m, g)
<1> DEFINE Bad == {m \in 0..n : ~P(m)}
<1>1. P(0)
  <2>1. KeptUpTo(f, 0, [i \in 0..0 |-> <<>>])
    BY DEF KeptUpTo
  <2> QED BY <2>1
<1>2. ASSUME NEW m \in 1..n, P(m - 1) PROVE P(m)
  <2>1. PICK g : KeptUpTo(f, m - 1, g)
    BY <1>2
  <2>2. /\ DOMAIN g = 0..m-1
        /\ \A i \in 0..m-1 : g[i] = IF i = 0 THEN <<>> ELSE OneMore(g[i - 1], f[i])
    BY <2>1 DEF KeptUpTo
  <2>3. PICK x : x = OneMore(g[m - 1], f[m])
    OBVIOUS
  <2>4. PICK h : h = [i \in 0..m |-> IF i = m THEN x ELSE g[i]]
    OBVIOUS
  <2>5. ASSUME NEW i \in 0..m
        PROVE  h[i] = IF i = 0 THEN <<>> ELSE OneMore(h[i - 1], f[i])
    <3>1. i = 0 \/ (i - 1 \in 0..m /\ i - 1 # m)
      OBVIOUS
    <3>2. i = m \/ i \in 0..m-1
      OBVIOUS
    <3>3. i = 0 \/ h[i - 1] = g[i - 1]
      BY <2>4, <3>1
    <3>4. CASE i = m
      BY <2>3, <2>4, <3>3, <3>4
    <3>5. CASE i # m
      BY <2>2, <2>4, <3>2, <3>3, <3>5
    <3> QED BY <3>4, <3>5
  <2>6. PICK k : k = [i \in 0..m |-> IF i = 0 THEN <<>> ELSE OneMore(h[i - 1], f[i])]
    OBVIOUS
  <2>7. h = k
    <3>1. \A i \in 0..m : h[i] = k[i]
      BY <2>5, <2>6
    <3>2. /\ DOMAIN h = 0..m /\ DOMAIN k = 0..m
          /\ h = [i \in 0..m |-> h[i]] /\ k = [i \in 0..m |-> k[i]]
      BY <2>4, <2>6
    <3> QED BY <3>1, <3>2
  <2> QED BY <2>6, <2>7 DEF KeptUpTo
<1>3. \A k : k \in Bad <=> k \in 0..n /\ ~P(k)
  OBVIOUS
<1> HIDE DEF P, Bad
<1>4. ASSUME Bad # {} PROVE FALSE
  <2>1. Bad \subseteq Nat
    BY <1>3
  <2>2. PICK x \in Bad : \A y \in Bad : x <= y
    BY <1>4, <2>1, LeastNat
  <2>3. x \in 1..n /\ ~P(x) /\ ~P(x - 1) /\ x - 1 \in 0..n
    BY <1>1, <1>2, <1>3, <2>2
  <2> QED BY <1>3, <2>2, <2>3
<1>5. P(n)
  BY <1>3, <1>4
<1> QED BY <1>5 DEF P

(* The characters of the file are gone through one by one.                 *)
LEMMA KeptIs ==
  ASSUME NEW f, Len(f) \in Nat
  PROVE  \E g : /\ Kept(f) = g[Len(f)] /\ g[0] = <<>>
                /\ \A i \in 1..Len(f) : g[i] = OneMore(g[i - 1], f[i])
<1>1. PICK n \in Nat : n = Len(f)
  OBVIOUS
<1>2. PICK g : g = CHOOSE kept : KeptUpTo(f, n, kept)
  OBVIOUS
<1>3. KeptUpTo(f, n, g)
  BY <1>2, KeptExists
<1>4. Kept(f) = g[n]
  BY <1>1, <1>2 DEF Kept, KeptUpTo, OneMore
<1>5. \A i \in 0..n : g[i] = IF i = 0 THEN <<>> ELSE OneMore(g[i - 1], f[i])
  BY <1>3 DEF KeptUpTo
<1>6. g[0] = <<>>
  BY <1>5
<1>7. ASSUME NEW i \in 1..n PROVE g[i] = OneMore(g[i - 1], f[i])
  <2>1. i \in 0..n /\ i # 0
    OBVIOUS
  <2> QED BY <1>5, <2>1
<1> QED BY <1>1, <1>4, <1>6, <1>7

(* What is kept are characters of the file, at most as many, and no        *)
(* carriage return; a text without one is kept as it is.                   *)
LEMMA KeptFacts ==
  ASSUME NEW C, NEW f \in Seq(C \union {CR})
  PROVE  /\ Kept(f) \in Seq(C)
         /\ Len(Kept(f)) <= Len(f)
         /\ (\A i \in 1..Len(f) : f[i] # CR) => Kept(f) = f
<1>1. PICK n \in Nat : n = Len(f)
  BY LenProperties
<1>2. PICK g : /\ Kept(f) = g[n] /\ g[0] = <<>>
               /\ \A i \in 1..n : g[i] = OneMore(g[i - 1], f[i])
  BY <1>1, KeptIs
<1> DEFINE Clean == \A i \in 1..n : f[i] # CR
           P(m) == /\ g[m] \in Seq(C) /\ Len(g[m]) <= m
                   /\ Clean => Len(g[m]) = m /\ \A i \in 1..m : g[m][i] = f[i]
           Bad == {m \in 0..n : ~P(m)}
<1>3. P(0)
  BY <1>2
<1>4. ASSUME NEW m \in 1..n, P(m - 1) PROVE P(m)
  <2>1. PICK s : s = g[m - 1]
    OBVIOUS
  <2>2. PICK c : c = f[m]
    OBVIOUS
  <2>3. s \in Seq(C) /\ Len(s) <= m - 1 /\ g[m] = OneMore(s, c) /\ c \in C \union {CR}
    BY <1>1, <1>2, <1>4, <2>1, <2>2, ElementOfSeq
  <2>4. Clean => Len(s) = m - 1 /\ \A i \in 1..m-1 : s[i] = f[i]
    BY <1>4, <2>1
  <2>5. CASE c = CR
    <3>1. g[m] = s /\ ~Clean
      BY <2>2, <2>3, <2>5 DEF OneMore
    <3> QED BY <2>3, <3>1
  <2>6. CASE c # CR
    <3>1. PICK u : u = Append(s, c)
      OBVIOUS
    <3>2. g[m] = u /\ c \in C
      BY <2>3, <2>6, <3>1 DEF OneMore
    <3>3. /\ u \in Seq(C) /\ Len(u) = Len(s) + 1 /\ u[Len(s) + 1] = c
          /\ \A i \in 1..Len(s) : u[i] = s[i]
      BY <2>3, <3>1, <3>2, AppendProperties
    <3>4. Clean => Len(u) = m /\ \A i \in 1..m : u[i] = f[i]
      BY <2>2, <2>4, <3>3
    <3>5. Len(s) \in Nat /\ Len(u) <= m
      BY <2>3, <3>3, LenProperties
    <3> QED BY <3>2, <3>3, <3>4, <3>5
  <2> QED BY <2>5, <2>6
<1>5. \A k : k \in Bad <=> k \in 0..n /\ ~P(k)
  OBVIOUS
<1>6. P(n)
  <2> HIDE DEF P, Bad
  <2>1. CASE Bad # {}
    <3>1. Bad \subseteq Nat
      BY <1>5
    <3>2. PICK x \in Bad : \A y \in Bad : x <= y
      BY <2>1, <3>1, LeastNat
    <3>3. x \in 1..n /\ ~P(x) /\ ~P(x - 1) /\ x - 1 \in 0..n
      BY <1>3, <1>4, <1>5, <3>2
    <3> QED BY <1>5, <3>2, <3>3
  <2> QED BY <1>5, <2>1
<1>7. Kept(f) \in Seq(C) /\ Len(Kept(f)) <= n
  BY <1>2, <1>6
<1>8. ASSUME Clean PROVE Kept(f) = f
  <2>1. PICK k : k = Kept(f)
    OBVIOUS
  <2>2. k \in Seq(C \union {CR}) /\ Len(k) = n /\ \A i \in 1..n : k[i] = f[i]
    <3>1. k \in Seq(C)
      BY <1>7, <2>1
    <3>2. k \in [1..Len(k) -> C] /\ Len(k) \in Nat
      BY <3>1, LenProperties
    <3>3. k \in [1..Len(k) -> C \union {CR}]
      BY <3>2
    <3> QED BY <1>2, <1>6, <1>8, <2>1, <3>2, <3>3, SeqDef
  <2>3. k = f
    BY <1>1, <2>2, SeqEqual
  <2> QED BY <2>1, <2>3
<1> QED BY <1>1, <1>7, <1>8

-----------------------------------------------------------------------------
(***************************************************************************)
(* Insertion and deletion.                                                 *)
(***************************************************************************)

(* The sizes and the characters the assumption is about.                   *)
LEMMA Sizes ==
  /\ BUFFER_SIZE \in Nat /\ BUFFER_SIZE > 2
  /\ ROW_LEN \in Nat \ {0} /\ COLUMN_LEN \in Nat \ {0} /\ MaxInst \in Nat \ {0}
  /\ Files \subseteq Seq(Shown \union {CR})
  /\ CR \notin Shown /\ NL \in Shown /\ Foreign \in Shown /\ Char \subseteq Shown
<1>1. /\ BUFFER_SIZE \in Nat /\ BUFFER_SIZE > 2
      /\ ROW_LEN \in Nat \ {0} /\ COLUMN_LEN \in Nat \ {0} /\ MaxInst \in Nat \ {0}
  BY EditorAssumption
<1>2. CR \notin Shown /\ NL \in Shown /\ Foreign \in Shown /\ Char \subseteq Shown
  BY EditorAssumption DEF Shown, Char, NL, CR, Foreign
<1>3. ASSUME NEW f \in Files PROVE f \in Seq(Shown \union {CR})
  <2>1. f \in Seq(Char \union {CR}) /\ Char \union {CR} \subseteq Shown \union {CR}
    BY <1>2, EditorAssumption
  <2> QED BY <2>1, SeqMonotonic
<1> QED BY <1>1, <1>2, <1>3

(* A part of a sequence.                                                   *)
LEMMA Part ==
  ASSUME NEW C, NEW s \in Seq(C), NEW from \in Nat, NEW m \in Nat, from + m <= Len(s),
         NEW u, u = SubSeq(s, from + 1, from + m)
  PROVE  u \in Seq(C) /\ Len(u) = m /\ \A i \in 1..m : u[i] = s[from + i]
<1>1. \A i \in 1..Len(s) : s[i] \in C
  BY ElementOfSeq
<1>2. Len(s) \in Nat
  BY LenProperties
<1>3. PICK a : a = from + 1
  OBVIOUS
<1>4. PICK b : b = from + m
  OBVIOUS
<1>5. \A i \in a..b : s[i] \in C
  BY <1>1, <1>2, <1>3, <1>4
<1>6. a \in Int /\ b \in Int
  BY <1>3, <1>4
<1>7. /\ u \in Seq(C) /\ Len(u) = IF a <= b THEN b - a + 1 ELSE 0
      /\ \A i \in 1..b-a+1 : u[i] = s[a + i - 1]
  BY <1>3, <1>4, <1>5, <1>6, SubSeqProperties
<1>8. ASSUME NEW i \in 1..m PROVE u[i] = s[from + i]
  <2>1. i \in 1..b-a+1 /\ a + i - 1 = from + i
    BY <1>3, <1>4
  <2> QED BY <1>7, <2>1
<1>9. Len(u) = m
  BY <1>3, <1>4, <1>7
<1> QED BY <1>7, <1>8, <1>9

(* Two sequences one after the other.                                      *)
LEMMA Chained ==
  ASSUME NEW C, NEW s \in Seq(C), NEW r \in Seq(C)
  PROVE  /\ s \o r \in Seq(C) /\ Len(s \o r) = Len(s) + Len(r)
         /\ \A i \in 1..Len(s) : (s \o r)[i] = s[i]
         /\ \A i \in 1..Len(r) : (s \o r)[Len(s) + i] = r[i]
<1>1. PICK x : x = s \o r
  OBVIOUS
<1>2. PICK a \in Nat : a = Len(s)
  BY LenProperties
<1>3. PICK b \in Nat : b = Len(r)
  BY LenProperties
<1>4. /\ x \in Seq(C) /\ Len(x) = a + b
      /\ \A i \in 1..a + b : x[i] = IF i <= a THEN s[i] ELSE r[i - a]
  BY <1>1, <1>2, <1>3, ConcatProperties
<1>5. ASSUME NEW i \in 1..a PROVE x[i] = s[i]
  <2>1. i \in 1..a + b /\ i <= a
    OBVIOUS
  <2> QED BY <1>4, <2>1
<1>6. ASSUME NEW i \in 1..b PROVE x[a + i] = r[i]
  <2>1. PICK k : k = a + i
    OBVIOUS
  <2>2. k \in 1..a + b /\ ~(k <= a) /\ k - a = i
    BY <2>1
  <2> QED BY <1>4, <2>1, <2>2
<1> QED BY <1>1, <1>2, <1>3, <1>4, <1>5, <1>6

(* Deletion closes the gap and changes nothing before it.                  *)
LEMMA DeletedIs ==
  ASSUME NEW C, text \in Seq(C), NEW n \in Nat, n = Len(text), NEW site \in 0..n-1,
         NEW t, t = Deleted(site)
  PROVE  /\ t \in Seq(C) /\ Len(t) = n - 1
         /\ \A i \in 1..site : t[i] = text[i]
         /\ \A i \in site+1..n-1 : t[i] = text[i + 1]
<1>1. PICK u : u = SubSeq(text, 1, site)
  OBVIOUS
<1>2. PICK w : w = SubSeq(text, site + 2, n)
  OBVIOUS
<1>3. u \in Seq(C) /\ Len(u) = site /\ \A i \in 1..site : u[i] = text[i]
  <2>1. u = SubSeq(text, 0 + 1, 0 + site) /\ 0 + site <= Len(text) /\ site \in Nat
    BY <1>1
  <2>2. u \in Seq(C) /\ Len(u) = site /\ \A i \in 1..site : u[i] = text[0 + i]
    BY <2>1, Part
  <2>3. \A i \in 1..site : 0 + i = i
    OBVIOUS
  <2> QED BY <2>2, <2>3
<1>4. PICK m \in Nat : m = n - 1 - site
  OBVIOUS
<1>5. PICK from \in Nat : from = site + 1
  OBVIOUS
<1>6. w \in Seq(C) /\ Len(w) = m /\ \A i \in 1..m : w[i] = text[from + i]
  <2>1. site + 2 = from + 1 /\ n = from + m /\ from + m <= Len(text)
    BY <1>4, <1>5
  <2>2. w = SubSeq(text, from + 1, from + m) /\ from + m <= Len(text)
    BY <1>2, <2>1
  <2> HIDE <1>4, <1>5
  <2> QED BY <2>2, Part
<1>7. t = u \o w
  <2>1. ~(site < 0) /\ Len(text) = n
    OBVIOUS
  <2> QED BY <1>1, <1>2, <2>1 DEF Deleted
<1>8. /\ t \in Seq(C) /\ Len(t) = site + m
      /\ \A i \in 1..site : t[i] = u[i]
      /\ \A i \in 1..m : t[site + i] = w[i]
  <2>1. /\ u \o w \in Seq(C) /\ Len(u \o w) = Len(u) + Len(w)
        /\ \A i \in 1..Len(u) : (u \o w)[i] = u[i]
        /\ \A i \in 1..Len(w) : (u \o w)[Len(u) + i] = w[i]
    <3>1. u \in Seq(C) /\ w \in Seq(C)
      BY <1>3, <1>6
    <3> QED BY <3>1, Chained
  <2> QED BY <1>3, <1>6, <1>7, <2>1
<1>9. ASSUME NEW i \in site+1..n-1 PROVE t[i] = text[i + 1]
  <2>1. PICK j : j = i - site
    OBVIOUS
  <2>2. j \in 1..m /\ site + j = i /\ from + j = i + 1
    BY <1>4, <1>5, <2>1
  <2> QED BY <1>6, <1>8, <2>2
<1> QED BY <1>3, <1>4, <1>8, <1>9

(* Insertion moves what follows by one place.                              *)
LEMMA InsertedIs ==
  ASSUME NEW C, text \in Seq(C), NEW n \in Nat, n = Len(text), NEW site \in 0..n,
         NEW key \in C, NEW t, t = Inserted(key, site)
  PROVE  /\ t \in Seq(C) /\ Len(t) = n + 1 /\ t[site + 1] = key
         /\ \A i \in 1..site : t[i] = text[i]
         /\ \A i \in site+2..n+1 : t[i] = text[i - 1]
<1>1. PICK u : u = SubSeq(text, 1, site)
  OBVIOUS
<1>2. PICK w : w = SubSeq(text, site + 1, n)
  OBVIOUS
<1>3. u \in Seq(C) /\ Len(u) = site /\ \A i \in 1..site : u[i] = text[i]
  <2>1. u = SubSeq(text, 0 + 1, 0 + site) /\ 0 + site <= Len(text) /\ site \in Nat
    BY <1>1
  <2>2. u \in Seq(C) /\ Len(u) = site /\ \A i \in 1..site : u[i] = text[0 + i]
    BY <2>1, Part
  <2>3. \A i \in 1..site : 0 + i = i
    OBVIOUS
  <2> QED BY <2>2, <2>3
<1>4. PICK m \in Nat : m = n - site
  <2>1. n - site \in Nat
    OBVIOUS
  <2> QED BY <2>1
<1>5. w \in Seq(C) /\ Len(w) = m /\ \A i \in 1..m : w[i] = text[site + i]
  <2>1. n = site + m /\ site + m <= Len(text) /\ site \in Nat
    BY <1>4
  <2>2. w = SubSeq(text, site + 1, site + m)
    BY <1>2, <2>1
  <2> QED BY <1>4, <2>1, <2>2, Part
<1>6. PICK k : k = <<key>>
  OBVIOUS
<1>7. k \in Seq(C) /\ Len(k) = 1 /\ k[1] = key
  BY <1>6
<1>8. PICK x : x = u \o k
  OBVIOUS
<1>9. PICK p \in Nat : p = site + 1
  OBVIOUS
<1>10. /\ x \in Seq(C) /\ Len(x) = p
       /\ \A i \in 1..site : x[i] = u[i]
       /\ x[p] = key
  <2>1. /\ x \in Seq(C) /\ Len(x) = site + 1
        /\ \A i \in 1..site : x[i] = u[i]
        /\ \A i \in 1..1 : x[site + i] = k[i]
    <3>1. /\ u \o k \in Seq(C) /\ Len(u \o k) = Len(u) + Len(k)
          /\ \A i \in 1..Len(u) : (u \o k)[i] = u[i]
          /\ \A i \in 1..Len(k) : (u \o k)[Len(u) + i] = k[i]
      <4>1. u \in Seq(C) /\ k \in Seq(C)
        BY <1>3, <1>7
      <4> QED BY <4>1, Chained
    <3> QED BY <1>3, <1>7, <1>8, <3>1
  <2>2. x[site + 1] = k[1]
    BY <2>1
  <2> QED BY <1>7, <1>9, <2>1, <2>2
<1>11. t = x \o w
  <2>1. ~(site < 0) /\ Len(text) = n
    OBVIOUS
  <2> QED BY <1>1, <1>2, <1>6, <1>8, <2>1 DEF Inserted
<1>12. /\ t \in Seq(C) /\ Len(t) = p + m
       /\ \A i \in 1..p : t[i] = x[i]
       /\ \A i \in 1..m : t[p + i] = w[i]
  <2>1. /\ x \o w \in Seq(C) /\ Len(x \o w) = Len(x) + Len(w)
        /\ \A i \in 1..Len(x) : (x \o w)[i] = x[i]
        /\ \A i \in 1..Len(w) : (x \o w)[Len(x) + i] = w[i]
    <3>1. x \in Seq(C) /\ w \in Seq(C)
      BY <1>5, <1>10
    <3> QED BY <3>1, Chained
  <2> QED BY <1>5, <1>10, <1>11, <2>1
<1>13. t[site + 1] = key
  <2>1. p \in 1..p
    BY <1>9
  <2> QED BY <1>9, <1>10, <1>12, <2>1
<1>14. ASSUME NEW i \in 1..site PROVE t[i] = text[i]
  <2>1. i \in 1..p
    BY <1>9
  <2> QED BY <1>3, <1>10, <1>12, <2>1
<1>15. ASSUME NEW i \in site+2..n+1 PROVE t[i] = text[i - 1]
  <2>1. PICK j : j = i - p
    OBVIOUS
  <2>2. j \in 1..m /\ p + j = i /\ site + j = i - 1
    BY <1>4, <1>9, <2>1
  <2> QED BY <1>5, <1>12, <2>2
<1> QED BY <1>4, <1>9, <1>12, <1>13, <1>14, <1>15

(* Before the buffer, insertion and deletion move the whole text.          *)
LEMMA ShiftedIs ==
  ASSUME NEW C, text \in Seq(C), below \in C, NEW n \in Nat, n = Len(text),
         NEW site \in Int, site < 0
  PROVE  /\ n > 0 => Deleted(site) \in Seq(C) /\ Len(Deleted(site)) = n - 1 /\ text[1] \in C
         /\ \A key : Inserted(key, site) \in Seq(C) /\ Len(Inserted(key, site)) = n + 1
<1>1. ASSUME n > 0
      PROVE  Deleted(site) \in Seq(C) /\ Len(Deleted(site)) = n - 1 /\ text[1] \in C
  <2>1. text # <<>>
    BY <1>1
  <2>2. 1 \in 1..n
    BY <1>1
  <2>3. Tail(text) \in Seq(C) /\ Len(Tail(text)) = n - 1
    BY <2>1, HeadTailProperties
  <2>4. text[1] \in C
    BY <2>2, ElementOfSeq
  <2> QED BY <2>3, <2>4 DEF Deleted
<1>2. ASSUME NEW key
      PROVE  Inserted(key, site) \in Seq(C) /\ Len(Inserted(key, site)) = n + 1
  <2>1. PICK k : k = <<below>>
    OBVIOUS
  <2>2. k \in Seq(C) /\ Len(k) = 1
    BY <2>1
  <2>3. k \o text \in Seq(C) /\ Len(k \o text) = 1 + n
    <3>1. /\ k \o text \in Seq(C) /\ Len(k \o text) = Len(k) + Len(text)
          /\ \A i \in 1..Len(k) : (k \o text)[i] = k[i]
          /\ \A i \in 1..Len(text) : (k \o text)[Len(k) + i] = text[i]
      <4>1. k \in Seq(C) /\ text \in Seq(C)
        BY <2>2
      <4> QED BY <4>1, Chained
    <3> QED BY <2>2, <3>1
  <2>4. Inserted(key, site) = k \o text
    BY <2>1 DEF Inserted
  <2> QED BY <2>3, <2>4
<1> QED BY <1>1, <1>2

-----------------------------------------------------------------------------
(***************************************************************************)
(* The inductive invariant.  In the text and on it: while the editor runs, *)
(* the cursor is before the end of the text and so is the page, unless the *)
(* text is empty, and the last character is a newline until the cursor has *)
(* slipped off.                                                            *)
(***************************************************************************)
Contents ==
  /\ text \in Seq(Shown) /\ Len(text) <= BUFFER_SIZE
  /\ below \in Shown
  /\ file \in Seq(Shown \union {CR}) \union {NoFile}

Modes ==
  /\ mode \in 0..2 /\ err \in 0..2
  /\ inst \in Seq(Key) /\ Len(inst) <= MaxInst
  /\ slipped \in BOOLEAN /\ wide \in BOOLEAN

CursorPlace ==
  /\ cursor_location \in -1..BUFFER_SIZE + 1
  /\ err = 0 => cursor_location <= Len(text) - 1

PagePlace ==
  /\ page_location \in Nat /\ page_end \in page_location..Len(text)
  /\ err = 0 => page_location < Len(text) \/ page_location = 0

EndsWithNewline ==
  (err = 0 /\ ~slipped) => cursor_location >= 0 /\ text[Len(text)] = NL

EditorInv == Contents /\ Modes /\ CursorPlace /\ PagePlace /\ EndsWithNewline

(* What the runs check follows from it.                                    *)
LEMMA InvIsEnough == EditorInv => CursorInText
<1> SUFFICES ASSUME EditorInv PROVE CursorInText
  OBVIOUS
<1> USE DEF EditorInv
<1>1. PICK n \in Nat : n = Len(text)
  BY LenProperties DEF Contents
<1>2. \A i \in 1..Len(text) : text[i] \in Char \union {Foreign}
  BY ElementOfSeq DEF Contents, Shown
<1>3. TypeOK
  <2>1. Len(text) \in 0..BUFFER_SIZE
    BY <1>1, Sizes DEF Contents
  <2>2. 0 <= page_location /\ page_location <= page_end /\ page_end <= Len(text)
    BY <1>1 DEF PagePlace
  <2> QED BY <1>2, <2>1, <2>2 DEF TypeOK, Modes, CursorPlace, Contents, Shown
<1>4. ASSUME err = 0, ~slipped
      PROVE  cursor_location \in 0..Len(text) - 1 /\ text[Len(text)] = NL
  BY <1>1, <1>4 DEF CursorPlace, EndsWithNewline
<1> QED BY <1>3, <1>4 DEF CursorInText

(* The page moves to a place in the text.                                  *)
LEMMA PageMoves ==
  ASSUME NEW t, NEW n \in Nat, n = Len(t), page_location \in 0..n
  PROVE  /\ page_location_last_line(t) \in 0..page_location
         /\ page_location_last_line(t) = 0 \/ page_location_last_line(t) < page_location
         /\ (page_location < n \/ page_location = 0) =>
              /\ page_location_next_line(t) \in page_location..n
              /\ page_location_next_line(t) < n \/ page_location_next_line(t) = 0
<1>1. PICK p \in 0..n : p = page_location
  OBVIOUS
<1>2. PICK q : q = page_location_last_line(t)
  OBVIOUS
<1>3. q \in 0..p /\ (q = 0 \/ q < p)
  <2>1. CASE p = 0
    BY <1>1, <1>2, <2>1 DEF page_location_last_line
  <2>2. CASE p # 0
    <3>1. PICK m \in Nat : m = p - 1
      BY <2>2
    <3>2. q = LineStart(t, m)
      BY <1>1, <1>2, <2>2, <3>1 DEF page_location_last_line
    <3>3. q \in 0..m
      BY <3>2, LineStartIs
    <3> QED BY <3>1, <3>3
  <2> QED BY <2>1, <2>2
<1>4. PICK e : e = LineEnd(t, p)
  OBVIOUS
<1>5. e \in p..n
  <2>1. p \in Int /\ -1 <= p /\ p <= n
    OBVIOUS
  <2> QED BY <1>4, <2>1, LineEndIs
<1>6. PICK r : r = page_location_next_line(t)
  OBVIOUS
<1>7. r = IF e + 1 < n THEN e + 1 ELSE p
  BY <1>1, <1>4, <1>6 DEF page_location_next_line
<1>8. (p < n \/ p = 0) => r \in p..n /\ (r < n \/ r = 0)
  BY <1>5, <1>7
<1> QED BY <1>1, <1>2, <1>3, <1>6, <1>8

(* Showing a text with the cursor and the page in it.                      *)
LEMMA ShowKeeps ==
  ASSUME NEW n \in Nat, n <= BUFFER_SIZE, NEW t \in Seq(Shown), n = Len(t),
         NEW c \in Int, -1 <= c, c <= n, NEW page \in 0..n,
         wide \in BOOLEAN, Show(t, c, page), err' \in 0..2,
         err' = 0 => c <= n - 1 /\ (page < n \/ page = 0)
  PROVE  /\ text' \in Seq(Shown) /\ Len(text') <= BUFFER_SIZE /\ wide' \in BOOLEAN
         /\ CursorPlace' /\ PagePlace'
<1>1. text' = t /\ cursor_location' = c /\ page_location' = page /\ page_end' = PageEnd(t, page)
  BY DEF Show
<1>2. wide' \in BOOLEAN
  BY Zenon DEF Show
<1>3. page_end' \in page..n
  <2>1. PICK e : e = PageEnd(t, page)
    OBVIOUS
  <2>2. e \in page..Len(t)
    BY <2>1, PageEndIs
  <2> QED BY <1>1, <2>1, <2>2
<1>4. CursorPlace'
  BY <1>1, Sizes DEF CursorPlace
<1>5. PagePlace'
  BY <1>1, <1>3 DEF PagePlace
<1> QED BY <1>1, <1>2, <1>4, <1>5

(* The page that follows the cursor stays in a text with the cursor in it. *)
LEMMA FollowKeeps ==
  ASSUME EditorInv, NEW n \in Nat, n <= BUFFER_SIZE, NEW t \in Seq(Shown), n = Len(t),
         NEW c \in Int, -1 <= c, c <= n - 1, page_location <= n,
         c >= page_location => (page_location < n \/ page_location = 0),
         Follow(t, c), err' = err
  PROVE  /\ text' = t /\ cursor_location' = c
         /\ text' \in Seq(Shown) /\ Len(text') <= BUFFER_SIZE /\ wide' \in BOOLEAN
         /\ CursorPlace' /\ PagePlace'
<1>1. page_location \in 0..n /\ page_end \in Int /\ page_end >= page_location
  BY DEF EditorInv, PagePlace
<1>2. PICK last : last = page_location_last_line(t)
  OBVIOUS
<1>3. PICK next : next = page_location_next_line(t)
  OBVIOUS
<1>4. /\ last \in 0..page_location /\ (last = 0 \/ last < page_location)
      /\ (page_location < n \/ page_location = 0) =>
            next \in page_location..n /\ (next < n \/ next = 0)
  BY <1>1, <1>2, <1>3, PageMoves
<1>5. PICK page : page = IF c < page_location THEN last
                         ELSE IF c >= page_end THEN next ELSE page_location
  OBVIOUS
<1>6. Show(t, c, page)
  BY <1>2, <1>3, <1>5 DEF Follow
<1>7. page \in 0..n /\ (page < n \/ page = 0)
  BY <1>1, <1>4, <1>5
<1>8. err' \in 0..2 /\ wide \in BOOLEAN
  BY DEF EditorInv, Modes
<1>9. text' = t /\ cursor_location' = c
  BY <1>6 DEF Show
<1>10. /\ text' \in Seq(Shown) /\ Len(text') <= BUFFER_SIZE /\ wide' \in BOOLEAN
       /\ CursorPlace' /\ PagePlace'
  <2>1. err' = 0 => c <= n - 1 /\ (page < n \/ page = 0)
    BY <1>7
  <2>2. c <= n
    OBVIOUS
  <2> QED BY <1>6, <1>7, <1>8, <2>1, <2>2, ShowKeeps
<1> QED BY <1>9, <1>10

-----------------------------------------------------------------------------
(***************************************************************************)
(* The steps.                                                              *)
(***************************************************************************)

(* What load_file leaves in the buffer fits it, and ends with a newline    *)
(* unless the editor stops.                                                *)
LEMMA LoadedIs ==
  ASSUME NEW f \in Seq(Shown \union {CR}) \union {NoFile}, NEW t, t = Loaded(f)
  PROVE  /\ t \in Seq(Shown) /\ Len(t) \in 1..BUFFER_SIZE
         /\ LoadError(f) \in {0, 2}
         /\ LoadError(f) = 0 => t[Len(t)] = NL
<1>1. LoadError(f) \in {0, 2}
  BY DEF LoadError
<1>2. CASE f = NoFile
  <2>1. t = <<NL>>
    BY <1>2 DEF Loaded
  <2>2. t \in Seq(Shown) /\ Len(t) = 1 /\ t[1] = NL
    BY <2>1, Sizes
  <2> QED BY <1>1, <2>2, Sizes
<1>3. CASE f # NoFile
  <2>1. PICK read : read = Kept(f)
    OBVIOUS
  <2>2. read \in Seq(Shown)
    BY <1>3, <2>1, KeptFacts
  <2>3. PICK n \in Nat : n = Len(read)
    BY <2>2, LenProperties
  <2>4. PICK b \in Nat : b = BUFFER_SIZE - 1 /\ b > 1
    BY Sizes
  <2>5. CASE n >= b
    <3>1. t = SubSeq(read, 1, b)
      BY <1>3, <2>1, <2>3, <2>4, <2>5 DEF Loaded
    <3>2. t = SubSeq(read, 0 + 1, 0 + b) /\ 0 + b <= Len(read)
      BY <2>3, <2>4, <2>5, <3>1
    <3>3. t \in Seq(Shown) /\ Len(t) = b
      BY <2>2, <3>2, Part
    <3>4. LoadError(f) = 2
      BY <1>3, <2>1, <2>3, <2>4, <2>5 DEF LoadError
    <3> QED BY <2>4, <3>3, <3>4, Sizes
  <2>6. CASE n < b /\ (read = <<>> \/ read[n] # NL)
    <3>1. t = Append(read, NL)
      BY <1>3, <2>1, <2>3, <2>4, <2>6 DEF Loaded
    <3>2. t \in Seq(Shown) /\ Len(t) = n + 1 /\ t[n + 1] = NL
      BY <2>2, <2>3, <3>1, Sizes, AppendProperties
    <3> QED BY <1>1, <2>4, <2>6, <3>2, Sizes
  <2>7. CASE n < b /\ ~(read = <<>> \/ read[n] # NL)
    <3>1. t = read
      BY <1>3, <2>1, <2>3, <2>4, <2>7 DEF Loaded
    <3>2. n > 0
      BY <2>2, <2>3, <2>7, EmptySeq
    <3> QED BY <1>1, <2>2, <2>3, <2>4, <2>7, <3>1, <3>2, Sizes
  <2> QED BY <2>3, <2>4, <2>5, <2>6, <2>7
<1> QED BY <1>2, <1>3

(* The editor begins on the first character.                               *)
LEMMA MyviKeeps ==
  ASSUME EditorInv, NEW f \in Files \union {NoFile}, myvi(f)
  PROVE  EditorInv'
<1>1. f \in Seq(Shown \union {CR}) \union {NoFile}
  BY Sizes
<1>2. PICK t : t = Loaded(f)
  OBVIOUS
<1>3. PICK e : e = LoadError(f)
  OBVIOUS
<1>4. t \in Seq(Shown) /\ Len(t) \in 1..BUFFER_SIZE /\ e \in {0, 2} /\ (e = 0 => t[Len(t)] = NL)
  BY <1>1, <1>2, <1>3, LoadedIs
<1>5. /\ file' = f /\ text' = t /\ err' = e /\ below' = Foreign /\ cursor_location' = 0
      /\ page_location' = 0 /\ page_end' = PageEnd(t, 0) /\ mode' = 0 /\ inst' = <<>>
      /\ slipped' = FALSE
  BY <1>2, <1>3 DEF myvi
<1>6. wide' \in BOOLEAN
  BY Zenon DEF myvi
<1>7. PageEnd(t, 0) \in 0..Len(t)
  <2>1. PICK p : p = PageEnd(t, 0)
    OBVIOUS
  <2>2. 0 \in 0..Len(t) /\ Len(t) \in Nat
    BY <1>4
  <2> QED BY <2>1, <2>2, PageEndIs
<1>8. Contents'
  BY <1>1, <1>4, <1>5, Sizes DEF Contents
<1>9. Modes'
  <2>1. inst' \in Seq(Key) /\ Len(inst') = 0
    BY <1>5, EmptySeq
  <2>2. mode' \in 0..2 /\ err' \in 0..2 /\ Len(inst') <= MaxInst
    BY <1>4, <1>5, <2>1, Sizes
  <2>3. slipped' \in BOOLEAN
    BY <1>5
  <2> QED BY <1>6, <2>1, <2>2, <2>3 DEF Modes
<1>10. CursorPlace'
  BY <1>4, <1>5, Sizes DEF CursorPlace
<1>11. PagePlace'
  BY <1>4, <1>5, <1>7 DEF PagePlace
<1>12. EndsWithNewline'
  BY <1>4, <1>5 DEF EndsWithNewline
<1> QED BY <1>8, <1>9, <1>10, <1>11, <1>12 DEF EditorInv

(* A move of the cursor within the text.                                   *)
LEMMA MoveKeeps ==
  ASSUME EditorInv, NEW loc \in Int, -1 <= loc, loc <= Len(text) - 1,
         ~slipped => loc >= 0, err = 0, Follow(text, loc),
         UNCHANGED <<below, err, file, slipped>>,
         mode' \in 0..2, inst' \in Seq(Key), Len(inst') <= MaxInst
  PROVE  EditorInv'
<1>1. PICK n \in Nat : n = Len(text)
  BY LenProperties DEF EditorInv, Contents
<1>2. n <= BUFFER_SIZE /\ text \in Seq(Shown)
  BY <1>1 DEF EditorInv, Contents
<1>3. page_location <= n /\ (page_location < n \/ page_location = 0)
  BY <1>1 DEF EditorInv, PagePlace
<1>4. /\ text' = text /\ cursor_location' = loc
      /\ text' \in Seq(Shown) /\ Len(text') <= BUFFER_SIZE /\ wide' \in BOOLEAN
      /\ CursorPlace' /\ PagePlace'
  <2>1. PICK t : t = text
    OBVIOUS
  <2>2. t \in Seq(Shown) /\ n = Len(t) /\ Follow(t, loc) /\ loc <= n - 1 /\ err' = err
    BY <1>1, <1>2, <2>1
  <2> QED BY <1>2, <1>3, <2>1, <2>2, FollowKeeps
<1>5. Contents'
  BY <1>4 DEF EditorInv, Contents
<1>6. Modes'
  BY <1>4 DEF EditorInv, Modes
<1>7. EndsWithNewline'
  BY <1>4 DEF EditorInv, EndsWithNewline
<1> QED BY <1>4, <1>5, <1>6, <1>7 DEF EditorInv

(* The keys of command mode that move the cursor leave it in the text.     *)
LEMMA TargetsInText ==
  ASSUME EditorInv, err = 0,
         NEW loc \in {cursor_next_line, cursor_prev_line,
                      IF cursor_location > 0 /\ At(text, cursor_location - 1) # NL
                      THEN cursor_location - 1 ELSE cursor_location,
                      IF LeftOfEnd THEN cursor_location + 1 ELSE cursor_location,
                      cursor_location}
  PROVE  loc \in Int /\ -1 <= loc /\ loc <= Len(text) - 1 /\ (~slipped => loc >= 0)
<1>1. PICK n \in Nat : n = Len(text)
  BY LenProperties DEF EditorInv, Contents
<1>2. PICK c \in Int : c = cursor_location
  BY Sizes DEF EditorInv, CursorPlace
<1>3. -1 <= c /\ c <= n - 1 /\ (~slipped => c >= 0)
  BY <1>1, <1>2 DEF EditorInv, CursorPlace, EndsWithNewline
<1>4. cursor_next_line \in c..n-1
  <2>1. PICK e : e = LineEnd(text, c)
    OBVIOUS
  <2>2. e \in c..n
    <3>1. Len(text) \in Nat /\ c <= Len(text)
      BY <1>1, <1>3
    <3> QED BY <1>1, <1>3, <2>1, <3>1, LineEndIs
  <2>3. cursor_next_line = IF e + 1 < n THEN e + 1 ELSE c
    BY <1>1, <1>2, <2>1 DEF cursor_next_line
  <2> QED BY <1>3, <2>2, <2>3
<1>5. cursor_prev_line = c \/ cursor_prev_line \in 0..c-1
  <2>1. CASE c <= 0
    BY <1>2, <2>1 DEF cursor_prev_line
  <2>2. CASE c > 0
    <3>1. PICK m \in Nat : m = c - 1
      BY <2>2
    <3>2. PICK s : s = LineStart(text, m)
      OBVIOUS
    <3>3. s \in 0..m
      BY <3>2, LineStartIs
    <3>4. cursor_prev_line = IF c <= 0 \/ s = 0 THEN c ELSE s
      BY <1>2, <3>1, <3>2 DEF cursor_prev_line
    <3> QED BY <3>1, <3>3, <3>4
  <2> QED BY <2>1, <2>2
<1>6. LeftOfEnd => c + 1 <= n - 1
  BY <1>1, <1>2 DEF LeftOfEnd
<1>7. \/ loc \in c..n-1 \/ loc = c \/ loc \in 0..c-1
      \/ c > 0 /\ loc = c - 1
      \/ LeftOfEnd /\ loc = c + 1
  BY <1>2, <1>4, <1>5
<1> QED BY <1>1, <1>3, <1>6, <1>7

(* The keys of command mode that leave the text as it is.                  *)
LEMMA CommandKeeps ==
  ASSUME EditorInv, KeyJ \/ KeyK \/ KeyH \/ KeyL \/ KeyColon
  PROVE  EditorInv'
<1>1. err = 0 /\ UNCHANGED <<below, err, file, slipped>>
  BY DEF KeyJ, KeyK, KeyH, KeyL, KeyColon, MoveCursor, Command
<1>2. mode' \in 0..2 /\ inst' \in Seq(Key) /\ Len(inst') <= MaxInst
  <2>1. CASE KeyColon
    <3>1. mode' = 2 /\ inst' = <<":">> /\ ":" \in Key
      BY <2>1 DEF KeyColon, Key
    <3> QED BY <3>1, Sizes
  <2>2. CASE KeyJ \/ KeyK \/ KeyH \/ KeyL
    <3>1. mode' = mode /\ inst' = inst
      BY <2>2 DEF KeyJ, KeyK, KeyH, KeyL, MoveCursor
    <3> QED BY <3>1 DEF EditorInv, Modes
  <2> QED BY <2>1, <2>2
<1> DEFINE Targets == {cursor_next_line, cursor_prev_line,
                       IF cursor_location > 0 /\ At(text, cursor_location - 1) # NL
                       THEN cursor_location - 1 ELSE cursor_location,
                       IF LeftOfEnd THEN cursor_location + 1 ELSE cursor_location,
                       cursor_location}
<1>3. PICK loc \in Targets : Follow(text, loc)
  BY DEF KeyJ, KeyK, KeyH, KeyL, KeyColon, MoveCursor
<1>4. loc \in Int /\ -1 <= loc /\ loc <= Len(text) - 1 /\ (~slipped => loc >= 0)
  BY <1>1, <1>3, TargetsInText
<1> QED BY <1>1, <1>2, <1>3, <1>4, MoveKeeps

(* Deleting under the cursor keeps the last newline.                       *)
LEMMA KeyXKeeps ==
  ASSUME EditorInv, KeyX
  PROVE  EditorInv'
<1>1. /\ err = 0 /\ UNCHANGED <<err, file, slipped, mode, inst>>
  BY DEF KeyX, Command
<1>2. PICK n \in Nat : n = Len(text)
  BY LenProperties DEF EditorInv, Contents
<1>3. PICK c \in Int : c = cursor_location
  BY Sizes DEF EditorInv, CursorPlace
<1>4. text \in Seq(Shown) /\ below \in Shown /\ n <= BUFFER_SIZE
  BY <1>2 DEF EditorInv, Contents
<1>5. -1 <= c /\ c <= n - 1 /\ (~slipped => c >= 0 /\ text[n] = NL)
  BY <1>1, <1>2, <1>3 DEF EditorInv, CursorPlace, EndsWithNewline
<1>6. page_location \in Nat /\ page_location <= n /\ (page_location < n \/ page_location = 0)
  BY <1>1, <1>2 DEF EditorInv, PagePlace
<1>7. CASE ~MayDelete
  <2>1. Follow(text, cursor_location) /\ UNCHANGED below
    BY <1>7 DEF KeyX
  <2>2. mode' \in 0..2 /\ inst' \in Seq(Key) /\ Len(inst') <= MaxInst
    BY <1>1 DEF EditorInv, Modes
  <2> QED BY <1>1, <1>2, <1>3, <1>5, <2>1, <2>2, MoveKeeps
<1>8. CASE MayDelete
  <2>1. PICK t : t = Deleted(c)
    OBVIOUS
  <2>2. Follow(t, c) /\ below' = IF c < 0 THEN text[1] ELSE below
    BY <1>3, <1>8, <2>1 DEF KeyX
  <2>3. PICK m \in Nat : m = n - 1 /\ c <= m - 1
    BY <1>2, <1>3, <1>5, <1>8 DEF MayDelete
  <2>4. /\ t \in Seq(Shown) /\ Len(t) = m /\ below' \in Shown
        /\ ~slipped => c >= 0 /\ t[m] = NL
    <3>1. CASE c < 0
      <4>1. t \in Seq(Shown) /\ Len(t) = n - 1 /\ text[1] \in Shown
        BY <1>2, <1>4, <2>1, <2>3, <3>1, ShiftedIs
      <4> QED BY <1>5, <2>2, <2>3, <3>1, <4>1
    <3>2. CASE c >= 0
      <4>1. c \in 0..n-1
        BY <1>5, <3>2
      <4>2. /\ t \in Seq(Shown) /\ Len(t) = n - 1
            /\ \A i \in c+1..n-1 : t[i] = text[i + 1]
        BY <1>2, <1>4, <2>1, <4>1, DeletedIs
      <4>3. m \in c+1..n-1 /\ m + 1 = n
        BY <2>3, <4>1
      <4> QED BY <1>4, <1>5, <2>2, <2>3, <3>2, <4>2, <4>3
    <3> QED BY <3>1, <3>2
  <2>5. /\ text' = t /\ cursor_location' = c
        /\ text' \in Seq(Shown) /\ Len(text') <= BUFFER_SIZE /\ wide' \in BOOLEAN
        /\ CursorPlace' /\ PagePlace'
    <3>1. m <= BUFFER_SIZE /\ m = Len(t) /\ err' = err
      BY <1>1, <1>4, <2>3, <2>4, Sizes
    <3>2. page_location <= m /\ (c >= page_location => (page_location < m \/ page_location = 0))
      BY <1>6, <2>3
    <3> QED BY <1>5, <2>2, <2>3, <2>4, <3>1, <3>2, FollowKeeps
  <2>6. Contents'
    BY <1>1, <2>4, <2>5 DEF EditorInv, Contents
  <2>7. Modes'
    BY <1>1, <2>5 DEF EditorInv, Modes
  <2>8. EndsWithNewline'
    BY <1>1, <2>4, <2>5 DEF EndsWithNewline
  <2> QED BY <2>5, <2>6, <2>7, <2>8 DEF EditorInv
<1> QED BY <1>7, <1>8

(* Changing the mode leaves text and cursor where they are.                *)
LEMMA ModeKeeps ==
  ASSUME EditorInv, KeyI \/ Escape
  PROVE  EditorInv'
<1>1. /\ UNCHANGED <<text, below, cursor_location, page_location, page_end, inst, wide,
                     err, file, slipped>>
      /\ mode' \in 0..2
  BY DEF KeyI, Escape, Command, InsertMode
<1>2. Contents'
  BY <1>1 DEF EditorInv, Contents
<1>3. Modes'
  BY <1>1 DEF EditorInv, Modes
<1>4. CursorPlace' /\ PagePlace' /\ EndsWithNewline'
  BY <1>1 DEF EditorInv, CursorPlace, PagePlace, EndsWithNewline
<1> QED BY <1>2, <1>3, <1>4 DEF EditorInv

(* A backspace deletes before the cursor; at the start of the text it only *)
(* moves the cursor off.                                                   *)
LEMMA BackspaceKeeps ==
  ASSUME EditorInv, Backspace
  PROVE  EditorInv'
<1>1. /\ err = 0 /\ cursor_location >= 0
      /\ UNCHANGED <<inst, file, below, mode, err>>
      /\ slipped' = (slipped \/ cursor_location = 0)
  BY DEF Backspace, InsertMode
<1>2. PICK n \in Nat : n = Len(text)
  BY LenProperties DEF EditorInv, Contents
<1>3. PICK c \in Nat : c = cursor_location
  BY <1>1, Sizes DEF EditorInv, CursorPlace
<1>4. text \in Seq(Shown) /\ below \in Shown /\ n <= BUFFER_SIZE
  BY <1>2 DEF EditorInv, Contents
<1>5. c <= n - 1 /\ (~slipped => text[n] = NL)
  BY <1>1, <1>2, <1>3 DEF EditorInv, CursorPlace, EndsWithNewline
<1>6. PICK p \in Nat : p = page_location
  BY DEF EditorInv, PagePlace
<1>7. p <= n /\ (p < n \/ p = 0)
  BY <1>1, <1>2, <1>6 DEF EditorInv, PagePlace
<1>8. PICK t : t = IF c # 0 THEN Deleted(c - 1) ELSE text
  OBVIOUS
<1>9. PICK last : last = page_location_last_line(t)
  OBVIOUS
<1>10. PICK page : page = IF c - 1 < p THEN last ELSE p
  OBVIOUS
<1>11. Show(t, c - 1, page)
  BY <1>3, <1>6, <1>8, <1>9, <1>10 DEF Backspace
<1>12. PICK m \in Nat : m = IF c # 0 THEN n - 1 ELSE n
  BY <1>5
<1>13. t \in Seq(Shown) /\ Len(t) = m /\ (~slipped => t[m] = NL)
  <2>1. CASE c = 0
    BY <1>2, <1>4, <1>5, <1>8, <1>12, <2>1
  <2>2. CASE c # 0
    <3>1. PICK site : site = c - 1
      OBVIOUS
    <3>2. site \in 0..n-1 /\ t = Deleted(site)
      BY <1>5, <1>8, <2>2, <3>1
    <3>3. /\ t \in Seq(Shown) /\ Len(t) = n - 1
          /\ \A i \in site+1..n-1 : t[i] = text[i + 1]
      BY <1>2, <1>4, <3>2, DeletedIs
    <3>4. m \in site+1..n-1 /\ m + 1 = n
      BY <1>5, <1>12, <2>2, <3>1
    <3> QED BY <1>5, <3>3, <3>4
  <2> QED BY <2>1, <2>2
<1>14. p \in 0..m
  BY <1>5, <1>7, <1>12
<1>15. last \in 0..p /\ (last = 0 \/ last < p)
  <2>1. m = Len(t) /\ page_location \in 0..m
    BY <1>6, <1>13, <1>14
  <2> QED BY <1>6, <1>9, <2>1, PageMoves
<1>16. page \in 0..m /\ (page < m \/ page = 0)
  BY <1>5, <1>7, <1>10, <1>12, <1>14, <1>15
<1>17. /\ text' \in Seq(Shown) /\ Len(text') <= BUFFER_SIZE /\ wide' \in BOOLEAN
       /\ CursorPlace' /\ PagePlace'
  <2>1. PICK d \in Int : d = c - 1
    OBVIOUS
  <2>2. Show(t, d, page) /\ -1 <= d /\ d <= m - 1 /\ d <= m /\ m <= BUFFER_SIZE
    BY <1>4, <1>5, <1>11, <1>12, <2>1, Sizes
  <2>3. wide \in BOOLEAN /\ err' \in 0..2 /\ m = Len(t)
    BY <1>1, <1>13 DEF EditorInv, Modes
  <2> QED BY <1>13, <1>16, <2>2, <2>3, ShowKeeps
<1>18. text' = t /\ cursor_location' = c - 1
  BY <1>11 DEF Show
<1>19. Contents'
  BY <1>1, <1>17 DEF EditorInv, Contents
<1>20. slipped' \in BOOLEAN /\ (~slipped' => ~slipped /\ c # 0)
  BY <1>1, <1>3
<1>21. Modes'
  BY <1>1, <1>17, <1>20 DEF EditorInv, Modes
<1>22. EndsWithNewline'
  BY <1>13, <1>18, <1>20 DEF EndsWithNewline
<1> QED BY <1>17, <1>19, <1>21, <1>22 DEF EditorInv

(* What is typed goes before the cursor; a full buffer takes no more and   *)
(* stops the editor.                                                       *)
LEMMA TypeKeeps ==
  ASSUME EditorInv, NEW key \in Char, Type(key)
  PROVE  EditorInv'
<1>1. /\ err = 0 /\ err' = (IF Full THEN 1 ELSE 0)
      /\ UNCHANGED <<inst, file, mode, slipped>>
      /\ below' = IF ~Full /\ cursor_location < 0 THEN key ELSE below
  BY DEF Type, InsertMode
<1>2. PICK n \in Nat : n = Len(text)
  BY LenProperties DEF EditorInv, Contents
<1>3. PICK c \in Int : c = cursor_location
  BY Sizes DEF EditorInv, CursorPlace
<1>4. text \in Seq(Shown) /\ below \in Shown /\ n <= BUFFER_SIZE /\ key \in Shown
  BY <1>2, Sizes DEF EditorInv, Contents
<1>5. -1 <= c /\ c <= n - 1 /\ (~slipped => c >= 0 /\ text[n] = NL)
  BY <1>1, <1>2, <1>3 DEF EditorInv, CursorPlace, EndsWithNewline
<1>6. PICK p \in Nat : p = page_location
  BY DEF EditorInv, PagePlace
<1>7. p <= n /\ (p < n \/ p = 0)
  BY <1>1, <1>2, <1>6 DEF EditorInv, PagePlace
<1>8. PICK t : t = IF Full THEN text ELSE Inserted(key, c)
  OBVIOUS
<1>9. PICK next : next = page_location_next_line(t)
  OBVIOUS
<1>10. PICK page : page = IF c + 1 >= PageEnd(t, p) THEN next ELSE p
  OBVIOUS
<1>11. Show(t, c + 1, page)
  BY <1>3, <1>6, <1>8, <1>9, <1>10 DEF Type
<1>12. PICK m \in Nat : m = IF Full THEN n ELSE n + 1
  OBVIOUS
<1>13. t \in Seq(Shown) /\ Len(t) = m /\ (~Full /\ ~slipped => t[m] = NL)
  <2>1. CASE Full
    BY <1>2, <1>4, <1>8, <1>12, <2>1
  <2>2. CASE ~Full /\ c < 0
    <3>1. t \in Seq(Shown) /\ Len(t) = n + 1
      BY <1>2, <1>4, <1>8, <2>2, ShiftedIs
    <3> QED BY <1>5, <1>12, <2>2, <3>1
  <2>3. CASE ~Full /\ c >= 0
    <3>1. c \in 0..n /\ t = Inserted(key, c)
      BY <1>5, <1>8, <2>3
    <3>2. /\ t \in Seq(Shown) /\ Len(t) = n + 1
          /\ \A i \in c+2..n+1 : t[i] = text[i - 1]
      BY <1>2, <1>4, <3>1, InsertedIs
    <3>3. m \in c+2..n+1 /\ m - 1 = n
      BY <1>5, <1>12, <2>3
    <3> QED BY <1>5, <1>12, <2>3, <3>2, <3>3
  <2> QED BY <2>1, <2>2, <2>3
<1>14. p \in 0..m /\ (p < m \/ p = 0) /\ m <= BUFFER_SIZE
  BY <1>2, <1>4, <1>7, <1>12, Sizes DEF Full
<1>15. next \in p..m /\ (next < m \/ next = 0)
  <2>1. m = Len(t) /\ page_location \in 0..m
    BY <1>6, <1>13, <1>14
  <2> QED BY <1>6, <1>9, <1>14, <2>1, PageMoves
<1>16. page \in 0..m /\ (page < m \/ page = 0)
  BY <1>10, <1>14, <1>15
<1>17. /\ text' \in Seq(Shown) /\ Len(text') <= BUFFER_SIZE /\ wide' \in BOOLEAN
       /\ CursorPlace' /\ PagePlace'
  <2>1. PICK d \in Int : d = c + 1
    OBVIOUS
  <2>2. Show(t, d, page) /\ -1 <= d /\ d <= m
    BY <1>5, <1>11, <1>12, <2>1
  <2>3. err' = 0 => d <= m - 1 /\ (page < m \/ page = 0)
    BY <1>1, <1>5, <1>12, <1>16, <2>1
  <2>4. wide \in BOOLEAN /\ err' \in 0..2 /\ m = Len(t)
    BY <1>1, <1>13 DEF EditorInv, Modes
  <2> QED BY <1>13, <1>14, <1>16, <2>2, <2>3, <2>4, ShowKeeps
<1>18. text' = t /\ cursor_location' = c + 1
  BY <1>11 DEF Show
<1>19. Contents'
  BY <1>1, <1>4, <1>17 DEF EditorInv, Contents
<1>20. Modes'
  BY <1>1, <1>17 DEF EditorInv, Modes
<1>21. EndsWithNewline'
  <2>1. err' = 0 /\ ~slipped' => ~Full /\ ~slipped
    BY <1>1
  <2> QED BY <1>5, <1>13, <1>18, <2>1 DEF EndsWithNewline
<1> QED BY <1>17, <1>19, <1>20, <1>21 DEF EditorInv

(* The last line moves nothing in the text.                                *)
LEMMA LastLineKeeps ==
  ASSUME EditorInv, LastLine, mode' \in 0..2, err' \in 0..2,
         inst' \in Seq(Key), Len(inst') <= MaxInst,
         file' \in Seq(Shown \union {CR}) \union {NoFile}
  PROVE  EditorInv'
<1>1. /\ err = 0 /\ page_end' = PageEnd(text, page_location)
      /\ UNCHANGED <<text, below, cursor_location, page_location, slipped, wide>>
  BY DEF LastLine
<1>2. PICK n \in Nat : n = Len(text)
  BY LenProperties DEF EditorInv, Contents
<1>3. PICK p \in 0..n : p = page_location
  BY <1>2 DEF EditorInv, PagePlace
<1>4. PICK e : e = PageEnd(text, p)
  OBVIOUS
<1>5. e \in p..n
  BY <1>2, <1>4, PageEndIs
<1>6. Contents'
  BY <1>1 DEF EditorInv, Contents
<1>7. Modes'
  BY <1>1 DEF EditorInv, Modes
<1>8. PagePlace'
  BY <1>1, <1>2, <1>3, <1>4, <1>5 DEF EditorInv, PagePlace
<1>9. CursorPlace' /\ EndsWithNewline'
  BY <1>1 DEF EditorInv, CursorPlace, EndsWithNewline
<1> QED BY <1>6, <1>7, <1>8, <1>9 DEF EditorInv

(* The file after fs_write: a shorter file is covered whole, of a longer   *)
(* one the end stays.                                                      *)
LEMMA WrittenIs ==
  ASSUME EditorInv, NEW g, g = Written(file, text)
  PROVE  /\ g \in Seq(Shown \union {CR})
         /\ (file = NoFile \/ Len(file) <= Len(text)) => g = text
<1>1. PICK C : C = Shown \union {CR}
  OBVIOUS
<1>2. text \in Seq(C)
  <2>1. text \in Seq(Shown) /\ Shown \subseteq C
    BY <1>1 DEF EditorInv, Contents
  <2> QED BY <2>1, SeqMonotonic
<1>3. PICK n \in Nat : n = Len(text)
  BY <1>2, LenProperties
<1>4. CASE file = NoFile
  BY <1>1, <1>2, <1>4 DEF Written
<1>5. CASE file # NoFile
  <2>1. file \in Seq(C)
    BY <1>1, <1>5 DEF EditorInv, Contents
  <2>2. PICK m \in Nat : m = Len(file)
    BY <2>1, LenProperties
  <2>3. PICK w : w = SubSeq(file, n + 1, m)
    OBVIOUS
  <2>4. g = text \o w
    BY <1>3, <1>5, <2>2, <2>3 DEF Written
  <2>5. CASE m <= n
    <3>1. n + 1 \in Int /\ m \in Int /\ m < n + 1
      BY <2>5
    <3>2. w = <<>>
      BY <2>3, <3>1, SubSeqEmpty
    <3>3. text \o <<>> = text
      BY <1>2, ConcatEmptySeq
    <3> QED BY <1>1, <1>2, <2>4, <3>2, <3>3
  <2>6. CASE m > n
    <3>1. PICK k \in Nat : k = m - n
      BY <2>6
    <3>2. w = SubSeq(file, n + 1, n + k) /\ n + k <= Len(file)
      BY <2>2, <2>3, <3>1
    <3>3. w \in Seq(C)
      BY <2>1, <3>2, Part
    <3>4. text \o w \in Seq(C)
      BY <1>2, <3>3, Chained
    <3> QED BY <1>1, <1>3, <1>5, <2>2, <2>4, <2>6, <3>4
  <2> QED BY <2>5, <2>6
<1> QED BY <1>4, <1>5

(* The file after a save that failed is a file, whatever is in it.          *)
LEMMA SpoiltIs ==
  ASSUME EditorInv, NEW g \in Spoilt(file, text)
  PROVE  g \in Seq(Shown \union {CR}) \union {NoFile}
<1>1. PICK C : C = Shown \union {CR}
  OBVIOUS
<1>2. PICK t \in Seq(C), f \in Seq(C) \union {NoFile} : t = text /\ f = file
  <2>1. text \in Seq(Shown) /\ Shown \subseteq C /\ file \in Seq(C) \union {NoFile}
    BY <1>1 DEF EditorInv, Contents
  <2>2. text \in Seq(C)
    BY <2>1, SeqMonotonic
  <2> QED BY <2>1, <2>2
<1>3. PICK k \in Nat : k = Len(t)
  BY <1>2, LenProperties
<1>4. PICK l \in Nat : l = IF f = NoFile THEN 0 ELSE Len(f)
  <2>1. CASE f = NoFile
    BY <2>1
  <2>2. CASE f # NoFile
    BY <1>2, <2>2, LenProperties
  <2> QED BY <2>1, <2>2
<1>5. PICK m \in Nat : m = IF l < k THEN k ELSE l
  OBVIOUS
<1>6. CASE g = f
  BY <1>1, <1>2, <1>6
<1>7. CASE g # f
  <2>1. PICK n \in {l, m}, reached \in 0..k :
               g = [i \in 1..n |-> IF i <= reached THEN t[i] ELSE Old(f, i)]
    BY <1>2, <1>3, <1>4, <1>5, <1>7 DEF Spoilt
  <2>2. n \in Nat
    OBVIOUS
  <2>3. \A i \in 1..n : (IF i <= reached THEN t[i] ELSE Old(f, i)) \in C
    <3> SUFFICES ASSUME NEW i \in 1..n
                 PROVE  (IF i <= reached THEN t[i] ELSE Old(f, i)) \in C
      OBVIOUS
    <3>1. i \in Nat /\ i >= 1
      BY <2>2
    <3>2. CASE i <= reached
      <4>1. i \in 1..Len(t)
        BY <1>3, <3>1, <3>2
      <4>2. t[i] \in C
        BY <1>2, <4>1, ElementOfSeq
      <4> QED BY <3>2, <4>2
    <3>3. CASE ~(i <= reached)
      <4>1. CASE f # NoFile /\ i <= Len(f)
        <5>1. f \in Seq(C) /\ Len(f) \in Nat
          BY <1>2, <4>1, LenProperties
        <5>2. i \in 1..Len(f)
          BY <3>1, <4>1, <5>1
        <5>3. f[i] \in C
          BY <5>1, <5>2, ElementOfSeq
        <5> QED BY <3>3, <4>1, <5>3 DEF Old
      <4>2. CASE ~(f # NoFile /\ i <= Len(f))
        BY <1>1, <3>3, <4>2, Sizes DEF Old
      <4> QED BY <4>1, <4>2
    <3> QED BY <3>2, <3>3
  <2>4. g \in [1..n -> C]
    BY <2>1, <2>3
  <2>5. g \in Seq(C)
    BY <2>2, <2>4, SeqDef
  <2> QED BY <1>1, <2>5
<1> QED BY <1>6, <1>7

(* The keys of the last line, and Enter after them.                        *)
LEMMA LastLineSteps ==
  ASSUME EditorInv,
         \/ \E key \in Key : LastLineKey(key)
         \/ LastLineBackspace \/ LastLineEscape \/ LastLineEnter
         \/ SaveSucceeds \/ SaveFails
  PROVE  EditorInv'
<1>1. /\ LastLine /\ mode \in 0..2 /\ err \in 0..2
      /\ inst \in Seq(Key) /\ Len(inst) <= MaxInst
      /\ file \in Seq(Shown \union {CR}) \union {NoFile}
  BY DEF EditorInv, Contents, Modes, LastLineKey, LastLineBackspace, LastLineEscape, LastLineEnter,
         SaveSucceeds, SaveFails, SaveEnds
<1>2. PICK n \in Nat : n = Len(inst)
  BY <1>1, LenProperties
<1>3. CASE \E key \in Key : LastLineKey(key)
  <2>1. PICK key \in Key : LastLineKey(key)
    BY <1>3
  <2>2. n < MaxInst /\ inst' = Append(inst, key) /\ UNCHANGED <<mode, err, file>>
    BY <1>2, <2>1 DEF LastLineKey
  <2>3. inst' \in Seq(Key) /\ Len(inst') = n + 1
    BY <1>1, <1>2, <2>2, AppendProperties
  <2>4. Len(inst') <= MaxInst
    BY <2>2, <2>3, Sizes
  <2> QED BY <1>1, <2>2, <2>3, <2>4, LastLineKeeps
<1>4. CASE LastLineBackspace
  <2>1. /\ inst' = IF inst = <<>> THEN inst ELSE SubSeq(inst, 1, Len(inst) - 1)
        /\ UNCHANGED <<mode, err, file>>
    BY <1>4 DEF LastLineBackspace
  <2>2. inst' \in Seq(Key) /\ Len(inst') <= MaxInst
    <3>1. CASE inst = <<>>
      BY <1>1, <2>1, <3>1
    <3>2. CASE inst # <<>>
      <4>1. PICK m \in Nat : m = n - 1
        BY <1>1, <1>2, <3>2, EmptySeq
      <4>2. inst' = SubSeq(inst, 0 + 1, 0 + m) /\ 0 + m <= Len(inst)
        BY <1>2, <2>1, <3>2, <4>1
      <4>3. inst' \in Seq(Key) /\ Len(inst') = m
        BY <1>1, <4>2, Part
      <4> QED BY <1>1, <1>2, <4>1, <4>3, Sizes
    <3> QED BY <3>1, <3>2
  <2> QED BY <1>1, <2>1, <2>2, LastLineKeeps
<1>5. CASE LastLineEscape
  <2>1. inst' = <<>> /\ mode' = 0 /\ UNCHANGED <<err, file>>
    BY <1>5 DEF LastLineEscape
  <2>2. inst' \in Seq(Key) /\ Len(inst') = 0
    BY <2>1, EmptySeq
  <2>3. Len(inst') <= MaxInst /\ mode' \in 0..2
    BY <2>1, <2>2, Sizes
  <2> QED BY <1>1, <2>1, <2>2, <2>3, LastLineKeeps
<1>6. CASE LastLineEnter
  <2>1. err' \in 0..2 /\ UNCHANGED <<inst, mode, file>>
    BY <1>6 DEF LastLineEnter
  <2> QED BY <1>1, <2>1, LastLineKeeps
<1>7. CASE SaveSucceeds
  <2>1. err' \in 0..2 /\ UNCHANGED <<inst, mode>> /\ file' = Written(file, text)
    BY <1>7 DEF SaveSucceeds, SaveEnds
  <2>2. PICK g : g = Written(file, text)
    OBVIOUS
  <2>3. g \in Seq(Shown \union {CR})
    BY <2>2, WrittenIs
  <2> QED BY <1>1, <2>1, <2>2, <2>3, LastLineKeeps
<1>8. CASE SaveFails
  <2>1. err' \in 0..2 /\ UNCHANGED <<inst, mode>> /\ file' \in Spoilt(file, text)
    BY <1>8 DEF SaveFails, SaveEnds
  <2>2. PICK g \in Spoilt(file, text) : g = file'
    BY <2>1
  <2>3. g \in Seq(Shown \union {CR}) \union {NoFile}
    BY SpoiltIs
  <2> QED BY <1>1, <2>1, <2>2, <2>3, LastLineKeeps
<1> QED BY <1>3, <1>4, <1>5, <1>6, <1>7, <1>8

(* The editor begins ended.                                                *)
LEMMA InitInv == Init => EditorInv
<1> SUFFICES ASSUME Init PROVE EditorInv
  OBVIOUS
<1>1. text = <<>> /\ Len(text) = 0 /\ text \in Seq(Shown) /\ inst = <<>> /\ inst \in Seq(Key)
      /\ Len(inst) = 0
  BY EmptySeq DEF Init
<1>2. Contents
  BY <1>1, Sizes DEF Init, Contents
<1>3. Modes
  <2>1. slipped = FALSE /\ wide = FALSE /\ mode = 0 /\ err = 1
    BY DEF Init
  <2>2. mode \in 0..2 /\ err \in 0..2 /\ Len(inst) <= MaxInst
    BY <1>1, <2>1, Sizes
  <2>3. slipped \in BOOLEAN /\ wide \in BOOLEAN
    BY <2>1
  <2> QED BY <1>1, <2>2, <2>3 DEF Modes
<1>4. CursorPlace /\ PagePlace /\ EndsWithNewline
  BY <1>1, Sizes DEF Init, CursorPlace, PagePlace, EndsWithNewline
<1> QED BY <1>2, <1>3, <1>4 DEF EditorInv

(* Every key keeps the invariant.                                          *)
LEMMA NextInv == EditorInv /\ [Next]_vars => EditorInv'
<1> SUFFICES ASSUME EditorInv, [Next]_vars PROVE EditorInv'
  OBVIOUS
<1>1. CASE \E f \in Files \union {NoFile} : myvi(f)
  BY <1>1, MyviKeeps
<1>2. CASE KeyJ \/ KeyK \/ KeyH \/ KeyL \/ KeyColon
  BY <1>2, CommandKeeps
<1>3. CASE KeyX
  BY <1>3, KeyXKeeps
<1>4. CASE KeyI \/ Escape
  BY <1>4, ModeKeeps
<1>5. CASE Backspace
  BY <1>5, BackspaceKeeps
<1>6. CASE \E key \in Char : Type(key)
  BY <1>6, TypeKeeps
<1>7. CASE \/ \E key \in Key : LastLineKey(key)
           \/ LastLineBackspace \/ LastLineEscape \/ LastLineEnter
           \/ SaveSucceeds \/ SaveFails
  BY <1>7, LastLineSteps
<1>8. CASE UNCHANGED vars
  BY <1>8 DEF vars, EditorInv, Contents, Modes, CursorPlace, PagePlace, EndsWithNewline
<1> QED BY <1>1, <1>2, <1>3, <1>4, <1>5, <1>6, <1>7, <1>8 DEF Next, Key

(* The invariant holds throughout.                                         *)
THEOREM EditorInvariant == Spec => []EditorInv
<1> QED BY InitInv, NextInv, PTL DEF Spec

(* For every size of the buffer and the screen: the cursor of do_*_mode    *)
(* stays on a character and the text ends with a newline until a backspace *)
(* at the start, and insert_key never writes beyond the buffer.            *)
THEOREM CursorStaysInText == Spec => []CursorInText
<1> QED BY EditorInvariant, InvIsEnough, PTL

-----------------------------------------------------------------------------
(***************************************************************************)
(* Saving and opening again.                                               *)
(***************************************************************************)

(* A text of the editor is loaded as it is.                                *)
LEMMA LoadedAgain ==
  ASSUME EditorInv, err = 0, ~slipped, Len(text) < BUFFER_SIZE - 1
  PROVE  Loaded(text) = text
<1>1. text \in Seq(Shown)
  BY DEF EditorInv, Contents
<1>2. PICK n \in Nat : n = Len(text)
  BY <1>1, LenProperties
<1>3. n > 0 /\ text[n] = NL
  BY <1>2, Sizes DEF EditorInv, CursorPlace, EndsWithNewline
<1>4. text # NoFile
  <2>1. SUFFICES ASSUME text = NoFile PROVE FALSE
    OBVIOUS
  <2>2. n = 1 /\ text[1] = "no file"
    BY <1>2, <2>1 DEF NoFile
  <2> QED BY <1>3, <2>2 DEF NL
<1>5. Kept(text) = text
  <2>1. PICK C : C = Shown
    OBVIOUS
  <2>2. \A i \in 1..Len(text) : text[i] # CR
    BY <1>1, Sizes, ElementOfSeq
  <2>3. text \in Seq(C \union {CR})
    <3>1. C \subseteq C \union {CR}
      OBVIOUS
    <3> QED BY <1>1, <2>1, <3>1, SeqMonotonic
  <2> QED BY <2>2, <2>3, KeptFacts
<1>6. text # <<>> /\ ~(n >= BUFFER_SIZE - 1)
  BY <1>2, <1>3, Sizes
<1> QED BY <1>2, <1>3, <1>4, <1>5, <1>6 DEF Loaded

(* For every content of the file and every text that leaves two places of  *)
(* the buffer free: what a save put on the card that the file system       *)
(* carried out is what load_file gives back, unless the file was longer    *)
(* before.  Of a save that failed nothing is said.                         *)
THEOREM SavedIsLoaded == Spec => RoundTrip
<1> DEFINE Kind == SaveSucceeds /\ ~slipped /\ Len(text) < BUFFER_SIZE - 1
                     /\ (file = NoFile \/ Len(file) <= Len(text))
                   => Loaded(file') = text
<1>1. EditorInv => Kind
  <2> SUFFICES ASSUME EditorInv, SaveSucceeds, ~slipped,
                      Len(text) < BUFFER_SIZE - 1,
                      file = NoFile \/ Len(file) <= Len(text)
               PROVE  Loaded(file') = text
    OBVIOUS
  <2>1. err = 0 /\ file' = Written(file, text)
    BY DEF SaveSucceeds, SaveEnds, LastLine
  <2>2. PICK g : g = Written(file, text)
    OBVIOUS
  <2>3. g = text
    BY <2>2, WrittenIs
  <2>4. Loaded(text) = text
    BY <2>1, LoadedAgain
  <2> QED BY <2>1, <2>2, <2>3, <2>4
<1>2. Spec => [][Kind]_vars
  <2> HIDE DEF Kind
  <2> QED BY <1>1, EditorInvariant, PTL
<1> QED BY <1>2 DEF RoundTrip

-----------------------------------------------------------------------------
(***************************************************************************)
(* The screen.  While no line is as wide as it, a row is a line, and the   *)
(* row of a location is the number of newlines between the page and it.    *)
(***************************************************************************)
NewlinesIn(t, from, to) == {i \in from+1..to : t[i] = NL}

Breaks(t, from, to) == Cardinality(NewlinesIn(t, from, to))

(* Newlines can be counted.                                                *)
LEMMA BreaksCount ==
  ASSUME NEW t, NEW from \in Nat, NEW to \in Int
  PROVE  /\ IsFiniteSet(NewlinesIn(t, from, to)) /\ Breaks(t, from, to) \in Nat
         /\ (\A i \in from+1..to : t[i] # NL) => Breaks(t, from, to) = 0
<1>1. PICK S : S = NewlinesIn(t, from, to)
  OBVIOUS
<1>2. IsFiniteSet(from+1..to)
  <2>1. PICK a \in Int : a = from + 1
    OBVIOUS
  <2>2. IsFiniteSet(a..to)
    BY FS_Interval
  <2> QED BY <2>1, <2>2
<1>3. IsFiniteSet(S)
  <2>1. S \subseteq from+1..to
    BY <1>1 DEF NewlinesIn
  <2> QED BY <1>2, <2>1, FS_Subset
<1>4. Cardinality(S) \in Nat
  BY <1>3, FS_CardinalityType
<1>5. ASSUME \A i \in from+1..to : t[i] # NL PROVE Cardinality(S) = 0
  <2>1. S = {}
    BY <1>1, <1>5 DEF NewlinesIn
  <2> QED BY <2>1, FS_EmptySet
<1> QED BY <1>1, <1>3, <1>4, <1>5 DEF Breaks

(* The same characters have the same newlines.                             *)
LEMMA BreaksSame ==
  ASSUME NEW t, NEW u, NEW from \in Nat, NEW to \in Int, \A i \in from+1..to : t[i] = u[i]
  PROVE  Breaks(t, from, to) = Breaks(u, from, to)
<1>1. NewlinesIn(t, from, to) = NewlinesIn(u, from, to)
  BY DEF NewlinesIn
<1> QED BY <1>1 DEF Breaks

(* Further on there are no fewer.                                          *)
LEMMA BreaksGrow ==
  ASSUME NEW t, NEW from \in Nat, NEW a \in Int, NEW b \in Int, a <= b
  PROVE  Breaks(t, from, a) <= Breaks(t, from, b)
<1>1. NewlinesIn(t, from, a) \subseteq NewlinesIn(t, from, b)
  BY DEF NewlinesIn
<1>2. IsFiniteSet(NewlinesIn(t, from, b))
  BY BreaksCount
<1> QED BY <1>1, <1>2, FS_Subset DEF Breaks

(* A newline behind characters that are none is the next one.              *)
LEMMA BreaksNext ==
  ASSUME NEW t, NEW from \in Nat, NEW a \in Nat, from <= a, NEW b \in Nat, a < b,
         \A i \in a+1..b-1 : t[i] # NL
  PROVE  /\ t[b] = NL => Breaks(t, from, b) = Breaks(t, from, a) + 1
         /\ t[b] # NL => Breaks(t, from, b) = Breaks(t, from, a)
<1>1. PICK S : S = NewlinesIn(t, from, a)
  OBVIOUS
<1>2. PICK T : T = NewlinesIn(t, from, b)
  OBVIOUS
<1>3. b \notin S /\ IsFiniteSet(S)
  <2>1. b \notin S
    BY <1>1 DEF NewlinesIn
  <2>2. a \in Int
    OBVIOUS
  <2>3. IsFiniteSet(NewlinesIn(t, from, a))
    BY <2>2, BreaksCount
  <2> QED BY <1>1, <2>1, <2>3
<1>4. \A i \in from+1..b : i \in from+1..a \/ i \in a+1..b-1 \/ i = b
  OBVIOUS
<1>5. ASSUME t[b] = NL PROVE Cardinality(T) = Cardinality(S) + 1
  <2>1. T = S \union {b}
    <3>1. ASSUME NEW i \in T PROVE i \in S \union {b}
      BY <1>1, <1>2, <1>4, <3>1 DEF NewlinesIn
    <3>2. S \subseteq T /\ b \in T
      BY <1>1, <1>2, <1>5 DEF NewlinesIn
    <3> QED BY <3>1, <3>2
  <2> QED BY <1>3, <2>1, FS_AddElement
<1>6. ASSUME t[b] # NL PROVE S = T
  <2>1. ASSUME NEW i \in T PROVE i \in S
    BY <1>1, <1>2, <1>4, <1>6, <2>1 DEF NewlinesIn
  <2>2. S \subseteq T
    BY <1>1, <1>2 DEF NewlinesIn
  <2> QED BY <2>1, <2>2
<1> QED BY <1>1, <1>2, <1>5, <1>6 DEF Breaks

(* Starting one line later there is one less.                              *)
LEMMA BreaksLater ==
  ASSUME NEW t, NEW from \in Nat, NEW x \in Nat, from < x, NEW to \in Nat, x <= to,
         t[x] = NL, \A i \in from+1..x-1 : t[i] # NL
  PROVE  Breaks(t, from, to) = Breaks(t, x, to) + 1
<1>1. PICK S : S = NewlinesIn(t, x, to)
  OBVIOUS
<1>2. PICK T : T = NewlinesIn(t, from, to)
  OBVIOUS
<1>3. x \notin S /\ IsFiniteSet(S)
  <2>1. x \notin S
    BY <1>1 DEF NewlinesIn
  <2>2. to \in Int
    OBVIOUS
  <2>3. IsFiniteSet(NewlinesIn(t, x, to))
    BY <2>2, BreaksCount
  <2> QED BY <1>1, <2>1, <2>3
<1>4. T = S \union {x}
  <2>1. \A i \in from+1..to : i \in x+1..to \/ i \in from+1..x-1 \/ i = x
    OBVIOUS
  <2>2. ASSUME NEW i \in T PROVE i \in S \union {x}
    BY <1>1, <1>2, <2>1, <2>2 DEF NewlinesIn
  <2>3. S \subseteq T /\ x \in T
    BY <1>1, <1>2 DEF NewlinesIn
  <2> QED BY <2>2, <2>3
<1>5. Cardinality(T) = Cardinality(S) + 1
  BY <1>3, <1>4, FS_AddElement
<1> QED BY <1>1, <1>2, <1>5 DEF Breaks

NextPlace(t, p, loc) ==
  IF At(t, loc - 1) = NL \/ p.column + 1 = COLUMN_LEN
  THEN [row |-> p.row + 1, column |-> 0]
  ELSE [row |-> p.row, column |-> p.column + 1]

Corner == [row |-> 0, column |-> 0]

DrawnTo(t, page, m, g) ==
  g = [loc \in page..m |-> IF loc = page THEN Corner ELSE NextPlace(t, g[loc - 1], loc)]

(* Drawing goes from one location to the next.                             *)
LEMMA DrawnExists ==
  ASSUME NEW t, NEW page \in Nat, NEW n \in Nat, page <= n
  PROVE  \E g : DrawnTo(t, page, n, g)
<1> DEFINE P(m) == \E g : DrawnTo(t, page, m, g)
<1> DEFINE Bad == {m \in page..n : ~P(m)}
<1>1. P(page)
  <2>1. DrawnTo(t, page, page, [i \in page..page |-> Corner])
    BY DEF DrawnTo
  <2> QED BY <2>1
<1>2. ASSUME NEW m \in page+1..n, P(m - 1) PROVE P(m)
  <2>1. PICK g : DrawnTo(t, page, m - 1, g)
    BY <1>2
  <2>2. \A i \in page..m-1 : g[i] = IF i = page THEN Corner ELSE NextPlace(t, g[i - 1], i)
    BY <2>1 DEF DrawnTo
  <2>3. PICK x : x = NextPlace(t, g[m - 1], m)
    OBVIOUS
  <2>4. PICK h : h = [i \in page..m |-> IF i = m THEN x ELSE g[i]]
    OBVIOUS
  <2>5. ASSUME NEW i \in page..m
        PROVE  h[i] = IF i = page THEN Corner ELSE NextPlace(t, h[i - 1], i)
    <3>1. i = page \/ (i - 1 \in page..m /\ i - 1 # m)
      OBVIOUS
    <3>2. i = m \/ i \in page..m-1
      OBVIOUS
    <3>3. i = page \/ h[i - 1] = g[i - 1]
      BY <2>4, <3>1
    <3>4. m # page
      OBVIOUS
    <3>5. CASE i = m
      BY <2>3, <2>4, <3>3, <3>4, <3>5
    <3>6. CASE i # m
      BY <2>2, <2>4, <3>2, <3>3, <3>6
    <3> QED BY <3>5, <3>6
  <2>6. PICK k : k = [i \in page..m |-> IF i = page THEN Corner ELSE NextPlace(t, h[i - 1], i)]
    OBVIOUS
  <2>7. h = k
    <3>1. \A i \in page..m : h[i] = k[i]
      BY <2>5, <2>6
    <3>2. /\ DOMAIN h = page..m /\ DOMAIN k = page..m
          /\ h = [i \in page..m |-> h[i]] /\ k = [i \in page..m |-> k[i]]
      BY <2>4, <2>6
    <3> QED BY <3>1, <3>2
  <2> QED BY <2>6, <2>7 DEF DrawnTo
<1>3. \A k : k \in Bad <=> k \in page..n /\ ~P(k)
  OBVIOUS
<1> HIDE DEF P, Bad
<1>4. ASSUME Bad # {} PROVE FALSE
  <2>1. Bad \subseteq Nat
    BY <1>3
  <2>2. PICK x \in Bad : \A y \in Bad : x <= y
    BY <1>4, <2>1, LeastNat
  <2>3. x \in page+1..n /\ ~P(x) /\ ~P(x - 1) /\ x - 1 \in page..n
    BY <1>1, <1>2, <1>3, <2>2
  <2> QED BY <1>3, <2>2, <2>3
<1>5. P(n)
  BY <1>3, <1>4
<1> QED BY <1>5 DEF P

(* Where the characters go.                                                *)
LEMMA PosIs ==
  ASSUME NEW t, NEW n \in Nat, n = Len(t), NEW page \in 0..n, NEW pos, pos = Pos(t, page)
  PROVE  /\ pos[page] = Corner
         /\ \A loc \in page+1..n : pos[loc] = NextPlace(t, pos[loc - 1], loc)
<1>1. PICK g : g = CHOOSE h : DrawnTo(t, page, n, h)
  OBVIOUS
<1>2. DrawnTo(t, page, n, g)
  <2>1. page \in Nat /\ page <= n
    OBVIOUS
  <2> QED BY <1>1, <2>1, DrawnExists
<1>3. pos = g
  BY <1>1 DEF Pos, DrawnTo, NextPlace, Corner
<1>4. \A i \in page..n : g[i] = IF i = page THEN Corner ELSE NextPlace(t, g[i - 1], i)
  BY <1>2 DEF DrawnTo
<1>5. page \in page..n /\ \A loc \in page+1..n : loc \in page..n /\ loc # page
  OBVIOUS
<1> QED BY <1>3, <1>4, <1>5

Short(t) ==
  \A s \in 0..Len(t) : \A e \in s..Len(t) :
    (s = 0 \/ t[s] = NL) /\ (\A i \in s+1..e : t[i] # NL) => e - s < COLUMN_LEN

(* Short lines are short however far one looks.                            *)
LEMMA ShortIs ==
  ASSUME NEW t, NEW n \in Nat, n = Len(t), ShortLines(t)
  PROVE  Short(t)
<1> SUFFICES ASSUME NEW s \in 0..n, NEW e \in s..n,
                    s = 0 \/ t[s] = NL, \A i \in s+1..e : t[i] # NL
             PROVE  e - s < COLUMN_LEN
  BY DEF Short
<1>1. CASE e = s
  BY <1>1, Sizes
<1>2. CASE e # s
  <2>1. PICK loc \in 0..n-1 : loc = e - 1
    BY <1>2
  <2>2. PICK b : b = LineStart(t, loc)
    OBVIOUS
  <2>3. PICK x : x = LineEnd(t, loc)
    OBVIOUS
  <2>4. x - b < COLUMN_LEN
    BY <2>1, <2>2, <2>3 DEF ShortLines
  <2>5. b \in 0..loc /\ (b = 0 \/ t[b] = NL) /\ \A r \in b+1..loc : t[r] # NL
    <3>1. loc \in Nat
      BY <2>1
    <3> QED BY <2>2, <3>1, LineStartIs
  <2>6. x \in loc..n /\ (x = n \/ At(t, x) = NL)
    <3>1. loc \in Int /\ -1 <= loc /\ loc <= n /\ Len(t) \in Nat
      BY <2>1
    <3>2. x \in loc..Len(t) /\ (x = Len(t) \/ At(t, x) = NL)
      BY <2>3, <3>1, LineEndIs
    <3> QED BY <3>2
  <2>7. x # loc
    <3>1. At(t, loc) = t[loc + 1]
      BY <2>1 DEF At
    <3>2. loc + 1 = e /\ e \in s+1..e /\ t[e] # NL
      BY <1>2, <2>1
    <3> QED BY <2>1, <2>6, <3>1, <3>2
  <2>8. b <= s
    <3>1. ~(b \in s+1..e)
      BY <2>1, <2>5
    <3> QED BY <2>1, <2>5, <3>1
  <2> QED BY <2>1, <2>4, <2>5, <2>6, <2>7, <2>8, Sizes
<1> QED BY <1>1, <1>2

LineHead(t, loc) == loc = 0 \/ t[loc] = NL

(* The row of a character is the number of newlines before it on the page. *)
LEMMA RowIs ==
  ASSUME NEW t, NEW n \in Nat, n = Len(t), Short(t), NEW page \in 0..n, LineHead(t, page)
  PROVE  \A loc \in page..n : Pos(t, page)[loc].row = Breaks(t, page, loc)
<1>1. PICK pos : pos = Pos(t, page)
  OBVIOUS
<1>2. /\ pos[page] = Corner
      /\ \A loc \in page+1..n : pos[loc] = NextPlace(t, pos[loc - 1], loc)
  BY <1>1, PosIs
<1> DEFINE P(loc) == /\ pos[loc].row = Breaks(t, page, loc)
                     /\ \E s \in page..loc : /\ LineHead(t, s) /\ pos[loc].column = loc - s
                                             /\ \A i \in s+1..loc : t[i] # NL
           Bad == {loc \in page..n : ~P(loc)}
<1>3. P(page)
  <2>1. Breaks(t, page, page) = 0
    BY BreaksCount
  <2>2. pos[page].row = 0 /\ pos[page].column = 0
    BY <1>2 DEF Corner
  <2>3. page \in page..page /\ page - page = 0 /\ \A i \in page+1..page : t[i] # NL
    OBVIOUS
  <2> QED BY <2>1, <2>2, <2>3
<1>4. ASSUME NEW loc \in page+1..n, P(loc - 1) PROVE P(loc)
  <2>1. PICK a \in page..n : a = loc - 1
    OBVIOUS
  <2>2. PICK p : p = pos[a]
    OBVIOUS
  <2>3. p.row = Breaks(t, page, a) /\ pos[loc] = NextPlace(t, p, loc)
    BY <1>2, <1>4, <2>1, <2>2
  <2>4. PICK s \in page..a : /\ LineHead(t, s) /\ p.column = a - s
                             /\ \A i \in s+1..a : t[i] # NL
    BY <1>4, <2>1, <2>2
  <2>5. At(t, loc - 1) = t[loc]
    <3>1. ~(loc - 1 < 0) /\ loc - 1 + 1 = loc
      OBVIOUS
    <3> QED BY <3>1 DEF At
  <2>6. /\ t[loc] = NL => Breaks(t, page, loc) = Breaks(t, page, a) + 1
        /\ t[loc] # NL => Breaks(t, page, loc) = Breaks(t, page, a)
    <3>1. /\ page \in Nat /\ a \in Nat /\ loc \in Nat /\ page <= a /\ a < loc
          /\ \A i \in a+1..loc-1 : t[i] # NL
      BY <2>1
    <3> QED BY <3>1, BreaksNext
  <2>7. CASE t[loc] = NL
    <3>1. pos[loc].row = p.row + 1 /\ pos[loc].column = 0
      BY <2>3, <2>5, <2>7 DEF NextPlace
    <3>2. loc \in page..loc /\ LineHead(t, loc) /\ loc - loc = 0 /\ \A i \in loc+1..loc : t[i] # NL
      BY <2>7 DEF LineHead
    <3> QED BY <2>3, <2>6, <2>7, <3>1, <3>2
  <2>8. CASE t[loc] # NL
    <3>1. \A i \in s+1..loc : t[i] # NL
      <4>1. \A i \in s+1..loc : i \in s+1..a \/ i = loc
        BY <2>1
      <4> QED BY <2>4, <2>8, <4>1
    <3>2. loc - s < COLUMN_LEN
      <4>1. s \in 0..Len(t) /\ loc \in s..Len(t)
        BY <2>1
      <4> QED BY <2>4, <3>1, <4>1 DEF Short, LineHead
    <3>3. p.column + 1 = loc - s /\ p.column + 1 # COLUMN_LEN
      BY <2>1, <2>4, <3>2, Sizes
    <3>4. pos[loc].row = p.row /\ pos[loc].column = loc - s
      BY <2>3, <2>5, <2>8, <3>3 DEF NextPlace
    <3>5. s \in page..loc
      BY <2>1
    <3> QED BY <2>3, <2>4, <2>6, <2>8, <3>1, <3>4, <3>5
  <2> QED BY <2>7, <2>8
<1>5. \A k : k \in Bad <=> k \in page..n /\ ~P(k)
  OBVIOUS
<1>6. \A loc \in page..n : P(loc)
  <2> HIDE DEF P, Bad
  <2>1. CASE Bad # {}
    <3>1. Bad \subseteq Nat
      BY <1>5
    <3>2. PICK x \in Bad : \A y \in Bad : x <= y
      BY <2>1, <3>1, LeastNat
    <3>3. x \in page+1..n /\ ~P(x) /\ ~P(x - 1) /\ x - 1 \in page..n
      BY <1>3, <1>4, <1>5, <3>2
    <3> QED BY <1>5, <3>2, <3>3
  <2> QED BY <1>5, <2>1
<1> QED BY <1>1, <1>6

PageEndsRight(t, page, e) ==
  \A loc \in page..Len(t)-1 : loc < e <=> Breaks(t, page, loc) < ROW_LEN

(* What is drawn is what has a row below the last one.                     *)
LEMMA PageEndRight ==
  ASSUME NEW t, NEW n \in Nat, n = Len(t), Short(t), NEW page \in 0..n, LineHead(t, page),
         NEW e, e = PageEnd(t, page)
  PROVE  PageEndsRight(t, page, e)
<1>1. PICK pos : pos = Pos(t, page)
  OBVIOUS
<1>2. \A loc \in page..n : pos[loc].row = Breaks(t, page, loc)
  BY <1>1, RowIs
<1>3. /\ e \in page..n /\ (e = n \/ pos[e].row >= ROW_LEN)
      /\ \A loc \in page..n : pos[loc].row >= ROW_LEN => e <= loc
  BY <1>1, PageEndIs
<1>4. ASSUME NEW loc \in page..n-1
      PROVE  loc < e <=> Breaks(t, page, loc) < ROW_LEN
  <2>1. PICK b \in Nat : b = Breaks(t, page, loc)
    BY BreaksCount
  <2>2. b >= ROW_LEN => e <= loc
    BY <1>2, <1>3, <2>1
  <2>3. ASSUME e <= loc PROVE b >= ROW_LEN
    <3>1. Breaks(t, page, e) <= Breaks(t, page, loc)
      <4>1. page \in Nat /\ e \in Int /\ loc \in Int
        BY <1>3
      <4> QED BY <2>3, <4>1, BreaksGrow
    <3>2. pos[e].row >= ROW_LEN /\ pos[e].row = Breaks(t, page, e)
      BY <1>2, <1>3, <2>3
    <3>3. Breaks(t, page, e) \in Nat
      <4>1. page \in Nat /\ e \in Int
        BY <1>3
      <4> QED BY <4>1, BreaksCount
    <3> QED BY <2>1, <3>1, <3>2, <3>3, Sizes
  <2> QED BY <1>3, <2>1, <2>2, <2>3, Sizes
<1> QED BY <1>4 DEF PageEndsRight

(* While no line was too wide, the page is at the head of a line and the   *)
(* cursor is on it.                                                        *)
OnPage ==
  (err = 0 /\ ~slipped /\ ~wide) =>
    /\ Short(text) /\ LineHead(text, page_location)
    /\ page_location <= cursor_location /\ cursor_location < page_end
    /\ PageEndsRight(text, page_location, page_end)

(* A page at the head of a line whose rows reach the cursor shows it.      *)
LEMMA ShowOnPage ==
  ASSUME NEW t, NEW n \in Nat, n = Len(t), Short(t), NEW page \in 0..n-1, LineHead(t, page),
         NEW c \in page..n-1, Breaks(t, page, c) < ROW_LEN, Show(t, c, page)
  PROVE  OnPage'
<1>1. PICK e : e = PageEnd(t, page)
  OBVIOUS
<1>2. text' = t /\ cursor_location' = c /\ page_location' = page /\ page_end' = e
  BY <1>1 DEF Show
<1>3. PageEndsRight(t, page, e)
  <2>1. page \in 0..n
    OBVIOUS
  <2> QED BY <1>1, <2>1, PageEndRight
<1>4. c < e
  BY <1>3 DEF PageEndsRight
<1>5. /\ PageEndsRight(text', page_location', page_end')
      /\ Short(text') /\ LineHead(text', page_location')
  BY <1>2, <1>3
<1>6. page_location' <= cursor_location' /\ cursor_location' < page_end'
  BY <1>2, <1>4
<1> QED BY <1>5, <1>6 DEF OnPage, PageEndsRight, Short, LineHead

(* The next line begins behind the first newline of the page.              *)
LEMMA NextLineOnPage ==
  ASSUME NEW t, NEW n \in Nat, n = Len(t), NEW p \in 0..n-1, p = page_location,
         NEW c \in p..n-1, Breaks(t, p, c) > 0,
         NEW q, q = page_location_next_line(t)
  PROVE  q \in p+1..c /\ LineHead(t, q) /\ Breaks(t, p, c) = Breaks(t, q, c) + 1
<1>1. PICK e : e = LineEnd(t, p)
  OBVIOUS
<1>2. e \in p..n /\ (e = n \/ At(t, e) = NL) /\ \A r \in p..e-1 : At(t, r) # NL
  <2>1. p \in Int /\ -1 <= p /\ p <= Len(t) /\ Len(t) \in Nat
    OBVIOUS
  <2> QED BY <1>1, <2>1, LineEndIs
<1>3. \A r \in 0..n : At(t, r) = t[r + 1]
  BY DEF At
<1>4. \A i \in p+1..e : t[i] # NL
  <2> SUFFICES ASSUME NEW i \in p+1..e PROVE t[i] # NL
    OBVIOUS
  <2>1. PICK r : r = i - 1
    OBVIOUS
  <2>2. r \in p..e-1 /\ r \in 0..n /\ r + 1 = i
    BY <1>2, <2>1
  <2> QED BY <1>2, <1>3, <2>2
<1>5. e + 1 <= c
  <2>1. ASSUME e >= c PROVE FALSE
    <3>1. \A i \in p+1..c : t[i] # NL
      BY <1>2, <1>4, <2>1
    <3>2. p \in Nat /\ c \in Int
      OBVIOUS
    <3>3. Breaks(t, p, c) = 0
      BY <3>1, <3>2, BreaksCount
    <3> QED BY <3>3
  <2> QED BY <1>2, <2>1
<1>6. q = e + 1
  <2>1. q = IF e + 1 < n THEN e + 1 ELSE p
    BY <1>1 DEF page_location_next_line
  <2> QED BY <1>2, <1>5, <2>1
<1>7. t[q] = NL
  BY <1>2, <1>3, <1>5, <1>6
<1>8. Breaks(t, p, c) = Breaks(t, q, c) + 1
  <2>1. /\ p \in Nat /\ q \in Nat /\ p < q /\ c \in Nat /\ q <= c
        /\ \A i \in p+1..q-1 : t[i] # NL
    BY <1>2, <1>4, <1>5, <1>6
  <2> QED BY <1>7, <2>1, BreaksLater
<1> QED BY <1>2, <1>5, <1>6, <1>7, <1>8 DEF LineHead

(* Following by one line is enough for a cursor on the page, one row below *)
(* it, or at the head of the line before it.                               *)
LEMMA FollowOnPage ==
  ASSUME NEW t, NEW n \in Nat, n = Len(t), Short(t), NEW p \in 0..n-1, p = page_location,
         LineHead(t, p), NEW c \in 0..n-1, Follow(t, c), page_end \in Int, page_end >= p,
         \/ c >= p /\ c < page_end /\ Breaks(t, p, c) < ROW_LEN
         \/ c >= p /\ c >= page_end /\ Breaks(t, p, c) = ROW_LEN
         \/ p > 0 /\ c = LineStart(t, p - 1)
  PROVE  OnPage'
<1>1. CASE c >= p /\ c < page_end /\ Breaks(t, p, c) < ROW_LEN
  <2>1. Show(t, c, p)
    BY <1>1 DEF Follow
  <2>2. c \in p..n-1
    BY <1>1
  <2> QED BY <1>1, <2>1, <2>2, ShowOnPage
<1>2. CASE c >= p /\ c >= page_end /\ Breaks(t, p, c) = ROW_LEN
  <2>1. PICK q : q = page_location_next_line(t)
    OBVIOUS
  <2>2. Show(t, c, q)
    BY <1>2, <2>1 DEF Follow
  <2>3. c \in p..n-1 /\ Breaks(t, p, c) > 0
    BY <1>2, Sizes
  <2>4. q \in p+1..c /\ LineHead(t, q) /\ Breaks(t, p, c) = Breaks(t, q, c) + 1
    BY <2>1, <2>3, NextLineOnPage
  <2>5. q \in 0..n-1 /\ c \in q..n-1
    BY <2>4
  <2>6. Breaks(t, q, c) < ROW_LEN
    <3>1. q \in Nat /\ c \in Int
      BY <2>5
    <3>2. Breaks(t, q, c) \in Nat
      BY <3>1, BreaksCount
    <3> QED BY <1>2, <2>4, <3>2, Sizes
  <2> QED BY <2>2, <2>4, <2>5, <2>6, ShowOnPage
<1>3. CASE p > 0 /\ c = LineStart(t, p - 1)
  <2>1. PICK m \in Nat : m = p - 1
    BY <1>3
  <2>2. c \in 0..m /\ (c = 0 \/ t[c] = NL) /\ \A r \in c+1..m : t[r] # NL
    BY <1>3, <2>1, LineStartIs
  <2>3. page_location_last_line(t) = c
    BY <1>3 DEF page_location_last_line
  <2>4. Show(t, c, c)
    BY <2>1, <2>2, <2>3 DEF Follow
  <2>5. c \in 0..n-1 /\ c \in c..n-1 /\ LineHead(t, c)
    BY <2>2 DEF LineHead
  <2>6. Breaks(t, c, c) < ROW_LEN
    <3>1. c \in Nat /\ c \in Int /\ \A i \in c+1..c : t[i] # NL
      OBVIOUS
    <3>2. Breaks(t, c, c) = 0
      BY <3>1, BreaksCount
    <3> QED BY <3>2, Sizes
  <2> QED BY <2>4, <2>5, <2>6, ShowOnPage
<1> QED BY <1>1, <1>2, <1>3

(* A step that leaves no wide line came from a session without one.        *)
LEMMA StillShort ==
  ASSUME NEW t, NEW c, NEW page, Show(t, c, page), ~wide'
  PROVE  ~wide /\ ShortLines(t)
<1> QED BY Zenon DEF Show

(* Following shows some page.                                              *)
LEMMA FollowShort ==
  ASSUME NEW t, NEW c, Follow(t, c), ~wide'
  PROVE  ~wide /\ ShortLines(t)
<1>1. PICK page : Show(t, c, page)
  BY DEF Follow
<1> QED BY <1>1, StillShort

(* Where the cursor and the page are while no line was too wide.           *)
LEMMA PageFacts ==
  ASSUME EditorInv, OnPage, err = 0, ~slipped, ~wide,
         NEW n, n = Len(text), NEW c, c = cursor_location, NEW p, p = page_location
  PROVE  /\ n \in Nat /\ n <= BUFFER_SIZE /\ n > 0 /\ text \in Seq(Shown)
         /\ c \in 0..n-1 /\ p \in 0..c /\ p \in 0..n-1
         /\ Short(text) /\ LineHead(text, p) /\ Breaks(text, p, c) \in 0..ROW_LEN-1
         /\ page_end \in Int /\ page_end > p /\ page_end > c
         /\ PageEndsRight(text, p, page_end)
<1>1. n \in Nat /\ n <= BUFFER_SIZE /\ text \in Seq(Shown)
  BY LenProperties DEF EditorInv, Contents
<1>2. c \in 0..n-1
  BY <1>1, Sizes DEF EditorInv, CursorPlace, EndsWithNewline
<1>3. p \in Nat /\ page_end \in Int
  BY <1>1 DEF EditorInv, PagePlace
<1>4. /\ Short(text) /\ LineHead(text, p) /\ p <= c /\ c < page_end
      /\ PageEndsRight(text, p, page_end)
  BY DEF OnPage
<1>5. p \in 0..c /\ p \in 0..n-1 /\ page_end > p /\ n > 0 /\ c \in p..n-1
  BY <1>1, <1>2, <1>3, <1>4
<1>6. Breaks(text, p, c) < ROW_LEN
  BY <1>4, <1>5 DEF PageEndsRight
<1>7. Breaks(text, p, c) \in Nat
  <2>1. p \in Nat /\ c \in Int
    BY <1>2, <1>3
  <2> QED BY <2>1, BreaksCount
<1> QED BY <1>1, <1>2, <1>3, <1>4, <1>5, <1>6, <1>7, Sizes

(* A move to the rows of the page, to the row below it or to the head of   *)
(* the line before it.                                                     *)
LEMMA MoveOnPage ==
  ASSUME EditorInv, OnPage, err = 0, ~slipped, ~wide,
         NEW d \in 0..Len(text)-1, Follow(text, d),
         \/ d >= page_location /\ Breaks(text, page_location, d) <= ROW_LEN
         \/ page_location > 0 /\ d = LineStart(text, page_location - 1)
  PROVE  OnPage'
<1>1. PICK n : n = Len(text)
  OBVIOUS
<1>2. PICK p : p = page_location
  OBVIOUS
<1>3. PICK c : c = cursor_location
  OBVIOUS
<1>4. /\ n \in Nat /\ p \in 0..n-1 /\ Short(text) /\ LineHead(text, p)
      /\ page_end \in Int /\ page_end > p /\ PageEndsRight(text, p, page_end)
  BY <1>1, <1>2, <1>3, PageFacts
<1>5. CASE d >= p /\ Breaks(text, p, d) <= ROW_LEN
  <2>1. d \in p..n-1 /\ d \in 0..n-1
    BY <1>1, <1>4, <1>5
  <2>2. d < page_end <=> Breaks(text, p, d) < ROW_LEN
    BY <1>1, <2>1, <1>4 DEF PageEndsRight
  <2>3. Breaks(text, p, d) \in Nat
    <3>1. p \in Nat /\ d \in Int
      BY <1>4, <2>1
    <3> QED BY <3>1, BreaksCount
  <2>4. \/ d >= p /\ d < page_end /\ Breaks(text, p, d) < ROW_LEN
        \/ d >= p /\ d >= page_end /\ Breaks(text, p, d) = ROW_LEN
    BY <1>4, <1>5, <2>1, <2>2, <2>3, Sizes
  <2> QED BY <1>1, <1>2, <1>4, <2>1, <2>4, FollowOnPage
<1>6. CASE p > 0 /\ d = LineStart(text, p - 1)
  <2>1. page_end >= p
    BY <1>4
  <2> QED BY <1>1, <1>2, <1>4, <1>6, <2>1, FollowOnPage
<1> QED BY <1>2, <1>5, <1>6

(* Down: one newline further.                                              *)
LEMMA DownOnPage ==
  ASSUME EditorInv, OnPage, err = 0, ~slipped, ~wide, NEW d, d = cursor_next_line
  PROVE  /\ d \in 0..Len(text)-1 /\ d >= page_location
         /\ Breaks(text, page_location, d) <= ROW_LEN
<1>1. PICK n : n = Len(text)
  OBVIOUS
<1>2. PICK p : p = page_location
  OBVIOUS
<1>3. PICK c : c = cursor_location
  OBVIOUS
<1>4. n \in Nat /\ c \in 0..n-1 /\ p \in 0..c /\ Breaks(text, p, c) \in 0..ROW_LEN-1
  BY <1>1, <1>2, <1>3, PageFacts
<1>5. PICK e : e = LineEnd(text, c)
  OBVIOUS
<1>6. e \in c..n /\ (e = n \/ At(text, e) = NL) /\ \A r \in c..e-1 : At(text, r) # NL
  <2>1. c \in Int /\ -1 <= c /\ c <= Len(text) /\ Len(text) \in Nat
    BY <1>1, <1>4
  <2> QED BY <1>1, <1>5, <2>1, LineEndIs
<1>7. d = IF e + 1 < n THEN e + 1 ELSE c
  BY <1>1, <1>3, <1>5 DEF cursor_next_line
<1>8. CASE e + 1 < n
  <2>1. \A r \in 0..n : At(text, r) = text[r + 1]
    BY DEF At
  <2>2. text[d] = NL
    BY <1>4, <1>6, <1>7, <1>8, <2>1
  <2>3. \A i \in c+1..d-1 : text[i] # NL
    <3> SUFFICES ASSUME NEW i \in c+1..d-1 PROVE text[i] # NL
      OBVIOUS
    <3>1. PICK r : r = i - 1
      OBVIOUS
    <3>2. r \in c..e-1 /\ r \in 0..n /\ r + 1 = i
      BY <1>4, <1>6, <1>7, <1>8, <3>1
    <3> QED BY <1>6, <2>1, <3>2
  <2>4. Breaks(text, p, d) = Breaks(text, p, c) + 1
    <3>1. p \in Nat /\ c \in Nat /\ p <= c /\ d \in Nat /\ c < d
      BY <1>4, <1>6, <1>7, <1>8
    <3> QED BY <2>2, <2>3, <3>1, BreaksNext
  <2> QED BY <1>1, <1>2, <1>4, <1>6, <1>7, <1>8, <2>4, Sizes
<1>9. CASE ~(e + 1 < n)
  BY <1>1, <1>2, <1>4, <1>7, <1>9, Sizes
<1> QED BY <1>8, <1>9

(* Up: a line of the page, or the line before it.                          *)
LEMMA UpOnPage ==
  ASSUME EditorInv, OnPage, err = 0, ~slipped, ~wide, NEW d, d = cursor_prev_line
  PROVE  /\ d \in 0..Len(text)-1
         /\ \/ d >= page_location /\ Breaks(text, page_location, d) <= ROW_LEN
            \/ page_location > 0 /\ d = LineStart(text, page_location - 1)
<1>1. PICK n : n = Len(text)
  OBVIOUS
<1>2. PICK p : p = page_location
  OBVIOUS
<1>3. PICK c : c = cursor_location
  OBVIOUS
<1>4. /\ n \in Nat /\ c \in 0..n-1 /\ p \in 0..c /\ Breaks(text, p, c) \in 0..ROW_LEN-1
      /\ LineHead(text, p)
  BY <1>1, <1>2, <1>3, PageFacts
<1>5. CASE d = c
  BY <1>1, <1>2, <1>4, <1>5, Sizes
<1>6. CASE d # c
  <2>1. PICK m \in Nat : m = c - 1
    BY <1>3, <1>4, <1>6 DEF cursor_prev_line
  <2>2. d = LineStart(text, m)
    BY <1>3, <1>6, <2>1 DEF cursor_prev_line
  <2>3. d \in 0..m /\ \A r \in d+1..m : text[r] # NL
    BY <2>2, LineStartIs
  <2>4. d \in 0..n-1
    BY <1>4, <2>1, <2>3
  <2>5. CASE d >= p
    <3>1. Breaks(text, p, d) <= Breaks(text, p, c)
      <4>1. p \in Nat /\ d \in Int /\ c \in Int /\ d <= c
        BY <1>4, <2>1, <2>3
      <4> QED BY <4>1, BreaksGrow
    <3>2. Breaks(text, p, d) \in Nat
      <4>1. p \in Nat /\ d \in Int
        BY <1>4, <2>3
      <4> QED BY <4>1, BreaksCount
    <3> QED BY <1>1, <1>2, <1>4, <2>4, <2>5, <3>1, <3>2, Sizes
  <2>6. CASE d < p
    <3>1. text[p] = NL /\ p > 0
      BY <1>4, <2>3, <2>6 DEF LineHead
    <3>2. ~(p \in d+1..m)
      BY <2>3, <3>1
    <3>3. p = c
      BY <1>4, <2>1, <2>3, <2>6, <3>2
    <3> QED BY <1>1, <1>2, <2>1, <2>2, <2>4, <3>1, <3>3
  <2> QED BY <1>4, <2>3, <2>5, <2>6
<1> QED BY <1>5, <1>6

(* Left and right: the same line.                                          *)
LEMMA AlongOnPage ==
  ASSUME EditorInv, OnPage, err = 0, ~slipped, ~wide,
         NEW d \in {IF cursor_location > 0 /\ At(text, cursor_location - 1) # NL
                    THEN cursor_location - 1 ELSE cursor_location,
                    IF LeftOfEnd THEN cursor_location + 1 ELSE cursor_location,
                    cursor_location}
  PROVE  /\ d \in 0..Len(text)-1 /\ d >= page_location
         /\ Breaks(text, page_location, d) <= ROW_LEN
<1>1. PICK n : n = Len(text)
  OBVIOUS
<1>2. PICK p : p = page_location
  OBVIOUS
<1>3. PICK c : c = cursor_location
  OBVIOUS
<1>4. /\ n \in Nat /\ c \in 0..n-1 /\ p \in 0..c /\ Breaks(text, p, c) \in 0..ROW_LEN-1
      /\ LineHead(text, p)
  BY <1>1, <1>2, <1>3, PageFacts
<1>5. \A r \in 0..n : At(text, r) = text[r + 1]
  BY DEF At
<1>6. \/ d = c
      \/ c > 0 /\ At(text, c - 1) # NL /\ d = c - 1
      \/ c + 1 < n /\ At(text, c) # NL /\ d = c + 1
  BY <1>1, <1>3 DEF LeftOfEnd
<1>7. CASE d = c
  BY <1>1, <1>2, <1>4, <1>7, Sizes
<1>8. CASE c > 0 /\ At(text, c - 1) # NL /\ d = c - 1
  <2>1. d \in 0..n /\ d + 1 = c /\ d \in 0..n-1
    BY <1>4, <1>8
  <2>2. text[c] # NL
    BY <1>5, <1>8, <2>1
  <2>3. p # c
    BY <1>4, <1>8, <2>2 DEF LineHead
  <2>4. Breaks(text, p, d) <= Breaks(text, p, c) /\ Breaks(text, p, d) \in Nat
    <3>1. p \in Nat /\ d \in Int /\ c \in Int /\ d <= c
      BY <1>4, <2>1
    <3> QED BY <3>1, BreaksGrow, BreaksCount
  <2> QED BY <1>1, <1>2, <1>4, <2>1, <2>3, <2>4, Sizes
<1>9. CASE c + 1 < n /\ At(text, c) # NL /\ d = c + 1
  <2>1. text[d] # NL
    BY <1>4, <1>5, <1>9
  <2>2. Breaks(text, p, d) = Breaks(text, p, c)
    <3>1. /\ p \in Nat /\ c \in Nat /\ p <= c /\ d \in Nat /\ c < d
          /\ \A i \in c+1..d-1 : text[i] # NL
      BY <1>4, <1>9
    <3> QED BY <2>1, <3>1, BreaksNext
  <2> QED BY <1>1, <1>2, <1>4, <1>9, <2>2, Sizes
<1> QED BY <1>6, <1>7, <1>8, <1>9

(* The keys that move the cursor keep it on the screen.                    *)
LEMMA CommandOnPage ==
  ASSUME EditorInv, OnPage, KeyJ \/ KeyK \/ KeyH \/ KeyL \/ KeyColon
  PROVE  OnPage'
<1> SUFFICES ASSUME err' = 0, ~slipped', ~wide' PROVE OnPage'
  BY DEF OnPage
<1>1. err = 0 /\ ~slipped
  BY DEF KeyJ, KeyK, KeyH, KeyL, KeyColon, MoveCursor, Command
<1> DEFINE Along == {IF cursor_location > 0 /\ At(text, cursor_location - 1) # NL
                     THEN cursor_location - 1 ELSE cursor_location,
                     IF LeftOfEnd THEN cursor_location + 1 ELSE cursor_location,
                     cursor_location}
<1>2. CASE KeyJ
  <2>1. PICK d : d = cursor_next_line
    OBVIOUS
  <2>2. Follow(text, d)
    BY <1>2, <2>1 DEF KeyJ, MoveCursor
  <2>3. ~wide
    BY <2>2, FollowShort
  <2> QED BY <1>1, <2>1, <2>2, <2>3, DownOnPage, MoveOnPage
<1>3. CASE KeyK
  <2>1. PICK d : d = cursor_prev_line
    OBVIOUS
  <2>2. Follow(text, d)
    BY <1>3, <2>1 DEF KeyK, MoveCursor
  <2>3. ~wide
    BY <2>2, FollowShort
  <2> QED BY <1>1, <2>1, <2>2, <2>3, UpOnPage, MoveOnPage
<1>4. CASE KeyH \/ KeyL \/ KeyColon
  <2>1. PICK d \in Along : Follow(text, d)
    BY <1>4 DEF KeyH, KeyL, KeyColon, MoveCursor
  <2>2. ~wide
    BY <2>1, FollowShort
  <2> QED BY <1>1, <2>1, <2>2, AlongOnPage, MoveOnPage
<1> QED BY <1>2, <1>3, <1>4

(* Deleting under the cursor leaves what is before it.                     *)
LEMMA KeyXOnPage ==
  ASSUME EditorInv, OnPage, KeyX
  PROVE  OnPage'
<1> SUFFICES ASSUME err' = 0, ~slipped', ~wide' PROVE OnPage'
  BY DEF OnPage
<1>1. err = 0 /\ ~slipped
  BY DEF KeyX, Command
<1>2. PICK n : n = Len(text)
  OBVIOUS
<1>3. PICK p : p = page_location
  OBVIOUS
<1>4. PICK c : c = cursor_location
  OBVIOUS
<1>5. CASE ~MayDelete
  <2>1. Follow(text, c)
    BY <1>4, <1>5 DEF KeyX
  <2>2. ~wide
    BY <2>1, FollowShort
  <2>3. c \in 0..n-1 /\ p \in 0..c /\ Breaks(text, p, c) \in 0..ROW_LEN-1
    BY <1>1, <1>2, <1>3, <1>4, <2>2, PageFacts
  <2>4. c \in 0..Len(text)-1 /\ c >= page_location /\ Breaks(text, page_location, c) <= ROW_LEN
    BY <1>2, <1>3, <2>3, Sizes
  <2> QED BY <1>1, <2>1, <2>2, <2>4, MoveOnPage
<1>6. CASE MayDelete
  <2>1. PICK t : t = Deleted(c)
    OBVIOUS
  <2>2. Follow(t, c)
    BY <1>4, <1>6, <2>1 DEF KeyX
  <2>3. ~wide /\ ShortLines(t)
    BY <2>2, FollowShort
  <2>4. /\ n \in Nat /\ text \in Seq(Shown) /\ c \in 0..n-1 /\ p \in 0..c
        /\ LineHead(text, p) /\ Breaks(text, p, c) \in 0..ROW_LEN-1
        /\ page_end \in Int /\ page_end > p /\ page_end > c
    BY <1>1, <1>2, <1>3, <1>4, <2>3, PageFacts
  <2>5. PICK m \in Nat : m = n - 1 /\ c <= m - 1
    BY <1>2, <1>4, <1>6, <2>4 DEF MayDelete
  <2>6. Len(t) = m /\ \A i \in 1..c : t[i] = text[i]
    <3>1. n \in Nat /\ text \in Seq(Shown) /\ c \in 0..n-1
      BY <2>4
    <3>2. Len(t) = n - 1 /\ \A i \in 1..c : t[i] = text[i]
      BY <1>2, <2>1, <3>1, DeletedIs
    <3> QED BY <2>5, <3>2
  <2>7. Short(t)
    BY <2>3, <2>6, ShortIs
  <2>8. LineHead(t, p)
    BY <2>4, <2>6 DEF LineHead
  <2>9. Breaks(t, p, c) = Breaks(text, p, c)
    <3>1. p \in Nat /\ c \in Int /\ \A i \in p+1..c : t[i] = text[i]
      BY <2>4, <2>6
    <3> QED BY <3>1, BreaksSame
  <2>10. p \in 0..m-1 /\ c \in 0..m-1 /\ c >= p /\ page_end >= p /\ c < page_end
    BY <2>4, <2>5
  <2>11. Breaks(t, p, c) < ROW_LEN
    BY <2>4, <2>9, Sizes
  <2>12. m = Len(t)
    BY <2>6
  <2> QED BY <1>3, <2>2, <2>4, <2>7, <2>8, <2>10, <2>11, <2>12, FollowOnPage
<1> QED BY <1>5, <1>6

(* A character typed moves the cursor one row down at most.                *)
LEMMA TypeOnPage ==
  ASSUME EditorInv, OnPage, NEW key \in Char, Type(key)
  PROVE  OnPage'
<1> SUFFICES ASSUME err' = 0, ~slipped', ~wide' PROVE OnPage'
  BY DEF OnPage
<1>1. err = 0 /\ ~slipped /\ ~Full
  BY DEF Type, InsertMode
<1>2. PICK n : n = Len(text)
  OBVIOUS
<1>3. PICK p : p = page_location
  OBVIOUS
<1>4. PICK c : c = cursor_location
  OBVIOUS
<1>5. PICK t : t = Inserted(key, c)
  OBVIOUS
<1>6. PICK next : next = page_location_next_line(t)
  OBVIOUS
<1>7. PICK e : e = PageEnd(t, p)
  OBVIOUS
<1>8. PICK d : d = c + 1
  OBVIOUS
<1>9. Show(t, d, IF d >= e THEN next ELSE p)
  BY <1>1, <1>3, <1>4, <1>5, <1>6, <1>7, <1>8 DEF Type
<1>10. ~wide /\ ShortLines(t)
  BY <1>9, StillShort
<1>11. /\ n \in Nat /\ text \in Seq(Shown) /\ c \in 0..n-1 /\ p \in 0..c
       /\ LineHead(text, p) /\ Breaks(text, p, c) \in 0..ROW_LEN-1
  BY <1>1, <1>2, <1>3, <1>4, <1>10, PageFacts
<1>12. PICK m \in Nat : m = n + 1
  BY <1>11
<1>13. Len(t) = m /\ t[d] = key /\ \A i \in 1..c : t[i] = text[i]
  <2>1. c \in 0..n /\ key \in Shown
    BY <1>11, Sizes
  <2> QED BY <1>2, <1>5, <1>8, <1>11, <1>12, <2>1, InsertedIs
<1>14. Short(t)
  BY <1>10, <1>13, ShortIs
<1>15. LineHead(t, p)
  BY <1>11, <1>13 DEF LineHead
<1>16. Breaks(t, p, d) \in 0..ROW_LEN
  <2>1. Breaks(t, p, c) = Breaks(text, p, c)
    <3>1. p \in Nat /\ c \in Int /\ \A i \in p+1..c : t[i] = text[i]
      BY <1>11, <1>13
    <3> QED BY <3>1, BreaksSame
  <2>2. Breaks(t, p, d) = Breaks(t, p, c) \/ Breaks(t, p, d) = Breaks(t, p, c) + 1
    <3>1. /\ p \in Nat /\ c \in Nat /\ p <= c /\ d \in Nat /\ c < d
          /\ \A i \in c+1..d-1 : t[i] # NL
      BY <1>8, <1>11
    <3> QED BY <3>1, BreaksNext
  <2> QED BY <1>11, <2>1, <2>2, Sizes
<1>17. p \in 0..m-1 /\ p \in 0..m /\ d \in p..m-1
  BY <1>8, <1>11, <1>12
<1>18. d < e <=> Breaks(t, p, d) < ROW_LEN
  <2>1. PageEndsRight(t, p, e)
    BY <1>7, <1>13, <1>14, <1>15, <1>17, PageEndRight
  <2> QED BY <1>13, <1>17, <2>1 DEF PageEndsRight
<1>19. e \in Int
  <2>1. e \in p..Len(t)
    BY <1>7, <1>13, <1>17, PageEndIs
  <2> QED BY <1>13, <1>17, <2>1
<1>20. CASE d < e
  <2>1. Show(t, d, p)
    BY <1>9, <1>17, <1>19, <1>20
  <2>2. m = Len(t)
    BY <1>13
  <2> QED BY <1>14, <1>15, <1>17, <1>18, <1>20, <2>1, <2>2, ShowOnPage
<1>21. CASE ~(d < e)
  <2>1. Show(t, d, next)
    BY <1>9, <1>17, <1>19, <1>21
  <2>2. Breaks(t, p, d) = ROW_LEN /\ Breaks(t, p, d) > 0
    BY <1>16, <1>18, <1>21, Sizes
  <2>3. m = Len(t)
    BY <1>13
  <2>4. next \in p+1..d /\ LineHead(t, next) /\ Breaks(t, p, d) = Breaks(t, next, d) + 1
    BY <1>3, <1>6, <1>17, <2>2, <2>3, NextLineOnPage
  <2>5. next \in 0..m-1 /\ d \in next..m-1
    BY <1>17, <2>4
  <2>6. Breaks(t, next, d) < ROW_LEN
    <3>1. next \in Nat /\ d \in Int
      BY <2>5
    <3>2. Breaks(t, next, d) \in Nat
      BY <3>1, BreaksCount
    <3> QED BY <2>2, <2>4, <3>2, Sizes
  <2> QED BY <1>14, <2>1, <2>3, <2>4, <2>5, <2>6, ShowOnPage
<1> QED BY <1>20, <1>21

(* A backspace at the head of the page joins two lines, and the page moves *)
(* to the head of the line they make.                                      *)
LEMMA BackspaceOnPage ==
  ASSUME EditorInv, OnPage, Backspace
  PROVE  OnPage'
<1> SUFFICES ASSUME err' = 0, ~slipped', ~wide' PROVE OnPage'
  BY DEF OnPage
<1>1. err = 0 /\ ~slipped /\ cursor_location # 0
  BY DEF Backspace, InsertMode
<1>2. PICK n : n = Len(text)
  OBVIOUS
<1>3. PICK p : p = page_location
  OBVIOUS
<1>4. PICK c : c = cursor_location
  OBVIOUS
<1>5. PICK d : d = c - 1
  OBVIOUS
<1>6. PICK t : t = Deleted(d)
  OBVIOUS
<1>7. PICK last : last = page_location_last_line(t)
  OBVIOUS
<1>8. Show(t, d, IF d < p THEN last ELSE p)
  BY <1>1, <1>3, <1>4, <1>5, <1>6, <1>7 DEF Backspace
<1>9. ~wide /\ ShortLines(t)
  BY <1>8, StillShort
<1>10. /\ n \in Nat /\ text \in Seq(Shown) /\ c \in 0..n-1 /\ p \in 0..c
       /\ LineHead(text, p) /\ Breaks(text, p, c) \in 0..ROW_LEN-1
  BY <1>1, <1>2, <1>3, <1>4, <1>9, PageFacts
<1>11. PICK m \in Nat : m = n - 1
  BY <1>10
<1>12. d \in 0..m-1 /\ d \in 0..n-1 /\ c = d + 1
  BY <1>1, <1>4, <1>5, <1>10, <1>11
<1>13. Len(t) = m /\ \A i \in 1..d : t[i] = text[i]
  <2>1. n \in Nat /\ text \in Seq(Shown) /\ d \in 0..n-1
    BY <1>10, <1>12
  <2>2. Len(t) = n - 1 /\ \A i \in 1..d : t[i] = text[i]
    BY <1>2, <1>6, <2>1, DeletedIs
  <2> QED BY <1>11, <2>2
<1>14. Short(t) /\ m = Len(t)
  BY <1>9, <1>13, ShortIs
<1>15. CASE d < p
  <2>1. p = c /\ p # 0 /\ p - 1 = d
    BY <1>10, <1>12, <1>15
  <2>2. last = LineStart(t, d)
    BY <1>3, <1>7, <2>1 DEF page_location_last_line
  <2>3. last \in 0..d /\ (last = 0 \/ t[last] = NL) /\ \A r \in last+1..d : t[r] # NL
    <3>1. d \in Nat
      BY <1>12
    <3> QED BY <2>2, <3>1, LineStartIs
  <2>4. Show(t, d, last)
    BY <1>8, <1>15
  <2>5. last \in 0..m-1 /\ d \in last..m-1 /\ LineHead(t, last)
    BY <1>12, <2>3 DEF LineHead
  <2>6. Breaks(t, last, d) < ROW_LEN
    <3>1. last \in Nat /\ d \in Int
      BY <1>12, <2>3
    <3>2. Breaks(t, last, d) = 0
      BY <2>3, <3>1, BreaksCount
    <3> QED BY <3>2, Sizes
  <2> QED BY <1>14, <2>4, <2>5, <2>6, ShowOnPage
<1>16. CASE ~(d < p)
  <2>1. Show(t, d, p)
    BY <1>8, <1>16
  <2>2. p \in 0..m-1 /\ d \in p..m-1
    BY <1>10, <1>12, <1>16
  <2>3. LineHead(t, p)
    BY <1>10, <1>13, <2>2 DEF LineHead
  <2>4. Breaks(t, p, d) < ROW_LEN
    <3>1. p \in Nat /\ d \in Int /\ c \in Int /\ d <= c /\ \A i \in p+1..d : t[i] = text[i]
      BY <1>10, <1>12, <1>13
    <3>2. Breaks(t, p, d) = Breaks(text, p, d)
      BY <3>1, BreaksSame
    <3>3. Breaks(text, p, d) <= Breaks(text, p, c)
      BY <3>1, BreaksGrow
    <3>4. Breaks(text, p, d) \in Nat
      BY <3>1, BreaksCount
    <3> QED BY <1>10, <3>2, <3>3, <3>4, Sizes
  <2> QED BY <1>14, <2>1, <2>2, <2>3, <2>4, ShowOnPage
<1> QED BY <1>15, <1>16

(* The editor begins on the first row.                                     *)
LEMMA MyviOnPage ==
  ASSUME NEW f \in Files \union {NoFile}, myvi(f)
  PROVE  OnPage'
<1> SUFFICES ASSUME err' = 0, ~slipped', ~wide' PROVE OnPage'
  BY DEF OnPage
<1>1. f \in Seq(Shown \union {CR}) \union {NoFile}
  BY Sizes
<1>2. PICK t : t = Loaded(f)
  OBVIOUS
<1>3. PICK n \in Nat : n = Len(t) /\ n > 0
  <2>1. Len(t) \in 1..BUFFER_SIZE
    BY <1>1, <1>2, LoadedIs
  <2> QED BY <2>1, Sizes
<1>4. PICK e : e = PageEnd(t, 0)
  OBVIOUS
<1>5. text' = t /\ cursor_location' = 0 /\ page_location' = 0 /\ page_end' = e
  BY <1>2, <1>4 DEF myvi
<1>6. ShortLines(t)
  BY <1>2, Zenon DEF myvi
<1>7. Short(t) /\ LineHead(t, 0)
  BY <1>3, <1>6, ShortIs DEF LineHead
<1>8. PageEndsRight(t, 0, e)
  <2>1. 0 \in 0..n
    BY <1>3
  <2> QED BY <1>3, <1>4, <1>7, <2>1, PageEndRight
<1>9. 0 < e
  <2>1. Breaks(t, 0, 0) = 0
    BY BreaksCount
  <2>2. 0 \in 0..Len(t)-1
    BY <1>3
  <2> QED BY <1>8, <2>1, <2>2, Sizes DEF PageEndsRight
<1>10. /\ Short(text') /\ LineHead(text', page_location')
       /\ PageEndsRight(text', page_location', page_end')
  BY <1>5, <1>7, <1>8
<1> QED BY <1>5, <1>9, <1>10 DEF OnPage, Short, LineHead, PageEndsRight

(* The last line draws the same page again.                                *)
LEMMA LastLineOnPage ==
  ASSUME EditorInv, OnPage, LastLine
  PROVE  OnPage'
<1> SUFFICES ASSUME err' = 0, ~slipped', ~wide' PROVE OnPage'
  BY DEF OnPage
<1>1. /\ err = 0 /\ ~slipped /\ ~wide /\ page_end' = PageEnd(text, page_location)
      /\ UNCHANGED <<text, cursor_location, page_location>>
  BY DEF LastLine
<1>2. PICK n : n = Len(text)
  OBVIOUS
<1>3. PICK p : p = page_location
  OBVIOUS
<1>4. PICK c : c = cursor_location
  OBVIOUS
<1>5. PICK e : e = PageEnd(text, p)
  OBVIOUS
<1>6. /\ n \in Nat /\ c \in 0..n-1 /\ p \in 0..c /\ Short(text) /\ LineHead(text, p)
      /\ Breaks(text, p, c) \in 0..ROW_LEN-1
  BY <1>1, <1>2, <1>3, <1>4, PageFacts
<1>7. PageEndsRight(text, p, e)
  <2>1. p \in 0..n
    BY <1>6
  <2> QED BY <1>2, <1>5, <1>6, <2>1, PageEndRight
<1>8. c < e
  <2>1. c \in p..Len(text)-1 /\ Breaks(text, p, c) < ROW_LEN
    BY <1>2, <1>6, Sizes
  <2> QED BY <1>7, <2>1 DEF PageEndsRight
<1>9. /\ Short(text') /\ LineHead(text', page_location')
      /\ PageEndsRight(text', page_location', page_end')
      /\ page_location' <= cursor_location' /\ cursor_location' < page_end'
  BY <1>1, <1>3, <1>4, <1>5, <1>6, <1>7, <1>8
<1> QED BY <1>9 DEF OnPage, Short, LineHead, PageEndsRight

(* Every key keeps the cursor on the screen.                               *)
LEMMA NextOnPage == EditorInv /\ OnPage /\ [Next]_vars => OnPage'
<1> SUFFICES ASSUME EditorInv, OnPage, [Next]_vars PROVE OnPage'
  OBVIOUS
<1>1. CASE \E f \in Files \union {NoFile} : myvi(f)
  BY <1>1, MyviOnPage
<1>2. CASE KeyJ \/ KeyK \/ KeyH \/ KeyL \/ KeyColon
  BY <1>2, CommandOnPage
<1>3. CASE KeyX
  BY <1>3, KeyXOnPage
<1>4. CASE KeyI \/ Escape \/ UNCHANGED vars
  <2>1. UNCHANGED <<text, cursor_location, page_location, page_end, err, slipped, wide>>
    BY <1>4 DEF KeyI, Escape, Command, InsertMode, vars
  <2> QED BY <2>1 DEF OnPage, Short, LineHead, PageEndsRight
<1>5. CASE Backspace
  BY <1>5, BackspaceOnPage
<1>6. CASE \E key \in Char : Type(key)
  BY <1>6, TypeOnPage
<1>7. CASE \/ \E key \in Key : LastLineKey(key)
           \/ LastLineBackspace \/ LastLineEscape \/ LastLineEnter
           \/ SaveSucceeds \/ SaveFails
  <2>1. LastLine
    BY <1>7 DEF LastLineKey, LastLineBackspace, LastLineEscape, LastLineEnter, SaveSucceeds,
                SaveFails, SaveEnds
  <2> QED BY <2>1, LastLineOnPage
<1> QED BY <1>1, <1>2, <1>3, <1>4, <1>5, <1>6, <1>7 DEF Next, Key

(* For every size of the screen and the buffer: moving the page by a       *)
(* single line after a key keeps the cursor on the screen as long as no    *)
(* line has been as wide as the screen.                                    *)
THEOREM CursorStaysOnScreen == Spec => []CursorOnScreen
<1>1. Init => OnPage
  BY DEF Init, OnPage
<1>2. OnPage => CursorOnScreen
  BY DEF OnPage, CursorOnScreen
<1>3. Spec => []OnPage
  BY <1>1, EditorInvariant, NextOnPage, PTL DEF Spec
<1> QED BY <1>2, <1>3, PTL

=============================================================================
