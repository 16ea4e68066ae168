------------------------- MODULE BootMemory_proofs --------------------------
(***************************************************************************)
(* The boot-time memory manager for every size of memory, every limit of   *)
(* records and every set of requests.                                      *)
(***************************************************************************)
EXTENDS BootMemory, NatLemmas, SequenceTheorems

(* The least of a set of natural numbers is what Min chooses.              *)
LEMMA MinIsLeast ==
  ASSUME NEW S, S \subseteq Nat, S # {}
  PROVE  Min(S) \in S /\ \A y \in S : Min(S) <= y
BY LeastNat DEF Min

-----------------------------------------------------------------------------
(***************************************************************************)
(* find_pages.  A turn of its loop, given what the later turns find.       *)
(***************************************************************************)
Turn(used, n, e, a, f, i) ==
  IF i >= e THEN 0
  ELSE IF i \in used THEN f[i + 1]
  ELSE IF Stop(used, i, e) - i >= n THEN i
  ELSE f[Stop(used, i, e) + a]

Places(a) == 0 .. 2 * (MaxPn + a)

Loop(used, n, e, a) == CHOOSE f : f = [i \in Places(a) |-> Turn(used, n, e, a, f, i)]

(* Found is what the loop comes to from the aligned start.                 *)
LEMMA FoundIs ==
  ASSUME NEW used, NEW n, NEW s, NEW e, NEW a
  PROVE  Found(used, n, s, e, a) = Loop(used, n, e, a)[((s + a - 1) \div a) * a]
BY DEF Found, Loop, Turn, Places

(* The page at which a stretch of free pages ends.                         *)
LEMMA StopIs ==
  ASSUME NEW used, used \subseteq Page, NEW e \in 0..MaxPn, NEW i \in Nat, i < e
  PROVE  /\ Stop(used, i, e) \in i..e
         /\ Stop(used, i, e) = e \/ Stop(used, i, e) \in used
         /\ \A p \in i..e : p < Stop(used, i, e) => p \notin used
<1> DEFINE S == {e} \union {p \in used : p \in i..e}
<1>1. S \subseteq i..e /\ S \subseteq Nat /\ S # {}
  BY BootAssumption
<1>2. Min(S) \in S /\ \A y \in S : Min(S) <= y
  BY <1>1, MinIsLeast
<1>3. Stop(used, i, e) = Min(S)
  BY DEF Stop
<1> HIDE DEF S
<1>4. \A p \in i..e : p \in used => p \in S
  BY DEF S
<1>5. Stop(used, i, e) \in i..e
  BY <1>1, <1>2, <1>3
<1>6. Stop(used, i, e) = e \/ Stop(used, i, e) \in used
  BY <1>2, <1>3 DEF S
<1>7. ASSUME NEW p \in i..e, p < Stop(used, i, e), p \in used
      PROVE  FALSE
  <2>1. Min(S) <= p /\ Min(S) \in Nat
    BY <1>1, <1>2, <1>4, <1>7
  <2> QED BY <1>3, <1>7, <2>1
<1> QED BY <1>5, <1>6, <1>7

(* A turn looks at later pages only, and there are such functions.         *)
LEMMA TurnLooksAhead ==
  ASSUME NEW used, used \subseteq Page, NEW e \in 0..MaxPn, NEW n \in Nat, NEW a \in Nat \ {0},
         NEW i \in Places(a), NEW f \in [Places(a) -> Places(a)]
  PROVE  /\ Turn(used, n, e, a, f, i) \in Places(a)
         /\ \A g \in [Places(a) -> Places(a)] :
              (\A j \in Places(a) : j > i => g[j] = f[j])
                 => Turn(used, n, e, a, g, i) = Turn(used, n, e, a, f, i)
<1>1. MaxPn \in Nat /\ i \in Nat
  BY BootAssumption DEF Places
<1>2. CASE i >= e
  BY <1>1, <1>2 DEF Turn, Places
<1>3. CASE ~(i >= e)
  <2>1. i < e /\ e <= MaxPn
    BY <1>1, <1>3
  <2>2. Stop(used, i, e) \in i..e
    BY <1>1, <2>1, StopIs
  <2>3. PICK st \in Nat : st = Stop(used, i, e) /\ i <= st /\ st <= e
    BY <1>1, <2>2
  <2>4. i + 1 \in Places(a) /\ st + a \in Places(a) /\ i + 1 > i /\ st + a > i
    <3>1. e \in Nat /\ a \in Nat /\ a > 0 /\ e <= MaxPn
      BY <1>1
    <3>2. i + 1 \in Nat /\ i + 1 <= 2 * (MaxPn + a)
      BY <1>1, <2>1, <3>1
    <3>3. st + a \in Nat /\ st + a <= 2 * (MaxPn + a) /\ st + a > i
      BY <1>1, <2>1, <2>3, <3>1
    <3> QED BY <1>1, <3>1, <3>2, <3>3 DEF Places
  <2>5. f[i + 1] \in Places(a) /\ f[st + a] \in Places(a)
    BY <2>4
  <2> QED BY <1>3, <2>3, <2>4, <2>5 DEF Turn
<1> QED BY <1>2, <1>3

Solves(used, n, e, a, f) ==
  /\ f \in [Places(a) -> Places(a)]
  /\ \A i \in Places(a) : f[i] = Turn(used, n, e, a, f, i)

(* The loop has a result from every page.                                  *)
LEMMA LoopExists ==
  ASSUME NEW used, used \subseteq Page, NEW e \in 0..MaxPn, NEW n \in Nat, NEW a \in Nat \ {0}
  PROVE  Solves(used, n, e, a, Loop(used, n, e, a))
<1> DEFINE D == Places(a)
           T(f, i) == Turn(used, n, e, a, f, i)
           Solved(k) == \E g \in [D -> D] : \A i \in D : i >= k => g[i] = T(g, i)
           last == 2 * (MaxPn + a) + 1
           Bad == {k \in 0..last : ~Solved(k)}
<1>1. last \in Nat /\ last > 0 /\ D = 0..last-1
  BY BootAssumption DEF Places
<1>a. last > MaxPn + a
  BY BootAssumption
<1>2. ASSUME NEW i \in D, NEW f \in [D -> D]
      PROVE  /\ T(f, i) \in D
             /\ \A g \in [D -> D] : (\A j \in D : j > i => g[j] = f[j]) => T(g, i) = T(f, i)
  BY <1>2, TurnLooksAhead
<1> HIDE DEF T, D, last
<1>3. ASSUME NEW m \in D, Solved(m + 1)
      PROVE  Solved(m)
  <2>1. PICK g \in [D -> D] : \A i \in D : i >= m + 1 => g[i] = T(g, i)
    BY <1>3
  <2>2. PICK v \in D : v = T(g, m)
    BY <1>2
  <2>3. PICK h \in [D -> D] : h = [g EXCEPT ![m] = v]
    OBVIOUS
  <2>4. ASSUME NEW i \in D, i >= m
        PROVE  h[i] = T(h, i)
    <3>1. \A j \in D : j > i => h[j] = g[j]
      BY <1>1, <2>3, <2>4
    <3>2. T(h, i) = T(g, i)
      BY <1>2, <3>1
    <3>3. h[i] = T(g, i)
      <4>1. CASE i = m
        BY <2>2, <2>3, <4>1
      <4>2. CASE i # m
        BY <1>1, <2>1, <2>3, <2>4, <4>2
      <4> QED BY <4>1, <4>2
    <3> QED BY <3>2, <3>3
  <2> QED BY <2>4
<1>4. Solved(last)
  <2>1. [i \in D |-> i] \in [D -> D] /\ \A i \in D : ~(i >= last)
    BY <1>1
  <2> QED BY <2>1
<1>5. Bad = {}
  <2>1. SUFFICES ASSUME Bad # {} PROVE FALSE
    OBVIOUS
  <2>2. \A k \in 0..last : k \in Bad <=> ~Solved(k)
    OBVIOUS
  <2>3. Bad \subseteq 0..last
    OBVIOUS
  <2> HIDE DEF Bad, Solved
  <2>4. PICK m \in Bad : \A y \in Bad : y <= m
    BY <1>1, <2>1, <2>3, GreatestNat
  <2>5. m \in 0..last /\ m # last
    BY <1>1, <1>4, <2>2, <2>3, <2>4
  <2>6. m \in D /\ m + 1 \in 0..last /\ m + 1 > m
    BY <1>1, <2>5
  <2>7. Solved(m + 1)
    BY <1>1, <2>2, <2>4, <2>5, <2>6
  <2> QED BY <1>3, <2>2, <2>4, <2>5, <2>6, <2>7
<1>6. Solved(0)
  <2>1. 0 \in 0..last
    BY <1>1
  <2> HIDE DEF Solved
  <2> QED BY <1>5, <2>1
<1>7. \E f : f = [i \in D |-> T(f, i)]
  <2>1. PICK g \in [D -> D] : \A i \in D : i >= 0 => g[i] = T(g, i)
    BY <1>6
  <2>2. g = [i \in D |-> T(g, i)]
    BY <1>1, <2>1
  <2> QED BY <2>2
<1>8. PICK f : f = Loop(used, n, e, a)
  OBVIOUS
<1>9. f = [i \in D |-> T(f, i)]
  BY <1>7, <1>8 DEF Loop, T, D
<1>10. ASSUME NEW m \in D, \A j \in D : j > m => f[j] \in D
       PROVE  f[m] \in D
  <2>1. m \in D /\ D # {}
    BY <1>1
  <2>2. PICK g \in [D -> D] : g = [j \in D |-> IF j > m THEN f[j] ELSE m]
    BY <1>10
  <2>3. \A j \in D : j > m => g[j] = f[j]
    BY <2>2
  <2>4. T(f, m) = T(g, m)
    <3>1. m >= e \/ m < e
      BY <1>1, BootAssumption
    <3>2. CASE m >= e
      BY <3>2 DEF T, Turn
    <3>3. CASE m < e
      <4>1. Stop(used, m, e) \in m..e
        BY <1>1, <3>3, StopIs
      <4>2. m + 1 \in D /\ m + 1 > m /\ Stop(used, m, e) + a \in D /\ Stop(used, m, e) + a > m
        <5>1. e \in Nat /\ a \in Nat /\ a > 0 /\ e <= MaxPn /\ MaxPn \in Nat /\ m \in Nat
          BY <1>1, BootAssumption
        <5>2. PICK st \in Nat : st = Stop(used, m, e) /\ m <= st /\ st <= e
          BY <4>1, <5>1
        <5>3. m + 1 \in 0..last-1 /\ m + 1 > m
          BY <1>1, <1>a, <3>3, <5>1
        <5>4. st + a \in Nat /\ st + a > m /\ st + a <= MaxPn + a
          BY <5>1, <5>2
        <5>5. st + a \in 0..last-1
          BY <1>1, <1>a, <5>1, <5>4
        <5> QED BY <1>1, <5>2, <5>3, <5>4, <5>5
      <4> QED BY <2>3, <4>2 DEF T, Turn
    <3> QED BY <3>1, <3>2, <3>3
  <2> QED BY <1>2, <1>9, <2>4
<1>11. \A i \in D : f[i] \in D
  <2> DEFINE B == {i \in D : f[i] \notin D}
  <2>1. SUFFICES ASSUME B # {} PROVE FALSE
    OBVIOUS
  <2>2. PICK m \in B : \A y \in B : y <= m
    <3>1. B \subseteq 0..last
      BY <1>1
    <3> QED BY <1>1, <2>1, <3>1, GreatestNat
  <2>3. \A j \in D : j > m => f[j] \in D
    BY <1>1, <2>2
  <2> QED BY <1>10, <2>2, <2>3
<1>12. f \in [D -> D]
  <2>1. \A i \in D : T(f, i) = f[i]
    BY <1>9
  <2>2. f = [i \in D |-> f[i]]
    BY <1>9, <2>1
  <2> QED BY <1>11, <2>2
<1> QED BY <1>8, <1>9, <1>12 DEF T, D, Solves

(* What find_pages finds from a page on: nothing, or free pages behind it. *)
LEMMA LoopFindsFree ==
  ASSUME NEW used, used \subseteq Page, NEW e \in 0..MaxPn, NEW n \in Nat \ {0},
         NEW a \in Nat \ {0}, NEW i \in Places(a)
  PROVE  LET p == Loop(used, n, e, a)[i]
         IN  p = 0 \/ (p \in i..e /\ p + n <= e /\ Run(p, n) \intersect used = {})
<1>0. \A j \in Places(a) : Loop(used, n, e, a)[j] = Turn(used, n, e, a, Loop(used, n, e, a), j)
  <2>1. n \in Nat
    OBVIOUS
  <2>2. Solves(used, n, e, a, Loop(used, n, e, a))
    BY <2>1, LoopExists
  <2> QED BY <2>2 DEF Solves
<1> DEFINE D == Places(a)
           f == Loop(used, n, e, a)
           Fine(j) == f[j] = 0 \/ (f[j] \in j..e /\ f[j] + n <= e /\ Run(f[j], n) \intersect used = {})
           Bad == {j \in D : ~Fine(j)}
           last == 2 * (MaxPn + a)
<1>1. last \in Nat /\ D = 0..last /\ MaxPn \in Nat
  BY BootAssumption DEF Places
<1>2. \A j \in D : f[j] = Turn(used, n, e, a, f, j)
  BY <1>0
<1>3. ASSUME NEW m \in D, \A j \in D : j > m => Fine(j)
      PROVE  Fine(m)
  <2>1. m \in Nat /\ e \in Nat /\ a \in Nat /\ n \in Nat /\ n > 0 /\ a > 0
    BY <1>1
  <2>2. CASE m >= e
    BY <1>2, <2>2 DEF Turn
  <2>3. CASE m < e /\ m \in used
    <3>1. m + 1 \in D
      BY <1>1, <2>1, <2>3
    <3>2. Fine(m + 1) /\ f[m] = f[m + 1]
      BY <1>1, <1>2, <1>3, <2>1, <2>3, <3>1 DEF Turn
    <3> QED BY <2>1, <3>2
  <2>4. CASE m < e /\ m \notin used
    <3>1. PICK st \in Nat : st = Stop(used, m, e) /\ m <= st /\ st <= e
      BY <2>1, <2>4, StopIs
    <3>2. \A p \in m..e : p < st => p \notin used
      BY <2>1, <2>4, <3>1, StopIs
    <3>3. CASE st - m >= n
      <4>1. f[m] = m
        BY <1>2, <2>1, <2>4, <3>1, <3>3 DEF Turn
      <4>2. m + n <= e
        BY <2>1, <3>1, <3>3
      <4>3. Run(m, n) \intersect used = {}
        <5>1. \A p \in Run(m, n) : p \in m..e /\ p < st
          BY <2>1, <3>1, <3>3 DEF Run
        <5> QED BY <3>2, <5>1
      <4> QED BY <2>1, <2>4, <4>1, <4>2, <4>3
    <3>4. CASE ~(st - m >= n)
      <4>1. f[m] = f[st + a]
        BY <1>2, <2>1, <2>4, <3>1, <3>4 DEF Turn
      <4>2. st + a \in Nat /\ st + a > m /\ st + a <= last
        BY <1>1, <2>1, <3>1
      <4>3. Fine(st + a)
        BY <1>1, <1>3, <4>2
      <4> HIDE DEF f
      <4> QED BY <2>1, <4>1, <4>2, <4>3
    <3> QED BY <3>3, <3>4
  <2> QED BY <2>1, <2>2, <2>3, <2>4
<1>4. Bad = {}
  <2>1. SUFFICES ASSUME Bad # {} PROVE FALSE
    OBVIOUS
  <2>2. \A j \in D : j \in Bad <=> ~Fine(j)
    OBVIOUS
  <2>3. Bad \subseteq 0..last
    BY <1>1
  <2> HIDE DEF Bad, Fine
  <2>4. PICK m \in Bad : \A y \in Bad : y <= m
    BY <1>1, <2>1, <2>3, GreatestNat
  <2>5. m \in D /\ \A j \in D : j > m => j \notin Bad
    BY <1>1, <2>3, <2>4
  <2> QED BY <1>3, <2>2, <2>4, <2>5
<1>5. Fine(i)
  BY <1>4
<1> QED BY <1>5

(* Without alignment it passes over no free run.                           *)
LEMMA LoopFindsAny ==
  ASSUME NEW used, used \subseteq Page, 0 \in used, NEW e \in 0..MaxPn, NEW n \in Nat \ {0},
         NEW i \in Places(1), Loop(used, n, e, 1)[i] = 0,
         NEW p \in Nat, i <= p, p + n <= e
  PROVE  Run(p, n) \intersect used # {}
<1>0. \A j \in Places(1) : Loop(used, n, e, 1)[j] = Turn(used, n, e, 1, Loop(used, n, e, 1), j)
  <2>1. n \in Nat /\ 1 \in Nat \ {0}
    OBVIOUS
  <2>2. Solves(used, n, e, 1, Loop(used, n, e, 1))
    BY <2>1, LoopExists
  <2> QED BY <2>2 DEF Solves
<1> DEFINE D == Places(1)
           f == Loop(used, n, e, 1)
           Fine(j) == f[j] = 0 => \A q \in Nat : j <= q /\ q + n <= e => Run(q, n) \intersect used # {}
           Bad == {j \in D : ~Fine(j)}
           last == 2 * (MaxPn + 1)
<1>1. last \in Nat /\ D = 0..last /\ MaxPn \in Nat
  BY BootAssumption DEF Places
<1>2. \A j \in D : f[j] = Turn(used, n, e, 1, f, j)
  BY <1>0
<1>3. ASSUME NEW m \in D, \A j \in D : j > m => Fine(j)
      PROVE  Fine(m)
  <2>1. m \in Nat /\ e \in Nat /\ n \in Nat /\ n > 0
    BY <1>1
  <2>2. SUFFICES ASSUME f[m] = 0, NEW q \in Nat, m <= q, q + n <= e
                 PROVE  Run(q, n) \intersect used # {}
    OBVIOUS
  <2>3. m < e
    BY <2>1, <2>2
  <2>4. CASE m \in used
    <3>1. m + 1 \in D
      BY <1>1, <2>1, <2>3
    <3>2. Fine(m + 1) /\ f[m] = f[m + 1]
      BY <1>1, <1>2, <1>3, <2>1, <2>3, <2>4, <3>1 DEF Turn
    <3>3. CASE q = m
      BY <2>1, <2>4, <3>3 DEF Run
    <3>4. CASE q # m
      <4>1. m + 1 <= q
        BY <2>1, <2>2, <3>4
      <4> HIDE DEF f
      <4> QED BY <2>2, <3>2, <4>1
    <3> QED BY <3>3, <3>4
  <2>5. CASE m \notin used
    <3>1. PICK st \in Nat : st = Stop(used, m, e) /\ m <= st /\ st <= e /\ (st = e \/ st \in used)
      BY <2>1, <2>3, StopIs
    <3>2. ~(st - m >= n)
      <4>1. m # 0
        BY <2>5
      <4> QED BY <1>2, <2>1, <2>2, <2>3, <2>5, <3>1, <4>1 DEF Turn
    <3>3. f[m] = f[st + 1]
      BY <1>2, <2>1, <2>3, <2>5, <3>1, <3>2 DEF Turn
    <3>4. st + 1 \in Nat /\ st + 1 > m /\ st + 1 <= last
      BY <1>1, <2>1, <3>1
    <3>5. Fine(st + 1)
      BY <1>1, <1>3, <3>4
    <3>6. CASE q <= st
      <4>1. st # e /\ st \in used
        BY <2>1, <2>2, <3>1, <3>2, <3>6
      <4>2. st \in Run(q, n)
        BY <2>1, <2>2, <3>1, <3>2, <3>6 DEF Run
      <4> QED BY <4>1, <4>2
    <3>7. CASE ~(q <= st)
      <4>1. st + 1 <= q
        BY <3>1, <3>7
      <4> HIDE DEF f
      <4> QED BY <2>2, <3>3, <3>5, <4>1
    <3> QED BY <3>6, <3>7
  <2> QED BY <2>4, <2>5
<1>4. Bad = {}
  <2>1. SUFFICES ASSUME Bad # {} PROVE FALSE
    OBVIOUS
  <2>2. \A j \in D : j \in Bad <=> ~Fine(j)
    OBVIOUS
  <2>3. Bad \subseteq 0..last
    BY <1>1
  <2> HIDE DEF Bad, Fine
  <2>4. PICK m \in Bad : \A y \in Bad : y <= m
    BY <1>1, <2>1, <2>3, GreatestNat
  <2>5. m \in D /\ \A j \in D : j > m => j \notin Bad
    BY <1>1, <2>3, <2>4
  <2> QED BY <1>3, <2>2, <2>4, <2>5
<1>5. Fine(i)
  BY <1>4
<1> QED BY <1>5

(* The start of a search is its bound rounded up.                          *)
LEMMA AlignedStart ==
  ASSUME NEW s \in 0..MaxPn, NEW a \in Nat \ {0}
  PROVE  /\ ((s + a - 1) \div a) * a \in Places(a)
         /\ s <= ((s + a - 1) \div a) * a
         /\ a = 1 => ((s + a - 1) \div a) * a = s
<1>1. PICK q : q = (s + a - 1) \div a
  OBVIOUS
<1>2. s + a - 1 \in Nat /\ s \in Nat /\ MaxPn \in Nat /\ a \in Nat /\ a > 0
  BY BootAssumption
<1>3. q \in Nat /\ q * a <= s + a - 1 /\ s + a - 1 < q * a + a
  BY <1>1, <1>2
<1>4. q * a \in Nat
  BY <1>2, <1>3
<1>5. q * a <= 2 * (MaxPn + a) /\ s <= q * a
  BY <1>2, <1>3, <1>4
<1>6. a = 1 => q * a = s
  BY <1>2, <1>3
<1> QED BY <1>1, <1>4, <1>5, <1>6, <1>2 DEF Places

(* find_pages finds pages that are free, one after the other, and within   *)
(* its bounds.                                                             *)
LEMMA FindsFree ==
  ASSUME NEW b, b.used \subseteq Page, NEW n \in Nat \ {0}, NEW a \in Nat \ {0},
         NEW s \in 0..MaxPn, NEW e \in 0..MaxPn
  PROVE  LET p == find_pages(b, n, s, e, a)
         IN  p = 0 \/ (p \in s..e /\ p + n <= e /\ Run(p, n) \intersect b.used = {})
<1>1. PICK i \in Places(a) : i = ((s + a - 1) \div a) * a /\ s <= i
  BY AlignedStart
<1>2. find_pages(b, n, s, e, a) = Loop(b.used, n, e, a)[i]
  BY <1>1, FoundIs DEF find_pages
<1>3. PICK p : p = Loop(b.used, n, e, a)[i]
  OBVIOUS
<1>4. p = 0 \/ (p \in i..e /\ p + n <= e /\ Run(p, n) \intersect b.used = {})
  BY <1>3, LoopFindsFree
<1>5. i \in Nat /\ s \in Nat /\ e \in Nat
  BY <1>1, BootAssumption DEF Places
<1> QED BY <1>1, <1>2, <1>3, <1>4, <1>5

(* A search without alignment that finds nothing has left nothing out.     *)
LEMMA FindsAny ==
  ASSUME NEW b, b.used \subseteq Page, 0 \in b.used, NEW n \in Nat \ {0},
         NEW s \in 0..MaxPn, NEW e \in 0..MaxPn, find_pages(b, n, s, e, 1) = 0,
         NEW p \in Nat, s <= p, p + n <= e
  PROVE  Run(p, n) \intersect b.used # {}
<1>1. s \in Places(1) /\ s = ((s + 1 - 1) \div 1) * 1
  BY AlignedStart
<1>2. Loop(b.used, n, e, 1)[s] = 0
  BY <1>1, FoundIs DEF find_pages
<1> QED BY <1>1, <1>2, LoopFindsAny

-----------------------------------------------------------------------------
(***************************************************************************)
(* The records.  What removing one and inserting one makes of a sequence.  *)
(***************************************************************************)
LEMMA PartIs ==
  ASSUME NEW S, NEW s \in Seq(S), NEW m \in Nat \ {0}, NEW n \in Nat, n <= Len(s), m <= n + 1
  PROVE  /\ SubSeq(s, m, n) \in Seq(S) /\ Len(SubSeq(s, m, n)) = n - m + 1
         /\ \A j \in 1..n-m+1 : SubSeq(s, m, n)[j] = s[m + j - 1]
<1>1. \A i \in m..n : s[i] \in S
  <2>1. \A i \in m..n : i \in 1..Len(s)
    OBVIOUS
  <2> QED BY <2>1
<1>2. m \in Int /\ n \in Int
  OBVIOUS
<1>3. /\ SubSeq(s, m, n) \in Seq(S) /\ Len(SubSeq(s, m, n)) = IF m <= n THEN n - m + 1 ELSE 0
      /\ \A i \in 1..n-m+1 : SubSeq(s, m, n)[i] = s[m + i - 1]
  BY <1>1, <1>2, SubSeqProperties
<1>4. ~(m <= n) => n - m + 1 = 0
  OBVIOUS
<1> QED BY <1>3, <1>4

(* Appending one sequence to another.                                      *)
LEMMA ConcatIs ==
  ASSUME NEW S, NEW u \in Seq(S), NEW v \in Seq(S)
  PROVE  /\ u \o v \in Seq(S) /\ Len(u \o v) = Len(u) + Len(v)
         /\ \A j \in 1..Len(u) : (u \o v)[j] = u[j]
         /\ \A j \in Len(u)+1..Len(u)+Len(v) : (u \o v)[j] = v[j - Len(u)]
<1>1. /\ u \o v \in Seq(S) /\ Len(u \o v) = Len(u) + Len(v)
      /\ \A i \in 1..Len(u)+Len(v) : (u \o v)[i] = IF i <= Len(u) THEN u[i] ELSE v[i - Len(u)]
  BY ConcatProperties
<1>2. Len(u) \in Nat /\ Len(v) \in Nat
  OBVIOUS
<1>3. ASSUME NEW j \in 1..Len(u)
      PROVE  (u \o v)[j] = u[j]
  <2>1. j \in 1..Len(u)+Len(v) /\ j <= Len(u)
    BY <1>2
  <2> QED BY <1>1, <2>1
<1>4. ASSUME NEW j \in Len(u)+1..Len(u)+Len(v)
      PROVE  (u \o v)[j] = v[j - Len(u)]
  <2>1. j \in 1..Len(u)+Len(v) /\ ~(j <= Len(u))
    BY <1>2
  <2> QED BY <1>1, <2>1
<1> QED BY <1>1, <1>3, <1>4

(* SequencesExt!RemoveAt: what is behind the place moves up.               *)
LEMMA RemoveAtIs ==
  ASSUME NEW S, NEW s \in Seq(S), NEW i \in 1..Len(s)
  PROVE  /\ RemoveAt(s, i) \in Seq(S)
         /\ Len(RemoveAt(s, i)) = Len(s) - 1
         /\ \A j \in 1..Len(s)-1 : RemoveAt(s, i)[j] = IF j < i THEN s[j] ELSE s[j + 1]
<1>0. PICK n \in Nat : n = Len(s) /\ i \in Nat /\ 1 <= i /\ i <= n
  OBVIOUS
<1>1. PICK u : u = SubSeq(s, 1, i - 1) /\ u \in Seq(S) /\ Len(u) = i - 1
               /\ \A j \in 1..i-1 : u[j] = s[j]
  <2>1. 1 \in Nat \ {0} /\ i - 1 \in Nat /\ i - 1 <= Len(s) /\ 1 <= i - 1 + 1
    BY <1>0
  <2>2. /\ SubSeq(s, 1, i - 1) \in Seq(S) /\ Len(SubSeq(s, 1, i - 1)) = i - 1 - 1 + 1
        /\ \A j \in 1..i-1-1+1 : SubSeq(s, 1, i - 1)[j] = s[1 + j - 1]
    BY <2>1, PartIs
  <2>3. i - 1 - 1 + 1 = i - 1 /\ \A j \in 1..i-1 : 1 + j - 1 = j
    BY <1>0
  <2> QED BY <2>2, <2>3
<1>2. PICK v : v = SubSeq(s, i + 1, n) /\ v \in Seq(S) /\ Len(v) = n - i
               /\ \A j \in 1..n-i : v[j] = s[i + j]
  <2>1. i + 1 \in Nat \ {0} /\ n \in Nat /\ n <= Len(s) /\ i + 1 <= n + 1
    BY <1>0
  <2>2. /\ SubSeq(s, i + 1, n) \in Seq(S) /\ Len(SubSeq(s, i + 1, n)) = n - (i + 1) + 1
        /\ \A j \in 1..n-(i+1)+1 : SubSeq(s, i + 1, n)[j] = s[(i + 1) + j - 1]
    BY <2>1, PartIs
  <2>3. n - (i + 1) + 1 = n - i /\ \A j \in 1..n-i : (i + 1) + j - 1 = i + j
    BY <1>0
  <2>4. PICK w : w = SubSeq(s, i + 1, n)
    OBVIOUS
  <2>5. w \in Seq(S) /\ Len(w) = n - i
    BY <2>2, <2>3, <2>4
  <2>6. ASSUME NEW j \in 1..n-i PROVE w[j] = s[i + j]
    <3>1. j \in 1..n-(i+1)+1 /\ (i + 1) + j - 1 = i + j
      BY <2>3
    <3> QED BY <2>2, <2>4, <3>1
  <2> QED BY <2>4, <2>5, <2>6
<1>3. PICK t : t = u \o v
  OBVIOUS
<1>4. /\ t \in Seq(S) /\ Len(t) = (i - 1) + (n - i)
      /\ \A j \in 1..i-1 : t[j] = u[j]
      /\ \A j \in (i-1)+1..(i-1)+(n-i) : t[j] = v[j - (i - 1)]
  <2>1. /\ t \in Seq(S) /\ Len(t) = Len(u) + Len(v)
        /\ \A j \in 1..Len(u) : t[j] = u[j]
        /\ \A j \in Len(u)+1..Len(u)+Len(v) : t[j] = v[j - Len(u)]
    <3>1. u \in Seq(S) /\ v \in Seq(S)
      BY <1>1, <1>2
    <3> QED BY <1>3, <3>1, ConcatIs
  <2>2. Len(u) = i - 1 /\ Len(v) = n - i
    BY <1>1, <1>2
  <2> QED BY <2>1, <2>2
<1>5. RemoveAt(s, i) = t
  BY <1>0, <1>1, <1>2, <1>3 DEF RemoveAt
<1>6. ASSUME NEW j \in 1..n-1
      PROVE  t[j] = IF j < i THEN s[j] ELSE s[j + 1]
  <2>1. CASE j < i
    <3>1. j \in 1..i-1
      BY <1>0, <2>1
    <3> QED BY <1>1, <1>4, <2>1, <3>1
  <2>2. CASE ~(j < i)
    <3>1. j \in (i-1)+1..(i-1)+(n-i) /\ j - (i - 1) \in 1..n-i /\ i + (j - (i - 1)) = j + 1
      BY <1>0, <2>2
    <3>2. t[j] = v[j - (i - 1)] /\ v[j - (i - 1)] = s[i + (j - (i - 1))]
      BY <1>2, <1>4, <3>1
    <3> QED BY <2>2, <3>1, <3>2
  <2> QED BY <2>1, <2>2
<1>7. (i - 1) + (n - i) = n - 1
  BY <1>0
<1> QED BY <1>0, <1>4, <1>5, <1>6, <1>7

(* t is s with e in front of the place i.                                  *)
Insertion(S, s, i, e, t) ==
  /\ t \in Seq(S) /\ Len(t) = Len(s) + 1
  /\ \A j \in 1..Len(s)+1 :
       t[j] = IF j < i THEN s[j] ELSE IF j = i THEN e ELSE s[j - 1]

(* SequencesExt!InsertAt: what is from the place on moves down.            *)
LEMMA InsertAtIs ==
  ASSUME NEW S, NEW s \in Seq(S), NEW i \in 1..Len(s)+1, NEW e \in S
  PROVE  Insertion(S, s, i, e, InsertAt(s, i, e))
<1>0. PICK n \in Nat : n = Len(s) /\ i \in Nat /\ 1 <= i /\ i <= n + 1
  OBVIOUS
<1>1. PICK u : u = SubSeq(s, 1, i - 1) /\ u \in Seq(S) /\ Len(u) = i - 1
               /\ \A j \in 1..i-1 : u[j] = s[j]
  <2>1. 1 \in Nat \ {0} /\ i - 1 \in Nat /\ i - 1 <= Len(s) /\ 1 <= i - 1 + 1
    BY <1>0
  <2>2. /\ SubSeq(s, 1, i - 1) \in Seq(S) /\ Len(SubSeq(s, 1, i - 1)) = i - 1 - 1 + 1
        /\ \A j \in 1..i-1-1+1 : SubSeq(s, 1, i - 1)[j] = s[1 + j - 1]
    BY <2>1, PartIs
  <2>3. i - 1 - 1 + 1 = i - 1 /\ \A j \in 1..i-1 : 1 + j - 1 = j
    BY <1>0
  <2> QED BY <2>2, <2>3
<1>2. PICK v : v = SubSeq(s, i, n) /\ v \in Seq(S) /\ Len(v) = n - i + 1
               /\ \A j \in 1..n-i+1 : v[j] = s[i + j - 1]
  <2>1. i \in Nat \ {0} /\ n \in Nat /\ n <= Len(s) /\ i <= n + 1
    BY <1>0
  <2>2. /\ SubSeq(s, i, n) \in Seq(S) /\ Len(SubSeq(s, i, n)) = n - i + 1
        /\ \A j \in 1..n-i+1 : SubSeq(s, i, n)[j] = s[i + j - 1]
    BY <2>1, PartIs
  <2> QED BY <2>2
<1>3. PICK o : o = <<e>> /\ o \in Seq(S) /\ Len(o) = 1 /\ o[1] = e
  <2>1. <<e>> \in Seq(S) /\ Len(<<e>>) = 1 /\ <<e>>[1] = e
    OBVIOUS
  <2> QED BY <2>1
<1>4. PICK w : w = u \o o
  OBVIOUS
<1>5. /\ w \in Seq(S) /\ Len(w) = (i - 1) + 1
      /\ \A j \in 1..i-1 : w[j] = u[j]
      /\ \A j \in (i-1)+1..(i-1)+1 : w[j] = o[j - (i - 1)]
  BY <1>1, <1>3, <1>4, ConcatIs
<1>6. Len(w) = i /\ w[i] = e /\ \A j \in 1..i-1 : w[j] = s[j]
  <2>1. (i - 1) + 1 = i /\ i \in (i-1)+1..(i-1)+1 /\ i - (i - 1) = 1
    BY <1>0
  <2> QED BY <1>1, <1>3, <1>5, <2>1
<1>7. PICK t : t = w \o v
  OBVIOUS
<1>8. /\ t \in Seq(S) /\ Len(t) = i + (n - i + 1)
      /\ \A j \in 1..i : t[j] = w[j]
      /\ \A j \in i+1..i+(n-i+1) : t[j] = v[j - i]
  BY <1>2, <1>5, <1>6, <1>7, ConcatIs
<1>9. InsertAt(s, i, e) = t
  BY <1>0, <1>1, <1>2, <1>3, <1>4, <1>7 DEF InsertAt
<1>10. ASSUME NEW j \in 1..n+1
       PROVE  t[j] = IF j < i THEN s[j] ELSE IF j = i THEN e ELSE s[j - 1]
  <2>1. CASE j < i
    <3>1. j \in 1..i-1 /\ j \in 1..i
      BY <1>0, <2>1
    <3> QED BY <1>6, <1>8, <2>1, <3>1
  <2>2. CASE j = i
    <3>1. j \in 1..i
      BY <1>0, <2>2
    <3> QED BY <1>0, <1>6, <1>8, <2>2, <3>1
  <2>3. CASE ~(j <= i)
    <3>1. j \in i+1..i+(n-i+1) /\ j - i \in 1..n-i+1 /\ i + (j - i) - 1 = j - 1
      BY <1>0, <2>3
    <3>2. t[j] = v[j - i] /\ v[j - i] = s[i + (j - i) - 1]
      BY <1>2, <1>8, <3>1
    <3>3. ~(j < i) /\ j # i
      BY <1>0, <2>3
    <3> QED BY <3>1, <3>2, <3>3
  <2>4. j < i \/ j = i \/ ~(j <= i)
    BY <1>0
  <2> QED BY <2>1, <2>2, <2>3, <2>4
<1>11. i + (n - i + 1) = n + 1
  BY <1>0
<1> QED BY <1>0, <1>8, <1>9, <1>10, <1>11 DEF Insertion

-----------------------------------------------------------------------------
(***************************************************************************)
(* What records say about the pages, and what a changed, a removed and an  *)
(* added record do to it.                                                  *)
(***************************************************************************)
Rec == {r \in Record : r.start <= r.end}

(* A record stays one when either end moves inward.                        *)
LEMMA EndMoves ==
  ASSUME NEW r \in Record, NEW a \in Page
  PROVE  /\ [r EXCEPT !.start = a] \in Record
         /\ [r EXCEPT !.start = a].start = a /\ [r EXCEPT !.start = a].end = r.end
         /\ [r EXCEPT !.end = a] \in Record
         /\ [r EXCEPT !.end = a].start = r.start /\ [r EXCEPT !.end = a].end = a
BY DEF Record

Apart(info) ==
  \A i, j \in DOMAIN info : i # j => Extent(info[i]) \intersect Extent(info[j]) = {}

Recorded(info) == UNION {Extent(info[i]) : i \in DOMAIN info}

Within(R, info) == \E i \in DOMAIN info : R \subseteq Extent(info[i])

(* The records t say the pages X more than s, or fewer.                    *)
More(s, t, X) ==
  /\ Apart(t) /\ Recorded(t) = Recorded(s) \union X
  /\ \A R : Within(R, s) => Within(R, t)
  /\ Within(X, t)

Fewer(s, t, X) ==
  /\ Apart(t) /\ Recorded(t) = Recorded(s) \ X
  /\ \A R : Within(R, s) /\ R \intersect X = {} => R = {} \/ Within(R, t)

RecSeq(t, n) == t \in Seq(Rec) /\ Len(t) = n

(* A record that takes in pages beside it that no other record has.        *)
LEMMA RecordGrows ==
  ASSUME NEW s \in Seq(Rec), Apart(s), NEW i \in 1..Len(s), NEW r \in Rec,
         NEW X, X \intersect Recorded(s) = {}, Extent(r) = Extent(s[i]) \union X,
         NEW t, t = [s EXCEPT ![i] = r]
  PROVE  RecSeq(t, Len(s)) /\ More(s, t, X)
<1>1. t \in Seq(Rec) /\ Len(t) = Len(s) /\ DOMAIN t = DOMAIN s /\ DOMAIN s = 1..Len(s)
  OBVIOUS
<1>2. t[i] = r /\ \A j \in DOMAIN s : j # i => t[j] = s[j]
  BY <1>1
<1>3. \A j \in DOMAIN s : X \intersect Extent(s[j]) = {}
  BY DEF Recorded
<1>4. Apart(t)
  <2> SUFFICES ASSUME NEW j \in DOMAIN s, NEW k \in DOMAIN s, j # k
               PROVE  Extent(t[j]) \intersect Extent(t[k]) = {}
    BY <1>1 DEF Apart
  <2>1. Extent(s[j]) \intersect Extent(s[k]) = {}
    BY DEF Apart
  <2>2. X \intersect Extent(s[j]) = {} /\ X \intersect Extent(s[k]) = {}
    BY <1>3
  <2>3. CASE j = i
    BY <1>2, <2>1, <2>2, <2>3
  <2>4. CASE k = i
    BY <1>2, <2>1, <2>2, <2>4
  <2>5. CASE j # i /\ k # i
    BY <1>2, <2>1, <2>5
  <2> QED BY <2>3, <2>4, <2>5
<1>5. Recorded(t) = Recorded(s) \union X
  BY <1>1, <1>2 DEF Recorded
<1>6. ASSUME NEW R, Within(R, s)
      PROVE  Within(R, t)
  <2>1. PICK j \in DOMAIN s : R \subseteq Extent(s[j])
    BY <1>6 DEF Within
  <2>2. R \subseteq Extent(t[j])
    BY <1>2, <2>1
  <2> QED BY <1>1, <2>2 DEF Within
<1>7. Within(X, t)
  BY <1>1, <1>2 DEF Within
<1> QED BY <1>1, <1>4, <1>5, <1>6, <1>7 DEF RecSeq, More

(* A record that loses pages.                                              *)
LEMMA RecordShrinks ==
  ASSUME NEW s \in Seq(Rec), Apart(s), NEW i \in 1..Len(s), NEW r \in Rec,
         NEW X, X \subseteq Extent(s[i]), Extent(r) = Extent(s[i]) \ X,
         NEW t, t = [s EXCEPT ![i] = r]
  PROVE  RecSeq(t, Len(s)) /\ Fewer(s, t, X)
<1>1. t \in Seq(Rec) /\ Len(t) = Len(s) /\ DOMAIN t = DOMAIN s /\ DOMAIN s = 1..Len(s)
  OBVIOUS
<1>2. t[i] = r /\ \A j \in DOMAIN s : j # i => t[j] = s[j]
  BY <1>1
<1>3. \A j \in DOMAIN s : j # i => X \intersect Extent(s[j]) = {}
  BY <1>1 DEF Apart
<1>4. Apart(t)
  <2> SUFFICES ASSUME NEW j \in DOMAIN s, NEW k \in DOMAIN s, j # k
               PROVE  Extent(t[j]) \intersect Extent(t[k]) = {}
    BY <1>1 DEF Apart
  <2>1. Extent(s[j]) \intersect Extent(s[k]) = {}
    BY DEF Apart
  <2>2. Extent(t[j]) \subseteq Extent(s[j]) /\ Extent(t[k]) \subseteq Extent(s[k])
    BY <1>2
  <2> QED BY <2>1, <2>2
<1>5. Recorded(t) = Recorded(s) \ X
  <2>1. ASSUME NEW p, p \in Recorded(t)
        PROVE  p \in Recorded(s) \ X
    <3>1. PICK j \in DOMAIN s : p \in Extent(t[j])
      BY <1>1, <2>1 DEF Recorded
    <3>2. CASE j = i
      BY <1>2, <3>1, <3>2 DEF Recorded
    <3>3. CASE j # i
      BY <1>2, <1>3, <3>1, <3>3 DEF Recorded
    <3> QED BY <3>2, <3>3
  <2>2. ASSUME NEW p, p \in Recorded(s), p \notin X
        PROVE  p \in Recorded(t)
    <3>1. PICK j \in DOMAIN s : p \in Extent(s[j])
      BY <2>2 DEF Recorded
    <3>2. p \in Extent(t[j])
      BY <1>2, <2>2, <3>1
    <3> QED BY <1>1, <3>2 DEF Recorded
  <2> QED BY <2>1, <2>2
<1>6. ASSUME NEW R, Within(R, s), R \intersect X = {}
      PROVE  Within(R, t)
  <2>1. PICK j \in DOMAIN s : R \subseteq Extent(s[j])
    BY <1>6 DEF Within
  <2>2. R \subseteq Extent(t[j])
    BY <1>2, <1>6, <2>1
  <2> QED BY <1>1, <2>2 DEF Within
<1> QED BY <1>1, <1>4, <1>5, <1>6 DEF RecSeq, Fewer

(* remove_mminfo: the record's pages are recorded no more.                 *)
LEMMA RecordDropped ==
  ASSUME NEW s \in Seq(Rec), Apart(s), NEW i \in 1..Len(s), NEW t, t = RemoveAt(s, i)
  PROVE  RecSeq(t, Len(s) - 1) /\ Fewer(s, t, Extent(s[i]))
<1>1. /\ t \in Seq(Rec) /\ Len(t) = Len(s) - 1
      /\ \A j \in 1..Len(s)-1 : t[j] = IF j < i THEN s[j] ELSE s[j + 1]
  BY RemoveAtIs
<1>2. DOMAIN t = 1..Len(s)-1 /\ DOMAIN s = 1..Len(s)
  BY <1>1
<1>3. \A j \in DOMAIN t : \E k \in DOMAIN s : k # i /\ t[j] = s[k] /\ k = IF j < i THEN j ELSE j + 1
  <2> SUFFICES ASSUME NEW j \in DOMAIN t
               PROVE  \E k \in DOMAIN s : k # i /\ t[j] = s[k] /\ k = IF j < i THEN j ELSE j + 1
    OBVIOUS
  <2>1. CASE j < i
    BY <1>1, <1>2, <2>1
  <2>2. CASE ~(j < i)
    <3>1. j + 1 \in DOMAIN s /\ j + 1 # i
      BY <1>2, <2>2
    <3> QED BY <1>1, <1>2, <2>2, <3>1
  <2> QED BY <2>1, <2>2
<1>4. ASSUME NEW k \in DOMAIN s, k # i
      PROVE  \E j \in DOMAIN t : t[j] = s[k]
  <2>1. CASE k < i
    BY <1>1, <1>2, <2>1
  <2>2. CASE ~(k < i)
    <3>1. k - 1 \in DOMAIN t /\ ~(k - 1 < i) /\ (k - 1) + 1 = k
      BY <1>2, <1>4, <2>2
    <3> QED BY <1>1, <1>2, <3>1
  <2> QED BY <2>1, <2>2
<1>5. Apart(t)
  <2> SUFFICES ASSUME NEW j \in DOMAIN t, NEW k \in DOMAIN t, j # k
               PROVE  Extent(t[j]) \intersect Extent(t[k]) = {}
    BY DEF Apart
  <2>1. PICK x \in DOMAIN s : t[j] = s[x] /\ x = IF j < i THEN j ELSE j + 1
    BY <1>3
  <2>2. PICK y \in DOMAIN s : t[k] = s[y] /\ y = IF k < i THEN k ELSE k + 1
    BY <1>3
  <2>3. x # y
    BY <1>2, <2>1, <2>2
  <2> QED BY <2>1, <2>2, <2>3 DEF Apart
<1>6. Recorded(t) = Recorded(s) \ Extent(s[i])
  <2>1. ASSUME NEW p, p \in Recorded(t)
        PROVE  p \in Recorded(s) \ Extent(s[i])
    <3>1. PICK j \in DOMAIN t : p \in Extent(t[j])
      BY <2>1 DEF Recorded
    <3>2. PICK k \in DOMAIN s : k # i /\ t[j] = s[k]
      BY <1>3
    <3>3. Extent(s[k]) \intersect Extent(s[i]) = {}
      BY <1>2, <3>2 DEF Apart
    <3> QED BY <3>1, <3>2, <3>3 DEF Recorded
  <2>2. ASSUME NEW p, p \in Recorded(s), p \notin Extent(s[i])
        PROVE  p \in Recorded(t)
    <3>1. PICK k \in DOMAIN s : p \in Extent(s[k])
      BY <2>2 DEF Recorded
    <3>2. k # i
      BY <2>2, <3>1
    <3>3. PICK j \in DOMAIN t : t[j] = s[k]
      BY <1>4, <3>2
    <3> QED BY <3>1, <3>3 DEF Recorded
  <2> QED BY <2>1, <2>2
<1>7. ASSUME NEW R, Within(R, s), ~(R \subseteq Extent(s[i]))
      PROVE  Within(R, t)
  <2>1. PICK k \in DOMAIN s : R \subseteq Extent(s[k])
    BY <1>7 DEF Within
  <2>2. k # i
    BY <1>7, <2>1
  <2>3. PICK j \in DOMAIN t : t[j] = s[k]
    BY <1>4, <2>2
  <2> QED BY <2>1, <2>3 DEF Within
<1>8. ASSUME NEW R, Within(R, s), R \intersect Extent(s[i]) = {}
      PROVE  R = {} \/ Within(R, t)
  BY <1>7, <1>8
<1> QED BY <1>1, <1>5, <1>6, <1>8 DEF RecSeq, Fewer

(* The append at the end of insert_mminfo.                                 *)
LEMMA RecordAdded ==
  ASSUME NEW s \in Seq(Rec), Apart(s), NEW i \in 1..Len(s)+1, NEW r \in Rec,
         Extent(r) \intersect Recorded(s) = {}, NEW t, t = InsertAt(s, i, r)
  PROVE  RecSeq(t, Len(s) + 1) /\ More(s, t, Extent(r))
<1>1. /\ t \in Seq(Rec) /\ Len(t) = Len(s) + 1
      /\ \A j \in 1..Len(s)+1 : t[j] = IF j < i THEN s[j] ELSE IF j = i THEN r ELSE s[j - 1]
  <2>1. Insertion(Rec, s, i, r, t)
    BY InsertAtIs
  <2> QED BY <2>1 DEF Insertion
<1>2. DOMAIN t = 1..Len(s)+1 /\ DOMAIN s = 1..Len(s) /\ i \in DOMAIN t /\ t[i] = r
  BY <1>1
<1>3. \A j \in DOMAIN t : j # i =>
        \E k \in DOMAIN s : t[j] = s[k] /\ k = IF j < i THEN j ELSE j - 1
  <2> SUFFICES ASSUME NEW j \in DOMAIN t, j # i
               PROVE  \E k \in DOMAIN s : t[j] = s[k] /\ k = IF j < i THEN j ELSE j - 1
    OBVIOUS
  <2>1. CASE j < i
    BY <1>1, <1>2, <2>1
  <2>2. CASE ~(j < i)
    <3>1. j - 1 \in DOMAIN s
      BY <1>2, <2>2
    <3> QED BY <1>1, <1>2, <2>2, <3>1
  <2> QED BY <2>1, <2>2
<1>4. ASSUME NEW k \in DOMAIN s
      PROVE  \E j \in DOMAIN t : t[j] = s[k]
  <2>1. CASE k < i
    BY <1>1, <1>2, <2>1
  <2>2. CASE ~(k < i)
    <3>1. k + 1 \in DOMAIN t /\ ~(k + 1 < i) /\ k + 1 # i /\ (k + 1) - 1 = k
      BY <1>2, <2>2
    <3> QED BY <1>1, <1>2, <3>1
  <2> QED BY <2>1, <2>2
<1>5. Apart(t)
  <2> SUFFICES ASSUME NEW j \in DOMAIN t, NEW k \in DOMAIN t, j # k
               PROVE  Extent(t[j]) \intersect Extent(t[k]) = {}
    BY DEF Apart
  <2>1. \A x \in DOMAIN s : Extent(r) \intersect Extent(s[x]) = {}
    BY DEF Recorded
  <2>2. CASE j = i
    BY <1>2, <1>3, <2>1, <2>2
  <2>3. CASE k = i
    BY <1>2, <1>3, <2>1, <2>3
  <2>4. CASE j # i /\ k # i
    <3>1. PICK x \in DOMAIN s : t[j] = s[x] /\ x = IF j < i THEN j ELSE j - 1
      BY <1>3, <2>4
    <3>2. PICK y \in DOMAIN s : t[k] = s[y] /\ y = IF k < i THEN k ELSE k - 1
      BY <1>3, <2>4
    <3>3. x # y
      BY <1>2, <2>4, <3>1, <3>2
    <3> QED BY <3>1, <3>2, <3>3 DEF Apart
  <2> QED BY <2>2, <2>3, <2>4
<1>6. Recorded(t) = Recorded(s) \union Extent(r)
  <2>1. ASSUME NEW p, p \in Recorded(t)
        PROVE  p \in Recorded(s) \union Extent(r)
    <3>1. PICK j \in DOMAIN t : p \in Extent(t[j])
      BY <2>1 DEF Recorded
    <3> QED BY <1>2, <1>3, <3>1 DEF Recorded
  <2>2. ASSUME NEW p, p \in Recorded(s)
        PROVE  p \in Recorded(t)
    <3>1. PICK k \in DOMAIN s : p \in Extent(s[k])
      BY <2>2 DEF Recorded
    <3>2. PICK j \in DOMAIN t : t[j] = s[k]
      BY <1>4
    <3> QED BY <3>1, <3>2 DEF Recorded
  <2>3. Extent(r) \subseteq Recorded(t)
    BY <1>2 DEF Recorded
  <2> QED BY <2>1, <2>2, <2>3
<1>7. ASSUME NEW R, Within(R, s)
      PROVE  Within(R, t)
  <2>1. PICK k \in DOMAIN s : R \subseteq Extent(s[k])
    BY <1>7 DEF Within
  <2>2. PICK j \in DOMAIN t : t[j] = s[k]
    BY <1>4
  <2> QED BY <2>1, <2>2 DEF Within
<1>8. Within(Extent(r), t)
  BY <1>2 DEF Within
<1> QED BY <1>1, <1>5, <1>6, <1>7, <1>8 DEF RecSeq, More

-----------------------------------------------------------------------------
(***************************************************************************)
(* insert_mminfo: the record becomes one more, or part of one, or it joins *)
(* two.                                                                    *)
(***************************************************************************)
LEMMA InsertCases ==
  ASSUME NEW s \in Seq(Rec), NEW r \in Rec, Insertable(s, r)
  PROVE  \/ Len(s) < MAX_INFO /\ insert_mminfo(s, r) = InsertAt(s, Len(s) + 1, r)
         \/ \E i \in 1..Len(s), q \in Rec :
              /\ insert_mminfo(s, r) = [s EXCEPT ![i] = q]
              /\ Extent(q) = Extent(s[i]) \union Extent(r)
         \/ \E i \in 1..Len(s)-1, q \in Rec :
              /\ insert_mminfo(s, r) = [RemoveAt(s, i + 1) EXCEPT ![i] = q]
              /\ Extent(q) = Extent(s[i]) \union (Extent(r) \union Extent(s[i + 1]))
<1>0. PICK n \in Nat : n = Len(s) /\ DOMAIN s = 1..n
  OBVIOUS
<1>1. CASE Joining(s, r) = {}
  <2>1. n < MAX_INFO /\ insert_mminfo(s, r) = Append(s, r)
    BY <1>0, <1>1 DEF Insertable, insert_mminfo
  <2>2. PICK t : t = InsertAt(s, n + 1, r)
    OBVIOUS
  <2>3. /\ t \in Seq(Rec) /\ Len(t) = n + 1
        /\ \A j \in 1..n+1 : t[j] = IF j < n + 1 THEN s[j] ELSE IF j = n + 1 THEN r ELSE s[j - 1]
    <3>1. n + 1 \in 1..Len(s)+1
      BY <1>0
    <3>2. /\ InsertAt(s, n + 1, r) \in Seq(Rec)
          /\ Len(InsertAt(s, n + 1, r)) = Len(s) + 1
          /\ \A j \in 1..Len(s)+1 : InsertAt(s, n + 1, r)[j] =
                IF j < n + 1 THEN s[j] ELSE IF j = n + 1 THEN r ELSE s[j - 1]
      <4>1. s \in Seq(Rec) /\ r \in Rec
        OBVIOUS
      <4>2. PICK S : S = Rec
        OBVIOUS
      <4>3. s \in Seq(S) /\ r \in S
        BY <4>1, <4>2
      <4> QED BY <3>1, <4>2, <4>3, InsertAtIs DEF Insertion
    <3> QED BY <1>0, <2>2, <3>2
  <2>4. PICK u : /\ u \in Seq(Rec) /\ u = Append(s, r) /\ Len(u) = n + 1 /\ u[n + 1] = r
                 /\ \A j \in 1..n : u[j] = s[j]
    <3>1. /\ Append(s, r) \in Seq(Rec) /\ Len(Append(s, r)) = Len(s) + 1
          /\ \A j \in 1..Len(s) : Append(s, r)[j] = s[j]
          /\ Append(s, r)[Len(s) + 1] = r
      <4>1. PICK S : S = Rec
        OBVIOUS
      <4>2. s \in Seq(S) /\ r \in S
        BY <4>1
      <4>3. /\ Append(s, r) \in Seq(S) /\ Len(Append(s, r)) = Len(s) + 1
            /\ \A j \in 1..Len(s) : Append(s, r)[j] = s[j]
            /\ Append(s, r)[Len(s) + 1] = r
        BY <4>2
      <4> QED BY <4>1, <4>3
    <3> QED BY <1>0, <3>1
  <2>5. t = u
    <3>1. \A j \in 1..n+1 : t[j] = u[j]
      <4> SUFFICES ASSUME NEW j \in 1..n+1 PROVE t[j] = u[j]
        OBVIOUS
      <4>1. CASE j = n + 1
        BY <2>3, <2>4, <4>1
      <4>2. CASE j # n + 1
        BY <2>3, <2>4, <4>2
      <4> QED BY <4>1, <4>2
    <3> QED BY <2>3, <2>4, <3>1, SeqEqual
  <2> QED BY <1>0, <2>1, <2>2, <2>4, <2>5
<1>2. CASE Joining(s, r) # {}
  <2>1. PICK i : i = Min(Joining(s, r)) /\ i \in Joining(s, r)
    <3>1. Joining(s, r) \subseteq Nat
      BY <1>0 DEF Joining
    <3> QED BY <1>2, <3>1, MinIsLeast
  <2>2. i \in 1..n /\ (ExtendsUp(s, i, r) \/ ExtendsDown(s, i, r)) /\ insert_mminfo(s, r) = Joined(s, i, r)
    BY <1>0, <1>2, <2>1 DEF Joining, insert_mminfo
  <2>3. /\ s[i] \in Rec
        /\ s[i].start \in Nat /\ s[i].end \in Nat /\ s[i].start <= s[i].end /\ s[i].start \in Page
        /\ r.start \in Nat /\ r.end \in Nat /\ r.start <= r.end /\ r.start \in Page /\ r.end \in Page
        /\ s[i].end \in Page
    <3>1. s[i] \in Rec
      BY <1>0, <2>2
    <3>2. \A q \in Rec : /\ q.start \in Page /\ q.end \in Page /\ q.start <= q.end
                         /\ q.start \in Nat /\ q.end \in Nat
      BY BootAssumption DEF Rec, Record, Page
    <3> QED BY <3>1, <3>2
  <2>4. CASE ExtendsUp(s, i, r) /\ i < n /\ s[i + 1].type = r.type
    <3>1. s[i + 1] \in Rec /\ i \in 1..n-1
      BY <1>0, <2>2, <2>4
    <3>2. /\ s[i + 1].start \in Nat /\ s[i + 1].end \in Page /\ s[i + 1].end \in Nat
          /\ s[i + 1].start <= s[i + 1].end
      BY <3>1, BootAssumption DEF Rec, Record, Page
    <3>3. s[i].end = r.start - 1 /\ s[i + 1].start = r.end + 1
      BY <1>0, <2>4 DEF ExtendsUp
    <3>4. PICK q : q = [s[i] EXCEPT !.end = s[i + 1].end]
      OBVIOUS
    <3>5. q \in Rec /\ q.start = s[i].start /\ q.end = s[i + 1].end
      <4>1. PICK a, b : a = s[i] /\ b = s[i + 1].end
        OBVIOUS
      <4>2. a \in Rec /\ a.start <= b /\ b \in Page
        BY <2>3, <3>2, <3>3, <4>1
      <4>3. q = [a EXCEPT !.end = b]
        BY <3>4, <4>1
      <4>4. /\ q \in Record /\ q.start = a.start /\ q.end = b
        BY <4>2, <4>3 DEF Rec, Record
      <4>5. q \in Rec
        BY <4>2, <4>4 DEF Rec
      <4> QED BY <4>1, <4>4, <4>5
    <3>6. Extent(q) = Extent(s[i]) \union (Extent(r) \union Extent(s[i + 1]))
      <4>1. PICK a \in Nat, b \in Nat, c \in Nat, d \in Nat, e \in Nat :
                /\ a = s[i].start /\ b = s[i].end /\ c = r.start /\ d = r.end
                /\ e = s[i + 1].end
        BY <2>3, <3>2
      <4>2. a <= b /\ b = c - 1 /\ c <= d /\ s[i + 1].start = d + 1 /\ d + 1 <= e
        BY <2>3, <3>2, <3>3, <4>1
      <4>3. a..e = (a..b) \union ((c..d) \union (d+1..e))
        BY <4>2
      <4> QED BY <3>5, <4>1, <4>2, <4>3 DEF Extent
    <3>7. PICK t : t = [s EXCEPT ![i] = q]
      OBVIOUS
    <3>8. insert_mminfo(s, r) = RemoveAt(t, i + 1)
      BY <1>0, <2>2, <2>4, <3>4, <3>7 DEF Joined
    <3>9. /\ t \in Seq(Rec) /\ Len(t) = n /\ t[i] = q
          /\ \A j \in 1..n : j # i => t[j] = s[j]
      BY <1>0, <2>2, <3>5, <3>7
    <3>10. i + 1 \in 1..n
      BY <3>1, <1>0
    <3>11. PICK v : v = RemoveAt(t, i + 1)
      OBVIOUS
    <3>12. /\ v \in Seq(Rec) /\ Len(v) = n - 1
           /\ \A j \in 1..n-1 : v[j] = IF j < i + 1 THEN t[j] ELSE t[j + 1]
      BY <3>9, <3>10, <3>11, RemoveAtIs
    <3>13. PICK w : w = RemoveAt(s, i + 1)
      OBVIOUS
    <3>14. /\ w \in Seq(Rec) /\ Len(w) = n - 1
           /\ \A j \in 1..n-1 : w[j] = IF j < i + 1 THEN s[j] ELSE s[j + 1]
      BY <1>0, <3>10, <3>13, RemoveAtIs
    <3>15. PICK x : x = [w EXCEPT ![i] = q]
      OBVIOUS
    <3>16. x \in Seq(Rec) /\ Len(x) = n - 1 /\ x[i] = q /\ \A j \in 1..n-1 : j # i => x[j] = w[j]
      BY <3>1, <3>5, <3>14, <3>15
    <3>17. \A j \in 1..n-1 : v[j] = x[j]
      <4> SUFFICES ASSUME NEW j \in 1..n-1 PROVE v[j] = x[j]
        OBVIOUS
      <4>1. CASE j = i
        BY <3>1, <3>9, <3>12, <3>16, <4>1
      <4>2. CASE j < i
        <5>1. j \in 1..n /\ j # i /\ j < i + 1
          BY <1>0, <2>2, <4>2
        <5> QED BY <3>9, <3>12, <3>14, <3>16, <5>1
      <4>3. CASE j > i
        <5>1. j + 1 \in 1..n /\ j + 1 # i /\ ~(j < i + 1) /\ j # i
          BY <1>0, <2>2, <4>3
        <5> QED BY <3>9, <3>12, <3>14, <3>16, <5>1
      <4>4. j = i \/ j < i \/ j > i
        BY <1>0, <2>2
      <4> QED BY <4>1, <4>2, <4>3, <4>4
    <3>18. v = x
      BY <1>0, <3>12, <3>16, <3>17, SeqEqual
    <3> QED BY <1>0, <3>1, <3>5, <3>6, <3>8, <3>7, <3>11, <3>13, <3>15, <3>18
  <2>5. CASE ExtendsUp(s, i, r) /\ ~(i < n /\ s[i + 1].type = r.type)
    <3>1. PICK q : q = [s[i] EXCEPT !.end = r.end]
      OBVIOUS
    <3>2. s[i].end = r.start - 1
      BY <2>5 DEF ExtendsUp
    <3>3. q \in Rec /\ q.start = s[i].start /\ q.end = r.end
      BY <2>3, <3>1, <3>2 DEF Rec, Record
    <3>4. Extent(q) = Extent(s[i]) \union Extent(r)
      BY <2>3, <3>2, <3>3 DEF Extent
    <3>5. insert_mminfo(s, r) = [s EXCEPT ![i] = q]
      BY <1>0, <2>2, <2>5, <3>1 DEF Joined
    <3> QED BY <1>0, <2>2, <3>3, <3>4, <3>5
  <2>6. CASE ~ExtendsUp(s, i, r)
    <3>1. PICK q : q = [s[i] EXCEPT !.start = r.start]
      OBVIOUS
    <3>2. s[i].start = r.end + 1
      BY <2>2, <2>6 DEF ExtendsDown
    <3>3. q \in Rec /\ q.start = r.start /\ q.end = s[i].end
      BY <2>3, <3>1, <3>2 DEF Rec, Record
    <3>4. Extent(q) = Extent(s[i]) \union Extent(r)
      BY <2>3, <3>2, <3>3 DEF Extent
    <3>5. insert_mminfo(s, r) = [s EXCEPT ![i] = q]
      BY <2>2, <2>6, <3>1 DEF Joined
    <3> QED BY <1>0, <2>2, <3>3, <3>4, <3>5
  <2> QED BY <2>4, <2>5, <2>6
<1> QED BY <1>1, <1>2

(* It keeps the records records.                                           *)
LEMMA InsertTyped ==
  ASSUME NEW s \in Seq(Rec), NEW r \in Rec, Insertable(s, r), Len(s) <= MAX_INFO
  PROVE  insert_mminfo(s, r) \in Seq(Rec) /\ Len(insert_mminfo(s, r)) <= MAX_INFO
<1>0. PICK n \in Nat : n = Len(s) /\ n <= MAX_INFO /\ MAX_INFO \in Nat
  BY BootAssumption
<1>1. CASE n < MAX_INFO /\ insert_mminfo(s, r) = InsertAt(s, n + 1, r)
  <2>1. n + 1 \in 1..Len(s)+1
    BY <1>0
  <2>2. InsertAt(s, n + 1, r) \in Seq(Rec) /\ Len(InsertAt(s, n + 1, r)) = n + 1
    <3>1. Insertion(Rec, s, n + 1, r, InsertAt(s, n + 1, r))
      BY <2>1, InsertAtIs
    <3> QED BY <1>0, <3>1 DEF Insertion
  <2> QED BY <1>0, <1>1, <2>2
<1>2. CASE \E i \in 1..n, q \in Rec : insert_mminfo(s, r) = [s EXCEPT ![i] = q]
  BY <1>0, <1>2
<1>3. CASE \E i \in 1..n-1, q \in Rec : insert_mminfo(s, r) = [RemoveAt(s, i + 1) EXCEPT ![i] = q]
  <2>1. PICK i \in 1..n-1, q \in Rec : insert_mminfo(s, r) = [RemoveAt(s, i + 1) EXCEPT ![i] = q]
    BY <1>3
  <2>2. i + 1 \in 1..n
    BY <1>0
  <2>3. PICK t : t = RemoveAt(s, i + 1)
    OBVIOUS
  <2>4. t \in Seq(Rec) /\ Len(t) = n - 1
    BY <1>0, <2>2, <2>3, RemoveAtIs
  <2> QED BY <1>0, <2>1, <2>3, <2>4
<1> QED BY <1>0, <1>1, <1>2, <1>3, InsertCases

(* They say the new pages too, and nothing else.                           *)
LEMMA InsertRecords ==
  ASSUME NEW s \in Seq(Rec), Apart(s), NEW r \in Rec, Insertable(s, r),
         Extent(r) \intersect Recorded(s) = {}
  PROVE  More(s, insert_mminfo(s, r), Extent(r))
<1>0. PICK n \in Nat : n = Len(s) /\ DOMAIN s = 1..n
  OBVIOUS
<1>t. PICK t : t = insert_mminfo(s, r)
  OBVIOUS
<1>1. CASE t = InsertAt(s, n + 1, r)
  <2>1. n + 1 \in 1..Len(s)+1
    BY <1>0
  <2>2. More(s, t, Extent(r))
    BY <1>1, <2>1, RecordAdded
  <2> QED BY <1>t, <2>2
<1>2. CASE \E i \in 1..n, q \in Rec :
             t = [s EXCEPT ![i] = q] /\ Extent(q) = Extent(s[i]) \union Extent(r)
  <2>1. PICK i \in 1..n, q \in Rec :
             t = [s EXCEPT ![i] = q] /\ Extent(q) = Extent(s[i]) \union Extent(r)
    BY <1>2
  <2>2. i \in 1..Len(s)
    BY <1>0
  <2>3. More(s, t, Extent(r))
    BY <2>1, <2>2, RecordGrows
  <2> QED BY <1>t, <2>3
<1>3. CASE \E i \in 1..n-1, q \in Rec :
             /\ t = [RemoveAt(s, i + 1) EXCEPT ![i] = q]
             /\ Extent(q) = Extent(s[i]) \union (Extent(r) \union Extent(s[i + 1]))
  <2>1. PICK i \in 1..n-1, q \in Rec :
             /\ t = [RemoveAt(s, i + 1) EXCEPT ![i] = q]
             /\ Extent(q) = Extent(s[i]) \union (Extent(r) \union Extent(s[i + 1]))
    BY <1>3
  <2>2. PICK u : u = RemoveAt(s, i + 1)
    OBVIOUS
  <2>3. i + 1 \in 1..Len(s) /\ i < i + 1 /\ i \in 1..n-1
    BY <1>0
  <2>4. RecSeq(u, Len(s) - 1) /\ Fewer(s, u, Extent(s[i + 1]))
    BY <2>2, <2>3, RecordDropped
  <2>5. u[i] = s[i]
    <3>1. \A j \in 1..Len(s)-1 : u[j] = IF j < i + 1 THEN s[j] ELSE s[j + 1]
      BY <2>2, <2>3, RemoveAtIs
    <3> QED BY <1>0, <2>3, <3>1
  <2>6. PICK X : X = Extent(r) \union Extent(s[i + 1])
    OBVIOUS
  <2>7. u \in Seq(Rec) /\ i \in 1..Len(u) /\ Apart(u) /\ X \intersect Recorded(u) = {}
    BY <1>0, <2>3, <2>4, <2>6 DEF RecSeq, Fewer
  <2>8. t = [u EXCEPT ![i] = q] /\ Extent(q) = Extent(u[i]) \union X
    BY <2>1, <2>2, <2>5, <2>6
  <2>9. More(u, t, X)
    BY <2>7, <2>8, RecordGrows
  <2>10. Recorded(t) = Recorded(s) \union Extent(r)
    <3>1. Extent(s[i + 1]) \subseteq Recorded(s)
      BY <1>0, <2>3 DEF Recorded
    <3> QED BY <2>4, <2>6, <2>9, <3>1 DEF More, Fewer
  <2>11. \A R : R \subseteq X => Within(R, t)
    <3>1. Within(X, t)
      BY <2>9 DEF More
    <3> QED BY <3>1 DEF Within
  <2>12. ASSUME NEW R, Within(R, s)
         PROVE  Within(R, t)
    <3>1. PICK k \in DOMAIN s : R \subseteq Extent(s[k])
      BY <2>12 DEF Within
    <3>2. CASE k = i + 1
      BY <2>6, <2>11, <3>1, <3>2
    <3>3. CASE k # i + 1
      <4>1. R \intersect Extent(s[i + 1]) = {}
        BY <1>0, <2>3, <3>1, <3>3 DEF Apart
      <4>2. R = {} \/ Within(R, u)
        BY <2>4, <2>12, <4>1 DEF Fewer
      <4>3. CASE R = {}
        BY <2>11, <4>3
      <4>4. CASE Within(R, u)
        BY <2>9, <4>4 DEF More
      <4> QED BY <4>2, <4>3, <4>4
    <3> QED BY <3>2, <3>3
  <2>13. Apart(t) /\ Within(Extent(r), t)
    BY <2>6, <2>9, <2>11 DEF More
  <2>14. More(s, t, Extent(r))
    BY <2>10, <2>12, <2>13 DEF More
  <2> QED BY <1>t, <2>14
<1> QED BY <1>0, <1>t, <1>1, <1>2, <1>3, InsertCases

-----------------------------------------------------------------------------
(***************************************************************************)
(* split_mminfo: the record i up to the page before p, and a record more.  *)
(***************************************************************************)
Inserted(s, k, r, t) ==
  \A j \in 1..Len(s)+1 : t[j] = IF j < k THEN s[j] ELSE IF j = k THEN r ELSE s[j - 1]

(* A record in the middle.                                                 *)
LEMMA RecordInserted ==
  ASSUME NEW s \in Seq(Rec), NEW k, k \in 1..Len(s)+1, NEW r \in Rec,
         NEW t, t = InsertAt(s, k, r)
  PROVE  RecSeq(t, Len(s) + 1) /\ Inserted(s, k, r, t)
<1>1. Insertion(Rec, s, k, r, t)
  BY InsertAtIs
<1>2. /\ t \in Seq(Rec) /\ Len(t) = Len(s) + 1
      /\ \A j \in 1..Len(s)+1 : t[j] = IF j < k THEN s[j] ELSE IF j = k THEN r ELSE s[j - 1]
  BY <1>1 DEF Insertion
<1> QED BY <1>2 DEF RecSeq, Inserted

Halves(s, i, p, u) ==
  \E lo, hi \in Rec :
    /\ u = InsertAt([s EXCEPT ![i] = lo], i + 1, hi)
    /\ lo.start = s[i].start /\ lo.end = p - 1
    /\ hi.start = p /\ hi.end = s[i].end

(* split_mminfo puts two records in the place of one.                      *)
LEMMA SplitIs ==
  ASSUME NEW s \in Seq(Rec), NEW i \in 1..Len(s), NEW p, Splits(s, i, p)
  PROVE  Halves(s, i, p, split_mminfo(s, i, p))
<1>1. /\ s[i] \in Record /\ s[i].start \in Page /\ s[i].end \in Page
      /\ s[i].start \in Nat /\ s[i].end \in Nat /\ s[i].start <= s[i].end
  <2>1. s[i] \in Rec
    OBVIOUS
  <2> QED BY <2>1, BootAssumption DEF Rec, Record, Page
<1>2. p \in Nat /\ s[i].start < p /\ p <= s[i].end
  BY <1>1 DEF Splits
<1>3. PICK lo : lo = [s[i] EXCEPT !.end = p - 1]
  OBVIOUS
<1>4. PICK hi : hi = [s[i] EXCEPT !.start = p]
  OBVIOUS
<1>5. p \in Page /\ p - 1 \in Page
  BY <1>1, <1>2, BootAssumption DEF Page
<1>6. lo \in Rec /\ lo.start = s[i].start /\ lo.end = p - 1
  BY <1>1, <1>2, <1>3, <1>5 DEF Rec, Record
<1>7. hi \in Rec /\ hi.start = p /\ hi.end = s[i].end
  BY <1>1, <1>2, <1>4, <1>5 DEF Rec, Record
<1>8. split_mminfo(s, i, p) = InsertAt([s EXCEPT ![i] = lo], i + 1, hi)
  BY <1>3, <1>4 DEF split_mminfo
<1> QED BY <1>6, <1>7, <1>8 DEF Halves

(* One record more, whatever the records say.                              *)
LEMMA SplitGrows ==
  ASSUME NEW s \in Seq(Rec), NEW i \in 1..Len(s), NEW p, Splits(s, i, p)
  PROVE  RecSeq(split_mminfo(s, i, p), Len(s) + 1)
<1>0. Halves(s, i, p, split_mminfo(s, i, p))
  BY SplitIs
<1>1. PICK lo \in Rec, hi \in Rec : split_mminfo(s, i, p) = InsertAt([s EXCEPT ![i] = lo], i + 1, hi)
  BY <1>0 DEF Halves
<1>2. PICK t : t = [s EXCEPT ![i] = lo]
  OBVIOUS
<1>3. t \in Seq(Rec) /\ Len(t) = Len(s) /\ i + 1 \in 1..Len(t)+1
  BY <1>2
<1> QED BY <1>1, <1>2, <1>3, RecordInserted

(* It keeps to the room there is.                                          *)
LEMMA SplitTyped ==
  ASSUME NEW s \in Seq(Rec), Len(s) <= MAX_INFO, NEW i \in 1..Len(s), NEW p
  PROVE  split_mminfo(s, i, p) \in Seq(Rec) /\ Len(split_mminfo(s, i, p)) <= MAX_INFO
<1>1. CASE Splits(s, i, p)
  <2>1. RecSeq(split_mminfo(s, i, p), Len(s) + 1)
    BY <1>1, SplitGrows
  <2>2. Len(s) < MAX_INFO /\ Len(s) \in Nat
    BY <1>1 DEF Splits
  <2> QED BY <2>1, <2>2, BootAssumption DEF RecSeq
<1>2. CASE ~Splits(s, i, p)
  BY <1>2 DEF split_mminfo
<1> QED BY <1>1, <1>2

(* u says what s said, with the record i in two, from p on the second: a   *)
(* run of pages on one side of p stays in one record.                      *)
SplitInto(s, i, p, u) ==
  /\ RecSeq(u, Len(s) + 1)
  /\ u[i].start = s[i].start /\ u[i].end = p - 1
  /\ u[i + 1].start = p /\ u[i + 1].end = s[i].end
  /\ Apart(u) /\ Recorded(u) = Recorded(s)
  /\ \A R : Within(R, s) /\ (R \intersect (p..s[i].end) = {} \/ R \subseteq p..s[i].end)
              => R = {} \/ Within(R, u)

(* The two parts of a record say what the whole said.                      *)
LEMMA SplitRecords ==
  ASSUME NEW s \in Seq(Rec), Apart(s), NEW i \in 1..Len(s), NEW p, Splits(s, i, p),
         NEW u, u = split_mminfo(s, i, p)
  PROVE  SplitInto(s, i, p, u)
<1>0. PICK n \in Nat : n = Len(s) /\ DOMAIN s = 1..n /\ i \in 1..n
  OBVIOUS
<1>1. PICK lo \in Rec, hi \in Rec :
           /\ u = InsertAt([s EXCEPT ![i] = lo], i + 1, hi)
           /\ lo.start = s[i].start /\ lo.end = p - 1
           /\ hi.start = p /\ hi.end = s[i].end
  <2>1. Halves(s, i, p, split_mminfo(s, i, p))
    BY SplitIs
  <2> QED BY <2>1 DEF Halves
<1>2. s[i].start \in Nat /\ s[i].end \in Nat /\ p \in Nat /\ s[i].start < p /\ p <= s[i].end
  <2>1. s[i] \in Rec
    OBVIOUS
  <2>2. s[i].start \in Nat /\ s[i].end \in Nat
    BY <2>1, BootAssumption DEF Rec, Record, Page
  <2> QED BY <2>2 DEF Splits
<1>3. PICK X : X = p..s[i].end
  OBVIOUS
<1>4. Extent(s[i]) = s[i].start..s[i].end /\ Extent(lo) = s[i].start..p-1 /\ Extent(hi) = X
  BY <1>1, <1>3 DEF Extent
<1>5. X \subseteq Extent(s[i]) /\ Extent(lo) = Extent(s[i]) \ X
  BY <1>2, <1>3, <1>4
<1>6. PICK t : t = [s EXCEPT ![i] = lo]
  OBVIOUS
<1>7. RecSeq(t, n) /\ Fewer(s, t, X)
  BY <1>0, <1>5, <1>6, RecordShrinks
<1>8. t \in Seq(Rec) /\ Len(t) = n /\ Apart(t) /\ i + 1 \in 1..Len(t)+1
  BY <1>0, <1>7 DEF RecSeq, Fewer
<1>9. Extent(hi) \intersect Recorded(t) = {}
  BY <1>4, <1>7 DEF Fewer
<1>10. u = InsertAt(t, i + 1, hi)
  BY <1>1, <1>6
<1>11. RecSeq(u, Len(t) + 1) /\ More(t, u, X)
  BY <1>4, <1>8, <1>9, <1>10, RecordAdded
<1>12. u[i] = lo /\ u[i + 1] = hi
  <2>1. \A j \in 1..Len(t)+1 : u[j] = IF j < i + 1 THEN t[j] ELSE IF j = i + 1 THEN hi ELSE t[j - 1]
    <3>1. Inserted(t, i + 1, hi, u)
      BY <1>8, <1>10, RecordInserted
    <3> QED BY <3>1 DEF Inserted
  <2>2. i \in 1..Len(t)+1 /\ i < i + 1 /\ ~(i + 1 < i + 1)
    BY <1>0, <1>8
  <2>3. u[i] = t[i] /\ u[i + 1] = hi
    BY <1>8, <2>1, <2>2
  <2>4. t[i] = lo
    BY <1>6
  <2> QED BY <2>3, <2>4
<1>13. Recorded(u) = Recorded(s)
  <2>1. X \subseteq Recorded(s)
    BY <1>0, <1>5 DEF Recorded
  <2> QED BY <1>7, <1>11, <2>1 DEF More, Fewer
<1>14. ASSUME NEW R, Within(R, s), R \intersect X = {} \/ R \subseteq X
       PROVE  R = {} \/ Within(R, u)
  <2>1. CASE R \intersect X = {}
    BY <1>7, <1>11, <1>14, <2>1 DEF More, Fewer
  <2>2. CASE R \subseteq X
    <3>1. Within(X, u)
      BY <1>11 DEF More
    <3> QED BY <2>2, <3>1 DEF Within
  <2> QED BY <1>14, <2>1, <2>2
<1>15. RecSeq(u, Len(s) + 1) /\ Apart(u)
  BY <1>0, <1>8, <1>11 DEF RecSeq, More
<1> QED BY <1>1, <1>3, <1>12, <1>13, <1>14, <1>15 DEF SplitInto

(* t are the records s without the pages from p on.                        *)
CutFrom(s, t, p, n) ==
  /\ Apart(t) /\ Recorded(t) = Recorded(s) \ Run(p, n)
  /\ \A k, m \in Nat : Within(Run(k, m), s) /\ Run(k, m) \intersect Run(p, n) = {}
                         => Run(k, m) = {} \/ Within(Run(k, m), t)

(* bootmm_free_pages inside a record, with room for both splits: the pages *)
(* are recorded no more, and the runs around them still are.               *)
LEMMA CutOut ==
  ASSUME NEW s \in Seq(Rec), Apart(s), NEW i \in 1..Len(s), NEW p \in Nat, NEW n \in Nat \ {0},
         s[i].start < p, p + n - 1 < s[i].end, Len(s) + 2 <= MAX_INFO,
         NEW t, t = RemoveAt(split_mminfo(split_mminfo(s, i, p), i + 1, p + n), i + 1)
  PROVE  CutFrom(s, t, p, n)
<1>0. s[i].start \in Nat /\ s[i].end \in Nat /\ Len(s) \in Nat /\ MAX_INFO \in Nat /\ n \in Nat /\ n > 0
  <2>1. s[i] \in Rec
    OBVIOUS
  <2> QED BY <2>1, BootAssumption DEF Rec, Record, Page
<1>1. Splits(s, i, p)
  BY <1>0 DEF Splits
<1>2. PICK u : u = split_mminfo(s, i, p)
  OBVIOUS
<1>3. /\ RecSeq(u, Len(s) + 1)
      /\ u[i].start = s[i].start /\ u[i].end = p - 1
      /\ u[i + 1].start = p /\ u[i + 1].end = s[i].end
      /\ Apart(u) /\ Recorded(u) = Recorded(s)
      /\ \A R : Within(R, s) /\ (R \intersect (p..s[i].end) = {} \/ R \subseteq p..s[i].end)
                  => R = {} \/ Within(R, u)
  <2>1. SplitInto(s, i, p, u)
    BY <1>1, <1>2, SplitRecords
  <2> QED BY <2>1 DEF SplitInto
<1>4. u \in Seq(Rec) /\ i + 1 \in 1..Len(u) /\ Len(u) < MAX_INFO
  BY <1>0, <1>3 DEF RecSeq
<1>5. Splits(u, i + 1, p + n)
  BY <1>0, <1>3, <1>4 DEF Splits
<1>6. PICK w : w = split_mminfo(u, i + 1, p + n)
  OBVIOUS
<1>7. /\ RecSeq(w, Len(u) + 1)
      /\ w[i + 1].start = u[i + 1].start /\ w[i + 1].end = p + n - 1
      /\ Apart(w) /\ Recorded(w) = Recorded(u)
      /\ \A R : Within(R, u)
                  /\ (R \intersect (p+n..u[i + 1].end) = {} \/ R \subseteq p+n..u[i + 1].end)
                  => R = {} \/ Within(R, w)
  <2>1. SplitInto(u, i + 1, p + n, w)
    BY <1>3, <1>4, <1>5, <1>6, SplitRecords
  <2>2. /\ RecSeq(w, Len(u) + 1)
        /\ w[i + 1].start = u[i + 1].start /\ w[i + 1].end = p + n - 1
        /\ Apart(w) /\ Recorded(w) = Recorded(u)
    BY <2>1 DEF SplitInto
  <2>3. \A R : Within(R, u)
                /\ (R \intersect (p+n..u[i + 1].end) = {} \/ R \subseteq p+n..u[i + 1].end)
                  => R = {} \/ Within(R, w)
    BY <2>1 DEF SplitInto
  <2> QED BY <2>2, <2>3
<1>8. Extent(w[i + 1]) = Run(p, n)
  BY <1>3, <1>7 DEF Extent, Run
<1>9. w \in Seq(Rec) /\ i + 1 \in 1..Len(w) /\ t = RemoveAt(w, i + 1)
  BY <1>0, <1>2, <1>4, <1>6, <1>7 DEF RecSeq
<1>10. Fewer(w, t, Run(p, n))
  BY <1>7, <1>8, <1>9, RecordDropped
<1>11. Apart(t) /\ Recorded(t) = Recorded(s) \ Run(p, n)
  BY <1>3, <1>7, <1>10 DEF Fewer
<1>12. ASSUME NEW k \in Nat, NEW m \in Nat, Within(Run(k, m), s),
              Run(k, m) \intersect Run(p, n) = {}, Run(k, m) # {}
       PROVE  Within(Run(k, m), t)
  <2>1. PICK R : R = Run(k, m)
    OBVIOUS
  <2>2. m > 0 /\ R = k..k+m-1 /\ Run(p, n) = p..p+n-1
    BY <1>12, <2>1 DEF Run
  <2>3. PICK j \in 1..Len(s) : R \subseteq Extent(s[j])
    <3>1. DOMAIN s = 1..Len(s)
      OBVIOUS
    <3> QED BY <1>12, <2>1, <3>1 DEF Within
  <2>4. Extent(s[i]) = s[i].start..s[i].end
    BY DEF Extent
  <2>5. R \intersect (p..s[i].end) = {} \/ R \subseteq p+n..s[i].end
    <3>1. CASE j = i
      <4>1. k \in R /\ k + m - 1 \in R
        BY <2>2
      <4>2. k >= s[i].start /\ k + m - 1 <= s[i].end
        <5>1. R \subseteq s[i].start..s[i].end
          BY <2>3, <2>4, <3>1, Zenon
        <5>2. k \in s[i].start..s[i].end /\ k + m - 1 \in s[i].start..s[i].end
          BY <4>1, <5>1, Zenon
        <5> QED BY <1>0, <5>2
      <4>3. k + m - 1 < p \/ k > p + n - 1
        <5>1. CASE k < p /\ k + m - 1 >= p
          <6>1. p \in R /\ p \in Run(p, n)
            BY <1>0, <2>2, <5>1
          <6> QED BY <1>12, <2>1, <6>1
        <5>2. CASE k >= p /\ k <= p + n - 1
          <6>1. k \in R /\ k \in Run(p, n)
            BY <1>0, <2>2, <5>2
          <6> QED BY <1>12, <2>1, <6>1
        <5> QED BY <1>0, <2>2, <5>1, <5>2
      <4> QED BY <1>0, <2>2, <4>2, <4>3
    <3>2. CASE j # i
      <4>1. Extent(s[j]) \intersect Extent(s[i]) = {}
        BY <3>2 DEF Apart
      <4>2. p..s[i].end \subseteq Extent(s[i])
        BY <1>0, <2>4
      <4> QED BY <2>3, <4>1, <4>2
    <3> QED BY <3>1, <3>2
  <2>6. p+n..s[i].end \subseteq p..s[i].end
    BY <1>0
  <2>7. R \intersect (p..s[i].end) = {} \/ R \subseteq p..s[i].end
    BY <2>5, <2>6
  <2>8. Within(R, u)
    BY <1>3, <1>12, <2>1, <2>7
  <2>9. R \intersect (p+n..s[i].end) = {} \/ R \subseteq p+n..s[i].end
    BY <2>5, <2>6
  <2>10. Within(R, w)
    BY <1>3, <1>7, <1>12, <2>1, <2>8, <2>9
  <2> QED BY <1>10, <1>12, <2>1, <2>10 DEF Fewer
<1> QED BY <1>11, <1>12 DEF CutFrom

-----------------------------------------------------------------------------
(***************************************************************************)
(* The inductive invariant.  Whatever the records say, the pages handed    *)
(* out are marked, each for one caller, and the kernel's stay marked.  As  *)
(* long as no record was refused, what a caller has lies within one record *)
(* (else it could not be given back), and records and map agree.           *)
(***************************************************************************)
Maps == [used : SUBSET Page, last_alloc : Page, info : Seq(Rec)]

Sane(b) ==
  /\ b \in Maps /\ Len(b.info) <= MAX_INFO
  /\ Run(0, KernelPn) \subseteq b.used

Taken(h) == Run(h[1], h[2])

Owners(H, used) ==
  /\ H \subseteq (KernelPn..MaxPn-1) \X Counts
  /\ \A h \in H : h[1] + h[2] <= MaxPn /\ Taken(h) \subseteq used
  /\ \A g, h \in H : g # h => Taken(g) \intersect Taken(h) = {}

HeldApart == Owners(held, bmm.used)

Agree ==
  /\ Apart(bmm.info) /\ Recorded(bmm.info) = bmm.used
  /\ bmm.used = Run(0, KernelPn) \union UNION {Taken(h) : h \in held}
  /\ \A h \in held : Within(Taken(h), bmm.info)

BootInv ==
  /\ Sane(bmm) /\ HeldApart
  /\ late \in Nat /\ mode \in {"running", "lost"}
  /\ mode = "running" /\ late = 0 => Agree

(* The assumptions about the constants, as the steps need them.            *)
LEMMA Sizes ==
  /\ MaxPn \in Nat /\ KernelPn \in Nat /\ 0 < KernelPn /\ KernelPn < MaxPn
  /\ MAX_INFO \in Nat /\ MAX_INFO > 0 /\ Kernel \in Type
  /\ \A n \in Counts : n \in Nat /\ n > 0 /\ n \in Nat \ {0}
  /\ \A a \in Aligns : a \in Nat \ {0}
  /\ Page = 0..MaxPn-1
BY BootAssumption DEF Page

-----------------------------------------------------------------------------
(***************************************************************************)
(* A search and the two searches of bootmm_alloc_pages.                    *)
(***************************************************************************)
Marks(b, c, p, n) ==
  /\ p \in KernelPn..MaxPn-1 /\ p + n <= MaxPn /\ Run(p, n) \intersect b.used = {}
  /\ Sane(c) /\ c.used = b.used \union Run(p, n)

\* Nothing is found, the record is refused, or the pages are handed out.
Finds(b, x, n, t) ==
  \/ x.page = 0 /\ x.bmm = b
  \/ x.page = 0 /\ \E p : Marks(b, x.bmm, p, n)
  \/ /\ Marks(b, x.bmm, x.page, n)
     /\ Insertable(b.info, Segment(x.page, n, t))
     /\ x.bmm.info = insert_mminfo(b.info, Segment(x.page, n, t))

(* The record of a run within the memory.                                  *)
LEMMA SegmentIs ==
  ASSUME NEW p \in KernelPn..MaxPn-1, NEW n \in Counts, p + n <= MaxPn, NEW t \in Type
  PROVE  Segment(p, n, t) \in Rec /\ Extent(Segment(p, n, t)) = Run(p, n)
<1>1. PICK r : r = Segment(p, n, t)
  OBVIOUS
<1>2. r.start = p /\ r.end = p + n - 1 /\ r = [start |-> p, end |-> p + n - 1, type |-> t]
  BY <1>1 DEF Segment
<1>3. p \in Page /\ p + n - 1 \in Page /\ p <= p + n - 1
  BY Sizes
<1>4. r \in Rec
  BY <1>2, <1>3 DEF Rec, Record
<1>5. Extent(r) = Run(p, n)
  BY <1>2 DEF Extent, Run
<1> QED BY <1>1, <1>4, <1>5

(* One search, with any alignment or without.                              *)
LEMMA SearchFinds ==
  ASSUME NEW b, Sane(b), NEW n \in Counts, NEW t \in Type, NEW a \in Aligns \union {1},
         NEW s \in 0..MaxPn, NEW e \in 0..MaxPn
  PROVE  Finds(b, Search(b, n, t, s, e, a), n, t)
<1>1. PICK p : p = find_pages(b, n, s, e, a)
  OBVIOUS
<1>2. /\ b \in Maps /\ b.used \subseteq Page /\ b.info \in Seq(Rec) /\ Len(b.info) <= MAX_INFO
      /\ Run(0, KernelPn) \subseteq b.used
  BY DEF Sane, Maps
<1>3. n \in Nat \ {0} /\ a \in Nat \ {0}
  BY Sizes
<1>4. p = 0 \/ (p \in s..e /\ p + n <= e /\ Run(p, n) \intersect b.used = {})
  BY <1>1, <1>2, <1>3, FindsFree
<1>5. PICK x : x = Search(b, n, t, s, e, a)
  OBVIOUS
<1>6. CASE p = 0
  BY <1>1, <1>5, <1>6 DEF Search, Finds
<1>7. CASE p # 0
  <2>1. p \in Nat /\ p + n <= MaxPn /\ n > 0 /\ n \in Nat
    BY <1>3, <1>4, <1>7, Sizes
  <2>2. p \in KernelPn..MaxPn-1
    <3>1. p \in Run(p, n)
      BY <2>1 DEF Run
    <3>2. p \notin 0..KernelPn-1
      <4>1. Run(0, KernelPn) = 0..KernelPn-1
        BY Sizes DEF Run
      <4>2. p \notin b.used
        BY <1>4, <1>7, <3>1
      <4> QED BY <1>2, <4>1, <4>2
    <3> QED BY <2>1, <3>2, Sizes
  <2>3. PICK marked : marked = [b EXCEPT !.used = @ \union Run(p, n), !.last_alloc = p + n - 1]
    OBVIOUS
  <2>4. /\ marked.used = b.used \union Run(p, n) /\ marked.last_alloc = p + n - 1
        /\ marked.info = b.info /\ marked \in Maps
    <3>1. Run(p, n) \subseteq Page /\ p + n - 1 \in Page
      BY <2>1, <2>2, Sizes DEF Run
    <3> QED BY <1>2, <2>3, <3>1 DEF Maps
  <2>5. Marks(b, marked, p, n)
    BY <1>2, <1>4, <1>7, <2>1, <2>2, <2>4 DEF Marks, Sane
  <2>6. CASE Insertable(b.info, Segment(p, n, t))
    <3>1. PICK c : c = [marked EXCEPT !.info = insert_mminfo(b.info, Segment(p, n, t))]
      OBVIOUS
    <3>2. x = [page |-> p, bmm |-> c]
      BY <1>1, <1>5, <1>7, <2>3, <2>4, <2>6, <3>1 DEF Search
    <3>3. Segment(p, n, t) \in Rec
      BY <2>1, <2>2, SegmentIs
    <3>4. /\ insert_mminfo(b.info, Segment(p, n, t)) \in Seq(Rec)
          /\ Len(insert_mminfo(b.info, Segment(p, n, t))) <= MAX_INFO
      BY <1>2, <2>6, <3>3, InsertTyped
    <3>5. c \in Maps /\ c.used = marked.used /\ c.info = insert_mminfo(b.info, Segment(p, n, t))
      BY <2>4, <3>1, <3>4 DEF Maps
    <3>6. Marks(b, c, p, n)
      BY <2>5, <3>4, <3>5 DEF Marks, Sane
    <3> QED BY <1>5, <2>6, <3>2, <3>5, <3>6 DEF Finds
  <2>7. CASE ~Insertable(b.info, Segment(p, n, t))
    <3>1. x = [page |-> 0, bmm |-> marked]
      BY <1>1, <1>5, <1>7, <2>3, <2>7 DEF Search
    <3> QED BY <1>5, <2>5, <3>1 DEF Finds
  <2> QED BY <2>6, <2>7
<1> QED BY <1>6, <1>7

\* What the two searches come to: as one, or with pages marked for nobody.
Answers(b, x, n, t) ==
  \/ Finds(b, x, n, t) /\ (x.page # 0 \/ x.bmm = b)
  \/ /\ Sane(x.bmm) /\ b.used \subseteq x.bmm.used
     /\ x.page # 0 => /\ x.page \in KernelPn..MaxPn-1 /\ x.page + n <= MaxPn
                      /\ Run(x.page, n) \intersect b.used = {}
                      /\ Run(x.page, n) \subseteq x.bmm.used
     /\ \E p \in x.bmm.used \ b.used : x.page # 0 => p \notin Run(x.page, n)

(* The second search starts from what the first one left.                  *)
LEMMA AnswerFinds ==
  ASSUME NEW b, Sane(b), NEW n \in Counts, NEW t \in Type, NEW a \in Aligns
  PROVE  Answers(b, Answer(b, n, t, a), n, t)
<1>0. b.last_alloc \in 0..MaxPn /\ b.last_alloc + 1 \in 0..MaxPn /\ MaxPn \in 0..MaxPn /\ 0 \in 0..MaxPn
  BY Sizes DEF Sane, Maps
<1>1. PICK y : y = Search(b, n, t, b.last_alloc + 1, MaxPn, a)
  OBVIOUS
<1>2. Finds(b, y, n, t)
  BY <1>0, <1>1, SearchFinds
<1>3. PICK x : x = Answer(b, n, t, a)
  OBVIOUS
<1>4. CASE y.page # 0
  <2>1. x = y
    BY <1>1, <1>3, <1>4 DEF Answer
  <2> QED BY <1>2, <1>3, <1>4, <2>1 DEF Answers
<1>5. CASE y.page = 0
  <2>1. Sane(y.bmm)
    BY <1>2, <1>5, Sizes DEF Finds, Marks
  <2>2. y.bmm.last_alloc \in 0..MaxPn
    BY <2>1, Sizes DEF Sane, Maps
  <2>3. x = Search(y.bmm, n, t, 0, y.bmm.last_alloc, a)
    BY <1>1, <1>3, <1>5 DEF Answer
  <2>4. Finds(y.bmm, x, n, t)
    BY <1>0, <2>1, <2>2, <2>3, SearchFinds
  <2>5. ASSUME NEW c, NEW d, NEW p, Marks(c, d, p, n)
        PROVE  /\ Sane(d) /\ c.used \subseteq d.used /\ Run(p, n) \subseteq d.used
               /\ p \in Run(p, n) /\ p \notin c.used /\ p # 0
    <3>1. p \in Run(p, n)
      BY <2>5, Sizes DEF Marks, Run
    <3> QED BY <2>5, <3>1, Sizes DEF Marks
  <2>6. CASE y.bmm = b
    <3>1. CASE x.page # 0 \/ x.bmm = b
      BY <1>3, <2>4, <2>6, <3>1 DEF Answers
    <3>2. CASE x.page = 0 /\ x.bmm # b
      <4>1. PICK p : Marks(b, x.bmm, p, n)
        BY <2>4, <2>5, <2>6, <3>2 DEF Finds
      <4>2. Sane(x.bmm) /\ b.used \subseteq x.bmm.used /\ p \in x.bmm.used \ b.used
        BY <2>5, <4>1
      <4> QED BY <1>3, <3>2, <4>2 DEF Answers
    <3> QED BY <3>1, <3>2
  <2>7. CASE y.bmm # b
    <3>1. PICK p : Marks(b, y.bmm, p, n)
      BY <1>2, <1>5, <2>5, <2>7 DEF Finds
    <3>2. Sane(y.bmm) /\ b.used \subseteq y.bmm.used /\ p \in y.bmm.used \ b.used
      BY <2>5, <3>1
    <3>3. CASE x.page = 0
      <4>1. Sane(x.bmm) /\ y.bmm.used \subseteq x.bmm.used
        BY <2>4, <2>5, <3>2, <3>3 DEF Finds
      <4> QED BY <1>3, <3>2, <3>3, <4>1 DEF Answers
    <3>4. CASE x.page # 0
      <4>1. Marks(y.bmm, x.bmm, x.page, n)
        BY <2>4, <3>4 DEF Finds
      <4>2. /\ Sane(x.bmm) /\ y.bmm.used \subseteq x.bmm.used /\ Run(x.page, n) \subseteq x.bmm.used
            /\ Run(x.page, n) \intersect y.bmm.used = {}
            /\ x.page \in KernelPn..MaxPn-1 /\ x.page + n <= MaxPn
        BY <2>5, <4>1 DEF Marks
      <4>3. p \in x.bmm.used \ b.used /\ p \notin Run(x.page, n) /\ Run(x.page, n) \intersect b.used = {}
        BY <3>2, <4>2
      <4> QED BY <1>3, <3>2, <4>2, <4>3 DEF Answers
    <3> QED BY <3>3, <3>4
  <2> QED BY <2>6, <2>7
<1> QED BY <1>4, <1>5

-----------------------------------------------------------------------------
(* The kernel's record and the kernel's pages.                             *)
LEMMA InitBoot == Init => BootInv
<1> SUFFICES ASSUME Init PROVE BootInv
  OBVIOUS
<1>1. PICK r : r = Segment(0, KernelPn, Kernel)
  OBVIOUS
<1>2. r \in Rec /\ Extent(r) = Run(0, KernelPn)
  <2>1. r.start = 0 /\ r.end = KernelPn - 1 /\ r = [start |-> 0, end |-> KernelPn - 1, type |-> Kernel]
    BY <1>1, Sizes DEF Segment
  <2>2. 0 \in Page /\ KernelPn - 1 \in Page /\ 0 <= KernelPn - 1
    BY Sizes
  <2>3. r \in Rec
    BY <2>1, <2>2, Sizes DEF Rec, Record
  <2>4. Extent(r) = Run(0, KernelPn)
    BY <2>1, Sizes DEF Extent, Run
  <2> QED BY <2>3, <2>4
<1>3. PICK s : s = <<r>>
  OBVIOUS
<1>4. s \in Seq(Rec) /\ Len(s) = 1 /\ s[1] = r /\ DOMAIN s = 1..1
  <2>1. PICK S : S = Rec
    OBVIOUS
  <2>2. r \in S
    BY <1>2, <2>1
  <2>3. <<r>> \in Seq(S) /\ Len(<<r>>) = 1 /\ <<r>>[1] = r /\ DOMAIN <<r>> = 1..1
    BY <2>2
  <2> QED BY <1>3, <2>1, <2>3
<1>5. bmm.used = Run(0, KernelPn) /\ bmm.last_alloc = KernelPn - 1 /\ bmm.info = s
      /\ bmm = [used |-> Run(0, KernelPn), last_alloc |-> KernelPn - 1, info |-> s]
  BY <1>1, <1>3 DEF Init
<1>6. Sane(bmm)
  <2>1. Run(0, KernelPn) \subseteq Page /\ KernelPn - 1 \in Page
    BY Sizes DEF Run
  <2>2. bmm \in Maps
    BY <1>4, <1>5, <2>1 DEF Maps
  <2>3. Len(bmm.info) <= MAX_INFO
    <3>1. Len(bmm.info) = 1
      BY <1>4, <1>5
    <3>2. 1 <= MAX_INFO
      BY Sizes
    <3> QED BY <3>1, <3>2
  <2>4. Run(0, KernelPn) \subseteq bmm.used
    BY <1>5
  <2> QED BY <2>2, <2>3, <2>4 DEF Sane
<1>7. HeldApart /\ late \in Nat /\ mode = "running" /\ held = {}
  BY DEF Init, HeldApart, Owners
<1>8. Agree
  <2>1. Apart(s)
    BY <1>4 DEF Apart
  <2>2. Recorded(s) = Run(0, KernelPn)
    BY <1>2, <1>4 DEF Recorded
  <2> QED BY <1>5, <1>7, <2>1, <2>2 DEF Agree
<1> QED BY <1>6, <1>7, <1>8 DEF BootInv

(* Runs of positive length are not empty.                                  *)
LEMMA TakenIs ==
  ASSUME NEW h \in (KernelPn..MaxPn-1) \X Counts
  PROVE  /\ Taken(h) = h[1]..h[1]+h[2]-1 /\ h[1] \in Taken(h)
         /\ h[1] \in Nat /\ h[1] >= KernelPn /\ h[1] < MaxPn /\ h[2] \in Counts
         /\ h[2] \in Nat /\ h[2] > 0 /\ h = <<h[1], h[2]>>
         /\ Taken(h) \intersect Run(0, KernelPn) = {}
<1>1. /\ h[1] \in KernelPn..MaxPn-1 /\ h[2] \in Counts /\ h = <<h[1], h[2]>>
  OBVIOUS
<1>2. h[1] \in Nat /\ h[2] \in Nat /\ h[2] > 0 /\ h[1] >= KernelPn /\ h[1] < MaxPn
  BY <1>1, Sizes
<1>3. Taken(h) = h[1]..h[1]+h[2]-1 /\ Run(0, KernelPn) = 0..KernelPn-1
  BY Sizes DEF Taken, Run
<1> QED BY <1>1, <1>2, <1>3, Sizes

(* A run as the pair the callers keep.                                     *)
LEMMA PairIs ==
  ASSUME NEW p, NEW n
  PROVE  /\ <<p, n>>[1] = p /\ <<p, n>>[2] = n /\ Taken(<<p, n>>) = Run(p, n)
         /\ \A P, N : p \in P /\ n \in N => <<p, n>> \in P \X N
<1>1. <<p, n>>[1] = p /\ <<p, n>>[2] = n
  OBVIOUS
<1>2. Taken(<<p, n>>) = Run(p, n)
  BY <1>1 DEF Taken
<1> QED BY <1>1, <1>2

(* What is handed out was nobody's.                                        *)
LEMMA HandedOut ==
  ASSUME HeldApart, Sane(bmm), NEW used, bmm.used \subseteq used, NEW p, NEW n \in Counts,
         p \in KernelPn..MaxPn-1, p + n <= MaxPn, Run(p, n) \intersect bmm.used = {},
         Run(p, n) \subseteq used
  PROVE  Owners(held \union {<<p, n>>}, used)
<1>0. PICK z : z = <<p, n>>
  OBVIOUS
<1>1. z = <<p, n>> /\ z[1] = p /\ z[2] = n /\ z \in (KernelPn..MaxPn-1) \X Counts
  BY <1>0
<1>2. Taken(z) = Run(p, n)
  BY <1>0, PairIs
<1>3. \A h \in held : Taken(h) \intersect Taken(z) = {}
  BY <1>2 DEF HeldApart, Owners
<1>4. \A h \in held : h[1] + h[2] <= MaxPn /\ Taken(h) \subseteq used
  BY DEF HeldApart, Owners
<1>5. z[1] + z[2] <= MaxPn /\ Taken(z) \subseteq used
  BY <1>1, <1>2
<1>6. \A g, h \in held : g # h => Taken(g) \intersect Taken(h) = {}
  BY DEF HeldApart, Owners
<1>7. held \subseteq (KernelPn..MaxPn-1) \X Counts
  BY DEF HeldApart, Owners
<1>8. \A g, h \in held \union {z} : g # h => Taken(g) \intersect Taken(h) = {}
  BY <1>3, <1>6
<1> QED BY <1>1, <1>4, <1>5, <1>7, <1>8 DEF Owners

(* bootmm_alloc_pages.                                                     *)
LEMMA AllocKeeps ==
  ASSUME BootInv, NEW n \in Counts, NEW t \in Type, NEW a \in Aligns, bootmm_alloc_pages(n, t, a)
  PROVE  BootInv'
<1>1. PICK x : x = Answer(bmm, n, t, a)
  OBVIOUS
<1>2. Answers(bmm, x, n, t)
  BY <1>1, AnswerFinds DEF BootInv
<1>3. PICK given : given = IF x.page = 0 THEN {} ELSE {<<x.page, n>>}
  OBVIOUS
<1>4. /\ mode = "running" /\ mode' = mode /\ bmm' = x.bmm /\ held' = held \union given
      /\ late' = IF x.bmm.used \ bmm.used # UNION {Run(h[1], h[2]) : h \in given} \/ late > 0
                 THEN late + 1 ELSE 0
  BY <1>1, <1>3 DEF bootmm_alloc_pages, Counted
<1>5. Sane(bmm) /\ HeldApart /\ late \in Nat
  BY DEF BootInv
<1>6. late' \in Nat /\ mode' \in {"running", "lost"} /\ (late' = 0 => late = 0)
  BY <1>4, <1>5
<1>7. /\ Sane(x.bmm) /\ bmm.used \subseteq x.bmm.used
      /\ x.page # 0 => /\ x.page \in KernelPn..MaxPn-1 /\ x.page + n <= MaxPn
                       /\ Run(x.page, n) \intersect bmm.used = {}
                       /\ Run(x.page, n) \subseteq x.bmm.used
  BY <1>2, <1>5 DEF Answers, Finds, Marks
<1>8. HeldApart'
  <2>1. CASE x.page = 0
    BY <1>3, <1>4, <1>5, <1>7, <2>1 DEF HeldApart, Owners
  <2>2. CASE x.page # 0
    <3>1. given = {<<x.page, n>>}
      BY <1>3, <2>2
    <3>2. PICK p, used : p = x.page /\ used = x.bmm.used
      OBVIOUS
    <3>3. Owners(held \union {<<p, n>>}, used)
      BY <1>5, <1>7, <2>2, <3>2, HandedOut
    <3> QED BY <1>4, <3>1, <3>2, <3>3 DEF HeldApart
  <2> QED BY <2>1, <2>2
<1>9. ASSUME mode' = "running", late' = 0
      PROVE  Agree'
  <2>1. Agree /\ x.bmm.used \ bmm.used = UNION {Run(h[1], h[2]) : h \in given}
    BY <1>4, <1>5, <1>6, <1>9 DEF BootInv
  <2>2. CASE Finds(bmm, x, n, t) /\ (x.page # 0 \/ x.bmm = bmm)
    <3>1. CASE x.page = 0
      BY <1>3, <1>4, <2>1, <2>2, <3>1 DEF Agree
    <3>2. CASE x.page # 0
      <4>1. /\ x.bmm.used = bmm.used \union Run(x.page, n)
            /\ Insertable(bmm.info, Segment(x.page, n, t))
            /\ x.bmm.info = insert_mminfo(bmm.info, Segment(x.page, n, t))
        BY <2>2, <3>2 DEF Finds, Marks
      <4>2. Segment(x.page, n, t) \in Rec /\ Extent(Segment(x.page, n, t)) = Run(x.page, n)
        BY <1>7, <3>2, SegmentIs
      <4>3. bmm.info \in Seq(Rec) /\ Apart(bmm.info) /\ Recorded(bmm.info) = bmm.used
        BY <1>5, <2>1 DEF Agree, Sane, Maps
      <4>4. Extent(Segment(x.page, n, t)) \intersect Recorded(bmm.info) = {}
        BY <1>7, <3>2, <4>2, <4>3
      <4>5. More(bmm.info, x.bmm.info, Run(x.page, n))
        BY <4>1, <4>2, <4>3, <4>4, InsertRecords
      <4>0. PICK z : z = <<x.page, n>>
        OBVIOUS
      <4>6. Taken(z) = Run(x.page, n)
        BY <4>0, PairIs
      <4>7. held' = held \union {z}
        BY <1>3, <1>4, <3>2, <4>0
      <4>8. Apart(x.bmm.info) /\ Recorded(x.bmm.info) = x.bmm.used
        BY <4>1, <4>3, <4>5 DEF More
      <4>9. x.bmm.used = Run(0, KernelPn) \union UNION {Taken(h) : h \in held'}
        BY <2>1, <4>1, <4>6, <4>7 DEF Agree
      <4>10. \A h \in held' : Within(Taken(h), x.bmm.info)
        BY <2>1, <4>5, <4>6, <4>7 DEF Agree, More
      <4> QED BY <1>4, <4>8, <4>9, <4>10 DEF Agree
    <3> QED BY <3>1, <3>2
  <2>3. CASE \E p \in x.bmm.used \ bmm.used : x.page # 0 => p \notin Run(x.page, n)
    <3>1. PICK p \in x.bmm.used \ bmm.used : x.page # 0 => p \notin Run(x.page, n)
      BY <2>3
    <3>2. UNION {Run(h[1], h[2]) : h \in given} = IF x.page = 0 THEN {} ELSE Run(x.page, n)
      <4>1. CASE x.page = 0
        BY <1>3, <4>1
      <4>2. CASE x.page # 0
        <5>0. PICK z : z = <<x.page, n>>
          OBVIOUS
        <5>1. z[1] = x.page /\ z[2] = n
          BY <5>0
        <5>2. given = {z}
          BY <1>3, <4>2, <5>0
        <5> QED BY <4>2, <5>1, <5>2
      <4> QED BY <4>1, <4>2
    <3> QED BY <2>1, <3>1, <3>2
  <2> QED BY <1>2, <2>2, <2>3 DEF Answers
<1>10. Sane(bmm)'
  BY <1>4, <1>7
<1> QED BY <1>6, <1>8, <1>9, <1>10 DEF BootInv

-----------------------------------------------------------------------------
(***************************************************************************)
(* bootmm_free_pages.                                                      *)
(***************************************************************************)

(* A call that unmarks at most the pages given back keeps the rest sound.  *)
LEMMA GivenBack ==
  ASSUME BootInv, NEW h \in held, NEW b, b \in Maps, Len(b.info) <= MAX_INFO,
         b.used \subseteq bmm.used, bmm.used \ Taken(h) \subseteq b.used
  PROVE  Sane(b) /\ Owners(held \ {h}, b.used)
<1>1. Sane(bmm) /\ Owners(held, bmm.used)
  BY DEF BootInv, HeldApart
<1>2. h \in (KernelPn..MaxPn-1) \X Counts
  BY <1>1 DEF Owners
<1>3. Taken(h) \intersect Run(0, KernelPn) = {}
  BY <1>2, TakenIs
<1>4. Sane(b)
  BY <1>1, <1>3 DEF Sane
<1>5. \A g \in held \ {h} : Taken(g) \intersect Taken(h) = {} /\ Taken(g) \subseteq bmm.used
  BY <1>1 DEF Owners
<1>6. \A g \in held \ {h} : Taken(g) \subseteq b.used
  BY <1>5
<1>7. Owners(held \ {h}, b.used)
  BY <1>1, <1>6 DEF Owners
<1> QED BY <1>4, <1>7

(* When the records lose exactly those pages, records and map still agree. *)
LEMMA StillAgree ==
  ASSUME BootInv, Agree, NEW h \in held, held' = held \ {h},
         bmm'.used = bmm.used \ Taken(h),
         Apart(bmm'.info), Recorded(bmm'.info) = Recorded(bmm.info) \ Taken(h),
         \A g \in held : g # h => Within(Taken(g), bmm'.info)
  PROVE  Agree'
<1>1. Owners(held, bmm.used) /\ h \in (KernelPn..MaxPn-1) \X Counts
  BY DEF BootInv, HeldApart, Owners
<1>2. Taken(h) \intersect Run(0, KernelPn) = {}
  BY <1>1, TakenIs
<1>3. \A g \in held : g # h => Taken(g) \intersect Taken(h) = {}
  BY <1>1 DEF Owners
<1>4. bmm.used \ Taken(h) = Run(0, KernelPn) \union UNION {Taken(g) : g \in held \ {h}}
  BY <1>2, <1>3 DEF Agree
<1>5. Recorded(bmm'.info) = bmm'.used
  BY DEF Agree
<1>6. \A g \in held' : Within(Taken(g), bmm'.info)
  OBVIOUS
<1>7. bmm'.used = Run(0, KernelPn) \union UNION {Taken(g) : g \in held'}
  BY <1>4
<1> QED BY <1>5, <1>6, <1>7 DEF Agree

(* What a caller holds, as the cases of the call see it.                   *)
LEMMA HeldIs ==
  ASSUME BootInv, NEW h \in held
  PROVE  /\ Run(h[1], h[2]) = Taken(h) /\ <<h[1], h[2]>> = h
         /\ Taken(h) = h[1]..h[1]+h[2]-1
         /\ h[1] \in Nat /\ h[2] \in Nat \ {0} /\ h[1] + h[2] <= MaxPn
         /\ \A g \in held : /\ Taken(g) # {}
                            /\ g # h => Taken(g) \intersect Taken(h) = {}
                            /\ g[1] \in Nat /\ g[2] \in Nat /\ Taken(g) = Run(g[1], g[2])
<1>1. Owners(held, bmm.used)
  BY DEF BootInv, HeldApart
<1>2. \A g \in held : g \in (KernelPn..MaxPn-1) \X Counts
  BY <1>1 DEF Owners
<1>3. /\ Taken(h) = h[1]..h[1]+h[2]-1 /\ h[1] \in Nat
      /\ h[2] \in Nat /\ h[2] > 0 /\ h = <<h[1], h[2]>>
  BY <1>2, TakenIs
<1>4. \A g \in held : g[1] \in Taken(g) /\ g[1] \in Nat /\ g[2] \in Nat
  BY <1>2, TakenIs
<1>5. \A g \in held : Taken(g) = Run(g[1], g[2])
  BY DEF Taken
<1>6. /\ h[1] + h[2] <= MaxPn
      /\ \A g \in held : g # h => Taken(g) \intersect Taken(h) = {}
  BY <1>1 DEF Owners
<1> QED BY <1>3, <1>4, <1>5, <1>6

(* No record has the pages: a record was refused before.                   *)
LEMMA FreeUnknownKeeps ==
  ASSUME BootInv, mode = "running", NEW h \in held, held' = held \ {h}, FreeUnknown(h[1], h[2])
  PROVE  BootInv'
<1>1. bmm' = bmm /\ mode' = mode /\ late' = (IF late > 0 THEN late + 1 ELSE 0) /\ late \in Nat
  BY DEF FreeUnknown, Counted, BootInv
<1>2. bmm \in Maps /\ Len(bmm.info) <= MAX_INFO
  BY DEF BootInv, Sane
<1>3. Sane(bmm) /\ Owners(held \ {h}, bmm.used)
  BY <1>2, GivenBack
<1>4. ~Agree
  <2> SUFFICES ASSUME Agree PROVE FALSE
    OBVIOUS
  <2>1. PICK i \in DOMAIN bmm.info : Taken(h) \subseteq Extent(bmm.info[i])
    BY DEF Agree, Within
  <2>2. i \in Covering(h[1], h[2])
    BY <2>1, HeldIs DEF Covering
  <2> QED BY <2>2 DEF FreeUnknown
<1>5. late # 0
  BY <1>4 DEF BootInv
<1>6. late' \in Nat /\ late' # 0
  BY <1>1, <1>5
<1> QED BY <1>1, <1>3, <1>6 DEF BootInv, HeldApart

(* The record from which pages are taken.                                  *)
LEMMA CoveringIs ==
  ASSUME BootInv, NEW h \in held, Covering(h[1], h[2]) # {}
  PROVE  /\ Min(Covering(h[1], h[2])) \in 1..Len(bmm.info)
         /\ Taken(h) \subseteq Extent(bmm.info[Min(Covering(h[1], h[2]))])
<1>1. PICK n \in Nat : n = Len(bmm.info) /\ DOMAIN bmm.info = 1..n
  BY DEF BootInv, Sane, Maps
<1>2. PICK C : C = Covering(h[1], h[2])
  OBVIOUS
<1>3. C \subseteq 1..n /\ C \subseteq Nat /\ \A i \in C : Taken(h) \subseteq Extent(bmm.info[i])
  BY <1>1, <1>2, HeldIs DEF Covering
<1>4. Min(C) \in C
  BY <1>2, <1>3, MinIsLeast
<1> QED BY <1>1, <1>2, <1>3, <1>4

(* The record shrinks or goes.                                             *)
LEMMA FreeAtEndKeeps ==
  ASSUME BootInv, mode = "running", NEW h \in held, held' = held \ {h}, FreeAtEnd(h[1], h[2])
  PROVE  BootInv'
<1>1. PICK p, n : p = h[1] /\ n = h[2] /\ Run(p, n) = Taken(h) /\ p \in Nat /\ n \in Nat \ {0}
                  /\ Taken(h) = p..p+n-1
  BY HeldIs
<1>2. PICK i : i = Min(Covering(p, n))
  OBVIOUS
<1>3. PICK s : s = bmm.info
  OBVIOUS
<1>4. /\ s \in Seq(Rec) /\ Len(s) <= MAX_INFO /\ bmm \in Maps /\ DOMAIN s = 1..Len(s)
      /\ i \in 1..Len(s) /\ Taken(h) \subseteq Extent(s[i]) /\ s[i] \in Rec
  <2>1. bmm \in Maps /\ s \in Seq(Rec) /\ Len(s) <= MAX_INFO
    BY <1>3 DEF BootInv, Sane, Maps
  <2>2. i \in 1..Len(s) /\ Taken(h) \subseteq Extent(s[i])
    BY <1>1, <1>2, <1>3, CoveringIs DEF FreeAtEnd
  <2> QED BY <2>1, <2>2
<1>5. /\ s[i].start \in Page /\ s[i].end \in Page /\ s[i].start \in Nat /\ s[i].end \in Nat
      /\ s[i].start <= s[i].end /\ s[i] \in Record
      /\ Extent(s[i]) = s[i].start..s[i].end
  BY <1>4, Sizes DEF Rec, Record, Extent
<1>6. s[i].start <= p /\ p + n - 1 <= s[i].end
  <2>1. p \in Taken(h) /\ p + n - 1 \in Taken(h)
    BY <1>1
  <2> QED BY <1>1, <1>4, <1>5, <2>1
<1>7. PICK t : t = IF Extent(s[i]) = Run(p, n) THEN remove_mminfo(s, i)
                   ELSE IF s[i].start = p THEN [s EXCEPT ![i].start = p + n]
                   ELSE [s EXCEPT ![i].end = p - 1]
  OBVIOUS
<1>8. /\ bmm' = [bmm EXCEPT !.used = bmm.used \ Taken(h), !.info = t]
      /\ s[i].start = p \/ s[i].end = p + n - 1
      /\ mode' = mode /\ late' = IF late > 0 THEN late + 1 ELSE 0
  BY <1>1, <1>2, <1>3, <1>7 DEF FreeAtEnd, Counted, Cleared
<1>9. ASSUME NEW q, q \in Rec, Extent(q) = Extent(s[i]) \ Taken(h), t = [s EXCEPT ![i] = q]
      PROVE  /\ t \in Seq(Rec) /\ Len(t) <= MAX_INFO
             /\ Apart(s) => Fewer(s, t, Taken(h))
  <2>1. t \in Seq(Rec) /\ Len(t) = Len(s)
    BY <1>4, <1>9
  <2>2. ASSUME Apart(s) PROVE Fewer(s, t, Taken(h))
    BY <1>4, <1>9, <2>2, RecordShrinks
  <2> QED BY <1>4, <2>1, <2>2
<1>10. /\ t \in Seq(Rec) /\ Len(t) <= MAX_INFO
       /\ Apart(s) => Fewer(s, t, Taken(h))
  <2>1. CASE Extent(s[i]) = Run(p, n)
    <3>1. t = RemoveAt(s, i) /\ Extent(s[i]) = Taken(h)
      BY <1>1, <1>4, <1>7, <2>1 DEF remove_mminfo
    <3>2. t \in Seq(Rec) /\ Len(t) = Len(s) - 1
      BY <1>4, <3>1, RemoveAtIs
    <3>3. Len(t) <= MAX_INFO
      BY <1>4, <3>2, Sizes
    <3>4. ASSUME Apart(s) PROVE Fewer(s, t, Taken(h))
      <4>1. Fewer(s, t, Extent(s[i]))
        BY <1>4, <3>1, <3>4, RecordDropped
      <4> QED BY <3>1, <4>1
    <3> QED BY <3>2, <3>3, <3>4
  <2>2. CASE Extent(s[i]) # Run(p, n) /\ s[i].start = p
    <3>1. p + n <= s[i].end
      BY <1>1, <1>5, <1>6, <2>2
    <3>2. PICK q : q = [s[i] EXCEPT !.start = p + n]
      OBVIOUS
    <3>3. q.start = p + n /\ q.end = s[i].end /\ q \in Rec
      <4>1. p + n \in Page
        BY <1>1, <1>5, <3>1, Sizes
      <4>2. q \in Record /\ q.start = p + n /\ q.end = s[i].end
        BY <1>5, <3>2, <4>1, EndMoves, Zenon
      <4>3. q.start <= q.end
        BY <1>1, <1>5, <3>1, <4>2
      <4> QED BY <4>2, <4>3 DEF Rec
    <3>4. Extent(q) = Extent(s[i]) \ Taken(h)
      BY <1>1, <1>5, <1>6, <2>2, <3>3 DEF Extent
    <3>5. t = [s EXCEPT ![i] = q]
      BY <1>7, <2>2, <3>2
    <3> QED BY <1>9, <3>3, <3>4, <3>5
  <2>3. CASE Extent(s[i]) # Run(p, n) /\ s[i].start # p
    <3>1. s[i].start <= p - 1 /\ s[i].end = p + n - 1 /\ p - 1 \in Nat
      BY <1>1, <1>5, <1>6, <1>8, <2>3
    <3>2. PICK q : q = [s[i] EXCEPT !.end = p - 1]
      OBVIOUS
    <3>3. q.start = s[i].start /\ q.end = p - 1 /\ q \in Rec
      <4>1. p - 1 \in Page
        BY <1>1, <1>5, <3>1, Sizes
      <4>2. q \in Record /\ q.start = s[i].start /\ q.end = p - 1
        BY <1>5, <3>2, <4>1, EndMoves, Zenon
      <4>3. q.start <= q.end
        BY <1>1, <1>5, <3>1, <4>2
      <4> QED BY <4>2, <4>3 DEF Rec
    <3>4. Extent(q) = Extent(s[i]) \ Taken(h)
      BY <1>1, <1>5, <1>6, <3>1, <3>3 DEF Extent
    <3>5. t = [s EXCEPT ![i] = q]
      BY <1>7, <2>3, <3>2
    <3> QED BY <1>9, <3>3, <3>4, <3>5
  <2> QED BY <2>1, <2>2, <2>3
<1>11. bmm' \in Maps /\ bmm'.used = bmm.used \ Taken(h) /\ bmm'.info = t
  BY <1>4, <1>8, <1>10 DEF Maps
<1>12. Sane(bmm') /\ Owners(held \ {h}, bmm'.used)
  <2>1. PICK b : b = bmm'
    OBVIOUS
  <2>2. b \in Maps /\ Len(b.info) <= MAX_INFO /\ b.used = bmm.used \ Taken(h)
    BY <1>10, <1>11, <2>1
  <2>3. Sane(b) /\ Owners(held \ {h}, b.used)
    BY <2>2, GivenBack
  <2> QED BY <2>1, <2>3
<1>13. late \in Nat /\ late' \in Nat /\ mode' = "running"
  BY <1>8 DEF BootInv
<1>14. ASSUME late' = 0 PROVE Agree'
  <2>1. late = 0 /\ Agree
    BY <1>8, <1>13, <1>14 DEF BootInv
  <2>2. Fewer(s, t, Taken(h))
    BY <1>3, <1>10, <2>1 DEF Agree
  <2>3. \A g \in held : g # h => Within(Taken(g), t)
    BY <1>3, <2>1, <2>2, HeldIs DEF Agree, Fewer
  <2>4. Apart(bmm'.info) /\ Recorded(bmm'.info) = Recorded(bmm.info) \ Taken(h)
    BY <1>3, <1>11, <2>2 DEF Fewer
  <2> QED BY <1>11, <2>1, <2>3, <2>4, StillAgree
<1> QED BY <1>12, <1>13, <1>14 DEF BootInv, HeldApart

(* Removing a record, or finding there is none.                            *)
LEMMA RemoveTyped ==
  ASSUME NEW s \in Seq(Rec), Len(s) <= MAX_INFO, NEW i
  PROVE  remove_mminfo(s, i) \in Seq(Rec) /\ Len(remove_mminfo(s, i)) <= MAX_INFO
<1>1. CASE i \in DOMAIN s
  <2>1. i \in 1..Len(s) /\ remove_mminfo(s, i) = RemoveAt(s, i)
    BY <1>1 DEF remove_mminfo
  <2>2. RemoveAt(s, i) \in Seq(Rec) /\ Len(RemoveAt(s, i)) = Len(s) - 1
    BY <2>1, RemoveAtIs
  <2>3. Len(RemoveAt(s, i)) <= MAX_INFO
    <3>1. Len(s) \in Nat /\ Len(RemoveAt(s, i)) = Len(s) - 1
      <4>1. Len(s) \in Nat
        OBVIOUS
      <4> QED BY <2>2, <4>1
    <3> QED BY <3>1, Sizes
  <2> QED BY <2>1, <2>2, <2>3
<1>2. CASE i \notin DOMAIN s
  BY <1>2 DEF remove_mminfo
<1> QED BY <1>1, <1>2

(* Without the room for both splits a record counts as refused.            *)
LEMMA FreeInsideKeeps ==
  ASSUME BootInv, mode = "running", NEW h \in held, held' = held \ {h}, FreeInside(h[1], h[2])
  PROVE  BootInv'
<1>1. PICK p, n : p = h[1] /\ n = h[2] /\ Run(p, n) = Taken(h) /\ p \in Nat /\ n \in Nat \ {0}
                  /\ Taken(h) = p..p+n-1
  BY HeldIs
<1>2. PICK i : i = Min(Covering(p, n))
  OBVIOUS
<1>3. PICK s : s = bmm.info
  OBVIOUS
<1>4. /\ s \in Seq(Rec) /\ Len(s) <= MAX_INFO /\ bmm \in Maps /\ DOMAIN s = 1..Len(s)
      /\ i \in 1..Len(s) /\ Taken(h) \subseteq Extent(s[i]) /\ s[i] \in Rec
  <2>1. bmm \in Maps /\ s \in Seq(Rec) /\ Len(s) <= MAX_INFO
    BY <1>3 DEF BootInv, Sane, Maps
  <2>2. i \in 1..Len(s) /\ Taken(h) \subseteq Extent(s[i])
    BY <1>1, <1>2, <1>3, CoveringIs DEF FreeInside
  <2> QED BY <2>1, <2>2
<1>5. /\ s[i].start \in Nat /\ s[i].end \in Nat /\ Extent(s[i]) = s[i].start..s[i].end
  BY <1>4, Sizes DEF Rec, Record, Extent
<1>6. s[i].start <= p /\ p + n - 1 <= s[i].end
  <2>1. p \in Taken(h) /\ p + n - 1 \in Taken(h)
    BY <1>1
  <2> QED BY <1>1, <1>4, <1>5, <2>1
<1>7. PICK once : once = split_mminfo(s, i, p)
  OBVIOUS
<1>8. PICK twice : twice = IF i + 1 \in DOMAIN once THEN split_mminfo(once, i + 1, p + n) ELSE once
  OBVIOUS
<1>9. PICK t : t = remove_mminfo(twice, i + 1)
  OBVIOUS
<1>10. /\ bmm' = [bmm EXCEPT !.used = bmm.used \ Taken(h), !.info = t]
       /\ s[i].start # p /\ s[i].end # p + n - 1 /\ mode' = mode
       /\ late' = IF Len(s) + 2 > MAX_INFO \/ late > 0 THEN late + 1 ELSE 0
  BY <1>1, <1>2, <1>3, <1>7, <1>8, <1>9 DEF FreeInside, Counted, Cleared
<1>11. once \in Seq(Rec) /\ Len(once) <= MAX_INFO
  BY <1>4, <1>7, SplitTyped
<1>12. twice \in Seq(Rec) /\ Len(twice) <= MAX_INFO
  <2>1. CASE i + 1 \in DOMAIN once
    <3>1. i + 1 \in 1..Len(once)
      BY <1>11, <2>1
    <3> QED BY <1>8, <1>11, <2>1, <3>1, SplitTyped
  <2>2. CASE i + 1 \notin DOMAIN once
    BY <1>8, <1>11, <2>2
  <2> QED BY <2>1, <2>2
<1>13. t \in Seq(Rec) /\ Len(t) <= MAX_INFO
  BY <1>9, <1>12, RemoveTyped
<1>14. bmm' \in Maps /\ bmm'.used = bmm.used \ Taken(h) /\ bmm'.info = t
  BY <1>4, <1>10, <1>13 DEF Maps
<1>15. Sane(bmm') /\ Owners(held \ {h}, bmm'.used)
  <2>1. PICK b : b = bmm'
    OBVIOUS
  <2>2. b \in Maps /\ Len(b.info) <= MAX_INFO /\ b.used = bmm.used \ Taken(h)
    BY <1>13, <1>14, <2>1
  <2>3. Sane(b) /\ Owners(held \ {h}, b.used)
    BY <2>2, GivenBack
  <2> QED BY <2>1, <2>3
<1>16. late \in Nat /\ late' \in Nat /\ mode' = "running"
  BY <1>10 DEF BootInv
<1>17. ASSUME late' = 0 PROVE Agree'
  <2>1. late = 0 /\ Agree /\ ~(Len(s) + 2 > MAX_INFO)
    BY <1>10, <1>16, <1>17 DEF BootInv
  <2>2. Len(s) + 2 <= MAX_INFO /\ Len(s) < MAX_INFO /\ Len(s) + 1 < MAX_INFO
    <3>1. Len(s) \in Nat
      BY <1>4
    <3> QED BY <2>1, <3>1, Sizes
  <2>3. s[i].start < p /\ p + n - 1 < s[i].end
    <3>1. s[i].start # p /\ s[i].end # p + n - 1
      BY <1>10
    <3>2. p \in Nat /\ n \in Nat
      BY <1>1
    <3> QED BY <1>5, <1>6, <3>1, <3>2
  <2>4. Splits(s, i, p)
    <3>1. p \in Nat /\ s[i].start \in Nat /\ s[i].end \in Nat /\ n \in Nat \ {0}
      BY <1>1, <1>5
    <3>2. p \in s[i].start + 1 .. s[i].end
      BY <2>3, <3>1
    <3> QED BY <2>2, <3>2 DEF Splits
  <2>5. Len(once) = Len(s) + 1 /\ i + 1 \in DOMAIN once /\ i + 1 \in 1..Len(once)
    <3>1. RecSeq(split_mminfo(s, i, p), Len(s) + 1)
      BY <1>4, <2>4, SplitGrows
    <3> QED BY <1>4, <1>7, <3>1 DEF RecSeq
  <2>6. twice = split_mminfo(split_mminfo(s, i, p), i + 1, p + n)
    BY <1>7, <1>8, <2>5
  <2>7. i + 1 \in DOMAIN twice
    <3>1. CASE Splits(once, i + 1, p + n)
      <4>1. RecSeq(split_mminfo(once, i + 1, p + n), Len(once) + 1)
        BY <1>11, <2>5, <3>1, SplitGrows
      <4>2. Len(twice) = Len(once) + 1
        BY <1>7, <2>6, <4>1 DEF RecSeq
      <4> QED BY <1>11, <1>12, <2>5, <4>2
    <3>2. CASE ~Splits(once, i + 1, p + n)
      BY <1>7, <2>5, <2>6, <3>2 DEF split_mminfo
    <3> QED BY <3>1, <3>2
  <2>8. t = RemoveAt(split_mminfo(split_mminfo(s, i, p), i + 1, p + n), i + 1)
    BY <1>9, <2>6, <2>7 DEF remove_mminfo
  <2>9. Apart(s)
    BY <1>3, <2>1 DEF Agree
  <2>10. CutFrom(s, t, p, n)
    BY <1>1, <1>4, <2>2, <2>3, <2>8, <2>9, CutOut
  <2>11. \A g \in held : g # h => Within(Taken(g), t)
    <3> SUFFICES ASSUME NEW g \in held, g # h PROVE Within(Taken(g), t)
      OBVIOUS
    <3>1. PICK k \in Nat, m \in Nat : k = g[1] /\ m = g[2] /\ Taken(g) = Run(k, m)
      BY HeldIs
    <3>2. Taken(g) # {} /\ Taken(g) \intersect Run(p, n) = {}
      BY <1>1, HeldIs
    <3>3. Within(Run(k, m), s)
      BY <1>3, <2>1, <3>1 DEF Agree
    <3> QED BY <2>10, <3>1, <3>2, <3>3 DEF CutFrom
  <2>12. Apart(bmm'.info) /\ Recorded(bmm'.info) = Recorded(bmm.info) \ Taken(h)
    BY <1>1, <1>3, <1>14, <2>10 DEF CutFrom
  <2> QED BY <1>14, <2>1, <2>11, <2>12, StillAgree
<1> QED BY <1>15, <1>16, <1>17 DEF BootInv, HeldApart

(* In the first record the call is lost, or removes the second one.        *)
LEMMA FreeInsideFirstKeeps ==
  ASSUME BootInv, mode = "running", NEW h \in held, held' = held \ {h},
         FreeInsideFirst(h[1], h[2])
  PROVE  BootInv'
<1>1. bmm \in Maps /\ bmm.info \in Seq(Rec) /\ Len(bmm.info) <= MAX_INFO /\ late \in Nat
  BY DEF BootInv, Sane, Maps
<1>2. CASE Splits(bmm.info, 1, h[1])
  <2>1. bmm' = bmm /\ mode' = "lost" /\ late' \in Nat
    BY <1>1, <1>2 DEF FreeInsideFirst, Counted
  <2>2. Sane(bmm) /\ Owners(held \ {h}, bmm.used)
    BY <1>1, GivenBack
  <2> QED BY <2>1, <2>2 DEF BootInv, HeldApart
<1>3. CASE ~Splits(bmm.info, 1, h[1])
  <2>1. PICK t : t = remove_mminfo(bmm.info, 2)
    OBVIOUS
  <2>2. t \in Seq(Rec) /\ Len(t) <= MAX_INFO
    BY <1>1, <2>1, RemoveTyped
  <2>3. /\ bmm' = [bmm EXCEPT !.used = bmm.used \ Taken(h), !.info = t]
        /\ mode' = mode /\ late' = late + 1
    BY <1>3, <2>1, HeldIs DEF FreeInsideFirst, Counted, Cleared
  <2>4. PICK b : b = bmm'
    OBVIOUS
  <2>5. b \in Maps /\ b.info = t /\ b.used = bmm.used \ Taken(h)
    BY <1>1, <2>2, <2>3, <2>4 DEF Maps
  <2>6. Sane(b) /\ Owners(held \ {h}, b.used)
    BY <2>2, <2>5, GivenBack
  <2>7. late' \in Nat /\ late' # 0
    BY <1>1, <2>3
  <2> QED BY <2>3, <2>4, <2>6, <2>7 DEF BootInv, HeldApart
<1> QED BY <1>2, <1>3

-----------------------------------------------------------------------------
(***************************************************************************)
(* Every step, and what it comes to.                                       *)
(***************************************************************************)
LEMMA FreeKeeps ==
  ASSUME BootInv, NEW h \in held, bootmm_free_pages(h[1], h[2])
  PROVE  BootInv' /\ held' = held \ {h}
<1>1. mode = "running" /\ held' = held \ {h}
  BY HeldIs DEF bootmm_free_pages
<1> QED BY <1>1, FreeUnknownKeeps, FreeAtEndKeeps, FreeInsideKeeps, FreeInsideFirstKeeps
        DEF bootmm_free_pages

(* Each of the calls, and none.                                            *)
LEMMA NextKeeps == BootInv /\ [Next]_vars => BootInv'
<1> SUFFICES ASSUME BootInv, [Next]_vars PROVE BootInv'
  OBVIOUS
<1>1. CASE UNCHANGED vars
  <2>1. bmm' = bmm /\ held' = held /\ late' = late /\ mode' = mode
    BY <1>1 DEF vars
  <2> QED BY <2>1 DEF BootInv, HeldApart, Agree
<1>2. CASE Next
  <2>1. CASE \E n \in Counts, t \in Type, a \in Aligns : bootmm_alloc_pages(n, t, a)
    BY <2>1, AllocKeeps
  <2>2. CASE \E h \in held : bootmm_free_pages(h[1], h[2])
    BY <2>2, FreeKeeps
  <2> QED BY <1>2, <2>1, <2>2 DEF Next
<1> QED BY <1>1, <1>2

(* The invariant holds for every size of the memory and of the records,    *)
(* whatever is asked for, aligned in any way, and given back in any order. *)
THEOREM BootInductive == Spec => []BootInv
BY InitBoot, NextKeeps, PTL DEF Spec

-----------------------------------------------------------------------------
(* The records as the property names them.                                 *)
LEMMA InvRecords == BootInv => RecordsMatchMap
<1> SUFFICES ASSUME BootInv, mode = "running", late = 0
             PROVE  /\ bmm.info \in Seq(Record) /\ Len(bmm.info) <= MAX_INFO
                    /\ \A i, j \in DOMAIN bmm.info :
                         i # j => Extent(bmm.info[i]) \intersect Extent(bmm.info[j]) = {}
                    /\ UNION {Extent(bmm.info[i]) : i \in DOMAIN bmm.info} = bmm.used
                    /\ bmm.used = Run(0, KernelPn) \union UNION {Run(h[1], h[2]) : h \in held}
  BY DEF RecordsMatchMap
<1>1. Agree /\ bmm.info \in Seq(Rec) /\ Len(bmm.info) <= MAX_INFO
  BY DEF BootInv, Sane, Maps
<1>2. bmm.info \in Seq(Record)
  <2>1. PICK S, R : S = Rec /\ R = Record
    OBVIOUS
  <2>2. S \subseteq R
    BY <2>1 DEF Rec
  <2>3. bmm.info \in Seq(S)
    BY <1>1, <2>1
  <2>4. bmm.info \in Seq(R)
    BY <2>2, <2>3
  <2> QED BY <2>1, <2>4
<1>3. UNION {Taken(h) : h \in held} = UNION {Run(h[1], h[2]) : h \in held}
  BY DEF Taken
<1> QED BY <1>1, <1>2, <1>3 DEF Agree, Apart, Recorded

(* bootmm.h:22: as long as no record was refused for want of room, the     *)
(* records are disjoint, and they, the map and what the callers hold with  *)
(* the kernel's pages say the same, through extensions, bridges, splits    *)
(* and removals.                                                           *)
THEOREM RecordsAgree == Spec => []RecordsMatchMap
BY BootInductive, InvRecords, PTL

-----------------------------------------------------------------------------
(* With room for a record, a search answers 0 only when it found nothing.  *)
LEMMA SearchRefuses ==
  ASSUME NEW b, Sane(b), Len(b.info) < MAX_INFO, NEW n \in Counts, NEW t \in Type,
         NEW s \in 0..MaxPn, NEW e \in 0..MaxPn, Search(b, n, t, s, e, 1).page = 0
  PROVE  find_pages(b, n, s, e, 1) = 0 /\ Search(b, n, t, s, e, 1).bmm = b
<1>1. PICK p : p = find_pages(b, n, s, e, 1)
  OBVIOUS
<1>2. PICK x : x = Search(b, n, t, s, e, 1)
  OBVIOUS
<1>3. Insertable(b.info, Segment(p, n, t))
  BY DEF Insertable
<1>4. CASE p = 0
  BY <1>1, <1>2, <1>4 DEF Search
<1>5. CASE p # 0
  <2>1. x.page = p
    BY <1>1, <1>2, <1>3, <1>5 DEF Search
  <2> QED BY <1>2, <1>5, <2>1
<1> QED BY <1>4, <1>5

(* A free run is behind last_alloc, before it or around it.                *)
LEMMA InvRefuses == BootInv => RefusesOnlyAround
<1> SUFFICES ASSUME BootInv, mode = "running", Len(bmm.info) < MAX_INFO,
                    NEW n \in Counts, NEW t \in Type, Answer(bmm, n, t, 1).page = 0,
                    NEW p \in 1..MaxPn-n, Run(p, n) \intersect bmm.used = {}
             PROVE  bmm.last_alloc \in Run(p, n)
  BY DEF RefusesOnlyAround
<1>1. Sane(bmm) /\ bmm.used \subseteq Page /\ bmm.last_alloc \in Page
  BY DEF BootInv, Sane, Maps
<1>2. PICK last \in Nat : last = bmm.last_alloc /\ last + 1 <= MaxPn
  BY <1>1, Sizes
<1>3. 0 \in bmm.used
  BY <1>1, Sizes DEF Sane, Run
<1>4. n \in Nat \ {0} /\ p \in Nat /\ p >= 1 /\ p + n <= MaxPn /\ MaxPn \in Nat
  BY Sizes
<1>5. PICK y : y = Search(bmm, n, t, last + 1, MaxPn, 1)
  OBVIOUS
<1>6. y.page = 0
  BY <1>2, <1>5 DEF Answer
<1>7. find_pages(bmm, n, last + 1, MaxPn, 1) = 0 /\ y.bmm = bmm
  BY <1>1, <1>2, <1>4, <1>5, <1>6, SearchRefuses
<1>8. Search(bmm, n, t, 0, last, 1).page = 0
  BY <1>2, <1>5, <1>6, <1>7 DEF Answer
<1>9. find_pages(bmm, n, 0, last, 1) = 0
  BY <1>1, <1>2, <1>4, <1>8, SearchRefuses
<1>10. ~(last + 1 <= p)
  <2> SUFFICES ASSUME last + 1 <= p PROVE FALSE
    OBVIOUS
  <2>1. PICK s \in 0..MaxPn : s = last + 1
    BY <1>2, <1>4
  <2>2. PICK e \in 0..MaxPn : e = MaxPn
    BY <1>4
  <2>3. Run(p, n) \intersect bmm.used # {}
    BY <1>1, <1>3, <1>4, <1>7, <2>1, <2>2, FindsAny
  <2> QED BY <2>3
<1>11. ~(p + n <= last)
  <2> SUFFICES ASSUME p + n <= last PROVE FALSE
    OBVIOUS
  <2>1. PICK s \in 0..MaxPn : s = 0
    BY <1>4
  <2>2. PICK e \in 0..MaxPn : e = last
    BY <1>2, <1>4
  <2>3. Run(p, n) \intersect bmm.used # {}
    BY <1>1, <1>3, <1>4, <1>9, <2>1, <2>2, FindsAny
  <2> QED BY <2>3
<1> QED BY <1>2, <1>4, <1>10, <1>11 DEF Run

(* bootmm_alloc_pages (bootmm.c:253-270): with room for a record, and no   *)
(* alignment asked for, its two searches miss only the free runs that have *)
(* the page last_alloc in them.                                            *)
THEOREM RefusedOnlyAround == Spec => []RefusesOnlyAround
BY BootInductive, InvRefuses, PTL

-----------------------------------------------------------------------------
(***************************************************************************)
(* The page allocator that the callers see.  A run handed out is a block   *)
(* of the abstract allocator; blocks of different callers have no page in  *)
(* common and none is empty, so they are as many as the callers' runs.     *)
(***************************************************************************)
Blocks == {Taken(h) : h \in held}

(* The abstract allocator's variable.                                      *)
LEMMA BlocksAre == Blocks = {Run(h[1], h[2]) : h \in held}
BY DEF Blocks, Taken

(* At first nothing is handed out.                                         *)
LEMMA AllocatorInit == Init => Allocator!Init
BY DEF Init, Allocator!Init

(* A refused call, whatever it marked, is no step of the allocator.        *)
LEMMA AllocIsAlloc ==
  ASSUME BootInv, NEW n \in Counts, NEW t \in Type, NEW a \in Aligns, bootmm_alloc_pages(n, t, a)
  PROVE  Blocks' = Blocks \/ \E p \in KernelPn..MaxPn-1 : Allocator!Alloc(p, n)
<1>1. PICK x : x = Answer(bmm, n, t, a)
  OBVIOUS
<1>2. Answers(bmm, x, n, t) /\ Owners(held, bmm.used)
  BY <1>1, AnswerFinds DEF BootInv, HeldApart
<1>3. CASE x.page = 0
  <2>1. held' = held
    BY <1>1, <1>3 DEF bootmm_alloc_pages
  <2> QED BY <2>1 DEF Blocks
<1>4. CASE x.page # 0
  <2>1. PICK p : p = x.page
    OBVIOUS
  <2>2. PICK z : z = <<p, n>>
    OBVIOUS
  <2>3. held' = held \union {z}
    BY <1>1, <1>4, <2>1, <2>2 DEF bootmm_alloc_pages
  <2>4. p \in KernelPn..MaxPn-1 /\ p + n <= MaxPn /\ Run(p, n) \intersect bmm.used = {}
    BY <1>2, <1>4, <2>1 DEF Answers, Finds, Marks
  <2>5. Taken(z) = Run(p, n) /\ Allocator!Run(p, n) = Run(p, n)
    BY <2>2, PairIs DEF Run, Allocator!Run
  <2>6. Run(p, n) \subseteq KernelPn..MaxPn-1
    BY <2>4, Sizes DEF Run
  <2>7. \A h \in held : Taken(h) \intersect Run(p, n) = {}
    BY <1>2, <2>4 DEF Owners
  <2>8. Blocks' = Blocks \union {Run(p, n)}
    BY <2>3, <2>5 DEF Blocks
  <2>9. \A b \in Blocks : b \intersect Run(p, n) = {}
    BY <2>7 DEF Blocks
  <2>10. Blocks' = {Run(h[1], h[2]) : h \in held'}
    BY DEF Blocks, Taken
  <2>11. Allocator!Alloc(p, n)
    BY <2>5, <2>6, <2>8, <2>9, <2>10, BlocksAre DEF Allocator!Alloc
  <2> QED BY <2>4, <2>11
<1> QED BY <1>3, <1>4

(* Another caller's block is another block.                                *)
LEMMA FreeIsFree ==
  ASSUME BootInv, NEW h \in held, bootmm_free_pages(h[1], h[2])
  PROVE  Allocator!Free(Taken(h)) /\ Taken(h) \in Blocks
<1>1. held' = held \ {h}
  BY FreeKeeps
<1>2. \A g \in held : g # h => Taken(g) # Taken(h)
  <2>1. \A g \in held : Taken(g) # {} /\ (g # h => Taken(g) \intersect Taken(h) = {})
    BY HeldIs
  <2> QED BY <2>1
<1>3. Blocks' = Blocks \ {Taken(h)}
  BY <1>1, <1>2 DEF Blocks
<1>4. Blocks' = {Run(g[1], g[2]) : g \in held'}
  BY DEF Blocks, Taken
<1>5. Allocator!Free(Taken(h))
  BY <1>3, <1>4, BlocksAre DEF Allocator!Free
<1> QED BY <1>5 DEF Blocks

(* Each of the calls is a step of the allocator, or none.                  *)
LEMMA StepIsAllocators ==
  BootInv /\ [Next]_vars => [Allocator!Next]_{Run(h[1], h[2]) : h \in held}
<1> SUFFICES ASSUME BootInv, [Next]_vars
             PROVE  Allocator!Next \/ Blocks' = Blocks
  BY BlocksAre DEF Blocks, Taken
<1>1. CASE UNCHANGED vars
  BY <1>1 DEF vars, Blocks
<1>2. CASE \E n \in Counts, t \in Type, a \in Aligns : bootmm_alloc_pages(n, t, a)
  BY <1>2, AllocIsAlloc DEF Allocator!Next
<1>3. CASE \E h \in held : bootmm_free_pages(h[1], h[2])
  BY <1>3, FreeIsFree, BlocksAre DEF Allocator!Next
<1> QED BY <1>1, <1>2, <1>3 DEF Next

(* Whatever becomes of the records, the boot allocator is a page allocator *)
(* to its callers: what it hands out is a run above the kernel that nobody *)
(* else has, and it stays the caller's until the caller gives it back.     *)
THEOREM RefinesPageAllocator == Spec => ImplementsAllocator
<1>1. Init => Allocator!Init
  BY AllocatorInit
<1>2. BootInv /\ [Next]_vars => [Allocator!Next]_{Run(h[1], h[2]) : h \in held}
  BY StepIsAllocators
<1> QED BY <1>1, <1>2, BootInductive, PTL DEF Spec, ImplementsAllocator, Allocator!Spec
=============================================================================
