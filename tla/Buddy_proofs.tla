---------------------------- MODULE Buddy_proofs -----------------------------
(***************************************************************************)
(* The buddy allocator for every number of pages and every highest level,  *)
(* as long as no process forks inside a call of the Shell.                 *)
(***************************************************************************)
EXTENDS Buddy, NatLemmas, FiniteSetTheorems, SequenceTheorems

-----------------------------------------------------------------------------
(* The pages are counted from 0.                                           *)
LEMMA MemorySize == NPAGE \in Nat /\ MAX_BUDDY_ORDER \in Nat /\ Page \subseteq Nat
<1>1. MAX_BUDDY_ORDER \in Nat /\ NBLOCK \in Nat
  BY BlockAssumption
<1>2. Size(MAX_BUDDY_ORDER) \in Nat
  BY <1>1, SizePositive
<1>3. NPAGE \in Nat
  BY <1>1, <1>2 DEF NPAGE
<1> QED BY <1>1, <1>3 DEF Page

(* A block that begins in the memory lies in the memory.                   *)
LEMMA BlockInMemory ==
  ASSUME NEW p \in Page, NEW l \in Order, Aligned(p, l)
  PROVE  p \in Nat /\ l \in Nat /\ PagesOf(<<p, l>>) \subseteq Page
BY BlockWithin, BlockAssumption, Zenon DEF Page, NPAGE, Order

(* So does its buddy, below the highest level.                             *)
LEMMA BuddyInMemory ==
  ASSUME NEW p \in Page, NEW l \in Order, Aligned(p, l), l < MAX_BUDDY_ORDER
  PROVE  /\ BuddyOf(p, l) \in Page /\ l + 1 \in Order
         /\ Lower(p, BuddyOf(p, l)) \in Page
<1>1. l + 1 \in Order
  BY MemorySize DEF Order
<1> QED BY <1>1, BuddyWithin, BlockAssumption, Zenon DEF Page, NPAGE, Order

-----------------------------------------------------------------------------
(* Every page handed over at boot belongs to one of these blocks.          *)
Whole == Listed \union held \union InTransit

Disjoint(B) == \A b, c \in B : b # c => PagesOf(b) \intersect PagesOf(c) = {}

Pages(B) == UNION {PagesOf(b) : b \in B}

(***************************************************************************)
(* What __free_pages and __alloc_pages rely on without checking it: the    *)
(* blocks tile the memory, each begins where its level says, and bplevel   *)
(* and flag tell of the first page of a block whether it is on a list.     *)
(* The level of a page that heads no block may be stale: the upper half of *)
(* a merged pair keeps it, and only the tiling shows that nobody reads it. *)
(***************************************************************************)
Placed == \A b \in Whole : Aligned(b[1], b[2])

ListedMarked == \A b \in Listed : bplevel[b[1]] = b[2] /\ flag[b[1]] = 0

HeldMarked == \A b \in held : bplevel[b[1]] = b[2] /\ flag[b[1]] = 1

OnlyHeldFlagged == \A p \in Page : flag[p] = 1 => \E b \in held : b[1] = p

Unbooted == \A p \in Page : p >= booted => bplevel[p] = -1

NoRepeats ==
  \A l \in Order : \A i, j \in 1..Len(freelist[l]) :
    freelist[l][i] = freelist[l][j] => i = j

Counted == \A l \in Order : count[l] = Len(freelist[l])

(* Where a call of the Shell stands.                                       *)
AtCall ==
  /\ InTransit \intersect (Listed \union held) = {}
  /\ call.pc \in {"look", "join", "insert"} => flag[call.page] = 0
  /\ call.pc = "join" =>
       /\ call.level < MAX_BUDDY_ORDER
       /\ <<BuddyOf(call.page, call.level), call.level>> \in Listed
  /\ call.pc = "insert" /\ call.level < MAX_BUDDY_ORDER =>
       <<BuddyOf(call.page, call.level), call.level>> \notin Listed
  /\ call.pc = "take" => /\ <<call.page, call.level>> \in Listed
                         /\ call.want <= call.level

BuddyInv ==
  /\ TypeOK
  /\ Disjoint(Whole) /\ Pages(Whole) = 0..booted-1
  /\ Placed /\ ListedMarked /\ HeldMarked /\ OnlyHeldFlagged /\ Unbooted
  /\ NoRepeats /\ Counted
  /\ Coalesced
  /\ AtCall

-----------------------------------------------------------------------------
(* What taking a page off a list leaves, and what putting one at its head  *)
(* makes, for a list on which a page occurs once.                          *)
OnceOnly(s) == \A i, j \in 1..Len(s) : s[i] = s[j] => i = j

On(s) == {s[i] : i \in 1..Len(s)}

LEMMA WithoutPage ==
  ASSUME NEW S, NEW s \in Seq(S), OnceOnly(s), NEW p
  PROVE  /\ Without(s, p) \in Seq(S)
         /\ On(Without(s, p)) = On(s) \ {p}
         /\ OnceOnly(Without(s, p))
         /\ Len(Without(s, p)) = IF p \in On(s) THEN Len(s) - 1 ELSE Len(s)
<1> DEFINE at == {i \in 1..Len(s) : s[i] = p}
           k == CHOOSE i \in at : TRUE
           t == SubSeq(s, 1, k - 1) \o SubSeq(s, k + 1, Len(s))
<1>1. CASE at = {}
  <2>1. Without(s, p) = s
    BY <1>1 DEF Without
  <2>2. p \notin On(s)
    BY <1>1 DEF On
  <2> QED BY <2>1, <2>2
<1>2. CASE at # {}
  <2>1. Without(s, p) = t
    BY <1>2, Zenon DEF Without
  <2>2. k \in 1..Len(s) /\ s[k] = p
    BY <1>2
  <2> HIDE DEF k, at
  <2>3. Len(s) \in Nat /\ k - 1 \in 0..Len(s)
    BY <2>2
  <2>4. /\ SubSeq(s, 1, k - 1) \in Seq(S) /\ Len(SubSeq(s, 1, k - 1)) = k - 1
        /\ \A i \in 1..k-1 : SubSeq(s, 1, k - 1)[i] = s[i]
    BY <2>2, <2>3, SubSeqProperties
  <2>5. /\ SubSeq(s, k + 1, Len(s)) \in Seq(S) /\ Len(SubSeq(s, k + 1, Len(s))) = Len(s) - k
        /\ \A i \in 1..Len(s)-k : SubSeq(s, k + 1, Len(s))[i] = s[k + i]
    BY <2>2, <2>3, SubSeqProperties
  <2>6. /\ t \in Seq(S) /\ Len(t) = Len(s) - 1
        /\ \A i \in 1..Len(s)-1 : t[i] = IF i < k THEN s[i] ELSE s[i + 1]
    <3> DEFINE u == SubSeq(s, 1, k - 1)
               v == SubSeq(s, k + 1, Len(s))
    <3>1. /\ u \in Seq(S) /\ Len(u) = k - 1 /\ \A i \in 1..k-1 : u[i] = s[i]
          /\ v \in Seq(S) /\ Len(v) = Len(s) - k /\ \A i \in 1..Len(s)-k : v[i] = s[k + i]
      BY <2>4, <2>5
    <3> HIDE DEF u, v
    <3>2. /\ u \o v \in Seq(S) /\ Len(u \o v) = Len(u) + Len(v)
          /\ \A i \in 1..Len(u) + Len(v) :
               (u \o v)[i] = IF i <= Len(u) THEN u[i] ELSE v[i - Len(u)]
      BY <3>1, ConcatProperties
    <3>3. u \o v \in Seq(S) /\ Len(u \o v) = Len(s) - 1
      BY <2>2, <2>3, <3>1, <3>2
    <3>4. ASSUME NEW i \in 1..Len(s)-1
          PROVE  (u \o v)[i] = IF i < k THEN s[i] ELSE s[i + 1]
      <4>1. CASE i < k
        BY <4>1, <2>2, <2>3, <3>1, <3>2
      <4>2. CASE ~ (i < k)
        <5>1. i - (k - 1) \in 1..Len(s)-k /\ k + (i - (k - 1)) = i + 1
          BY <4>2, <2>2, <2>3
        <5>2. (u \o v)[i] = v[i - Len(u)]
          <6>1. Len(u) = k - 1 /\ Len(v) = Len(s) - k
            BY <3>1
          <6>2. i \in 1..Len(u) + Len(v) /\ ~ (i <= Len(u))
            BY <4>2, <6>1, <2>2, <2>3
          <6> QED BY <6>2, <3>2
        <5>3. v[i - (k - 1)] = s[k + (i - (k - 1))]
          BY <5>1, <3>1
        <5> QED BY <4>2, <5>1, <5>2, <5>3, <3>1
      <4> QED BY <4>1, <4>2
    <3> QED BY <3>3, <3>4 DEF u, v
  <2> HIDE DEF t
  <2>7. On(t) = On(s) \ {p}
    <3>1. ASSUME NEW q \in On(t)
          PROVE  q \in On(s) \ {p}
      <4>1. PICK i \in 1..Len(s)-1 : q = t[i]
        BY <2>6 DEF On
      <4>2. CASE i < k
        BY <4>1, <4>2, <2>2, <2>3, <2>6 DEF On, OnceOnly
      <4>3. CASE ~ (i < k)
        BY <4>1, <4>3, <2>2, <2>3, <2>6 DEF On, OnceOnly
      <4> QED BY <4>2, <4>3
    <3>2. ASSUME NEW q \in On(s) \ {p}
          PROVE  q \in On(t)
      <4>1. PICK i \in 1..Len(s) : q = s[i]
        BY DEF On
      <4>2. i # k
        BY <4>1, <2>2
      <4>3. CASE i < k
        <5>1. i \in 1..Len(t) /\ t[i] = q
          BY <4>1, <4>3, <2>2, <2>3, <2>6
        <5> QED BY <5>1 DEF On
      <4>4. CASE i > k
        <5>1. i - 1 \in 1..Len(t) /\ t[i - 1] = q
          BY <4>1, <4>4, <2>2, <2>3, <2>6
        <5> QED BY <5>1 DEF On
      <4> QED BY <4>2, <4>3, <4>4, <2>2
    <3> QED BY <3>1, <3>2
  <2>8. OnceOnly(t)
    <3> SUFFICES ASSUME NEW i \in 1..Len(t), NEW j \in 1..Len(t), t[i] = t[j]
                 PROVE  i = j
      BY DEF OnceOnly
    <3> DEFINE from(n) == IF n < k THEN n ELSE n + 1
    <3>1. from(i) \in 1..Len(s) /\ from(j) \in 1..Len(s)
      BY <2>2, <2>3, <2>6
    <3>2. s[from(i)] = s[from(j)]
      BY <2>6
    <3>3. from(i) = from(j)
      BY <3>1, <3>2 DEF OnceOnly
    <3> QED BY <3>3, <2>2
  <2>9. p \in On(s)
    BY <2>2 DEF On
  <2> QED BY <2>1, <2>6, <2>7, <2>8, <2>9
<1> QED BY <1>1, <1>2

LEMMA WithPage ==
  ASSUME NEW S, NEW s \in Seq(S), OnceOnly(s), NEW p \in S, p \notin On(s)
  PROVE  /\ <<p>> \o s \in Seq(S)
         /\ On(<<p>> \o s) = On(s) \union {p}
         /\ OnceOnly(<<p>> \o s)
         /\ Len(<<p>> \o s) = Len(s) + 1
<1> DEFINE t == <<p>> \o s
<1>1. /\ t \in Seq(S) /\ Len(t) = Len(s) + 1 /\ Len(s) \in Nat
      /\ t[1] = p /\ \A i \in 2..Len(t) : t[i] = s[i - 1]
  OBVIOUS
<1> HIDE DEF t
<1>2. On(t) = On(s) \union {p}
  <2>1. ASSUME NEW q \in On(t)
        PROVE  q \in On(s) \union {p}
    <3>1. PICK i \in 1..Len(t) : q = t[i]
      BY DEF On
    <3>2. CASE i = 1
      BY <3>1, <3>2, <1>1
    <3>3. CASE i # 1
      <4>1. i - 1 \in 1..Len(s) /\ q = s[i - 1]
        BY <3>1, <3>3, <1>1
      <4> QED BY <4>1 DEF On
    <3> QED BY <3>2, <3>3
  <2>2. ASSUME NEW q \in On(s)
        PROVE  q \in On(t)
    <3>1. PICK i \in 1..Len(s) : q = s[i]
      BY DEF On
    <3>2. i + 1 \in 1..Len(t) /\ q = t[i + 1]
      BY <3>1, <1>1
    <3> QED BY <3>2 DEF On
  <2>3. p \in On(t)
    BY <1>1 DEF On
  <2> QED BY <2>1, <2>2, <2>3
<1>3. OnceOnly(t)
  <2> SUFFICES ASSUME NEW i \in 1..Len(t), NEW j \in 1..Len(t), t[i] = t[j]
               PROVE  i = j
    BY DEF OnceOnly
  <2>1. \A n \in 1..Len(t) : n # 1 => n - 1 \in 1..Len(s) /\ t[n] = s[n - 1] /\ t[n] # p
    BY <1>1 DEF On
  <2>2. CASE i = 1 \/ j = 1
    BY <2>1, <2>2, <1>1
  <2>3. CASE i # 1 /\ j # 1
    <3>1. s[i - 1] = s[j - 1] /\ i - 1 \in 1..Len(s) /\ j - 1 \in 1..Len(s)
      BY <2>1, <2>3
    <3>2. i - 1 = j - 1
      BY <3>1 DEF OnceOnly
    <3> QED BY <3>2
  <2> QED BY <2>2, <2>3
<1> QED BY <1>1, <1>2, <1>3 DEF t

-----------------------------------------------------------------------------
(* Blocks put in the place of blocks that cover the same pages.            *)
LEMMA Replace ==
  ASSUME NEW B, NEW old, NEW new, old \subseteq B,
         Disjoint(B), Disjoint(new), Pages(new) = Pages(old)
  PROVE  /\ Disjoint((B \ old) \union new)
         /\ Pages((B \ old) \union new) = Pages(B)
<1>1. ASSUME NEW b \in B \ old, NEW c \in new
      PROVE  PagesOf(b) \intersect PagesOf(c) = {}
  <2>1. SUFFICES ASSUME NEW x \in PagesOf(b), x \in PagesOf(c) PROVE FALSE
    OBVIOUS
  <2>2. PICK a \in old : x \in PagesOf(a)
    BY <2>1 DEF Pages
  <2> QED BY <2>1, <2>2 DEF Disjoint
<1>2. Disjoint((B \ old) \union new)
  BY <1>1 DEF Disjoint
<1>3. Pages((B \ old) \union new) = Pages(B)
  BY DEF Pages
<1> QED BY <1>2, <1>3
-----------------------------------------------------------------------------
(* Every block is a run of pages of the memory, and the page it begins     *)
(* with is in no other block.                                              *)
LEMMA WholeFacts ==
  ASSUME BuddyInv
  PROVE  /\ \A b \in Whole : /\ b \in Page \X Order /\ b = <<b[1], b[2]>>
                             /\ b[1] \in Nat /\ b[2] \in Nat /\ Aligned(b[1], b[2])
                             /\ b[1] \in PagesOf(b) /\ PagesOf(b) \subseteq Page
                             /\ PagesOf(b) \subseteq 0..booted-1
         /\ \A b, c \in Whole : b[1] \in PagesOf(c) => b = c
<1>1. ASSUME NEW b \in Whole
      PROVE  b \in Page \X Order
  BY <1>1 DEF BuddyInv, TypeOK, Whole, Listed, InTransit
<1>2. ASSUME NEW b \in Whole
      PROVE  /\ b = <<b[1], b[2]>> /\ b[1] \in Nat /\ b[2] \in Nat
             /\ Aligned(b[1], b[2]) /\ b[1] \in PagesOf(b) /\ PagesOf(b) \subseteq Page
  <2>1. b = <<b[1], b[2]>> /\ b[1] \in Page /\ b[2] \in Order
    BY <1>1
  <2>2. Aligned(b[1], b[2])
    BY DEF BuddyInv, Placed
  <2>3. b[1] \in Nat /\ b[2] \in Nat /\ PagesOf(<<b[1], b[2]>>) \subseteq Page
    BY <2>1, <2>2, BlockInMemory
  <2>4. b[1] \in PagesOf(<<b[1], b[2]>>)
    BY <2>3, SizePositive DEF PagesOf
  <2> QED BY <2>1, <2>2, <2>3, <2>4
<1>3. \A b \in Whole : PagesOf(b) \subseteq 0..booted-1
  BY DEF BuddyInv, Pages
<1>4. \A b, c \in Whole : b[1] \in PagesOf(c) => b = c
  BY <1>2 DEF BuddyInv, Disjoint
<1> QED BY <1>1, <1>2, <1>3, <1>4

(* A page is on the list of a level when its block is listed.              *)
LEMMA ListedIsOn ==
  ASSUME NEW p \in Page, NEW l \in Order
  PROVE  <<p, l>> \in Listed <=> p \in On(freelist[l])
BY DEF Listed, On

(* A page is on one list at most.                                          *)
LEMMA OneList ==
  ASSUME BuddyInv, NEW p, NEW l \in Order, <<p, l>> \in Listed,
         NEW m \in Order, p \in On(freelist[m])
  PROVE  m = l
<1>1. p \in Page
  BY DEF Listed
<1>2. <<p, m>> \in Listed
  BY <1>1, ListedIsOn
<1> QED BY <1>2 DEF BuddyInv, ListedMarked

(* What __free_pages concludes from bplevel and flag of the buddy: it is a *)
(* free block of this level.  A stale level never misleads it.             *)
LEMMA BuddyIsListed ==
  ASSUME BuddyInv, call.pc \in {"look", "join", "insert"},
         BuddyIsFree(call.page, call.level)
  PROVE  <<BuddyOf(call.page, call.level), call.level>> \in Listed
<1> DEFINE p == call.page
           l == call.level
           b == BuddyOf(p, l)
           q == Lower(p, b)
<1>1. <<p, l>> \in Whole /\ <<p, l>> \in InTransit
  BY DEF Whole, InTransit
<1>2. p \in Page /\ l \in Order /\ p \in Nat /\ l \in Nat /\ Aligned(p, l)
  BY <1>1, WholeFacts
<1>3. l < MAX_BUDDY_ORDER /\ bplevel[b] = l /\ flag[b] # 1
  BY DEF BuddyIsFree
<1>4. b \in Page /\ l + 1 \in Order
  BY <1>2, <1>3, BuddyInMemory
<1>5. /\ b \in Nat /\ b # p /\ Aligned(b, l) /\ Aligned(q, l + 1)
      /\ PagesOf(<<q, l + 1>>) = PagesOf(<<p, l>>) \union PagesOf(<<b, l>>)
      /\ PagesOf(<<p, l>>) \intersect PagesOf(<<b, l>>) = {}
  BY <1>2, Buddies
<1>6. p \in PagesOf(<<p, l>>) /\ b \in PagesOf(<<b, l>>) /\ q \in Nat
  BY <1>2, <1>5, SizePositive DEF PagesOf, Lower
<1>7. b \in 0..booted-1
  <2>1. ~ (b >= booted)
    BY <1>2, <1>3, <1>4 DEF BuddyInv, Unbooted
  <2>2. booted \in Nat
    BY DEF BuddyInv, TypeOK
  <2> QED BY <2>1, <2>2, <1>5
<1>8. PICK c \in Whole : b \in PagesOf(c)
  BY <1>7 DEF BuddyInv, Pages
<1>9. c = <<c[1], c[2]>> /\ c[1] \in Nat /\ c[2] \in Nat /\ Aligned(c[1], c[2])
  BY <1>8, WholeFacts
<1> HIDE DEF p, l, b, q
<1>10. c[2] <= l
  <2>1. SUFFICES ASSUME ~ (c[2] <= l) PROVE FALSE
    OBVIOUS
  <2>2. b \in PagesOf(<<c[1], c[2]>>) /\ b \in PagesOf(<<q, l + 1>>)
    BY <1>5, <1>6, <1>8, <1>9
  <2>3. PagesOf(<<q, l + 1>>) \subseteq PagesOf(<<c[1], c[2]>>)
    BY <2>1, <2>2, <1>2, <1>5, <1>6, <1>9, BlocksNest
  <2>4. p \in PagesOf(c)
    BY <2>3, <1>5, <1>6, <1>9
  <2>5. c = <<p, l>>
    BY <2>4, <1>1, <1>8, WholeFacts
  <2> QED BY <2>1, <2>5, <1>2
<1>11. c[1] = b
  BY <1>2, <1>5, <1>8, <1>9, <1>10, SameBegin
<1>12. c \notin InTransit
  <2>1. InTransit = {<<p, l>>}
    BY DEF InTransit, p, l
  <2> QED BY <2>1, <1>5, <1>9, <1>11
<1>13. c \notin held
  BY <1>3, <1>11 DEF BuddyInv, HeldMarked
<1>14. c \in Listed
  BY <1>8, <1>12, <1>13 DEF Whole
<1>15. c[2] = l
  BY <1>3, <1>11, <1>14 DEF BuddyInv, ListedMarked
<1> QED BY <1>9, <1>11, <1>14, <1>15 DEF b, p, l
-----------------------------------------------------------------------------
(* At boot nothing is handed over yet.                                     *)
LEMMA InitKeeps == Init => BuddyInv
<1> SUFFICES ASSUME Init PROVE BuddyInv
  OBVIOUS
<1>1. 0 \in Page /\ 0 \in Order
  <2>1. MAX_BUDDY_ORDER \in Nat /\ NBLOCK \in Nat \ {0}
    BY BlockAssumption
  <2>2. Size(MAX_BUDDY_ORDER) \in Nat /\ Size(MAX_BUDDY_ORDER) >= 1
    BY <2>1, SizePositive
  <2>3. NPAGE \in Nat /\ NPAGE >= 1
    BY <2>1, <2>2 DEF NPAGE
  <2> QED BY <2>1, <2>3 DEF Page, Order
<1>2. Listed = {} /\ held = {} /\ InTransit = {} /\ Whole = {}
  BY DEF Init, Listed, InTransit, Idle, Whole
<1>3. TypeOK
  <2>1. NPAGE \in Nat
    BY MemorySize
  <2> QED BY <1>1, <2>1 DEF Init, TypeOK, Idle
<1>4. Disjoint(Whole) /\ Pages(Whole) = 0..booted-1
  BY <1>2 DEF Disjoint, Pages, Init
<1>5. /\ Placed /\ ListedMarked /\ HeldMarked /\ OnlyHeldFlagged /\ Unbooted
      /\ NoRepeats /\ Counted /\ Coalesced /\ AtCall
  BY <1>2 DEF Placed, ListedMarked, HeldMarked, OnlyHeldFlagged, Unbooted, NoRepeats,
              Counted, Coalesced, AtCall, Init, Idle
<1> QED BY <1>3, <1>4, <1>5 DEF BuddyInv

(* init_buddy: the next page becomes a block of level 0 on its way.        *)
LEMMA BootKeeps == BuddyInv /\ init_buddy => BuddyInv'
<1> SUFFICES ASSUME BuddyInv, init_buddy PROVE BuddyInv'
  OBVIOUS
<1> DEFINE new == <<booted, 0>>
<1>1. /\ call = Idle /\ booted < NPAGE /\ booted' = booted + 1 /\ held' = held
      /\ flag' = [flag EXCEPT ![booted] = 0] /\ stacks' = stacks
      /\ call' = [pc |-> "look", page |-> booted, level |-> 0, want |-> 0]
      /\ bplevel' = bplevel /\ freelist' = freelist /\ count' = count
  BY DEF init_buddy, FreeBegin
<1>2. /\ flag \in [Page -> {0, 1}] /\ booted \in Nat /\ booted \in Page
      /\ 0 \in Order /\ NPAGE \in Nat
  BY <1>1, MemorySize DEF BuddyInv, TypeOK, Page, Order
<1>3. Listed' = Listed /\ InTransit = {} /\ InTransit' = {new}
  BY <1>1 DEF Listed, InTransit, Idle
<1>4. Whole' = Whole \union {new}
  BY <1>1, <1>3 DEF Whole
<1>5. PagesOf(new) = {booted} /\ Aligned(booted, 0)
  <2>1. Size(0) = 1
    BY DEF Size
  <2> QED BY <2>1, <1>2 DEF PagesOf, Aligned
<1>6. \A b \in Whole : PagesOf(b) \intersect PagesOf(new) = {}
  <2>1. \A b \in Whole : PagesOf(b) \subseteq 0..booted-1
    BY WholeFacts
  <2>2. booted \notin 0..booted-1
    BY <1>2
  <2> QED BY <2>1, <2>2, <1>5
<1>7. flag' = flag
  <2>1. flag[booted] = 0
    <3>1. SUFFICES ASSUME flag[booted] = 1 PROVE FALSE
      BY <1>2
    <3>2. PICK b \in held : b[1] = booted
      BY <1>2, <3>1 DEF BuddyInv, OnlyHeldFlagged
    <3>3. b \in Whole /\ booted \in PagesOf(b)
      BY <3>2, WholeFacts DEF Whole
    <3> QED BY <3>3, <1>5, <1>6
  <2> QED BY <2>1, <1>1, <1>2
<1>8. TypeOK'
  BY <1>1, <1>2 DEF BuddyInv, TypeOK
<1>9. Disjoint(Whole')
  BY <1>4, <1>6 DEF Disjoint, BuddyInv
<1>10. Pages(Whole') = 0..booted'-1
  <2>1. Pages(Whole') = Pages(Whole) \union {booted}
    BY <1>4, <1>5 DEF Pages
  <2>2. Pages(Whole) = 0..booted-1
    BY DEF BuddyInv
  <2> QED BY <2>1, <2>2, <1>1, <1>2
<1>11. Placed'
  BY <1>4, <1>5 DEF Placed, BuddyInv
<1>12. (ListedMarked /\ HeldMarked /\ OnlyHeldFlagged /\ NoRepeats /\ Counted /\ Coalesced)'
  BY <1>1, <1>3, <1>7 DEF BuddyInv, ListedMarked, HeldMarked, OnlyHeldFlagged,
                          NoRepeats, Counted, Coalesced
<1>13. Unbooted'
  BY <1>1, <1>2 DEF BuddyInv, Unbooted, Page
<1>14. AtCall'
  <2>1. new \notin Listed \union held
    <3>1. booted \in PagesOf(new)
      BY <1>5
    <3> QED BY <3>1, <1>6 DEF Whole
  <2>2. flag'[booted] = 0
    BY <1>1, <1>2
  <2> QED BY <2>1, <2>2, <1>1, <1>3 DEF AtCall
<1> QED BY <1>8, <1>9, <1>10, <1>11, <1>12, <1>13, <1>14 DEF BuddyInv

(* __free_pages looks at the buddy.                                        *)
LEMMA LookKeeps == BuddyInv /\ FreeLook => BuddyInv'
<1> SUFFICES ASSUME BuddyInv, FreeLook PROVE BuddyInv'
  OBVIOUS
<1>1. /\ call.pc = "look"
      /\ call' = [call EXCEPT !.pc = IF BuddyIsFree(call.page, call.level)
                                     THEN "join" ELSE "insert"]
      /\ flag' = flag /\ bplevel' = bplevel /\ freelist' = freelist /\ count' = count
      /\ booted' = booted /\ held' = held /\ stacks' = stacks
  BY DEF FreeLook, memVars
<1>2. call \in [pc : {"idle", "look", "join", "insert", "take", "stuck"},
                page : Page, level : Order, want : Order]
  BY DEF BuddyInv, TypeOK
<1>3. /\ call'.page = call.page /\ call'.level = call.level
      /\ call'.pc = IF BuddyIsFree(call.page, call.level) THEN "join" ELSE "insert"
  BY <1>1, <1>2
<1>4. Listed' = Listed /\ InTransit' = InTransit /\ Whole' = Whole
  BY <1>1, <1>3 DEF Listed, InTransit, Whole
<1>5. TypeOK'
  BY <1>1, <1>2 DEF BuddyInv, TypeOK
<1>6. /\ Disjoint(Whole') /\ Pages(Whole') = 0..booted'-1
      /\ (Placed /\ ListedMarked /\ HeldMarked /\ OnlyHeldFlagged /\ Unbooted)'
      /\ (NoRepeats /\ Counted /\ Coalesced)'
  BY <1>1, <1>4 DEF BuddyInv, Placed, ListedMarked, HeldMarked, OnlyHeldFlagged, Unbooted,
                    NoRepeats, Counted, Coalesced
<1>7. AtCall'
  <2>1. InTransit' \intersect (Listed' \union held') = {} /\ flag'[call'.page] = 0
    BY <1>1, <1>3, <1>4 DEF BuddyInv, AtCall
  <2>2. CASE BuddyIsFree(call.page, call.level)
    <3>1. <<BuddyOf(call.page, call.level), call.level>> \in Listed
      BY <1>1, <2>2, BuddyIsListed
    <3> QED BY <2>1, <2>2, <3>1, <1>3, <1>4 DEF AtCall, BuddyIsFree
  <2>3. CASE ~ BuddyIsFree(call.page, call.level)
    <3>1. call.level < MAX_BUDDY_ORDER =>
            <<BuddyOf(call.page, call.level), call.level>> \notin Listed
      BY <2>3 DEF BuddyIsFree, BuddyInv, ListedMarked
    <3> QED BY <2>1, <2>3, <3>1, <1>3, <1>4 DEF AtCall
  <2> QED BY <2>2, <2>3
<1> QED BY <1>5, <1>6, <1>7 DEF BuddyInv
(* What the lists are after a page has been taken off.                     *)
LEMMA UnlinkedLists ==
  ASSUME BuddyInv, NEW p \in Page, NEW l \in Order, <<p, l>> \in Listed
  PROVE  /\ Unlinked(p) \in [Order -> Seq(Page)]
         /\ \A m \in Order :
              /\ On(Unlinked(p)[m]) = IF m = l THEN On(freelist[m]) \ {p} ELSE On(freelist[m])
              /\ p \notin On(Unlinked(p)[m])
              /\ OnceOnly(Unlinked(p)[m])
              /\ Len(Unlinked(p)[m]) = IF m = l THEN Len(freelist[m]) - 1 ELSE Len(freelist[m])
         /\ Len(freelist[l]) > 0
<1>1. \A m \in Order : freelist[m] \in Seq(Page) /\ OnceOnly(freelist[m])
  BY DEF BuddyInv, TypeOK, NoRepeats, OnceOnly
<1>2. \A m \in Order : Unlinked(p)[m] = Without(freelist[m], p)
  BY DEF Unlinked
<1>3. \A m \in Order : p \in On(freelist[m]) <=> m = l
  BY OneList, ListedIsOn
<1>4. ASSUME NEW m \in Order
      PROVE  /\ Unlinked(p)[m] \in Seq(Page)
             /\ On(Unlinked(p)[m]) = On(freelist[m]) \ {p}
             /\ OnceOnly(Unlinked(p)[m])
             /\ Len(Unlinked(p)[m]) = IF m = l THEN Len(freelist[m]) - 1 ELSE Len(freelist[m])
  BY <1>1, <1>2, <1>3, WithoutPage
<1>5. Unlinked(p) \in [Order -> Seq(Page)]
  BY <1>2, <1>4 DEF Unlinked
<1>6. Len(freelist[l]) > 0
  BY <1>1, <1>3 DEF On
<1> QED BY <1>3, <1>4, <1>5, <1>6

(* The buddy comes off its list and the two are one block of the next      *)
(* level.                                                                  *)
LEMMA JoinKeeps == BuddyInv /\ FreeJoin => BuddyInv'
<1> SUFFICES ASSUME BuddyInv, FreeJoin PROVE BuddyInv'
  OBVIOUS
<1> DEFINE p == call.page
           l == call.level
           b == BuddyOf(p, l)
           q == Lower(p, b)
<1>1. /\ call.pc = "join" /\ freelist' = Unlinked(b)
      /\ count' = [count EXCEPT ![l] = @ - 1] /\ bplevel' = [bplevel EXCEPT ![b] = -1]
      /\ call' = [call EXCEPT !.pc = "look", !.page = q, !.level = @ + 1]
      /\ flag' = flag /\ booted' = booted /\ held' = held /\ stacks' = stacks
  BY DEF FreeJoin
<1>2. /\ call \in [pc : {"idle", "look", "join", "insert", "take", "stuck"},
                   page : Page, level : Order, want : Order]
      /\ bplevel \in [Page -> Order \union {-1}] /\ count \in [Order -> Nat]
      /\ flag \in [Page -> {0, 1}] /\ freelist \in [Order -> Seq(Page)]
      /\ booted \in 0..NPAGE
  BY DEF BuddyInv, TypeOK
<1>3. call'.page = q /\ call'.level = l + 1 /\ call'.pc = "look" /\ call'.want = call.want
  BY <1>1, <1>2
<1>4. /\ l < MAX_BUDDY_ORDER /\ <<b, l>> \in Listed /\ InTransit = {<<p, l>>}
      /\ <<p, l>> \notin Listed \union held /\ flag[p] = 0
  BY <1>1 DEF BuddyInv, AtCall, InTransit
<1>5. <<p, l>> \in Whole /\ <<b, l>> \in Whole
  BY <1>4 DEF Whole
<1>6. p \in Page /\ l \in Order /\ p \in Nat /\ l \in Nat /\ Aligned(p, l)
  BY <1>5, WholeFacts
<1>7. b \in Page /\ l + 1 \in Order /\ q \in Page
  BY <1>4, <1>6, BuddyInMemory
<1>8. /\ b # p /\ Aligned(q, l + 1) /\ b \in Nat
      /\ PagesOf(<<q, l + 1>>) = PagesOf(<<p, l>>) \union PagesOf(<<b, l>>)
  BY <1>6, Buddies
<1>9. InTransit' = {<<q, l + 1>>}
  BY <1>3 DEF InTransit
<1> HIDE DEF p, l, b, q
<1>10. /\ freelist' \in [Order -> Seq(Page)]
       /\ \A m \in Order :
            /\ On(freelist'[m]) = IF m = l THEN On(freelist[m]) \ {b} ELSE On(freelist[m])
            /\ b \notin On(freelist'[m]) /\ OnceOnly(freelist'[m])
            /\ Len(freelist'[m]) = IF m = l THEN Len(freelist[m]) - 1 ELSE Len(freelist[m])
       /\ Len(freelist[l]) > 0
  <2> DEFINE u == Unlinked(b)
  <2>1. /\ u \in [Order -> Seq(Page)]
        /\ \A m \in Order :
             /\ On(u[m]) = IF m = l THEN On(freelist[m]) \ {b} ELSE On(freelist[m])
             /\ b \notin On(u[m])
             /\ OnceOnly(u[m])
             /\ Len(u[m]) = IF m = l THEN Len(freelist[m]) - 1 ELSE Len(freelist[m])
        /\ Len(freelist[l]) > 0
    BY <1>4, <1>6, <1>7, UnlinkedLists, Zenon
  <2>2. freelist' = u
    BY <1>1
  <2> HIDE DEF u
  <2> QED BY <2>1, <2>2
<1>11. Listed' = Listed \ {<<b, l>>}
  <2>1. ASSUME NEW c \in Page \X Order
        PROVE  c \in Listed' <=> c[1] \in On(freelist'[c[2]])
    BY DEF Listed, On
  <2>2. ASSUME NEW c \in Page \X Order
        PROVE  c \in Listed <=> c[1] \in On(freelist[c[2]])
    BY DEF Listed, On
  <2>3. ASSUME NEW c \in Page \X Order
        PROVE  c \in Listed' <=> c \in Listed /\ c # <<b, l>>
    <3>1. c = <<c[1], c[2]>> /\ c[2] \in Order
      OBVIOUS
    <3>2. CASE c[1] = b
      <4>1. c \notin Listed'
        BY <2>1, <3>1, <3>2, <1>10
      <4>2. ASSUME c \in Listed
            PROVE  c = <<b, l>>
        <5>1. b \in On(freelist[c[2]])
          BY <2>2, <3>2, <4>2
        <5>2. c[2] = l
          BY <3>1, <5>1, <1>4, <1>6, OneList
        <5> QED BY <3>1, <3>2, <5>2
      <4> QED BY <4>1, <4>2
    <3>3. CASE c[1] # b
      BY <2>1, <2>2, <3>1, <3>3, <1>10
    <3> QED BY <3>2, <3>3
  <2> QED BY <2>3, <1>4 DEF Listed
<1>12. Whole' = (Whole \ {<<p, l>>, <<b, l>>}) \union {<<q, l + 1>>}
  <2>1. <<b, l>> \notin held
    BY <1>4 DEF BuddyInv, HeldMarked, ListedMarked
  <2> QED BY <1>1, <1>4, <1>9, <1>11, <2>1 DEF Whole
<1>13. Disjoint(Whole') /\ Pages(Whole') = Pages(Whole)
  <2> DEFINE old == {<<p, l>>, <<b, l>>}
             new == {<<q, l + 1>>}
  <2>1. Pages(new) = Pages(old)
    BY <1>8 DEF Pages
  <2>2. Disjoint(new) /\ Disjoint(Whole) /\ old \subseteq Whole
    BY <1>5 DEF Disjoint, BuddyInv
  <2> HIDE DEF old, new
  <2>3. Disjoint((Whole \ old) \union new) /\ Pages((Whole \ old) \union new) = Pages(Whole)
    BY <2>1, <2>2, Replace
  <2> QED BY <2>3, <1>12 DEF old, new
<1>14. \A c \in (Listed' \union held') : c \in Whole /\ c[1] # b /\ c # <<p, l>>
  <2>1. ASSUME NEW c \in Listed' \union held'
        PROVE  c \in Whole /\ c[1] # b /\ c # <<p, l>>
    <3>1. c \in Listed \union held /\ c # <<b, l>>
      <4>1. <<b, l>> \notin held
        BY <1>4 DEF BuddyInv, HeldMarked, ListedMarked
      <4> QED BY <4>1, <1>1, <1>11
    <3>2. c \in Whole
      BY <3>1 DEF Whole
    <3>3. c[1] # b
      <4>1. b \in PagesOf(<<b, l>>)
        BY <1>5, WholeFacts
      <4>2. c[1] \in PagesOf(<<b, l>>) => c = <<b, l>>
        BY <3>2, <1>5, WholeFacts
      <4> QED BY <4>1, <4>2, <3>1
    <3> QED BY <3>1, <3>2, <3>3, <1>4
  <2> QED BY <2>1
<1>15. TypeOK'
  <2>1. l - 1 \in Int /\ count[l] - 1 \in Nat
    <3>1. count[l] = Len(freelist[l])
      BY <1>6 DEF BuddyInv, Counted
    <3>2. Len(freelist[l]) \in Nat
      BY <1>2, <1>6
    <3> QED BY <3>1, <3>2, <1>6, <1>10
  <2>2. count' \in [Order -> Nat]
    BY <2>1, <1>1, <1>2
  <2>3. bplevel' \in [Page -> Order \union {-1}]
    BY <1>1, <1>2
  <2>4. call' \in [pc : {"idle", "look", "join", "insert", "take", "stuck"},
                   page : Page, level : Order, want : Order]
    BY <1>1, <1>2, <1>7 DEF l
  <2>5. held' \subseteq Page \X Order /\ stacks' \subseteq held'
    BY <1>1 DEF BuddyInv, TypeOK
  <2> QED BY <2>2, <2>3, <2>4, <2>5, <1>1, <1>2, <1>10 DEF TypeOK
<1>16. Placed'
  BY <1>8, <1>12 DEF BuddyInv, Placed
<1>17. (ListedMarked /\ HeldMarked)'
  <2>1. \A c \in Listed' \union held' : bplevel'[c[1]] = bplevel[c[1]]
    <3>1. \A c \in Listed' \union held' : c[1] \in Page
      BY <1>14, WholeFacts
    <3> QED BY <3>1, <1>1, <1>2, <1>14
  <2> QED BY <2>1, <1>1, <1>11 DEF BuddyInv, ListedMarked, HeldMarked
<1>18. (OnlyHeldFlagged /\ Unbooted)'
  BY <1>1, <1>2 DEF BuddyInv, OnlyHeldFlagged, Unbooted
<1>19. (NoRepeats /\ Counted)'
  <2>1. NoRepeats'
    BY <1>10 DEF NoRepeats, OnceOnly
  <2>2. \A m \in Order : count'[m] = IF m = l THEN count[m] - 1 ELSE count[m]
    BY <1>1, <1>2
  <2>3. Counted'
    BY <2>2, <1>10 DEF BuddyInv, Counted
  <2> QED BY <2>1, <2>3
<1>20. Coalesced'
  BY <1>11 DEF BuddyInv, Coalesced
<1>21. AtCall'
  <2>1. <<q, l + 1>> \notin Listed' \union held'
    <3>1. SUFFICES ASSUME <<q, l + 1>> \in Listed' \union held' PROVE FALSE
      OBVIOUS
    <3>2. <<q, l + 1>> \in Whole /\ <<q, l + 1>> # <<p, l>>
      BY <3>1, <1>14
    <3>3. p \in PagesOf(<<p, l>>)
      BY <1>5, WholeFacts
    <3>4. <<p, l>>[1] \in PagesOf(<<q, l + 1>>)
      BY <3>3, <1>8
    <3> QED BY <3>2, <3>4, <1>5, WholeFacts
  <2>2. flag'[q] = 0
    <3>1. flag[b] = 0
      BY <1>4 DEF BuddyInv, ListedMarked
    <3> QED BY <3>1, <1>1, <1>4 DEF Lower, q
  <2> QED BY <2>1, <2>2, <1>3, <1>9 DEF AtCall
<1> QED BY <1>1, <1>13, <1>15, <1>16, <1>17, <1>18, <1>19, <1>20, <1>21 DEF BuddyInv
(* The block goes to the head of its list.                                 *)
LEMMA InsertKeeps == BuddyInv /\ FreeInsert => BuddyInv'
<1> SUFFICES ASSUME BuddyInv, FreeInsert PROVE BuddyInv'
  OBVIOUS
<1> DEFINE p == call.page
           l == call.level
           b == BuddyOf(p, l)
<1>1. /\ call.pc = "insert" /\ freelist' = [freelist EXCEPT ![l] = <<p>> \o @]
      /\ bplevel' = [bplevel EXCEPT ![p] = l] /\ count' = [count EXCEPT ![l] = @ + 1]
      /\ call' = Idle
      /\ flag' = flag /\ booted' = booted /\ held' = held /\ stacks' = stacks
  BY DEF FreeInsert, Pushed
<1>2. /\ bplevel \in [Page -> Order \union {-1}] /\ count \in [Order -> Nat]
      /\ flag \in [Page -> {0, 1}] /\ freelist \in [Order -> Seq(Page)]
      /\ booted \in 0..NPAGE
  BY DEF BuddyInv, TypeOK
<1>3. /\ InTransit = {<<p, l>>} /\ <<p, l>> \notin Listed \union held /\ flag[p] = 0
      /\ l < MAX_BUDDY_ORDER => <<b, l>> \notin Listed
  BY <1>1 DEF BuddyInv, AtCall, InTransit
<1>4. <<p, l>> \in Whole
  BY <1>3 DEF Whole
<1>5. p \in Page /\ l \in Order /\ p \in Nat /\ l \in Nat /\ Aligned(p, l)
  BY <1>4, WholeFacts
<1>6. InTransit' = {}
  BY <1>1 DEF InTransit, Idle
<1> HIDE DEF p, l
<1>7. \A c \in Listed \union held : c[1] # p
  <2>1. ASSUME NEW c \in Listed \union held, c[1] = p
        PROVE  FALSE
    <3>1. c \in Whole
      BY DEF Whole
    <3>2. p \in PagesOf(<<p, l>>)
      BY <1>4, WholeFacts
    <3>3. c = <<p, l>>
      BY <2>1, <3>1, <3>2, <1>4, WholeFacts
    <3> QED BY <3>3, <1>3
  <2> QED BY <2>1
<1>8. p \notin On(freelist[l]) /\ freelist[l] \in Seq(Page) /\ OnceOnly(freelist[l])
  <2>1. p \notin On(freelist[l])
    BY <1>3, <1>5, ListedIsOn
  <2> QED BY <2>1, <1>2, <1>5 DEF BuddyInv, NoRepeats, OnceOnly
<1>9. /\ <<p>> \o freelist[l] \in Seq(Page)
      /\ On(<<p>> \o freelist[l]) = On(freelist[l]) \union {p}
      /\ OnceOnly(<<p>> \o freelist[l])
      /\ Len(<<p>> \o freelist[l]) = Len(freelist[l]) + 1
  BY <1>5, <1>8, WithPage
<1>10. /\ freelist' \in [Order -> Seq(Page)]
       /\ \A m \in Order :
            freelist'[m] = IF m = l THEN <<p>> \o freelist[l] ELSE freelist[m]
  BY <1>1, <1>2, <1>5, <1>9
<1>11. Listed' = Listed \union {<<p, l>>}
  <2>1. ASSUME NEW c \in Page \X Order
        PROVE  c \in Listed' <=> c[1] \in On(freelist'[c[2]])
    BY DEF Listed, On
  <2>2. ASSUME NEW c \in Page \X Order
        PROVE  c \in Listed <=> c[1] \in On(freelist[c[2]])
    BY DEF Listed, On
  <2>3. ASSUME NEW c \in Page \X Order
        PROVE  c \in Listed' <=> c \in Listed \/ c = <<p, l>>
    <3>1. c = <<c[1], c[2]>> /\ c[2] \in Order
      OBVIOUS
    <3>2. CASE c[2] = l
      <4>1. c \in Listed' <=> c[1] \in On(freelist[l]) \/ c[1] = p
        BY <2>1, <3>1, <3>2, <1>9, <1>10
      <4>2. c[1] = p <=> c = <<p, l>>
        BY <3>1, <3>2
      <4> QED BY <2>2, <3>2, <4>1, <4>2
    <3>3. CASE c[2] # l
      BY <2>1, <2>2, <3>1, <3>3, <1>10
    <3> QED BY <3>2, <3>3
  <2> QED BY <2>3, <1>5 DEF Listed
<1>12. Whole' = Whole
  BY <1>1, <1>3, <1>6, <1>11 DEF Whole
<1>13. TypeOK'
  <2>1. bplevel' \in [Page -> Order \union {-1}] /\ count' \in [Order -> Nat]
    BY <1>1, <1>2, <1>5
  <2>2. call' \in [pc : {"idle", "look", "join", "insert", "take", "stuck"},
                   page : Page, level : Order, want : Order]
    <3>1. 0 \in Page /\ 0 \in Order
      BY <1>5, MemorySize DEF Page, Order
    <3> QED BY <3>1, <1>1 DEF Idle
  <2>3. held' \subseteq Page \X Order /\ stacks' \subseteq held'
    BY <1>1 DEF BuddyInv, TypeOK
  <2> QED BY <2>1, <2>2, <2>3, <1>1, <1>2, <1>10 DEF TypeOK
<1>14. Disjoint(Whole') /\ Pages(Whole') = 0..booted'-1 /\ Placed'
  BY <1>1, <1>12 DEF BuddyInv, Placed
<1>15. (ListedMarked /\ HeldMarked)'
  <2>1. \A c \in Listed \union held : c[1] \in Page /\ bplevel'[c[1]] = bplevel[c[1]]
    <3>1. \A c \in Listed \union held : c[1] \in Page
      BY WholeFacts DEF Whole
    <3> QED BY <3>1, <1>1, <1>2, <1>7
  <2>2. bplevel'[p] = l
    BY <1>1, <1>2, <1>5
  <2> QED BY <2>1, <2>2, <1>1, <1>3, <1>11 DEF BuddyInv, ListedMarked, HeldMarked
<1>16. (OnlyHeldFlagged /\ Unbooted)'
  <2>1. p \in 0..booted-1
    BY <1>4, WholeFacts
  <2>2. ~ (p >= booted)
    BY <2>1, <1>2, MemorySize
  <2> QED BY <2>2, <1>1, <1>2 DEF BuddyInv, OnlyHeldFlagged, Unbooted
<1>17. (NoRepeats /\ Counted)'
  <2>1. NoRepeats'
    BY <1>9, <1>10 DEF NoRepeats, OnceOnly, BuddyInv
  <2>2. \A m \in Order : count'[m] = IF m = l THEN count[m] + 1 ELSE count[m]
    BY <1>1, <1>2
  <2>3. Counted'
    BY <2>2, <1>5, <1>9, <1>10 DEF BuddyInv, Counted
  <2> QED BY <2>1, <2>3
<1>18. Coalesced'
  <2> SUFFICES ASSUME NEW c \in Listed', c[2] < MAX_BUDDY_ORDER,
                      <<BuddyOf(c[1], c[2]), c[2]>> \in Listed'
               PROVE  FALSE
    BY DEF Coalesced
  <2>1. c \in Whole /\ c = <<c[1], c[2]>> /\ c[1] \in Nat /\ c[2] \in Nat /\ Aligned(c[1], c[2])
    BY <1>4, <1>11, WholeFacts DEF Whole
  <2>2. BuddyOf(c[1], c[2]) # c[1] /\ BuddyOf(BuddyOf(c[1], c[2]), c[2]) = c[1]
    BY <2>1, Buddies, Zenon
  <2>3. CASE c = <<p, l>>
    <3>1. <<b, l>> \in Listed'
      BY <2>3
    <3>2. b # p
      BY <2>2, <2>3
    <3> QED BY <3>1, <3>2, <2>3, <1>3, <1>11
  <2>4. CASE c # <<p, l>>
    <3>1. c \in Listed
      BY <2>4, <1>11
    <3>2. <<BuddyOf(c[1], c[2]), c[2]>> \notin Listed
      BY <3>1 DEF BuddyInv, Coalesced
    <3>3. BuddyOf(c[1], c[2]) = p /\ c[2] = l
      BY <3>2, <1>11
    <3>4. c[1] = b
      BY <2>2, <3>3
    <3> QED BY <2>1, <3>1, <3>3, <3>4, <1>3
  <2> QED BY <2>3, <2>4
<1>19. AtCall'
  BY <1>1, <1>6 DEF AtCall, Idle
<1> QED BY <1>13, <1>14, <1>15, <1>16, <1>17, <1>18, <1>19 DEF BuddyInv

(* The first nonempty list from a level upwards, and the page at its head. *)
LEMMA LowestFits ==
  ASSUME NEW want, Fitting(want) # {}
  PROVE  /\ Lowest(Fitting(want)) \in Fitting(want)
         /\ \A m \in Fitting(want) : Lowest(Fitting(want)) <= m
<1>1. Fitting(want) \subseteq Nat
  BY MemorySize DEF Fitting, Order
<1> QED BY <1>1, LeastNat DEF Lowest

LEMMA HeadIsListed ==
  ASSUME BuddyInv, NEW l \in Order, freelist[l] # <<>>
  PROVE  Head(freelist[l]) \in Page /\ <<Head(freelist[l]), l>> \in Listed
<1>1. freelist[l] \in Seq(Page)
  BY DEF BuddyInv, TypeOK
<1>2. 1 \in 1..Len(freelist[l]) /\ Head(freelist[l]) = freelist[l][1]
  BY <1>1
<1> QED BY <1>1, <1>2 DEF Listed

(* __alloc_pages chooses a block, or there is none and kmalloc spins.      *)
LEMMA AllocateKeeps ==
  ASSUME BuddyInv, NEW want \in Wanted, alloc_pages(want)
  PROVE  BuddyInv'
<1>1. /\ call = Idle
      /\ call' = IF Fitting(want) = {} THEN [Idle EXCEPT !.pc = "stuck"]
                 ELSE [pc |-> "take", page |-> Head(freelist[Lowest(Fitting(want))]),
                       level |-> Lowest(Fitting(want)), want |-> want]
      /\ flag' = flag /\ bplevel' = bplevel /\ freelist' = freelist /\ count' = count
      /\ booted' = booted /\ held' = held /\ stacks' = stacks
  BY DEF alloc_pages, memVars
<1>2. Listed' = Listed /\ InTransit = {} /\ call'.pc \in {"stuck", "take"}
  BY <1>1 DEF Listed, InTransit, Idle
<1>3. InTransit' = {} /\ Whole' = Whole
  BY <1>1, <1>2 DEF InTransit, Whole
<1>4. /\ Disjoint(Whole') /\ Pages(Whole') = 0..booted'-1
      /\ (Placed /\ ListedMarked /\ HeldMarked /\ OnlyHeldFlagged /\ Unbooted)'
      /\ (NoRepeats /\ Counted /\ Coalesced)'
  BY <1>1, <1>2, <1>3 DEF BuddyInv, Placed, ListedMarked, HeldMarked, OnlyHeldFlagged,
                          Unbooted, NoRepeats, Counted, Coalesced
<1>5. 0 \in Page /\ 0 \in Order /\ want \in Order
  <2>1. call.page = 0 /\ call.level = 0
    BY <1>1 DEF Idle
  <2> QED BY <2>1, BuddyAssumption DEF BuddyInv, TypeOK
<1>6. CASE Fitting(want) = {}
  <2>1. call' = [pc |-> "stuck", page |-> 0, level |-> 0, want |-> 0]
    BY <1>1, <1>6 DEF Idle
  <2>2. TypeOK'
    BY <2>1, <1>1, <1>5 DEF BuddyInv, TypeOK
  <2>3. AtCall'
    BY <2>1, <1>3 DEF AtCall
  <2> QED BY <2>2, <2>3, <1>4 DEF BuddyInv
<1>7. CASE Fitting(want) # {}
  <2> DEFINE l == Lowest(Fitting(want))
             p == Head(freelist[l])
  <2>1. l \in Fitting(want)
    BY <1>7, LowestFits
  <2>2. l \in Order /\ want <= l /\ p \in Page /\ <<p, l>> \in Listed
    BY <2>1, HeadIsListed DEF Fitting
  <2>3. call' = [pc |-> "take", page |-> p, level |-> l, want |-> want]
    BY <1>1, <1>7
  <2> HIDE DEF l, p
  <2>4. TypeOK'
    <3>1. TypeOK
      BY DEF BuddyInv
    <3>2. /\ p \in Page /\ l \in Order /\ want \in Order
          /\ call' = [pc |-> "take", page |-> p, level |-> l, want |-> want]
      BY <2>2, <2>3, <1>5
    <3>3. call' \in [pc : {"idle", "look", "join", "insert", "take", "stuck"},
                    page : Page, level : Order, want : Order]
      BY <3>2
    <3>4. /\ flag' = flag /\ bplevel' = bplevel /\ freelist' = freelist /\ count' = count
          /\ booted' = booted /\ held' = held /\ stacks' = stacks
      BY <1>1
    <3> QED BY <3>1, <3>3, <3>4 DEF TypeOK
  <2>5. AtCall'
    BY <2>2, <2>3, <1>2, <1>3 DEF AtCall
  <2> QED BY <2>4, <2>5, <1>4 DEF BuddyInv
<1> QED BY <1>6, <1>7
(* The block at the head of the list, or what is left of it after the      *)
(* halves it is too large by went to the lists below, is the caller's.     *)
LEMMA TakeKeeps ==
  ASSUME BuddyInv, NEW p, NEW order \in Order, NEW want \in Order,
         want <= order, <<p, order>> \in Listed, TakeBlock(p, order, want),
         InTransit = {}, InTransit' = {}, booted' = booted
  PROVE  /\ flag' \in [Page -> {0, 1}] /\ bplevel' \in [Page -> Order \union {-1}]
         /\ freelist' \in [Order -> Seq(Page)] /\ count' \in [Order -> Nat]
         /\ held' \subseteq Page \X Order /\ held' = held \union {<<p, want>>}
         /\ Disjoint(Whole') /\ Pages(Whole') = 0..booted'-1
         /\ Placed' /\ ListedMarked' /\ HeldMarked' /\ OnlyHeldFlagged' /\ Unbooted'
         /\ NoRepeats' /\ Counted'
         /\ Coalesced'
<1> DEFINE split == want..order-1
           rest == Unlinked(p)
           up(l) == p + Size(l)
           new == {<<up(l), l>> : l \in split}
<1>1. /\ flag' = [flag EXCEPT ![p] = 1] /\ held' = held \union {<<p, want>>}
      /\ freelist' = [l \in Order |-> IF l \in split THEN <<up(l)>> \o rest[l] ELSE rest[l]]
      /\ count' = [l \in Order |-> IF l \in split THEN count[l] + 1
                                   ELSE IF l = order THEN count[l] - 1 ELSE count[l]]
      /\ bplevel' = [q \in Page |->
           IF q = p THEN want
           ELSE IF \E l \in split : q = up(l) THEN CHOOSE l \in split : q = up(l)
           ELSE bplevel[q]]
  BY DEF TakeBlock
<1>2. /\ bplevel \in [Page -> Order \union {-1}] /\ count \in [Order -> Nat]
      /\ flag \in [Page -> {0, 1}] /\ freelist \in [Order -> Seq(Page)]
      /\ booted \in 0..NPAGE /\ held \subseteq Page \X Order
  BY DEF BuddyInv, TypeOK
<1>3. <<p, order>> \in Whole
  BY DEF Whole
<1>4. p \in Page /\ p \in Nat /\ order \in Nat /\ want \in Nat /\ Aligned(p, order)
  BY <1>3, WholeFacts DEF Order
<1>5. \A l \in split : l \in Order /\ l \in Nat /\ l < order /\ l < MAX_BUDDY_ORDER
  BY MemorySize DEF Order
<1>6. /\ Aligned(p, want)
      /\ \A l \in split : /\ Aligned(up(l), l) /\ BuddyOf(up(l), l) = p /\ Aligned(p, l)
                          /\ PagesOf(<<up(l), l>>) \subseteq PagesOf(<<p, order>>)
                          /\ PagesOf(<<up(l), l>>) \intersect PagesOf(<<p, want>>) = {}
      /\ \A l, m \in split : l # m =>
           PagesOf(<<up(l), l>>) \intersect PagesOf(<<up(m), m>>) = {}
      /\ PagesOf(<<p, want>>) \subseteq PagesOf(<<p, order>>)
      /\ \A x \in PagesOf(<<p, order>>) :
           x \in PagesOf(<<p, want>>) \/ \E l \in split : x \in PagesOf(<<up(l), l>>)
  <2>1. Aligned(p, want) /\ PagesOf(<<p, want>>) \subseteq PagesOf(<<p, order>>)
    BY <1>4, Split
  <2>2. ASSUME NEW l \in split
        PROVE  /\ Aligned(up(l), l) /\ BuddyOf(up(l), l) = p /\ Aligned(p, l)
               /\ PagesOf(<<up(l), l>>) \subseteq PagesOf(<<p, order>>)
               /\ PagesOf(<<up(l), l>>) \intersect PagesOf(<<p, want>>) = {}
    BY <1>4, Split
  <2>3. ASSUME NEW l \in split, NEW m \in split, l # m
        PROVE  PagesOf(<<up(l), l>>) \intersect PagesOf(<<up(m), m>>) = {}
    BY <1>4, <1>5, <2>3, HalvesApart
  <2>4. \A x \in PagesOf(<<p, order>>) :
           x \in PagesOf(<<p, want>>) \/ \E l \in split : x \in PagesOf(<<up(l), l>>)
    BY <1>4, Split
  <2> HIDE DEF split, up
  <2> QED BY <2>1, <2>2, <2>3, <2>4
<1>7. ASSUME NEW l \in split
      PROVE  /\ up(l) \in Nat /\ up(l) # p /\ up(l) \in PagesOf(<<up(l), l>>)
             /\ up(l) \in PagesOf(<<p, order>>) /\ up(l) \in Page
  <2>1. Size(l) \in Nat /\ Size(l) >= 1
    BY <1>5, SizePositive
  <2>2. up(l) \in Nat /\ up(l) # p /\ up(l) \in PagesOf(<<up(l), l>>)
    BY <2>1, <1>4 DEF PagesOf
  <2>3. up(l) \in PagesOf(<<p, order>>)
    BY <2>2, <1>6
  <2>4. PagesOf(<<p, order>>) \subseteq Page
    BY <1>3, WholeFacts
  <2> QED BY <2>2, <2>3, <2>4
<1>8. \A l, m \in split : up(l) = up(m) => l = m
  BY <1>6, <1>7
<1>9. ASSUME NEW c \in (Listed \ {<<p, order>>}) \union held
      PROVE  /\ c \in Whole /\ c[1] \in Page /\ c[1] # p
             /\ \A l \in split : c[1] # up(l)
  <2>1. c \in Whole /\ c # <<p, order>>
    <3>1. <<p, order>> \notin held
      BY DEF BuddyInv, ListedMarked, HeldMarked
    <3> QED BY <3>1 DEF Whole
  <2>2. c[1] \notin PagesOf(<<p, order>>)
    BY <2>1, <1>3, WholeFacts
  <2>3. p \in PagesOf(<<p, order>>)
    BY <1>3, WholeFacts
  <2> QED BY <2>1, <2>2, <2>3, <1>7, WholeFacts
<1>10. /\ rest \in [Order -> Seq(Page)]
       /\ \A m \in Order :
            /\ On(rest[m]) = IF m = order THEN On(freelist[m]) \ {p} ELSE On(freelist[m])
            /\ p \notin On(rest[m])
            /\ OnceOnly(rest[m])
            /\ Len(rest[m]) = IF m = order THEN Len(freelist[m]) - 1 ELSE Len(freelist[m])
       /\ Len(freelist[order]) > 0
  BY <1>4, UnlinkedLists, Zenon
<1> HIDE DEF rest, up, split
<1>11. order \notin split
  BY <1>4 DEF split
<1>12. ASSUME NEW m \in split
       PROVE  up(m) \notin On(rest[m])
  <2>1. SUFFICES ASSUME up(m) \in On(rest[m]) PROVE FALSE
    OBVIOUS
  <2>2. m \in Order /\ m # order
    BY <1>5, <1>11
  <2>3. <<up(m), m>> \in Listed
    BY <2>1, <2>2, <1>7, <1>10, ListedIsOn
  <2>4. <<up(m), m>> # <<p, order>>
    BY <1>7
  <2> QED BY <2>3, <2>4, <1>9
<1>13. ASSUME NEW m \in Order
       PROVE  /\ freelist'[m] \in Seq(Page) /\ OnceOnly(freelist'[m])
              /\ On(freelist'[m]) = IF m \in split THEN On(rest[m]) \union {up(m)} ELSE On(rest[m])
              /\ Len(freelist'[m]) = IF m \in split THEN Len(rest[m]) + 1 ELSE Len(rest[m])
  <2>1. rest[m] \in Seq(Page) /\ OnceOnly(rest[m])
    BY <1>10
  <2>2. CASE m \in split
    <3>1. freelist'[m] = <<up(m)>> \o rest[m]
      BY <2>2, <1>1
    <3>2. up(m) \in Page /\ up(m) \notin On(rest[m])
      BY <2>2, <1>7, <1>12
    <3>3. /\ <<up(m)>> \o rest[m] \in Seq(Page)
          /\ On(<<up(m)>> \o rest[m]) = On(rest[m]) \union {up(m)}
          /\ OnceOnly(<<up(m)>> \o rest[m])
          /\ Len(<<up(m)>> \o rest[m]) = Len(rest[m]) + 1
      BY <2>1, <3>2, WithPage
    <3> QED BY <2>2, <3>1, <3>3
  <2>3. CASE m \notin split
    <3>1. freelist'[m] = rest[m]
      BY <2>3, <1>1
    <3> QED BY <2>1, <2>3, <3>1
  <2> QED BY <2>2, <2>3
<1>14. Listed' = (Listed \ {<<p, order>>}) \union new
  <2>1. ASSUME NEW c \in Page \X Order
        PROVE  c \in Listed' <=> c[1] \in On(freelist'[c[2]])
    BY DEF Listed, On
  <2>2. ASSUME NEW c \in Page \X Order
        PROVE  c \in Listed <=> c[1] \in On(freelist[c[2]])
    BY DEF Listed, On
  <2>3. ASSUME NEW c \in Page \X Order
        PROVE  c \in Listed' <=> (c \in Listed /\ c # <<p, order>>) \/ c \in new
    <3>1. c = <<c[1], c[2]>> /\ c[2] \in Order
      OBVIOUS
    <3>2. c[1] \in On(rest[c[2]]) <=> c \in Listed /\ c # <<p, order>>
      <4>1. CASE c[2] = order
        <5>1. c[1] \in On(rest[c[2]]) <=> c \in Listed /\ c[1] # p
          BY <2>2, <3>1, <4>1, <1>10
        <5>2. c[1] # p <=> c # <<p, order>>
          BY <3>1, <4>1
        <5> QED BY <5>1, <5>2
      <4>2. CASE c[2] # order
        BY <2>2, <3>1, <4>2, <1>10
      <4> QED BY <4>1, <4>2
    <3>3. c \in new <=> c[2] \in split /\ c[1] = up(c[2])
      <4>1. ASSUME c \in new
            PROVE  c[2] \in split /\ c[1] = up(c[2])
        BY <4>1
      <4>2. ASSUME c[2] \in split /\ c[1] = up(c[2])
            PROVE  c \in new
        BY <4>2, <3>1
      <4> QED BY <4>1, <4>2
    <3>4. On(freelist'[c[2]]) = IF c[2] \in split THEN On(rest[c[2]]) \union {up(c[2])}
                                ELSE On(rest[c[2]])
      BY <3>1, <1>13
    <3> QED BY <2>1, <3>2, <3>3, <3>4
  <2>4. new \subseteq Page \X Order
    BY <1>5, <1>7
  <2>5. Listed \subseteq Page \X Order /\ Listed' \subseteq Page \X Order
    BY DEF Listed
  <2> QED BY <2>3, <2>4, <2>5
<1>15. Whole' = (Whole \ {<<p, order>>}) \union (new \union {<<p, want>>})
  <2>1. <<p, order>> \notin held
    BY DEF BuddyInv, ListedMarked, HeldMarked
  <2> QED BY <2>1, <1>1, <1>14 DEF Whole
<1>16. Disjoint(new \union {<<p, want>>}) /\ Pages(new \union {<<p, want>>}) = Pages({<<p, order>>})
  <2>1. Disjoint(new \union {<<p, want>>})
    <3> SUFFICES ASSUME NEW b \in new \union {<<p, want>>}, NEW c \in new \union {<<p, want>>},
                        b # c
                 PROVE  PagesOf(b) \intersect PagesOf(c) = {}
      BY DEF Disjoint
    <3>1. \A d \in new : \E l \in split : d = <<up(l), l>>
      OBVIOUS
    <3> QED BY <3>1, <1>6
  <2>2. Pages({<<p, order>>}) = PagesOf(<<p, order>>)
    BY DEF Pages
  <2>3. ASSUME NEW x \in Pages(new \union {<<p, want>>})
        PROVE  x \in PagesOf(<<p, order>>)
    <3>1. PICK b \in new \union {<<p, want>>} : x \in PagesOf(b)
      BY DEF Pages
    <3> QED BY <3>1, <1>6
  <2>4. ASSUME NEW x \in PagesOf(<<p, order>>)
        PROVE  x \in Pages(new \union {<<p, want>>})
    <3>1. x \in PagesOf(<<p, want>>) \/ \E l \in split : x \in PagesOf(<<up(l), l>>)
      BY <1>6
    <3> QED BY <3>1 DEF Pages
  <2> QED BY <2>1, <2>2, <2>3, <2>4
<1>17. Disjoint(Whole') /\ Pages(Whole') = 0..booted'-1
  <2> DEFINE old == {<<p, order>>}
             all == new \union {<<p, want>>}
  <2>1. old \subseteq Whole /\ Disjoint(Whole) /\ Disjoint(all) /\ Pages(all) = Pages(old)
    BY <1>3, <1>16 DEF BuddyInv
  <2> HIDE DEF old, all
  <2>2. Disjoint((Whole \ old) \union all) /\ Pages((Whole \ old) \union all) = Pages(Whole)
    BY <2>1, Replace
  <2>3. Whole' = (Whole \ old) \union all
    BY <1>15 DEF old, all
  <2>4. Pages(Whole) = 0..booted-1
    BY DEF BuddyInv
  <2> QED BY <2>2, <2>3, <2>4
<1>18. Placed'
  <2>1. \A c \in new \union {<<p, want>>} : Aligned(c[1], c[2])
    BY <1>6
  <2> QED BY <2>1, <1>15 DEF BuddyInv, Placed
<1>19. /\ \A l \in split : bplevel'[up(l)] = l
       /\ bplevel'[p] = want
       /\ \A q \in Page : q # p /\ (\A l \in split : q # up(l)) => bplevel'[q] = bplevel[q]
  <2>1. ASSUME NEW l \in split
        PROVE  bplevel'[up(l)] = l
    <3>1. up(l) \in Page /\ up(l) # p
      BY <1>7
    <3>2. bplevel'[up(l)] = CHOOSE m \in split : up(l) = up(m)
      BY <3>1, <1>1, Zenon
    <3>3. (CHOOSE m \in split : up(l) = up(m)) = l
      BY <1>8
    <3> QED BY <3>2, <3>3
  <2>2. bplevel'[p] = want
    BY <1>1, <1>4
  <2>3. \A q \in Page : q # p /\ (\A l \in split : q # up(l)) => bplevel'[q] = bplevel[q]
    BY <1>1
  <2> QED BY <2>1, <2>2, <2>3
<1>20. /\ \A q \in Page : flag'[q] = IF q = p THEN 1 ELSE flag[q]
       /\ \A l \in split : flag'[up(l)] = 0
  <2>1. \A q \in Page : flag'[q] = IF q = p THEN 1 ELSE flag[q]
    BY <1>1, <1>2
  <2>2. ASSUME NEW l \in split
        PROVE  flag[up(l)] = 0
    <3>1. \A b \in held : b[1] # up(l)
      BY <1>9
    <3>2. flag[up(l)] # 1
      BY <3>1, <1>7 DEF BuddyInv, OnlyHeldFlagged
    <3> QED BY <3>2, <1>2, <1>7
  <2> QED BY <2>1, <2>2, <1>7
<1>21. ListedMarked'
  <2> SUFFICES ASSUME NEW c \in Listed'
               PROVE  bplevel'[c[1]] = c[2] /\ flag'[c[1]] = 0
    BY DEF ListedMarked
  <2>1. CASE c \in new
    BY <2>1, <1>19, <1>20
  <2>2. CASE c \in Listed \ {<<p, order>>}
    <3>1. c[1] \in Page /\ c[1] # p /\ \A l \in split : c[1] # up(l)
      BY <2>2, <1>9
    <3>2. bplevel[c[1]] = c[2] /\ flag[c[1]] = 0
      BY <2>2 DEF BuddyInv, ListedMarked
    <3> QED BY <3>1, <3>2, <1>19, <1>20
  <2> QED BY <2>1, <2>2, <1>14
<1>22. HeldMarked'
  <2> SUFFICES ASSUME NEW c \in held'
               PROVE  bplevel'[c[1]] = c[2] /\ flag'[c[1]] = 1
    BY DEF HeldMarked
  <2>1. CASE c = <<p, want>>
    BY <2>1, <1>4, <1>19, <1>20
  <2>2. CASE c \in held
    <3>1. c[1] \in Page /\ c[1] # p /\ \A l \in split : c[1] # up(l)
      BY <2>2, <1>9
    <3>2. bplevel[c[1]] = c[2] /\ flag[c[1]] = 1
      BY <2>2 DEF BuddyInv, HeldMarked
    <3> QED BY <3>1, <3>2, <1>19, <1>20
  <2> QED BY <2>1, <2>2, <1>1
<1>23. OnlyHeldFlagged'
  <2> SUFFICES ASSUME NEW q \in Page, flag'[q] = 1
               PROVE  \E b \in held' : b[1] = q
    BY DEF OnlyHeldFlagged
  <2>1. CASE q = p
    <3>1. <<p, want>> \in held' /\ <<p, want>>[1] = p
      BY <1>1
    <3> QED BY <2>1, <3>1
  <2>2. CASE q # p
    <3>1. flag[q] = 1
      BY <2>2, <1>20
    <3> QED BY <3>1, <1>1 DEF BuddyInv, OnlyHeldFlagged
  <2> QED BY <2>1, <2>2
<1>24. Unbooted'
  <2> SUFFICES ASSUME NEW q \in Page, q >= booted
               PROVE  bplevel'[q] = -1
    BY DEF Unbooted
  <2>1. q \notin PagesOf(<<p, order>>)
    <3>1. PagesOf(<<p, order>>) \subseteq 0..booted-1
      BY <1>3, WholeFacts
    <3>2. q \notin 0..booted-1
      BY <1>2, MemorySize
    <3> QED BY <3>1, <3>2
  <2>2. q # p /\ \A l \in split : q # up(l)
    <3>1. p \in PagesOf(<<p, order>>)
      BY <1>3, WholeFacts
    <3>2. \A l \in split : up(l) \in PagesOf(<<p, order>>)
      BY <1>7
    <3> QED BY <2>1, <3>1, <3>2
  <2> QED BY <2>2, <1>19 DEF BuddyInv, Unbooted
<1>25. freelist' \in [Order -> Seq(Page)]
  <2>1. freelist' = [l \in Order |-> freelist'[l]]
    BY <1>1
  <2> QED BY <2>1, <1>13
<1>26. NoRepeats'
  BY <1>13 DEF NoRepeats, OnceOnly
<1>27. Counted' /\ count' \in [Order -> Nat]
  <2>1. ASSUME NEW m \in Order
        PROVE  count'[m] = Len(freelist'[m]) /\ count'[m] \in Nat
    <3>1. count[m] = Len(freelist[m])
      BY DEF BuddyInv, Counted
    <3>2. Len(freelist'[m]) \in Nat /\ Len(freelist[m]) \in Nat
      BY <1>13, <1>2
    <3>3. count'[m] = IF m \in split THEN count[m] + 1
                      ELSE IF m = order THEN count[m] - 1 ELSE count[m]
      BY <1>1
    <3>4. /\ Len(rest[m]) = IF m = order THEN Len(freelist[m]) - 1 ELSE Len(freelist[m])
          /\ Len(freelist'[m]) = IF m \in split THEN Len(rest[m]) + 1 ELSE Len(rest[m])
      BY <1>10, <1>13
    <3> QED BY <3>1, <3>2, <3>3, <3>4, <1>11
  <2>2. count' = [l \in Order |-> count'[l]]
    BY <1>1
  <2> QED BY <2>1, <2>2 DEF Counted
<1>28. Coalesced'
  <2> SUFFICES ASSUME NEW c \in Listed', c[2] < MAX_BUDDY_ORDER,
                      <<BuddyOf(c[1], c[2]), c[2]>> \in Listed'
               PROVE  FALSE
    BY DEF Coalesced
  <2> DEFINE d == <<BuddyOf(c[1], c[2]), c[2]>>
  <2>1. ASSUME NEW l \in split
        PROVE  <<p, l>> \notin Listed' \union new
    <3>1. <<p, l>> \notin new
      BY <1>7
    <3>2. <<p, l>> \notin Listed \ {<<p, order>>}
      BY <1>9
    <3> QED BY <3>1, <3>2, <1>14
  <2>2. CASE c \in new
    <3>1. PICK l \in split : c = <<up(l), l>>
      BY <2>2
    <3>2. d = <<p, l>>
      BY <3>1, <1>6
    <3> QED BY <3>2, <2>1
  <2>3. CASE d \in new
    <3>1. PICK l \in split : d = <<up(l), l>>
      BY <2>3
    <3>2. c \in Whole' /\ c[2] = l /\ BuddyOf(c[1], l) = up(l)
      BY <3>1 DEF Whole
    <3>3. c \in Page \X Order /\ c[1] \in Nat /\ c = <<c[1], c[2]>>
      <4>1. c \in Page \X Order
        BY DEF Listed
      <4>2. c = <<c[1], c[2]>> /\ c[1] \in Page
        BY <4>1
      <4> QED BY <4>1, <4>2, MemorySize
    <3>4. Aligned(c[1], l)
      BY <3>2, <1>18 DEF Placed
    <3>5. BuddyOf(BuddyOf(c[1], l), l) = c[1]
      BY <3>3, <3>4, <1>5, Buddies, Zenon
    <3>6. c[1] = p
      BY <3>2, <3>5, <1>6
    <3> QED BY <3>2, <3>3, <3>6, <2>1
  <2>4. CASE c \notin new /\ d \notin new
    <3>1. c \in Listed /\ d \in Listed
      BY <2>4, <1>14
    <3> QED BY <3>1 DEF BuddyInv, Coalesced
  <2> QED BY <2>2, <2>3, <2>4
<1>29. flag' \in [Page -> {0, 1}] /\ bplevel' \in [Page -> Order \union {-1}]
  <2>1. flag' \in [Page -> {0, 1}]
    BY <1>1, <1>2
  <2>2. ASSUME NEW q \in Page
        PROVE  bplevel'[q] \in Order \union {-1}
    <3>1. CASE q = p
      BY <3>1, <1>19
    <3>2. CASE \E l \in split : q = up(l)
      BY <3>2, <1>5, <1>19
    <3>3. CASE q # p /\ \A l \in split : q # up(l)
      BY <3>3, <1>2, <1>19
    <3> QED BY <3>1, <3>2, <3>3
  <2>3. bplevel' = [q \in Page |-> bplevel'[q]]
    BY <1>1
  <2> QED BY <2>1, <2>2, <2>3
<1>30. held' \subseteq Page \X Order /\ held' = held \union {<<p, want>>}
  BY <1>1, <1>2, <1>4
<1> QED BY <1>17, <1>18, <1>21, <1>22, <1>23, <1>24, <1>25, <1>26, <1>27, <1>28, <1>29, <1>30
(* __alloc_pages takes the block it chose: nobody took it in between.      *)
LEMMA AllocTakeKeeps == BuddyInv /\ AllocTake => BuddyInv'
<1> SUFFICES ASSUME BuddyInv, AllocTake PROVE BuddyInv'
  OBVIOUS
<1>1. /\ call.pc = "take" /\ TakeBlock(call.page, call.level, call.want)
      /\ call' = Idle /\ booted' = booted /\ stacks' = stacks
  BY DEF AllocTake
<1>2. /\ <<call.page, call.level>> \in Listed /\ call.want <= call.level
      /\ call.level \in Order /\ call.want \in Order
  BY <1>1 DEF BuddyInv, AtCall, TypeOK
<1>3. InTransit = {} /\ InTransit' = {}
  BY <1>1 DEF InTransit, Idle
<1>4. /\ flag' \in [Page -> {0, 1}] /\ bplevel' \in [Page -> Order \union {-1}]
      /\ freelist' \in [Order -> Seq(Page)] /\ count' \in [Order -> Nat]
      /\ held' \subseteq Page \X Order /\ held' = held \union {<<call.page, call.want>>}
      /\ Disjoint(Whole') /\ Pages(Whole') = 0..booted'-1
      /\ Placed' /\ ListedMarked' /\ HeldMarked' /\ OnlyHeldFlagged' /\ Unbooted'
      /\ NoRepeats' /\ Counted'
      /\ Coalesced'
  BY <1>1, <1>2, <1>3, TakeKeeps
<1>5. TypeOK'
  <2>1. 0 \in Page /\ 0 \in Order
    <3>1. call.page \in Page
      BY DEF BuddyInv, TypeOK
    <3> QED BY <3>1, MemorySize DEF Page, Order
  <2> QED BY <2>1, <1>1, <1>4 DEF BuddyInv, TypeOK, Idle
<1>6. AtCall'
  BY <1>1, <1>3 DEF AtCall, Idle
<1> QED BY <1>4, <1>5, <1>6 DEF BuddyInv

(* do_fork takes its stack while the Shell is in no call.                  *)
LEMMA ForkKeeps == ~ Interruptible /\ BuddyInv /\ ForkStack => BuddyInv'
<1> SUFFICES ASSUME ~ Interruptible, BuddyInv, ForkStack PROVE BuddyInv'
  OBVIOUS
<1> DEFINE l == Lowest(Fitting(StackOrder))
           p == Head(freelist[l])
<1>1. /\ Fitting(StackOrder) # {} /\ call.pc \in {"idle", "stuck"}
      /\ TakeBlock(p, l, StackOrder) /\ stacks' = stacks \union {<<p, StackOrder>>}
      /\ booted' = booted /\ call' = call
  BY DEF ForkStack
<1>2. l \in Order /\ StackOrder <= l /\ freelist[l] # <<>> /\ StackOrder \in Order
  BY <1>1, LowestFits, BuddyAssumption DEF Fitting
<1>3. <<p, l>> \in Listed
  BY <1>2, HeadIsListed
<1>4. InTransit = {} /\ InTransit' = {}
  BY <1>1 DEF InTransit
<1> HIDE DEF l, p
<1>5. /\ flag' \in [Page -> {0, 1}] /\ bplevel' \in [Page -> Order \union {-1}]
      /\ freelist' \in [Order -> Seq(Page)] /\ count' \in [Order -> Nat]
      /\ held' \subseteq Page \X Order /\ held' = held \union {<<p, StackOrder>>}
      /\ Disjoint(Whole') /\ Pages(Whole') = 0..booted'-1
      /\ Placed' /\ ListedMarked' /\ HeldMarked' /\ OnlyHeldFlagged' /\ Unbooted'
      /\ NoRepeats' /\ Counted'
      /\ Coalesced'
  BY <1>1, <1>2, <1>3, <1>4, TakeKeeps
<1>6. TypeOK'
  BY <1>1, <1>5 DEF BuddyInv, TypeOK
<1>7. AtCall'
  BY <1>1, <1>4 DEF AtCall
<1> QED BY <1>5, <1>6, <1>7 DEF BuddyInv

(* free_pages: the block is nobody's until __free_pages has listed it.     *)
LEMMA FreeKeeps ==
  ASSUME BuddyInv, NEW b \in held \ stacks, free_pages(b)
  PROVE  BuddyInv'
<1> DEFINE p == b[1]
           l == b[2]
<1>1. /\ call = Idle /\ held' = held \ {b} /\ booted' = booted /\ stacks' = stacks
      /\ flag' = [flag EXCEPT ![p] = 0]
      /\ call' = [pc |-> "look", page |-> p, level |-> l, want |-> 0]
      /\ bplevel' = bplevel /\ freelist' = freelist /\ count' = count
  BY DEF free_pages, FreeBegin
<1>2. /\ flag \in [Page -> {0, 1}] /\ held \subseteq Page \X Order /\ stacks \subseteq held
      /\ call.want = 0 /\ call.want \in Order
  BY <1>1 DEF BuddyInv, TypeOK, Idle
<1>3. b = <<p, l>> /\ p \in Page /\ l \in Order /\ b \in Whole
  BY <1>2, WholeFacts DEF Whole
<1>4. Listed' = Listed /\ InTransit = {} /\ InTransit' = {b}
  BY <1>1, <1>3 DEF Listed, InTransit, Idle
<1>5. Whole' = Whole
  BY <1>1, <1>4 DEF Whole
<1> HIDE DEF p, l
<1>6. \A c \in Listed \union (held \ {b}) : c # b /\ c[1] # p /\ c[1] \in Page
  <2>1. ASSUME NEW c \in Listed \union (held \ {b})
        PROVE  c # b /\ c[1] # p /\ c[1] \in Page
    <3>1. c # b
      BY DEF BuddyInv, ListedMarked, HeldMarked
    <3>2. c \in Whole
      BY DEF Whole
    <3>3. p \in PagesOf(b)
      BY <1>3, WholeFacts DEF p
    <3>4. c[1] # p
      BY <3>1, <3>2, <3>3, <1>3, WholeFacts
    <3> QED BY <3>1, <3>2, <3>4, WholeFacts
  <2> QED BY <2>1
<1>7. \A q \in Page : flag'[q] = IF q = p THEN 0 ELSE flag[q]
  BY <1>1, <1>2
<1>8. TypeOK'
  BY <1>1, <1>2, <1>3 DEF BuddyInv, TypeOK
<1>9. /\ Disjoint(Whole') /\ Pages(Whole') = 0..booted'-1
      /\ (Placed /\ Unbooted /\ NoRepeats /\ Counted /\ Coalesced)'
  BY <1>1, <1>4, <1>5 DEF BuddyInv, Placed, Unbooted, NoRepeats, Counted, Coalesced
<1>10. (ListedMarked /\ HeldMarked)'
  BY <1>1, <1>4, <1>6, <1>7 DEF BuddyInv, ListedMarked, HeldMarked
<1>11. OnlyHeldFlagged'
  <2> SUFFICES ASSUME NEW q \in Page, flag'[q] = 1
               PROVE  \E c \in held' : c[1] = q
    BY DEF OnlyHeldFlagged
  <2>1. q # p /\ flag[q] = 1
    BY <1>7
  <2>2. PICK c \in held : c[1] = q
    BY <2>1 DEF BuddyInv, OnlyHeldFlagged
  <2>3. c # b
    BY <2>1, <2>2 DEF p
  <2> QED BY <2>2, <2>3, <1>1
<1>12. AtCall'
  <2>1. b \notin Listed' \union held'
    BY <1>1, <1>4, <1>6
  <2>2. flag'[p] = 0
    BY <1>3, <1>7
  <2> QED BY <2>1, <2>2, <1>1, <1>4 DEF AtCall
<1> QED BY <1>8, <1>9, <1>10, <1>11, <1>12 DEF BuddyInv

(* A step of no operation.                                                 *)
LEMMA StutterKeeps == BuddyInv /\ UNCHANGED vars => BuddyInv'
<1> SUFFICES ASSUME BuddyInv, UNCHANGED vars PROVE BuddyInv'
  OBVIOUS
<1>1. /\ flag' = flag /\ bplevel' = bplevel /\ freelist' = freelist /\ count' = count
      /\ booted' = booted /\ held' = held /\ stacks' = stacks /\ call' = call
  BY DEF vars, memVars
<1>2. Listed' = Listed /\ InTransit' = InTransit /\ Whole' = Whole
  BY <1>1 DEF Listed, InTransit, Whole
<1> QED BY <1>1, <1>2 DEF BuddyInv, TypeOK, Placed, ListedMarked, HeldMarked,
             OnlyHeldFlagged, Unbooted, NoRepeats, Counted, Coalesced, AtCall

-----------------------------------------------------------------------------
(* Every call of the allocator keeps the invariant, for any number of      *)
(* pages and of levels, while processes fork only between the calls of the *)
(* Shell (with forks inside them it fails: the run buddy_race).            *)
THEOREM BuddyInductive == ASSUME ~ Interruptible PROVE Spec => []BuddyInv
<1>1. Init => BuddyInv
  BY InitKeeps
<1>2. BuddyInv /\ [Next]_vars => BuddyInv'
  <2> SUFFICES ASSUME BuddyInv, [Next]_vars PROVE BuddyInv'
    OBVIOUS
  <2>1. CASE init_buddy
    BY <2>1, BootKeeps
  <2>2. CASE FreeLook
    BY <2>2, LookKeeps
  <2>3. CASE FreeJoin
    BY <2>3, JoinKeeps
  <2>4. CASE FreeInsert
    BY <2>4, InsertKeeps
  <2>5. ASSUME NEW want \in Wanted, alloc_pages(want) PROVE BuddyInv'
    BY <2>5, AllocateKeeps
  <2>6. CASE AllocTake
    BY <2>6, AllocTakeKeeps
  <2>7. ASSUME NEW b \in held \ stacks, free_pages(b) PROVE BuddyInv'
    BY <2>7, FreeKeeps
  <2>8. CASE ForkStack
    BY <2>8, ForkKeeps
  <2>9. CASE UNCHANGED vars
    BY <2>9, StutterKeeps
  <2> QED BY <2>1, <2>2, <2>3, <2>4, <2>5, <2>6, <2>7, <2>8, <2>9 DEF Next
<1> QED BY <1>1, <1>2, PTL DEF Spec

(* The types of the allocator's state.                                     *)
THEOREM BuddyTypeCorrect == ASSUME ~ Interruptible PROVE Spec => []TypeOK
<1>1. BuddyInv => TypeOK
  BY DEF BuddyInv
<1> QED BY <1>1, BuddyInductive, PTL
(* As many blocks of a level are listed as its list is long.               *)
LEMMA ListedCount ==
  ASSUME BuddyInv, NEW l \in Order
  PROVE  Cardinality({b \in Listed : b[2] = l}) = count[l]
<1> DEFINE n == Len(freelist[l])
           S == {b \in Listed : b[2] = l}
           f == [i \in 1..n |-> <<freelist[l][i], l>>]
<1>1. freelist[l] \in Seq(Page) /\ n \in Nat /\ count[l] = n
  BY DEF BuddyInv, TypeOK, Counted
<1>2. \A i \in 1..n : freelist[l][i] \in Page
  BY <1>1
<1>3. ASSUME NEW i \in 1..n
      PROVE  <<freelist[l][i], l>> \in S
  <2>1. <<freelist[l][i], l>> \in Listed
    BY <1>2 DEF Listed
  <2> QED BY <2>1
<1>4. f \in [1..n -> S]
  BY <1>3
<1>5. \A i, j \in 1..n : f[i] = f[j] => i = j
  BY DEF BuddyInv, NoRepeats
<1>6. ASSUME NEW b \in S
      PROVE  \E i \in 1..n : f[i] = b
  <2>1. b \in Page \X Order /\ b[2] = l
    BY DEF Listed
  <2>2. PICK i \in 1..n : freelist[l][i] = b[1]
    BY DEF Listed
  <2>3. b = <<b[1], b[2]>>
    BY <2>1
  <2> QED BY <2>1, <2>2, <2>3
<1> HIDE DEF f, S
<1>7. f \in Bijection(1..n, S)
  BY <1>4, <1>5, <1>6, Zenon DEF Bijection, Injection, Surjection, IsInjective
<1>8. ExistsBijection(1..n, S)
  BY <1>7, Zenon DEF ExistsBijection
<1>9. IsFiniteSet(1..n) /\ Cardinality(1..n) = n
  BY <1>1, FS_Interval
<1>10. Cardinality(S) = Cardinality(1..n)
  BY <1>8, <1>9, FS_Bijection, Zenon
<1> QED BY <1>1, <1>9, <1>10 DEF S

(* No page is lost and none is in two blocks, whatever is allocated, split,*)
(* freed and merged; the counts are those of the lists.                    *)
THEOREM BlocksTile == ASSUME ~ Interruptible PROVE Spec => []Tiling
<1>1. ASSUME BuddyInv
      PROVE  Tiling
  <2>1. Disjoint(Whole) /\ Pages(Whole) = 0..booted-1 /\ Counted
    BY <1>1 DEF BuddyInv
  <2>2. \A l \in Order : Cardinality({b \in Listed : b[2] = l}) = count[l]
    BY <1>1, ListedCount
  <2> QED BY <2>1, <2>2, Zenon DEF Tiling, Whole, Disjoint, Pages, Counted
<1> QED BY <1>1, BuddyInductive, PTL

(* What could have been merged has been.                                   *)
THEOREM BuddiesMerged == ASSUME ~ Interruptible PROVE Spec => []Coalesced
<1>1. BuddyInv => Coalesced
  BY DEF BuddyInv
<1> QED BY <1>1, BuddyInductive, PTL

(* The one thing the race of buddy_race breaks: no page is in two blocks   *)
(* in use.                                                                 *)
THEOREM UsedOnce == ASSUME ~ Interruptible PROVE Spec => []InUseOnce
<1>1. BuddyInv => InUseOnce
  BY DEF BuddyInv, Disjoint, Whole, InUseOnce
<1> QED BY <1>1, BuddyInductive, PTL

-----------------------------------------------------------------------------
(* A run of free pages that a block could take up whole is a block, or     *)
(* part of a larger one: fragments of it would have been merged.           *)
LEMMA FreeRunIsBlock ==
  ASSUME BuddyInv, NEW p \in Page, NEW w \in Order, Aligned(p, w),
         PagesOf(<<p, w>>) \subseteq FreePages
  PROVE  \E b \in Listed : b[2] >= w
<1> SUFFICES ASSUME \A b \in Listed : ~ (b[2] >= w) PROVE FALSE
  OBVIOUS
<1>1. p \in Nat /\ w \in Nat
  BY BlockInMemory
<1>2. \A b \in Listed : /\ b \in Whole /\ b = <<b[1], b[2]>> /\ b[1] \in Nat /\ b[2] \in Nat
                        /\ Aligned(b[1], b[2]) /\ b[1] \in PagesOf(b) /\ b[2] < w
  <2>1. \A b \in Listed : /\ b \in Whole /\ b = <<b[1], b[2]>> /\ b[1] \in Nat /\ b[2] \in Nat
                          /\ Aligned(b[1], b[2]) /\ b[1] \in PagesOf(b)
    BY WholeFacts DEF Whole
  <2> QED BY <2>1, <1>1
<1> DEFINE inside == {b \in Listed : b[1] \in PagesOf(<<p, w>>)}
           levels == {b[2] : b \in inside}
<1>3. ASSUME NEW x \in PagesOf(<<p, w>>)
      PROVE  \E b \in inside : x \in PagesOf(b)
  <2>1. PICK b \in Listed : x \in PagesOf(b)
    BY DEF FreePages
  <2>2. PagesOf(<<b[1], b[2]>>) \subseteq PagesOf(<<p, w>>)
    <3>1. b = <<b[1], b[2]>> /\ b[1] \in Nat /\ b[2] \in Nat /\ Aligned(b[1], b[2]) /\ b[2] <= w
      BY <1>1, <1>2
    <3>2. x \in PagesOf(<<b[1], b[2]>>) /\ x \in PagesOf(<<p, w>>)
      BY <2>1, <3>1
    <3> QED BY <3>1, <3>2, <1>1, BlocksNest
  <2>3. b \in inside
    BY <2>2, <1>2
  <2> QED BY <2>1, <2>3
<1>4. p \in PagesOf(<<p, w>>)
  BY <1>1, SizePositive DEF PagesOf
<1>5. levels \subseteq Nat /\ levels # {}
  <2>1. \E b \in inside : p \in PagesOf(b)
    BY <1>3, <1>4
  <2> QED BY <2>1, <1>2
<1>6. PICK m \in levels : \A n \in levels : m <= n
  BY <1>5, LeastNat
<1>7. PICK c \in inside : c[2] = m
  BY <1>6
<1> DEFINE b == BuddyOf(c[1], m)
           q == Lower(c[1], b)
<1>8. c \in Whole /\ c = <<c[1], m>> /\ c[1] \in Nat /\ m \in Nat /\ Aligned(c[1], m) /\ m < w
  BY <1>2, <1>7
<1>9. /\ b \in Nat /\ b # c[1] /\ Aligned(b, m) /\ Aligned(q, m + 1)
      /\ PagesOf(<<q, m + 1>>) = PagesOf(<<c[1], m>>) \union PagesOf(<<b, m>>)
  BY <1>8, Buddies
<1>10. q \in Nat /\ b \in PagesOf(<<b, m>>) /\ c[1] \in PagesOf(<<c[1], m>>)
  BY <1>8, <1>9, SizePositive DEF PagesOf, Lower
<1> HIDE DEF b, q
<1>11. PagesOf(<<q, m + 1>>) \subseteq PagesOf(<<p, w>>)
  <2>1. c[1] \in PagesOf(<<q, m + 1>>) /\ c[1] \in PagesOf(<<p, w>>)
    BY <1>7, <1>9, <1>10
  <2> QED BY <2>1, <1>1, <1>8, <1>9, <1>10, BlocksNest
<1>12. PICK d \in inside : b \in PagesOf(d)
  BY <1>3, <1>9, <1>10, <1>11
<1>13. d \in Whole /\ d = <<d[1], d[2]>> /\ d[1] \in Nat /\ d[2] \in Nat /\ Aligned(d[1], d[2])
  BY <1>2, <1>12
<1>14. m <= d[2]
  BY <1>6, <1>12
<1>15. ~ (m < d[2])
  <2>1. SUFFICES ASSUME m < d[2] PROVE FALSE
    OBVIOUS
  <2>2. b \in PagesOf(<<q, m + 1>>) /\ b \in PagesOf(<<d[1], d[2]>>)
    BY <1>9, <1>10, <1>12, <1>13
  <2>3. PagesOf(<<q, m + 1>>) \subseteq PagesOf(<<d[1], d[2]>>)
    BY <2>1, <2>2, <1>8, <1>9, <1>10, <1>13, BlocksNest
  <2>4. c[1] \in PagesOf(d)
    BY <2>3, <1>9, <1>10, <1>13
  <2>5. c = d
    BY <2>4, <1>8, <1>13, WholeFacts
  <2> QED BY <2>1, <2>5, <1>7, <1>8
<1>16. d[2] = m
  BY <1>8, <1>13, <1>14, <1>15
<1>17. d[1] = b
  BY <1>8, <1>9, <1>12, <1>13, <1>16, SameBegin
<1>18. <<BuddyOf(c[1], c[2]), c[2]>> \in Listed /\ c \in Listed
  BY <1>7, <1>12, <1>13, <1>16, <1>17 DEF b
<1>19. c[2] < MAX_BUDDY_ORDER
  BY <1>7, <1>8, MemorySize DEF Order
<1> QED BY <1>18, <1>19 DEF BuddyInv, Coalesced

(* __alloc_pages gives up only when there is no aligned run of free pages  *)
(* of that size, however the memory was split and merged before.           *)
THEOREM FullWhenRefused == ASSUME ~ Interruptible PROVE Spec => RefusesOnlyWhenFull
<1> DEFINE A == \A want \in Wanted : alloc_pages(want) /\ call'.pc = "stuck" =>
                  ~ \E p \in Page : p % Size(want) = 0 /\ PagesOf(<<p, want>>) \subseteq FreePages
<1>1. ASSUME BuddyInv, NEW want \in Wanted, alloc_pages(want), call'.pc = "stuck",
             NEW p \in Page, p % Size(want) = 0, PagesOf(<<p, want>>) \subseteq FreePages
      PROVE  FALSE
  <2>1. Fitting(want) = {}
    BY <1>1 DEF alloc_pages
  <2>2. want \in Order /\ Aligned(p, want)
    BY <1>1, BuddyAssumption DEF Aligned
  <2>3. PICK b \in Listed : b[2] >= want
    BY <1>1, <2>2, FreeRunIsBlock
  <2>4. b[2] \in Order /\ freelist[b[2]] # <<>>
    <3>1. b[2] \in Order /\ \E i \in 1..Len(freelist[b[2]]) : freelist[b[2]][i] = b[1]
      BY DEF Listed
    <3> QED BY <3>1
  <2>5. b[2] \in Fitting(want)
    BY <2>3, <2>4 DEF Fitting
  <2> QED BY <2>1, <2>5
<1>2. BuddyInv => A
  BY <1>1
<1>3. BuddyInv /\ [Next]_vars => [A]_vars
  BY <1>2
<1> QED BY <1>3, BuddyInductive, PTL DEF Spec, RefusesOnlyWhenFull
-----------------------------------------------------------------------------
(* Taking a block off a list is the allocator's Alloc: nobody holds a page *)
(* of it.                                                                  *)
LEMMA TakeIsAlloc ==
  ASSUME BuddyInv, NEW p, NEW order \in Order, NEW want \in Order,
         want <= order, <<p, order>> \in Listed, TakeBlock(p, order, want)
  PROVE  Allocator!Next
<1> DEFINE taken == {PagesOf(b) : b \in held}
           run == p .. p + Size(want) - 1
<1>1. <<p, order>> \in Whole /\ <<p, order>> \notin held
  BY DEF Whole, BuddyInv, ListedMarked, HeldMarked
<1>2. p \in Page /\ p \in Nat /\ order \in Nat /\ want \in Nat /\ Aligned(p, order)
  BY <1>1, WholeFacts DEF Order
<1>3. PagesOf(<<p, want>>) = run /\ run \subseteq PagesOf(<<p, order>>)
  <2>1. PagesOf(<<p, want>>) = run
    BY DEF PagesOf
  <2>2. PagesOf(<<p, want>>) \subseteq PagesOf(<<p, order>>)
    BY <1>2, Split
  <2> QED BY <2>1, <2>2
<1>4. run \subseteq Page
  BY <1>1, <1>3, WholeFacts
<1>5. \A b \in held : PagesOf(b) \intersect run = {}
  <2>1. \A b \in held : PagesOf(b) \intersect PagesOf(<<p, order>>) = {}
    BY <1>1 DEF Whole, BuddyInv, Disjoint
  <2> QED BY <2>1, <1>3
<1>6. {PagesOf(b) : b \in held'} = taken \union {run}
  <2>1. held' = held \union {<<p, want>>}
    BY DEF TakeBlock
  <2> QED BY <2>1, <1>3
<1>7. Size(want) \in {Size(l) : l \in Order}
  OBVIOUS
<1>8. Allocator!Alloc(p, Size(want))
  BY <1>4, <1>5, <1>6 DEF Allocator!Alloc, Allocator!Run
<1> QED BY <1>2, <1>7, <1>8 DEF Allocator!Next

(* What the Shell and do_fork see of the buddy lists is a page allocator:  *)
(* a block handed out is a run of pages that nobody else holds.            *)
THEOREM RefinesAllocator == ASSUME ~ Interruptible PROVE Spec => ImplementsAllocator
<1> DEFINE taken == {PagesOf(b) : b \in held}
<1>1. Init => Allocator!Init
  BY DEF Init, Allocator!Init
<1>2. BuddyInv /\ [Next]_vars => [Allocator!Next]_taken
  <2> SUFFICES ASSUME BuddyInv, [Next]_vars PROVE Allocator!Next \/ taken' = taken
    OBVIOUS
  <2>1. CASE held' = held
    BY <2>1
  <2>2. CASE AllocTake
    <3>1. /\ call.pc = "take" /\ TakeBlock(call.page, call.level, call.want)
      BY <2>2 DEF AllocTake
    <3>2. /\ <<call.page, call.level>> \in Listed /\ call.want <= call.level
          /\ call.level \in Order /\ call.want \in Order
      BY <3>1 DEF BuddyInv, AtCall, TypeOK
    <3> QED BY <3>1, <3>2, TakeIsAlloc
  <2>3. CASE ForkStack
    <3> DEFINE l == Lowest(Fitting(StackOrder))
               p == Head(freelist[l])
    <3>1. Fitting(StackOrder) # {} /\ TakeBlock(p, l, StackOrder)
      BY <2>3 DEF ForkStack
    <3>2. l \in Order /\ StackOrder <= l /\ freelist[l] # <<>> /\ StackOrder \in Order
      BY <3>1, LowestFits, BuddyAssumption DEF Fitting
    <3>3. <<p, l>> \in Listed
      BY <3>2, HeadIsListed
    <3> HIDE DEF p, l
    <3> QED BY <3>1, <3>2, <3>3, TakeIsAlloc
  <2>4. ASSUME NEW b \in held \ stacks, free_pages(b)
        PROVE  Allocator!Next
    <3>1. held' = held \ {b}
      BY <2>4 DEF free_pages
    <3>2. \A c \in held : c # b => PagesOf(c) # PagesOf(b)
      <4>1. \A c \in held : c[1] \in PagesOf(c)
        BY WholeFacts DEF Whole
      <4> QED BY <4>1 DEF BuddyInv, Disjoint, Whole
    <3>3. taken' = taken \ {PagesOf(b)}
      BY <3>1, <3>2
    <3> QED BY <3>3 DEF Allocator!Next, Allocator!Free
  <2>5. CASE init_buddy \/ FreeLook \/ FreeJoin \/ FreeInsert
             \/ (\E want \in Wanted : alloc_pages(want)) \/ UNCHANGED vars
    <3>1. held' = held
      BY <2>5 DEF init_buddy, FreeLook, FreeJoin, FreeInsert, alloc_pages, vars
    <3> QED BY <3>1, <2>1
  <2> QED BY <2>2, <2>3, <2>4, <2>5 DEF Next
<1> QED BY <1>1, <1>2, BuddyInductive, PTL DEF Spec, ImplementsAllocator, Allocator!Spec
=============================================================================
