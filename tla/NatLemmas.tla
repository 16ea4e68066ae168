----------------------------- MODULE NatLemmas ------------------------------
(***************************************************************************)
(* What several proofs need of numbers: least and greatest elements of     *)
(* sets of them, for the searches that the models write with CHOOSE, and   *)
(* the arithmetic of buddy blocks.                                         *)
(***************************************************************************)
EXTENDS BlockSizes, TLAPS, WellFoundedInduction, FiniteSetTheorems

Below == {pair \in Nat \X Nat : pair[1] < pair[2]}

(* A nonempty set of natural numbers has a least element.                  *)
LEMMA LeastNat ==
  ASSUME NEW S, S \subseteq Nat, S # {}
  PROVE  \E x \in S : \A y \in S : x <= y
<1>1. IsWellFoundedOn(Below, Nat)
  BY NatLessThanWellFounded, Zenon DEF OpToRel, Below
<1>2. PICK x \in S : \A y \in S : ~ (<<y, x>> \in Below)
  BY <1>1, WFMin
<1>3. ASSUME NEW y \in S
      PROVE  x <= y
  <2>1. <<y, x>> \notin Below
    BY <1>2, <1>3
  <2>2. x \in Nat /\ y \in Nat
    BY <1>2, <1>3
  <2>3. ~(y < x)
    BY <2>1, <2>2 DEF Below
  <2> QED BY <2>2, <2>3
<1> QED BY <1>2, <1>3

(* Induction: a set with 0, and with the successor of each of its numbers, *)
(* has all of them.                                                        *)
LEMMA AllNat ==
  ASSUME NEW S, 0 \in S, \A n \in Nat : n \in S => n + 1 \in S
  PROVE  \A n \in Nat : n \in S
<1> DEFINE Bad == Nat \ S
<1>1. CASE Bad # {}
  <2>1. PICK x \in Bad : \A y \in Bad : x <= y
    BY <1>1, LeastNat
  <2>2. x \in Nat /\ x \notin S /\ x # 0
    BY <2>1
  <2>3. x - 1 \in Nat /\ ~(x <= x - 1) /\ (x - 1) + 1 = x
    BY <2>2
  <2>4. x - 1 \in S
    BY <2>1, <2>3
  <2> QED BY <2>2, <2>3, <2>4
<1>2. CASE Bad = {}
  BY <1>2
<1> QED BY <1>1, <1>2

(* A nonempty set of natural numbers up to n has a greatest element.       *)
LEMMA GreatestNat ==
  ASSUME NEW n \in Nat, NEW S, S \subseteq 0..n, S # {}
  PROVE  \E x \in S : \A y \in S : y <= x
<1> DEFINE T == {n - y : y \in S}
<1>1. T \subseteq Nat
  <2>1. \A y \in S : n - y \in Nat
    OBVIOUS
  <2> QED BY <2>1
<1>2. PICK t \in T : \A u \in T : t <= u
  BY <1>1, LeastNat
<1>3. PICK x \in S : t = n - x
  BY <1>2
<1>4. ASSUME NEW y \in S
      PROVE  y <= x
  <2>1. t <= n - y
    BY <1>2, <1>4
  <2>2. x \in 0..n /\ y \in 0..n
    BY <1>3, <1>4
  <2> QED BY <1>3, <2>1, <2>2
<1> QED BY <1>3, <1>4

(* A measure on a nonempty set has a minimum.                              *)
LEMMA LeastMeasure ==
  ASSUME NEW S, S # {}, NEW f \in [S -> Nat]
  PROVE  \E x \in S : \A y \in S : f[x] <= f[y]
<1> DEFINE T == {f[x] : x \in S}
<1>1. T \subseteq Nat /\ T # {}
  OBVIOUS
<1>2. PICK t \in T : \A u \in T : t <= u
  BY <1>1, LeastNat
<1> QED BY <1>2
-----------------------------------------------------------------------------
(***************************************************************************)
(* Blocks: sizes, halves and buddies, for every size of memory.            *)
(***************************************************************************)

(* Shifting 1 one place further doubles it.  The provers know nothing of   *)
(* the exponent; the library counts the subsets of a set with it.          *)
LEMMA Powers ==
  ASSUME NEW n \in Nat
  PROVE  2^n \in Nat /\ 2^(n+1) = 2^n + 2^n
<1> DEFINE old == SUBSET (1..n)
           new == {X \union {n+1} : X \in old}
           add == [X \in old |-> X \union {n+1}]
<1>1. IsFiniteSet(old) /\ Cardinality(old) = 2^n /\ Cardinality(old) \in Nat
  <2>1. IsFiniteSet(1..n) /\ Cardinality(1..n) = n
    BY FS_Interval
  <2>2. IsFiniteSet(old) /\ Cardinality(old) = 2^n
    BY <2>1, FS_SUBSET, Zenon
  <2> QED BY <2>2, FS_CardinalityType
<1>2. IsFiniteSet(new) /\ Cardinality(new) = Cardinality(old)
  <2>1. \A X \in old : n + 1 \notin X
    OBVIOUS
  <2>2. add \in [old -> new]
    OBVIOUS
  <2>3. ASSUME NEW X \in old, NEW Y \in old, add[X] = add[Y]
        PROVE  X = Y
    <3>1. X \union {n+1} = Y \union {n+1}
      BY <2>3
    <3>2. n + 1 \notin X /\ n + 1 \notin Y
      BY <2>1
    <3> HIDE DEF old
    <3>3. \A z : z \in X <=> z \in Y
      BY <3>1, <3>2
    <3> QED BY <3>3
  <2>4. \A Z \in new : \E X \in old : add[X] = Z
    OBVIOUS
  <2>5. add \in Bijection(old, new)
    BY <2>2, <2>3, <2>4, Zenon DEF Bijection, Injection, Surjection, IsInjective
  <2>6. ExistsBijection(old, new)
    BY <2>5, Zenon DEF ExistsBijection
  <2> QED BY <1>1, <2>6, FS_Bijection, Zenon
<1>3. SUBSET (1..n+1) = old \union new
  <2>1. ASSUME NEW Z \in SUBSET (1..n+1), n + 1 \in Z
        PROVE  Z \in new
    <3>1. Z \ {n+1} \in old
      OBVIOUS
    <3>2. Z = (Z \ {n+1}) \union {n+1}
      BY <2>1
    <3> HIDE DEF old
    <3> QED BY <3>1, <3>2
  <2>2. ASSUME NEW Z \in SUBSET (1..n+1), n + 1 \notin Z
        PROVE  Z \in old
    <3>1. \A z \in Z : z \in 1..n
      <4>1. TAKE z \in Z
      <4>2. z \in 1..n+1 /\ z # n + 1
        BY <2>2
      <4> QED BY <4>2
    <3> QED BY <3>1
  <2>3. ASSUME NEW Z \in old \union new
        PROVE  Z \in SUBSET (1..n+1)
    <3>1. 1..n \subseteq 1..n+1 /\ n + 1 \in 1..n+1
      OBVIOUS
    <3> QED BY <3>1, <2>3, Zenon
  <2> QED BY <2>1, <2>2, <2>3, Zenon
<1>4. old \intersect new = {}
  <2>1. \A X \in old : n + 1 \notin X
    OBVIOUS
  <2>2. \A Z \in new : n + 1 \in Z
    OBVIOUS
  <2> QED BY <2>1, <2>2, Zenon
<1>5. Cardinality(SUBSET (1..n+1)) = 2^(n+1)
  <2>1. IsFiniteSet(1..n+1) /\ Cardinality(1..n+1) = n + 1
    BY FS_Interval
  <2> QED BY <2>1, FS_SUBSET, Zenon
<1>6. Cardinality(old \union new) = Cardinality(old) + Cardinality(new) - Cardinality({})
  <2> HIDE DEF old, new
  <2>1. IsFiniteSet(old) /\ IsFiniteSet(new)
    BY <1>1, <1>2
  <2>2. Cardinality(old \union new)
          = Cardinality(old) + Cardinality(new) - Cardinality(old \intersect new)
    BY <2>1, FS_Union
  <2> QED BY <2>2, <1>4
<1>7. Cardinality({}) = 0
  BY FS_EmptySet
<1> HIDE DEF old, new, add
<1>8. Cardinality(old \union new) = 2^(n+1)
  BY <1>3, <1>5
<1> QED BY <1>1, <1>2, <1>6, <1>7, <1>8

(* The size of a block doubles from a level to the next.                   *)
LEMMA Doubling ==
  ASSUME NEW l \in Nat
  PROVE  Size(l) \in Nat /\ Size(l+1) = 2 * Size(l)
BY Powers DEF Size

(* A block has at least one page.                                          *)
LEMMA SizePositive ==
  ASSUME NEW l \in Nat
  PROVE  Size(l) \in Nat /\ Size(l) >= 1
<1> DEFINE Bad == {n \in Nat : ~ (Size(n) >= 1)}
<1>1. SUFFICES ASSUME Bad # {} PROVE FALSE
  BY Doubling
<1>2. PICK n \in Bad : \A m \in Bad : n <= m
  BY <1>1, LeastNat
<1>3. n # 0
  <2>1. Size(0) = 1
    BY DEF Size
  <2> QED BY <1>2, <2>1
<1>4. n - 1 \in Nat /\ n - 1 \notin Bad
  BY <1>2, <1>3
<1>5. Size(n - 1) \in Nat /\ Size(n - 1) >= 1 /\ Size(n) = 2 * Size(n - 1)
  <2>1. Size(n - 1) \in Nat /\ Size((n - 1) + 1) = 2 * Size(n - 1)
    BY <1>4, Doubling
  <2> QED BY <2>1, <1>2, <1>4
<1> QED BY <1>2, <1>5

(* A larger block is a whole number of smaller ones.                       *)
LEMMA SizeDivides ==
  ASSUME NEW l \in Nat, NEW m \in Nat, l <= m
  PROVE  \E d \in Nat \ {0} : Size(m) = d * Size(l)
<1> DEFINE Bad == {n \in Nat : n >= l /\ ~ \E d \in Nat \ {0} : Size(n) = d * Size(l)}
<1>1. SUFFICES ASSUME Bad # {} PROVE FALSE
  OBVIOUS
<1>2. PICK n \in Bad : \A k \in Bad : n <= k
  BY <1>1, LeastNat
<1>3. n # l
  <2>1. Size(l) = 1 * Size(l)
    BY SizePositive
  <2> QED BY <1>2, <2>1
<1>4. n - 1 \in Nat /\ n - 1 >= l /\ n - 1 \notin Bad
  BY <1>2, <1>3
<1>5. PICK d \in Nat \ {0} : Size(n - 1) = d * Size(l)
  BY <1>4
<1>6. Size(n) = 2 * Size(n - 1)
  <2>1. Size((n - 1) + 1) = 2 * Size(n - 1)
    BY <1>4, Doubling
  <2> QED BY <2>1, <1>2
<1>7. Size(n) = (2 * d) * Size(l)
  BY <1>5, <1>6, SizePositive
<1>8. 2 * d \in Nat \ {0}
  OBVIOUS
<1> QED BY <1>2, <1>7, <1>8

(* The size grows with the level.                                          *)
LEMMA SizeGrows ==
  ASSUME NEW l \in Nat, NEW m \in Nat, l <= m
  PROVE  Size(l) <= Size(m)
<1>1. PICK d \in Nat \ {0} : Size(m) = d * Size(l)
  BY SizeDivides
<1> QED BY <1>1, SizePositive

-----------------------------------------------------------------------------
(* Where a block of a level may begin.                                     *)
Aligned(p, l) == p % Size(l) = 0

(* It begins at a multiple of its size.                                    *)
LEMMA AlignedIsMultiple ==
  ASSUME NEW p \in Nat, NEW l \in Nat
  PROVE  /\ Aligned(p, l) => /\ p \div Size(l) \in Nat
                             /\ p = (p \div Size(l)) * Size(l)
         /\ \A k \in Nat : p = k * Size(l) => Aligned(p, l)
<1> DEFINE s == Size(l)
<1>1. s \in Nat \ {0}
  BY SizePositive
<1> HIDE DEF s
<1>2. p % s = 0 => p \div s \in Nat /\ p = (p \div s) * s
  BY <1>1
<1>3. \A k \in Nat : p = k * s => p % s = 0
  BY <1>1
<1> QED BY <1>2, <1>3 DEF s, Aligned

(* Two blocks that share a page lie one inside the other.                  *)
LEMMA BlocksNest ==
  ASSUME NEW p \in Nat, NEW l \in Nat, Aligned(p, l),
         NEW q \in Nat, NEW m \in Nat, Aligned(q, m), m <= l,
         PagesOf(<<p, l>>) \intersect PagesOf(<<q, m>>) # {}
  PROVE  /\ PagesOf(<<q, m>>) \subseteq PagesOf(<<p, l>>)
         /\ p <= q /\ q + Size(m) <= p + Size(l)
<1> DEFINE t == Size(m)
<1>1. PICK d \in Nat \ {0} : Size(l) = d * t
  BY SizeDivides
<1>2. t \in Nat /\ t >= 1
  BY SizePositive
<1>3. PICK k \in Nat : p = k * (d * t)
  BY <1>1, AlignedIsMultiple
<1>4. PICK j \in Nat : q = j * t
  BY AlignedIsMultiple
<1>5. PICK x \in Int : /\ p <= x /\ x < p + d * t
                       /\ q <= x /\ x < q + t
  BY <1>1, <1>2 DEF PagesOf
<1> HIDE DEF t
<1>6. p = (k * d) * t /\ p + d * t = (k * d + d) * t /\ q + t = (j + 1) * t
  BY <1>2, <1>3, <1>4
<1>7. k * d \in Nat
  OBVIOUS
<1>8. k * d < j + 1
  <2>1. (k * d) * t < (j + 1) * t
    BY <1>2, <1>3, <1>4, <1>5, <1>6
  <2> QED BY <2>1, <1>2, <1>7
<1>9. j < k * d + d
  <2>1. j * t < (k * d + d) * t
    BY <1>2, <1>3, <1>4, <1>5, <1>6
  <2> QED BY <2>1, <1>2, <1>7
<1>10. (k * d) * t <= j * t /\ (j + 1) * t <= (k * d + d) * t
  BY <1>2, <1>7, <1>8, <1>9
<1>11. p <= q /\ q + t <= p + d * t
  BY <1>4, <1>6, <1>10
<1> QED BY <1>1, <1>2, <1>11 DEF PagesOf, t

(* The block that a page of it begins is that block, if it is not larger.  *)
LEMMA SameBegin ==
  ASSUME NEW p \in Nat, NEW l \in Nat, Aligned(p, l),
         NEW q \in Nat, NEW m \in Nat, Aligned(q, m), m <= l,
         p \in PagesOf(<<q, m>>)
  PROVE  q = p
<1>1. p \in PagesOf(<<p, l>>)
  BY SizePositive DEF PagesOf
<1>2. p <= q
  BY <1>1, BlocksNest
<1> QED BY <1>2, SizePositive DEF PagesOf

(* The buddies of a level make a block of the next one.                    *)
LEMMA Buddies ==
  ASSUME NEW p \in Nat, NEW l \in Nat, Aligned(p, l)
  PROVE  LET b == BuddyOf(p, l)
         IN  /\ b \in Nat /\ b # p /\ Aligned(b, l) /\ BuddyOf(b, l) = p
             /\ Aligned(Lower(p, b), l + 1)
             /\ PagesOf(<<Lower(p, b), l + 1>>) = PagesOf(<<p, l>>) \union PagesOf(<<b, l>>)
             /\ PagesOf(<<p, l>>) \intersect PagesOf(<<b, l>>) = {}
<1> DEFINE s == Size(l)
           k == p \div s
<1>1. s \in Nat /\ s >= 1 /\ Size(l + 1) = 2 * s
  BY SizePositive, Doubling
<1>2. k \in Nat /\ p = k * s
  BY AlignedIsMultiple
<1>3. CASE k % 2 = 0
  <2>1. PICK j \in Nat : k = 2 * j
    BY <1>2, <1>3
  <2>2. BuddyOf(p, l) = p + s
    BY <1>3 DEF BuddyOf
  <2>3. p + s = (k + 1) * s
    BY <1>1, <1>2
  <2>4. Aligned(p + s, l)
    BY <1>1, <1>2, <2>3, AlignedIsMultiple
  <2>5. BuddyOf(p + s, l) = p
    <3>1. (p + s) \div s = k + 1
      BY <1>1, <1>2, <2>3
    <3>2. (k + 1) % 2 # 0
      BY <2>1
    <3> QED BY <3>1, <3>2, <1>1, <1>2 DEF BuddyOf
  <2>6. Aligned(p, l + 1)
    <3>1. p = j * Size(l + 1)
      BY <1>1, <1>2, <2>1
    <3> QED BY <3>1, AlignedIsMultiple
  <2> QED BY <1>1, <1>2, <2>2, <2>4, <2>5, <2>6 DEF Lower, PagesOf
<1>4. CASE k % 2 # 0
  <2>1. PICK j \in Nat : k = 2 * j + 1
    BY <1>2, <1>4
  <2>2. BuddyOf(p, l) = p - s
    BY <1>4 DEF BuddyOf
  <2>3. p - s = (2 * j) * s /\ p - s \in Nat
    BY <1>1, <1>2, <2>1
  <2>4. Aligned(p - s, l)
    BY <1>1, <2>3, AlignedIsMultiple
  <2>5. BuddyOf(p - s, l) = p
    <3>1. (p - s) \div s = 2 * j
      BY <1>1, <2>3
    <3>2. (2 * j) % 2 = 0
      OBVIOUS
    <3> QED BY <3>1, <3>2, <1>1, <1>2 DEF BuddyOf
  <2>6. Aligned(p - s, l + 1)
    <3>1. p - s = j * Size(l + 1)
      BY <1>1, <2>3
    <3> QED BY <3>1, <2>3, AlignedIsMultiple
  <2> QED BY <1>1, <1>2, <2>2, <2>3, <2>4, <2>5, <2>6 DEF Lower, PagesOf
<1> QED BY <1>3, <1>4

(* Splitting a block down to a level leaves the block wanted and one upper *)
(* half of every level on the way; together they are the block.            *)
LEMMA Split ==
  ASSUME NEW p \in Nat, NEW l \in Nat, NEW w \in Nat, w <= l, Aligned(p, l)
  PROVE  /\ Aligned(p, w)
         /\ \A i \in w..l-1 : /\ Aligned(p + Size(i), i)
                              /\ BuddyOf(p + Size(i), i) = p
                              /\ Aligned(p, i)
                              /\ PagesOf(<<p + Size(i), i>>) \subseteq PagesOf(<<p, l>>)
                              /\ PagesOf(<<p + Size(i), i>>) \intersect PagesOf(<<p, w>>) = {}
         /\ PagesOf(<<p, w>>) \subseteq PagesOf(<<p, l>>)
         /\ \A x \in PagesOf(<<p, l>>) :
              \/ x \in PagesOf(<<p, w>>)
              \/ \E i \in w..l-1 : x \in PagesOf(<<p + Size(i), i>>)
<1>1. \A i \in 0..l : Aligned(p, i)
  <2>1. TAKE i \in 0..l
  <2>2. PICK d \in Nat \ {0} : Size(l) = d * Size(i)
    BY SizeDivides
  <2>3. PICK k \in Nat : p = k * Size(l)
    BY AlignedIsMultiple
  <2>4. p = (k * d) * Size(i) /\ k * d \in Nat
    BY <2>2, <2>3, SizePositive
  <2> QED BY <2>4, AlignedIsMultiple
<1>2. \A i \in 0..l-1 : /\ BuddyOf(p, i) = p + Size(i)
                        /\ Aligned(p + Size(i), i)
                        /\ BuddyOf(p + Size(i), i) = p
  <2>1. TAKE i \in 0..l-1
  <2>2. Aligned(p, i) /\ Aligned(p, i + 1)
    BY <1>1
  <2>3. PICK k \in Nat : p = k * Size(i + 1)
    BY <2>2, AlignedIsMultiple
  <2>4. p = (2 * k) * Size(i) /\ Size(i) \in Nat \ {0}
    BY <2>3, Doubling, SizePositive
  <2>5. p \div Size(i) = 2 * k
    <3> DEFINE s == Size(i)
    <3> HIDE DEF s
    <3>1. s \in Nat \ {0} /\ p = (2 * k) * s => p \div s = 2 * k
      OBVIOUS
    <3> QED BY <3>1, <2>4 DEF s
  <2>6. BuddyOf(p, i) = p + Size(i)
    BY <2>5 DEF BuddyOf
  <2>7. i \in Nat
    OBVIOUS
  <2>8. Aligned(BuddyOf(p, i), i) /\ BuddyOf(BuddyOf(p, i), i) = p
    BY <2>2, <2>7, Buddies, Zenon
  <2> QED BY <2>6, <2>8
<1>3. \A i \in Nat : Size(i) \in Nat /\ Size(i) >= 1 /\ Size(i + 1) = 2 * Size(i)
  BY SizePositive, Doubling
<1>4. \A i, j \in Nat : i <= j => Size(i) <= Size(j)
  BY SizeGrows
<1>5. \A i \in w..l-1 : /\ PagesOf(<<p + Size(i), i>>) \subseteq PagesOf(<<p, l>>)
                        /\ PagesOf(<<p + Size(i), i>>) \intersect PagesOf(<<p, w>>) = {}
  <2>1. TAKE i \in w..l-1
  <2>2. Size(w) <= Size(i) /\ 2 * Size(i) <= Size(l)
    <3>1. i \in Nat /\ i + 1 \in Nat /\ i + 1 <= l /\ w <= i
      OBVIOUS
    <3>2. Size(i + 1) <= Size(l)
      BY <3>1, <1>4
    <3>3. Size(w) <= Size(i)
      BY <3>1, <1>4
    <3>4. Size(i + 1) = 2 * Size(i)
      BY <3>1, <1>3
    <3> QED BY <3>2, <3>3, <3>4
  <2> QED BY <2>2, <1>3 DEF PagesOf
<1>8. PagesOf(<<p, w>>) \subseteq PagesOf(<<p, l>>)
  BY <1>3, <1>4 DEF PagesOf
<1>9. ASSUME NEW x \in PagesOf(<<p, l>>), x \notin PagesOf(<<p, w>>)
      PROVE  \E i \in w..l-1 : x \in PagesOf(<<p + Size(i), i>>)
  <2>1. x \in Int /\ p + Size(w) <= x /\ x < p + Size(l)
    BY <1>3, <1>9 DEF PagesOf
  <2> DEFINE within == {i \in w..l : p + Size(i) <= x}
  <2>2. within \subseteq 0..l /\ within # {}
    BY <2>1
  <2>3. PICK i \in within : \A j \in within : j <= i
    BY <2>2, GreatestNat
  <2>4. i # l
    BY <2>1, <2>3, <1>3
  <2>5. i + 1 \in w..l /\ i + 1 \notin within
    BY <2>3, <2>4
  <2>6. x < p + 2 * Size(i)
    BY <2>1, <2>5, <1>3
  <2>7. i \in w..l-1
    BY <2>3, <2>4
  <2> QED BY <2>1, <2>3, <2>6, <2>7, <1>3 DEF PagesOf
<1>10. w \in 0..l /\ \A i \in w..l-1 : i \in 0..l /\ i \in 0..l-1
  OBVIOUS
<1>11. \A x \in PagesOf(<<p, l>>) :
         \/ x \in PagesOf(<<p, w>>)
         \/ \E i \in w..l-1 : x \in PagesOf(<<p + Size(i), i>>)
  BY <1>9, Zenon
<1>12. Aligned(p, w) /\ \A i \in w..l-1 : Aligned(p, i)
  BY <1>1, <1>10, Zenon
<1>13. \A i \in w..l-1 : Aligned(p + Size(i), i) /\ BuddyOf(p + Size(i), i) = p
  BY <1>2, <1>10, Zenon
<1> QED BY <1>5, <1>8, <1>11, <1>12, <1>13, Zenon

(* The halves that splitting makes at two levels have no page in common.   *)
LEMMA HalvesApart ==
  ASSUME NEW p \in Nat, NEW i \in Nat, NEW j \in Nat, i # j
  PROVE  PagesOf(<<p + Size(i), i>>) \intersect PagesOf(<<p + Size(j), j>>) = {}
<1>1. /\ Size(i) \in Nat /\ Size(i + 1) = 2 * Size(i)
      /\ Size(j) \in Nat /\ Size(j + 1) = 2 * Size(j)
  BY SizePositive, Doubling
<1>2. CASE i < j
  <2>1. Size(i + 1) <= Size(j)
    BY <1>2, SizeGrows
  <2> QED BY <2>1, <1>1 DEF PagesOf
<1>3. CASE j < i
  <2>1. Size(j + 1) <= Size(i)
    BY <1>3, SizeGrows
  <2> QED BY <2>1, <1>1 DEF PagesOf
<1> QED BY <1>2, <1>3

(* A block that begins in the memory lies in the memory: n blocks of the   *)
(* highest level m.                                                        *)
LEMMA BlockWithin ==
  ASSUME NEW n \in Nat \ {0}, NEW m \in Nat,
         NEW p \in 0 .. n * Size(m) - 1, NEW l \in 0..m, Aligned(p, l)
  PROVE  p \in Nat /\ l \in Nat /\ PagesOf(<<p, l>>) \subseteq 0 .. n * Size(m) - 1
<1>1. l \in Nat /\ l <= m
  OBVIOUS
<1>2. PICK d \in Nat \ {0} : Size(m) = d * Size(l)
  BY <1>1, SizeDivides
<1> DEFINE s == Size(l)
           all == n * Size(m)
<1>3. s \in Nat /\ s >= 1
  BY <1>1, SizePositive
<1>4. all = (n * d) * s /\ n * d \in Nat
  BY <1>1, <1>2, <1>3
<1> HIDE DEF all
<1>5. all \in Nat /\ p \in 0..all-1
  BY <1>3, <1>4 DEF all
<1>6. p \in Nat /\ p < all
  BY <1>5
<1>7. PICK k \in Nat : p = k * s
  BY <1>1, <1>6, AlignedIsMultiple
<1> HIDE DEF s
<1>8. k < n * d
  BY <1>3, <1>4, <1>6, <1>7
<1>9. (k + 1) * s <= (n * d) * s
  BY <1>3, <1>4, <1>8
<1>10. p + s <= all
  BY <1>3, <1>4, <1>7, <1>9
<1>11. PagesOf(<<p, l>>) = p .. p + s - 1
  BY DEF PagesOf, s
<1>12. p .. p + s - 1 \subseteq 0..all-1
  BY <1>3, <1>5, <1>6, <1>10
<1> QED BY <1>1, <1>6, <1>11, <1>12 DEF all

(* So does its buddy, below the highest level.                             *)
LEMMA BuddyWithin ==
  ASSUME NEW n \in Nat \ {0}, NEW m \in Nat,
         NEW p \in 0 .. n * Size(m) - 1, NEW l \in 0..m, Aligned(p, l), l < m
  PROVE  /\ BuddyOf(p, l) \in 0 .. n * Size(m) - 1
         /\ Lower(p, BuddyOf(p, l)) \in 0 .. n * Size(m) - 1
<1> DEFINE b == BuddyOf(p, l)
           q == Lower(p, b)
           all == n * Size(m)
<1>1. p \in Nat /\ l \in Nat /\ l + 1 \in 0..m
  OBVIOUS
<1>2. /\ b \in Nat /\ Aligned(q, l + 1)
      /\ PagesOf(<<q, l + 1>>) = PagesOf(<<p, l>>) \union PagesOf(<<b, l>>)
  BY <1>1, Buddies
<1>3. q \in Nat /\ q <= p
  BY <1>1, <1>2 DEF Lower
<1>4. q \in 0..all-1
  <2>1. all \in Nat
    BY SizePositive
  <2> QED BY <2>1, <1>3
<1>5. PagesOf(<<q, l + 1>>) \subseteq 0..all-1
  BY <1>1, <1>2, <1>4, BlockWithin
<1>6. b \in PagesOf(<<b, l>>)
  BY <1>1, <1>2, SizePositive DEF PagesOf
<1> QED BY <1>2, <1>4, <1>5, <1>6
=============================================================================
