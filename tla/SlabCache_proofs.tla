-------------------------- MODULE SlabCache_proofs --------------------------
(***************************************************************************)
(* The slab cache over the links of the buddy system, for every number of  *)
(* pages, levels and objects of a page.                                    *)
(***************************************************************************)
EXTENDS SlabCache, NatLemmas

-----------------------------------------------------------------------------
(***************************************************************************)
(* Circular lists.  From a head the links go through at[1], ..., at[n] and *)
(* back; X is the set of these entries.                                    *)
(***************************************************************************)
Head == {Full, Partial} \union {Free(l) : l \in Order}

LinksType == [ok : BOOLEAN, next : [Node -> Node \union {Poison}],
              prev : [Node -> Node \union {Poison}]]

Walk(L, h, n, at) ==
  /\ at[0] = h /\ at[n+1] = h
  /\ \A i \in 0..n : L.next[at[i]] = at[i+1] /\ L.prev[at[i+1]] = at[i]
  /\ \A i \in 1..n : at[i] # h
  /\ \A i, j \in 1..n : at[i] = at[j] => i = j

Ring(L, h, X) ==
  \E n \in Nat, at \in [Nat -> Node] : Walk(L, h, n, at) /\ X = {at[i] : i \in 1..n}

Entries(S) == {Entry(p) : p \in S}

(* One ring becomes another, and no link elsewhere changes.                *)
RingStep(L, M, h, X, Y) ==
  /\ M \in LinksType /\ M.ok = L.ok /\ Ring(M, h, Y)
  /\ \A x \in Node : x # h /\ x \notin X \union Y
       => M.next[x] = L.next[x] /\ M.prev[x] = L.prev[x]

(* The lists of all heads: which pages each one holds.                     *)
Rings(L, F) ==
  /\ L \in LinksType /\ L.ok
  /\ F \in [Head -> SUBSET Page]
  /\ \A h \in Head : Ring(L, h, Entries(F[h]))
  /\ \A g, h \in Head : g # h => F[g] \intersect F[h] = {}

Unlisted(F, q) == \A h \in Head : q \notin F[h]

(* The lists become others, and the pages that were on none, p excepted,   *)
(* are linked as before.                                                   *)
ListStep(L, F, M, G, p) ==
  /\ Rings(M, G)
  /\ \A q \in Page : q # p /\ Unlisted(F, q) => M.next[Entry(q)] = L.next[Entry(q)]

(* Heads, entries and the poison are all different.                        *)
LEMMA Nodes ==
  /\ \A h \in Head : h \in Node
  /\ \A p \in Page : Entry(p) \in Node
  /\ \A p, q \in Page : Entry(p) = Entry(q) => p = q
  /\ \A h \in Head, p \in Page : Entry(p) # h
  /\ Poison \notin Node
  /\ Full \in Head /\ Partial \in Head /\ \A l \in Order : Free(l) \in Head
  /\ Full # Partial /\ \A l \in Order : Free(l) # Full /\ Free(l) # Partial
  /\ \A l, m \in Order : Free(l) = Free(m) => l = m
<1>1. \A h \in Head : h \in Node
  BY Zenon DEF Head, Node
<1>2. \A p \in Page : Entry(p) \in Node
  BY Zenon DEF Node
<1>3. \A p, q \in Page : Entry(p) = Entry(q) => p = q
  BY DEF Entry
<1>4. \A h \in Head, p \in Page : Entry(p) # h
  BY DEF Entry, Head, Full, Partial, Free
<1>5. Poison \notin Node
  BY DEF Poison, Node, Full, Partial, Free, Entry
<1>6. Full \in Head /\ Partial \in Head /\ \A l \in Order : Free(l) \in Head
  BY Zenon DEF Head
<1>7. Full # Partial /\ \A l \in Order : Free(l) # Full /\ Free(l) # Partial
  BY DEF Full, Partial, Free
<1>8. \A l, m \in Order : Free(l) = Free(m) => l = m
  BY DEF Free
<1> QED BY <1>1, <1>2, <1>3, <1>4, <1>5, <1>6, <1>7, <1>8, Zenon

-----------------------------------------------------------------------------
(* What the operations of list.h write.                                    *)
LEMMA InsertIs ==
  ASSUME NEW L \in LinksType, NEW n \in Node, NEW a \in Node, NEW b \in Node,
         n # a, n # b
  PROVE  LET M == Insert(L, n, a, b)
         IN  /\ M \in LinksType /\ M.ok = L.ok
             /\ M.next[a] = n /\ M.next[n] = b /\ M.prev[b] = n /\ M.prev[n] = a
             /\ \A x \in Node : x # n /\ x # a => M.next[x] = L.next[x]
             /\ \A x \in Node : x # n /\ x # b => M.prev[x] = L.prev[x]
<1>1. Poison \notin {a, b}
  BY Nodes
<1>2. PICK X, Y : /\ X = [L.next EXCEPT ![n] = b, ![a] = n]
                  /\ Y = [L.prev EXCEPT ![n] = a, ![b] = n]
  OBVIOUS
<1>3. Insert(L, n, a, b) = [L EXCEPT !.next = X, !.prev = Y]
  BY <1>1, <1>2, Zenon DEF Insert
<1>4. L.next \in [Node -> Node \union {Poison}] /\ L.prev \in [Node -> Node \union {Poison}]
  BY DEF LinksType
<1>5. X \in [Node -> Node \union {Poison}] /\ Y \in [Node -> Node \union {Poison}]
  BY <1>2, <1>4
<1>6. /\ X[a] = n /\ X[n] = b /\ Y[b] = n /\ Y[n] = a
      /\ \A x \in Node : x # n /\ x # a => X[x] = L.next[x]
      /\ \A x \in Node : x # n /\ x # b => Y[x] = L.prev[x]
  BY <1>2, <1>4
<1>7. PICK M : M = [L EXCEPT !.next = X, !.prev = Y]
  OBVIOUS
<1>8. M \in LinksType /\ M.next = X /\ M.prev = Y /\ M.ok = L.ok
  BY <1>5, <1>7 DEF LinksType
<1> QED BY <1>3, <1>6, <1>7, <1>8

(* Both ways to take an entry out leave its neighbours joined; they differ *)
(* in what the entry itself links to.                                      *)
LEMMA RemoveIs ==
  ASSUME NEW L \in LinksType, NEW n \in Node, NEW a \in Node, NEW b \in Node,
         L.prev[n] = a, L.next[n] = b, n # a, n # b,
         NEW M, M = list_del_init(L, n) \/ M = list_del(L, n)
  PROVE  /\ M \in LinksType /\ M.ok = L.ok
         /\ M.next[a] = b /\ M.prev[b] = a
         /\ \A x \in Node : x # n /\ x # a => M.next[x] = L.next[x]
         /\ \A x \in Node : x # n /\ x # b => M.prev[x] = L.prev[x]
         /\ M = list_del_init(L, n) => M.next[n] = n
<1>1. Poison \notin {L.prev[n], L.next[n]}
  BY Nodes
<1>2. PICK X, Y : X = [L.next EXCEPT ![a] = b] /\ Y = [L.prev EXCEPT ![b] = a]
  OBVIOUS
<1>3. L.next \in [Node -> Node \union {Poison}] /\ L.prev \in [Node -> Node \union {Poison}]
  BY DEF LinksType
<1>4. PICK J : J = [L EXCEPT !.next = X, !.prev = Y]
  OBVIOUS
<1>5. Joined(L, n) = J
  <2>1. Joined(L, n) = [L EXCEPT !.next[a] = b, !.prev[b] = a]
    BY <1>1, Zenon DEF Joined
  <2>2. [L EXCEPT !.next[a] = b, !.prev[b] = a] = J
    BY <1>2, <1>4 DEF LinksType
  <2> QED BY <2>1, <2>2
<1>6. X \in [Node -> Node \union {Poison}] /\ Y \in [Node -> Node \union {Poison}]
  BY <1>2, <1>3
<1>7. J \in LinksType /\ J.next = X /\ J.prev = Y /\ J.ok = L.ok
  BY <1>4, <1>6 DEF LinksType
<1>8. PICK v : /\ v \in Node \union {Poison}
               /\ M = [J EXCEPT !.prev[n] = v, !.next[n] = v]
               /\ M = list_del_init(L, n) => v = n
  <2>1. CASE M = list_del_init(L, n)
    <3>1. M = [J EXCEPT !.prev[n] = n, !.next[n] = n]
      BY <1>5, <2>1, Zenon DEF list_del_init
    <3> QED BY <3>1
  <2>2. CASE M # list_del_init(L, n)
    <3>1. M = [J EXCEPT !.prev[n] = Poison, !.next[n] = Poison]
      BY <1>5, <2>2, Zenon DEF list_del
    <3> QED BY <3>1, <2>2
  <2> QED BY <2>1, <2>2
<1>9. PICK P, Q : P = [X EXCEPT ![n] = v] /\ Q = [Y EXCEPT ![n] = v]
  OBVIOUS
<1>10. P \in [Node -> Node \union {Poison}] /\ Q \in [Node -> Node \union {Poison}]
  BY <1>6, <1>8, <1>9
<1>11. M \in LinksType /\ M.next = P /\ M.prev = Q /\ M.ok = L.ok
  BY <1>7, <1>8, <1>9, <1>10 DEF LinksType
<1>12. /\ P[a] = b /\ Q[b] = a /\ P[n] = v
       /\ \A x \in Node : x # n /\ x # a => P[x] = L.next[x]
       /\ \A x \in Node : x # n /\ x # b => Q[x] = L.prev[x]
  BY <1>2, <1>3, <1>6, <1>9
<1> QED BY <1>8, <1>11, <1>12

-----------------------------------------------------------------------------
(* Different steps meet different nodes; only the first and the last are   *)
(* the head.                                                               *)
LEMMA WalkOnce ==
  ASSUME NEW L, NEW h, NEW n \in Nat, NEW at, Walk(L, h, n, at)
  PROVE  /\ \A i, j \in 0..n : at[i] = at[j] => i = j
         /\ \A i, j \in 1..n+1 : at[i] = at[j] => i = j
<1>1. (\A i \in 0..n : i = 0 \/ i \in 1..n) /\ \A i \in 1..n+1 : i = n + 1 \/ i \in 1..n
  OBVIOUS
<1> QED BY <1>1, Zenon DEF Walk

(* A ring whose links are not touched is the same ring.                    *)
LEMMA RingFrame ==
  ASSUME NEW L, NEW M, NEW h, NEW X, Ring(L, h, X),
         \A x \in X \union {h} : M.next[x] = L.next[x] /\ M.prev[x] = L.prev[x]
  PROVE  Ring(M, h, X)
<1>1. PICK n \in Nat, at \in [Nat -> Node] : Walk(L, h, n, at) /\ X = {at[i] : i \in 1..n}
  BY DEF Ring
<1>2. \A i \in 0..n+1 : at[i] \in X \union {h}
  <2>1. \A i \in 0..n+1 : i \in 1..n \/ i = 0 \/ i = n + 1
    OBVIOUS
  <2>2. at[0] = h /\ at[n+1] = h
    BY <1>1 DEF Walk
  <2> QED BY <1>1, <2>1, <2>2
<1>3. \A i \in 0..n : i \in 0..n+1 /\ i + 1 \in 0..n+1
  OBVIOUS
<1>4. \A i \in 0..n : M.next[at[i]] = at[i+1] /\ M.prev[at[i+1]] = at[i]
  BY <1>1, <1>2, <1>3, Zenon DEF Walk
<1>5. Walk(M, h, n, at)
  BY <1>1, <1>4, Zenon DEF Walk
<1> QED BY <1>1, <1>5, Zenon DEF Ring

(* The head of a ring is followed by an entry, or by itself.               *)
LEMMA RingHead ==
  ASSUME NEW L, NEW h, NEW X, Ring(L, h, X)
  PROVE  /\ h \in Node /\ h \notin X /\ X \subseteq Node
         /\ L.next[h] \in X \union {h} /\ L.prev[h] \in X \union {h}
         /\ L.next[h] = h <=> X = {}
<1>1. PICK n \in Nat, at \in [Nat -> Node] : Walk(L, h, n, at) /\ X = {at[i] : i \in 1..n}
  BY DEF Ring
<1>2. at[0] = h /\ at[n+1] = h /\ 0 \in 0..n /\ n \in 0..n /\ 0 + 1 = 1
  BY <1>1 DEF Walk
<1>3. L.next[h] = at[1] /\ L.prev[h] = at[n]
  BY <1>1, <1>2 DEF Walk
<1>4. (n = 0 /\ X = {}) \/ (n # 0 /\ at[1] \in X /\ at[n] \in X)
  <2>1. n # 0 => 1 \in 1..n /\ n \in 1..n
    OBVIOUS
  <2>2. n = 0 => 1..n = {}
    OBVIOUS
  <2> QED BY <1>1, <2>1, <2>2
<1>5. h \notin X
  BY <1>1 DEF Walk
<1>6. h \in Node /\ X \subseteq Node
  BY <1>1, <1>2
<1> QED BY <1>2, <1>3, <1>4, <1>5, <1>6

(* list_add puts an entry behind the head.                                 *)
LEMMA RingAdd ==
  ASSUME NEW L \in LinksType, NEW h, NEW X, Ring(L, h, X),
         NEW e \in Node, e \notin X, e # h, NEW M, M = list_add(L, e, h)
  PROVE  RingStep(L, M, h, X, X \union {e})
<1>1. PICK n \in Nat, at \in [Nat -> Node] : Walk(L, h, n, at) /\ X = {at[i] : i \in 1..n}
  BY DEF Ring
<1>2. PICK b : b = L.next[h]
  OBVIOUS
<1>3. /\ at[0] = h /\ at[n+1] = h /\ at[1] = b
      /\ h \in Node /\ b \in Node /\ b \in X \union {h} /\ b # e
      /\ \A i \in 0..n : L.next[at[i]] = at[i+1] /\ L.prev[at[i+1]] = at[i]
      /\ \A i, j \in 0..n : at[i] = at[j] => i = j
      /\ \A i, j \in 1..n+1 : at[i] = at[j] => i = j
  <2>1. 0 \in 0..n /\ 0 + 1 = 1
    OBVIOUS
  <2>2. at[0] = h /\ at[n+1] = h /\ at[1] = b
    BY <1>1, <1>2, <2>1 DEF Walk
  <2>3. h \in Node /\ b \in Node /\ b \in X \union {h}
    BY <1>2, RingHead
  <2>4. \A i \in 0..n : L.next[at[i]] = at[i+1] /\ L.prev[at[i+1]] = at[i]
    BY <1>1 DEF Walk
  <2> QED BY <1>1, <2>2, <2>3, <2>4, WalkOnce
<1>4. \A i \in 0..n+1 : at[i] # e /\ at[i] \in Node
  <2>1. \A i \in 0..n+1 : i \in 1..n \/ i = 0 \/ i = n + 1
    OBVIOUS
  <2> QED BY <1>1, <1>3, <2>1
<1>5. /\ M \in LinksType /\ M.ok = L.ok
      /\ M.next[h] = e /\ M.next[e] = b /\ M.prev[b] = e /\ M.prev[e] = h
      /\ \A x \in Node : x # e /\ x # h => M.next[x] = L.next[x]
      /\ \A x \in Node : x # e /\ x # b => M.prev[x] = L.prev[x]
  <2>1. M = Insert(L, e, h, b)
    BY <1>2 DEF list_add
  <2>2. e # h /\ e # b
    BY <1>3
  <2>3. h \in Node /\ b \in Node
    BY <1>3
  <2>4. LET N == Insert(L, e, h, b)
        IN  /\ N \in LinksType /\ N.ok = L.ok
            /\ N.next[h] = e /\ N.next[e] = b /\ N.prev[b] = e /\ N.prev[e] = h
            /\ \A x \in Node : x # e /\ x # h => N.next[x] = L.next[x]
            /\ \A x \in Node : x # e /\ x # b => N.prev[x] = L.prev[x]
    BY <2>2, <2>3, InsertIs
  <2> QED BY <2>1, <2>4, Zenon
<1>6. PICK to : to = [i \in Nat |-> IF i = 0 THEN h ELSE IF i = 1 THEN e ELSE at[i-1]]
  OBVIOUS
<1>7. /\ to \in [Nat -> Node] /\ to[0] = h /\ to[1] = e
      /\ \A i \in Nat : i >= 2 => to[i] = at[i-1]
  BY <1>3, <1>6
<1>8. ASSUME NEW i \in 0..n+1
      PROVE  M.next[to[i]] = to[i+1] /\ M.prev[to[i+1]] = to[i]
  <2>1. CASE i = 0
    BY <1>5, <1>7, <2>1
  <2>2. CASE i = 1
    <3>1. to[2] = at[1]
      BY <1>7
    <3> QED BY <1>3, <1>5, <1>7, <2>2, <3>1
  <2>3. CASE i \in 2..n+1
    <3>1. to[i] = at[i-1] /\ to[i+1] = at[i]
      BY <1>7, <2>3
    <3>2. /\ i - 1 \in 0..n /\ (i - 1) + 1 = i /\ i - 1 # 0 /\ i # 1 /\ i \in 1..n+1
          /\ 1 \in 1..n+1 /\ i \in 0..n+1 /\ i - 1 \in 0..n+1 /\ 0 \in 0..n
      BY <2>3
    <3>3. L.next[at[i-1]] = at[i] /\ L.prev[at[i]] = at[i-1]
      BY <1>3, <3>2
    <3>4. at[i-1] # h /\ at[i-1] # e /\ at[i-1] \in Node
      BY <1>3, <1>4, <3>2
    <3>5. at[i] # b /\ at[i] # e /\ at[i] \in Node
      BY <1>3, <1>4, <3>2
    <3> QED BY <1>5, <3>1, <3>3, <3>4, <3>5
  <2> QED BY <2>1, <2>2, <2>3
<1>9. Walk(M, h, n+1, to)
  <2>1. to[n+2] = h
    BY <1>3, <1>7
  <2>2. \A i \in 1..n+1 : to[i] # h
    <3>1. TAKE i \in 1..n+1
    <3>2. CASE i = 1
      BY <1>7, <3>2
    <3>3. CASE i # 1
      <4>1. to[i] = at[i-1] /\ i - 1 \in 1..n
        BY <1>7, <3>3
      <4> QED BY <1>1, <4>1 DEF Walk
    <3> QED BY <3>2, <3>3
  <2>3. ASSUME NEW i \in 1..n+1, NEW j \in 1..n+1, to[i] = to[j]
        PROVE  i = j
    <3>1. \A k \in 1..n+1 : k # 1 => to[k] = at[k-1] /\ k - 1 \in 0..n /\ k - 1 \in 0..n+1
      BY <1>7
    <3>2. i - 1 = j - 1 => i = j
      OBVIOUS
    <3> QED BY <1>3, <1>4, <1>7, <2>3, <3>1, <3>2
  <2>4. (n + 1) + 1 = n + 2
    OBVIOUS
  <2> QED BY <1>7, <1>8, <2>1, <2>2, <2>3, <2>4 DEF Walk
<1>10. X \union {e} = {to[i] : i \in 1..n+1}
  <2>1. ASSUME NEW i \in 1..n PROVE at[i] = to[i+1] /\ i + 1 \in 1..n+1
    BY <1>7
  <2>2. to[1] = e /\ 1 \in 1..n+1
    BY <1>7
  <2>3. ASSUME NEW i \in 1..n+1 PROVE to[i] \in X \union {e}
    <3>1. i # 1 => to[i] = at[i-1] /\ i - 1 \in 1..n
      BY <1>7
    <3> QED BY <1>1, <2>2, <3>1
  <2> QED BY <1>1, <2>1, <2>2, <2>3
<1>11. Ring(M, h, X \union {e})
  <2>1. n + 1 \in Nat
    OBVIOUS
  <2> QED BY <1>7, <1>9, <1>10, <2>1, Zenon DEF Ring
<1>12. \A x \in Node : x # h /\ x # e /\ x \notin X
          => M.next[x] = L.next[x] /\ M.prev[x] = L.prev[x]
  BY <1>3, <1>5
<1> QED BY <1>5, <1>11, <1>12 DEF RingStep

(* list_add_tail puts one before it.                                       *)
LEMMA RingAddTail ==
  ASSUME NEW L \in LinksType, NEW h, NEW X, Ring(L, h, X),
         NEW e \in Node, e \notin X, e # h, NEW M, M = list_add_tail(L, e, h)
  PROVE  RingStep(L, M, h, X, X \union {e})
<1>1. PICK n \in Nat, at \in [Nat -> Node] : Walk(L, h, n, at) /\ X = {at[i] : i \in 1..n}
  BY DEF Ring
<1>2. PICK a : a = L.prev[h]
  OBVIOUS
<1>3. /\ at[0] = h /\ at[n+1] = h /\ at[n] = a
      /\ h \in Node /\ a \in Node /\ a \in X \union {h} /\ a # e
      /\ \A i \in 0..n : L.next[at[i]] = at[i+1] /\ L.prev[at[i+1]] = at[i]
      /\ \A i, j \in 0..n : at[i] = at[j] => i = j
      /\ \A i, j \in 1..n+1 : at[i] = at[j] => i = j
  <2>1. n \in 0..n
    OBVIOUS
  <2>2. at[0] = h /\ at[n+1] = h /\ at[n] = a
    BY <1>1, <1>2, <2>1 DEF Walk
  <2>3. h \in Node /\ a \in Node /\ a \in X \union {h}
    BY <1>2, RingHead
  <2>4. \A i \in 0..n : L.next[at[i]] = at[i+1] /\ L.prev[at[i+1]] = at[i]
    BY <1>1 DEF Walk
  <2> QED BY <1>1, <2>2, <2>3, <2>4, WalkOnce
<1>4. \A i \in 0..n+1 : at[i] # e /\ at[i] \in Node
  <2>1. \A i \in 0..n+1 : i \in 1..n \/ i = 0 \/ i = n + 1
    OBVIOUS
  <2> QED BY <1>1, <1>3, <2>1
<1>5. /\ M \in LinksType /\ M.ok = L.ok
      /\ M.next[a] = e /\ M.next[e] = h /\ M.prev[h] = e /\ M.prev[e] = a
      /\ \A x \in Node : x # e /\ x # a => M.next[x] = L.next[x]
      /\ \A x \in Node : x # e /\ x # h => M.prev[x] = L.prev[x]
  <2>1. M = Insert(L, e, a, h)
    BY <1>2 DEF list_add_tail
  <2>2. e # h /\ e # a
    BY <1>3
  <2>3. h \in Node /\ a \in Node
    BY <1>3
  <2>4. LET N == Insert(L, e, a, h)
        IN  /\ N \in LinksType /\ N.ok = L.ok
            /\ N.next[a] = e /\ N.next[e] = h /\ N.prev[h] = e /\ N.prev[e] = a
            /\ \A x \in Node : x # e /\ x # a => N.next[x] = L.next[x]
            /\ \A x \in Node : x # e /\ x # h => N.prev[x] = L.prev[x]
    BY <2>2, <2>3, InsertIs
  <2> QED BY <2>1, <2>4, Zenon
<1>6. PICK to : to = [i \in Nat |-> IF i <= n THEN at[i] ELSE IF i = n + 1 THEN e ELSE h]
  OBVIOUS
<1>7. /\ to \in [Nat -> Node] /\ to[n+1] = e /\ to[n+2] = h
      /\ \A i \in 0..n : to[i] = at[i]
  <2>1. \A i \in Nat : i <= n => i \in 0..n
    OBVIOUS
  <2> QED BY <1>3, <1>4, <1>6, <2>1
<1>8. ASSUME NEW i \in 0..n+1
      PROVE  M.next[to[i]] = to[i+1] /\ M.prev[to[i+1]] = to[i]
  <2>1. CASE i = n + 1
    <3>1. i + 1 = n + 2
      BY <2>1
    <3> QED BY <1>5, <1>7, <2>1, <3>1
  <2>2. CASE i = n
    <3>1. n \in 0..n
      OBVIOUS
    <3> QED BY <1>3, <1>5, <1>7, <2>2, <3>1
  <2>3. CASE i \in 0..n-1
    <3>1. to[i] = at[i] /\ to[i+1] = at[i+1]
      BY <1>7, <2>3
    <3>2. /\ i \in 0..n /\ n \in 0..n /\ i # n /\ i + 1 # n + 1
          /\ i + 1 \in 1..n+1 /\ n + 1 \in 1..n+1 /\ i \in 0..n+1 /\ i + 1 \in 0..n+1
      BY <2>3
    <3>3. L.next[at[i]] = at[i+1] /\ L.prev[at[i+1]] = at[i]
      BY <1>3, <3>2
    <3>4. at[i] # a /\ at[i] # e /\ at[i] \in Node
      BY <1>3, <1>4, <3>2
    <3>5. at[i+1] # h /\ at[i+1] # e /\ at[i+1] \in Node
      BY <1>3, <1>4, <3>2
    <3> QED BY <1>5, <3>1, <3>3, <3>4, <3>5
  <2>4. i = n + 1 \/ i = n \/ i \in 0..n-1
    OBVIOUS
  <2> QED BY <2>1, <2>2, <2>3, <2>4
<1>9. Walk(M, h, n+1, to)
  <2>1. to[0] = h
    BY <1>3, <1>7
  <2>2. \A i \in 1..n+1 : to[i] # h
    <3>1. TAKE i \in 1..n+1
    <3>2. CASE i = n + 1
      BY <1>7, <3>2
    <3>3. CASE i # n + 1
      <4>1. to[i] = at[i] /\ i \in 1..n
        BY <1>7, <3>3
      <4> QED BY <1>1, <4>1 DEF Walk
    <3> QED BY <3>2, <3>3
  <2>3. ASSUME NEW i \in 1..n+1, NEW j \in 1..n+1, to[i] = to[j]
        PROVE  i = j
    <3>1. \A k \in 1..n+1 : k # n + 1 => to[k] = at[k] /\ k \in 0..n /\ k \in 0..n+1
      BY <1>7
    <3> QED BY <1>3, <1>4, <1>7, <2>3, <3>1
  <2>4. (n + 1) + 1 = n + 2
    OBVIOUS
  <2> QED BY <1>7, <1>8, <2>1, <2>2, <2>3, <2>4 DEF Walk
<1>10. X \union {e} = {to[i] : i \in 1..n+1}
  <2>1. ASSUME NEW i \in 1..n PROVE at[i] = to[i] /\ i \in 1..n+1
    BY <1>7
  <2>2. to[n+1] = e /\ n + 1 \in 1..n+1
    BY <1>7
  <2>3. ASSUME NEW i \in 1..n+1 PROVE to[i] \in X \union {e}
    <3>1. i # n + 1 => to[i] = at[i] /\ i \in 1..n
      BY <1>7
    <3> QED BY <1>1, <2>2, <3>1
  <2> QED BY <1>1, <2>1, <2>2, <2>3
<1>11. Ring(M, h, X \union {e})
  <2>1. n + 1 \in Nat
    OBVIOUS
  <2> QED BY <1>7, <1>9, <1>10, <2>1, Zenon DEF Ring
<1>12. \A x \in Node : x # h /\ x # e /\ x \notin X
          => M.next[x] = L.next[x] /\ M.prev[x] = L.prev[x]
  BY <1>3, <1>5
<1> QED BY <1>5, <1>11, <1>12 DEF RingStep

(* Taking an entry out of a ring.                                          *)
LEMMA RingRemove ==
  ASSUME NEW L \in LinksType, NEW h, NEW X, Ring(L, h, X), NEW e, e \in X,
         NEW M, M = list_del_init(L, e) \/ M = list_del(L, e)
  PROVE  /\ RingStep(L, M, h, X, X \ {e})
         /\ M = list_del_init(L, e) => M.next[e] = e
<1>1. PICK n \in Nat, at \in [Nat -> Node] : Walk(L, h, n, at) /\ X = {at[i] : i \in 1..n}
  BY DEF Ring
<1>2. PICK k \in 1..n : at[k] = e
  BY <1>1
<1>3. PICK a, b : a = at[k-1] /\ b = at[k+1]
  OBVIOUS
<1>4. /\ at[0] = h /\ at[n+1] = h
      /\ \A i \in 0..n : L.next[at[i]] = at[i+1] /\ L.prev[at[i+1]] = at[i]
      /\ \A i, j \in 0..n : at[i] = at[j] => i = j
      /\ \A i, j \in 1..n+1 : at[i] = at[j] => i = j
  BY <1>1, WalkOnce DEF Walk
<1>5. /\ k - 1 \in 0..n /\ k \in 0..n /\ k \in 1..n+1 /\ k + 1 \in 1..n+1
      /\ (k - 1) + 1 = k /\ k - 1 # k /\ k + 1 # k
  OBVIOUS
<1>6. /\ L.next[e] = b /\ L.prev[e] = a /\ e # a /\ e # b
      /\ e \in Node /\ a \in Node /\ b \in Node
  <2>1. L.next[at[k]] = at[k+1] /\ L.prev[at[(k-1)+1]] = at[k-1]
    BY <1>4, <1>5
  <2>2. at[k] # at[k-1] /\ at[k] # at[k+1]
    BY <1>4, <1>5
  <2>3. at[k] \in Node /\ at[k-1] \in Node /\ at[k+1] \in Node
    OBVIOUS
  <2> QED BY <1>2, <1>3, <1>5, <2>1, <2>2, <2>3
<1>7. /\ M \in LinksType /\ M.ok = L.ok /\ M.next[a] = b /\ M.prev[b] = a
      /\ \A x \in Node : x # e /\ x # a => M.next[x] = L.next[x]
      /\ \A x \in Node : x # e /\ x # b => M.prev[x] = L.prev[x]
      /\ M = list_del_init(L, e) => M.next[e] = e
  BY <1>6, RemoveIs
<1>8. PICK to : to = [i \in Nat |-> IF i < k THEN at[i] ELSE at[i+1]]
  OBVIOUS
<1>9. /\ to \in [Nat -> Node]
      /\ \A i \in 0..k-1 : to[i] = at[i]
      /\ \A i \in k..n : to[i] = at[i+1]
  BY <1>8
<1>10. ASSUME NEW i \in 0..n-1
       PROVE  M.next[to[i]] = to[i+1] /\ M.prev[to[i+1]] = to[i]
  <2>1. CASE i \in 0..k-2
    <3>1. to[i] = at[i] /\ to[i+1] = at[i+1]
      BY <1>9, <2>1
    <3>2. /\ i \in 0..n /\ k \in 0..n /\ i # k /\ i # k - 1 /\ i + 1 # k /\ i + 1 # k + 1
          /\ i + 1 \in 1..n+1
      BY <2>1
    <3>3. L.next[at[i]] = at[i+1] /\ L.prev[at[i+1]] = at[i]
      BY <1>4, <3>2
    <3>4. at[i] # a /\ at[i] # e /\ at[i] \in Node
      BY <1>2, <1>3, <1>4, <1>5, <3>2
    <3>5. at[i+1] # b /\ at[i+1] # e /\ at[i+1] \in Node
      BY <1>2, <1>3, <1>4, <1>5, <3>2
    <3> QED BY <1>7, <3>1, <3>3, <3>4, <3>5
  <2>2. CASE i = k - 1
    <3>1. to[i] = at[k-1] /\ to[i+1] = at[k+1]
      BY <1>9, <2>2
    <3> QED BY <1>3, <1>7, <3>1
  <2>3. CASE i \in k..n-1
    <3>1. to[i] = at[i+1] /\ to[i+1] = at[i+2]
      BY <1>9, <2>3
    <3>2. /\ i + 1 \in 0..n /\ k \in 0..n /\ i + 1 # k /\ i + 1 # k - 1 /\ i + 2 # k /\ i + 2 # k + 1
          /\ i + 2 \in 1..n+1 /\ (i + 1) + 1 = i + 2
      BY <2>3
    <3>3. L.next[at[i+1]] = at[i+2] /\ L.prev[at[i+2]] = at[i+1]
      BY <1>4, <3>2
    <3>4. at[i+1] # a /\ at[i+1] # e /\ at[i+1] \in Node
      BY <1>2, <1>3, <1>4, <1>5, <3>2
    <3>5. at[i+2] # b /\ at[i+2] # e /\ at[i+2] \in Node
      BY <1>2, <1>3, <1>4, <1>5, <3>2
    <3> QED BY <1>7, <3>1, <3>3, <3>4, <3>5
  <2>4. i \in 0..k-2 \/ i = k - 1 \/ i \in k..n-1
    OBVIOUS
  <2> QED BY <2>1, <2>2, <2>3, <2>4
<1>11. \A i \in 1..n-1 : \E j \in 1..n : /\ to[i] = at[j] /\ j # k
                                         /\ (j = i /\ i < k) \/ (j = i + 1 /\ k <= i)
  <2>1. TAKE i \in 1..n-1
  <2>2. CASE i < k
    BY <1>9, <2>2
  <2>3. CASE k <= i
    <3>1. i + 1 \in 1..n /\ i + 1 # k /\ to[i] = at[i+1]
      BY <1>9, <2>3
    <3> QED BY <2>3, <3>1
  <2> QED BY <2>2, <2>3
<1>12. Walk(M, h, n-1, to)
  <2>1. to[0] = h /\ to[n] = h
    <3>1. 0 \in 0..k-1 /\ n \in k..n
      OBVIOUS
    <3> QED BY <1>4, <1>9, <3>1
  <2>2. \A i \in 1..n-1 : to[i] # h
    BY <1>1, <1>11 DEF Walk
  <2>3. ASSUME NEW i \in 1..n-1, NEW j \in 1..n-1, to[i] = to[j]
        PROVE  i = j
    <3>1. PICK u \in 1..n : to[i] = at[u] /\ ((u = i /\ i < k) \/ (u = i + 1 /\ k <= i))
      BY <1>11
    <3>2. PICK v \in 1..n : to[j] = at[v] /\ ((v = j /\ j < k) \/ (v = j + 1 /\ k <= j))
      BY <1>11
    <3>3. u = v
      <4>1. \A x, y \in 1..n : at[x] = at[y] => x = y
        BY <1>1, Zenon DEF Walk
      <4> QED BY <2>3, <3>1, <3>2, <4>1, Zenon
    <3> QED BY <3>1, <3>2, <3>3
  <2>4. (n - 1) + 1 = n
    OBVIOUS
  <2> QED BY <1>10, <2>1, <2>2, <2>3, <2>4 DEF Walk
<1>13. X \ {e} = {to[i] : i \in 1..n-1}
  <2>1. ASSUME NEW x \in X, x # e PROVE \E i \in 1..n-1 : x = to[i]
    <3>1. PICK j \in 1..n : x = at[j]
      BY <1>1
    <3>2. j # k
      BY <1>2, <2>1, <3>1
    <3>3. CASE j < k
      <4>1. j \in 1..n-1 /\ j \in 0..k-1
        BY <3>3
      <4> QED BY <1>9, <3>1, <4>1
    <3>4. CASE j > k
      <4>1. j - 1 \in 1..n-1 /\ j - 1 \in k..n /\ (j - 1) + 1 = j
        BY <3>4
      <4>2. to[j-1] = at[j]
        BY <1>9, <4>1
      <4> QED BY <3>1, <4>1, <4>2
    <3> QED BY <3>2, <3>3, <3>4
  <2>2. ASSUME NEW i \in 1..n-1 PROVE to[i] \in X /\ to[i] # e
    <3>1. PICK j \in 1..n : to[i] = at[j] /\ j # k
      BY <1>11
    <3>2. at[j] # at[k]
      BY <1>1, <3>1 DEF Walk
    <3> QED BY <1>1, <1>2, <3>1, <3>2
  <2> QED BY <2>1, <2>2
<1>14. Ring(M, h, X \ {e})
  <2>1. n - 1 \in Nat
    OBVIOUS
  <2> QED BY <1>9, <1>12, <1>13, <2>1, Zenon DEF Ring
<1>15. a \in X \union {h} /\ b \in X \union {h}
  <2>1. (k - 1 = 0 \/ k - 1 \in 1..n) /\ (k + 1 = n + 1 \/ k + 1 \in 1..n)
    OBVIOUS
  <2> QED BY <1>1, <1>3, <1>4, <2>1
<1>16. \A x \in Node : x # h /\ x \notin X
          => M.next[x] = L.next[x] /\ M.prev[x] = L.prev[x]
  BY <1>7, <1>15
<1> QED BY <1>7, <1>14, <1>16 DEF RingStep

-----------------------------------------------------------------------------
(***************************************************************************)
(* The lists of pages.                                                     *)
(***************************************************************************)
LEMMA EntriesOf ==
  ASSUME NEW S, S \subseteq Page
  PROVE  /\ \A p \in Page : Entry(p) \in Entries(S) <=> p \in S
         /\ \A p \in Page : Entries(S \union {p}) = Entries(S) \union {Entry(p)}
         /\ \A p \in Page : Entries(S \ {p}) = Entries(S) \ {Entry(p)}
         /\ Entries(S) = {} <=> S = {}
         /\ \A h \in Head : h \notin Entries(S)
         /\ \A x \in Entries(S) : \E p \in S : x = Entry(p)
<1>1. \A p, q \in Page : Entry(p) = Entry(q) => p = q
  BY Nodes, Zenon
<1>2. \A h \in Head, p \in Page : Entry(p) # h
  BY Nodes, Zenon
<1>3. \A p \in Page : Entry(p) \in Entries(S) <=> p \in S
  BY <1>1, Zenon DEF Entries
<1>4. \A h \in Head : h \notin Entries(S)
  BY <1>2, Zenon DEF Entries
<1>5. \A x \in Entries(S) : \E p \in S : x = Entry(p)
  BY Zenon DEF Entries
<1>6. \A p \in Page : Entries(S \union {p}) = Entries(S) \union {Entry(p)}
  BY DEF Entries
<1>7. \A p \in Page : Entries(S \ {p}) = Entries(S) \ {Entry(p)}
  <2>1. TAKE p \in Page
  <2>2. ASSUME NEW x \in Entries(S \ {p}) PROVE x \in Entries(S) \ {Entry(p)}
    <3>1. PICK q \in S \ {p} : x = Entry(q)
      BY DEF Entries
    <3>2. q \in S /\ q \in Page /\ q # p
      BY <3>1
    <3> QED BY <1>1, <1>3, <3>1, <3>2
  <2>3. ASSUME NEW x \in Entries(S) \ {Entry(p)} PROVE x \in Entries(S \ {p})
    <3>1. PICK q \in S : x = Entry(q)
      BY DEF Entries
    <3>2. q # p
      BY <3>1
    <3> QED BY <3>1, <3>2 DEF Entries
  <2> QED BY <2>2, <2>3
<1>8. Entries(S) = {} <=> S = {}
  BY DEF Entries
<1> QED BY <1>3, <1>4, <1>5, <1>6, <1>7, <1>8, Zenon

(* A change that stays within one list, and a page that no list holds.     *)
LEMMA RingsChange ==
  ASSUME NEW L, NEW F, Rings(L, F), NEW h \in Head, NEW p \in Page,
         \A g \in Head : g # h => p \notin F[g],
         NEW S, S \subseteq F[h] \union {p},
         NEW M, RingStep(L, M, h, Entries(F[h]), Entries(S))
  PROVE  ListStep(L, F, M, [F EXCEPT ![h] = S], p)
<1>1. F \in [Head -> SUBSET Page] /\ F[h] \subseteq Page /\ S \subseteq Page
  BY DEF Rings
<1>2. PICK G : G = [F EXCEPT ![h] = S]
  OBVIOUS
<1>3. G \in [Head -> SUBSET Page] /\ G[h] = S /\ \A g \in Head : g # h => G[g] = F[g]
  BY <1>1, <1>2
<1>4. \A q \in Page : q # p /\ q \notin F[h] =>
        /\ M.next[Entry(q)] = L.next[Entry(q)] /\ M.prev[Entry(q)] = L.prev[Entry(q)]
  <2>1. TAKE q \in Page
  <2>2. HAVE q # p /\ q \notin F[h]
  <2>3. Entry(q) \in Node /\ Entry(q) # h
    BY <2>2, Nodes
  <2>4. Entry(q) \notin Entries(F[h]) /\ Entry(q) \notin Entries(S)
    BY <1>1, <2>2, EntriesOf
  <2> QED BY <2>3, <2>4 DEF RingStep
<1>5. ASSUME NEW g \in Head, g # h PROVE Ring(M, g, Entries(G[g]))
  <2>1. Ring(L, g, Entries(F[g])) /\ F[g] \subseteq Page /\ F[g] \intersect F[h] = {}
        /\ p \notin F[g]
    BY <1>1, <1>5 DEF Rings
  <2>2. ASSUME NEW x \in Entries(F[g])
        PROVE  M.next[x] = L.next[x] /\ M.prev[x] = L.prev[x]
    <3>1. PICK q \in F[g] : x = Entry(q)
      BY DEF Entries
    <3>2. q \in Page /\ q # p /\ q \notin F[h]
      BY <2>1, <3>1
    <3> QED BY <1>4, <3>1, <3>2
  <2>3. M.next[g] = L.next[g] /\ M.prev[g] = L.prev[g]
    <3>1. g \in Node
      BY Nodes
    <3>2. g \notin Entries(F[h]) /\ g \notin Entries(S)
      BY <1>1, EntriesOf
    <3> QED BY <1>5, <3>1, <3>2 DEF RingStep
  <2>4. \A x \in Entries(F[g]) \union {g} : M.next[x] = L.next[x] /\ M.prev[x] = L.prev[x]
    BY <2>2, <2>3
  <2>5. Ring(M, g, Entries(F[g]))
    BY <2>1, <2>4, RingFrame
  <2> QED BY <1>3, <1>5, <2>5
<1>6. \A g \in Head : Ring(M, g, Entries(G[g]))
  BY <1>3, <1>5 DEF RingStep
<1>7. \A g, k \in Head : g # k => G[g] \intersect G[k] = {}
  <2>1. \A g \in Head : g # h => F[g] \intersect S = {}
    <3>1. TAKE g \in Head
    <3>2. HAVE g # h
    <3>3. F[g] \intersect F[h] = {} /\ p \notin F[g]
      BY <3>2 DEF Rings
    <3> QED BY <3>3
  <2>2. \A g, k \in Head : g # k => F[g] \intersect F[k] = {}
    BY DEF Rings
  <2> QED BY <1>3, <2>1, <2>2
<1>8. M \in LinksType /\ M.ok
  BY DEF Rings, RingStep
<1>9. Rings(M, G)
  BY <1>3, <1>6, <1>7, <1>8 DEF Rings
<1> QED BY <1>2, <1>4, <1>9 DEF ListStep, Unlisted

(* A page that is on no list put on one.                                   *)
LEMMA ListAdd ==
  ASSUME NEW L, NEW F, Rings(L, F), NEW h \in Head, NEW p \in Page, Unlisted(F, p),
         NEW M, M = list_add(L, Entry(p), h) \/ M = list_add_tail(L, Entry(p), h)
  PROVE  ListStep(L, F, M, [F EXCEPT ![h] = F[h] \union {p}], p)
<1>1. L \in LinksType /\ Ring(L, h, Entries(F[h])) /\ F[h] \subseteq Page
  BY DEF Rings
<1>2. Entry(p) \in Node /\ Entry(p) # h /\ Entry(p) \notin Entries(F[h])
  BY <1>1, Nodes, EntriesOf DEF Unlisted
<1>3. RingStep(L, M, h, Entries(F[h]), Entries(F[h]) \union {Entry(p)})
  BY <1>1, <1>2, RingAdd, RingAddTail
<1>4. Entries(F[h] \union {p}) = Entries(F[h]) \union {Entry(p)}
  BY <1>1, EntriesOf, Zenon
<1>5. PICK S : S = F[h] \union {p}
  OBVIOUS
<1>6. RingStep(L, M, h, Entries(F[h]), Entries(S)) /\ S \subseteq F[h] \union {p}
  BY <1>3, <1>4, <1>5
<1>7. ListStep(L, F, M, [F EXCEPT ![h] = S], p)
  BY <1>6, RingsChange DEF Unlisted
<1> QED BY <1>5, <1>7

(* A page taken off its list.                                              *)
LEMMA ListDel ==
  ASSUME NEW L, NEW F, Rings(L, F), NEW h \in Head, NEW p \in Page, p \in F[h],
         NEW M, M = list_del_init(L, Entry(p)) \/ M = list_del(L, Entry(p))
  PROVE  /\ ListStep(L, F, M, [F EXCEPT ![h] = F[h] \ {p}], p)
         /\ M = list_del_init(L, Entry(p)) => M.next[Entry(p)] = Entry(p)
<1>1. L \in LinksType /\ Ring(L, h, Entries(F[h])) /\ F[h] \subseteq Page
  BY DEF Rings
<1>2. Entry(p) \in Entries(F[h])
  BY <1>1, EntriesOf
<1>3. RingStep(L, M, h, Entries(F[h]), Entries(F[h]) \ {Entry(p)})
  BY <1>1, <1>2, RingRemove
<1>4. M = list_del_init(L, Entry(p)) => M.next[Entry(p)] = Entry(p)
  BY <1>1, <1>2, <1>3, RingRemove
<1>5. Entries(F[h] \ {p}) = Entries(F[h]) \ {Entry(p)}
  BY <1>1, EntriesOf
<1>6. PICK S : S = F[h] \ {p}
  OBVIOUS
<1>7. RingStep(L, M, h, Entries(F[h]), Entries(S)) /\ S \subseteq F[h] \union {p}
  BY <1>3, <1>5, <1>6
<1>8. \A g \in Head : g # h => p \notin F[g]
  BY DEF Rings
<1>9. ListStep(L, F, M, [F EXCEPT ![h] = S], p)
  BY <1>7, <1>8, RingsChange
<1> QED BY <1>4, <1>6, <1>9

(* list_empty, and the page of a list's first entry.                       *)
LEMMA ListFirst ==
  ASSUME NEW L, NEW F, Rings(L, F), NEW h \in Head
  PROVE  /\ list_empty(L, h) <=> F[h] = {}
         /\ F[h] # {} => FirstPage(L, h) \in F[h]
<1>1. Ring(L, h, Entries(F[h])) /\ F[h] \subseteq Page
  BY DEF Rings
<1>2. L.next[h] \in Entries(F[h]) \union {h} /\ (L.next[h] = h <=> Entries(F[h]) = {})
  BY <1>1, RingHead
<1>3. Entries(F[h]) = {} <=> F[h] = {}
  BY <1>1, EntriesOf
<1>4. ASSUME F[h] # {} PROVE FirstPage(L, h) \in F[h]
  <2>1. L.next[h] \in Entries(F[h])
    BY <1>2, <1>3, <1>4
  <2>2. PICK p \in F[h] : L.next[h] = Entry(p)
    BY <2>1 DEF Entries
  <2>3. p \in Page
    BY <1>1, <2>2
  <2>4. FirstPage(L, h) = CHOOSE q \in Page : Entry(q) = Entry(p)
    BY <2>2 DEF FirstPage
  <2>5. \A q \in Page : Entry(q) = Entry(p) => q = p
    BY <2>3, Nodes
  <2>6. FirstPage(L, h) = p
    BY <2>3, <2>4, <2>5
  <2> QED BY <2>6
<1> QED BY <1>2, <1>3, <1>4 DEF list_empty

-----------------------------------------------------------------------------
(***************************************************************************)
(* How the memory is divided in blocks: lev[p] is the level of the block   *)
(* that begins at page p, or -1 when none does.  The field bplevel agrees  *)
(* with it where a block begins and may hold anything elsewhere.           *)
(***************************************************************************)
Tiles(lev) ==
  /\ lev \in [Page -> Order \union {-1}]
  /\ \A p \in Page : lev[p] # -1 => Aligned(p, lev[p])
  /\ \A p, q \in Page : lev[p] # -1 /\ q \in PagesOf(<<p, lev[p]>>) /\ q # p => lev[q] = -1
  /\ \A q \in Page : \E p \in Page : lev[p] # -1 /\ q \in PagesOf(<<p, lev[p]>>)

(* The size of the memory, and the numbers of its pages and levels.        *)
LEMMA Numbers ==
  /\ NPAGE \in Nat \ {0} /\ Page \subseteq Nat /\ 0 \in Page /\ -1 \notin Page
  /\ Order \subseteq Nat /\ MAX_BUDDY_ORDER \in Order /\ 0 \in Order /\ -1 \notin Order
  /\ \A l \in Order : l <= MAX_BUDDY_ORDER
  /\ \A l \in Order : l < MAX_BUDDY_ORDER => l + 1 \in Order
  /\ NBLOCK \in Nat \ {0} /\ MAX_BUDDY_ORDER \in Nat
<1>1. MAX_BUDDY_ORDER \in Nat /\ NBLOCK \in Nat \ {0}
  BY BlockAssumption
<1>2. Size(MAX_BUDDY_ORDER) \in Nat /\ Size(MAX_BUDDY_ORDER) >= 1
  BY <1>1, SizePositive
<1>3. NPAGE \in Nat \ {0}
  <2>1. \A n \in Nat \ {0}, s \in Nat : s >= 1 => n * s \in Nat \ {0}
    OBVIOUS
  <2> QED BY <1>1, <1>2, <2>1 DEF NPAGE
<1>4. Page \subseteq Nat /\ 0 \in Page /\ -1 \notin Page
  BY <1>3 DEF Page
<1>5. /\ Order \subseteq Nat /\ MAX_BUDDY_ORDER \in Order /\ 0 \in Order /\ -1 \notin Order
      /\ \A l \in Order : l <= MAX_BUDDY_ORDER
      /\ \A l \in Order : l < MAX_BUDDY_ORDER => l + 1 \in Order
  BY <1>1 DEF Order
<1> QED BY <1>1, <1>3, <1>4, <1>5

(* A block that begins in the memory is in it.                             *)
LEMMA InMemory ==
  ASSUME NEW p \in Page, NEW l \in Order, Aligned(p, l)
  PROVE  /\ p \in Nat /\ l \in Nat /\ PagesOf(<<p, l>>) \subseteq Page
         /\ p \in PagesOf(<<p, l>>)
<1>1. NBLOCK \in Nat \ {0} /\ MAX_BUDDY_ORDER \in Nat /\ l \in 0..MAX_BUDDY_ORDER
  BY Numbers DEF Order
<1>2. Page = 0 .. NBLOCK * Size(MAX_BUDDY_ORDER) - 1
  BY DEF Page, NPAGE
<1>3. p \in Nat /\ l \in Nat /\ PagesOf(<<p, l>>) \subseteq Page
  BY <1>1, <1>2, BlockWithin
<1>4. p \in PagesOf(<<p, l>>)
  BY <1>3, SizePositive DEF PagesOf
<1> QED BY <1>3, <1>4

(* So is its buddy.                                                        *)
LEMMA BuddyPage ==
  ASSUME NEW p \in Page, NEW l \in Order, Aligned(p, l), l < MAX_BUDDY_ORDER
  PROVE  BuddyOf(p, l) \in Page /\ Lower(p, BuddyOf(p, l)) \in Page
<1>1. NBLOCK \in Nat \ {0} /\ MAX_BUDDY_ORDER \in Nat /\ l \in 0..MAX_BUDDY_ORDER
  BY Numbers DEF Order
<1>2. Page = 0 .. NBLOCK * Size(MAX_BUDDY_ORDER) - 1
  BY DEF Page, NPAGE
<1> QED BY <1>1, <1>2, BuddyWithin

(* What holds of a page where a block begins.                              *)
LEMMA HeadFacts ==
  ASSUME NEW lev, Tiles(lev), NEW p \in Page, lev[p] # -1
  PROVE  /\ p \in Nat /\ lev[p] \in Order /\ lev[p] \in Nat /\ Aligned(p, lev[p])
         /\ p \in PagesOf(<<p, lev[p]>>) /\ PagesOf(<<p, lev[p]>>) \subseteq Page
<1>1. lev[p] \in Order /\ Aligned(p, lev[p])
  BY DEF Tiles
<1> QED BY <1>1, InMemory

(* Different blocks have no page in common.                                *)
LEMMA BlocksApart ==
  ASSUME NEW lev, Tiles(lev), NEW p \in Page, NEW q \in Page, p # q,
         lev[p] # -1, lev[q] # -1
  PROVE  PagesOf(<<p, lev[p]>>) \intersect PagesOf(<<q, lev[q]>>) = {}
<1>1. /\ p \in Nat /\ lev[p] \in Nat /\ Aligned(p, lev[p]) /\ p \in PagesOf(<<p, lev[p]>>)
      /\ q \in Nat /\ lev[q] \in Nat /\ Aligned(q, lev[q]) /\ q \in PagesOf(<<q, lev[q]>>)
  BY HeadFacts
<1>2. q \notin PagesOf(<<p, lev[p]>>) /\ p \notin PagesOf(<<q, lev[q]>>)
  BY DEF Tiles
<1>3. lev[p] <= lev[q] \/ lev[q] <= lev[p]
  BY <1>1
<1>4. CASE lev[q] <= lev[p]
  BY <1>1, <1>2, <1>4, BlocksNest
<1>5. CASE lev[p] <= lev[q]
  BY <1>1, <1>2, <1>5, BlocksNest
<1> QED BY <1>3, <1>4, <1>5

(* Whole blocks divided anew.                                              *)
LEMMA Retile ==
  ASSUME NEW lev, Tiles(lev), NEW new \in [Page -> Order \union {-1}],
         NEW X, X \subseteq Page,
         \A q \in Page \ X : new[q] = lev[q],
         \A q \in Page \ X : lev[q] # -1 => PagesOf(<<q, lev[q]>>) \intersect X = {},
         \A p \in X : lev[p] # -1 => PagesOf(<<p, lev[p]>>) \subseteq X,
         \A p \in X : new[p] # -1 => Aligned(p, new[p]) /\ PagesOf(<<p, new[p]>>) \subseteq X,
         \A p, q \in X : new[p] # -1 /\ q \in PagesOf(<<p, new[p]>>) /\ q # p => new[q] = -1,
         \A q \in X : \E p \in X : new[p] # -1 /\ q \in PagesOf(<<p, new[p]>>)
  PROVE  Tiles(new)
<1>1. \A p \in Page : new[p] # -1 => Aligned(p, new[p])
  BY DEF Tiles
<1>2. ASSUME NEW p \in Page, NEW q \in Page, new[p] # -1, q \in PagesOf(<<p, new[p]>>), q # p
      PROVE  new[q] = -1
  <2>1. CASE p \in X
    BY <1>2, <2>1
  <2>2. CASE p \notin X
    <3>1. new[p] = lev[p]
      BY <2>2
    <3>2. q \notin X
      BY <1>2, <2>2, <3>1
    <3> QED BY <1>2, <3>1, <3>2 DEF Tiles
  <2> QED BY <2>1, <2>2
<1>3. ASSUME NEW q \in Page
      PROVE  \E p \in Page : new[p] # -1 /\ q \in PagesOf(<<p, new[p]>>)
  <2>1. CASE q \in X
    BY <2>1
  <2>2. CASE q \notin X
    <3>1. PICK p \in Page : lev[p] # -1 /\ q \in PagesOf(<<p, lev[p]>>)
      BY DEF Tiles
    <3>2. p \notin X
      BY <2>2, <3>1
    <3> QED BY <3>1, <3>2
  <2> QED BY <2>1, <2>2
<1> QED BY <1>1, <1>2, <1>3 DEF Tiles

(* A block becomes two.                                                    *)
LEMMA SplitTile ==
  ASSUME NEW lev, Tiles(lev), NEW p \in Page, NEW k \in Nat, lev[p] = k + 1
  PROVE  LET b == p + Size(k)
         IN  /\ b \in Page /\ b # p /\ lev[b] = -1
             /\ Tiles([lev EXCEPT ![p] = k, ![b] = k])
<1>1. /\ p \in Nat /\ k + 1 \in Order /\ Aligned(p, k + 1) /\ k + 1 \in Nat
      /\ p \in PagesOf(<<p, k + 1>>) /\ PagesOf(<<p, k + 1>>) \subseteq Page
  <2>1. lev[p] # -1
    OBVIOUS
  <2> QED BY <2>1, HeadFacts
<1>2. k \in Order
  BY <1>1, Numbers DEF Order
<1>3. PICK b : b = p + Size(k)
  OBVIOUS
<1>4. /\ Aligned(p, k) /\ Aligned(b, k)
      /\ PagesOf(<<b, k>>) \subseteq PagesOf(<<p, k + 1>>)
      /\ PagesOf(<<p, k>>) \subseteq PagesOf(<<p, k + 1>>)
      /\ PagesOf(<<b, k>>) \intersect PagesOf(<<p, k>>) = {}
      /\ \A x \in PagesOf(<<p, k + 1>>) : x \in PagesOf(<<p, k>>) \/ x \in PagesOf(<<b, k>>)
  <2>1. PICK l : l = k + 1
    OBVIOUS
  <2>2. l \in Nat /\ k <= l /\ k \in k..l-1 /\ (\A i \in k..l-1 : i = k) /\ Aligned(p, l)
    BY <1>1, <2>1
  <2>5. /\ Aligned(p, k)
        /\ \A i \in k..l-1 : /\ Aligned(p + Size(i), i)
                             /\ BuddyOf(p + Size(i), i) = p
                             /\ Aligned(p, i)
                             /\ PagesOf(<<p + Size(i), i>>) \subseteq PagesOf(<<p, l>>)
                             /\ PagesOf(<<p + Size(i), i>>) \intersect PagesOf(<<p, k>>) = {}
        /\ PagesOf(<<p, k>>) \subseteq PagesOf(<<p, l>>)
        /\ \A x \in PagesOf(<<p, l>>) :
             \/ x \in PagesOf(<<p, k>>)
             \/ \E i \in k..l-1 : x \in PagesOf(<<p + Size(i), i>>)
    BY <1>1, <2>2, Split, Zenon
  <2>3. /\ Aligned(b, k) /\ PagesOf(<<b, k>>) \subseteq PagesOf(<<p, k + 1>>)
        /\ PagesOf(<<b, k>>) \intersect PagesOf(<<p, k>>) = {}
    BY <1>3, <2>1, <2>2, <2>5
  <2>4. \A x \in PagesOf(<<p, k + 1>>) : x \in PagesOf(<<p, k>>) \/ x \in PagesOf(<<b, k>>)
    BY <1>3, <2>1, <2>2, <2>5, Zenon
  <2> QED BY <2>1, <2>3, <2>4, <2>5
<1>5. b \in Nat /\ b # p /\ b \in PagesOf(<<b, k>>) /\ p \in PagesOf(<<p, k>>)
  <2>1. Size(k) \in Nat /\ Size(k) >= 1
    BY SizePositive
  <2> QED BY <1>1, <1>3, <2>1 DEF PagesOf
<1>6. b \in PagesOf(<<p, k + 1>>) /\ b \in Page
  BY <1>1, <1>4, <1>5
<1>7. lev[b] = -1
  BY <1>1, <1>5, <1>6 DEF Tiles
<1>8. PICK new : new = [lev EXCEPT ![p] = k, ![b] = k]
  OBVIOUS
<1>9. /\ new \in [Page -> Order \union {-1}] /\ new[p] = k /\ new[b] = k
      /\ \A q \in Page : q # p /\ q # b => new[q] = lev[q]
  <2>1. lev \in [Page -> Order \union {-1}]
    BY DEF Tiles
  <2> QED BY <1>2, <1>5, <1>6, <1>8, <2>1
<1>10. Tiles(new)
  <2>1. PICK X : X = PagesOf(<<p, k + 1>>)
    OBVIOUS
  <2>2. X \subseteq Page /\ p \in X /\ b \in X
    BY <1>1, <1>6, <2>1, Zenon
  <2>3. \A q \in X : q # p => lev[q] = -1
    BY <1>1, <2>1, <2>2 DEF Tiles
  <2>4. \A q \in Page \ X : new[q] = lev[q]
    BY <1>9, <2>2
  <2>5. \A q \in Page \ X : lev[q] # -1 => PagesOf(<<q, lev[q]>>) \intersect X = {}
    BY <2>1, <2>2, BlocksApart
  <2>6. \A q \in X : lev[q] # -1 => PagesOf(<<q, lev[q]>>) \subseteq X
    BY <2>1, <2>2, <2>3
  <2>7. k # -1
    OBVIOUS
  <2>8. \A q \in X : new[q] # -1 => q = p \/ q = b
    BY <1>9, <2>2, <2>3
  <2>9. \A q \in X : new[q] # -1 => Aligned(q, new[q]) /\ PagesOf(<<q, new[q]>>) \subseteq X
    BY <1>4, <1>9, <2>1, <2>8
  <2>10. ASSUME NEW q \in X, NEW r \in X, new[q] # -1, r \in PagesOf(<<q, new[q]>>), r # q
         PROVE  new[r] = -1
    <3>1. new[q] = k /\ (q = p \/ q = b)
      BY <1>9, <2>8, <2>10
    <3>2. r # p /\ r # b
      BY <1>4, <1>5, <2>10, <3>1
    <3> QED BY <2>8, <2>10, <3>2
  <2>11. \A q \in X : \E r \in X : new[r] # -1 /\ q \in PagesOf(<<r, new[r]>>)
    BY <1>4, <1>9, <2>1, <2>2, <2>7
  <2> QED BY <1>9, <2>2, <2>4, <2>5, <2>6, <2>9, <2>10, <2>11, Retile
<1> QED BY <1>3, <1>5, <1>6, <1>7, <1>8, <1>10

(* Two buddies become one block.                                           *)
LEMMA JoinTile ==
  ASSUME NEW lev, Tiles(lev), NEW p \in Page, NEW k \in Order, lev[p] = k,
         k < MAX_BUDDY_ORDER, NEW b, b = BuddyOf(p, k), lev[b] = k
  PROVE  /\ b \in Page /\ b # p /\ Lower(p, b) \in {p, b}
         /\ Tiles([lev EXCEPT ![p] = -1, ![b] = -1, ![Lower(p, b)] = k + 1])
<1>1. /\ p \in Nat /\ k \in Nat /\ Aligned(p, k) /\ k # -1 /\ k + 1 \in Order
      /\ p \in PagesOf(<<p, k>>)
  <2>1. k \in Nat /\ k # -1 /\ k + 1 \in Order
    BY Numbers
  <2> QED BY <2>1, HeadFacts
<1>2. b \in Page /\ Lower(p, b) \in Page
  BY <1>1, BuddyPage
<1>3. b \in PagesOf(<<b, k>>)
  BY <1>1, <1>2, HeadFacts
<1>4. PICK c : c = Lower(p, b)
  OBVIOUS
<1>5. /\ b # p /\ Aligned(c, k + 1)
      /\ PagesOf(<<c, k + 1>>) = PagesOf(<<p, k>>) \union PagesOf(<<b, k>>)
  <2>1. LET d == BuddyOf(p, k)
        IN  /\ d # p /\ Aligned(Lower(p, d), k + 1)
            /\ PagesOf(<<Lower(p, d), k + 1>>) = PagesOf(<<p, k>>) \union PagesOf(<<d, k>>)
    BY <1>1, Buddies
  <2> QED BY <1>4, <2>1
<1>6. c \in {p, b} /\ c \in Page
  BY <1>2, <1>4 DEF Lower
<1>7. PICK new : new = [lev EXCEPT ![p] = -1, ![b] = -1, ![c] = k + 1]
  OBVIOUS
<1>8. /\ new \in [Page -> Order \union {-1}] /\ new[c] = k + 1
      /\ \A q \in {p, b} : q # c => new[q] = -1
      /\ \A q \in Page : q # p /\ q # b => new[q] = lev[q]
  <2>1. lev \in [Page -> Order \union {-1}]
    BY DEF Tiles
  <2> QED BY <1>1, <1>2, <1>6, <1>7, <2>1
<1>9. Tiles(new)
  <2>1. PICK X : X = PagesOf(<<c, k + 1>>)
    OBVIOUS
  <2>2. X \subseteq Page /\ p \in X /\ b \in X /\ c \in X
    BY <1>1, <1>3, <1>5, <1>6, <2>1, InMemory
  <2>3. \A q \in X : q # p /\ q # b => lev[q] = -1
    BY <1>1, <1>2, <1>5, <2>1, <2>2 DEF Tiles
  <2>4. \A q \in Page \ X : new[q] = lev[q]
    BY <1>8, <2>2
  <2>5. ASSUME NEW q \in Page \ X, lev[q] # -1
        PROVE  PagesOf(<<q, lev[q]>>) \intersect X = {}
    <3>1. q # p /\ q # b
      BY <2>2
    <3>2. /\ PagesOf(<<q, lev[q]>>) \intersect PagesOf(<<p, k>>) = {}
          /\ PagesOf(<<q, lev[q]>>) \intersect PagesOf(<<b, k>>) = {}
      BY <1>1, <1>2, <2>5, <3>1, BlocksApart
    <3> QED BY <1>5, <2>1, <3>2
  <2>6. \A q \in X : lev[q] # -1 => PagesOf(<<q, lev[q]>>) \subseteq X
    BY <1>5, <2>1, <2>2, <2>3
  <2>7. \A q \in X : new[q] # -1 => q = c
    BY <1>8, <2>2, <2>3
  <2>8. \A q \in X : new[q] # -1 => Aligned(q, new[q]) /\ PagesOf(<<q, new[q]>>) \subseteq X
    BY <1>5, <1>8, <2>1, <2>7
  <2>9. \A q, r \in X : new[q] # -1 /\ r \in PagesOf(<<q, new[q]>>) /\ r # q => new[r] = -1
    BY <2>7
  <2>10. k + 1 # -1
    BY <1>1
  <2>11. \A q \in X : \E r \in X : new[r] # -1 /\ q \in PagesOf(<<r, new[r]>>)
    BY <1>8, <2>1, <2>2, <2>10
  <2> QED BY <1>8, <2>2, <2>4, <2>5, <2>6, <2>8, <2>9, <2>11, Retile
<1> QED BY <1>2, <1>4, <1>5, <1>6, <1>7, <1>9

(* A page that says it begins a block of level k does when its buddy       *)
(* begins one: it cannot be inside a larger block.                         *)
LEMMA BuddyIsHead ==
  ASSUME NEW lev, Tiles(lev), NEW p \in Page, NEW k \in Order, lev[p] = k,
         k < MAX_BUDDY_ORDER, NEW b, b = BuddyOf(p, k),
         NEW field, \A q \in Page : lev[q] # -1 => field[q] = lev[q],
         field[b] = k
  PROVE  lev[b] = k
<1>1. /\ p \in Nat /\ k \in Nat /\ Aligned(p, k) /\ k # -1 /\ k + 1 \in Order /\ k + 1 \in Nat
      /\ p \in PagesOf(<<p, k>>)
  <2>1. k \in Nat /\ k # -1 /\ k + 1 \in Order /\ k + 1 \in Nat
    BY Numbers
  <2> QED BY <2>1, HeadFacts
<1>2. b \in Page /\ Lower(p, b) \in Page /\ b \in Nat /\ Lower(p, b) \in Nat
  BY <1>1, BuddyPage, Numbers
<1>3. /\ b # p /\ Aligned(b, k) /\ Aligned(Lower(p, b), k + 1)
      /\ PagesOf(<<Lower(p, b), k + 1>>) = PagesOf(<<p, k>>) \union PagesOf(<<b, k>>)
  <2>1. LET d == BuddyOf(p, k)
        IN  /\ d # p /\ Aligned(d, k) /\ Aligned(Lower(p, d), k + 1)
            /\ PagesOf(<<Lower(p, d), k + 1>>) = PagesOf(<<p, k>>) \union PagesOf(<<d, k>>)
    BY <1>1, Buddies
  <2> QED BY <2>1
<1>4. b \in PagesOf(<<b, k>>)
  BY <1>1, <1>2, <1>3, InMemory
<1>5. PICK h \in Page : lev[h] # -1 /\ b \in PagesOf(<<h, lev[h]>>)
  BY <1>2 DEF Tiles
<1>6. h \in Nat /\ lev[h] \in Nat /\ Aligned(h, lev[h])
  BY <1>5, HeadFacts
<1>7. CASE lev[h] <= k
  <2>1. h = b
    BY <1>1, <1>2, <1>3, <1>5, <1>6, <1>7, SameBegin
  <2> QED BY <1>5, <2>1
<1>8. CASE k < lev[h]
  <2>1. k + 1 <= lev[h]
    BY <1>1, <1>6, <1>8
  <2>2. b \in PagesOf(<<Lower(p, b), k + 1>>)
    BY <1>3, <1>4
  <2>3. PagesOf(<<Lower(p, b), k + 1>>) \subseteq PagesOf(<<h, lev[h]>>)
    BY <1>1, <1>2, <1>3, <1>5, <1>6, <2>1, <2>2, BlocksNest
  <2>4. p \in PagesOf(<<h, lev[h]>>)
    BY <1>1, <1>3, <2>3
  <2>5. p = h
    BY <1>1, <1>5, <2>4 DEF Tiles
  <2> QED BY <1>1, <1>8, <2>5
<1> QED BY <1>1, <1>6, <1>7, <1>8

-----------------------------------------------------------------------------
(***************************************************************************)
(* The recursive functions of the model are what their definitions say.    *)
(***************************************************************************)

LEMMA HalvedIs ==
  ASSUME NEW L, NEW p, NEW l \in Nat, NEW k \in Nat, l <= k
  PROVE  LET H == Halved(L, p, l, k)
         IN  /\ H[k] = list_del_init(L, Entry(p))
             /\ \A j \in l..k-1 : H[j] = list_add(H[j+1], Entry(p + Size(j)), Free(j))
<1> DEFINE Turn(g, j) == IF j = k THEN list_del_init(L, Entry(p))
                         ELSE list_add(g[j+1], Entry(p + Size(j)), Free(j))
           E(d) == \E g : g = [j \in k-d..k |-> Turn(g, j)]
           S == {d \in Nat : E(d)}
<1>1. E(0)
  <2>1. PICK v : v = list_del_init(L, Entry(p))
    OBVIOUS
  <2>2. PICK g : g = [j \in k-0..k |-> v]
    OBVIOUS
  <2>3. \A j \in k-0..k : Turn(g, j) = v
    BY <2>1
  <2> HIDE DEF Turn
  <2>4. g = [j \in k-0..k |-> Turn(g, j)]
    BY <2>2, <2>3
  <2> QED BY <2>4
<1>2. ASSUME NEW d \in Nat, E(d) PROVE E(d + 1)
  <2>1. PICK g : g = [j \in k-d..k |-> Turn(g, j)]
    BY <1>2
  <2>2. PICK s : s = k - (d + 1)
    OBVIOUS
  <2>3. s \in Int /\ s < k /\ s + 1 = k - d
    BY <2>2
  <2>4. PICK f : f = [j \in s..k |-> IF j = s THEN Turn(g, j) ELSE g[j]]
    OBVIOUS
  <2>5. \A j \in s..k : j = s \/ j \in k-d..k
    BY <2>3
  <2>6. \A j \in s..k : j + 1 # s /\ (j = k \/ j + 1 \in s..k)
    BY <2>3
  <2>7. \A j \in s..k : j = k \/ f[j+1] = g[j+1]
    BY <2>4, <2>6
  <2>8. \A j \in s..k : Turn(f, j) = Turn(g, j)
    BY <2>7
  <2> HIDE DEF Turn
  <2>9. \A j \in k-d..k : g[j] = Turn(g, j)
    BY <2>1
  <2>10. \A j \in s..k : f[j] = Turn(f, j)
    BY <2>4, <2>5, <2>8, <2>9
  <2>11. f = [j \in s..k |-> f[j]]
    BY <2>4
  <2>12. f = [j \in s..k |-> Turn(f, j)]
    BY <2>10, <2>11
  <2> QED BY <2>2, <2>12
<1>3. \A d : d \in S <=> d \in Nat /\ E(d)
  OBVIOUS
<1> HIDE DEF E, S
<1>4. E(k - l)
  <2>1. 0 \in S /\ \A d \in Nat : d \in S => d + 1 \in S
    BY <1>1, <1>2, <1>3
  <2>2. \A d \in Nat : d \in S
    BY <2>1, AllNat
  <2>3. k - l \in Nat
    OBVIOUS
  <2> QED BY <1>3, <2>2, <2>3
<1>5. k - (k - l) = l
  OBVIOUS
<1>6. \E g : g = [j \in l..k |-> Turn(g, j)]
  BY <1>4, <1>5 DEF E
<1>7. PICK H : H = Halved(L, p, l, k)
  OBVIOUS
<1>8. H = [j \in l..k |-> Turn(H, j)]
  <2>1. Halved(L, p, l, k) = CHOOSE h : h = [j \in l..k |-> Turn(h, j)]
    BY DEF Halved
  <2> HIDE DEF Turn
  <2> QED BY <1>6, <1>7, <2>1
<1>9. \A j \in l..k : H[j] = Turn(H, j)
  <2> HIDE DEF Turn
  <2> QED BY <1>8
<1>10. k \in l..k /\ \A j \in l..k-1 : j \in l..k /\ j # k
  OBVIOUS
<1> QED BY <1>7, <1>9, <1>10

LEMMA UnlinkedIs ==
  ASSUME NEW L, NEW p, NEW l \in Nat, NEW top \in Nat, l <= top
  PROVE  LET U == Unlinked(L, p, l, top)
         IN  /\ U[l] = L
             /\ \A k \in l..top-1 :
                  U[k+1] = list_del_init(U[k], Entry(BuddyOf(FirstOf(p, k), k)))
<1> DEFINE Turn(g, k) == IF k = l THEN L
                         ELSE list_del_init(g[k-1], Entry(BuddyOf(FirstOf(p, k-1), k-1)))
           E(d) == \E g : g = [k \in l..l+d |-> Turn(g, k)]
           S == {d \in Nat : E(d)}
<1>1. E(0)
  <2>1. PICK g : g = [k \in l..l+0 |-> L]
    OBVIOUS
  <2>2. \A k \in l..l+0 : Turn(g, k) = L
    OBVIOUS
  <2> HIDE DEF Turn
  <2>3. g = [k \in l..l+0 |-> Turn(g, k)]
    BY <2>1, <2>2
  <2> QED BY <2>3
<1>2. ASSUME NEW d \in Nat, E(d) PROVE E(d + 1)
  <2>1. PICK g : g = [k \in l..l+d |-> Turn(g, k)]
    BY <1>2
  <2>2. PICK s : s = l + (d + 1)
    OBVIOUS
  <2>3. s \in Int /\ l < s /\ s - 1 = l + d
    BY <2>2
  <2>4. PICK f : f = [k \in l..s |-> IF k = s THEN Turn(g, k) ELSE g[k]]
    OBVIOUS
  <2>5. \A k \in l..s : k = s \/ k \in l..l+d
    BY <2>3
  <2>6. \A k \in l..s : k - 1 # s /\ (k = l \/ k - 1 \in l..s)
    BY <2>3
  <2>7. \A k \in l..s : k = l \/ f[k-1] = g[k-1]
    BY <2>4, <2>6
  <2>8. \A k \in l..s : Turn(f, k) = Turn(g, k)
    BY <2>7
  <2> HIDE DEF Turn
  <2>9. \A k \in l..l+d : g[k] = Turn(g, k)
    BY <2>1
  <2>10. \A k \in l..s : f[k] = Turn(f, k)
    BY <2>4, <2>5, <2>8, <2>9
  <2>11. f = [k \in l..s |-> f[k]]
    BY <2>4
  <2>12. f = [k \in l..s |-> Turn(f, k)]
    BY <2>10, <2>11
  <2> QED BY <2>2, <2>12
<1>3. \A d : d \in S <=> d \in Nat /\ E(d)
  OBVIOUS
<1> HIDE DEF E, S
<1>4. E(top - l)
  <2>1. 0 \in S /\ \A d \in Nat : d \in S => d + 1 \in S
    BY <1>1, <1>2, <1>3
  <2>2. \A d \in Nat : d \in S
    BY <2>1, AllNat
  <2>3. top - l \in Nat
    OBVIOUS
  <2> QED BY <1>3, <2>2, <2>3
<1>5. l + (top - l) = top
  OBVIOUS
<1>6. \E g : g = [k \in l..top |-> Turn(g, k)]
  BY <1>4, <1>5 DEF E
<1>7. PICK U : U = Unlinked(L, p, l, top)
  OBVIOUS
<1>8. U = [k \in l..top |-> Turn(U, k)]
  <2>1. Unlinked(L, p, l, top) = CHOOSE u : u = [k \in l..top |-> Turn(u, k)]
    BY DEF Unlinked
  <2> HIDE DEF Turn
  <2> QED BY <1>6, <1>7, <2>1
<1>9. \A k \in l..top : U[k] = Turn(U, k)
  <2> HIDE DEF Turn
  <2> QED BY <1>8
<1>10. /\ l \in l..top
       /\ \A k \in l..top-1 : k + 1 \in l..top /\ k + 1 # l /\ (k + 1) - 1 = k
  OBVIOUS
<1> QED BY <1>7, <1>9, <1>10

LEMMA ChainIs ==
  ASSUME NEW p
  PROVE  LET c == Chain(p)
         IN  /\ c[1] = freeobj[p]
             /\ \A n \in 2..MaxObject : c[n] = behind[c[n-1]]
<1> DEFINE Turn(g, n) == IF n = 1 THEN freeobj[p] ELSE behind[g[n-1]]
           E(d) == \E g : g = [n \in 1..1+d |-> Turn(g, n)]
           S == {d \in Nat : E(d)}
<1>1. E(0)
  <2>1. PICK g : g = [n \in 1..1+0 |-> freeobj[p]]
    OBVIOUS
  <2>2. \A n \in 1..1+0 : Turn(g, n) = freeobj[p]
    OBVIOUS
  <2> HIDE DEF Turn
  <2>3. g = [n \in 1..1+0 |-> Turn(g, n)]
    BY <2>1, <2>2
  <2> QED BY <2>3
<1>2. ASSUME NEW d \in Nat, E(d) PROVE E(d + 1)
  <2>1. PICK g : g = [n \in 1..1+d |-> Turn(g, n)]
    BY <1>2
  <2>2. PICK s : s = 1 + (d + 1)
    OBVIOUS
  <2>3. s \in Int /\ 1 < s /\ s - 1 = 1 + d
    BY <2>2
  <2>4. PICK f : f = [n \in 1..s |-> IF n = s THEN Turn(g, n) ELSE g[n]]
    OBVIOUS
  <2>5. \A n \in 1..s : n = s \/ n \in 1..1+d
    BY <2>3
  <2>6. \A n \in 1..s : n - 1 # s /\ (n = 1 \/ n - 1 \in 1..s)
    BY <2>3
  <2>7. \A n \in 1..s : n = 1 \/ f[n-1] = g[n-1]
    BY <2>4, <2>6
  <2>8. \A n \in 1..s : Turn(f, n) = Turn(g, n)
    BY <2>7
  <2> HIDE DEF Turn
  <2>9. \A n \in 1..1+d : g[n] = Turn(g, n)
    BY <2>1
  <2>10. \A n \in 1..s : f[n] = Turn(f, n)
    BY <2>4, <2>5, <2>8, <2>9
  <2>11. f = [n \in 1..s |-> f[n]]
    BY <2>4
  <2>12. f = [n \in 1..s |-> Turn(f, n)]
    BY <2>10, <2>11
  <2> QED BY <2>2, <2>12
<1>3. \A d : d \in S <=> d \in Nat /\ E(d)
  OBVIOUS
<1> HIDE DEF E, S
<1>4. MaxObject \in Nat /\ MaxObject > 1
  BY SlabAssumption
<1>5. E(MaxObject - 1)
  <2>1. 0 \in S /\ \A d \in Nat : d \in S => d + 1 \in S
    BY <1>1, <1>2, <1>3
  <2>2. \A d \in Nat : d \in S
    BY <2>1, AllNat
  <2>3. MaxObject - 1 \in Nat
    BY <1>4
  <2> QED BY <1>3, <2>2, <2>3
<1>6. 1 + (MaxObject - 1) = MaxObject
  BY <1>4
<1>7. \E g : g = [n \in 1..MaxObject |-> Turn(g, n)]
  BY <1>5, <1>6 DEF E
<1>8. PICK c : c = Chain(p)
  OBVIOUS
<1>9. c = [n \in 1..MaxObject |-> Turn(c, n)]
  <2>1. Chain(p) = CHOOSE g : g = [n \in 1..MaxObject |-> Turn(g, n)]
    BY DEF Chain
  <2> HIDE DEF Turn
  <2> QED BY <1>7, <1>8, <2>1
<1>10. \A n \in 1..MaxObject : c[n] = Turn(c, n)
  <2> HIDE DEF Turn
  <2> QED BY <1>9
<1>11. 1 \in 1..MaxObject /\ \A n \in 2..MaxObject : n \in 1..MaxObject /\ n # 1
  BY <1>4
<1> QED BY <1>8, <1>10, <1>11

-----------------------------------------------------------------------------
(* A list holds no more pages than there are.                              *)
LEMMA RingIsShort ==
  ASSUME NEW L, NEW h, NEW S, S \subseteq Page, NEW n \in Nat, NEW at \in [Nat -> Node],
         Walk(L, h, n, at), Entries(S) = {at[i] : i \in 1..n}
  PROVE  n <= NPAGE
<1>1. \A i \in 1..n : \E p \in Page : at[i] = Entry(p)
  <2>1. TAKE i \in 1..n
  <2>2. at[i] \in Entries(S)
    OBVIOUS
  <2> QED BY <2>2 DEF Entries
<1>2. PICK page : page = [i \in 1..n |-> CHOOSE p \in Page : at[i] = Entry(p)]
  OBVIOUS
<1>3. \A i \in 1..n : page[i] \in Page /\ at[i] = Entry(page[i])
  BY <1>1, <1>2
<1>4. page \in [1..n -> Page]
  BY <1>2, <1>3
<1>5. IsFiniteSet(1..n) /\ Cardinality(1..n) = n
  <2>1. Cardinality(1..n) = IF 1 > n THEN 0 ELSE n - 1 + 1
    BY FS_Interval
  <2> QED BY <2>1, FS_Interval
<1>6. IsFiniteSet(Page) /\ Cardinality(Page) = NPAGE
  <2>1. NPAGE \in Nat \ {0}
    BY Numbers
  <2>2. Cardinality(0..NPAGE-1) = IF 0 > NPAGE - 1 THEN 0 ELSE (NPAGE - 1) - 0 + 1
    BY <2>1, FS_Interval
  <2>3. IsFiniteSet(0..NPAGE-1)
    BY <2>1, FS_Interval
  <2> QED BY <2>1, <2>2, <2>3 DEF Page
<1>7. CASE NPAGE < n
  <2>1. PICK i \in 1..n, j \in 1..n : i # j /\ page[i] = page[j]
    BY <1>4, <1>5, <1>6, <1>7, FS_PigeonHole
  <2>2. at[i] = at[j]
    BY <1>3, <2>1
  <2> QED BY <2>1, <2>2 DEF Walk
<1> QED BY <1>7, Numbers

(* The pages met from a head are those of its list.                        *)
LEMMA OnRing ==
  ASSUME NEW F, Rings(links, F), NEW h \in Head
  PROVE  On(h) = F[h]
<1>1. PICK n \in Nat, at \in [Nat -> Node] :
        Walk(links, h, n, at) /\ Entries(F[h]) = {at[i] : i \in 1..n}
  BY DEF Rings, Ring
<1>2. F[h] \subseteq Page
  BY DEF Rings
<1>3. n <= NPAGE /\ NPAGE \in Nat
  BY <1>1, <1>2, RingIsShort, Numbers
<1>4. /\ at[0] = h /\ at[n+1] = h
      /\ \A i \in 0..n : links.next[at[i]] = at[i+1]
      /\ \A i \in 1..n : at[i] # h /\ at[i] # Poison
  BY <1>1, Nodes DEF Walk
<1> DEFINE Turn(g, m) == IF m = 0 THEN links.next[h]
                         ELSE IF g[m-1] \in {h, Poison} THEN g[m-1]
                         ELSE links.next[g[m-1]]
<1>5. PICK g : g = [m \in 0..NPAGE |-> IF m < n THEN at[m+1] ELSE h]
  OBVIOUS
<1>6. ASSUME NEW m \in 0..NPAGE PROVE g[m] = Turn(g, m)
  <2>1. CASE m = 0
    <3>1. links.next[h] = at[1]
      BY <1>4
    <3>2. g[0] = IF 0 < n THEN at[1] ELSE h
      BY <1>5, <2>1
    <3>3. g[0] = at[1]
      BY <1>4, <3>2
    <3> QED BY <2>1, <3>1, <3>3
  <2>2. CASE m # 0 /\ m - 1 < n
    <3>1. m - 1 \in 0..NPAGE /\ (m - 1) + 1 = m /\ m \in 1..n /\ m \in 0..n
      BY <1>3, <2>2
    <3>2. g[m-1] = at[m]
      BY <1>5, <2>2, <3>1
    <3>3. Turn(g, m) = at[m+1]
      BY <1>4, <2>2, <3>1, <3>2
    <3>4. g[m] = IF m < n THEN at[m+1] ELSE h
      BY <1>5
    <3>5. m < n \/ m = n
      BY <3>1
    <3> QED BY <1>4, <3>3, <3>4, <3>5
  <2>3. CASE m # 0 /\ ~(m - 1 < n)
    <3>1. m - 1 \in 0..NPAGE /\ ~(m < n)
      BY <1>3, <2>3
    <3>2. g[m-1] = h /\ g[m] = h
      BY <1>5, <2>3, <3>1
    <3> QED BY <2>3, <3>2
  <2> QED BY <2>1, <2>2, <2>3
<1>7. PICK met : met = Met(h)
  OBVIOUS
<1>8. met = [m \in 0..NPAGE |-> Turn(met, m)]
  <2>1. Met(h) = CHOOSE f : f = [m \in 0..NPAGE |-> Turn(f, m)]
    BY DEF Met
  <2> HIDE DEF Turn
  <2>2. \A m \in 0..NPAGE : g[m] = Turn(g, m)
    BY <1>6
  <2>3. g = [m \in 0..NPAGE |-> g[m]]
    BY <1>5
  <2>4. g = [m \in 0..NPAGE |-> Turn(g, m)]
    BY <2>2, <2>3
  <2> QED BY <1>7, <2>1, <2>4
<1>9. \A m \in 0..NPAGE : met[m] = Turn(met, m)
  <2> HIDE DEF Turn
  <2> QED BY <1>8
<1>10. \A m \in 0..NPAGE : met[m] = g[m]
  <2> DEFINE S == {m \in Nat : m <= NPAGE => met[m] = g[m]}
  <2>0. \A m \in Nat : m \in S <=> (m <= NPAGE => met[m] = g[m])
    OBVIOUS
  <2> HIDE DEF S
  <2>1. 0 \in S
    <3>1. 0 \in 0..NPAGE
      BY <1>3
    <3>2. met[0] = Turn(met, 0) /\ g[0] = Turn(g, 0)
      <4> HIDE DEF Turn
      <4> QED BY <1>6, <1>9, <3>1
    <3>3. Turn(met, 0) = Turn(g, 0)
      OBVIOUS
    <3>4. met[0] = g[0]
      <4> HIDE DEF Turn
      <4> QED BY <3>2, <3>3
    <3> QED BY <2>0, <3>4
  <2>2. ASSUME NEW m \in Nat, m \in S PROVE m + 1 \in S
    <3>1. CASE m + 1 <= NPAGE
      <4>1. m + 1 \in 0..NPAGE /\ m <= NPAGE /\ m + 1 # 0 /\ (m + 1) - 1 = m
        BY <1>3, <3>1
      <4>2. met[m] = g[m]
        BY <2>0, <2>2, <4>1
      <4>3. Turn(met, m + 1) = Turn(g, m + 1)
        BY <4>1, <4>2
      <4>4. met[m + 1] = Turn(met, m + 1) /\ g[m + 1] = Turn(g, m + 1)
        <5> HIDE DEF Turn
        <5> QED BY <1>6, <1>9, <4>1
      <4>5. met[m + 1] = g[m + 1]
        <5> HIDE DEF Turn
        <5> QED BY <4>3, <4>4
      <4> QED BY <2>0, <4>5
    <3>2. CASE ~(m + 1 <= NPAGE)
      BY <2>0, <3>2
    <3> QED BY <3>1, <3>2
  <2>4. \A m \in Nat : m \in S
    BY <2>1, <2>2, AllNat
  <2>5. \A m \in 0..NPAGE : m \in Nat /\ m <= NPAGE
    BY <1>3
  <2> QED BY <2>0, <2>4, <2>5
<1>11. On(h) = {p \in Page : \E m \in 0..NPAGE : g[m] = Entry(p)}
  BY <1>7, <1>10 DEF On
<1>12. \A p \in Page : Entry(p) # h /\ (Entry(p) \in Entries(F[h]) <=> p \in F[h])
  BY <1>2, EntriesOf, Nodes
<1>13. ASSUME NEW p \in Page, NEW m \in 0..NPAGE, g[m] = Entry(p) PROVE p \in F[h]
  <2>1. m < n /\ g[m] = at[m+1]
    BY <1>5, <1>12, <1>13
  <2>2. m + 1 \in 1..n
    BY <2>1
  <2>3. Entry(p) \in Entries(F[h])
    BY <1>1, <1>13, <2>1, <2>2
  <2> QED BY <1>12, <2>3
<1>14. ASSUME NEW p \in F[h] PROVE p \in Page /\ \E m \in 0..NPAGE : g[m] = Entry(p)
  <2>1. p \in Page /\ Entry(p) \in Entries(F[h])
    BY <1>2, <1>12
  <2>2. PICK i \in 1..n : at[i] = Entry(p)
    BY <1>1, <2>1
  <2>3. i - 1 \in 0..NPAGE /\ i - 1 < n /\ (i - 1) + 1 = i
    BY <1>3
  <2>4. g[i - 1] = Entry(p)
    BY <1>5, <2>2, <2>3
  <2> QED BY <2>1, <2>3, <2>4
<1> QED BY <1>11, <1>13, <1>14

-----------------------------------------------------------------------------
(***************************************************************************)
(* __alloc_pages.  The block of level k at page p is off its list and      *)
(* halved down to level j: the links L are now M, the lists F are G and    *)
(* the blocks lev are new.                                                 *)
(***************************************************************************)
HalvedTo(L, F, lev, p, k, j, M, G, new) ==
  /\ Rings(M, G) /\ M.next[Entry(p)] = Entry(p)
  /\ Tiles(new) /\ new[p] = j
  /\ \A i \in j..k-1 : /\ p + Size(i) \in Page /\ p + Size(i) # p
                       /\ lev[p + Size(i)] = -1 /\ new[p + Size(i)] = i
  /\ \A q \in Page : q # p /\ (\A i \in j..k-1 : q # p + Size(i)) => new[q] = lev[q]
  /\ \A h \in Head, q \in Page :
       q \in G[h] <=> \/ q \in F[h] /\ q # p
                      \/ \E i \in j..k-1 : h = Free(i) /\ q = p + Size(i)
  /\ \A q \in Page : lev[q] # -1 /\ q # p /\ Unlisted(F, q)
       => M.next[Entry(q)] = L.next[Entry(q)]

LEMMA HalveStart ==
  ASSUME NEW L, NEW F, Rings(L, F), NEW lev, Tiles(lev),
         NEW k \in Order, NEW p \in F[Free(k)], lev[p] = k
  PROVE  \E G, new : HalvedTo(L, F, lev, p, k, k, list_del_init(L, Entry(p)), G, new)
<1>1. Free(k) \in Head
  BY Nodes
<1>2. F \in [Head -> SUBSET Page] /\ p \in Page
  BY <1>1 DEF Rings
<1>3. PICK M : M = list_del_init(L, Entry(p))
  OBVIOUS
<1>4. PICK G : G = [F EXCEPT ![Free(k)] = F[Free(k)] \ {p}]
  OBVIOUS
<1>5. ListStep(L, F, M, G, p) /\ M.next[Entry(p)] = Entry(p)
  <2>1. PICK h : h = Free(k)
    OBVIOUS
  <2>2. h \in Head /\ p \in F[h] /\ G = [F EXCEPT ![h] = F[h] \ {p}]
    BY <1>1, <1>4, <2>1
  <2>3. ListStep(L, F, M, [F EXCEPT ![h] = F[h] \ {p}], p)
    BY <1>2, <1>3, <2>2, ListDel
  <2>4. M.next[Entry(p)] = Entry(p)
    BY <1>2, <1>3, <2>2, ListDel
  <2> QED BY <2>2, <2>3, <2>4
<1>6. k..k-1 = {}
  BY Numbers
<1>7. \A h \in Head : h # Free(k) => p \notin F[h]
  <2>1. \A h \in Head : h # Free(k) => F[h] \intersect F[Free(k)] = {}
    BY <1>1 DEF Rings
  <2> QED BY <2>1
<1>8. ASSUME NEW h \in Head, NEW q \in Page
      PROVE  q \in G[h] <=> q \in F[h] /\ q # p
  <2>1. CASE h = Free(k)
    BY <1>1, <1>2, <1>4, <2>1
  <2>2. CASE h # Free(k)
    BY <1>2, <1>4, <1>7, <2>2
  <2> QED BY <2>1, <2>2
<1>9. \A h \in Head, q \in Page :
        q \in G[h] <=> \/ q \in F[h] /\ q # p
                       \/ \E i \in k..k-1 : h = Free(i) /\ q = p + Size(i)
  BY <1>6, <1>8
<1>10. HalvedTo(L, F, lev, p, k, k, M, G, lev)
  BY <1>5, <1>6, <1>9 DEF HalvedTo, ListStep
<1> QED BY <1>3, <1>10

LEMMA HalveStep ==
  ASSUME NEW L, NEW F, Rings(L, F), NEW lev, Tiles(lev),
         \A q \in Page : lev[q] = -1 => Unlisted(F, q),
         NEW k \in Order, NEW p \in Page,
         NEW j \in Nat, j < k, NEW M, NEW G, NEW new,
         HalvedTo(L, F, lev, p, k, j + 1, M, G, new)
  PROVE  \E H, w : HalvedTo(L, F, lev, p, k, j,
                            list_add(M, Entry(p + Size(j)), Free(j)), H, w)
<1>1. k \in Nat /\ j \in Order
  BY Numbers DEF Order
<1>2. PICK b : b = p + Size(j)
  OBVIOUS
<1>3. /\ Rings(M, G) /\ Tiles(new) /\ new[p] = j + 1
      /\ \A i \in j+1..k-1 : /\ p + Size(i) \in Page /\ p + Size(i) # p
                             /\ lev[p + Size(i)] = -1 /\ new[p + Size(i)] = i
      /\ \A q \in Page : q # p /\ (\A i \in j+1..k-1 : q # p + Size(i)) => new[q] = lev[q]
      /\ \A h \in Head, q \in Page :
           q \in G[h] <=> \/ q \in F[h] /\ q # p
                          \/ \E i \in j+1..k-1 : h = Free(i) /\ q = p + Size(i)
  BY DEF HalvedTo
<1>4. PICK w : w = [new EXCEPT ![p] = j, ![b] = j]
  OBVIOUS
<1>5. b \in Page /\ b # p /\ new[b] = -1 /\ Tiles(w)
  <2>1. Tiles(new) /\ new[p] = j + 1
    BY <1>3
  <2>2. LET c == p + Size(j)
        IN  /\ c \in Page /\ c # p /\ new[c] = -1
            /\ Tiles([new EXCEPT ![p] = j, ![c] = j])
    BY <2>1, SplitTile
  <2> QED BY <1>2, <1>4, <2>2
<1>6. w[p] = j /\ w[b] = j /\ \A q \in Page : q # p /\ q # b => w[q] = new[q]
  <2>1. new \in [Page -> Order \union {-1}]
    BY <1>3 DEF Tiles
  <2> QED BY <1>4, <1>5, <2>1
<1>7. \A i \in j+1..k-1 : p + Size(i) # b
  <2>1. ASSUME NEW i \in j+1..k-1, p + Size(i) = b PROVE FALSE
    <3>1. new[b] = i
      BY <1>3, <2>1
    <3> QED BY <1>1, <1>5, <3>1
  <2> QED BY <2>1
<1>8. lev[b] = -1
  BY <1>3, <1>5, <1>7
<1>9. Unlisted(G, b)
  <2>1. ASSUME NEW h \in Head PROVE b \notin G[h]
    BY <1>3, <1>5, <1>7, <1>8 DEF Unlisted
  <2> QED BY <2>1 DEF Unlisted
<1>10. Free(j) \in Head
  BY <1>1, Nodes
<1>11. PICK N : N = list_add(M, Entry(b), Free(j))
  OBVIOUS
<1>12. PICK H : H = [G EXCEPT ![Free(j)] = G[Free(j)] \union {b}]
  OBVIOUS
<1>13. ListStep(M, G, N, H, b)
  BY <1>3, <1>5, <1>9, <1>10, <1>11, <1>12, ListAdd
<1>14. (\A i \in j..k-1 : i = j \/ i \in j+1..k-1) /\ j \in j..k-1
       /\ \A i \in j+1..k-1 : i \in j..k-1
  BY <1>1
<1>15. \A i \in j..k-1 : /\ p + Size(i) \in Page /\ p + Size(i) # p
                         /\ lev[p + Size(i)] = -1 /\ w[p + Size(i)] = i
  <2>1. TAKE i \in j..k-1
  <2>2. CASE i = j
    BY <1>2, <1>5, <1>6, <1>8, <2>2
  <2>3. CASE i \in j+1..k-1
    BY <1>3, <1>6, <1>7, <2>3
  <2> QED BY <1>14, <2>2, <2>3
<1>16. \A q \in Page : q # p /\ (\A i \in j..k-1 : q # p + Size(i)) => w[q] = lev[q]
  <2>1. TAKE q \in Page
  <2>2. HAVE q # p /\ (\A i \in j..k-1 : q # p + Size(i))
  <2>3. q # b /\ \A i \in j+1..k-1 : q # p + Size(i)
    BY <1>2, <1>14, <2>2
  <2> QED BY <1>3, <1>6, <2>2, <2>3
<1>17. G \in [Head -> SUBSET Page]
  BY <1>3 DEF Rings
<1>18. \A h \in Head, q \in Page : q \in H[h] <=> q \in G[h] \/ (h = Free(j) /\ q = b)
  BY <1>10, <1>12, <1>17
<1>19. \A h \in Head, q \in Page :
         q \in H[h] <=> \/ q \in F[h] /\ q # p
                        \/ \E i \in j..k-1 : h = Free(i) /\ q = p + Size(i)
  <2>1. TAKE h \in Head, q \in Page
  <2>2. (\E i \in j..k-1 : h = Free(i) /\ q = p + Size(i))
          <=> \/ h = Free(j) /\ q = b
              \/ \E i \in j+1..k-1 : h = Free(i) /\ q = p + Size(i)
    BY <1>2, <1>14
  <2> QED BY <1>3, <1>18, <2>2
<1>20. \A q \in Page : lev[q] # -1 /\ q # p /\ Unlisted(F, q)
         => N.next[Entry(q)] = L.next[Entry(q)]
  <2>1. TAKE q \in Page
  <2>2. HAVE lev[q] # -1 /\ q # p /\ Unlisted(F, q)
  <2>3. q # b /\ \A i \in j+1..k-1 : q # p + Size(i)
    BY <1>3, <1>8, <2>2
  <2>4. Unlisted(G, q)
    BY <1>3, <2>2, <2>3 DEF Unlisted
  <2>5. N.next[Entry(q)] = M.next[Entry(q)]
    BY <1>13, <2>3, <2>4 DEF ListStep
  <2>6. M.next[Entry(q)] = L.next[Entry(q)]
    BY <2>2 DEF HalvedTo
  <2> QED BY <2>5, <2>6
<1>21. N.next[Entry(p)] = Entry(p)
  <2>1. Unlisted(G, p)
    <3>1. ASSUME NEW h \in Head PROVE p \notin G[h]
      BY <1>3
    <3> QED BY <3>1 DEF Unlisted
  <2>2. N.next[Entry(p)] = M.next[Entry(p)]
    BY <1>5, <1>13, <2>1 DEF ListStep
  <2> QED BY <2>2 DEF HalvedTo
<1>22. HalvedTo(L, F, lev, p, k, j, N, H, w)
  BY <1>5, <1>6, <1>13, <1>15, <1>16, <1>19, <1>20, <1>21 DEF HalvedTo, ListStep
<1> QED BY <1>2, <1>11, <1>22

LEMMA Halving ==
  ASSUME NEW L, NEW F, Rings(L, F), NEW lev, Tiles(lev),
         \A q \in Page : lev[q] = -1 => Unlisted(F, q),
         NEW k \in Order, NEW p \in F[Free(k)], lev[p] = k,
         NEW l \in Order, l <= k
  PROVE  \E G, new : HalvedTo(L, F, lev, p, k, l, Halved(L, p, l, k)[l], G, new)
<1>1. k \in Nat /\ l \in Nat /\ p \in Page
  <2>1. Free(k) \in Head
    BY Nodes
  <2> QED BY <2>1, Numbers DEF Rings
<1>2. PICK H : H = Halved(L, p, l, k)
  OBVIOUS
<1>3. /\ H[k] = list_del_init(L, Entry(p))
      /\ \A j \in l..k-1 : H[j] = list_add(H[j+1], Entry(p + Size(j)), Free(j))
  BY <1>1, <1>2, HalvedIs
<1> DEFINE E(d) == \E G, new : HalvedTo(L, F, lev, p, k, k - d, H[k - d], G, new)
           S == {d \in Nat : d <= k - l => E(d)}
<1>4. E(0)
  <2>1. k - 0 = k
    BY <1>1
  <2> QED BY <1>3, <2>1, HalveStart
<1>5. ASSUME NEW d \in Nat, d + 1 <= k - l, E(d) PROVE E(d + 1)
  <2>1. PICK j : j = k - (d + 1)
    OBVIOUS
  <2>2. j \in Nat /\ j < k /\ j + 1 = k - d /\ j \in l..k-1
    BY <1>1, <1>5, <2>1
  <2>3. PICK G, new : HalvedTo(L, F, lev, p, k, j + 1, H[j + 1], G, new)
    BY <1>5, <2>2
  <2>4. \E G2, w : HalvedTo(L, F, lev, p, k, j,
                            list_add(H[j + 1], Entry(p + Size(j)), Free(j)), G2, w)
    BY <1>1, <2>2, <2>3, HalveStep
  <2> QED BY <1>3, <2>1, <2>2, <2>4
<1>6. \A d \in Nat : d \in S <=> (d <= k - l => E(d))
  OBVIOUS
<1> HIDE DEF E, S
<1>7. 0 \in S /\ \A d \in Nat : d \in S => d + 1 \in S
  <2>1. \A d \in Nat : d + 1 <= k - l => d <= k - l
    BY <1>1
  <2> QED BY <1>4, <1>5, <1>6, <2>1
<1>8. \A d \in Nat : d \in S
  BY <1>7, AllNat
<1>9. k - l \in Nat /\ k - (k - l) = l /\ k - l <= k - l
  BY <1>1
<1>10. E(k - l)
  BY <1>6, <1>8, <1>9
<1> QED BY <1>2, <1>9, <1>10 DEF E

-----------------------------------------------------------------------------
(***************************************************************************)
(* What the buddy system keeps: bplevel and flag tell of the first page of *)
(* a block its level and whether it is in use, the free lists hold the     *)
(* free blocks of their levels, and are counted.                           *)
(***************************************************************************)
Divided(F, lev) ==
  /\ Tiles(lev)
  /\ flag \in [Page -> {0, 1}]
  /\ bplevel \in [Page -> Order \union {-1}]
  /\ count \in [Order -> Nat]
  /\ \A p \in Page : lev[p] # -1 => bplevel[p] = lev[p]
  /\ \A p \in Page : flag[p] = 1 => lev[p] # -1
  /\ \A l \in Order, p \in Page : p \in F[Free(l)] <=> lev[p] = l /\ flag[p] = 0
  /\ \A l \in Order : count[l] = Cardinality(F[Free(l)])

(* Pages are finitely many.                                                *)
LEMMA FinitePages ==
  ASSUME NEW S, S \subseteq Page
  PROVE  /\ IsFiniteSet(S) /\ Cardinality(S) \in Nat
         /\ \A p \in S : Cardinality(S \ {p}) = Cardinality(S) - 1
         /\ \A p \in Page \ S : Cardinality(S \union {p}) = Cardinality(S) + 1
<1>1. IsFiniteSet(Page)
  BY Numbers, FS_Interval DEF Page
<1>2. IsFiniteSet(S)
  BY <1>1, FS_Subset
<1>3. Cardinality(S) \in Nat
  BY <1>2, FS_CardinalityType
<1>4. \A p \in S : Cardinality(S \ {p}) = Cardinality(S) - 1
  BY <1>2, FS_RemoveElement
<1>5. \A p \in Page \ S : Cardinality(S \union {p}) = Cardinality(S) + 1
  BY <1>2, FS_AddElement
<1> QED BY <1>2, <1>3, <1>4, <1>5

(* The free lists hold free blocks only.                                   *)
LEMMA ListedIsFree ==
  ASSUME NEW L, NEW F, Rings(L, F), NEW lev, Divided(F, lev),
         F[Full] \union F[Partial] \subseteq {p \in Page : flag[p] = 1},
         NEW q \in Page, lev[q] = -1
  PROVE  Unlisted(F, q)
<1>1. flag[q] # 1
  BY DEF Divided
<1>2. q \notin F[Full] /\ q \notin F[Partial]
  BY <1>1
<1>3. \A l \in Order : q \notin F[Free(l)]
  BY Numbers DEF Divided
<1> QED BY <1>2, <1>3 DEF Unlisted, Head

(* The first list that __alloc_pages finds with a block, and the block.    *)
LEMMA LowestList ==
  ASSUME NEW L, NEW F, Rings(L, F), NEW l \in Order, Available(L, l) # {}
  PROVE  LET k == Smallest(Available(L, l))
         IN  k \in Order /\ k \in Nat /\ l <= k /\ PageTaken(L, l) \in F[Free(k)]
<1>1. PICK A : A = Available(L, l)
  OBVIOUS
<1>2. A \subseteq Order /\ \A k \in A : l <= k /\ ~list_empty(L, Free(k))
  BY <1>1, Numbers DEF Available, Order
<1>3. A \subseteq Nat /\ A # {}
  BY <1>1, <1>2, Numbers
<1>4. \E k \in A : \A j \in A : k <= j
  BY <1>3, LeastNat
<1>5. PICK k : k = Smallest(A)
  OBVIOUS
<1>6. k \in A
  BY <1>4, <1>5 DEF Smallest
<1>7. Free(k) \in Head /\ ~list_empty(L, Free(k))
  BY <1>2, <1>6, Nodes
<1>8. FirstPage(L, Free(k)) \in F[Free(k)]
  BY <1>7, ListFirst
<1> QED BY <1>1, <1>2, <1>3, <1>5, <1>6, <1>8 DEF PageTaken

(* A page becomes the first of a block in use.                             *)
LEMMA AllocKeeps ==
  ASSUME NEW L, NEW F, Rings(L, F), NEW lev, Divided(F, lev),
         F[Full] \union F[Partial] \subseteq {p \in Page : flag[p] = 1},
         NEW l \in Order, Available(L, l) # {}, AllocPages(L, l),
         NEW p, p = PageTaken(L, l)
  PROVE  /\ p \in Page /\ flag[p] = 0
         /\ flag' = [flag EXCEPT ![p] = 1]
         /\ links'.next[Entry(p)] = Entry(p)
         /\ \A q \in Page : flag[q] = 1 /\ Unlisted(F, q)
              => links'.next[Entry(q)] = L.next[Entry(q)]
         /\ \E G, new :
              /\ Rings(links', G) /\ Divided(G, new)'
              /\ G[Full] = F[Full] /\ G[Partial] = F[Partial]
              /\ new[p] = l
              /\ \A q \in Page : flag[q] = 1 => new[q] = lev[q]
<1>1. PICK k : k = Smallest(Available(L, l))
  OBVIOUS
<1>2. k \in Order /\ k \in Nat /\ l \in Nat /\ l <= k /\ p \in F[Free(k)]
  BY <1>1, LowestList, Numbers
<1>3. Free(k) \in Head /\ Full \in Head /\ Partial \in Head
  BY <1>2, Nodes
<1>4. F \in [Head -> SUBSET Page] /\ p \in Page
  BY <1>2, <1>3 DEF Rings
<1>5. lev[p] = k /\ flag[p] = 0 /\ Tiles(lev)
  BY <1>2, <1>4 DEF Divided
<1>6. \A q \in Page : lev[q] = -1 => Unlisted(F, q)
  BY ListedIsFree
<1>7. /\ links' = Halved(L, p, l, k)[l]
      /\ flag' = [flag EXCEPT ![p] = 1]
      /\ bplevel' = [q \in Page |->
           IF q = p THEN l
           ELSE IF \E j \in l..k-1 : q = p + Size(j)
           THEN CHOOSE j \in l..k-1 : q = p + Size(j)
           ELSE bplevel[q]]
      /\ count' = [j \in Order |-> IF j = k THEN count[j] - 1
                                   ELSE IF j \in l..k-1 THEN count[j] + 1
                                   ELSE count[j]]
  BY <1>1 DEF AllocPages
<1>8. PICK G, new : HalvedTo(L, F, lev, p, k, l, links', G, new)
  <2>1. \E G, new : HalvedTo(L, F, lev, p, k, l, Halved(L, p, l, k)[l], G, new)
    BY <1>2, <1>5, <1>6, Halving
  <2> QED BY <1>7, <2>1
<1>9. /\ Rings(links', G) /\ links'.next[Entry(p)] = Entry(p)
      /\ Tiles(new) /\ new[p] = l
      /\ \A i \in l..k-1 : /\ p + Size(i) \in Page /\ p + Size(i) # p
                           /\ lev[p + Size(i)] = -1 /\ new[p + Size(i)] = i
      /\ \A q \in Page : q # p /\ (\A i \in l..k-1 : q # p + Size(i)) => new[q] = lev[q]
      /\ \A h \in Head, q \in Page :
           q \in G[h] <=> \/ q \in F[h] /\ q # p
                          \/ \E i \in l..k-1 : h = Free(i) /\ q = p + Size(i)
      /\ \A q \in Page : lev[q] # -1 /\ q # p /\ Unlisted(F, q)
           => links'.next[Entry(q)] = L.next[Entry(q)]
  BY <1>8 DEF HalvedTo
<1>10. /\ flag \in [Page -> {0, 1}] /\ bplevel \in [Page -> Order \union {-1}]
       /\ count \in [Order -> Nat]
       /\ \A q \in Page : lev[q] # -1 => bplevel[q] = lev[q]
       /\ \A q \in Page : flag[q] = 1 => lev[q] # -1
       /\ \A j \in Order, q \in Page : q \in F[Free(j)] <=> lev[q] = j /\ flag[q] = 0
       /\ \A j \in Order : count[j] = Cardinality(F[Free(j)])
  BY DEF Divided
<1>11. \A j \in l..k-1 : j \in Order /\ j # k /\ j # -1
  BY <1>2, Numbers DEF Order
<1>12. \A q \in Page : flag[q] = 1 => q # p /\ new[q] = lev[q]
  <2>1. TAKE q \in Page
  <2>2. HAVE flag[q] = 1
  <2>3. q # p /\ lev[q] # -1
    BY <1>5, <1>10, <2>2
  <2>4. \A i \in l..k-1 : q # p + Size(i)
    BY <1>9, <2>3
  <2> QED BY <1>9, <2>3, <2>4
<1>13. \A q \in Page : flag[q] = 1 /\ Unlisted(F, q)
         => links'.next[Entry(q)] = L.next[Entry(q)]
  BY <1>9, <1>10, <1>12
<1>14. flag' \in [Page -> {0, 1}] /\ flag'[p] = 1 /\ \A q \in Page : q # p => flag'[q] = flag[q]
  BY <1>4, <1>7, <1>10
<1>15. G[Full] = F[Full] /\ G[Partial] = F[Partial]
  <2>1. ASSUME NEW h \in {Full, Partial} PROVE G[h] = F[h]
    <3>1. \A i \in l..k-1 : h # Free(i)
      BY <1>11, Nodes
    <3>2. \A q \in F[h] : q \in Page /\ q # p
      <4>1. h \in Head /\ h # Free(k)
        BY <1>2, Nodes
      <4>2. F[h] \intersect F[Free(k)] = {} /\ F[h] \subseteq Page
        BY <1>3, <4>1 DEF Rings
      <4> QED BY <1>2, <4>2
    <3>3. G[h] \subseteq Page
      BY <1>3, <1>9 DEF Rings
    <3>4. \A q \in Page : q \in G[h] <=> q \in F[h] /\ q # p
      BY <1>3, <1>9, <3>1
    <3> QED BY <3>2, <3>3, <3>4
  <2> QED BY <2>1
<1>16. ASSUME NEW q \in Page
       PROVE  /\ bplevel'[q] \in Order \union {-1}
              /\ new[q] # -1 => bplevel'[q] = new[q]
  <2>1. CASE q = p
    BY <1>7, <1>9, <2>1
  <2>2. CASE q # p /\ \E j \in l..k-1 : q = p + Size(j)
    <3>1. bplevel'[q] = CHOOSE j \in l..k-1 : q = p + Size(j)
      BY <1>7, <2>2
    <3>2. bplevel'[q] \in l..k-1 /\ q = p + Size(bplevel'[q])
      BY <2>2, <3>1
    <3>3. new[q] = bplevel'[q]
      BY <1>9, <3>2
    <3> QED BY <1>11, <3>2, <3>3
  <2>3. CASE q # p /\ ~\E j \in l..k-1 : q = p + Size(j)
    <3>1. bplevel'[q] = bplevel[q]
      BY <1>7, <2>3
    <3>2. new[q] = lev[q]
      BY <1>9, <2>3
    <3> QED BY <1>10, <3>1, <3>2
  <2> QED BY <2>1, <2>2, <2>3
<1>17. bplevel' \in [Page -> Order \union {-1}]
  BY <1>7, <1>16
<1>18. \A q \in Page : flag'[q] = 1 => new[q] # -1
  <2>1. l # -1
    BY <1>2
  <2> QED BY <1>9, <1>10, <1>12, <1>14, <2>1
<1>19. ASSUME NEW j \in Order, NEW q \in Page
       PROVE  q \in G[Free(j)] <=> new[q] = j /\ flag'[q] = 0
  <2>1. Free(j) \in Head /\ \A i \in l..k-1 : Free(j) = Free(i) => i = j
    BY <1>11, Nodes
  <2>2. CASE q = p
    BY <1>9, <1>14, <2>1, <2>2
  <2>3. CASE \E i \in l..k-1 : q = p + Size(i)
    <3>1. PICK i \in l..k-1 : q = p + Size(i)
      BY <2>3
    <3>2. new[q] = i /\ lev[q] = -1 /\ q # p
      BY <1>9, <3>1
    <3>3. flag[q] = 0 /\ flag'[q] = 0
      BY <1>10, <1>14, <3>2
    <3>4. q \notin F[Free(j)]
      BY <1>10, <3>2, Numbers
    <3>5. q \in G[Free(j)] <=> \E i2 \in l..k-1 : Free(j) = Free(i2) /\ q = p + Size(i2)
      BY <1>9, <2>1, <3>4
    <3>6. ASSUME j = i PROVE q \in G[Free(j)]
      BY <3>1, <3>5, <3>6
    <3>7. ASSUME q \in G[Free(j)] PROVE j = i
      <4>1. j \in l..k-1 /\ q = p + Size(j)
        BY <2>1, <3>5, <3>7
      <4> QED BY <1>9, <3>2, <4>1
    <3> QED BY <3>2, <3>3, <3>6, <3>7
  <2>4. CASE q # p /\ ~\E i \in l..k-1 : q = p + Size(i)
    <3>1. new[q] = lev[q] /\ flag'[q] = flag[q]
      BY <1>9, <1>14, <2>4
    <3>2. q \in G[Free(j)] <=> q \in F[Free(j)]
      BY <1>9, <2>1, <2>4
    <3> QED BY <1>10, <3>1, <3>2
  <2> QED BY <2>2, <2>3, <2>4
<1>20. ASSUME NEW j \in Order
       PROVE  count'[j] \in Nat /\ count'[j] = Cardinality(G[Free(j)])
  <2>1. Free(j) \in Head /\ \A i \in Order : Free(j) = Free(i) => i = j
    BY Nodes
  <2>2. G[Free(j)] \subseteq Page /\ F[Free(j)] \subseteq Page
    BY <1>4, <1>9, <2>1 DEF Rings
  <2>3. Cardinality(G[Free(j)]) \in Nat
    BY <2>2, FinitePages
  <2>4. CASE j = k
    <3>1. \A q \in Page : q \in G[Free(j)] <=> q \in F[Free(j)] /\ q # p
      BY <1>9, <1>11, <2>1, <2>4
    <3>2. G[Free(j)] = F[Free(j)] \ {p}
      BY <2>2, <3>1
    <3>3. Cardinality(G[Free(j)]) = Cardinality(F[Free(j)]) - 1
      BY <1>2, <2>2, <2>4, <3>2, FinitePages
    <3>4. count'[j] = count[j] - 1
      BY <1>7, <2>4
    <3> QED BY <1>10, <2>3, <3>3, <3>4
  <2>5. CASE j \in l..k-1
    <3>1. PICK b : b = p + Size(j)
      OBVIOUS
    <3>2. b \in Page /\ lev[b] = -1 /\ b # p
      BY <1>9, <2>5, <3>1
    <3>3. b \notin F[Free(j)] /\ p \notin F[Free(j)]
      BY <1>4, <1>5, <1>10, <1>11, <2>5, <3>2, Numbers
    <3>4. \A q \in Page : q \in G[Free(j)] <=> q \in F[Free(j)] \/ q = b
      BY <1>9, <1>11, <2>1, <2>5, <3>1, <3>3
    <3>5. G[Free(j)] = F[Free(j)] \union {b}
      BY <2>2, <3>2, <3>4
    <3>6. Cardinality(G[Free(j)]) = Cardinality(F[Free(j)]) + 1
      BY <2>2, <3>2, <3>3, <3>5, FinitePages
    <3>7. count'[j] = count[j] + 1
      BY <1>7, <1>11, <2>5
    <3> QED BY <1>10, <2>3, <3>6, <3>7
  <2>6. CASE j # k /\ j \notin l..k-1
    <3>1. \A i \in l..k-1 : Free(j) # Free(i)
      BY <1>11, <2>1, <2>6
    <3>2. p \notin F[Free(j)]
      BY <1>4, <1>5, <1>10, <2>6
    <3>3. \A q \in Page : q \in G[Free(j)] <=> q \in F[Free(j)]
      BY <1>9, <2>1, <3>1, <3>2
    <3>4. G[Free(j)] = F[Free(j)]
      BY <2>2, <3>3
    <3>5. count'[j] = count[j]
      BY <1>7, <2>6
    <3> QED BY <1>10, <2>3, <3>4, <3>5
  <2> QED BY <2>4, <2>5, <2>6
<1>21. count' \in [Order -> Nat]
  BY <1>7, <1>20
<1>22. Divided(G, new)'
  BY <1>9, <1>14, <1>16, <1>17, <1>18, <1>19, <1>20, <1>21 DEF Divided
<1> QED BY <1>4, <1>5, <1>7, <1>9, <1>12, <1>13, <1>15, <1>22

-----------------------------------------------------------------------------
(* The first page of a block, from any of its pages.                       *)
LEMMA FirstIs ==
  ASSUME NEW p \in Nat, NEW l \in Nat, NEW c \in Nat, Aligned(c, l),
         p \in PagesOf(<<c, l>>)
  PROVE  FirstOf(p, l) = c
<1>1. PICK s : s = Size(l)
  OBVIOUS
<1>2. s \in Nat /\ s >= 1
  BY <1>1, SizePositive
<1>3. PICK j \in Nat : c = j * s
  BY <1>1, AlignedIsMultiple
<1>4. PICK r \in Nat : p = c + r /\ r < s
  <2>1. p >= c /\ p < c + s
    BY <1>1, <1>2 DEF PagesOf
  <2>2. p - c \in Nat /\ p = c + (p - c) /\ p - c < s
    BY <1>2, <2>1
  <2> QED BY <2>2
<1>5. p % s = r
  <2>1. PICK d, m : d = p \div s /\ m = p % s
    OBVIOUS
  <2>2. d \in Nat /\ m \in Nat /\ m < s /\ p = s * d + m
    BY <1>2, <2>1
  <2>3. CASE d < j
    <3>1. (d + 1) * s <= j * s
      BY <1>2, <2>2, <2>3
    <3>2. s * d + s <= j * s
      BY <1>2, <2>2, <3>1
    <3> QED BY <1>2, <1>3, <1>4, <2>2, <3>2
  <2>4. CASE j < d
    <3>1. (j + 1) * s <= d * s
      BY <1>2, <2>2, <2>4
    <3>2. j * s + s <= s * d
      BY <1>2, <2>2, <3>1
    <3> QED BY <1>2, <1>3, <1>4, <2>2, <3>2
  <2>5. CASE d = j
    <3>1. s * d = j * s
      BY <1>2, <2>2, <2>5
    <3> QED BY <1>3, <1>4, <2>1, <2>2, <3>1
  <2> QED BY <2>2, <2>3, <2>4, <2>5
<1> QED BY <1>1, <1>4, <1>5 DEF FirstOf

-----------------------------------------------------------------------------
(***************************************************************************)
(* __free_pages.  The block of level l at page p is merged up to level k   *)
(* with its buddies, which have left their lists.                          *)
(***************************************************************************)
Merged(p, l, k) == {BuddyOf(FirstOf(p, i), i) : i \in l..k-1}

MergedTo(L, F, lev, p, l, k, M, G, new) ==
  /\ Rings(M, G)
  /\ Tiles(new)
  /\ FirstOf(p, k) \in Page /\ new[FirstOf(p, k)] = k
  /\ p \in PagesOf(<<FirstOf(p, k), k>>)
  /\ \A i \in l..k-1 : LET b == BuddyOf(FirstOf(p, i), i)
                       IN  b \in Page /\ b # p /\ lev[b] = i /\ flag[b] = 0
  /\ FirstOf(p, k) = p \/ FirstOf(p, k) \in Merged(p, l, k)
  /\ \A q \in {p} \union Merged(p, l, k) : q # FirstOf(p, k) => new[q] = -1
  /\ \A q \in Page : q # p /\ q \notin Merged(p, l, k) => new[q] = lev[q]
  /\ \A h \in Head, q \in Page : q \in G[h] <=> q \in F[h] /\ q \notin Merged(p, l, k)
  /\ \A q \in Page : Unlisted(F, q) => M.next[Entry(q)] = L.next[Entry(q)]

LEMMA MergeStart ==
  ASSUME NEW L, NEW F, Rings(L, F), NEW lev, Tiles(lev),
         NEW l \in Order, NEW p \in Page, lev[p] = l
  PROVE  MergedTo(L, F, lev, p, l, l, L, F, lev)
<1>1. /\ l \in Nat /\ p \in Nat /\ Aligned(p, l) /\ p \in PagesOf(<<p, l>>)
  <2>1. l # -1
    BY Numbers
  <2> QED BY <2>1, HeadFacts
<1>2. FirstOf(p, l) = p
  BY <1>1, FirstIs
<1>3. l..l-1 = {} /\ Merged(p, l, l) = {}
  BY <1>1 DEF Merged
<1> QED BY <1>1, <1>2, <1>3 DEF MergedTo

LEMMA MergeStep ==
  ASSUME NEW L, NEW F, Rings(L, F), NEW lev, Divided(F, lev),
         NEW l \in Order, NEW p \in Page, lev[p] = l, flag[p] = 1,
         NEW k \in Order, l <= k,
         NEW M, NEW G, NEW new, MergedTo(L, F, lev, p, l, k, M, G, new),
         BuddyIsFree(FirstOf(p, k), k)
  PROVE  \E H, w : MergedTo(L, F, lev, p, l, k + 1,
                            list_del_init(M, Entry(BuddyOf(FirstOf(p, k), k))), H, w)
<1>1. PICK c, b, B : c = FirstOf(p, k) /\ b = BuddyOf(c, k) /\ B = Merged(p, l, k)
  OBVIOUS
<1>2. /\ Rings(M, G) /\ Tiles(new) /\ c \in Page /\ new[c] = k /\ p \in PagesOf(<<c, k>>)
      /\ \A i \in l..k-1 : LET d == BuddyOf(FirstOf(p, i), i)
                           IN  d \in Page /\ d # p /\ lev[d] = i /\ flag[d] = 0
      /\ c = p \/ c \in B
      /\ \A q \in {p} \union B : q # c => new[q] = -1
      /\ \A q \in Page : q # p /\ q \notin B => new[q] = lev[q]
      /\ \A h \in Head, q \in Page : q \in G[h] <=> q \in F[h] /\ q \notin B
      /\ \A q \in Page : Unlisted(F, q) => M.next[Entry(q)] = L.next[Entry(q)]
  BY <1>1 DEF MergedTo
<1>3. k < MAX_BUDDY_ORDER /\ bplevel[b] = k /\ flag[b] # 1
  BY <1>1 DEF BuddyIsFree
<1>4. k \in Nat /\ k + 1 \in Order /\ k # -1 /\ k + 1 \in Nat /\ l \in Nat
  BY <1>3, Numbers
<1>5. c \in Nat /\ Aligned(c, k) /\ p \in Nat /\ PagesOf(<<c, k>>) \subseteq Page
  BY <1>2, <1>4, HeadFacts, Numbers
<1>6. b \in Page /\ Lower(c, b) \in Page /\ b # c
      /\ Aligned(Lower(c, b), k + 1)
      /\ PagesOf(<<Lower(c, b), k + 1>>) = PagesOf(<<c, k>>) \union PagesOf(<<b, k>>)
  <2>1. b \in Page /\ Lower(c, b) \in Page
    BY <1>1, <1>2, <1>3, <1>5, BuddyPage
  <2>2. LET d == BuddyOf(c, k)
        IN  /\ d # c /\ Aligned(Lower(c, d), k + 1)
            /\ PagesOf(<<Lower(c, d), k + 1>>) = PagesOf(<<c, k>>) \union PagesOf(<<d, k>>)
    BY <1>4, <1>5, Buddies
  <2> QED BY <1>1, <2>1, <2>2
<1>7. new[b] = k
  <2>1. PICK field : field = [bplevel EXCEPT ![c] = k]
    OBVIOUS
  <2>2. field[c] = k /\ \A q \in Page : q # c => field[q] = bplevel[q]
    BY <1>2, <2>1 DEF Divided
  <2>3. \A q \in Page : new[q] # -1 => field[q] = new[q]
    <3>1. TAKE q \in Page
    <3>2. HAVE new[q] # -1
    <3>3. CASE q = c
      BY <1>2, <2>2, <3>3
    <3>4. CASE q # c
      <4>1. q # p /\ q \notin B
        BY <1>2, <3>2, <3>4
      <4>2. new[q] = lev[q] /\ lev[q] # -1
        BY <1>2, <3>2, <4>1
      <4>3. bplevel[q] = lev[q]
        BY <4>2 DEF Divided
      <4> QED BY <2>2, <3>4, <4>2, <4>3
    <3> QED BY <3>3, <3>4
  <2>4. field[b] = k
    BY <1>3, <1>6, <2>2
  <2> QED BY <1>1, <1>2, <1>3, <2>3, <2>4, BuddyIsHead
<1>8. b # p /\ b \notin B /\ lev[b] = k
  BY <1>2, <1>4, <1>6, <1>7
<1>9. flag[b] = 0
  BY <1>3, <1>6 DEF Divided
<1>10. Free(k) \in Head /\ b \in F[Free(k)] /\ b \in G[Free(k)]
  <2>1. Free(k) \in Head
    BY Nodes
  <2>2. b \in F[Free(k)]
    BY <1>6, <1>8, <1>9 DEF Divided
  <2> QED BY <1>2, <1>6, <1>8, <2>1, <2>2
<1>11. PICK N : N = list_del_init(M, Entry(b))
  OBVIOUS
<1>12. PICK H : H = [G EXCEPT ![Free(k)] = G[Free(k)] \ {b}]
  OBVIOUS
<1>13. ListStep(M, G, N, H, b)
  <2>1. PICK h : h = Free(k)
    OBVIOUS
  <2>2. h \in Head /\ b \in G[h] /\ H = [G EXCEPT ![h] = G[h] \ {b}]
    BY <1>10, <1>12, <2>1
  <2> QED BY <1>2, <1>6, <1>11, <2>2, ListDel
<1>14. PICK e : e = Lower(c, b)
  OBVIOUS
<1>15. PICK w : w = [new EXCEPT ![c] = -1, ![b] = -1, ![e] = k + 1]
  OBVIOUS
<1>16. Tiles(w) /\ e \in {c, b}
  BY <1>1, <1>2, <1>3, <1>7, <1>14, <1>15, JoinTile
<1>17. /\ w[e] = k + 1
       /\ \A q \in {c, b} : q # e => w[q] = -1
       /\ \A q \in Page : q # c /\ q # b => w[q] = new[q]
  <2>1. new \in [Page -> Order \union {-1}]
    BY <1>2 DEF Tiles
  <2> QED BY <1>2, <1>6, <1>15, <1>16, <2>1
<1>18. p \in PagesOf(<<e, k + 1>>) /\ e \in Page /\ e \in Nat
  BY <1>2, <1>6, <1>14, Numbers
<1>19. FirstOf(p, k + 1) = e
  BY <1>4, <1>5, <1>6, <1>14, <1>18, FirstIs
<1>20. l..(k+1)-1 = (l..k-1) \union {k}
  BY <1>4
<1>21. Merged(p, l, k + 1) = B \union {b}
  BY <1>1, <1>20 DEF Merged
<1>22. \A i \in l..(k+1)-1 : LET d == BuddyOf(FirstOf(p, i), i)
                             IN  d \in Page /\ d # p /\ lev[d] = i /\ flag[d] = 0
  <2>1. TAKE i \in l..(k+1)-1
  <2>2. CASE i \in l..k-1
    BY <1>2, <2>2
  <2>3. CASE i = k
    BY <1>1, <1>6, <1>8, <1>9, <2>3
  <2> QED BY <1>20, <2>2, <2>3
<1>23. e = p \/ e \in B \union {b}
  BY <1>2, <1>16
<1>24. ASSUME NEW q \in {p} \union (B \union {b}), q # e
       PROVE  w[q] = -1
  <2>1. CASE q = c \/ q = b
    BY <1>17, <1>24, <2>1
  <2>2. CASE q # c /\ q # b
    <3>1. new[q] = -1
      BY <1>2, <2>2
    <3>2. q \in Page
      <4>1. B \subseteq Page
        BY <1>1, <1>2 DEF Merged
      <4> QED BY <1>6, <4>1
    <3> QED BY <1>17, <2>2, <3>1, <3>2
  <2> QED BY <2>1, <2>2
<1>25. \A q \in Page : q # p /\ q \notin B \union {b} => w[q] = lev[q]
  <2>1. TAKE q \in Page
  <2>2. HAVE q # p /\ q \notin B \union {b}
  <2>3. q # c /\ q # b
    BY <1>2, <2>2
  <2> QED BY <1>2, <1>17, <2>2, <2>3
<1>26. ASSUME NEW h \in Head, NEW q \in Page
       PROVE  q \in H[h] <=> q \in F[h] /\ q \notin B \union {b}
  <2>1. G \in [Head -> SUBSET Page]
    BY <1>2 DEF Rings
  <2>2. CASE h = Free(k)
    <3>1. q \in H[h] <=> q \in G[h] /\ q # b
      BY <1>10, <1>12, <2>1, <2>2
    <3> QED BY <1>2, <3>1
  <2>3. CASE h # Free(k)
    <3>1. H[h] = G[h]
      BY <1>12, <2>1, <2>3
    <3>2. G[h] \intersect G[Free(k)] = {}
      BY <1>2, <1>10, <2>3 DEF Rings
    <3>3. b \notin G[h]
      BY <1>10, <3>2
    <3>4. q \in G[h] <=> q \in F[h] /\ q \notin B
      BY <1>2
    <3> QED BY <3>1, <3>3, <3>4
  <2> QED BY <2>2, <2>3
<1>27. ASSUME NEW q \in Page, Unlisted(F, q) PROVE N.next[Entry(q)] = L.next[Entry(q)]
  <2>1. q # b
    BY <1>10, <1>27 DEF Unlisted
  <2>2. Unlisted(G, q)
    BY <1>2, <1>27 DEF Unlisted
  <2>3. N.next[Entry(q)] = M.next[Entry(q)]
    BY <1>13, <2>1, <2>2 DEF ListStep
  <2> QED BY <1>2, <1>27, <2>3
<1>28. Rings(N, H)
  BY <1>13 DEF ListStep
<1>29. MergedTo(L, F, lev, p, l, k + 1, N, H, w)
  BY <1>16, <1>17, <1>18, <1>19, <1>21, <1>22, <1>23, <1>24, <1>25, <1>26, <1>27, <1>28
     DEF MergedTo
<1> QED BY <1>1, <1>11, <1>29

LEMMA Merging ==
  ASSUME NEW L, NEW F, Rings(L, F), NEW lev, Divided(F, lev),
         NEW l \in Order, NEW p \in Page, lev[p] = l, flag[p] = 1,
         NEW top \in Order, l <= top,
         \A k \in l..top-1 : BuddyIsFree(FirstOf(p, k), k)
  PROVE  \E G, new : MergedTo(L, F, lev, p, l, top, Unlinked(L, p, l, top)[top], G, new)
<1>1. l \in Nat /\ top \in Nat
  BY Numbers
<1>2. PICK U : U = Unlinked(L, p, l, top)
  OBVIOUS
<1>3. /\ U[l] = L
      /\ \A k \in l..top-1 :
           U[k+1] = list_del_init(U[k], Entry(BuddyOf(FirstOf(p, k), k)))
  BY <1>1, <1>2, UnlinkedIs
<1> DEFINE E(d) == \E G, new : MergedTo(L, F, lev, p, l, l + d, U[l + d], G, new)
           S == {d \in Nat : d <= top - l => E(d)}
<1>4. E(0)
  <2>1. l + 0 = l
    BY <1>1
  <2>2. MergedTo(L, F, lev, p, l, l, L, F, lev)
    BY MergeStart DEF Divided
  <2> QED BY <1>3, <2>1, <2>2
<1>5. ASSUME NEW d \in Nat, d + 1 <= top - l, E(d) PROVE E(d + 1)
  <2>1. PICK k : k = l + d
    OBVIOUS
  <2>2. k \in Order /\ l <= k /\ l + (d + 1) = k + 1 /\ k \in l..top-1
    BY <1>1, <1>5, <2>1, Numbers DEF Order
  <2>3. PICK G, new : MergedTo(L, F, lev, p, l, k, U[k], G, new)
    BY <1>5, <2>1
  <2>4. BuddyIsFree(FirstOf(p, k), k)
    BY <2>2
  <2>5. \E H, w : MergedTo(L, F, lev, p, l, k + 1,
                           list_del_init(U[k], Entry(BuddyOf(FirstOf(p, k), k))), H, w)
    BY <2>2, <2>3, <2>4, MergeStep
  <2>6. \E H, w : MergedTo(L, F, lev, p, l, k + 1, U[k+1], H, w)
    BY <1>3, <2>2, <2>5
  <2> QED BY <2>2, <2>6
<1>6. \A d \in Nat : d \in S <=> (d <= top - l => E(d))
  OBVIOUS
<1> HIDE DEF E, S
<1>7. 0 \in S /\ \A d \in Nat : d \in S => d + 1 \in S
  <2>1. \A d \in Nat : d + 1 <= top - l => d <= top - l
    BY <1>1
  <2> QED BY <1>4, <1>5, <1>6, <2>1
<1>8. \A d \in Nat : d \in S
  BY <1>7, AllNat
<1>9. top - l \in Nat /\ l + (top - l) = top /\ top - l <= top - l
  BY <1>1
<1>10. E(top - l)
  BY <1>6, <1>8, <1>9
<1> QED BY <1>2, <1>9, <1>10 DEF E

(* Merging stops, at the latest at the highest level.                      *)
LEMMA MergedLevelIs ==
  ASSUME NEW p, NEW l \in Order
  PROVE  LET top == MergedLevel(p, l)
         IN  /\ top \in Order /\ l <= top
             /\ \A k \in l..top-1 : BuddyIsFree(FirstOf(p, k), k)
<1>1. l \in Nat /\ MAX_BUDDY_ORDER \in Nat /\ MAX_BUDDY_ORDER \in l..MAX_BUDDY_ORDER
      /\ l..MAX_BUDDY_ORDER \subseteq Nat
  BY Numbers DEF Order
<1>2. PICK S : S = {m \in l..MAX_BUDDY_ORDER : ~BuddyIsFree(FirstOf(p, m), m)}
  OBVIOUS
<1>3. MAX_BUDDY_ORDER \in S
  BY <1>1, <1>2 DEF BuddyIsFree
<1>4. PICK m \in S : \A j \in S : m <= j
  <2>1. S \subseteq Nat /\ S # {}
    BY <1>1, <1>2, <1>3
  <2> QED BY <2>1, LeastNat
<1>5. m \in l..MAX_BUDDY_ORDER /\ ~BuddyIsFree(FirstOf(p, m), m)
  BY <1>2
<1>6. \A k \in l..m-1 : BuddyIsFree(FirstOf(p, k), k)
  <2>1. \A k \in l..m-1 : k \in l..MAX_BUDDY_ORDER /\ ~(m <= k)
    BY <1>1, <1>5
  <2> QED BY <1>2, <1>4, <2>1
<1>7. PICK top : top = MergedLevel(p, l)
  OBVIOUS
<1>8. /\ top \in l..MAX_BUDDY_ORDER
      /\ \A k \in l..top-1 : BuddyIsFree(FirstOf(p, k), k)
  BY <1>5, <1>6, <1>7 DEF MergedLevel
<1>9. top \in Order /\ l <= top
  BY <1>1, <1>8 DEF Order
<1> QED BY <1>7, <1>8, <1>9

(* A block in use becomes free.                                            *)
LEMMA FreeKeeps ==
  ASSUME NEW L, NEW F, Rings(L, F), NEW lev, Divided(F, lev),
         F[Full] \union F[Partial] \subseteq {q \in Page : flag[q] = 1},
         NEW l \in Order, NEW p \in Page, lev[p] = l, flag[p] = 1, Unlisted(F, p),
         FreePages(L, p, l)
  PROVE  /\ flag' = [flag EXCEPT ![p] = 0]
         /\ reference' = [reference EXCEPT ![p] = 0]
         /\ \A q \in Page : flag[q] = 1 /\ q # p /\ Unlisted(F, q)
              => links'.next[Entry(q)] = L.next[Entry(q)]
         /\ \E G, new :
              /\ Rings(links', G) /\ Divided(G, new)'
              /\ G[Full] = F[Full] /\ G[Partial] = F[Partial]
              /\ \A q \in Page : flag[q] = 1 /\ q # p => new[q] = lev[q]
<1>1. PICK top, first, B :
        top = MergedLevel(p, l) /\ first = FirstOf(p, top) /\ B = Merged(p, l, top)
  OBVIOUS
<1>2. /\ top \in Order /\ l <= top /\ top \in Nat /\ l \in Nat
      /\ \A k \in l..top-1 : BuddyIsFree(FirstOf(p, k), k)
  BY <1>1, MergedLevelIs, Numbers
<1>3. PICK M : M = Unlinked(L, p, l, top)[top]
  OBVIOUS
<1>4. /\ links' = list_add(M, Entry(first), Free(top))
      /\ flag' = [flag EXCEPT ![p] = 0]
      /\ reference' = [reference EXCEPT ![p] = 0]
      /\ bplevel' = [q \in Page |-> IF q = first THEN top
                                    ELSE IF q \in B THEN -1 ELSE bplevel[q]]
      /\ count' = [k \in Order |-> IF k = top THEN count[k] + 1
                                   ELSE IF k \in l..top-1 THEN count[k] - 1
                                   ELSE count[k]]
  BY <1>1, <1>3 DEF FreePages, Merged
<1>5. PICK G, new : MergedTo(L, F, lev, p, l, top, M, G, new)
  <2>1. \E G, new : MergedTo(L, F, lev, p, l, top, Unlinked(L, p, l, top)[top], G, new)
    BY <1>2, Merging
  <2> QED BY <1>3, <2>1
<1>6. /\ Rings(M, G) /\ Tiles(new) /\ first \in Page /\ new[first] = top
      /\ \A i \in l..top-1 : LET b == BuddyOf(FirstOf(p, i), i)
                             IN  b \in Page /\ b # p /\ lev[b] = i /\ flag[b] = 0
      /\ first = p \/ first \in B
      /\ \A q \in {p} \union B : q # first => new[q] = -1
      /\ \A q \in Page : q # p /\ q \notin B => new[q] = lev[q]
      /\ \A h \in Head, q \in Page : q \in G[h] <=> q \in F[h] /\ q \notin B
      /\ \A q \in Page : Unlisted(F, q) => M.next[Entry(q)] = L.next[Entry(q)]
  BY <1>1, <1>5 DEF MergedTo
<1>7. \A q \in B : q \in Page /\ q # p /\ flag[q] = 0 /\ lev[q] \in l..top-1
  BY <1>1, <1>6 DEF Merged
<1>8. /\ flag \in [Page -> {0, 1}] /\ bplevel \in [Page -> Order \union {-1}]
      /\ count \in [Order -> Nat]
      /\ \A q \in Page : lev[q] # -1 => bplevel[q] = lev[q]
      /\ \A q \in Page : flag[q] = 1 => lev[q] # -1
      /\ \A j \in Order, q \in Page : q \in F[Free(j)] <=> lev[q] = j /\ flag[q] = 0
      /\ \A j \in Order : count[j] = Cardinality(F[Free(j)])
  BY DEF Divided
<1>9. \A h \in Head : first \notin F[h] \/ first \in B
  BY <1>6 DEF Unlisted
<1>10. Unlisted(G, first)
  BY <1>6, <1>9 DEF Unlisted
<1>11. Free(top) \in Head
  BY <1>2, Nodes
<1>12. PICK H : H = [G EXCEPT ![Free(top)] = G[Free(top)] \union {first}]
  OBVIOUS
<1>13. ListStep(M, G, links', H, first)
  <2>1. PICK h, N : h = Free(top) /\ N = links'
    OBVIOUS
  <2>2. /\ h \in Head /\ H = [G EXCEPT ![h] = G[h] \union {first}]
        /\ N = list_add(M, Entry(first), h)
    BY <1>4, <1>11, <1>12, <2>1
  <2>3. ListStep(M, G, N, H, first)
    BY <1>6, <1>10, <2>2, ListAdd
  <2> QED BY <2>1, <2>3
<1>14. \A h \in Head, q \in Page :
         q \in H[h] <=> (q \in F[h] /\ q \notin B) \/ (h = Free(top) /\ q = first)
  <2>1. G \in [Head -> SUBSET Page]
    BY <1>6 DEF Rings
  <2>2. \A h \in Head, q \in Page : q \in H[h] <=> q \in G[h] \/ (h = Free(top) /\ q = first)
    BY <1>11, <1>12, <2>1
  <2> QED BY <1>6, <2>2
<1>15. Rings(links', H) /\ H \in [Head -> SUBSET Page] /\ F \in [Head -> SUBSET Page]
  BY <1>13 DEF ListStep, Rings
<1>16. flag' \in [Page -> {0, 1}] /\ flag'[p] = 0 /\ \A q \in Page : q # p => flag'[q] = flag[q]
  BY <1>4, <1>8
<1>17. H[Full] = F[Full] /\ H[Partial] = F[Partial]
  <2>1. ASSUME NEW h \in {Full, Partial} PROVE H[h] = F[h]
    <3>1. h \in Head /\ h # Free(top)
      BY <1>2, Nodes
    <3>2. \A q \in F[h] : q \in Page /\ flag[q] = 1
      BY <2>1
    <3>3. \A q \in F[h] : q \notin B
      BY <1>7, <3>2
    <3>4. \A q \in Page : q \in H[h] <=> q \in F[h]
      BY <1>14, <3>1, <3>3
    <3> QED BY <1>15, <3>1, <3>4
  <2> QED BY <2>1
<1>18. ASSUME NEW q \in Page, flag[q] = 1, q # p
       PROVE  /\ new[q] = lev[q] /\ q # first
              /\ Unlisted(F, q) => links'.next[Entry(q)] = L.next[Entry(q)]
  <2>1. q \notin B
    BY <1>7, <1>18
  <2>2. q # first /\ new[q] = lev[q]
    BY <1>6, <1>18, <2>1
  <2>3. Unlisted(F, q) => Unlisted(G, q)
    BY <1>6 DEF Unlisted
  <2>4. Unlisted(F, q) => links'.next[Entry(q)] = M.next[Entry(q)]
    BY <1>13, <2>2, <2>3 DEF ListStep
  <2> QED BY <1>6, <2>2, <2>4
<1>19. ASSUME NEW q \in Page
       PROVE  /\ bplevel'[q] \in Order \union {-1}
              /\ new[q] # -1 => bplevel'[q] = new[q]
  <2>1. CASE q = first
    BY <1>2, <1>4, <1>6, <2>1
  <2>2. CASE q # first /\ q \in B
    BY <1>4, <1>6, <2>2
  <2>3. CASE q # first /\ q \notin B
    <3>1. bplevel'[q] = bplevel[q]
      BY <1>4, <2>3
    <3>2. new[q] # -1 => new[q] = lev[q]
      BY <1>6, <2>3
    <3> QED BY <1>8, <3>1, <3>2
  <2> QED BY <2>1, <2>2, <2>3
<1>20. bplevel' \in [Page -> Order \union {-1}]
  BY <1>4, <1>19
<1>21. \A q \in Page : flag'[q] = 1 => new[q] # -1
  BY <1>8, <1>16, <1>18
<1>22. ASSUME NEW j \in Order, NEW q \in Page
       PROVE  q \in H[Free(j)] <=> new[q] = j /\ flag'[q] = 0
  <2>1. Free(j) \in Head /\ (Free(j) = Free(top) => j = top)
    BY <1>2, Nodes
  <2>2. CASE q = first
    <3>1. flag'[q] = 0
      BY <1>6, <1>7, <1>16, <2>2
    <3>2. ~(q \in F[Free(j)] /\ q \notin B)
      BY <1>9, <2>1, <2>2
    <3>3. q \in H[Free(j)] <=> j = top
      BY <1>14, <2>1, <2>2, <3>2
    <3> QED BY <1>6, <2>2, <3>1, <3>3
  <2>3. CASE q # first /\ q \in {p} \union B
    <3>1. new[q] = -1
      BY <1>6, <2>3
    <3>2. ~(q \in F[Free(j)] /\ q \notin B)
      BY <2>1, <2>3 DEF Unlisted
    <3>3. q \notin H[Free(j)]
      BY <1>14, <2>1, <2>3, <3>2
    <3> QED BY <3>1, <3>3, Numbers
  <2>4. CASE q # first /\ q # p /\ q \notin B
    <3>1. new[q] = lev[q] /\ flag'[q] = flag[q]
      BY <1>6, <1>16, <2>4
    <3>2. q \in H[Free(j)] <=> q \in F[Free(j)]
      BY <1>14, <2>1, <2>4
    <3> QED BY <1>8, <3>1, <3>2
  <2> QED BY <2>2, <2>3, <2>4
<1>23. ASSUME NEW j \in Order
       PROVE  count'[j] \in Nat /\ count'[j] = Cardinality(H[Free(j)])
  <2>1. Free(j) \in Head /\ (Free(j) = Free(top) => j = top)
    BY <1>2, Nodes
  <2>2. H[Free(j)] \subseteq Page /\ F[Free(j)] \subseteq Page
    BY <1>15, <2>1
  <2>3. Cardinality(H[Free(j)]) \in Nat
    BY <2>2, FinitePages
  <2>4. \A q \in F[Free(j)] : q \in B => j \in l..top-1
    BY <1>7, <1>8
  <2>5. CASE j = top
    <3>1. j \notin l..top-1
      BY <1>2, <2>5
    <3>2. \A q \in F[Free(j)] : q \notin B
      BY <2>4, <3>1
    <3>3. first \notin F[Free(j)]
      BY <1>9, <2>1, <3>2
    <3>4. \A q \in Page : q \in H[Free(j)] <=> q \in F[Free(j)] \/ q = first
      BY <1>14, <2>1, <2>5, <3>2
    <3>5. H[Free(j)] = F[Free(j)] \union {first}
      BY <1>6, <2>2, <3>4
    <3>6. Cardinality(H[Free(j)]) = Cardinality(F[Free(j)]) + 1
      BY <1>6, <2>2, <3>3, <3>5, FinitePages
    <3>7. count'[j] = count[j] + 1
      BY <1>4, <2>5
    <3> QED BY <1>8, <2>3, <3>6, <3>7
  <2>6. CASE j \in l..top-1
    <3>1. j # top
      BY <1>2, <2>6
    <3>2. PICK b : b = BuddyOf(FirstOf(p, j), j)
      OBVIOUS
    <3>3. b \in Page /\ lev[b] = j /\ flag[b] = 0 /\ b \in B
      BY <1>1, <1>6, <2>6, <3>2 DEF Merged
    <3>4. \A q \in B : lev[q] = j => q = b
      <4>1. TAKE q \in B
      <4>2. HAVE lev[q] = j
      <4>3. PICK i \in l..top-1 : q = BuddyOf(FirstOf(p, i), i)
        BY <1>1 DEF Merged
      <4>4. lev[q] = i
        BY <1>6, <4>3
      <4> QED BY <3>2, <4>2, <4>3, <4>4
    <3>5. \A q \in Page : q \in H[Free(j)] <=> q \in F[Free(j)] /\ q \notin B
      BY <1>14, <2>1, <3>1
    <3>6. \A q \in Page : q \in H[Free(j)] <=> q \in F[Free(j)] /\ q # b
      BY <1>8, <3>3, <3>4, <3>5
    <3>7. H[Free(j)] = F[Free(j)] \ {b} /\ b \in F[Free(j)]
      BY <1>8, <2>2, <3>3, <3>6
    <3>8. Cardinality(H[Free(j)]) = Cardinality(F[Free(j)]) - 1
      BY <2>2, <3>7, FinitePages
    <3>9. count'[j] = count[j] - 1
      BY <1>4, <2>6, <3>1
    <3> QED BY <1>8, <2>3, <3>8, <3>9
  <2>7. CASE j # top /\ j \notin l..top-1
    <3>1. \A q \in Page : q \in H[Free(j)] <=> q \in F[Free(j)]
      BY <1>14, <2>1, <2>4, <2>7
    <3>2. H[Free(j)] = F[Free(j)]
      BY <2>2, <3>1
    <3>3. count'[j] = count[j]
      BY <1>4, <2>7
    <3> QED BY <1>8, <2>3, <3>2, <3>3
  <2> QED BY <2>5, <2>6, <2>7
<1>24. count' \in [Order -> Nat]
  BY <1>4, <1>23
<1>25. Divided(H, new)'
  BY <1>6, <1>16, <1>19, <1>20, <1>21, <1>22, <1>23, <1>24 DEF Divided
<1> QED BY <1>4, <1>15, <1>17, <1>18, <1>25

-----------------------------------------------------------------------------
(***************************************************************************)
(* The free chain of page p: m objects from first on, through the free     *)
(* pointers B, all different, and just those that are not in H.            *)
(***************************************************************************)
Index == 0..MaxObject-1

IsChain(p, m, first, B, H, f) ==
  /\ f \in [1..m -> Index]
  /\ m > 0 => first = <<p, f[1]>>
  /\ \A i \in 1..m-1 : B[<<p, f[i]>>] = <<p, f[i+1]>>
  /\ \A i, j \in 1..m : f[i] = f[j] => i = j
  /\ \A k \in Index : (\E i \in 1..m : f[i] = k) <=> <<p, k>> \notin H

LEMMA Objects ==
  /\ MaxObject \in Nat /\ MaxObject > 1
  /\ \A p \in Page, k \in Index : <<p, k>> \in Object
  /\ \A o \in Object : o[1] \in Page /\ o[2] \in Index /\ o = <<o[1], o[2]>>
  /\ Null \notin Object /\ \A p \in Page : p # NoPage
<1>1. MaxObject \in Nat /\ MaxObject > 1
  BY SlabAssumption
<1>2. \A p \in Page, k \in Index : <<p, k>> \in Object
  BY DEF Object, Index
<1>3. \A o \in Object : o[1] \in Page /\ o[2] \in Index /\ o = <<o[1], o[2]>>
  BY DEF Object, Index
<1>4. -1 \notin Page
  BY Numbers
<1>5. Null \notin Object
  BY <1>3, <1>4 DEF Null
<1> QED BY <1>1, <1>2, <1>3, <1>4, <1>5 DEF NoPage

(* The first object of the chain is one of the page's that nobody holds.   *)
LEMMA ChainFirst ==
  ASSUME NEW p \in Page, NEW m \in Nat, m > 0,
         NEW first, NEW B, NEW H, NEW f, IsChain(p, m, first, B, H, f)
  PROVE  first \in Object /\ first[1] = p /\ first \notin H
<1>1. /\ f \in [1..m -> Index] /\ first = <<p, f[1]>>
      /\ \A k \in Index : (\E i \in 1..m : f[i] = k) <=> <<p, k>> \notin H
  BY DEF IsChain
<1>2. 1 \in 1..m
  OBVIOUS
<1> QED BY <1>1, <1>2, Objects

(* When it is taken, the others remain.                                    *)
LEMMA ChainTake ==
  ASSUME NEW p \in Page, NEW m \in Nat, NEW n \in Nat, n = m - 1,
         NEW first, NEW B, NEW H, NEW f, IsChain(p, m, first, B, H, f)
  PROVE  \E g : IsChain(p, n, B[first], B, H \union {first}, g)
<1>1. /\ f \in [1..m -> Index] /\ first = <<p, f[1]>>
      /\ \A i \in 1..m-1 : B[<<p, f[i]>>] = <<p, f[i+1]>>
      /\ \A i, j \in 1..m : f[i] = f[j] => i = j
      /\ \A k \in Index : (\E i \in 1..m : f[i] = k) <=> <<p, k>> \notin H
  BY DEF IsChain
<1>2. 1 \in 1..m
  OBVIOUS
<1>5. PICK g : g = [i \in 1..m-1 |-> f[i+1]]
  OBVIOUS
<1>6. \A i \in 1..m-1 : i + 1 \in 1..m /\ i + 1 # 1 /\ g[i] = f[i+1] /\ g[i] \in Index
  BY <1>1, <1>5
<1>7. g \in [1..m-1 -> Index]
  BY <1>5, <1>6
<1>8. m - 1 > 0 => B[first] = <<p, g[1]>>
  <2>1. HAVE m - 1 > 0
  <2>2. 1 \in 1..m-1 /\ 1 + 1 = 2
    BY <2>1
  <2>3. B[<<p, f[1]>>] = <<p, f[2]>> /\ g[1] = f[2]
    BY <1>1, <1>5, <2>2
  <2> QED BY <1>1, <2>3
<1>9. \A i \in 1..(m-1)-1 : B[<<p, g[i]>>] = <<p, g[i+1]>>
  <2>1. TAKE i \in 1..(m-1)-1
  <2>2. i \in 1..m-1 /\ i + 1 \in 1..m-1
    OBVIOUS
  <2>3. g[i] = f[i+1] /\ g[i+1] = f[(i+1)+1]
    BY <1>5, <2>2
  <2> QED BY <1>1, <2>2, <2>3
<1>10. \A i, j \in 1..m-1 : g[i] = g[j] => i = j
  <2>1. TAKE i, j \in 1..m-1
  <2>2. HAVE g[i] = g[j]
  <2>3. i + 1 = j + 1
    BY <1>1, <1>6, <2>2
  <2> QED BY <2>3
<1>11. ASSUME NEW k \in Index
       PROVE  (\E i \in 1..m-1 : g[i] = k) <=> <<p, k>> \notin H \union {first}
  <2>1. ASSUME NEW i \in 1..m-1, g[i] = k PROVE <<p, k>> \notin H \union {first}
    <3>1. f[i+1] = k /\ i + 1 \in 1..m /\ i + 1 # 1
      BY <1>6, <2>1
    <3>2. k # f[1]
      BY <1>1, <1>2, <3>1
    <3> QED BY <1>1, <3>1, <3>2
  <2>2. ASSUME <<p, k>> \notin H \union {first} PROVE \E i \in 1..m-1 : g[i] = k
    <3>1. PICK i \in 1..m : f[i] = k
      BY <1>1, <2>2
    <3>2. i # 1
      BY <1>1, <2>2, <3>1
    <3>3. i - 1 \in 1..m-1 /\ (i - 1) + 1 = i
      BY <3>2
    <3>4. g[i - 1] = k
      BY <1>5, <3>1, <3>3
    <3> QED BY <3>3, <3>4
  <2> QED BY <2>1, <2>2
<1>12. IsChain(p, m - 1, B[first], B, H \union {first}, g)
  BY <1>7, <1>8, <1>9, <1>10, <1>11 DEF IsChain
<1> QED BY <1>12

(* An object comes back, before the others.                                *)
GivenBack(p, o, first, B, C, H) ==
  /\ o \in H /\ o \in Object /\ o[1] = p /\ C[o] = first
  /\ \A q \in Object : q # o => C[q] = B[q]

LEMMA ChainGive ==
  ASSUME NEW p \in Page, NEW m \in Nat, NEW n \in Nat, m < n, n <= m + 1,
         NEW first, NEW B, NEW H, NEW f, IsChain(p, m, first, B, H, f),
         NEW o, NEW C, GivenBack(p, o, first, B, C, H)
  PROVE  \E g : IsChain(p, n, o, C, H \ {o}, g)
<1>0. /\ o \in H /\ o \in Object /\ o[1] = p /\ C[o] = first
      /\ \A q \in Object : q # o => C[q] = B[q]
  BY DEF GivenBack
<1>1. /\ f \in [1..m -> Index]
      /\ m > 0 => first = <<p, f[1]>>
      /\ \A i \in 1..m-1 : B[<<p, f[i]>>] = <<p, f[i+1]>>
      /\ \A i, j \in 1..m : f[i] = f[j] => i = j
      /\ \A k \in Index : (\E i \in 1..m : f[i] = k) <=> <<p, k>> \notin H
  BY DEF IsChain
<1>2. PICK a \in Index : o = <<p, a>>
  BY <1>0, Objects
<1>3. \A i \in 1..m : f[i] \in Index /\ f[i] # a
  BY <1>0, <1>1, <1>2
<1>4. PICK g : g = [i \in 1..m+1 |-> IF i = 1 THEN a ELSE f[i-1]]
  OBVIOUS
<1>5. 1 \in 1..m+1 /\ \A i \in 1..m+1 : i = 1 \/ i - 1 \in 1..m
  OBVIOUS
<1>6. g[1] = a /\ \A i \in 1..m+1 : i # 1 => g[i] = f[i-1]
  BY <1>4, <1>5
<1>7. g \in [1..m+1 -> Index]
  <2>1. \A i \in 1..m+1 : g[i] \in Index
    BY <1>3, <1>5, <1>6
  <2> QED BY <1>4, <2>1
<1>8. \A i \in 1..(m+1)-1 : C[<<p, g[i]>>] = <<p, g[i+1]>>
  <2>1. TAKE i \in 1..(m+1)-1
  <2>2. i \in 1..m /\ i + 1 \in 1..m+1 /\ i + 1 # 1 /\ (i + 1) - 1 = i /\ i \in 1..m+1
    OBVIOUS
  <2>3. g[i+1] = f[i]
    BY <1>6, <2>2
  <2>4. CASE i = 1
    <3>1. g[i] = a /\ m > 0
      BY <1>6, <2>2, <2>4
    <3>2. C[<<p, g[i]>>] = first /\ first = <<p, f[1]>>
      BY <1>0, <1>1, <1>2, <3>1
    <3> QED BY <2>3, <2>4, <3>2
  <2>5. CASE i # 1
    <3>1. i - 1 \in 1..m-1 /\ i - 1 \in 1..m /\ (i - 1) + 1 = i
      BY <2>2, <2>5
    <3>2. g[i] = f[i-1]
      BY <1>6, <2>2, <2>5
    <3>3. <<p, f[i-1]>> \in Object /\ <<p, f[i-1]>> # o
      BY <1>2, <1>3, <3>1, Objects
    <3>4. C[<<p, f[i-1]>>] = B[<<p, f[i-1]>>]
      BY <1>0, <3>3
    <3>5. B[<<p, f[i-1]>>] = <<p, f[i]>>
      BY <1>1, <3>1
    <3> QED BY <2>3, <3>2, <3>4, <3>5
  <2> QED BY <2>4, <2>5
<1>9. \A i, j \in 1..m+1 : g[i] = g[j] => i = j
  <2>1. TAKE i, j \in 1..m+1
  <2>2. HAVE g[i] = g[j]
  <2>3. CASE i = 1
    BY <1>3, <1>5, <1>6, <2>2, <2>3
  <2>4. CASE j = 1
    BY <1>3, <1>5, <1>6, <2>2, <2>4
  <2>5. CASE i # 1 /\ j # 1
    <3>1. f[i-1] = f[j-1] /\ i - 1 \in 1..m /\ j - 1 \in 1..m
      BY <1>5, <1>6, <2>2, <2>5
    <3>2. i - 1 = j - 1
      BY <1>1, <3>1
    <3> QED BY <3>2
  <2> QED BY <2>3, <2>4, <2>5
<1>10. ASSUME NEW k \in Index
       PROVE  (\E i \in 1..m+1 : g[i] = k) <=> <<p, k>> \notin H \ {o}
  <2>1. ASSUME NEW i \in 1..m+1, g[i] = k PROVE <<p, k>> \notin H \ {o}
    BY <1>1, <1>2, <1>5, <1>6, <2>1
  <2>2. ASSUME <<p, k>> \notin H \ {o} PROVE \E i \in 1..m+1 : g[i] = k
    <3>1. CASE k = a
      BY <1>5, <1>6, <3>1
    <3>2. CASE k # a
      <4>1. <<p, k>> \notin H
        BY <1>2, <2>2, <3>2
      <4>2. PICK i \in 1..m : f[i] = k
        BY <1>1, <4>1
      <4>3. i + 1 \in 1..m+1 /\ i + 1 # 1 /\ (i + 1) - 1 = i
        OBVIOUS
      <4> QED BY <1>6, <4>2, <4>3
    <3> QED BY <3>1, <3>2
  <2> QED BY <2>1, <2>2
<1>11. m + 1 > 0 => o = <<p, g[1]>>
  BY <1>2, <1>6
<1>12. IsChain(p, m + 1, o, C, H \ {o}, g)
  BY <1>7, <1>8, <1>9, <1>10, <1>11 DEF IsChain
<1>13. n = m + 1
  OBVIOUS
<1> QED BY <1>12, <1>13

(* What happens to the objects of other pages does not matter.             *)
LEMMA ChainFrame ==
  ASSUME NEW p \in Page, NEW m \in Nat, NEW first, NEW B, NEW H, NEW f,
         IsChain(p, m, first, B, H, f), NEW C, NEW J,
         \A o \in Object : o[1] = p => C[o] = B[o] /\ (o \in J <=> o \in H)
  PROVE  IsChain(p, m, first, C, J, f)
<1>1. f \in [1..m -> Index]
  BY DEF IsChain
<1>2. \A k \in Index : C[<<p, k>>] = B[<<p, k>>] /\ (<<p, k>> \in J <=> <<p, k>> \in H)
  <2>1. TAKE k \in Index
  <2>2. <<p, k>> \in Object /\ <<p, k>>[1] = p
    BY Objects
  <2> QED BY <2>2
<1>3. \A i \in 1..m-1 : C[<<p, f[i]>>] = <<p, f[i+1]>>
  <2>1. TAKE i \in 1..m-1
  <2>2. i \in 1..m
    OBVIOUS
  <2>3. f[i] \in Index
    BY <1>1, <2>2
  <2> QED BY <1>2, <2>3 DEF IsChain
<1>4. \A k \in Index : (\E i \in 1..m : f[i] = k) <=> <<p, k>> \notin J
  BY <1>2 DEF IsChain
<1> QED BY <1>3, <1>4 DEF IsChain

(* format_slabpage.                                                        *)
LEMMA ChainFormatted ==
  ASSUME NEW p \in Page, NEW H, \A k \in Index : <<p, k>> \notin H,
         NEW C, \A o \in Object : o[1] = p => C[o] = <<p, (o[2] + 1) % MaxObject>>
  PROVE  \E f : IsChain(p, MaxObject, <<p, 0>>, C, H, f)
<1>1. MaxObject \in Nat /\ MaxObject > 1
  BY Objects
<1>2. PICK f : f = [i \in 1..MaxObject |-> i - 1]
  OBVIOUS
<1>3. f \in [1..MaxObject -> Index]
  <2>1. \A i \in 1..MaxObject : i - 1 \in Index
    BY <1>1 DEF Index
  <2> QED BY <1>2, <2>1
<1>4. \A i \in 1..MaxObject : f[i] = i - 1
  BY <1>2
<1>5. f[1] = 0
  BY <1>1, <1>4
<1>6. \A i \in 1..MaxObject-1 : C[<<p, f[i]>>] = <<p, f[i+1]>>
  <2>1. TAKE i \in 1..MaxObject-1
  <2>2. i \in 1..MaxObject /\ i + 1 \in 1..MaxObject /\ i \in Nat /\ i < MaxObject
    BY <1>1
  <2>3. f[i] = i - 1 /\ f[i+1] = i
    BY <1>4, <2>2
  <2>4. i % MaxObject = i
    BY <1>1, <2>2
  <2>5. f[i] \in Index /\ f[i] + 1 = i
    BY <1>3, <2>2, <2>3
  <2>6. <<p, f[i]>> \in Object /\ <<p, f[i]>>[1] = p /\ <<p, f[i]>>[2] = f[i]
    BY <2>5, Objects
  <2>7. C[<<p, f[i]>>] = <<p, (f[i] + 1) % MaxObject>>
    BY <2>6
  <2> QED BY <2>3, <2>4, <2>5, <2>7
<1>7. \A i, j \in 1..MaxObject : f[i] = f[j] => i = j
  BY <1>4
<1>8. \A k \in Index : (\E i \in 1..MaxObject : f[i] = k) <=> <<p, k>> \notin H
  <2>1. TAKE k \in Index
  <2>2. k + 1 \in 1..MaxObject /\ (k + 1) - 1 = k
    BY <1>1 DEF Index
  <2>3. f[k + 1] = k
    BY <1>4, <2>2
  <2> QED BY <2>2, <2>3
<1> QED BY <1>3, <1>5, <1>6, <1>7, <1>8 DEF IsChain

-----------------------------------------------------------------------------
(***************************************************************************)
(* The inductive invariant.  Some F and lev say what is on the lists and   *)
(* where blocks begin.  Full pages are on the full list; a page that lost  *)
(* its only free object is the current page or on the full list, so all    *)
(* pages but the current one have at most one object to give, and          *)
(* slab_free never sees the last object of a page it takes off a list.     *)
(***************************************************************************)
Fields ==
  /\ reference \in [Page -> {0, 1}]
  /\ nr_objs \in [Page -> 0..MaxObject]
  /\ freeobj \in [Page -> Object \union {Null}]
  /\ behind \in [Object -> Object \union {Null}]
  /\ cpu \in Page \union {NoPage}
  /\ request \in [pc : {"idle", "check", "take", "stuck"},
                  object : Object \union {Null}, keep : BOOLEAN]
  /\ held \subseteq Object
  /\ blocks \subseteq Page \X Order

Lists(F, lev) ==
  /\ Rings(links, F) /\ Divided(F, lev)
  /\ \A p \in Page :
       p \in F[Full] <=> reference[p] = 1 /\ p # cpu /\ nr_objs[p] = MaxObject
  /\ \A p \in Page :
       p \in F[Partial] <=> reference[p] = 1 /\ p # cpu /\ nr_objs[p] = MaxObject - 1
  /\ \A p \in Page : reference[p] = 1 => flag[p] = 1 /\ lev[p] = 0
  /\ \A b \in blocks : flag[b[1]] = 1 /\ lev[b[1]] = b[2] /\ reference[b[1]] = 0

SelfLinked(p) == links.next[Entry(p)] = Entry(p)

CpuPage ==
  /\ \A p \in Page : reference[p] = 1 /\ p # cpu => nr_objs[p] >= MaxObject - 1
  /\ cpu # NoPage =>
       /\ reference[cpu] = 1 /\ nr_objs[cpu] < MaxObject
       /\ SelfLinked(cpu) \/ (request.pc = "check" /\ nr_objs[cpu] = MaxObject - 1)
  /\ request.pc = "check" /\ cpu = NoPage => request.object = Null
  /\ request.pc = "take" => cpu # NoPage

(* What the command under way is going to free is the first part of what   *)
(* it allocated: an object or a block.                                     *)
Clients ==
  /\ \A o \in held : reference[o[1]] = 1
  /\ \A a, b \in temp : a = b
  /\ \A a \in temp : a \in held \/ \E b \in blocks : a = <<b[1], 0>>
  /\ \A a \in temp : reference[a[1]] = 1 /\ a[1] # cpu => nr_objs[a[1]] = MaxObject
  /\ request.pc \in {"check", "take"} => request.keep \/ temp = {}

(* What a page gives next: slab_alloc has read that of the current page.   *)
Offer(p) == IF request.pc \in {"check", "take"} /\ p = cpu THEN request.object
            ELSE freeobj[p]

Chains ==
  request.pc # "stuck" =>
    \A p \in Page : reference[p] = 1 =>
      \E f : IsChain(p, MaxObject - nr_objs[p], Offer(p), behind, held, f)

SlabInv ==
  /\ Fields /\ CpuPage /\ Clients /\ Chains
  /\ \E F, lev : Lists(F, lev)

(* Pages on the slab's lists are in use; so is the current page, which is  *)
(* on no list, and so are blocks.                                          *)
LEMMA InUse ==
  ASSUME Fields, CpuPage, NEW F, NEW lev, Lists(F, lev)
  PROVE  /\ F[Full] \union F[Partial] \subseteq {p \in Page : flag[p] = 1}
         /\ \A p \in Page : flag[p] = 1 /\ (p = cpu \/ reference[p] # 1) => Unlisted(F, p)
         /\ cpu # NoPage => cpu \in Page /\ flag[cpu] = 1 /\ Unlisted(F, cpu)
<1>1. F \in [Head -> SUBSET Page] /\ Full \in Head /\ Partial \in Head
  BY Nodes DEF Lists, Rings
<1>2. F[Full] \union F[Partial] \subseteq {p \in Page : flag[p] = 1}
  BY <1>1 DEF Lists
<1>3. ASSUME NEW p \in Page, flag[p] = 1, p = cpu \/ reference[p] # 1
      PROVE  Unlisted(F, p)
  <2>1. p \notin F[Full] /\ p \notin F[Partial]
    BY <1>3 DEF Lists
  <2>2. \A l \in Order : p \notin F[Free(l)]
    BY <1>3 DEF Lists, Divided
  <2> QED BY <2>1, <2>2 DEF Unlisted, Head
<1>4. cpu # NoPage => cpu \in Page /\ flag[cpu] = 1
  BY DEF Fields, CpuPage, Lists
<1> QED BY <1>2, <1>3, <1>4

(* A page on a list is not linked to itself.                               *)
LEMMA ListedNotSelf ==
  ASSUME NEW L, NEW F, Rings(L, F), NEW h \in Head, NEW p \in F[h]
  PROVE  p \in Page /\ L.next[Entry(p)] # Entry(p)
<1>1. PICK n \in Nat, at \in [Nat -> Node] :
        Walk(L, h, n, at) /\ Entries(F[h]) = {at[i] : i \in 1..n}
  BY DEF Rings, Ring
<1>2. F[h] \subseteq Page
  BY DEF Rings
<1>3. PICK i \in 1..n : at[i] = Entry(p)
  BY <1>1, <1>2, EntriesOf
<1>4. i \in 0..n /\ i \in 1..n+1 /\ i + 1 \in 1..n+1 /\ i # i + 1
  OBVIOUS
<1>5. L.next[Entry(p)] = at[i+1] /\ at[i+1] # at[i]
  BY <1>1, <1>3, <1>4, WalkOnce DEF Walk
<1> QED BY <1>2, <1>3, <1>5

(* In the loop of slab_alloc, the current page has an object to give.      *)
LEMMA CurrentGives ==
  ASSUME SlabInv, cpu # NoPage, request.pc \in {"check", "take"}
  PROVE  /\ cpu \in Page /\ reference[cpu] = 1 /\ nr_objs[cpu] \in 0..MaxObject-1
         /\ request.object \in Object /\ request.object[1] = cpu
         /\ request.object \notin held /\ request.object # Null
         /\ \E f : IsChain(cpu, MaxObject - nr_objs[cpu], request.object, behind, held, f)
         /\ \E g : IsChain(cpu, MaxObject - nr_objs[cpu] - 1, behind[request.object], behind,
                           held \union {request.object}, g)
<1>1. MaxObject \in Nat /\ cpu \in Page /\ reference[cpu] = 1 /\ nr_objs[cpu] \in 0..MaxObject-1
  BY Objects DEF SlabInv, Fields, CpuPage
<1>2. PICK m \in Nat : m = MaxObject - nr_objs[cpu] /\ m > 0
  BY <1>1
<1>3. request.pc # "stuck" /\ Offer(cpu) = request.object
  BY DEF Offer
<1>4. PICK f : IsChain(cpu, m, request.object, behind, held, f)
  BY <1>1, <1>2, <1>3 DEF SlabInv, Chains
<1>5. /\ request.object \in Object /\ request.object[1] = cpu
      /\ request.object \notin held
      /\ \E g : IsChain(cpu, m - 1, behind[request.object], behind,
                        held \union {request.object}, g)
  <2>1. PICK p, o, B, H, n : n = m - 1 /\ p = cpu /\ o = request.object /\ B = behind /\ H = held
    OBVIOUS
  <2>2. p \in Page /\ IsChain(p, m, o, B, H, f) /\ n \in Nat /\ n = m - 1
    BY <1>1, <1>2, <1>4, <2>1
  <2>3. o \in Object /\ o[1] = p /\ o \notin H
    BY <1>2, <2>2, ChainFirst
  <2>4. \E g : IsChain(p, n, B[o], B, H \union {o}, g)
    BY <2>2, ChainTake
  <2> QED BY <2>1, <2>3, <2>4
<1> QED BY <1>1, <1>2, <1>4, <1>5, Objects

(* So slab_alloc turns to another page only when there is no current one,  *)
(* and never has to put one on the full list before it does.               *)
LEMMA TurnsWithoutCurrent ==
  ASSUME SlabInv, request.pc = "check", ~HasObject
  PROVE  cpu = NoPage /\ Retired = links
<1>1. CASE cpu # NoPage
  <2>1. request.object # Null /\ nr_objs[cpu] \in 0..MaxObject-1
    BY <1>1, CurrentGives
  <2>2. nr_objs[cpu] < MaxObject
    BY <2>1, Objects
  <2> QED BY <2>1, <2>2 DEF HasObject
<1> QED BY <1>1 DEF Retired

-----------------------------------------------------------------------------
(* The buddy system is not touched, nor its free lists.                    *)
LEMMA DividedSame ==
  ASSUME NEW F, NEW lev, Divided(F, lev), UNCHANGED buddyVars,
         NEW G, \A l \in Order : G[Free(l)] = F[Free(l)]
  PROVE  Divided(G, lev)'
<1>1. flag' = flag /\ bplevel' = bplevel /\ count' = count
  BY DEF buddyVars
<1> QED BY <1>1 DEF Divided

(* No part of the invariant but the chains says much of a process that     *)
(* spins: links, pages and blocks are as before.                           *)
LEMMA KmallocPagesKeeps ==
  ASSUME SlabInv, NEW l \in Wanted, NEW keep \in BOOLEAN, kmalloc_pages(l, keep)
  PROVE  SlabInv'
<1>1. PICK F, lev : Lists(F, lev)
  BY DEF SlabInv
<1>2. l \in Order
  BY SlabAssumption
<1>3. Fields /\ CpuPage /\ Clients /\ Chains
  BY DEF SlabInv
<1>4. request.pc = "idle" /\ (keep \/ temp = {})
  BY DEF kmalloc_pages, MayAllocate
<1>5. /\ reference' = reference /\ nr_objs' = nr_objs /\ freeobj' = freeobj
      /\ behind' = behind /\ cpu' = cpu
  BY DEF kmalloc_pages, pageVars
<1>6. CASE Available(links, l) = {}
  <2>1. /\ request' = [Idle EXCEPT !.pc = "stuck"]
        /\ links' = links /\ flag' = flag /\ bplevel' = bplevel /\ count' = count
        /\ held' = held /\ blocks' = blocks /\ temp' = temp
    BY <1>6 DEF kmalloc_pages, buddyVars, clientVars
  <2>2. request'.pc = "stuck" /\ request' \in [pc : {"idle", "check", "take", "stuck"},
                  object : Object \union {Null}, keep : BOOLEAN]
    BY <2>1 DEF Idle
  <2>3. Fields'
    BY <1>3, <1>5, <2>1, <2>2 DEF Fields
  <2>4. CpuPage'
    BY <1>3, <1>4, <1>5, <2>1, <2>2 DEF CpuPage, SelfLinked
  <2>5. Clients'
    BY <1>3, <1>5, <2>1, <2>2 DEF Clients
  <2>6. Chains'
    BY <2>2 DEF Chains
  <2>7. Divided(F, lev)'
    BY <1>1, <2>1, DividedSame DEF Lists, buddyVars
  <2>8. Lists(F, lev)'
    BY <1>1, <1>5, <2>1, <2>7 DEF Lists
  <2> QED BY <2>3, <2>4, <2>5, <2>6, <2>8 DEF SlabInv
<1>7. CASE Available(links, l) # {}
  <2>1. PICK p : p = PageTaken(links, l)
    OBVIOUS
  <2>2. /\ AllocPages(links, l)
        /\ blocks' = blocks \union {<<p, l>>}
        /\ temp' = IF keep THEN temp ELSE {<<p, 0>>}
        /\ request' = request /\ held' = held
    BY <1>7, <2>1 DEF kmalloc_pages, Remember
  <2>3. /\ F[Full] \union F[Partial] \subseteq {q \in Page : flag[q] = 1}
        /\ cpu # NoPage => cpu \in Page /\ flag[cpu] = 1 /\ Unlisted(F, cpu)
    BY <1>1, <1>3, InUse
  <2>4. Rings(links, F) /\ Divided(F, lev)
    BY <1>1 DEF Lists
  <2>5. /\ p \in Page /\ flag[p] = 0
        /\ flag' = [flag EXCEPT ![p] = 1]
        /\ links'.next[Entry(p)] = Entry(p)
        /\ \A q \in Page : flag[q] = 1 /\ Unlisted(F, q)
             => links'.next[Entry(q)] = links.next[Entry(q)]
        /\ \E G, new :
             /\ Rings(links', G) /\ Divided(G, new)'
             /\ G[Full] = F[Full] /\ G[Partial] = F[Partial]
             /\ new[p] = l
             /\ \A q \in Page : flag[q] = 1 => new[q] = lev[q]
    BY <1>2, <1>7, <2>1, <2>2, <2>3, <2>4, AllocKeeps
  <2>6. PICK G, new :
             /\ Rings(links', G) /\ Divided(G, new)'
             /\ G[Full] = F[Full] /\ G[Partial] = F[Partial]
             /\ new[p] = l
             /\ \A q \in Page : flag[q] = 1 => new[q] = lev[q]
    BY <2>5
  <2>7. /\ flag'[p] = 1
        /\ \A q \in Page : flag[q] = 1 => flag'[q] = 1 /\ new[q] = lev[q] /\ q # p
    BY <2>4, <2>5, <2>6 DEF Divided
  <2>8. reference[p] # 1
    BY <1>1, <2>5 DEF Lists
  <2>9. reference[p] = 0
    BY <1>3, <2>5, <2>8 DEF Fields
  <2>10. Fields'
    BY <1>2, <1>3, <1>5, <2>2, <2>5 DEF Fields
  <2>11. CpuPage'
    BY <1>3, <1>4, <1>5, <2>2, <2>3, <2>5 DEF CpuPage, SelfLinked
  <2>12. Clients'
    <3>1. \A o \in held' : reference'[o[1]] = 1
      BY <1>3, <1>5, <2>2 DEF Clients
    <3>2. \A a, b \in temp' : a = b
      BY <1>3, <2>2 DEF Clients
    <3>3. <<p, l>> \in blocks' /\ <<p, l>>[1] = p
      BY <2>2
    <3>4. \A a \in temp' : a \in held' \/ \E b \in blocks' : a = <<b[1], 0>>
      <4>1. CASE keep
        BY <1>3, <2>2, <4>1 DEF Clients
      <4>2. CASE ~keep
        BY <2>2, <3>3, <4>2
      <4> QED BY <4>1, <4>2
    <3>5. \A a \in temp' : reference'[a[1]] = 1 /\ a[1] # cpu' => nr_objs'[a[1]] = MaxObject
      <4>1. CASE keep
        BY <1>3, <1>5, <2>2, <4>1 DEF Clients
      <4>2. CASE ~keep
        BY <1>5, <2>2, <2>8, <4>2
      <4> QED BY <4>1, <4>2
    <3> QED BY <1>4, <2>2, <3>1, <3>2, <3>4, <3>5 DEF Clients
  <2>13. Chains'
    BY <1>3, <1>5, <2>2 DEF Chains, Offer
  <2>14. \A b \in blocks' : flag'[b[1]] = 1 /\ new[b[1]] = b[2] /\ reference'[b[1]] = 0
    <3>1. TAKE b \in blocks'
    <3>2. CASE b \in blocks
      <4>1. b[1] \in Page /\ flag[b[1]] = 1 /\ lev[b[1]] = b[2] /\ reference[b[1]] = 0
        BY <1>1, <1>3, <3>2 DEF Fields, Lists
      <4> QED BY <1>5, <2>7, <4>1
    <3>3. CASE b = <<p, l>>
      BY <1>5, <2>6, <2>7, <2>9, <3>3
    <3> QED BY <2>2, <3>2, <3>3
  <2>15. \A q \in Page : reference'[q] = 1 => flag'[q] = 1 /\ new[q] = 0
    BY <1>1, <1>5, <2>7 DEF Lists
  <2>16. Lists(G, new)'
    BY <1>1, <1>5, <2>6, <2>14, <2>15 DEF Lists
  <2> QED BY <2>10, <2>11, <2>12, <2>13, <2>16 DEF SlabInv
<1> QED BY <1>6, <1>7

(* slab_alloc begins: it has read what the current page gives next.        *)
LEMMA KmallocKeeps ==
  ASSUME SlabInv, NEW keep \in BOOLEAN, kmalloc(keep)
  PROVE  SlabInv'
<1>1. PICK F, lev : Lists(F, lev)
  BY DEF SlabInv
<1>2. Fields /\ CpuPage /\ Clients /\ Chains
  BY DEF SlabInv
<1>3. request.pc = "idle" /\ (keep \/ temp = {})
  BY DEF kmalloc, MayAllocate
<1>4. /\ links' = links /\ flag' = flag /\ bplevel' = bplevel /\ count' = count
      /\ reference' = reference /\ nr_objs' = nr_objs /\ freeobj' = freeobj
      /\ behind' = behind /\ cpu' = cpu
      /\ held' = held /\ blocks' = blocks /\ temp' = temp
      /\ UNCHANGED buddyVars
  BY DEF kmalloc, buddyVars, pageVars, clientVars
<1>5. PICK x : x = IF cpu = NoPage THEN Null ELSE freeobj[cpu]
  OBVIOUS
<1>6. request' = [pc |-> "check", keep |-> keep, object |-> x]
  BY <1>5 DEF kmalloc
<1>7. x \in Object \union {Null}
  BY <1>2, <1>5 DEF Fields
<1>8. /\ request'.pc = "check" /\ request'.object = x /\ request'.keep = keep
      /\ request' \in [pc : {"idle", "check", "take", "stuck"},
                       object : Object \union {Null}, keep : BOOLEAN]
  BY <1>6, <1>7
<1>9. Fields'
  BY <1>2, <1>4, <1>8 DEF Fields
<1>10. CpuPage'
  BY <1>2, <1>3, <1>4, <1>5, <1>8 DEF CpuPage, SelfLinked
<1>11. Clients'
  BY <1>2, <1>3, <1>4, <1>8 DEF Clients
<1>12. \A p \in Page : Offer(p)' = Offer(p)
  <2>1. TAKE p \in Page
  <2>2. Offer(p) = freeobj[p]
    BY <1>3 DEF Offer
  <2>3. Offer(p)' = IF p = cpu THEN x ELSE freeobj[p]
    BY <1>4, <1>8 DEF Offer
  <2> QED BY <1>5, <2>2, <2>3, Objects
<1>13. Chains'
  BY <1>2, <1>3, <1>4, <1>12 DEF Chains
<1>14. Divided(F, lev)'
  BY <1>1, <1>4, DividedSame DEF Lists
<1>15. Lists(F, lev)'
  BY <1>1, <1>4, <1>14 DEF Lists
<1> QED BY <1>9, <1>10, <1>11, <1>13, <1>15 DEF SlabInv

(* slab_alloc turns to the first partial page.                             *)
LEMMA PartialPageKeeps == SlabInv /\ PartialPage => SlabInv'
<1> SUFFICES ASSUME SlabInv, PartialPage PROVE SlabInv'
  OBVIOUS
<1>1. PICK F, lev : Lists(F, lev)
  BY DEF SlabInv
<1>2. Fields /\ CpuPage /\ Clients /\ Chains
  BY DEF SlabInv
<1>3. request.pc = "check" /\ cpu = NoPage /\ Retired = links
  BY TurnsWithoutCurrent DEF PartialPage
<1>4. PICK p : p = FirstPage(links, Partial)
  OBVIOUS
<1>5. /\ ~list_empty(links, Partial)
      /\ cpu' = p /\ links' = list_del(links, Entry(p))
      /\ freeobj' = [freeobj EXCEPT ![p] = behind[@]]
      /\ request' = [request EXCEPT !.object = freeobj[p]]
      /\ UNCHANGED buddyVars /\ flag' = flag
      /\ reference' = reference /\ nr_objs' = nr_objs /\ behind' = behind
      /\ held' = held /\ blocks' = blocks /\ temp' = temp
  BY <1>3, <1>4 DEF PartialPage, buddyVars, clientVars
<1>6. /\ Rings(links, F) /\ Divided(F, lev)
      /\ F \in [Head -> SUBSET Page] /\ Partial \in Head /\ Full \in Head
      /\ \A l \in Order : Free(l) # Partial
      /\ Full # Partial
  BY <1>1, Nodes DEF Lists, Rings
<1>7. p \in F[Partial] /\ p \in Page
  BY <1>4, <1>5, <1>6, ListFirst
<1>8. reference[p] = 1 /\ nr_objs[p] = MaxObject - 1 /\ p # NoPage /\ MaxObject \in Nat
  BY <1>1, <1>3, <1>7, Objects DEF Lists
<1>9. PICK f : IsChain(p, MaxObject - nr_objs[p], freeobj[p], behind, held, f)
  BY <1>2, <1>3, <1>7, <1>8 DEF Chains, Offer
<1>10. freeobj[p] \in Object
  <2>1. PICK m, o : m = 1 /\ o = freeobj[p]
    OBVIOUS
  <2>2. MaxObject - nr_objs[p] = 1
    BY <1>8
  <2>3. IsChain(p, m, o, behind, held, f) /\ m \in Nat /\ m > 0
    BY <1>9, <2>1, <2>2
  <2> QED BY <1>7, <2>1, <2>3, ChainFirst
<1>11. PICK x : x = freeobj[p] /\ x \in Object
  BY <1>10
<1>12. /\ request'.pc = "check" /\ request'.object = x /\ request'.keep = request.keep
       /\ request' \in [pc : {"idle", "check", "take", "stuck"},
                        object : Object \union {Null}, keep : BOOLEAN]
  BY <1>2, <1>3, <1>5, <1>11 DEF Fields
<1>13. /\ freeobj' \in [Page -> Object \union {Null}]
       /\ \A q \in Page : q # p => freeobj'[q] = freeobj[q]
  <2>1. behind[x] \in Object \union {Null}
    BY <1>2, <1>11 DEF Fields
  <2> QED BY <1>2, <1>5, <1>7, <1>11, <2>1 DEF Fields
<1>14. Fields'
  BY <1>2, <1>5, <1>7, <1>12, <1>13 DEF Fields
<1>15. CpuPage'
  BY <1>2, <1>3, <1>5, <1>8, <1>12, Objects DEF CpuPage
<1>16. \A o \in Object : o[1] # NoPage
  BY Objects
<1>17. Clients'
  <2>1. \A a \in temp : reference[a[1]] = 1 /\ a[1] # cpu' => nr_objs[a[1]] = MaxObject
    <3>1. TAKE a \in temp
    <3>2. HAVE reference[a[1]] = 1 /\ a[1] # cpu'
    <3>3. a[1] # NoPage
      <4>1. CASE a \in held
        BY <1>2, <1>16, <4>1 DEF Fields
      <4>2. CASE \E b \in blocks : a = <<b[1], 0>>
        <5>1. PICK b \in blocks : a = <<b[1], 0>>
          BY <4>2
        <5>2. b[1] \in Page
          BY <1>2 DEF Fields
        <5> QED BY <5>1, <5>2, Objects
      <4> QED BY <1>2, <4>1, <4>2 DEF Clients
    <3> QED BY <1>2, <1>3, <3>2, <3>3 DEF Clients
  <2> QED BY <1>2, <1>3, <1>5, <1>12, <2>1 DEF Clients
<1>18. \A q \in Page : Offer(q)' = Offer(q)
  <2>1. TAKE q \in Page
  <2>2. Offer(q) = freeobj[q]
    BY <1>3, Objects DEF Offer
  <2>3. Offer(q)' = IF q = p THEN x ELSE freeobj'[q]
    BY <1>5, <1>12 DEF Offer
  <2> QED BY <1>11, <1>13, <2>2, <2>3
<1>19. Chains'
  BY <1>2, <1>3, <1>5, <1>18 DEF Chains
<1>20. PICK G : G = [F EXCEPT ![Partial] = F[Partial] \ {p}]
  OBVIOUS
<1>21. Rings(links', G)
  <2>1. PICK M : M = links'
    OBVIOUS
  <2>2. ListStep(links, F, M, [F EXCEPT ![Partial] = F[Partial] \ {p}], p)
    BY <1>5, <1>6, <1>7, <2>1, ListDel
  <2> QED BY <1>20, <2>1, <2>2 DEF ListStep
<1>22. G[Partial] = F[Partial] \ {p} /\ G[Full] = F[Full]
       /\ \A l \in Order : G[Free(l)] = F[Free(l)]
  <2>1. \A l \in Order : Free(l) \in Head
    BY Nodes
  <2> QED BY <1>6, <1>20, <2>1
<1>23. Divided(G, lev)'
  BY <1>5, <1>6, <1>22, DividedSame
<1>24. ASSUME NEW q \in Page
       PROVE  q \in G[Full] <=> reference[q] = 1 /\ q # p /\ nr_objs[q] = MaxObject
  <2>1. q \in F[Full] <=> reference[q] = 1 /\ nr_objs[q] = MaxObject
    BY <1>1, <1>3, Objects DEF Lists
  <2>2. nr_objs[q] = MaxObject => q # p
    BY <1>8
  <2> QED BY <1>22, <2>1, <2>2
<1>25. ASSUME NEW q \in Page
       PROVE  q \in G[Partial] <=> reference[q] = 1 /\ q # p /\ nr_objs[q] = MaxObject - 1
  <2>1. q \in F[Partial] <=> reference[q] = 1 /\ nr_objs[q] = MaxObject - 1
    BY <1>1, <1>3, Objects DEF Lists
  <2> QED BY <1>22, <2>1
<1>26. Lists(G, lev)'
  BY <1>1, <1>5, <1>21, <1>23, <1>24, <1>25 DEF Lists
<1> QED BY <1>14, <1>15, <1>17, <1>19, <1>26 DEF SlabInv

(* slab_alloc turns to a new page.                                         *)
LEMMA NewPageKeeps == SlabInv /\ NewPage => SlabInv'
<1> SUFFICES ASSUME SlabInv, NewPage PROVE SlabInv'
  OBVIOUS
<1>1. PICK F, lev : Lists(F, lev)
  BY DEF SlabInv
<1>2. Fields /\ CpuPage /\ Clients /\ Chains
  BY DEF SlabInv
<1>3. request.pc = "check" /\ cpu = NoPage /\ Retired = links
  BY TurnsWithoutCurrent DEF NewPage
<1>4. held' = held /\ blocks' = blocks /\ temp' = temp
  BY DEF NewPage, clientVars
<1>5. CASE Available(links, 0) = {}
  <2>1. /\ request' = [request EXCEPT !.pc = "stuck"]
        /\ links' = links /\ UNCHANGED buddyVars /\ flag' = flag
        /\ reference' = reference /\ nr_objs' = nr_objs /\ freeobj' = freeobj
        /\ behind' = behind /\ cpu' = cpu
    BY <1>3, <1>5 DEF NewPage, buddyVars, pageVars
  <2>2. request'.pc = "stuck" /\ request' \in [pc : {"idle", "check", "take", "stuck"},
                  object : Object \union {Null}, keep : BOOLEAN]
    BY <1>2, <2>1 DEF Fields
  <2>3. Fields'
    BY <1>2, <1>4, <2>1, <2>2 DEF Fields
  <2>4. CpuPage'
    BY <1>2, <1>3, <2>1, <2>2 DEF CpuPage
  <2>5. Clients'
    BY <1>2, <1>4, <2>1, <2>2 DEF Clients
  <2>6. Chains'
    BY <2>2 DEF Chains
  <2>7. Divided(F, lev)'
    BY <1>1, <2>1, DividedSame DEF Lists
  <2>8. Lists(F, lev)'
    BY <1>1, <1>4, <2>1, <2>7 DEF Lists
  <2> QED BY <2>3, <2>4, <2>5, <2>6, <2>8 DEF SlabInv
<1>6. CASE Available(links, 0) # {}
  <2>1. PICK p : p = PageTaken(links, 0)
    OBVIOUS
  <2>2. /\ AllocPages(links, 0)
        /\ behind' = Formatted(p)
        /\ freeobj' = [freeobj EXCEPT ![p] = <<p, 0>>]
        /\ nr_objs' = [nr_objs EXCEPT ![p] = 0]
        /\ reference' = [reference EXCEPT ![p] = 1]
        /\ cpu' = p
        /\ request' = [request EXCEPT !.pc = "take", !.object = <<p, 0>>]
    BY <1>3, <1>6, <2>1 DEF NewPage
  <2>3. F[Full] \union F[Partial] \subseteq {q \in Page : flag[q] = 1}
    BY <1>1, <1>2, InUse
  <2>4. Rings(links, F) /\ Divided(F, lev) /\ 0 \in Order
    BY <1>1, Numbers DEF Lists
  <2>5. /\ p \in Page /\ flag[p] = 0
        /\ flag' = [flag EXCEPT ![p] = 1]
        /\ links'.next[Entry(p)] = Entry(p)
        /\ \E G, new :
             /\ Rings(links', G) /\ Divided(G, new)'
             /\ G[Full] = F[Full] /\ G[Partial] = F[Partial]
             /\ new[p] = 0
             /\ \A q \in Page : flag[q] = 1 => new[q] = lev[q]
    BY <1>6, <2>1, <2>2, <2>3, <2>4, AllocKeeps
  <2>6. PICK G, new :
             /\ Rings(links', G) /\ Divided(G, new)'
             /\ G[Full] = F[Full] /\ G[Partial] = F[Partial]
             /\ new[p] = 0
             /\ \A q \in Page : flag[q] = 1 => new[q] = lev[q]
    BY <2>5
  <2>7. /\ flag'[p] = 1
        /\ \A q \in Page : flag[q] = 1 => flag'[q] = 1 /\ new[q] = lev[q] /\ q # p
    BY <2>4, <2>5, <2>6 DEF Divided
  <2>8. reference[p] # 1 /\ p # NoPage
    BY <1>1, <2>5, Objects DEF Lists
  <2>9. /\ MaxObject \in Nat /\ MaxObject > 1 /\ 0 \in Index
        /\ <<p, 0>> \in Object
    <3>1. MaxObject \in Nat /\ MaxObject > 1
      BY Objects
    <3>2. 0 \in Index
      BY <3>1 DEF Index
    <3> QED BY <2>5, <3>1, <3>2, Objects
  <2>10. /\ reference' \in [Page -> {0, 1}] /\ nr_objs' \in [Page -> 0..MaxObject]
         /\ freeobj' \in [Page -> Object \union {Null}]
         /\ reference'[p] = 1 /\ nr_objs'[p] = 0 /\ freeobj'[p] = <<p, 0>>
         /\ \A q \in Page : q # p => /\ reference'[q] = reference[q]
                                     /\ nr_objs'[q] = nr_objs[q]
                                     /\ freeobj'[q] = freeobj[q]
    BY <1>2, <2>2, <2>5, <2>9 DEF Fields
  <2>11. /\ behind' \in [Object -> Object \union {Null}]
         /\ \A o \in Object : behind'[o] = IF o[1] # p THEN behind[o]
                                           ELSE <<p, (o[2] + 1) % MaxObject>>
    <3>1. behind' = [o \in Object |-> IF o[1] # p THEN behind[o]
                                      ELSE <<p, (o[2] + 1) % MaxObject>>]
      BY <2>2 DEF Formatted
    <3>2. ASSUME NEW o \in Object PROVE <<p, (o[2] + 1) % MaxObject>> \in Object
      <4>1. o[2] \in Index
        BY Objects
      <4>2. (o[2] + 1) % MaxObject \in Index
        BY <2>9, <4>1 DEF Index
      <4> QED BY <2>5, <4>2, Objects
    <3>3. \A o \in Object : behind[o] \in Object \union {Null}
      BY <1>2 DEF Fields
    <3> QED BY <3>1, <3>2, <3>3
  <2>12. /\ request'.pc = "take" /\ request'.object = <<p, 0>>
         /\ request'.keep = request.keep
         /\ request' \in [pc : {"idle", "check", "take", "stuck"},
                          object : Object \union {Null}, keep : BOOLEAN]
    BY <1>2, <2>2, <2>9 DEF Fields
  <2>13. Fields'
    BY <1>2, <1>4, <2>2, <2>5, <2>10, <2>11, <2>12 DEF Fields
  <2>14. CpuPage'
    <3>1. \A q \in Page : reference'[q] = 1 /\ q # cpu' => nr_objs'[q] >= MaxObject - 1
      BY <1>2, <1>3, <2>2, <2>10, Objects DEF CpuPage
    <3> QED BY <2>2, <2>5, <2>8, <2>9, <2>10, <2>12, <3>1 DEF CpuPage, SelfLinked
  <2>15. \A o \in held : o \in Object /\ o[1] # p /\ o[1] \in Page /\ reference[o[1]] = 1
    BY <1>2, <2>8, Objects DEF Fields, Clients
  <2>16. \A b \in blocks : b[1] \in Page /\ flag[b[1]] = 1 /\ lev[b[1]] = b[2]
                           /\ reference[b[1]] = 0 /\ b[1] # p
    BY <1>1, <1>2, <2>7 DEF Lists, Fields
  <2>17. \A a \in temp : a[1] # p /\ a[1] \in Page /\ a[1] # NoPage
    <3>1. TAKE a \in temp
    <3>2. CASE a \in held
      BY <2>15, <3>2, Objects
    <3>3. CASE \E b \in blocks : a = <<b[1], 0>>
      <4>1. PICK b \in blocks : a = <<b[1], 0>>
        BY <3>3
      <4> QED BY <2>16, <4>1, Objects
    <3> QED BY <1>2, <3>2, <3>3 DEF Clients
  <2>18. Clients'
    <3>1. \A o \in held' : reference'[o[1]] = 1
      BY <1>4, <2>10, <2>15
    <3>2. \A a \in temp' : reference'[a[1]] = 1 /\ a[1] # cpu' => nr_objs'[a[1]] = MaxObject
      BY <1>2, <1>3, <1>4, <2>2, <2>10, <2>17 DEF Clients
    <3> QED BY <1>2, <1>3, <1>4, <2>12, <3>1, <3>2 DEF Clients
  <2>19. ASSUME NEW q \in Page, reference'[q] = 1
         PROVE  \E f : IsChain(q, MaxObject - nr_objs'[q], Offer(q)', behind', held', f)
    <3>1. CASE q = p
      <4>1. Offer(q)' = <<p, 0>> /\ nr_objs'[q] = 0
        BY <2>2, <2>10, <2>12, <3>1 DEF Offer
      <4>2. MaxObject - nr_objs'[q] = MaxObject
        BY <2>9, <4>1
      <4>3. \A k \in Index : <<p, k>> \notin held'
        BY <1>4, <2>15
      <4>4. \A o \in Object : o[1] = p => behind'[o] = <<p, (o[2] + 1) % MaxObject>>
        BY <2>11
      <4>5. PICK H, B : H = held' /\ B = behind'
        OBVIOUS
      <4>6. \E f : IsChain(p, MaxObject, <<p, 0>>, B, H, f)
        BY <2>5, <4>3, <4>4, <4>5, ChainFormatted
      <4> QED BY <3>1, <4>1, <4>2, <4>5, <4>6
    <3>2. CASE q # p
      <4>1. Offer(q)' = freeobj[q] /\ Offer(q) = freeobj[q]
        BY <1>3, <2>2, <2>10, <3>2, Objects DEF Offer
      <4>2. reference[q] = 1 /\ nr_objs'[q] = nr_objs[q]
        BY <2>10, <2>19, <3>2
      <4>3. PICK f : IsChain(q, MaxObject - nr_objs[q], freeobj[q], behind, held, f)
        BY <1>2, <1>3, <4>1, <4>2 DEF Chains
      <4>4. PICK m, x, B, H, C : /\ m = MaxObject - nr_objs[q] /\ x = freeobj[q]
                                 /\ B = behind /\ H = held /\ C = behind'
        OBVIOUS
      <4>5. m \in Nat
        BY <1>2, <2>9, <4>4 DEF Fields
      <4>6. \A o \in Object : o[1] = q => C[o] = B[o] /\ (o \in H <=> o \in H)
        BY <2>11, <3>2, <4>4
      <4>7. IsChain(q, m, x, B, H, f)
        BY <4>3, <4>4
      <4>8. IsChain(q, m, x, C, H, f)
        BY <4>5, <4>6, <4>7, ChainFrame
      <4> QED BY <1>4, <4>1, <4>2, <4>4, <4>8
    <3> QED BY <3>1, <3>2
  <2>20. Chains'
    BY <2>19 DEF Chains
  <2>21. ASSUME NEW q \in Page
         PROVE  /\ q \in G[Full] <=> reference'[q] = 1 /\ q # cpu' /\ nr_objs'[q] = MaxObject
                /\ q \in G[Partial] <=> reference'[q] = 1 /\ q # cpu'
                                        /\ nr_objs'[q] = MaxObject - 1
                /\ reference'[q] = 1 => flag'[q] = 1 /\ new[q] = 0
    <3>1. CASE q = p
      BY <1>1, <2>2, <2>6, <2>7, <2>8, <3>1 DEF Lists
    <3>2. CASE q # p
      <4>1. q # cpu' /\ q # cpu
        BY <1>3, <2>2, <3>2, Objects
      <4> QED BY <1>1, <2>6, <2>7, <2>10, <3>2, <4>1 DEF Lists
    <3> QED BY <3>1, <3>2
  <2>22. \A b \in blocks' : flag'[b[1]] = 1 /\ new[b[1]] = b[2] /\ reference'[b[1]] = 0
    BY <1>4, <2>7, <2>10, <2>16
  <2>23. Lists(G, new)'
    BY <2>6, <2>21, <2>22 DEF Lists
  <2> QED BY <2>13, <2>14, <2>18, <2>20, <2>23 DEF SlabInv
<1> QED BY <1>5, <1>6

(* slab_alloc takes the object, and puts a page that has no other on the   *)
(* full list.                                                              *)
LEMMA TakeObjectKeeps == SlabInv /\ TakeObject => SlabInv'
<1> SUFFICES ASSUME SlabInv, TakeObject PROVE SlabInv'
  OBVIOUS
<1>1. PICK F, lev : Lists(F, lev)
  BY DEF SlabInv
<1>2. Fields /\ CpuPage /\ Clients /\ Chains
  BY DEF SlabInv
<1>3. request.pc \in {"check", "take"} /\ cpu # NoPage
  <2>1. CASE request.pc = "take"
    BY <1>2, <2>1 DEF CpuPage
  <2>2. CASE request.pc = "check" /\ HasObject
    BY <1>2, <2>2 DEF CpuPage, HasObject
  <2> QED BY <2>1, <2>2 DEF TakeObject
<1>4. PICK p, o, x, n : p = cpu /\ o = request.object /\ x = behind[o] /\ n = nr_objs[cpu] + 1
  OBVIOUS
<1>5. /\ p \in Page /\ reference[p] = 1 /\ nr_objs[p] \in 0..MaxObject-1
      /\ o \in Object /\ o[1] = p /\ o \notin held
  BY <1>3, <1>4, CurrentGives
<1>6. \E g : IsChain(p, MaxObject - nr_objs[p] - 1, x, behind, held \union {o}, g)
  BY <1>3, <1>4, CurrentGives
<1>7. MaxObject \in Nat /\ n \in 1..MaxObject /\ p # NoPage
  BY <1>4, <1>5, Objects
<1>8. /\ freeobj' = [freeobj EXCEPT ![p] = x]
      /\ nr_objs' = [nr_objs EXCEPT ![p] = n]
      /\ held' = held \union {o}
      /\ temp' = IF request.keep THEN temp ELSE {o}
      /\ request' = Idle
      /\ reference' = reference /\ behind' = behind /\ blocks' = blocks
      /\ UNCHANGED buddyVars /\ flag' = flag
  BY <1>4 DEF TakeObject, Remember, buddyVars
<1>9. \/ n >= MaxObject /\ links' = list_add_tail(links, Entry(p), Full) /\ cpu' = NoPage
      \/ n < MaxObject /\ links' = links /\ cpu' = p
  BY <1>4, <1>7 DEF TakeObject
<1>10. /\ request'.pc = "idle" /\ request'.keep = TRUE
       /\ request' \in [pc : {"idle", "check", "take", "stuck"},
                        object : Object \union {Null}, keep : BOOLEAN]
  BY <1>8 DEF Idle
<1>11. /\ nr_objs' \in [Page -> 0..MaxObject] /\ nr_objs'[p] = n
       /\ freeobj' \in [Page -> Object \union {Null}] /\ freeobj'[p] = x
       /\ \A q \in Page : q # p => nr_objs'[q] = nr_objs[q] /\ freeobj'[q] = freeobj[q]
  <2>1. x \in Object \union {Null} /\ n \in 0..MaxObject
    BY <1>2, <1>4, <1>5, <1>7 DEF Fields
  <2> QED BY <1>2, <1>5, <1>8, <2>1 DEF Fields
<1>12. Fields'
  BY <1>2, <1>5, <1>7, <1>8, <1>9, <1>10, <1>11 DEF Fields
<1>13. CpuPage'
  <2>1. \A q \in Page : reference'[q] = 1 /\ q # cpu' => nr_objs'[q] >= MaxObject - 1
    BY <1>2, <1>4, <1>7, <1>8, <1>9, <1>11 DEF CpuPage
  <2>2. cpu' # NoPage => /\ reference'[cpu'] = 1 /\ nr_objs'[cpu'] < MaxObject
                         /\ links'.next[Entry(cpu')] = Entry(cpu')
    <3>1. HAVE cpu' # NoPage
    <3>2. n < MaxObject /\ links' = links /\ cpu' = p
      BY <1>9, <3>1
    <3>3. SelfLinked(cpu)
      BY <1>2, <1>3, <1>4, <1>5, <1>7, <3>2 DEF CpuPage
    <3> QED BY <1>4, <1>5, <1>8, <1>11, <3>2, <3>3 DEF SelfLinked
  <2> QED BY <1>10, <2>1, <2>2 DEF CpuPage, SelfLinked
<1>14. Clients'
  <2>1. \A a \in held' : reference'[a[1]] = 1
    BY <1>2, <1>5, <1>8 DEF Clients
  <2>2. \A a, b \in temp' : a = b
    BY <1>2, <1>8 DEF Clients
  <2>3. \A a \in temp' : a \in held' \/ \E b \in blocks' : a = <<b[1], 0>>
    BY <1>2, <1>8 DEF Clients
  <2>4. ASSUME NEW a \in temp', reference'[a[1]] = 1, a[1] # cpu' PROVE nr_objs'[a[1]] = MaxObject
    <3>1. CASE a[1] = p
      BY <1>7, <1>9, <1>11, <2>4, <3>1
    <3>2. CASE a[1] # p
      <4>1. a \in temp
        BY <1>5, <1>8, <2>4, <3>2
      <4>2. nr_objs[a[1]] = MaxObject
        BY <1>2, <1>4, <1>8, <2>4, <3>2, <4>1 DEF Clients
      <4>3. a[1] \in Page
        <5>1. CASE a \in held
          BY <1>2, <5>1, Objects DEF Fields
        <5>2. CASE \E b \in blocks : a = <<b[1], 0>>
          BY <1>2, <5>2 DEF Fields
        <5> QED BY <1>2, <4>1, <5>1, <5>2 DEF Clients
      <4> QED BY <1>11, <3>2, <4>2, <4>3
    <3> QED BY <3>1, <3>2
  <2> QED BY <1>10, <2>1, <2>2, <2>3, <2>4 DEF Clients
<1>15. ASSUME NEW q \in Page, reference'[q] = 1
       PROVE  \E f : IsChain(q, MaxObject - nr_objs'[q], Offer(q)', behind', held', f)
  <2>1. Offer(q)' = freeobj'[q]
    BY <1>10 DEF Offer
  <2>2. CASE q = p
    <3>1. MaxObject - nr_objs'[q] = MaxObject - nr_objs[p] - 1
      BY <1>4, <1>5, <1>7, <1>11, <2>2
    <3> QED BY <1>6, <1>8, <1>11, <2>1, <2>2, <3>1
  <2>3. CASE q # p
    <3>1. Offer(q) = freeobj[q] /\ reference[q] = 1
      BY <1>4, <1>8, <1>15, <2>3 DEF Offer
    <3>2. PICK f : IsChain(q, MaxObject - nr_objs[q], freeobj[q], behind, held, f)
      BY <1>2, <1>3, <3>1 DEF Chains
    <3>3. PICK m, y, B, H, J : /\ m = MaxObject - nr_objs[q] /\ y = freeobj[q]
                               /\ B = behind /\ H = held /\ J = held \union {o}
      OBVIOUS
    <3>4. m \in Nat /\ IsChain(q, m, y, B, H, f)
      BY <1>2, <1>7, <3>2, <3>3 DEF Fields
    <3>5. \A a \in Object : a[1] = q => B[a] = B[a] /\ (a \in J <=> a \in H)
      BY <1>5, <2>3, <3>3
    <3>6. IsChain(q, m, y, B, J, f)
      BY <3>4, <3>5, ChainFrame
    <3> QED BY <1>8, <1>11, <2>1, <2>3, <3>3, <3>6
  <2> QED BY <2>2, <2>3
<1>16. Chains'
  BY <1>15 DEF Chains
<1>17. \A b \in blocks' : flag'[b[1]] = 1 /\ lev[b[1]] = b[2] /\ reference'[b[1]] = 0
  BY <1>1, <1>8 DEF Lists
<1>18. \A q \in Page : reference'[q] = 1 => flag'[q] = 1 /\ lev[q] = 0
  BY <1>1, <1>8 DEF Lists
<1>19. CASE n < MaxObject /\ links' = links /\ cpu' = p
  <2>1. Divided(F, lev)'
    BY <1>1, <1>8, DividedSame DEF Lists
  <2>2. Rings(links', F)
    BY <1>1, <1>19 DEF Lists
  <2>3. \A q \in Page :
          /\ q \in F[Full] <=> reference'[q] = 1 /\ q # cpu' /\ nr_objs'[q] = MaxObject
          /\ q \in F[Partial] <=> reference'[q] = 1 /\ q # cpu' /\ nr_objs'[q] = MaxObject - 1
    BY <1>1, <1>4, <1>8, <1>11, <1>19 DEF Lists
  <2>4. Lists(F, lev)'
    BY <1>17, <1>18, <2>1, <2>2, <2>3 DEF Lists
  <2> QED BY <1>12, <1>13, <1>14, <1>16, <2>4 DEF SlabInv
<1>20. CASE n >= MaxObject /\ links' = list_add_tail(links, Entry(p), Full) /\ cpu' = NoPage
  <2>1. PICK G : G = [F EXCEPT ![Full] = F[Full] \union {p}]
    OBVIOUS
  <2>2. Unlisted(F, p)
    BY <1>1, <1>2, <1>3, <1>4, InUse
  <2>3. F \in [Head -> SUBSET Page] /\ Full \in Head /\ Partial \in Head
    BY <1>1, Nodes DEF Lists, Rings
  <2>4. Rings(links', G)
    <3>1. PICK M : M = links'
      OBVIOUS
    <3>2. ListStep(links, F, M, [F EXCEPT ![Full] = F[Full] \union {p}], p)
      BY <1>1, <1>5, <1>20, <2>2, <2>3, <3>1, ListAdd DEF Lists
    <3> QED BY <2>1, <3>1, <3>2 DEF ListStep
  <2>5. G[Full] = F[Full] \union {p} /\ G[Partial] = F[Partial]
        /\ \A l \in Order : G[Free(l)] = F[Free(l)]
    BY <2>1, <2>3, Nodes
  <2>6. Divided(G, lev)'
    BY <1>1, <1>8, <2>5, DividedSame DEF Lists
  <2>7. ASSUME NEW q \in Page
        PROVE  /\ q \in G[Full] <=> reference'[q] = 1 /\ q # cpu' /\ nr_objs'[q] = MaxObject
               /\ q \in G[Partial] <=> reference'[q] = 1 /\ q # cpu' /\ nr_objs'[q] = MaxObject - 1
    <3>1. q # cpu'
      BY <1>20, Objects
    <3>2. CASE q = p
      <4>1. nr_objs'[q] = MaxObject /\ q \notin F[Partial]
        BY <1>7, <1>11, <1>20, <2>2, <2>3, <3>2 DEF Unlisted
      <4> QED BY <1>5, <1>7, <1>8, <2>5, <3>1, <3>2, <4>1
    <3>3. CASE q # p
      BY <1>1, <1>4, <1>8, <1>11, <2>5, <3>1, <3>3 DEF Lists
    <3> QED BY <3>2, <3>3
  <2>8. Lists(G, lev)'
    BY <1>17, <1>18, <2>4, <2>6, <2>7 DEF Lists
  <2> QED BY <1>12, <1>13, <1>14, <1>16, <2>8 DEF SlabInv
<1> QED BY <1>9, <1>19, <1>20

(* kfree of a block.                                                       *)
LEMMA KfreeBlockKeeps ==
  ASSUME SlabInv, NEW addr, kfree(addr), reference[addr[1]] # 1
  PROVE  SlabInv'
<1>1. PICK F, lev : Lists(F, lev)
  BY DEF SlabInv
<1>2. Fields /\ CpuPage /\ Clients /\ Chains
  BY DEF SlabInv
<1>3. request.pc = "idle" /\ addr \in temp
  BY DEF kfree, MayFree
<1>4. addr \notin held
  BY <1>2 DEF Clients
<1>5. PICK b \in blocks : addr = <<b[1], 0>>
  BY <1>2, <1>3, <1>4 DEF Clients
<1>6. PICK p, l : p = b[1] /\ l = b[2]
  OBVIOUS
<1>7. /\ p \in Page /\ l \in Order /\ l # -1 /\ addr = <<p, 0>> /\ addr[1] = p
      /\ flag[p] = 1 /\ lev[p] = l /\ reference[p] = 0
  BY <1>1, <1>2, <1>5, <1>6, Numbers DEF Fields, Lists
<1>8. bplevel[p] = l
  BY <1>1, <1>7 DEF Lists, Divided
<1>9. /\ FreePages(links, p, l)
      /\ nr_objs' = nr_objs /\ freeobj' = freeobj /\ behind' = behind /\ request' = request
      /\ held' = held \ {addr} /\ temp' = temp \ {addr} /\ cpu' = cpu
      /\ blocks' = {c \in blocks : <<c[1], 0>> # addr}
  <2>1. reference[addr[1]] # 1 /\ flag[addr[1]] = 1 /\ bplevel[addr[1]] = l /\ addr[1] = p
    BY <1>7, <1>8
  <2> QED BY <2>1, Zenon DEF kfree
<1>10. held' = held
  BY <1>4, <1>9
<1>11. temp' = {}
  BY <1>2, <1>3, <1>9 DEF Clients
<1>12. F[Full] \union F[Partial] \subseteq {q \in Page : flag[q] = 1} /\ Unlisted(F, p)
       /\ (cpu # NoPage => cpu \in Page /\ flag[cpu] = 1 /\ Unlisted(F, cpu))
  <2>1. p \in Page /\ flag[p] = 1 /\ reference[p] # 1
    BY <1>7
  <2> QED BY <1>1, <1>2, <2>1, InUse
<1>13. /\ flag' = [flag EXCEPT ![p] = 0]
       /\ reference' = [reference EXCEPT ![p] = 0]
       /\ \A q \in Page : flag[q] = 1 /\ q # p /\ Unlisted(F, q)
            => links'.next[Entry(q)] = links.next[Entry(q)]
       /\ \E G, new :
            /\ Rings(links', G) /\ Divided(G, new)'
            /\ G[Full] = F[Full] /\ G[Partial] = F[Partial]
            /\ \A q \in Page : flag[q] = 1 /\ q # p => new[q] = lev[q]
  <2>1. PICK L : L = links
    OBVIOUS
  <2>2. Rings(L, F) /\ Divided(F, lev) /\ FreePages(L, p, l)
    BY <1>1, <1>9, <2>1 DEF Lists
  <2> QED BY <1>7, <1>12, <2>1, <2>2, FreeKeeps
<1>14. PICK G, new :
            /\ Rings(links', G) /\ Divided(G, new)'
            /\ G[Full] = F[Full] /\ G[Partial] = F[Partial]
            /\ \A q \in Page : flag[q] = 1 /\ q # p => new[q] = lev[q]
  BY <1>13
<1>15. reference' = reference
  BY <1>2, <1>7, <1>13 DEF Fields
<1>16. \A q \in Page : flag[q] = 1 /\ q # p => flag'[q] = 1 /\ new[q] = lev[q]
  <2>1. flag \in [Page -> {0, 1}]
    BY <1>1 DEF Lists, Divided
  <2> QED BY <1>13, <1>14, <2>1
<1>17. blocks' \subseteq blocks /\ \A c \in blocks' : c[1] # p
  BY <1>7, <1>9
<1>18. Fields'
  BY <1>2, <1>9, <1>10, <1>15, <1>17 DEF Fields
<1>19. CpuPage'
  <2>1. cpu # NoPage => links'.next[Entry(cpu)] = links.next[Entry(cpu)]
    BY <1>2, <1>7, <1>12, <1>13 DEF CpuPage
  <2> QED BY <1>2, <1>3, <1>9, <1>15, <2>1 DEF CpuPage, SelfLinked
<1>20. Clients'
  BY <1>2, <1>3, <1>9, <1>10, <1>11, <1>15 DEF Clients
<1>21. Chains'
  BY <1>2, <1>9, <1>10, <1>15 DEF Chains, Offer
<1>22. \A c \in blocks' : flag'[c[1]] = 1 /\ new[c[1]] = c[2] /\ reference'[c[1]] = 0
  <2>1. TAKE c \in blocks'
  <2>2. c \in blocks /\ c[1] # p
    BY <1>17
  <2>3. c[1] \in Page /\ flag[c[1]] = 1 /\ lev[c[1]] = c[2] /\ reference[c[1]] = 0
    BY <1>1, <1>2, <2>2 DEF Fields, Lists
  <2> QED BY <1>15, <1>16, <2>2, <2>3
<1>23. \A q \in Page : reference'[q] = 1 => flag'[q] = 1 /\ new[q] = 0
  <2>1. TAKE q \in Page
  <2>2. HAVE reference'[q] = 1
  <2>3. q # p /\ flag[q] = 1 /\ lev[q] = 0
    BY <1>1, <1>7, <1>15, <2>2 DEF Lists
  <2> QED BY <1>16, <2>3
<1>24. Lists(G, new)'
  BY <1>1, <1>9, <1>14, <1>15, <1>22, <1>23 DEF Lists
<1> QED BY <1>18, <1>19, <1>20, <1>21, <1>24 DEF SlabInv

(* What a free of an object is about.                                      *)
LEMMA KfreeObject ==
  ASSUME SlabInv, NEW addr, kfree(addr), reference[addr[1]] = 1
  PROVE  /\ request.pc = "idle" /\ addr \in temp /\ addr \in held
         /\ addr \in Object /\ addr[1] \in Page
         /\ held' = held \ {addr} /\ temp' = {} /\ cpu' = cpu /\ blocks' \subseteq blocks
<1>1. Fields /\ CpuPage /\ Clients /\ \E F, lev : Lists(F, lev)
  BY DEF SlabInv
<1>2. request.pc = "idle" /\ addr \in temp
  BY DEF kfree, MayFree
<1>3. addr \in held
  <2>1. ASSUME NEW b \in blocks, addr = <<b[1], 0>> PROVE FALSE
    BY <1>1, <2>1 DEF Lists
  <2> QED BY <1>1, <1>2, <2>1 DEF Clients
<1>4. addr \in Object /\ addr[1] \in Page
  BY <1>1, <1>3, Objects DEF Fields
<1>5. held' = held \ {addr} /\ temp' = temp \ {addr} /\ cpu' = cpu /\ blocks' \subseteq blocks
  <2>1. blocks' = {b \in blocks : <<b[1], 0>> # addr}
    BY DEF kfree
  <2>2. blocks' \subseteq blocks
    BY <2>1
  <2> QED BY <2>2 DEF kfree
<1>6. temp' = {}
  BY <1>1, <1>2, <1>5 DEF Clients
<1> QED BY <1>2, <1>3, <1>4, <1>5, <1>6

(* kfree that spins.                                                       *)
LEMMA KfreeSpinsKeeps ==
  ASSUME SlabInv, NEW addr, kfree(addr), reference[addr[1]] = 1, nr_objs[addr[1]] = 0
  PROVE  SlabInv'
<1>1. PICK F, lev : Lists(F, lev)
  BY DEF SlabInv
<1>2. Fields /\ CpuPage /\ Clients
  BY DEF SlabInv
<1>3. /\ request.pc = "idle"
      /\ held' = held \ {addr} /\ temp' = {} /\ cpu' = cpu /\ blocks' \subseteq blocks
  BY KfreeObject
<1>4. Spins
  BY DEF kfree
<1>5. /\ request' = [Idle EXCEPT !.pc = "stuck"]
      /\ links' = links /\ UNCHANGED buddyVars /\ flag' = flag
      /\ reference' = reference /\ nr_objs' = nr_objs /\ freeobj' = freeobj
      /\ behind' = behind
  BY <1>4 DEF Spins, buddyVars, pageVars
<1>6. request'.pc = "stuck" /\ request' \in [pc : {"idle", "check", "take", "stuck"},
                object : Object \union {Null}, keep : BOOLEAN]
  BY <1>5 DEF Idle
<1>7. Fields'
  BY <1>2, <1>3, <1>5, <1>6 DEF Fields
<1>8. CpuPage'
  BY <1>2, <1>3, <1>5, <1>6 DEF CpuPage, SelfLinked
<1>9. Clients'
  BY <1>2, <1>3, <1>5, <1>6 DEF Clients
<1>10. Chains'
  BY <1>6 DEF Chains
<1>11. Divided(F, lev)'
  BY <1>1, <1>5, DividedSame DEF Lists
<1>12. Lists(F, lev)'
  BY <1>1, <1>3, <1>5, <1>11 DEF Lists
<1> QED BY <1>7, <1>8, <1>9, <1>10, <1>12 DEF SlabInv

(* slab_free: a full page goes to the partial list, the current page stays *)
(* where it is, and no page is given back to the buddy system.             *)
LEMMA SlabFreeLists ==
  ASSUME SlabInv, NEW addr, kfree(addr), reference[addr[1]] = 1, nr_objs[addr[1]] # 0,
         NEW p, p = addr[1]
  PROVE  /\ UNCHANGED buddyVars /\ flag' = flag /\ reference' = reference
         /\ nr_objs' = [nr_objs EXCEPT ![p] = @ - 1]
         /\ cpu # NoPage => links'.next[Entry(cpu)] = links.next[Entry(cpu)]
         /\ p # cpu => nr_objs[p] = MaxObject
         /\ \E G, lev : Lists(G, lev)'
<1>1. PICK F, lev : Lists(F, lev)
  BY DEF SlabInv
<1>2. Fields /\ CpuPage /\ Clients
  BY DEF SlabInv
<1>3. /\ request.pc = "idle" /\ addr \in temp /\ p \in Page
      /\ cpu' = cpu /\ blocks' \subseteq blocks
  BY KfreeObject
<1>4. slab_free(addr)
  BY DEF kfree
<1>5. nr_objs' = [nr_objs EXCEPT ![p] = nr_objs[p] - 1]
  BY <1>4 DEF slab_free
<1>6. MaxObject \in Nat /\ MaxObject > 1 /\ nr_objs[p] \in 1..MaxObject
  BY <1>2, <1>3, Objects DEF Fields
<1>7. nr_objs'[p] = nr_objs[p] - 1 /\ \A q \in Page : q # p => nr_objs'[q] = nr_objs[q]
  BY <1>2, <1>3, <1>5 DEF Fields
<1>8. CASE p = cpu
  <2>1. SelfLinked(p)
    BY <1>2, <1>3, <1>8, Objects DEF CpuPage
  <2>2. list_empty(links, Entry(p))
    BY <2>1 DEF SelfLinked, list_empty
  <2>3. links' = links /\ UNCHANGED buddyVars /\ flag' = flag /\ reference' = reference
    BY <1>4, <2>2 DEF slab_free, buddyVars
  <2>4. Divided(F, lev)'
    BY <1>1, <2>3, DividedSame DEF Lists
  <2>5. Lists(F, lev)'
    BY <1>1, <1>3, <1>7, <1>8, <2>3, <2>4 DEF Lists
  <2> QED BY <1>5, <1>8, <2>3, <2>5
<1>9. CASE p # cpu
  <2>1. nr_objs[p] = MaxObject
    BY <1>2, <1>3, <1>9 DEF Clients
  <2>2. p \in F[Full] /\ p \notin F[Partial] /\ Rings(links, F)
    BY <1>1, <1>3, <1>6, <1>9, <2>1 DEF Lists
  <2>3. F \in [Head -> SUBSET Page] /\ Full \in Head /\ Partial \in Head /\ Full # Partial
    BY <2>2, Nodes DEF Rings
  <2>4. ~list_empty(links, Entry(p))
    BY <2>2, <2>3, ListedNotSelf DEF list_empty
  <2>5. nr_objs[p] # 1
    BY <1>6, <2>1
  <2>6. /\ links' = list_add_tail(list_del_init(links, Entry(p)), Entry(p), Partial)
        /\ UNCHANGED buddyVars /\ flag' = flag /\ reference' = reference
    BY <1>4, <2>4, <2>5 DEF slab_free, buddyVars
  <2>7. PICK M, G : M = list_del_init(links, Entry(p)) /\ G = [F EXCEPT ![Full] = F[Full] \ {p}]
    OBVIOUS
  <2>8. ListStep(links, F, M, G, p)
    BY <1>3, <2>2, <2>3, <2>7, ListDel
  <2>9. G[Full] = F[Full] \ {p} /\ \A h \in Head : h # Full => G[h] = F[h]
    BY <2>3, <2>7
  <2>10. Unlisted(G, p)
    <3>1. \A h \in Head : h # Full => p \notin F[h]
      BY <2>2, <2>3 DEF Rings
    <3> QED BY <2>9, <3>1 DEF Unlisted
  <2>11. PICK N, H : N = links' /\ H = [G EXCEPT ![Partial] = G[Partial] \union {p}]
    OBVIOUS
  <2>12. ListStep(M, G, N, H, p)
    <3>1. Rings(M, G)
      BY <2>8 DEF ListStep
    <3>2. N = list_add_tail(M, Entry(p), Partial)
      BY <2>6, <2>7, <2>11
    <3>3. ListStep(M, G, N, [G EXCEPT ![Partial] = G[Partial] \union {p}], p)
      BY <1>3, <2>3, <2>10, <3>1, <3>2, ListAdd
    <3> QED BY <2>11, <3>3
  <2>13. /\ H[Full] = F[Full] \ {p} /\ H[Partial] = F[Partial] \union {p}
         /\ \A l \in Order : H[Free(l)] = F[Free(l)]
    <3>1. G \in [Head -> SUBSET Page]
      BY <2>8 DEF ListStep, Rings
    <3>2. \A h \in Head : h # Partial => H[h] = G[h]
      BY <2>3, <2>11, <3>1
    <3>3. H[Partial] = G[Partial] \union {p}
      BY <2>3, <2>11, <3>1
    <3> QED BY <2>3, <2>9, <3>2, <3>3, Nodes
  <2>14. ASSUME NEW q \in Page, q # p, Unlisted(F, q)
         PROVE  links'.next[Entry(q)] = links.next[Entry(q)]
    <3>1. Unlisted(G, q)
      BY <2>9, <2>14 DEF Unlisted
    <3>2. M.next[Entry(q)] = links.next[Entry(q)]
      BY <2>8, <2>14 DEF ListStep
    <3>3. N.next[Entry(q)] = M.next[Entry(q)]
      BY <2>12, <2>14, <3>1 DEF ListStep
    <3> QED BY <2>11, <3>2, <3>3
  <2>15. cpu # NoPage => links'.next[Entry(cpu)] = links.next[Entry(cpu)]
    BY <1>1, <1>2, <1>9, <2>14, InUse
  <2>16. Divided(H, lev)'
    BY <1>1, <2>6, <2>13, DividedSame DEF Lists
  <2>17. ASSUME NEW q \in Page
         PROVE  /\ q \in H[Full] <=> reference'[q] = 1 /\ q # cpu' /\ nr_objs'[q] = MaxObject
                /\ q \in H[Partial] <=> reference'[q] = 1 /\ q # cpu' /\ nr_objs'[q] = MaxObject - 1
    <3>1. CASE q = p
      <4>1. nr_objs'[q] = MaxObject - 1 /\ MaxObject - 1 # MaxObject
        BY <1>6, <1>7, <2>1, <3>1
      <4> QED BY <1>3, <1>9, <2>6, <2>13, <3>1, <4>1
    <3>2. CASE q # p
      BY <1>1, <1>3, <1>7, <2>6, <2>13, <3>2 DEF Lists
    <3> QED BY <3>1, <3>2
  <2>18. Rings(links', H)
    BY <2>11, <2>12 DEF ListStep
  <2>19. Lists(H, lev)'
    BY <1>1, <1>3, <2>6, <2>16, <2>17, <2>18 DEF Lists
  <2> QED BY <1>5, <2>1, <2>6, <2>15, <2>19
<1> QED BY <1>8, <1>9

LEMMA SlabFreeKeeps ==
  ASSUME SlabInv, NEW addr, kfree(addr), reference[addr[1]] = 1, nr_objs[addr[1]] # 0
  PROVE  SlabInv'
<1>1. Fields /\ CpuPage /\ Clients /\ Chains
  BY DEF SlabInv
<1>2. /\ request.pc = "idle" /\ addr \in held /\ addr \in Object /\ addr[1] \in Page
      /\ held' = held \ {addr} /\ temp' = {} /\ cpu' = cpu /\ blocks' \subseteq blocks
  BY KfreeObject
<1>3. PICK p, o, x, n : p = addr[1] /\ o = addr /\ x = freeobj[p] /\ n = nr_objs[p] - 1
  OBVIOUS
<1>4. /\ reference' = reference
      /\ nr_objs' = [nr_objs EXCEPT ![p] = n]
      /\ cpu # NoPage => links'.next[Entry(cpu)] = links.next[Entry(cpu)]
      /\ p # cpu => nr_objs[p] = MaxObject
      /\ \E G, lev : Lists(G, lev)'
  BY <1>3, SlabFreeLists
<1>5. slab_free(addr) /\ request' = request
  BY DEF kfree
<1>6. behind' = [behind EXCEPT ![o] = x] /\ freeobj' = [freeobj EXCEPT ![p] = o]
  BY <1>3, <1>5 DEF slab_free
<1>7. /\ MaxObject \in Nat /\ MaxObject > 1 /\ nr_objs[p] \in 1..MaxObject
      /\ n \in 0..MaxObject-1 /\ p \in Page /\ reference[p] = 1
  BY <1>1, <1>2, <1>3, Objects DEF Fields
<1>8. /\ nr_objs' \in [Page -> 0..MaxObject] /\ nr_objs'[p] = n
      /\ \A q \in Page : q # p => nr_objs'[q] = nr_objs[q]
  <2>1. n \in 0..MaxObject
    BY <1>7
  <2> QED BY <1>1, <1>4, <1>7, <2>1 DEF Fields
<1>9. /\ freeobj' \in [Page -> Object \union {Null}] /\ freeobj'[p] = o
      /\ \A q \in Page : q # p => freeobj'[q] = freeobj[q]
  BY <1>1, <1>2, <1>3, <1>6, <1>7 DEF Fields
<1>10. /\ behind' \in [Object -> Object \union {Null}] /\ behind'[o] = x
       /\ \A a \in Object : a # o => behind'[a] = behind[a]
  <2>1. x \in Object \union {Null}
    BY <1>1, <1>3, <1>7 DEF Fields
  <2> QED BY <1>1, <1>2, <1>3, <1>6, <2>1 DEF Fields
<1>11. Fields'
  BY <1>1, <1>2, <1>4, <1>5, <1>8, <1>9, <1>10 DEF Fields
<1>12. CpuPage'
  <2>1. \A q \in Page : reference'[q] = 1 /\ q # cpu' => nr_objs'[q] >= MaxObject - 1
    BY <1>1, <1>2, <1>3, <1>4, <1>7, <1>8 DEF CpuPage
  <2>2. cpu' # NoPage => nr_objs'[cpu'] < MaxObject
    BY <1>1, <1>2, <1>7, <1>8 DEF CpuPage, Fields
  <2> QED BY <1>1, <1>2, <1>4, <1>5, <2>1, <2>2 DEF CpuPage, SelfLinked
<1>13. Clients'
  BY <1>1, <1>2, <1>4, <1>5 DEF Clients
<1>14. ASSUME NEW q \in Page, reference'[q] = 1
       PROVE  \E f : IsChain(q, MaxObject - nr_objs'[q], Offer(q)', behind', held', f)
  <2>1. Offer(q)' = freeobj'[q] /\ Offer(q) = freeobj[q] /\ reference[q] = 1
    BY <1>2, <1>4, <1>5, <1>14 DEF Offer
  <2>2. PICK f : IsChain(q, MaxObject - nr_objs[q], freeobj[q], behind, held, f)
    BY <1>1, <1>2, <2>1 DEF Chains
  <2>3. PICK m, k, y, B, H, C, J :
          /\ m = MaxObject - nr_objs[q] /\ k = m + 1 /\ y = freeobj[q]
          /\ B = behind /\ H = held /\ C = behind' /\ J = held \ {o}
    OBVIOUS
  <2>4. m \in Nat /\ k \in Nat /\ IsChain(q, m, y, B, H, f)
    BY <1>1, <1>7, <2>2, <2>3 DEF Fields
  <2>5. CASE q = p
    <3>1. MaxObject - nr_objs'[q] = k
      BY <1>3, <1>7, <1>8, <2>3, <2>5
    <3>2. GivenBack(q, o, y, B, C, H)
      BY <1>2, <1>3, <1>10, <2>3, <2>5 DEF GivenBack
    <3>3. \E g : IsChain(q, k, o, C, H \ {o}, g)
      <4>1. m < k /\ k <= m + 1
        BY <2>3, <2>4
      <4> QED BY <2>4, <3>2, <4>1, ChainGive
    <3>4. Offer(q)' = o /\ behind' = C /\ held' = H \ {o}
      BY <1>2, <1>3, <1>9, <2>1, <2>3, <2>5
    <3>5. PICK g : IsChain(q, k, o, C, H \ {o}, g)
      BY <3>3
    <3>6. IsChain(q, MaxObject - nr_objs'[q], Offer(q)', behind', held', g)
      BY <3>1, <3>4, <3>5
    <3> QED BY <3>6
  <2>6. CASE q # p
    <3>1. \A a \in Object : a[1] = q => C[a] = B[a] /\ (a \in J <=> a \in H)
      BY <1>3, <1>10, <2>3, <2>6
    <3>2. IsChain(q, m, y, C, J, f)
      BY <2>4, <3>1, ChainFrame
    <3> QED BY <1>2, <1>3, <1>8, <1>9, <2>1, <2>3, <2>6, <3>2
  <2> QED BY <2>5, <2>6
<1>15. Chains'
  BY <1>14 DEF Chains
<1> QED BY <1>4, <1>11, <1>12, <1>13, <1>15 DEF SlabInv

LEMMA KfreeKeeps ==
  ASSUME SlabInv, NEW addr, kfree(addr)
  PROVE  SlabInv'
BY KfreeBlockKeeps, KfreeSpinsKeeps, SlabFreeKeeps

-----------------------------------------------------------------------------
(***************************************************************************)
(* After init_buddy: c[j] is the first page of block j of the top level.   *)
(***************************************************************************)
TopBlocks(c) ==
  /\ c \in [0..NBLOCK-1 -> Page]
  /\ c[0] = 0 /\ c[NBLOCK-1] = NPAGE - Size(MAX_BUDDY_ORDER)
  /\ \A j \in 0..NBLOCK-1 : Aligned(c[j], MAX_BUDDY_ORDER)
  /\ \A p \in Page : Aligned(p, MAX_BUDDY_ORDER) => \E j \in 0..NBLOCK-1 : p = c[j]
  /\ \A i, j \in 0..NBLOCK-1 : c[i] = c[j] => i = j
  /\ \A j \in 1..NBLOCK-1 : c[j-1] = c[j] - Size(MAX_BUDDY_ORDER)

LEMMA BootHeads == \E c : TopBlocks(c)
<1>1. PICK N, s, m : N = NBLOCK /\ m = MAX_BUDDY_ORDER /\ s = Size(m)
  OBVIOUS
<1>2. N \in Nat \ {0} /\ m \in Nat /\ s \in Nat /\ s > 0
  BY <1>1, Numbers, SizePositive
<1>3. NPAGE = N * s /\ Page = 0..N*s-1
  BY <1>1 DEF NPAGE, Page
<1>4. ASSUME NEW j \in 0..N-1
      PROVE  /\ j * s \in Nat /\ j * s + s <= N * s
             /\ Aligned(j * s, m)
  <2>1. j * s \in Nat /\ N * s \in Nat
    BY <1>2
  <2>2. j + 1 <= N
    BY <1>2
  <2>3. \A a, b \in Nat : a <= b => a * s <= b * s
    BY <1>2
  <2>4. (j + 1) * s <= N * s
    BY <1>2, <2>2, <2>3
  <2>5. (j + 1) * s = j * s + s
    BY <1>2
  <2>6. Aligned(j * s, m)
    BY <1>1, <1>2, <2>1, AlignedIsMultiple
  <2> QED BY <2>1, <2>4, <2>5, <2>6
<1>5. PICK c : c = [j \in 0..N-1 |-> j * s]
  OBVIOUS
<1>6. \A j \in 0..N-1 : c[j] = j * s
  BY <1>5
<1>7. c \in [0..N-1 -> Page]
  <2>1. \A j \in 0..N-1 : j * s \in Page
    <3>1. TAKE j \in 0..N-1
    <3>2. N * s \in Nat
      BY <1>2
    <3> QED BY <1>2, <1>3, <1>4, <3>2
  <2> QED BY <1>5, <2>1
<1>8. c[0] = 0 /\ c[N-1] = NPAGE - s
  <2>1. 0 * s = 0 /\ (N - 1) * s = N * s - s
    BY <1>2
  <2>2. 0 \in 0..N-1 /\ N - 1 \in 0..N-1
    BY <1>2
  <2> QED BY <1>3, <1>6, <2>1, <2>2
<1>9. \A j \in 0..N-1 : Aligned(c[j], m)
  BY <1>4, <1>6
<1>10. ASSUME NEW p \in Page, Aligned(p, m)
       PROVE  \E j \in 0..N-1 : p = c[j]
  <2>1. PICK k : k = p \div Size(m)
    OBVIOUS
  <2>2. k \in Nat /\ p = k * s
    BY <1>1, <1>2, <1>10, <2>1, Numbers, AlignedIsMultiple
  <2>3. k * s < N * s
    <3>1. N * s \in Nat /\ p \in 0..N*s-1
      BY <1>2, <1>3
    <3> QED BY <2>2, <3>1
  <2>4. k < N
    <3>1. \A a, b \in Nat : a <= b => a * s <= b * s
      BY <1>2
    <3>2. ~ N <= k
      BY <1>2, <2>2, <2>3, <3>1
    <3> QED BY <1>2, <2>2, <3>2
  <2>5. k \in 0..N-1
    BY <1>2, <2>2, <2>4
  <2> QED BY <1>6, <2>2, <2>5
<1>11. ASSUME NEW i \in 0..N-1, NEW j \in 0..N-1, c[i] = c[j]
       PROVE  i = j
  <2>1. i * s = j * s
    BY <1>6, <1>11
  <2>2. \A a, b \in Nat : a * s = b * s => a = b
    BY <1>2
  <2> QED BY <2>1, <2>2
<1>12. ASSUME NEW j \in 1..N-1 PROVE c[j-1] = c[j] - s
  <2>1. j \in 0..N-1 /\ j - 1 \in 0..N-1
    BY <1>2
  <2>2. (j - 1) * s = j * s - s
    BY <1>2
  <2> QED BY <1>6, <2>1, <2>2
<1>13. TopBlocks(c)
  BY <1>1, <1>7, <1>8, <1>9, <1>10, <1>11, <1>12 DEF TopBlocks
<1> QED BY <1>13

(* The memory is divided in these blocks.                                  *)
LEMMA BootTiles ==
  ASSUME NEW lev, lev = [p \in Page |-> IF p % Size(MAX_BUDDY_ORDER) = 0
                                        THEN MAX_BUDDY_ORDER ELSE -1]
  PROVE  Tiles(lev)
<1>1. PICK m, s : m = MAX_BUDDY_ORDER /\ s = Size(m)
  OBVIOUS
<1>2. m \in Order /\ m \in Nat /\ m # -1 /\ s \in Nat /\ s > 0 /\ Page \subseteq Nat
  BY <1>1, Numbers, SizePositive
<1>3. \A p \in Page : lev[p] = IF Aligned(p, m) THEN m ELSE -1
  BY <1>1 DEF Aligned
<1>4. lev \in [Page -> Order \union {-1}]
  BY <1>1, <1>2
<1>5. \A p \in Page : lev[p] # -1 => Aligned(p, lev[p]) /\ lev[p] = m
  BY <1>3
<1>6. ASSUME NEW p \in Page, NEW q \in Page, lev[p] # -1, q \in PagesOf(<<p, lev[p]>>), q # p
      PROVE  lev[q] = -1
  <2>1. CASE Aligned(q, m)
    <3>1. p \in Nat /\ q \in Nat /\ Aligned(p, m) /\ q \in PagesOf(<<p, m>>)
      BY <1>2, <1>5, <1>6
    <3>2. m <= m
      BY <1>2
    <3>3. p = q
      BY <1>2, <2>1, <3>1, <3>2, SameBegin
    <3> QED BY <1>6, <3>3
  <2> QED BY <1>3, <2>1
<1>7. ASSUME NEW q \in Page
      PROVE  \E p \in Page : lev[p] # -1 /\ q \in PagesOf(<<p, lev[p]>>)
  <2>1. PICK k, r, p : k = q \div s /\ r = q % s /\ p = k * s
    OBVIOUS
  <2>2. k \in Nat /\ r \in 0..s-1 /\ q = k * s + r
    BY <1>2, <2>1
  <2>3. p \in Nat /\ p <= q /\ q <= p + s - 1
    <3>1. k * s \in Nat
      BY <1>2, <2>2
    <3> QED BY <1>2, <2>1, <2>2, <3>1
  <2>4. p \in Page
    BY <1>2, <2>3, Numbers DEF Page
  <2>5. Aligned(p, m)
    BY <1>1, <1>2, <2>1, <2>2, <2>3, AlignedIsMultiple
  <2>6. lev[p] = m
    BY <1>3, <2>4, <2>5
  <2>7. q \in PagesOf(<<p, m>>)
    BY <1>1, <1>2, <2>3 DEF PagesOf
  <2> QED BY <1>2, <2>4, <2>6, <2>7
<1> QED BY <1>4, <1>5, <1>6, <1>7 DEF Tiles

(* They are NBLOCK.                                                        *)
LEMMA BootCount ==
  ASSUME NEW c, TopBlocks(c)
  PROVE  Cardinality({p \in Page : Aligned(p, MAX_BUDDY_ORDER)}) = NBLOCK
<1>1. PICK S, T : /\ S = {p \in Page : Aligned(p, MAX_BUDDY_ORDER)}
                  /\ T = 0..NBLOCK-1
  OBVIOUS
<1>2. c \in [T -> S] /\ \A i, j \in T : c[i] = c[j] => i = j
  BY <1>1 DEF TopBlocks
<1>3. \A p \in S : \E j \in T : c[j] = p
  BY <1>1 DEF TopBlocks
<1>4. c \in Bijection(T, S)
  BY <1>2, <1>3, Zenon DEF Bijection, Injection, Surjection, IsInjective
<1>5. ExistsBijection(T, S)
  BY <1>4, Zenon DEF ExistsBijection
<1>6. IsFiniteSet(T) /\ Cardinality(T) = NBLOCK
  BY <1>1, Numbers, FS_Interval
<1>7. Cardinality(S) = Cardinality(T)
  BY <1>5, <1>6, FS_Bijection, Zenon
<1> QED BY <1>1, <1>6, <1>7

(***************************************************************************)
(* How init_buddy and init_slab link the list entries: from the head, top, *)
(* to the last block of the memory, and down to page 0.                    *)
(***************************************************************************)
BootShape(L, top, last, step) ==
  /\ L.ok = TRUE /\ L \in LinksType
  /\ last \in Page /\ Aligned(last, MAX_BUDDY_ORDER)
  /\ L.next[top] = Entry(last) /\ L.prev[top] = Entry(0)
  /\ L.next[Entry(0)] = top /\ L.prev[Entry(last)] = top
  /\ \A p \in Page : Aligned(p, MAX_BUDDY_ORDER) /\ p # 0
       => L.next[Entry(p)] = Entry(p - step)
  /\ \A p \in Page : Aligned(p, MAX_BUDDY_ORDER) /\ p # last
       => L.prev[Entry(p)] = Entry(p + step)
  /\ \A h \in Head : h # top => L.next[h] = h /\ L.prev[h] = h

LEMMA BootLinked ==
  BootShape(BootLinks, Free(MAX_BUDDY_ORDER), NPAGE - Size(MAX_BUDDY_ORDER),
            Size(MAX_BUDDY_ORDER))
<1>0. PICK L, step, last, top :
        /\ L = BootLinks /\ step = Size(MAX_BUDDY_ORDER)
        /\ last = NPAGE - step /\ top = Free(MAX_BUDDY_ORDER)
  OBVIOUS
<1>1. PICK heads : heads = {p \in Page : Aligned(p, MAX_BUDDY_ORDER)}
  OBVIOUS
<1>2. PICK X : X = [n \in Node |->
         IF n = top THEN Entry(last)
         ELSE IF n \in {Entry(p) : p \in heads \ {0}}
         THEN Entry(n[2] - step)
         ELSE IF n = Entry(0) THEN top ELSE n]
  OBVIOUS
<1>3. PICK Y : Y = [n \in Node |->
         IF n = top THEN Entry(0)
         ELSE IF n \in {Entry(p) : p \in heads \ {last}}
         THEN Entry(n[2] + step)
         ELSE IF n = Entry(last) THEN top ELSE n]
  OBVIOUS
<1>4. L = [ok |-> TRUE, next |-> X, prev |-> Y]
  BY <1>0, <1>1, <1>2, <1>3, Zenon DEF BootLinks, Aligned
<1>5. L.ok = TRUE /\ L.next = X /\ L.prev = Y
  BY <1>4
<1>6. PICK c : TopBlocks(c)
  BY BootHeads
<1>7. NBLOCK \in Nat \ {0} /\ MAX_BUDDY_ORDER \in Nat /\ step \in Nat /\ step > 0
      /\ Page \subseteq Nat /\ MAX_BUDDY_ORDER \in Order
  BY <1>0, Numbers, SizePositive
<1>8. /\ c \in [0..NBLOCK-1 -> Page] /\ c[0] = 0 /\ c[NBLOCK-1] = last
      /\ \A j \in 0..NBLOCK-1 : Aligned(c[j], MAX_BUDDY_ORDER)
      /\ \A p \in Page : Aligned(p, MAX_BUDDY_ORDER) => \E j \in 0..NBLOCK-1 : p = c[j]
      /\ \A j \in 1..NBLOCK-1 : c[j-1] = c[j] - step
  BY <1>0, <1>6 DEF TopBlocks
<1>9. 0 \in 0..NBLOCK-1 /\ NBLOCK-1 \in 0..NBLOCK-1
  BY <1>7
<1>10. last \in Page /\ Aligned(last, MAX_BUDDY_ORDER) /\ 0 \in Page /\ Aligned(0, MAX_BUDDY_ORDER)
  BY <1>8, <1>9
<1>11. ASSUME NEW p \in heads, p # 0 PROVE p - step \in Page
  <2>1. PICK j \in 0..NBLOCK-1 : p = c[j]
    BY <1>1, <1>8
  <2>2. j # 0
    BY <1>8, <1>11, <2>1
  <2>3. j \in 1..NBLOCK-1 /\ j - 1 \in 0..NBLOCK-1
    BY <1>7, <2>2
  <2> QED BY <1>8, <2>1, <2>3
<1>12. ASSUME NEW p \in heads, p # last PROVE p + step \in Page
  <2>1. PICK j \in 0..NBLOCK-1 : p = c[j]
    BY <1>1, <1>8
  <2>2. j # NBLOCK-1
    BY <1>8, <1>12, <2>1
  <2>3. j + 1 \in 1..NBLOCK-1 /\ j + 1 \in 0..NBLOCK-1 /\ (j + 1) - 1 = j
    BY <1>7, <2>2
  <2>4. c[j] = c[j+1] - step
    BY <1>8, <2>3
  <2>5. c[j+1] \in Page /\ c[j] \in Page
    BY <1>8, <2>3
  <2>6. p + step = c[j+1]
    <3>1. PICK a, b : a = c[j] /\ b = c[j+1]
      OBVIOUS
    <3>2. a \in Nat /\ b \in Nat /\ step \in Nat /\ a = b - step
      BY <1>7, <2>4, <2>5, <3>1
    <3>3. a + step = b
      BY <3>2
    <3> QED BY <2>1, <3>1, <3>3
  <2> QED BY <2>5, <2>6
<1>13. top \in Node /\ top \in Head /\ \A p \in Page : Entry(p) \in Node /\ Entry(p) # top
  BY <1>0, <1>7, Nodes
<1>14. \A p \in Page : Entry(p)[2] = p
  BY DEF Entry
<1>15. \A p, q \in Page : Entry(p) = Entry(q) => p = q
  BY Nodes
<1>16. X[top] = Entry(last) /\ Y[top] = Entry(0)
  BY <1>2, <1>3, <1>13
<1>17. ASSUME NEW p \in heads, p # 0 PROVE X[Entry(p)] = Entry(p - step)
  <2>1. p \in Page
    BY <1>1
  <2>2. Entry(p) \in {Entry(q) : q \in heads \ {0}} /\ Entry(p) \in Node /\ Entry(p) # top
    BY <1>13, <1>17, <2>1
  <2>3. X[Entry(p)] = Entry(Entry(p)[2] - step)
    BY <1>2, <2>2
  <2> QED BY <1>14, <2>1, <2>3
<1>18. ASSUME NEW p \in heads, p # last PROVE Y[Entry(p)] = Entry(p + step)
  <2>1. p \in Page
    BY <1>1
  <2>2. Entry(p) \in {Entry(q) : q \in heads \ {last}} /\ Entry(p) \in Node /\ Entry(p) # top
    BY <1>13, <1>18, <2>1
  <2>3. Y[Entry(p)] = Entry(Entry(p)[2] + step)
    BY <1>3, <2>2
  <2> QED BY <1>14, <2>1, <2>3
<1>19. X[Entry(0)] = top
  <2>1. Entry(0) \notin {Entry(q) : q \in heads \ {0}}
    BY <1>1, <1>10, <1>15
  <2> QED BY <1>2, <1>10, <1>13, <2>1
<1>20. Y[Entry(last)] = top
  <2>1. Entry(last) \notin {Entry(q) : q \in heads \ {last}}
    BY <1>1, <1>10, <1>15
  <2> QED BY <1>3, <1>10, <1>13, <2>1
<1>21. ASSUME NEW n \in Node, n # top, \A p \in heads : n # Entry(p)
       PROVE  X[n] = n /\ Y[n] = n
  <2>1. n # Entry(0) /\ n # Entry(last)
    BY <1>1, <1>10, <1>21
  <2> QED BY <1>2, <1>3, <1>21, <2>1
<1>22. ASSUME NEW n \in Node PROVE X[n] \in Node /\ Y[n] \in Node
  <2>1. CASE n = top
    BY <1>10, <1>13, <1>16, <2>1
  <2>2. CASE \E p \in heads : n = Entry(p)
    <3>1. PICK p \in heads : n = Entry(p)
      BY <2>2
    <3>2. X[n] \in Node
      <4>1. CASE p = 0
        BY <1>13, <1>19, <3>1, <4>1
      <4>2. CASE p # 0
        BY <1>11, <1>13, <1>17, <3>1, <4>2
      <4> QED BY <4>1, <4>2
    <3>3. Y[n] \in Node
      <4>1. CASE p = last
        BY <1>13, <1>20, <3>1, <4>1
      <4>2. CASE p # last
        BY <1>12, <1>13, <1>18, <3>1, <4>2
      <4> QED BY <4>1, <4>2
    <3> QED BY <3>2, <3>3
  <2>3. CASE n # top /\ \A p \in heads : n # Entry(p)
    BY <1>21, <2>3
  <2> QED BY <2>1, <2>2, <2>3
<1>23. L \in LinksType
  <2>1. X \in [Node -> Node \union {Poison}] /\ Y \in [Node -> Node \union {Poison}]
    BY <1>2, <1>3, <1>22
  <2> QED BY <1>4, <2>1 DEF LinksType
<1>24. \A h \in Head : h # top => X[h] = h /\ Y[h] = h
  <2>1. TAKE h \in Head
  <2>2. HAVE h # top
  <2>3. h \in Node /\ \A p \in heads : h # Entry(p)
    BY <1>1, Nodes
  <2> QED BY <1>21, <2>2, <2>3
<1>25. BootShape(L, top, last, step)
  BY <1>1, <1>5, <1>10, <1>16, <1>17, <1>18, <1>19, <1>20, <1>23, <1>24 DEF BootShape
<1> QED BY <1>0, <1>25

(* The free list of the top level holds all blocks, the last one first;    *)
(* the other lists are empty.                                              *)
BootLists ==
  [h \in Head |-> IF h = Free(MAX_BUDDY_ORDER)
                  THEN {p \in Page : Aligned(p, MAX_BUDDY_ORDER)} ELSE {}]

LEMMA BootTopRing ==
  ASSUME NEW L, L = BootLinks
  PROVE  Ring(L, Free(MAX_BUDDY_ORDER), Entries({p \in Page : Aligned(p, MAX_BUDDY_ORDER)}))
<1>1. PICK m, N, step, last, top, S :
        /\ m = MAX_BUDDY_ORDER /\ N = NBLOCK /\ step = Size(MAX_BUDDY_ORDER)
        /\ last = NPAGE - step /\ top = Free(MAX_BUDDY_ORDER)
        /\ S = {p \in Page : Aligned(p, MAX_BUDDY_ORDER)}
  OBVIOUS
<1>2. PICK c : TopBlocks(c)
  BY BootHeads
<1>3. /\ c \in [0..N-1 -> Page] /\ c[0] = 0 /\ c[N-1] = last
      /\ \A j \in 0..N-1 : Aligned(c[j], m)
      /\ \A p \in Page : Aligned(p, m) => \E j \in 0..N-1 : p = c[j]
      /\ \A i, j \in 0..N-1 : c[i] = c[j] => i = j
      /\ \A j \in 1..N-1 : c[j-1] = c[j] - step
  BY <1>1, <1>2 DEF TopBlocks
<1>4. N \in Nat \ {0} /\ m \in Order /\ step \in Nat /\ step > 0 /\ Page \subseteq Nat
  BY <1>1, Numbers, SizePositive
<1>5. /\ L.next[top] = Entry(last) /\ L.prev[top] = Entry(0)
      /\ L.next[Entry(0)] = top /\ L.prev[Entry(last)] = top
      /\ \A p \in Page : Aligned(p, m) /\ p # 0 => L.next[Entry(p)] = Entry(p - step)
      /\ \A p \in Page : Aligned(p, m) /\ p # last => L.prev[Entry(p)] = Entry(p + step)
  <2>1. BootShape(L, top, last, step)
    BY <1>1, BootLinked
  <2> QED BY <1>1, <2>1 DEF BootShape
<1>6. top \in Node /\ top \in Head /\ (\A p \in Page : Entry(p) \in Node /\ Entry(p) # top)
      /\ \A p, q \in Page : Entry(p) = Entry(q) => p = q
  BY <1>1, <1>4, Nodes
<1>7. PICK at : at = [i \in Nat |-> IF i \in 1..N THEN Entry(c[N-i]) ELSE top]
  OBVIOUS
<1>8. \A i \in 1..N : N - i \in 0..N-1 /\ at[i] = Entry(c[N-i]) /\ c[N-i] \in Page
  BY <1>3, <1>4, <1>7
<1>9. at[0] = top /\ at[N+1] = top
  BY <1>4, <1>7
<1>10. at \in [Nat -> Node]
  <2>1. \A i \in Nat : (IF i \in 1..N THEN Entry(c[N-i]) ELSE top) \in Node
    BY <1>6, <1>8
  <2> QED BY <1>7, <2>1
<1>11. ASSUME NEW i \in 0..N PROVE L.next[at[i]] = at[i+1] /\ L.prev[at[i+1]] = at[i]
  <2>1. CASE i = 0
    <3>1. 1 \in 1..N
      BY <1>4
    <3>2. at[1] = Entry(last)
      BY <1>3, <1>8, <3>1
    <3> QED BY <1>5, <1>9, <2>1, <3>2
  <2>2. CASE i = N
    <3>1. N \in 1..N /\ N - N = 0
      BY <1>4
    <3>2. at[N] = Entry(0)
      BY <1>3, <1>8, <3>1
    <3> QED BY <1>5, <1>9, <2>2, <3>2
  <2>3. CASE i # 0 /\ i # N
    <3>1. PICK k : k = N - i
      OBVIOUS
    <3>2. /\ i \in 1..N /\ i + 1 \in 1..N /\ N - (i + 1) = k - 1 /\ k \in 1..N-1
          /\ k \in 0..N-1 /\ k - 1 \in 0..N-1 /\ 0 \in 0..N-1 /\ N - 1 \in 0..N-1
          /\ k # 0 /\ k - 1 # N - 1
      BY <1>4, <2>3, <3>1
    <3>3. PICK a, b : a = c[k] /\ b = c[k-1]
      OBVIOUS
    <3>4. at[i] = Entry(a) /\ at[i+1] = Entry(b)
      BY <1>8, <3>1, <3>2, <3>3
    <3>5. a \in Page /\ Aligned(a, m) /\ b \in Page /\ Aligned(b, m) /\ b = a - step
      BY <1>3, <3>2, <3>3
    <3>6. a # 0 /\ b # last
      BY <1>3, <3>2, <3>3
    <3>7. b + step = a
      <4>1. a \in Nat
        BY <1>4, <3>5
      <4> QED BY <1>4, <3>5, <4>1
    <3>8. L.next[Entry(a)] = Entry(a - step) /\ L.prev[Entry(b)] = Entry(b + step)
      BY <1>5, <3>5, <3>6
    <3> QED BY <3>4, <3>5, <3>7, <3>8
  <2> QED BY <2>1, <2>2, <2>3
<1>12. \A i \in 1..N : at[i] # top
  BY <1>6, <1>8
<1>13. ASSUME NEW i \in 1..N, NEW j \in 1..N, at[i] = at[j] PROVE i = j
  <2>1. c[N-i] = c[N-j]
    BY <1>6, <1>8, <1>13
  <2>2. N - i = N - j
    BY <1>3, <1>8, <2>1
  <2> QED BY <1>4, <2>2
<1>14. Entries(S) = {at[i] : i \in 1..N}
  <2>1. ASSUME NEW p \in S PROVE \E i \in 1..N : at[i] = Entry(p)
    <3>1. PICK j \in 0..N-1 : p = c[j]
      BY <1>1, <1>3
    <3>2. N - j \in 1..N /\ N - (N - j) = j
      BY <1>4
    <3> QED BY <1>8, <3>1, <3>2
  <2>2. ASSUME NEW i \in 1..N PROVE \E p \in S : at[i] = Entry(p)
    BY <1>1, <1>3, <1>8
  <2> QED BY <2>1, <2>2, Zenon DEF Entries
<1>15. Walk(L, top, N, at)
  BY <1>9, <1>11, <1>12, <1>13 DEF Walk
<1>16. Ring(L, top, Entries(S))
  BY <1>4, <1>10, <1>14, <1>15 DEF Ring
<1> QED BY <1>1, <1>16

LEMMA BootRings ==
  ASSUME NEW L, L = BootLinks
  PROVE  Rings(L, BootLists)
<1>1. PICK top, S, F : /\ top = Free(MAX_BUDDY_ORDER) /\ F = BootLists
                       /\ S = {p \in Page : Aligned(p, MAX_BUDDY_ORDER)}
  OBVIOUS
<1>2. L.ok = TRUE /\ L \in LinksType /\ \A h \in Head : h # top => L.next[h] = h /\ L.prev[h] = h
  BY <1>1, BootLinked DEF BootShape
<1>3. \A h \in Head : F[h] = IF h = top THEN S ELSE {}
  BY <1>1 DEF BootLists
<1>4. F \in [Head -> SUBSET Page]
  <2>1. S \subseteq Page
    BY <1>1
  <2> QED BY <1>1, <1>3, <2>1 DEF BootLists
<1>5. ASSUME NEW h \in Head, h # top PROVE Ring(L, h, {})
  <2>1. PICK at : at = [i \in Nat |-> h]
    OBVIOUS
  <2>2. at \in [Nat -> Node]
    BY <2>1, Nodes
  <2>3. Walk(L, h, 0, at)
    BY <1>2, <1>5, <2>1 DEF Walk
  <2>4. {at[i] : i \in 1..0} = {}
    OBVIOUS
  <2> QED BY <2>2, <2>3, <2>4 DEF Ring
<1>6. \A h \in Head : Ring(L, h, Entries(F[h]))
  <2>1. Entries({}) = {}
    BY DEF Entries
  <2>2. Ring(L, top, Entries(S))
    BY <1>1, BootTopRing
  <2> QED BY <1>3, <1>5, <2>1, <2>2
<1>7. \A g, h \in Head : g # h => F[g] \intersect F[h] = {}
  BY <1>3
<1>8. Rings(L, F)
  BY <1>2, <1>4, <1>6, <1>7 DEF Rings
<1> QED BY <1>1, <1>8

LEMMA InitKeeps == Init => SlabInv
<1> SUFFICES ASSUME Init PROVE SlabInv
  OBVIOUS
<1>1. MaxObject \in Nat /\ MaxObject > 1 /\ Null \notin Object /\ \A p \in Page : p # NoPage
  BY Objects
<1>2. Fields
  BY <1>1 DEF Init, Fields, Idle
<1>3. request.pc = "idle" /\ cpu = NoPage /\ held = {} /\ blocks = {} /\ temp = {}
      /\ \A p \in Page : reference[p] = 0 /\ flag[p] = 0
  BY DEF Init, Idle
<1>4. CpuPage /\ Clients /\ Chains
  BY <1>3 DEF CpuPage, Clients, Chains
<1>5. PICK lev : lev = [p \in Page |-> IF p % Size(MAX_BUDDY_ORDER) = 0
                                        THEN MAX_BUDDY_ORDER ELSE -1]
  OBVIOUS
<1>6. Tiles(lev) /\ bplevel = lev
  BY <1>5, BootTiles DEF Init
<1>7. PICK F, S : F = BootLists /\ S = {p \in Page : Aligned(p, MAX_BUDDY_ORDER)}
  OBVIOUS
<1>8. Rings(links, F)
  <2>1. links = BootLinks
    BY DEF Init
  <2> QED BY <1>7, <2>1, BootRings
<1>9. \A h \in Head : F[h] = IF h = Free(MAX_BUDDY_ORDER) THEN S ELSE {}
  BY <1>7 DEF BootLists
<1>10. F[Full] = {} /\ F[Partial] = {}
       /\ \A l \in Order : F[Free(l)] = IF l = MAX_BUDDY_ORDER THEN S ELSE {}
  BY <1>9, Nodes, Numbers
<1>11. \A p \in Page : lev[p] = IF p \in S THEN MAX_BUDDY_ORDER ELSE -1
  BY <1>5, <1>7 DEF Aligned
<1>12. \A l \in Order : count[l] = Cardinality(F[Free(l)])
  <2>1. Cardinality(S) = NBLOCK
    BY <1>7, BootHeads, BootCount
  <2>2. Cardinality({}) = 0
    BY FS_EmptySet
  <2>3. \A l \in Order : count[l] = IF l = MAX_BUDDY_ORDER THEN NBLOCK ELSE 0
    BY DEF Init
  <2> QED BY <1>10, <2>1, <2>2, <2>3
<1>13. Divided(F, lev)
  <2>1. flag \in [Page -> {0, 1}] /\ count \in [Order -> Nat]
    BY Numbers DEF Init
  <2>2. bplevel \in [Page -> Order \union {-1}]
    BY <1>6 DEF Tiles
  <2>3. \A l \in Order, p \in Page : p \in F[Free(l)] <=> lev[p] = l /\ flag[p] = 0
    BY <1>3, <1>10, <1>11, Numbers
  <2> QED BY <1>3, <1>6, <1>12, <2>1, <2>2, <2>3 DEF Divided
<1>14. Lists(F, lev)
  BY <1>3, <1>8, <1>10, <1>13 DEF Lists
<1> QED BY <1>2, <1>4, <1>14 DEF SlabInv

(* Every turn of slab_alloc and every call of kmalloc and kfree keeps the  *)
(* invariant, for any number of pages, of levels and of objects per page.  *)
THEOREM SlabInductive == Spec => []SlabInv
<1>1. Init => SlabInv
  BY InitKeeps
<1>2. SlabInv /\ [Next]_vars => SlabInv'
  <2> SUFFICES ASSUME SlabInv, [Next]_vars PROVE SlabInv'
    OBVIOUS
  <2>1. CASE Next
    <3>1. CASE \E l \in Wanted, keep \in BOOLEAN : kmalloc_pages(l, keep)
      BY <3>1, KmallocPagesKeeps
    <3>2. CASE \E keep \in BOOLEAN : kmalloc(keep)
      BY <3>2, KmallocKeeps
    <3>3. CASE PartialPage
      BY <3>3, PartialPageKeeps
    <3>4. CASE NewPage
      BY <3>4, NewPageKeeps
    <3>5. CASE TakeObject
      BY <3>5, TakeObjectKeeps
    <3>6. CASE \E addr \in held \union {<<b[1], 0>> : b \in blocks} : kfree(addr)
      BY <3>6, KfreeKeeps
    <3> QED BY <2>1, <3>1, <3>2, <3>3, <3>4, <3>5, <3>6 DEF Next
  <2>2. CASE UNCHANGED vars
    <3>1. /\ links' = links /\ flag' = flag /\ bplevel' = bplevel /\ count' = count
          /\ reference' = reference /\ nr_objs' = nr_objs /\ freeobj' = freeobj
          /\ behind' = behind /\ cpu' = cpu /\ request' = request
          /\ held' = held /\ blocks' = blocks /\ temp' = temp
          /\ UNCHANGED buddyVars
      BY <2>2 DEF vars, buddyVars, pageVars, clientVars
    <3>2. Fields /\ CpuPage /\ Clients /\ Chains /\ \E F, lev : Lists(F, lev)
      BY DEF SlabInv
    <3>3. Fields'
      BY <3>1, <3>2 DEF Fields
    <3>4. CpuPage' /\ Clients'
      BY <3>1, <3>2 DEF CpuPage, Clients, SelfLinked
    <3>5. Chains'
      BY <3>1, <3>2 DEF Chains, Offer
    <3>6. PICK F, lev : Lists(F, lev)
      BY <3>2
    <3>7. Divided(F, lev)'
      BY <3>1, <3>6, DividedSame DEF Lists
    <3>8. Lists(F, lev)'
      BY <3>1, <3>6, <3>7 DEF Lists
    <3> QED BY <3>3, <3>4, <3>5, <3>8 DEF SlabInv
  <2> QED BY <2>1, <2>2
<1> QED BY <1>1, <1>2, PTL DEF Spec

(* Every variable holds a value of its type, and no command has more than  *)
(* one thing to free.                                                      *)
THEOREM SlabTypeOK == Spec => []TypeOK
<1>1. ASSUME SlabInv PROVE TypeOK
  <2>1. PICK F, lev : Lists(F, lev)
    BY <1>1 DEF SlabInv
  <2>2. Fields /\ Clients
    BY <1>1 DEF SlabInv
  <2>3. links \in LinksType
    BY <2>1 DEF Lists, Rings
  <2>4. /\ flag \in [Page -> {0, 1}] /\ bplevel \in [Page -> Order \union {-1}]
        /\ count \in [Order -> Nat]
    BY <2>1 DEF Lists, Divided
  <2>5. ASSUME NEW a \in temp PROVE a \in Object
    <3>1. CASE a \in held
      BY <2>2, <3>1 DEF Fields
    <3>2. CASE \E b \in blocks : a = <<b[1], 0>>
      <4>1. PICK b \in blocks : a = <<b[1], 0>>
        BY <3>2
      <4>2. b[1] \in Page /\ 0 \in Index
        BY <2>2, Objects DEF Fields, Index
      <4> QED BY <4>1, <4>2, Objects
    <3> QED BY <2>2, <3>1, <3>2 DEF Clients
  <2>6. Cardinality(temp) <= 1
    <3>1. CASE temp = {}
      <4>1. Cardinality(temp) = 0
        BY <3>1, FS_EmptySet
      <4> QED BY <4>1
    <3>2. CASE temp # {}
      <4>1. PICK a : a \in temp
        BY <3>2
      <4>2. temp = {a}
        BY <2>2, <4>1 DEF Clients
      <4>3. Cardinality(temp) = 1
        BY <4>2, FS_Singleton
      <4> QED BY <4>3
    <3> QED BY <3>1, <3>2
  <2> QED BY <2>2, <2>3, <2>4, <2>5, <2>6 DEF TypeOK, Fields, LinksType
<1> QED BY <1>1, SlabInductive, PTL

(* list_del poisons the entry of a page that slab_alloc makes the current  *)
(* one and later puts on the full list; no operation of list.h follows the *)
(* poison in between.                                                      *)
THEOREM SlabNeverFaults == Spec => []NeverFaults
<1>1. SlabInv => NeverFaults
  BY DEF SlabInv, Lists, Rings, NeverFaults
<1> QED BY <1>1, SlabInductive, PTL

(* The one list entry of a page serves the slab's lists and the buddy's,   *)
(* and a page is on the one its fields say.                                *)
THEOREM SlabPagesInPlace == Spec => []PagesInPlace
<1>1. ASSUME SlabInv PROVE PagesInPlace
  <2>1. PICK F, lev : Lists(F, lev)
    BY <1>1 DEF SlabInv
  <2>2. Fields /\ CpuPage
    BY <1>1 DEF SlabInv
  <2>3. Rings(links, F) /\ Divided(F, lev) /\ F \in [Head -> SUBSET Page]
    BY <2>1 DEF Lists, Rings
  <2>4. /\ On(Full) = F[Full] /\ On(Partial) = F[Partial]
        /\ \A l \in Order : On(Free(l)) = F[Free(l)]
    BY <2>3, OnRing, Nodes
  <2>5. F[Full] \subseteq Page /\ F[Partial] \subseteq Page
        /\ \A l \in Order : F[Free(l)] \subseteq Page
    BY <2>3, Nodes
  <2>6. MaxObject \in Nat /\ MaxObject > 1 /\ MaxObject - 1 \in 1..MaxObject-1
        /\ MaxObject - 1 # MaxObject
    BY Objects
  <2>7. PartialArePartial
    BY <2>1, <2>4, <2>5, <2>6 DEF PartialArePartial, Lists
  <2>8. \A p \in On(Full) : reference[p] = 1 /\ nr_objs[p] = MaxObject
    BY <2>1, <2>4, <2>5 DEF Lists
  <2>9. ASSUME NEW l \in Order, NEW p \in On(Free(l))
        PROVE  flag[p] = 0 /\ bplevel[p] = l /\ reference[p] = 0
    <3>1. p \in Page /\ p \in F[Free(l)]
      BY <2>4, <2>5
    <3>2. lev[p] = l /\ flag[p] = 0 /\ l # -1
      BY <2>3, <3>1, Numbers DEF Divided
    <3>3. bplevel[p] = l
      BY <2>3, <3>1, <3>2 DEF Divided
    <3>4. reference[p] # 1 /\ reference[p] \in {0, 1}
      BY <2>1, <2>2, <3>1, <3>2 DEF Lists, Fields
    <3> QED BY <3>2, <3>3, <3>4
  <2>10. On(Partial) \intersect On(Full) = {}
    BY <2>1, <2>4, <2>5, <2>6 DEF Lists
  <2>11. cpu \notin On(Partial) \union On(Full)
    BY <2>1, <2>4, <2>5 DEF Lists
  <2>12. ASSUME NEW p \in Page, reference[p] = 1
         PROVE  p \in On(Partial) \union On(Full) \union ({cpu} \ {NoPage})
    <3>1. CASE p = cpu
      BY <3>1, Objects
    <3>2. CASE p # cpu
      <4>1. nr_objs[p] \in 0..MaxObject /\ nr_objs[p] >= MaxObject - 1
        BY <2>2, <2>12, <3>2 DEF Fields, CpuPage
      <4>2. nr_objs[p] = MaxObject \/ nr_objs[p] = MaxObject - 1
        BY <2>6, <4>1
      <4> QED BY <2>1, <2>4, <2>12, <3>2, <4>2 DEF Lists
    <3> QED BY <3>1, <3>2
  <2>13. ASSUME NEW p \in On(Partial) \union On(Full) \union ({cpu} \ {NoPage})
         PROVE  p \in Page /\ reference[p] = 1
    <3>1. CASE p \in On(Partial) \union On(Full)
      BY <2>1, <2>4, <2>5, <3>1 DEF Lists
    <3>2. CASE p \in {cpu} \ {NoPage}
      BY <2>2, <3>2 DEF Fields, CpuPage
    <3> QED BY <2>13, <3>1, <3>2
  <2>14. {p \in Page : reference[p] = 1} =
           On(Partial) \union On(Full) \union ({cpu} \ {NoPage})
    BY <2>12, <2>13
  <2> QED BY <2>7, <2>8, <2>9, <2>10, <2>11, <2>14 DEF PagesInPlace
<1> QED BY <1>1, SlabInductive, PTL

(* slab_alloc's loop ends without an object only when no page of the cache *)
(* has one and the buddy system has no block.                              *)
THEOREM SlabSpinsOnlyWhenFull == Spec => SpinsOnlyWhenFull
<1> DEFINE Spent == /\ \A l \in Order : On(Free(l)) = {}
                    /\ \A p \in Page : reference[p] = 1 => nr_objs[p] = MaxObject
<1>1. ASSUME SlabInv, [Next]_vars, request.pc = "check", request'.pc = "stuck"
      PROVE  Spent
  <2>1. NewPage
    <3>1. ~ MayAllocate(TRUE) /\ ~ MayAllocate(FALSE) /\ \A addr : ~ MayFree(addr)
      BY <1>1 DEF MayAllocate, MayFree
    <3>2. ~ PartialPage
      <4>1. ASSUME PartialPage PROVE FALSE
        <5>1. request \in [pc : {"idle", "check", "take", "stuck"},
                           object : Object \union {Null}, keep : BOOLEAN]
          BY <1>1 DEF SlabInv, Fields
        <5>2. \E x : request' = [request EXCEPT !.object = x]
          BY <4>1 DEF PartialPage
        <5>3. request'.pc = request.pc
          BY <5>1, <5>2
        <5> QED BY <1>1, <5>3
      <4> QED BY <4>1
    <3>3. ~ TakeObject
      BY <1>1 DEF TakeObject, Idle
    <3>4. ~ UNCHANGED vars
      BY <1>1 DEF vars
    <3> QED BY <1>1, <3>1, <3>2, <3>3, <3>4 DEF Next, kmalloc_pages, kmalloc, kfree
  <2>2. cpu = NoPage /\ Retired = links /\ list_empty(links, Partial)
    BY <1>1, <2>1, TurnsWithoutCurrent DEF NewPage
  <2>3. Available(links, 0) = {}
    <3>1. request \in [pc : {"idle", "check", "take", "stuck"},
                       object : Object \union {Null}, keep : BOOLEAN]
      BY <1>1 DEF SlabInv, Fields
    <3>2. ASSUME Available(Retired, 0) # {} PROVE FALSE
      <4>1. \E x : request' = [request EXCEPT !.pc = "take", !.object = x]
        BY <2>1, <3>2 DEF NewPage
      <4>2. request'.pc = "take"
        BY <3>1, <4>1
      <4> QED BY <1>1, <4>2
    <3> QED BY <2>2, <3>2
  <2>4. PICK F, lev : Lists(F, lev)
    BY <1>1 DEF SlabInv
  <2>5. Rings(links, F)
    BY <2>4 DEF Lists
  <2>6. \A l \in Order : On(Free(l)) = {}
    <3>1. TAKE l \in Order
    <3>2. Free(l) \in Head /\ l \in 0..MAX_BUDDY_ORDER
      BY Nodes DEF Order
    <3>3. list_empty(links, Free(l))
      BY <2>3, <3>2 DEF Available
    <3> QED BY <2>5, <3>2, <3>3, ListFirst, OnRing
  <2>7. F[Partial] = {}
    BY <2>2, <2>5, ListFirst, Nodes
  <2>8. ASSUME NEW p \in Page, reference[p] = 1 PROVE nr_objs[p] = MaxObject
    <3>1. p # cpu
      BY <2>2, Objects
    <3>2. nr_objs[p] # MaxObject - 1
      BY <2>4, <2>7, <2>8, <3>1 DEF Lists
    <3>3. nr_objs[p] \in 0..MaxObject /\ nr_objs[p] >= MaxObject - 1
      BY <1>1, <2>8, <3>1 DEF SlabInv, Fields, CpuPage
    <3> QED BY <3>2, <3>3, Objects
  <2> QED BY <2>6, <2>8
<1>2. SlabInv /\ [Next]_vars => [request.pc = "check" /\ request'.pc = "stuck" => Spent]_vars
  BY <1>1
<1> QED BY <1>2, SlabInductive, PTL DEF Spec, SpinsOnlyWhenFull

(* The chain the model follows is the one of the invariant.                *)
LEMMA ChainMet ==
  ASSUME NEW p \in Page, NEW m \in Nat, m <= MaxObject,
         NEW f, IsChain(p, m, freeobj[p], behind, held, f)
  PROVE  \A n \in 1..m : Chain(p)[n] = <<p, f[n]>>
<1>1. PICK c : c = Chain(p)
  OBVIOUS
<1>2. c[1] = freeobj[p] /\ \A n \in 2..MaxObject : c[n] = behind[c[n-1]]
  BY <1>1, ChainIs
<1>3. MaxObject \in Nat
  BY Objects
<1>4. PICK S : S = {d \in Nat : d < m => c[d+1] = <<p, f[d+1]>>}
  OBVIOUS
<1>5. 0 \in S
  BY <1>2, <1>4 DEF IsChain
<1>6. ASSUME NEW d \in Nat, d \in S PROVE d + 1 \in S
  <2>1. ASSUME d + 1 < m PROVE c[(d+1)+1] = <<p, f[(d+1)+1]>>
    <3>1. PICK n : n = d + 1
      OBVIOUS
    <3>2. n \in 1..m-1 /\ n + 1 \in 2..MaxObject /\ (n + 1) - 1 = n
      BY <1>3, <2>1, <3>1
    <3>3. c[n] = <<p, f[n]>>
      BY <1>4, <1>6, <2>1, <3>1
    <3>4. c[n+1] = behind[c[n]]
      BY <1>2, <3>2
    <3>5. behind[<<p, f[n]>>] = <<p, f[n+1]>>
      BY <3>2 DEF IsChain
    <3> QED BY <3>1, <3>3, <3>4, <3>5
  <2> QED BY <1>4, <2>1
<1>7. \A d \in Nat : d \in S
  BY <1>5, <1>6, AllNat
<1>8. ASSUME NEW n \in 1..m PROVE c[n] = <<p, f[n]>>
  <2>1. n - 1 \in Nat /\ n - 1 < m /\ (n - 1) + 1 = n
    OBVIOUS
  <2> QED BY <1>4, <1>7, <2>1
<1> QED BY <1>1, <1>8

(* The objects a page can still give are those nobody holds, each once;    *)
(* and as many as its count says.                                          *)
THEOREM SlabFreeChains == Spec => []FreeChains
<1>1. ASSUME SlabInv, request.pc = "idle", NEW p \in Page, reference[p] = 1,
             NEW left, left = {Chain(p)[n] : n \in 1..MaxObject - nr_objs[p]}
      PROVE  /\ left = {<<p, i>> : i \in 0..MaxObject-1} \ held
             /\ Cardinality(left) = MaxObject - nr_objs[p]
  <2>1. MaxObject \in Nat /\ nr_objs[p] \in 0..MaxObject
    BY <1>1, Objects DEF SlabInv, Fields
  <2>2. PICK m, x : m = MaxObject - nr_objs[p] /\ x = freeobj[p]
    OBVIOUS
  <2>3. m \in Nat /\ m <= MaxObject
    BY <2>1, <2>2
  <2>4. Offer(p) = x
    BY <1>1, <2>2 DEF Offer
  <2>5. PICK f : IsChain(p, m, freeobj[p], behind, held, f)
    BY <1>1, <2>2, <2>4 DEF SlabInv, Chains
  <2>6. \A n \in 1..m : Chain(p)[n] = <<p, f[n]>>
    BY <2>3, <2>5, ChainMet
  <2>7. /\ f \in [1..m -> Index]
        /\ \A i, j \in 1..m : f[i] = f[j] => i = j
        /\ \A k \in Index : (\E i \in 1..m : f[i] = k) <=> <<p, k>> \notin held
    BY <2>5 DEF IsChain
  <2>8. left = {<<p, f[n]>> : n \in 1..m}
    BY <1>1, <2>2, <2>6
  <2>9. left = {<<p, i>> : i \in Index} \ held
    <3>1. ASSUME NEW n \in 1..m PROVE <<p, f[n]>> \in {<<p, i>> : i \in Index} \ held
      BY <2>7
    <3>2. ASSUME NEW i \in Index, <<p, i>> \notin held PROVE <<p, i>> \in {<<p, f[n]>> : n \in 1..m}
      BY <2>7, <3>2
    <3> QED BY <2>8, <3>1, <3>2
  <2>10. PICK c : c = [n \in 1..m |-> <<p, f[n]>>]
    OBVIOUS
  <2>11. c \in [1..m -> left] /\ \A i, j \in 1..m : c[i] = c[j] => i = j
    BY <2>7, <2>8, <2>10
  <2>12. \A o \in left : \E n \in 1..m : c[n] = o
    BY <2>8, <2>10
  <2>13. c \in Bijection(1..m, left)
    BY <2>11, <2>12, Zenon DEF Bijection, Injection, Surjection, IsInjective
  <2>14. ExistsBijection(1..m, left)
    BY <2>13, Zenon DEF ExistsBijection
  <2>15. IsFiniteSet(1..m) /\ Cardinality(1..m) = m
    BY <2>3, FS_Interval
  <2>16. Cardinality(left) = m
    BY <2>14, <2>15, FS_Bijection
  <2> QED BY <2>2, <2>9, <2>16 DEF Index
<1>2. SlabInv => FreeChains
  BY <1>1 DEF FreeChains
<1> QED BY <1>2, SlabInductive, PTL

-----------------------------------------------------------------------------
(***************************************************************************)
(* Memory counted in objects: page p is p * MaxObject and the numbers up   *)
(* to the next page's.                                                     *)
(***************************************************************************)
Num(o) == o[1] * MaxObject + o[2]
Span(b) == b[1] * MaxObject .. (b[1] + Size(b[2])) * MaxObject - 1
GivenOut == {{Num(o)} : o \in held} \union {Span(b) : b \in blocks}
Cells == 0..NPAGE * MaxObject - 1

(* The page of a number.                                                   *)
LEMMA PageOfNumber ==
  ASSUME NEW a \in Nat, NEW b \in Nat, NEW x \in Nat
  PROVE  x \in a * MaxObject .. b * MaxObject - 1 <=> x \div MaxObject \in a..b-1
<1>1. PICK M : M = MaxObject /\ M \in Nat /\ M > 1
  BY Objects
<1>2. PICK k, r : k = x \div M /\ r = x % M
  OBVIOUS
<1>3. k \in Nat /\ r \in 0..M-1 /\ x = k * M + r
  BY <1>1, <1>2
<1>4. \A i, j \in Nat : i <= j => i * M <= j * M
  BY <1>1
<1>5. (k + 1) * M = k * M + M /\ k * M \in Nat /\ a * M \in Nat /\ b * M \in Nat
  BY <1>1, <1>3
<1>6. a <= k => a * M <= x
  BY <1>1, <1>3, <1>4, <1>5
<1>7. k + 1 <= b => x <= b * M - 1
  <2>1. HAVE k + 1 <= b
  <2>2. (k + 1) * M <= b * M
    BY <1>3, <1>4, <2>1
  <2> QED BY <1>1, <1>3, <1>5, <2>2
<1>8. k < a => x < a * M
  <2>1. HAVE k < a
  <2>2. k + 1 \in Nat /\ k + 1 <= a
    BY <1>3, <2>1
  <2>3. (k + 1) * M <= a * M
    BY <1>4, <2>2
  <2> QED BY <1>1, <1>3, <1>5, <2>3
<1>9. b <= k => b * M <= x
  BY <1>1, <1>3, <1>4, <1>5
<1>10. x \in a * M .. b * M - 1 <=> k \in a..b-1
  BY <1>3, <1>5, <1>6, <1>7, <1>8, <1>9
<1> QED BY <1>1, <1>2, <1>10

(* An object's number tells it.                                            *)
LEMMA ObjectNumber ==
  ASSUME NEW o \in Object
  PROVE  /\ Num(o) \in Cells /\ Num(o) \div MaxObject = o[1]
         /\ Num(o) % MaxObject = o[2]
<1>1. PICK M, k, r : M = MaxObject /\ k = o[1] /\ r = o[2]
  OBVIOUS
<1>2. M \in Nat /\ M > 1 /\ k \in Nat /\ r \in 0..M-1 /\ k \in 0..NPAGE-1 /\ NPAGE \in Nat
  BY <1>1, Objects, Numbers DEF Index, Page
<1>3. k * M \in Nat /\ k * M + r \in Nat
  BY <1>2
<1>4. (k * M + r) \div M = k /\ (k * M + r) % M = r
  BY <1>2, <1>3
<1>5. Num(o) = k * M + r
  BY <1>1 DEF Num
<1>6. Num(o) \in 0 * M .. NPAGE * M - 1
  BY <1>1, <1>2, <1>3, <1>4, <1>5, PageOfNumber
<1> QED BY <1>1, <1>2, <1>4, <1>5, <1>6 DEF Cells

(* A block has the numbers of its pages.                                   *)
LEMMA BlockSpan ==
  ASSUME NEW p \in Page, NEW l \in Order, PagesOf(<<p, l>>) \subseteq Page
  PROVE  /\ \A x : x \in Span(<<p, l>>) <=> x \in Nat /\ x \div MaxObject \in PagesOf(<<p, l>>)
         /\ Span(<<p, l>>) \subseteq Cells
         /\ p * MaxObject \in Span(<<p, l>>) /\ p * MaxObject \in Cells
         /\ Span(<<p, l>>) = p * MaxObject .. p * MaxObject + MaxObject * Size(l) - 1
         /\ \A n : Span(<<p, l>>) # {n}
<1>1. PICK M, s, e : M = MaxObject /\ s = Size(l) /\ e = p + s
  OBVIOUS
<1>2. /\ M \in Nat /\ M > 1 /\ s \in Nat /\ s >= 1 /\ p \in Nat /\ NPAGE \in Nat
      /\ Page = 0..NPAGE-1
  BY <1>1, Objects, Numbers, SizePositive DEF Page
<1>3. e \in Nat /\ PagesOf(<<p, l>>) = p..e-1 /\ Span(<<p, l>>) = p * M .. e * M - 1
  BY <1>1, <1>2 DEF PagesOf, Span
<1>4. p * M \in Nat
  BY <1>2
<1>5. ASSUME NEW x
      PROVE  x \in Span(<<p, l>>) <=> x \in Nat /\ x \div M \in PagesOf(<<p, l>>)
  <2>1. CASE x \in Nat
    <3>1. x \in p * M .. e * M - 1 <=> x \div M \in p..e-1
      BY <1>1, <1>2, <1>3, <2>1, PageOfNumber
    <3> QED BY <1>3, <2>1, <3>1
  <2>2. CASE x \notin Nat
    <3>1. PICK i, j : i = p * M /\ j = e * M - 1
      OBVIOUS
    <3>2. \A y \in i..j : y \in Nat
      BY <1>4, <3>1
    <3> QED BY <1>3, <2>2, <3>1, <3>2
  <2> QED BY <2>1, <2>2
<1>6. ASSUME NEW x \in Span(<<p, l>>) PROVE x \in Cells
  <2>1. x \in Nat /\ x \div M \in 0..NPAGE-1
    BY <1>2, <1>5
  <2>2. x \in 0 * M .. NPAGE * M - 1
    BY <1>1, <1>2, <2>1, PageOfNumber
  <2> QED BY <1>1, <1>2, <2>2 DEF Cells
<1>7. e * M = p * M + M * s
  BY <1>1, <1>2
<1>8. M * s >= M /\ M * s \in Nat
  <2>1. \A i \in Nat : i >= 1 => M * i >= M /\ M * i \in Nat
    BY <1>2
  <2> QED BY <1>2, <2>1
<1>9. p * M \in Span(<<p, l>>) /\ p * M + 1 \in Span(<<p, l>>)
  BY <1>2, <1>3, <1>4, <1>7, <1>8
<1>10. \A n : Span(<<p, l>>) # {n}
  <2>1. p * M # p * M + 1
    BY <1>4
  <2> QED BY <1>9, <2>1
<1>11. Span(<<p, l>>) = p * M .. p * M + M * s - 1
  <2>1. PICK i, j : i = e * M - 1 /\ j = p * M + M * s - 1
    OBVIOUS
  <2>2. i = j
    BY <1>2, <1>3, <1>4, <1>7, <1>8, <2>1
  <2> QED BY <1>3, <2>1, <2>2
<1>12. p * MaxObject \in Span(<<p, l>>) /\ p * MaxObject \in Cells
  BY <1>1, <1>6, <1>9
<1>13. Span(<<p, l>>) = p * MaxObject .. p * MaxObject + MaxObject * Size(l) - 1
  BY <1>1, <1>11
<1>14. \A x : x \in Span(<<p, l>>) <=> x \in Nat /\ x \div MaxObject \in PagesOf(<<p, l>>)
  BY <1>1, <1>5
<1> QED BY <1>6, <1>10, <1>12, <1>13, <1>14

(* What is given out lies apart.                                           *)
GivenApart ==
  /\ \A o \in held : Num(o) \in Cells
  /\ \A b \in blocks : /\ Span(b) \subseteq Cells /\ b[1] * MaxObject \in Cells
                       /\ Span(b) = b[1] * MaxObject ..
                                      b[1] * MaxObject + MaxObject * Size(b[2]) - 1
                       /\ b[2] \in Order /\ Span(b) # {} /\ \A n : Span(b) # {n}
  /\ \A o, a \in held : Num(o) = Num(a) => o = a
  /\ \A o \in held, b \in blocks : Num(o) \notin Span(b) /\ o[1] # b[1]
  /\ \A b, c \in blocks : b # c => Span(b) \intersect Span(c) = {} /\ b[1] # c[1]

LEMMA ApartHolds == SlabInv => GivenApart
<1> SUFFICES ASSUME SlabInv PROVE GivenApart
  OBVIOUS
<1>1. PICK F, lev : Lists(F, lev)
  BY DEF SlabInv
<1>2. Fields /\ Clients /\ Tiles(lev)
  BY <1>1 DEF SlabInv, Lists, Divided
<1>3. ASSUME NEW o \in held
      PROVE  o \in Object /\ o[1] \in Page /\ reference[o[1]] = 1 /\ lev[o[1]] = 0
  BY <1>1, <1>2, Objects DEF Fields, Clients, Lists
<1>4. ASSUME NEW b \in blocks
      PROVE  /\ b[1] \in Page /\ b[2] \in Order /\ b = <<b[1], b[2]>>
             /\ reference[b[1]] = 0 /\ lev[b[1]] = b[2] /\ b[2] # -1
             /\ PagesOf(b) \subseteq Page
  <2>1. /\ b[1] \in Page /\ b[2] \in Order /\ b = <<b[1], b[2]>>
        /\ reference[b[1]] = 0 /\ lev[b[1]] = b[2] /\ b[2] # -1
    BY <1>1, <1>2, Numbers DEF Fields, Lists
  <2>2. PagesOf(<<b[1], lev[b[1]]>>) \subseteq Page
    BY <1>2, <2>1, HeadFacts
  <2> QED BY <2>1, <2>2
<1>5. ASSUME NEW b \in blocks
      PROVE  /\ \A x : x \in Span(b) <=> x \in Nat /\ x \div MaxObject \in PagesOf(b)
             /\ Span(b) \subseteq Cells /\ b[1] * MaxObject \in Cells
             /\ Span(b) = b[1] * MaxObject .. b[1] * MaxObject + MaxObject * Size(b[2]) - 1
             /\ b[2] \in Order /\ Span(b) # {} /\ \A n : Span(b) # {n}
  <2>1. PICK p, l : p = b[1] /\ l = b[2]
    OBVIOUS
  <2>2. p \in Page /\ l \in Order /\ b = <<p, l>> /\ PagesOf(<<p, l>>) \subseteq Page
    BY <1>4, <2>1
  <2>3. /\ \A x : x \in Span(<<p, l>>) <=> x \in Nat /\ x \div MaxObject \in PagesOf(<<p, l>>)
        /\ Span(<<p, l>>) \subseteq Cells
        /\ p * MaxObject \in Span(<<p, l>>) /\ p * MaxObject \in Cells
        /\ Span(<<p, l>>) = p * MaxObject .. p * MaxObject + MaxObject * Size(l) - 1
        /\ \A n : Span(<<p, l>>) # {n}
    BY <2>2, BlockSpan
  <2> QED BY <2>1, <2>2, <2>3
<1>6. ASSUME NEW o \in held, NEW a \in held, Num(o) = Num(a) PROVE o = a
  <2>1. o[1] = a[1] /\ o[2] = a[2]
    BY <1>3, <1>6, ObjectNumber
  <2>2. o = <<o[1], o[2]>> /\ a = <<a[1], a[2]>>
    BY <1>3, Objects
  <2> QED BY <2>1, <2>2
<1>7. ASSUME NEW o \in held, NEW b \in blocks PROVE Num(o) \notin Span(b) /\ o[1] # b[1]
  <2>1. PICK p, q : p = o[1] /\ q = b[1]
    OBVIOUS
  <2>2. p \in Page /\ q \in Page /\ p # q /\ lev[p] # -1 /\ lev[q] # -1 /\ b = <<q, lev[q]>>
    BY <1>3, <1>4, <2>1
  <2>3. PagesOf(<<p, lev[p]>>) \intersect PagesOf(<<q, lev[q]>>) = {}
    BY <1>2, <2>2, BlocksApart
  <2>4. p \in PagesOf(<<p, lev[p]>>)
    BY <1>2, <2>2, HeadFacts
  <2>5. Num(o) \div MaxObject = p
    BY <1>3, <2>1, ObjectNumber
  <2> QED BY <1>5, <2>1, <2>2, <2>3, <2>4, <2>5
<1>8. ASSUME NEW b \in blocks, NEW c \in blocks, b # c
      PROVE  Span(b) \intersect Span(c) = {} /\ b[1] # c[1]
  <2>1. b[1] # c[1]
    BY <1>4, <1>8
  <2>2. PICK p, q : p = b[1] /\ q = c[1]
    OBVIOUS
  <2>3. /\ p \in Page /\ q \in Page /\ p # q /\ lev[p] # -1 /\ lev[q] # -1
        /\ b = <<p, lev[p]>> /\ c = <<q, lev[q]>>
    BY <1>4, <2>1, <2>2
  <2>4. PagesOf(<<p, lev[p]>>) \intersect PagesOf(<<q, lev[q]>>) = {}
    BY <1>2, <2>3, BlocksApart
  <2> QED BY <1>5, <2>1, <2>3, <2>4
<1> QED BY <1>3, <1>5, <1>6, <1>7, <1>8, ObjectNumber DEF GivenApart

(* The allocator's view of a step.                                         *)
LEMMA GivesObject ==
  ASSUME GivenApart, GivenApart', NEW o, o \in Object, o \notin held,
         held' = held \union {o}, blocks' = blocks
  PROVE  Memory!Next
<1>1. PICK n : n = Num(o)
  OBVIOUS
<1>2. n \in Cells /\ n \in Int
  <2>1. n \in Cells
    BY <1>1, ObjectNumber
  <2> QED BY <2>1 DEF Cells
<1>3. GivenOut' = GivenOut \union {{n}}
  <2>1. {{Num(a)} : a \in held'} = {{Num(a)} : a \in held} \union {{n}}
    BY <1>1
  <2>2. GivenOut' = {{Num(a)} : a \in held'} \union {Span(b) : b \in blocks'}
    BY DEF GivenOut, Num, Span
  <2> QED BY <2>1, <2>2 DEF GivenOut
<1>4. ASSUME NEW X \in GivenOut PROVE n \notin X
  <2>1. CASE X \in {{Num(a)} : a \in held}
    <3>1. PICK a \in held : X = {Num(a)}
      BY <2>1
    <3>2. a \in held' /\ o \in held' /\ a # o
      BY <3>1
    <3>3. \A c, d \in held' : Num(c) = Num(d) => c = d
      BY DEF GivenApart, Num
    <3> QED BY <1>1, <3>1, <3>2, <3>3
  <2>2. CASE X \in {Span(b) : b \in blocks}
    <3>1. PICK b \in blocks : X = Span(b)
      BY <2>2
    <3>2. \A c \in held', d \in blocks' : Num(c) \notin Span(d)
      BY DEF GivenApart, Num, Span
    <3> QED BY <1>1, <3>1, <3>2
  <2> QED BY <2>1, <2>2 DEF GivenOut
<1>5. n .. n + 1 - 1 = {n}
  BY <1>2
<1>6. /\ n .. n + 1 - 1 \subseteq Cells
      /\ \A X \in GivenOut : X \intersect (n .. n + 1 - 1) = {}
      /\ GivenOut' = GivenOut \union {n .. n + 1 - 1}
  BY <1>2, <1>3, <1>4, <1>5
<1>7. Memory!Alloc(n, 1)
  BY <1>6 DEF Memory!Alloc, Memory!Run, GivenOut, Num, Span, Cells
<1> QED BY <1>2, <1>7 DEF Memory!Next, Cells

LEMMA GivesBlock ==
  ASSUME GivenApart, GivenApart', NEW b, b \notin blocks,
         blocks' = blocks \union {b}, held' = held
  PROVE  Memory!Next
<1>1. PICK first, n : first = b[1] * MaxObject /\ n = MaxObject * Size(b[2])
  OBVIOUS
<1>2. /\ Span(b) \subseteq Cells /\ first \in Cells
      /\ Span(b) = first .. first + n - 1 /\ b[2] \in Order
  <2>1. b \in blocks'
    OBVIOUS
  <2>2. \A c \in blocks' :
          /\ Span(c) \subseteq Cells /\ c[1] * MaxObject \in Cells
          /\ Span(c) = c[1] * MaxObject .. c[1] * MaxObject + MaxObject * Size(c[2]) - 1
          /\ c[2] \in Order
    BY DEF GivenApart, Span, Cells
  <2> QED BY <1>1, <2>1, <2>2
<1>3. GivenOut' = GivenOut \union {Span(b)}
  <2>1. {Span(c) : c \in blocks'} = {Span(c) : c \in blocks} \union {Span(b)}
    OBVIOUS
  <2>2. GivenOut' = {{Num(a)} : a \in held'} \union {Span(c) : c \in blocks'}
    BY DEF GivenOut, Num, Span
  <2> QED BY <2>1, <2>2 DEF GivenOut
<1>4. ASSUME NEW X \in GivenOut PROVE X \intersect Span(b) = {}
  <2>1. CASE X \in {{Num(a)} : a \in held}
    <3>1. PICK a \in held : X = {Num(a)}
      BY <2>1
    <3>2. \A c \in held', d \in blocks' : Num(c) \notin Span(d)
      BY DEF GivenApart, Num, Span
    <3> QED BY <3>1, <3>2
  <2>2. CASE X \in {Span(c) : c \in blocks}
    <3>1. PICK c \in blocks : X = Span(c)
      BY <2>2
    <3>2. \A d, e \in blocks' : d # e => Span(d) \intersect Span(e) = {}
      BY DEF GivenApart, Span
    <3> QED BY <3>1, <3>2
  <2> QED BY <2>1, <2>2 DEF GivenOut
<1>5. /\ first .. first + n - 1 \subseteq Cells
      /\ \A X \in GivenOut : X \intersect (first .. first + n - 1) = {}
      /\ GivenOut' = GivenOut \union {first .. first + n - 1}
  BY <1>2, <1>3, <1>4
<1>6. Memory!Alloc(first, n)
  BY <1>5 DEF Memory!Alloc, Memory!Run, GivenOut, Num, Span, Cells
<1>7. n \in {1} \union {MaxObject * Size(l) : l \in Order}
  BY <1>1, <1>2
<1> QED BY <1>2, <1>6, <1>7 DEF Memory!Next, Cells

LEMMA TakesBack ==
  ASSUME NEW X, X \in GivenOut, GivenOut' = GivenOut \ {X}
  PROVE  Memory!Next
<1>1. Memory!Free(X)
  BY DEF Memory!Free, GivenOut, Num, Span
<1>2. X \in {{o[1] * MaxObject + o[2]} : o \in held} \union
            {b[1] * MaxObject .. (b[1] + Size(b[2])) * MaxObject - 1 : b \in blocks}
  BY DEF GivenOut, Num, Span
<1> QED BY <1>1, <1>2 DEF Memory!Next

(* kfree gives back an object or a block, and only that.                   *)
LEMMA KfreeTakesBack ==
  ASSUME GivenApart, NEW addr, kfree(addr), addr \in held \union {<<b[1], 0>> : b \in blocks}
  PROVE  Memory!Next
<1>1. held' = held \ {addr} /\ blocks' = {b \in blocks : <<b[1], 0>> # addr}
  BY DEF kfree
<1>2. GivenOut' = {{Num(a)} : a \in held'} \union {Span(b) : b \in blocks'}
  BY DEF GivenOut, Num, Span
<1>3. /\ \A b \in blocks : Span(b) # {} /\ \A n : Span(b) # {n}
      /\ \A o, a \in held : Num(o) = Num(a) => o = a
      /\ \A o \in held, b \in blocks : o[1] # b[1]
      /\ \A b, c \in blocks : b # c => Span(b) \intersect Span(c) = {} /\ b[1] # c[1]
  BY DEF GivenApart
<1>4. CASE addr \in held
  <2>1. blocks' = blocks
    BY <1>1, <1>3, <1>4
  <2>2. {{Num(a)} : a \in held'} = {{Num(a)} : a \in held} \ {{Num(addr)}}
    <3>1. \A a \in held' : a \in held /\ {Num(a)} # {Num(addr)}
      BY <1>1, <1>3, <1>4
    <3>2. \A a \in held : {Num(a)} # {Num(addr)} => a \in held'
      BY <1>1
    <3> QED BY <3>1, <3>2
  <2>3. \A b \in blocks : Span(b) # {Num(addr)}
    BY <1>3
  <2>4. GivenOut' = GivenOut \ {{Num(addr)}} /\ {Num(addr)} \in GivenOut
    BY <1>2, <1>4, <2>1, <2>2, <2>3 DEF GivenOut
  <2> QED BY <2>4, TakesBack
<1>5. CASE addr \notin held
  <2>1. PICK c \in blocks : addr = <<c[1], 0>>
    BY <1>5
  <2>2. held' = held /\ blocks' = blocks \ {c}
    BY <1>1, <1>3, <1>5, <2>1
  <2>3. {Span(b) : b \in blocks'} = {Span(b) : b \in blocks} \ {Span(c)}
    <3>1. \A b \in blocks' : b \in blocks /\ Span(b) # Span(c)
      BY <1>3, <2>2
    <3>2. \A b \in blocks : Span(b) # Span(c) => b \in blocks'
      BY <2>2
    <3> QED BY <3>1, <3>2
  <2>4. \A a \in held : {Num(a)} # Span(c)
    BY <1>3
  <2>5. GivenOut' = GivenOut \ {Span(c)} /\ Span(c) \in GivenOut
    BY <1>2, <2>2, <2>3, <2>4 DEF GivenOut
  <2> QED BY <2>5, TakesBack
<1> QED BY <1>4, <1>5

(* The page that kmalloc takes was free, so no caller had it.              *)
LEMMA NewBlock ==
  ASSUME SlabInv, NEW l \in Order, Available(links, l) # {}
  PROVE  <<PageTaken(links, l), l>> \notin blocks
<1>1. PICK F, lev : Lists(F, lev)
  BY DEF SlabInv
<1>2. PICK p, k : p = PageTaken(links, l) /\ k = Smallest(Available(links, l))
  OBVIOUS
<1>3. k \in Order /\ p \in F[Free(k)] /\ F \in [Head -> SUBSET Page]
  BY <1>1, <1>2, LowestList DEF Lists, Rings
<1>4. p \in Page /\ flag[p] = 0
  <2>1. p \in Page
    BY <1>3, Nodes
  <2> QED BY <1>1, <1>3, <2>1 DEF Lists, Divided
<1>5. \A b \in blocks : flag[b[1]] = 1
  BY <1>1 DEF Lists
<1> QED BY <1>2, <1>4, <1>5

(* Small objects and blocks together are a page allocator's, on memory     *)
(* counted in objects: what kmalloc gives out lies apart from all that is  *)
(* in use, and kfree takes back just what was given.                       *)
THEOREM SlabImplementsAllocator == Spec => ImplementsAllocator
<1> DEFINE taken == {{o[1] * MaxObject + o[2]} : o \in held} \union
                    {b[1] * MaxObject .. (b[1] + Size(b[2])) * MaxObject - 1 : b \in blocks}
<1>1. Init => Memory!Init
  BY DEF Init, Memory!Init
<1>2. SlabInv /\ GivenApart /\ GivenApart' /\ [Next]_vars => [Memory!Next]_taken
  <2> SUFFICES ASSUME SlabInv, GivenApart, GivenApart', [Next]_vars
               PROVE  Memory!Next \/ taken' = taken
    OBVIOUS
  <2>1. CASE held' = held /\ blocks' = blocks
    BY <2>1
  <2>2. ASSUME NEW l \in Wanted, NEW keep \in BOOLEAN, kmalloc_pages(l, keep),
               Available(links, l) # {}
        PROVE  Memory!Next
    <3>1. l \in Order
      BY SlabAssumption
    <3>2. blocks' = blocks \union {<<PageTaken(links, l), l>>} /\ held' = held
      BY <2>2 DEF kmalloc_pages
    <3> QED BY <2>2, <3>1, <3>2, NewBlock, GivesBlock
  <2>3. CASE TakeObject
    <3>1. request.pc \in {"check", "take"} /\ cpu # NoPage
      <4>1. CpuPage
        BY DEF SlabInv
      <4> QED BY <2>3, <4>1 DEF TakeObject, HasObject, CpuPage
    <3>2. request.object \in Object /\ request.object \notin held
      BY <3>1, CurrentGives
    <3>3. held' = held \union {request.object} /\ blocks' = blocks
      BY <2>3 DEF TakeObject
    <3> QED BY <3>2, <3>3, GivesObject
  <2>4. ASSUME NEW addr \in held \union {<<b[1], 0>> : b \in blocks}, kfree(addr)
        PROVE  Memory!Next
    BY <2>4, KfreeTakesBack
  <2>5. ASSUME NEW l \in Wanted, NEW keep \in BOOLEAN, kmalloc_pages(l, keep),
               Available(links, l) = {}
        PROVE  held' = held /\ blocks' = blocks
    BY <2>5 DEF kmalloc_pages, clientVars
  <2>6. CASE \/ \E keep \in BOOLEAN : kmalloc(keep)
             \/ PartialPage \/ NewPage \/ UNCHANGED vars
    <3>1. held' = held /\ blocks' = blocks
      BY <2>6 DEF kmalloc, PartialPage, NewPage, vars, clientVars
    <3> QED BY <2>1, <3>1
  <2> QED BY <2>1, <2>2, <2>3, <2>4, <2>5, <2>6 DEF Next
<1> QED BY <1>1, <1>2, SlabInductive, ApartHolds, PTL
        DEF Spec, ImplementsAllocator, Memory!Spec
=============================================================================
