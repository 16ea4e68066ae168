------------------------------ MODULE SlabCache -----------------------------
(***************************************************************************)
(* One cache of kernel/mm/slab.c over the buddy system, kmalloc and kfree. *)
(* A page has a single list entry, page->list, which the free lists of the *)
(* buddy system and the lists of the cache share; so the links are         *)
(* modelled one by one: a node's prev and next.                            *)
(*                                                                         *)
(* Only the Shell allocates small objects: a call of the slab is not       *)
(* interleaved with another, and each turn of its loop is one step here.   *)
(* An address is an object, <<page, index>>; an object's free pointer,     *)
(* cache->offset behind it, is behind[object].                             *)
(***************************************************************************)
EXTENDS Blocks, FiniteSets

CONSTANTS
  MaxObject,   \* objects per page: 3 of 1024 bytes, 341 of 8 in the code
  Wanted       \* the levels of the Shell's larger requests

ASSUME SlabAssumption ==
  /\ MaxObject \in Nat /\ MaxObject > 1
  /\ Wanted \subseteq Order

Object == Page \X (0..MaxObject-1)
Null == <<-1, 0>>         \* the address 0
NoPage == -1

Full == <<"full", 0>>         \* cache->node.full
Partial == <<"partial", 0>>   \* cache->node.partial
Free(l) == <<"free", l>>      \* buddy.freelist[l].free_head
Entry(p) == <<"page", p>>     \* pages[p].list
Node == {Full, Partial} \union {Free(l) : l \in Order}
                        \union {Entry(p) : p \in Page}
Poison == <<"poison", 0>>     \* LIST_POISON1 and LIST_POISON2

VARIABLES
  links,      \* prev and next of every node; ok: no poison was followed
  flag,       \* page->flag
  bplevel,    \* page->bplevel
  count,      \* buddy.freelist[level].count
  reference,  \* page->reference: 1 when the page is formatted for the cache
  nr_objs,    \* page->nr_objs
  freeobj,    \* page->freeobj
  behind,     \* the free pointers
  cpu,        \* cache->cpu.page
  request,    \* slab_alloc's local variables: where it stands, and object
  held,       \* the objects the callers have
  blocks,     \* the blocks they have
  temp        \* what the command under way is going to free, if anything

buddyVars == <<flag, bplevel, count>>
pageVars == <<reference, nr_objs, freeobj, behind>>
clientVars == <<held, blocks, temp>>
vars == <<links, buddyVars, pageVars, cpu, request, clientVars>>

-----------------------------------------------------------------------------
(***************************************************************************)
(* include/zjunix/list.h.  Following a poisoned pointer is an exception,   *)
(* which ends the process that does it.                                    *)
(***************************************************************************)
Insert(L, n, a, b) ==
  IF Poison \in {a, b} THEN [L EXCEPT !.ok = FALSE]
  ELSE [L EXCEPT !.next = [@ EXCEPT ![n] = b, ![a] = n],
                 !.prev = [@ EXCEPT ![n] = a, ![b] = n]]

list_add(L, n, head) == Insert(L, n, head, L.next[head])
list_add_tail(L, n, head) == Insert(L, n, L.prev[head], head)

Joined(L, n) ==
  IF Poison \in {L.prev[n], L.next[n]} THEN [L EXCEPT !.ok = FALSE]
  ELSE [L EXCEPT !.next[L.prev[n]] = L.next[n], !.prev[L.next[n]] = L.prev[n]]

list_del(L, n) ==
  LET J == Joined(L, n)
  IN  [J EXCEPT !.prev[n] = Poison, !.next[n] = Poison]

list_del_initPoisoned(L, n) == list_del(L, n)

list_del_initHalf(L, n) == [L EXCEPT !.prev[n] = n, !.next[n] = n]

list_del_init(L, n) ==
  LET J == Joined(L, n)
  IN  [J EXCEPT !.prev[n] = n, !.next[n] = n]

list_empty(L, head) == L.next[head] = head

-----------------------------------------------------------------------------
(***************************************************************************)
(* The buddy system, a call at a time.                                     *)
(***************************************************************************)
BuddyIsFreeUnflagged(p, l) ==
  l < MAX_BUDDY_ORDER /\ bplevel[BuddyOf(p, l)] = l

BuddyIsFree(p, l) ==
  l < MAX_BUDDY_ORDER /\ bplevel[BuddyOf(p, l)] = l /\ flag[BuddyOf(p, l)] # 1

(* The first page of the block of level l that page p is in.               *)
FirstOf(p, l) == p - (p % Size(l))

(***************************************************************************)
(* __free_pages: merge from level l up to the first level where the buddy  *)
(* is in use or split.                                                     *)
(***************************************************************************)
MergedLevel(p, l) ==
  CHOOSE m \in l..MAX_BUDDY_ORDER :
    /\ \A k \in l..m-1 : BuddyIsFree(FirstOf(p, k), k)
    /\ ~BuddyIsFree(FirstOf(p, m), m)

(* The links after the buddies below level k have left their lists.        *)
Unlinked(L, p, l, top) ==
  LET unlinked[k \in l..top] ==
        IF k = l THEN L
        ELSE list_del_init(unlinked[k-1], Entry(BuddyOf(FirstOf(p, k-1), k-1)))
  IN  unlinked

FreePages(L, p, l) ==
  LET top == MergedLevel(p, l)
      merged == {BuddyOf(FirstOf(p, k), k) : k \in l..top-1}
      first == FirstOf(p, top)
  IN  /\ links' = list_add(Unlinked(L, p, l, top)[top], Entry(first), Free(top))
      /\ flag' = [flag EXCEPT ![p] = 0]
      /\ reference' = [reference EXCEPT ![p] = 0]
      /\ bplevel' = [q \in Page |-> IF q = first THEN top
                                    ELSE IF q \in merged THEN -1 ELSE bplevel[q]]
      /\ count' = [k \in Order |-> IF k = top THEN count[k] + 1
                                   ELSE IF k \in l..top-1 THEN count[k] - 1
                                   ELSE count[k]]

(***************************************************************************)
(* __alloc_pages: the head of the first list that has one, halved down to  *)
(* level l.                                                                *)
(***************************************************************************)
AvailableBelow(L, l) == {k \in l..MAX_BUDDY_ORDER-1 : ~list_empty(L, Free(k))}

Available(L, l) == {k \in l..MAX_BUDDY_ORDER : ~list_empty(L, Free(k))}

Smallest(S) == CHOOSE k \in S : \A j \in S : k <= j

FirstPage(L, head) == CHOOSE p \in Page : Entry(p) = L.next[head]

PageTaken(L, l) == FirstPage(L, Free(Smallest(Available(L, l))))

(* The links after the upper halves down to level j are on their lists.    *)
Halved(L, p, l, k) ==
  LET halved[j \in l..k] ==
        IF j = k THEN list_del_init(L, Entry(p))
        ELSE list_add(halved[j+1], Entry(p + Size(j)), Free(j))
  IN  halved

AllocPages(L, l) ==
  LET k == Smallest(Available(L, l))
      p == PageTaken(L, l)
  IN  /\ links' = Halved(L, p, l, k)[l]
      /\ flag' = [flag EXCEPT ![p] = 1]
      /\ bplevel' = [q \in Page |->
           IF q = p THEN l
           ELSE IF \E j \in l..k-1 : q = p + Size(j)
           THEN CHOOSE j \in l..k-1 : q = p + Size(j)
           ELSE bplevel[q]]
      /\ count' = [j \in Order |-> IF j = k THEN count[j] - 1
                                   ELSE IF j \in l..k-1 THEN count[j] + 1
                                   ELSE count[j]]

-----------------------------------------------------------------------------
(***************************************************************************)
(* After init_buddy, init_slab and init_kmem_node.                         *)
(***************************************************************************)
BootLinks ==
  LET top == Free(MAX_BUDDY_ORDER)
      step == Size(MAX_BUDDY_ORDER)
      last == NPAGE - step
      heads == {p \in Page : p % step = 0}
  IN  [ok |-> TRUE,
       next |-> [n \in Node |->
         IF n = top THEN Entry(last)
         ELSE IF n \in {Entry(p) : p \in heads \ {0}}
         THEN Entry(n[2] - step)
         ELSE IF n = Entry(0) THEN top ELSE n],
       prev |-> [n \in Node |->
         IF n = top THEN Entry(0)
         ELSE IF n \in {Entry(p) : p \in heads \ {last}}
         THEN Entry(n[2] + step)
         ELSE IF n = Entry(last) THEN top ELSE n]]

Idle == [pc |-> "idle", object |-> Null, keep |-> TRUE]

Init ==
  /\ links = BootLinks
  /\ flag = [p \in Page |-> 0]
  /\ bplevel \in {[p \in Page |-> IF p % Size(MAX_BUDDY_ORDER) = 0
                                  THEN MAX_BUDDY_ORDER ELSE -1]}
  /\ count = [l \in Order |-> IF l = MAX_BUDDY_ORDER THEN NBLOCK ELSE 0]
  /\ reference = [p \in Page |-> 0]
  /\ nr_objs = [p \in Page |-> 0]
  /\ freeobj = [p \in Page |-> Null]
  /\ behind = [o \in Object |-> Null]
  /\ cpu = NoPage
  /\ request = Idle
  /\ held = {}
  /\ blocks = {}
  /\ temp = {}

-----------------------------------------------------------------------------
(***************************************************************************)
(* The commands of the Shell keep what they allocate, but for one object   *)
(* or block each may free: cat its buffer, exec the program, mmtest1 the   *)
(* first of two.  Nodes of the file tree are kept, for deleteNode frees    *)
(* only one without a parent; and so are the stacks of forked processes.   *)
(***************************************************************************)
MayAllocate(keep) ==
  /\ links.ok /\ request.pc = "idle"
  /\ keep \/ temp = {}

MayFree(addr) ==
  /\ links.ok /\ request.pc = "idle"
  /\ addr \in temp

Remember(addr, keep) == temp' = IF keep THEN temp ELSE {addr}

(***************************************************************************)
(* kmalloc of more than 1024 bytes.  Without a block it spins.             *)
(***************************************************************************)
kmalloc_pages(l, keep) ==
  /\ MayAllocate(keep)
  /\ IF Available(links, l) = {}
     THEN /\ request' = [Idle EXCEPT !.pc = "stuck"]
          /\ UNCHANGED <<links, buddyVars, clientVars>>
     ELSE /\ AllocPages(links, l)
          /\ blocks' = blocks \union {<<PageTaken(links, l), l>>}
          /\ Remember(<<PageTaken(links, l), 0>>, keep)
          /\ UNCHANGED <<request, held>>
  /\ UNCHANGED <<pageVars, cpu>>

(***************************************************************************)
(* slab_alloc: as long as there is no page to take an object from, put the *)
(* current one on the full list and turn to the first partial page, or to  *)
(* a new one when there is none.                                           *)
(***************************************************************************)
kmalloc(keep) ==
  /\ MayAllocate(keep)
  /\ request' = [pc |-> "check", keep |-> keep,
                 object |-> IF cpu = NoPage THEN Null ELSE freeobj[cpu]]
  /\ UNCHANGED <<links, buddyVars, pageVars, cpu, clientVars>>

HasObject == request.object # Null /\ nr_objs[cpu] < MaxObject

Retired == IF cpu = NoPage THEN links
           ELSE list_add_tail(links, Entry(cpu), Full)

PartialPage ==
  /\ links.ok /\ request.pc = "check" /\ ~HasObject
  /\ ~list_empty(Retired, Partial)
  /\ LET p == FirstPage(Retired, Partial)
     IN  /\ cpu' = p
         /\ links' = list_del(Retired, Entry(p))
         /\ freeobj' = [freeobj EXCEPT ![p] = behind[@]]
         /\ request' = [request EXCEPT !.object = freeobj[p]]
  /\ UNCHANGED <<buddyVars, reference, nr_objs, behind, clientVars>>

(***************************************************************************)
(* format_slabpage chains the objects; the last one's pointer is rounded   *)
(* down to the page, which is the first object.                            *)
(***************************************************************************)
FormattedPast(p) ==
  [o \in Object |-> IF o[1] # p THEN behind[o] ELSE <<p, o[2] + 1>>]

FormattedShort(p) ==
  [o \in Object |-> IF o[1] # p THEN behind[o]
                    ELSE <<p, (o[2] + 1) % (MaxObject - 1)>>]

Formatted(p) ==
  [o \in Object |-> IF o[1] # p THEN behind[o]
                    ELSE <<p, (o[2] + 1) % MaxObject>>]

NewPage ==
  /\ links.ok /\ request.pc = "check" /\ ~HasObject
  /\ list_empty(Retired, Partial)
  /\ IF Available(Retired, 0) = {}
     THEN /\ request' = [request EXCEPT !.pc = "stuck"]
          /\ links' = Retired
          /\ UNCHANGED <<buddyVars, pageVars, cpu>>
     ELSE LET p == PageTaken(Retired, 0)
          IN  /\ AllocPages(Retired, 0)
              /\ behind' = Formatted(p)
              /\ freeobj' = [freeobj EXCEPT ![p] = <<p, 0>>]
              /\ nr_objs' = [nr_objs EXCEPT ![p] = 0]
              /\ reference' = [reference EXCEPT ![p] = 1]
              /\ cpu' = p
              /\ request' = [request EXCEPT !.pc = "take", !.object = <<p, 0>>]
  /\ UNCHANGED clientVars

TakeObject ==
  LET o == request.object
      n == nr_objs[cpu] + 1
  IN  /\ links.ok
      /\ request.pc = "take" \/ (request.pc = "check" /\ HasObject)
      /\ freeobj' = [freeobj EXCEPT ![cpu] = behind[o]]
      /\ nr_objs' = [nr_objs EXCEPT ![cpu] = n]
      /\ IF n >= MaxObject
         THEN /\ links' = list_add_tail(links, Entry(cpu), Full)
              /\ cpu' = NoPage
         ELSE UNCHANGED <<links, cpu>>
      /\ held' = held \union {o}
      /\ Remember(o, request.keep)
      /\ request' = Idle
      /\ UNCHANGED <<buddyVars, reference, behind, blocks>>

-----------------------------------------------------------------------------
(***************************************************************************)
(* kfree: the page's reference tells objects from blocks.                  *)
(***************************************************************************)
slab_free(o) ==
  LET p == o[1]
  IN  /\ behind' = [behind EXCEPT ![o] = freeobj[p]]
      /\ freeobj' = [freeobj EXCEPT ![p] = o]
      /\ nr_objs' = [nr_objs EXCEPT ![p] = @ - 1]
      /\ IF list_empty(links, Entry(p))
         THEN UNCHANGED <<links, buddyVars, reference>>
         ELSE IF nr_objs[p] = 1
         THEN FreePages(links, p, 0)
         ELSE /\ links' = list_add_tail(list_del_init(links, Entry(p)),
                                        Entry(p), Partial)
              /\ UNCHANGED <<buddyVars, reference>>

Spins == /\ request' = [Idle EXCEPT !.pc = "stuck"]
         /\ UNCHANGED <<links, buddyVars, pageVars>>

kfree(addr) ==
  LET p == addr[1]
  IN  /\ MayFree(addr)
      /\ IF reference[p] = 1
         THEN IF nr_objs[p] = 0 THEN Spins
              ELSE slab_free(addr) /\ UNCHANGED request
         ELSE /\ IF flag[p] = 1 THEN FreePages(links, p, bplevel[p])
                 ELSE UNCHANGED <<links, buddyVars, reference>>
              /\ UNCHANGED <<nr_objs, freeobj, behind, request>>
      /\ held' = held \ {addr}
      /\ blocks' = {b \in blocks : <<b[1], 0>> # addr}
      /\ temp' = temp \ {addr}
      /\ UNCHANGED cpu

Next ==
  \/ \E l \in Wanted, keep \in BOOLEAN : kmalloc_pages(l, keep)
  \/ \E keep \in BOOLEAN : kmalloc(keep)
  \/ PartialPage
  \/ NewPage
  \/ TakeObject
  \/ \E addr \in held \union {<<b[1], 0>> : b \in blocks} : kfree(addr)

Spec == Init /\ [][Next]_vars

-----------------------------------------------------------------------------
TypeOK ==
  /\ links \in [ok : BOOLEAN, next : [Node -> Node \union {Poison}],
                prev : [Node -> Node \union {Poison}]]
  /\ flag \in [Page -> {0, 1}]
  /\ bplevel \in [Page -> Order \union {-1}]
  /\ count \in [Order -> Nat]
  /\ reference \in [Page -> {0, 1}]
  /\ nr_objs \in [Page -> 0..MaxObject]
  /\ freeobj \in [Page -> Object \union {Null}]
  /\ behind \in [Object -> Object \union {Null}]
  /\ cpu \in Page \union {NoPage}
  /\ request \in [pc : {"idle", "check", "take", "stuck"},
                  object : Object \union {Null}, keep : BOOLEAN]
  /\ held \subseteq Object
  /\ blocks \subseteq Page \X Order
  /\ temp \subseteq Object /\ Cardinality(temp) <= 1

(* The pages met on the way from a list's head until it comes back.        *)
Met(head) ==
  LET met[n \in 0..NPAGE] ==
        IF n = 0 THEN links.next[head]
        ELSE IF met[n-1] \in {head, Poison} THEN met[n-1]
        ELSE links.next[met[n-1]]
  IN  met

On(head) == LET met == Met(head)
            IN  {p \in Page : \E n \in 0..NPAGE : met[n] = Entry(p)}

(* "partial alloc slab pages": a page on the partial list has objects in   *)
(* use and objects to give (slab_free, slab_alloc).                        *)
PartialArePartial ==
  \A p \in On(Partial) : reference[p] = 1 /\ nr_objs[p] \in 1..MaxObject-1

(* A page is in one place: on the partial list, on the full list or the    *)
(* current page of the cache, on a free list, or with a caller.  The one   *)
(* list entry per page serves all of them (slab_alloc, slab_free,          *)
(* __alloc_pages, __free_pages).                                           *)
PagesInPlace ==
  /\ PartialArePartial
  /\ \A p \in On(Full) : reference[p] = 1 /\ nr_objs[p] = MaxObject
  /\ \A l \in Order : \A p \in On(Free(l)) :
       flag[p] = 0 /\ bplevel[p] = l /\ reference[p] = 0
  /\ On(Partial) \intersect On(Full) = {}
  /\ cpu \notin On(Partial) \union On(Full)
  /\ {p \in Page : reference[p] = 1} =
       On(Partial) \union On(Full) \union ({cpu} \ {NoPage})

(* The objects met on the way from what a page gives next.                 *)
Chain(p) ==
  LET chain[n \in 1..MaxObject] ==
        IF n = 1 THEN freeobj[p] ELSE behind[chain[n-1]]
  IN  chain

(* What a page gives next is what nobody holds: its free chain has as many *)
(* objects as it has left, all different, and the count is right           *)
(* (format_slabpage, slab_alloc and slab_free keep count and chain apart). *)
FreeChains ==
  \A p \in Page : reference[p] = 1 =>
    LET chain == Chain(p)
        left == {chain[n] : n \in 1..MaxObject - nr_objs[p]}
    IN  request.pc = "idle" =>
          /\ left = {<<p, i>> : i \in 0..MaxObject-1} \ held
          /\ Cardinality(left) = MaxObject - nr_objs[p]

(* Small objects and blocks together are a page allocator's, on memory     *)
(* counted in objects: nothing is given out twice, nor as an object and as *)
(* part of a block.                                                        *)
Memory == INSTANCE PageAllocator WITH
  Pages   <- 0..NPAGE * MaxObject - 1,
  Lengths <- {1} \union {MaxObject * Size(l) : l \in Order},
  taken   <- {{o[1] * MaxObject + o[2]} : o \in held} \union
             {b[1] * MaxObject .. (b[1] + Size(b[2])) * MaxObject - 1 : b \in blocks}

ImplementsAllocator == Memory!Spec

(* No poisoned link is followed: list_del is used for a page that is soon  *)
(* on a list again (slab_alloc's partial page).                            *)
NeverFaults == links.ok

(* kmalloc spins for want of memory only when there is none: no page of    *)
(* the cache has an object left and no page is free.                       *)
SpinsOnlyWhenFull ==
  [][request.pc = "check" /\ request'.pc = "stuck" =>
       /\ \A l \in Order : On(Free(l)) = {}
       /\ \A p \in Page : reference[p] = 1 => nr_objs[p] = MaxObject]_vars
=============================================================================
