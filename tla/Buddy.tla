-------------------------------- MODULE Buddy -------------------------------
(***************************************************************************)
(* The buddy allocator of kernel/mm/buddy.c.  freelist[l] is the list of   *)
(* level l from its head.                                                  *)
(*                                                                         *)
(* lockup and unlock turn interrupts off and on again around one           *)
(* assignment and never wait, so they exclude nobody and are left out.     *)
(* The Shell calls the allocator with interrupts enabled: its calls take   *)
(* one step for what they read and one for what they then write.  do_fork  *)
(* allocates a stack inside a system call: one step.  The list operations  *)
(* are indivisible here.                                                   *)
(***************************************************************************)
EXTENDS Blocks, Sequences, FiniteSets

CONSTANTS
  Wanted,           \* the levels the Shell asks for
  StackOrder,       \* the level of do_fork's kmalloc(8192), 1 in the code
  MaxForks,         \* bound: the stacks of forked processes, never freed
  Interruptible     \* whether a process may fork inside the Shell's calls

ASSUME BuddyAssumption ==
  /\ Wanted \subseteq Order
  /\ StackOrder \in Order
  /\ MaxForks \in Nat
  /\ Interruptible \in BOOLEAN

VARIABLES
  flag,      \* page->flag: 1 on the first page of a block in use
  bplevel,   \* page->bplevel, -1 when the page heads no block
  freelist,  \* buddy.freelist[level].free_head
  count,     \* buddy.freelist[level].count
  booted,    \* the pages init_buddy has handed to __free_pages so far
  held,      \* the blocks the callers hold: <<first page, level>>
  stacks,    \* those of them that do_fork took for a stack
  call       \* where the Shell stands in __alloc_pages or __free_pages

memVars == <<flag, bplevel, freelist, count>>
vars == <<memVars, booted, held, stacks, call>>

UnlinkedNot(p) == freelist

(* list_del_init takes the one node of the page off the list it is on.     *)
Without(list, p) ==
  LET at == {i \in 1..Len(list) : list[i] = p}
      i == CHOOSE i \in at : TRUE
  IN  IF at = {} THEN list
      ELSE SubSeq(list, 1, i - 1) \o SubSeq(list, i + 1, Len(list))

Unlinked(p) == [l \in Order |-> Without(freelist[l], p)]

Pushed(lists, l, p) == [lists EXCEPT ![l] = <<p>> \o @]

Idle == [pc |-> "idle", page |-> 0, level |-> 0, want |-> 0]

-----------------------------------------------------------------------------
(***************************************************************************)
(* __free_pages: as long as the buddy is free and of the same level, take  *)
(* it off its list and go on with the block the two make.                  *)
(***************************************************************************)
BuddyIsFreeUnflagged(p, l) ==
  l < MAX_BUDDY_ORDER /\ bplevel[BuddyOf(p, l)] = l

BuddyIsFreeShort(p, l) ==
  /\ l < MAX_BUDDY_ORDER - 1
  /\ bplevel[BuddyOf(p, l)] = l
  /\ flag[BuddyOf(p, l)] # 1

BuddyIsFree(p, l) ==
  /\ l < MAX_BUDDY_ORDER
  /\ bplevel[BuddyOf(p, l)] = l
  /\ flag[BuddyOf(p, l)] # 1

FreeBegin(p, l) ==
  /\ flag' = [flag EXCEPT ![p] = 0]
  /\ call' = [pc |-> "look", page |-> p, level |-> l, want |-> 0]
  /\ UNCHANGED <<bplevel, freelist, count>>

FreeLook ==
  /\ call.pc = "look"
  /\ call' = [call EXCEPT !.pc = IF BuddyIsFree(call.page, call.level)
                                 THEN "join" ELSE "insert"]
  /\ UNCHANGED <<memVars, booted, held, stacks>>

FreeJoin ==
  LET b == BuddyOf(call.page, call.level)
  IN  /\ call.pc = "join"
      /\ freelist' = Unlinked(b)
      /\ count' = [count EXCEPT ![call.level] = @ - 1]
      /\ bplevel' = [bplevel EXCEPT ![b] = -1]
      /\ call' = [call EXCEPT !.pc = "look", !.page = Lower(call.page, b),
                              !.level = @ + 1]
      /\ UNCHANGED <<flag, booted, held, stacks>>

FreeInsertUncounted ==
  /\ call.pc = "insert"
  /\ bplevel' = [bplevel EXCEPT ![call.page] = call.level]
  /\ freelist' = Pushed(freelist, call.level, call.page)
  /\ call' = Idle
  /\ UNCHANGED <<count, flag, booted, held, stacks>>

FreeInsert ==
  /\ call.pc = "insert"
  /\ bplevel' = [bplevel EXCEPT ![call.page] = call.level]
  /\ freelist' = Pushed(freelist, call.level, call.page)
  /\ count' = [count EXCEPT ![call.level] = @ + 1]
  /\ call' = Idle
  /\ UNCHANGED <<flag, booted, held, stacks>>

(***************************************************************************)
(* __alloc_pages: the head of the first nonempty list from the wanted      *)
(* level upwards; what the block is too large by goes back, half by half.  *)
(***************************************************************************)
FittingAbove(want) == {l \in Order : l > want /\ freelist[l] # <<>>}

Fitting(want) == {l \in Order : l >= want /\ freelist[l] # <<>>}

Lowest(S) == CHOOSE l \in S : \A m \in S : l <= m

TakeBlock(p, order, want) ==
  LET rest == Unlinked(p)
      split == want..order-1
  IN  /\ flag' = [flag EXCEPT ![p] = 1]
      /\ freelist' = [l \in Order |-> IF l \in split
                        THEN <<p + Size(l)>> \o rest[l] ELSE rest[l]]
      /\ count' = [l \in Order |-> IF l \in split THEN count[l] + 1
                                   ELSE IF l = order THEN count[l] - 1
                                   ELSE count[l]]
      /\ bplevel' = [q \in Page |->
           IF q = p THEN want
           ELSE IF \E l \in split : q = p + Size(l)
           THEN CHOOSE l \in split : q = p + Size(l)
           ELSE bplevel[q]]
      /\ held' = held \union {<<p, want>>}

-----------------------------------------------------------------------------
Init ==
  /\ flag = [p \in Page |-> 0]
  /\ bplevel = [p \in Page |-> -1]
  /\ freelist = [l \in Order |-> <<>>]
  /\ count = [l \in Order |-> 0]
  /\ booted = 0
  /\ held = {}
  /\ stacks = {}
  /\ call = Idle

(***************************************************************************)
(* init_buddy hands the pages over one by one.                             *)
(***************************************************************************)
init_buddy ==
  /\ call = Idle /\ booted < NPAGE
  /\ booted' = booted + 1
  /\ FreeBegin(booted, 0)
  /\ UNCHANGED <<held, stacks>>

Running == booted = NPAGE

(***************************************************************************)
(* The Shell: kmalloc of more than 1024 bytes, kfree of what it holds.     *)
(* kmalloc spins when there is no block.                                   *)
(***************************************************************************)
alloc_pages(want) ==
  /\ Running /\ call = Idle
  /\ call' = IF Fitting(want) = {} THEN [Idle EXCEPT !.pc = "stuck"]
             ELSE [pc |-> "take", page |-> Head(freelist[Lowest(Fitting(want))]),
                   level |-> Lowest(Fitting(want)), want |-> want]
  /\ UNCHANGED <<memVars, booted, held, stacks>>

AllocTake ==
  /\ call.pc = "take"
  /\ TakeBlock(call.page, call.level, call.want)
  /\ call' = Idle
  /\ UNCHANGED <<booted, stacks>>

free_pages(b) ==
  /\ Running /\ call = Idle
  /\ flag[b[1]] = 1 /\ bplevel[b[1]] = b[2]
  /\ held' = held \ {b}
  /\ FreeBegin(b[1], b[2])
  /\ UNCHANGED <<booted, stacks>>

(***************************************************************************)
(* do_fork in a handler.                                                   *)
(***************************************************************************)
ForkStack ==
  /\ Running /\ Cardinality(stacks) < MaxForks
  /\ Fitting(StackOrder) # {}
  /\ Interruptible \/ call.pc \in {"idle", "stuck"}
  /\ LET order == Lowest(Fitting(StackOrder))
     IN  TakeBlock(Head(freelist[order]), order, StackOrder)
  /\ stacks' = stacks \union
       {<<Head(freelist[Lowest(Fitting(StackOrder))]), StackOrder>>}
  /\ UNCHANGED <<booted, call>>

Next ==
  \/ init_buddy
  \/ FreeLook
  \/ FreeJoin
  \/ FreeInsert
  \/ \E want \in Wanted : alloc_pages(want)
  \/ AllocTake
  \/ \E b \in held \ stacks : free_pages(b)
  \/ ForkStack

Spec == Init /\ [][Next]_vars

-----------------------------------------------------------------------------
Listed == {b \in Page \X Order : \E i \in 1..Len(freelist[b[2]]) :
                                   freelist[b[2]][i] = b[1]}

InTransit ==
  IF call.pc \in {"look", "join", "insert"} THEN {<<call.page, call.level>>}
  ELSE {}

TypeOK ==
  /\ flag \in [Page -> {0, 1}]
  /\ bplevel \in [Page -> Order \union {-1}]
  /\ freelist \in [Order -> Seq(Page)]
  /\ count \in [Order -> Nat]
  /\ booted \in 0..NPAGE
  /\ held \subseteq Page \X Order
  /\ stacks \subseteq held
  /\ call \in [pc : {"idle", "look", "join", "insert", "take", "stuck"},
               page : Page, level : Order, want : Order]

(* Blocks on the lists, blocks held and the block being freed tile the     *)
(* memory handed over at boot: __free_pages and __alloc_pages neither lose *)
(* a page nor have it twice, and count is the length of its list.          *)
Tiling ==
  LET blocks == Listed \union held \union InTransit
  IN  /\ \A b, c \in blocks : b # c => PagesOf(b) \intersect PagesOf(c) = {}
      /\ UNION {PagesOf(b) : b \in blocks} = 0..booted-1
      /\ \A l \in Order : count[l] = Len(freelist[l])
      /\ \A l \in Order : Cardinality({b \in Listed : b[2] = l}) = count[l]

(* No two buddies stay free side by side: what could be merged has been    *)
(* (the loop of __free_pages stops only where nothing fits).               *)
Coalesced ==
  \A b \in Listed :
    b[2] < MAX_BUDDY_ORDER => <<BuddyOf(b[1], b[2]), b[2]>> \notin Listed

(* __alloc_pages gives up only when no aligned run of free pages is left   *)
(* that would make the block: nothing is refused because of the way the    *)
(* memory was split and merged before.                                     *)
FreePages == UNION {PagesOf(b) : b \in Listed}

RefusesOnlyWhenFull ==
  [][\A want \in Wanted : alloc_pages(want) /\ call'.pc = "stuck" =>
       ~ \E p \in Page : p % Size(want) = 0 /\ PagesOf(<<p, want>>) \subseteq FreePages]_vars

(* Held blocks are a page allocator's.                                     *)
Allocator == INSTANCE PageAllocator WITH
  Pages   <- Page,
  Lengths <- {Size(l) : l \in Order},
  taken   <- {PagesOf(b) : b \in held}

ImplementsAllocator == Allocator!Spec

(* "set the flag to declare that the page is in use": no page is in two    *)
(* blocks that are in use.                                                 *)
InUseOnce ==
  \A b, c \in held : b # c => PagesOf(b) \intersect PagesOf(c) = {}
=============================================================================
