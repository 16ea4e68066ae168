---------------------------- MODULE BootMemory ------------------------------
(***************************************************************************)
(* kernel/mm/bootmm.c: a map with one entry per page, and up to MAX_INFO   *)
(* records of what each used stretch is for.  The two say the same thing   *)
(* twice and are changed apart, the map by find_pages and set_maps, the    *)
(* records by insert_mminfo, split_mminfo and remove_mminfo, each of which *)
(* may refuse.  The code keeps addresses, all of them page-aligned; here   *)
(* they are page numbers, and a record ends with its last page.            *)
(***************************************************************************)
EXTENDS Integers, SequencesExt

CONSTANTS MaxPn,     \* bmm.max_pn
          KernelPn,  \* the pages of the kernel, the first of the map
          MAX_INFO,  \* the records there is room for
          Type,      \* enum mm_usage, as far as it is asked for
          Kernel,    \* _MM_KERNEL
          Counts,    \* the sizes of requests, in pages
          Aligns,    \* their alignments, in pages
          MaxLate    \* the calls an instance has after a record was refused

ASSUME BootAssumption ==
  /\ MaxPn \in Nat /\ KernelPn \in 1 .. MaxPn - 1 /\ MAX_INFO \in Nat \ {0}
  /\ Kernel \in Type
  /\ Counts \subseteq Nat \ {0} /\ Aligns \subseteq Nat \ {0}
  /\ MaxLate \in Nat

VARIABLES bmm,    \* the used pages of s_map, last_alloc, and info[0 .. count - 1]
          held,   \* what the callers have, as first page and length
          late,   \* 0 as long as no record was refused for want of room, then
                  \* 1 and the calls since
          mode    \* "running", or "lost" in split_mminfo's loop

vars == <<bmm, held, late, mode>>

Counted(refused) == late' = IF refused \/ late > 0 THEN late + 1 ELSE 0

Page == 0 .. MaxPn - 1
Run(p, n) == p .. p + n - 1
Extent(r) == r.start .. r.end
Record == [start : Page, end : Page, type : Type]

-----------------------------------------------------------------------------
(* The records *)

\* The record i is of the new segment's type and ends just before it; what
\* follows it does not stand in the way of an extension.
ExtendsUp(info, i, r) ==
  /\ info[i].type = r.type /\ info[i].end = r.start - 1
  /\ i < Len(info) => info[i + 1].type # r.type \/ info[i + 1].start = r.end + 1

ExtendsDown(info, i, r) == info[i].type = r.type /\ info[i].start = r.end + 1

Joining(info, r) ==
  {i \in DOMAIN info : ExtendsUp(info, i, r) \/ ExtendsDown(info, i, r)}

Insertable(info, r) == Joining(info, r) # {} \/ Len(info) < MAX_INFO

\* A bridge that forgets the segment it closed the gap to.
JoinedShort(info, i, r) ==
  IF ExtendsUp(info, i, r)
    THEN IF i < Len(info) /\ info[i + 1].type = r.type
           THEN RemoveAt([info EXCEPT ![i].end = r.end], i + 1)
           ELSE [info EXCEPT ![i].end = r.end]
    ELSE [info EXCEPT ![i].start = r.start]

Joined(info, i, r) ==
  IF ExtendsUp(info, i, r)
    THEN IF i < Len(info) /\ info[i + 1].type = r.type
           THEN RemoveAt([info EXCEPT ![i].end = info[i + 1].end], i + 1)
           ELSE [info EXCEPT ![i].end = r.end]
    ELSE [info EXCEPT ![i].start = r.start]

insert_mminfo(info, r) ==
  IF Joining(info, r) = {} THEN Append(info, r) ELSE Joined(info, Min(Joining(info, r)), r)

remove_mminfo(info, i) == IF i \in DOMAIN info THEN RemoveAt(info, i) ELSE info

Splits(info, i, p) == p \in info[i].start + 1 .. info[i].end /\ Len(info) < MAX_INFO

split_mminfo(info, i, p) ==
  IF Splits(info, i, p)
    THEN InsertAt([info EXCEPT ![i].end = p - 1], i + 1, [info[i] EXCEPT !.start = p])
    ELSE info

-----------------------------------------------------------------------------
(* The map *)

\* The first page from i on that is in use, or the bound of the search.
Stop(used, i, e) == Min({e} \union {p \in used : p \in i .. e})

\* The alignment with which a search that met a short run goes on, taken as
\* two pages more.
FoundSkipping(used, n, s, e, a) ==
  LET from[i \in 0 .. 2 * (MaxPn + a)] ==
        IF i >= e THEN 0
        ELSE IF i \in used THEN from[i + 1]
        ELSE IF Stop(used, i, e) - i >= n THEN i
        ELSE from[Stop(used, i, e) + a + 1]
  IN  from[((s + a - 1) \div a) * a]

\* find_pages, as a function of the page it has come to.  The page 0 is the
\* kernel's, so that 0 can stand for a refusal.
Found(used, n, s, e, a) ==
  LET from[i \in 0 .. 2 * (MaxPn + a)] ==
        IF i >= e THEN 0
        ELSE IF i \in used THEN from[i + 1]
        ELSE IF Stop(used, i, e) - i >= n THEN i
        ELSE from[Stop(used, i, e) + a]
  IN  from[((s + a - 1) \div a) * a]

\* A search that is content with one page less.
find_pagesShort(b, n, s, e, a) == Found(b.used, IF n > 1 THEN n - 1 ELSE n, s, e, a)

find_pages(b, n, s, e, a) == Found(b.used, n, s, e, a)

Segment(p, n, t) == [start |-> p, end |-> p + n - 1, type |-> t]

\* One search of bootmm_alloc_pages.  The pages stay marked when there is no
\* room for their record.
Search(b, n, t, s, e, a) ==
  LET p == find_pages(b, n, s, e, a)
      marked == [b EXCEPT !.used = @ \union Run(p, n), !.last_alloc = p + n - 1]
  IN  IF p = 0
        THEN [page |-> 0, bmm |-> b]
      ELSE IF Insertable(b.info, Segment(p, n, t))
        THEN [page |-> p, bmm |-> [marked EXCEPT !.info = insert_mminfo(@, Segment(p, n, t))]]
        ELSE [page |-> 0, bmm |-> marked]

\* What bootmm_alloc_pages answers and leaves: it looks behind the pages
\* handed out last, and then before them.
Answer(b, n, t, a) ==
  LET behind == Search(b, n, t, b.last_alloc + 1, MaxPn, a)
  IN  IF behind.page # 0 THEN behind
      ELSE Search(behind.bmm, n, t, 0, behind.bmm.last_alloc, a)

-----------------------------------------------------------------------------
Init ==
  /\ bmm = [used |-> Run(0, KernelPn), last_alloc |-> KernelPn - 1,
            info |-> <<Segment(0, KernelPn, Kernel)>>]
  /\ held = {} /\ late = 0 /\ mode = "running"

bootmm_alloc_pages(n, t, a) ==
  LET answer == Answer(bmm, n, t, a)
      given == IF answer.page = 0 THEN {} ELSE {<<answer.page, n>>}
      marked == answer.bmm.used \ bmm.used
  IN  /\ mode = "running" /\ late <= MaxLate
      /\ bmm' = answer.bmm
      /\ held' = held \union given
      /\ Counted(marked # UNION {Run(h[1], h[2]) : h \in given})
      /\ UNCHANGED mode

Covering(p, n) == {i \in DOMAIN bmm.info : Run(p, n) \subseteq Extent(bmm.info[i])}

\* set_maps, when it frees.
Cleared(used, p, n) == used \ Run(p, n)

\* No record has all of the pages: they stay used.
FreeUnknown(p, n) ==
  /\ Covering(p, n) = {}
  /\ Counted(FALSE) /\ UNCHANGED <<bmm, mode>>

\* The pages are at an end of their record, or are all of it.
FreeAtEnd(p, n) ==
  /\ Covering(p, n) # {}
  /\ LET i == Min(Covering(p, n))
         r == bmm.info[i]
     IN  /\ r.start = p \/ r.end = p + n - 1
         /\ bmm' = [bmm EXCEPT
                     !.used = Cleared(@, p, n),
                     !.info = IF Extent(r) = Run(p, n) THEN remove_mminfo(@, i)
                              ELSE IF r.start = p THEN [@ EXCEPT ![i].start = p + n]
                              ELSE [@ EXCEPT ![i].end = p - 1]]
  /\ Counted(FALSE) /\ UNCHANGED mode

\* The pages are inside their record, which is split in front of them and
\* behind them; whatever is then the second record is removed.
FreeInside(p, n) ==
  /\ Covering(p, n) # {}
  /\ LET i == Min(Covering(p, n))
         r == bmm.info[i]
         once == split_mminfo(bmm.info, i, p)
     IN  /\ r.start # p /\ r.end # p + n - 1
         /\ i > 1
         /\ bmm' = [bmm EXCEPT
                     !.used = Cleared(@, p, n),
                     !.info = remove_mminfo(IF i + 1 \in DOMAIN once
                                              THEN split_mminfo(once, i + 1, p + n)
                                              ELSE once, i + 1)]
         /\ Counted(Len(bmm.info) + 2 > MAX_INFO)
  /\ UNCHANGED mode

\* The loop over the records behind the first one counts an unsigned number
\* down to zero and on.
FreeInsideFirst(p, n) ==
  /\ Covering(p, n) # {} /\ Min(Covering(p, n)) = 1
  /\ bmm.info[1].start # p /\ bmm.info[1].end # p + n - 1
  /\ IF Splits(bmm.info, 1, p)
       THEN mode' = "lost" /\ Counted(FALSE) /\ UNCHANGED bmm
       ELSE /\ bmm' = [bmm EXCEPT !.used = Cleared(@, p, n), !.info = remove_mminfo(@, 2)]
            /\ Counted(TRUE) /\ UNCHANGED mode

bootmm_free_pages(p, n) ==
  /\ mode = "running" /\ late <= MaxLate
  /\ held' = held \ {<<p, n>>}
  /\ FreeUnknown(p, n) \/ FreeAtEnd(p, n) \/ FreeInside(p, n) \/ FreeInsideFirst(p, n)

Next ==
  \/ \E n \in Counts, t \in Type, a \in Aligns : bootmm_alloc_pages(n, t, a)
  \/ \E h \in held : bootmm_free_pages(h[1], h[2])

Spec == Init /\ [][Next]_vars

-----------------------------------------------------------------------------
(* Properties *)

\* bootmm.h:22, "record each part of memory and its usage": as long as no
\* record was refused, the records are disjoint and cover exactly the pages
\* that the map has as used, which are the kernel's and those handed out and
\* not given back; through extensions, bridges, splits and removals.
RecordsMatchMap ==
  mode = "running" /\ late = 0 =>
    /\ bmm.info \in Seq(Record) /\ Len(bmm.info) <= MAX_INFO
    /\ \A i, j \in DOMAIN bmm.info :
         i # j => Extent(bmm.info[i]) \intersect Extent(bmm.info[j]) = {}
    /\ UNION {Extent(bmm.info[i]) : i \in DOMAIN bmm.info} = bmm.used
    /\ bmm.used = Run(0, KernelPn) \union UNION {Run(h[1], h[2]) : h \in held}

\* bootmm_alloc_pages (bootmm.c:253-270), while there is room for a record:
\* a request without alignment is refused only when every free run of its
\* length has the page last_alloc in it, the one between its two searches.
RefusesOnlyAround ==
  mode = "running" /\ Len(bmm.info) < MAX_INFO =>
    \A n \in Counts, t \in Type :
      Answer(bmm, n, t, 1).page = 0 =>
        \A p \in 1 .. MaxPn - n :
          Run(p, n) \intersect bmm.used = {} => bmm.last_alloc \in Run(p, n)

\* The caller's view: runs of pages that nobody else holds, even when
\* records were refused, removed by mistake or missing.
Allocator == INSTANCE PageAllocator
  WITH Pages <- KernelPn .. MaxPn - 1, Lengths <- Counts,
       taken <- {Run(h[1], h[2]) : h \in held}

ImplementsAllocator == Allocator!Spec
=============================================================================
