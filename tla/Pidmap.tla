------------------------------- MODULE Pidmap -------------------------------
(***************************************************************************)
(* The process-identifier allocator of kernel/pc/pid.c.                    *)
(*                                                                         *)
(* pid_map.page is the set of identifiers whose bit is set.  nr_free and   *)
(* last_pid are the two counters kept beside it.  alloc_pidmap looks for   *)
(* a clear bit upwards from last_pid + 1 only; free_pidmap tests nothing.  *)
(* PID_MAX_DEFAULT and BITS_PER_PAGE are the same power of two in the      *)
(* code, so that masking with BITS_PER_PAGE_MASK is the remainder by NPID. *)
(*                                                                         *)
(* A system call runs with interrupts off: its calls of the allocator are  *)
(* single steps.  The Shell calls the allocator with interrupts on: every  *)
(* load and every store of a shared word is a step of its own, and what it *)
(* has loaded but not yet stored is in old and count.                      *)
(***************************************************************************)
EXTENDS Integers, FiniteSets

CONSTANTS
  NPID,   \* PID_MAX_DEFAULT = BITS_PER_PAGE
  WORD    \* identifiers whose bits share a word, 32 in the code

ASSUME PidAssumption == NPID \in Nat \ {0} /\ WORD \in Nat \ {0}

VARIABLES
  page,      \* pid_map.page: the identifiers marked as taken
  nr_free,   \* pid_map.nr_free, which wraps around: -1 stands for 2^32 - 1
  last_pid,  \* last_pid: the identifier handed out last, -1 at boot
  old,       \* the word test_and_set_bit or clear_bit has loaded
  count      \* the nr_free that ++ or -- has loaded

pidVars == <<page, nr_free, last_pid, old, count>>

Pid == 0..NPID-1
NoPid == -1

PidTypeOK ==
  /\ page \subseteq Pid
  /\ nr_free \in Int
  /\ last_pid \in Pid
  /\ old \subseteq Pid
  /\ count \in Int

PidMask(p) == p % NPID

(***************************************************************************)
(* The first clear bit at or above offset; NPID when there is none.        *)
(***************************************************************************)
find_next_zero_bit(offset) ==
  LET zero == {p \in Pid \ page : p >= offset}
  IN  IF zero = {} THEN NPID ELSE CHOOSE p \in zero : \A q \in zero : p <= q

(***************************************************************************)
(* The search of alloc_pidmap, and the rest of it as one step: setting the *)
(* bit, which fails when it is set already, and the bookkeeping.           *)
(***************************************************************************)
AllocOffset ==
  IF nr_free = 0 THEN NPID ELSE find_next_zero_bit(PidMask(last_pid + 1))

AllocResult(offset) == IF offset \in Pid \ page THEN offset ELSE NoPid

AllocCommit(offset) ==
  IF offset \in Pid \ page
  THEN /\ page' = page \union {offset}
       /\ nr_free' = nr_free - 1
       /\ last_pid' = offset
       /\ UNCHANGED <<old, count>>
  ELSE UNCHANGED pidVars

free_pidmap_uncounted(p) ==
  page' = page \ {PidMask(p)} /\ UNCHANGED <<nr_free, last_pid, old, count>>

free_pidmap_unmarked(p) ==
  nr_free' = nr_free + 1 /\ UNCHANGED <<page, last_pid, old, count>>

free_pidmap(p) ==
  /\ page' = page \ {PidMask(p)}
  /\ nr_free' = nr_free + 1
  /\ UNCHANGED <<last_pid, old, count>>

(***************************************************************************)
(* The single accesses to memory the Shell's calls are made of.            *)
(***************************************************************************)
Word(p) == {q \in Pid : q \div WORD = p \div WORD}

LoadWord(p) ==
  old' = page \intersect Word(p) /\ UNCHANGED <<page, nr_free, last_pid, count>>

StoreWord(p, bits) ==
  /\ page' = (page \ Word(p)) \union bits
  /\ old' = {}
  /\ UNCHANGED <<nr_free, last_pid, count>>

LoadCount == count' = nr_free /\ UNCHANGED <<page, nr_free, last_pid, old>>

StoreCount(n) ==
  nr_free' = n /\ count' = 0 /\ UNCHANGED <<page, last_pid, old>>

StoreLast(p) == last_pid' = p /\ UNCHANGED <<page, nr_free, old, count>>

(***************************************************************************)
(* The counter never hides a free identifier: alloc_pidmap gives up at     *)
(* once when nr_free is 0, so nr_free must be at least the number of clear *)
(* bits, at every load and store and however often an identifier is        *)
(* released twice.  It is so as long as nobody else runs between the       *)
(* loads and the stores of the Shell's calls.                              *)
(***************************************************************************)
NoHiddenExhaustion == nr_free >= NPID - Cardinality(page)
=============================================================================
