----------------------------- MODULE BlockCache -----------------------------
(***************************************************************************)
(* The block cache of kernel/fs/fscache/fscache.c, as the data_buf of an   *)
(* open file: a few buffers, replaced by the clock algorithm, written back *)
(* when they are replaced and when the file is closed.                     *)
(*                                                                         *)
(* Only the Shell works on files, so a call is one step.  An access of the *)
(* card moves a block's sectors one after another and stops at the first   *)
(* that fails, which keeps its content.                                    *)
(***************************************************************************)
EXTENDS Integers

CONSTANTS
  NBUF,        \* how many buffers: 4 for files and directories, 2 for the FAT
  NBLOCK,      \* blocks in the data area of the partition
  NSECTOR,     \* sectors per block: 8 for files, 1 for directories
  Base,        \* fat_info.base_addr, in blocks
  Value,       \* what a sector may hold
  Zero,
  ReadFails,   \* at which sector of a block reading may fail
  WriteFails   \* and writing

Buffer == 0..NBUF-1
Block == 0..NBLOCK-1
Sector == 1..NSECTOR
Address == 0..Base+NBLOCK-1
None == -1     \* 0xffffffff

ASSUME CacheAssumption ==
  /\ {NBUF, NBLOCK, NSECTOR} \subseteq Nat \ {0}
  /\ Base \in Nat
  /\ Zero \in Value
  /\ ReadFails \subseteq Sector /\ WriteFails \subseteq Sector

VARIABLES
  disk,        \* the card, by absolute address
  buf,         \* data, cur, and the bits of state: ref (1) and dirty (2)
  clock_head,
  chain        \* the blocks of the file

vars == <<disk, buf, clock_head, chain>>

Blank == [s \in Sector |-> Zero]

-----------------------------------------------------------------------------
(***************************************************************************)
(* fs_victim_4k.  Sweep 1 looks for a buffer neither referenced nor dirty  *)
(* and clears the reference bits it passes, sweep 2 for a clean one; when  *)
(* all are dirty it is the one under the hand.                             *)
(***************************************************************************)
AfterUnwrapped(i) == i + 1

After(i) == (i + 1) % NBUF

Turn(i) == (i - clock_head) % NBUF

Earliest(S) == CHOOSE i \in S : \A j \in S : Turn(i) <= Turn(j)

IdleDirty == {i \in Buffer : ~buf[i].ref}

Idle == {i \in Buffer : ~buf[i].ref /\ ~buf[i].dirty}

Clean == {i \in Buffer : ~buf[i].dirty}

fs_victim ==
  IF Idle # {} THEN Earliest(Idle)
  ELSE IF Clean # {} THEN Earliest(Clean)
  ELSE clock_head

Swept == [i \in Buffer |->
  IF Idle = {} \/ Turn(i) < Turn(fs_victim) THEN [buf[i] EXCEPT !.ref = FALSE]
  ELSE buf[i]]

-----------------------------------------------------------------------------
(***************************************************************************)
(* write_block of a buffer's first n sectors.                              *)
(***************************************************************************)
Stored(d, i, n) ==
  [d EXCEPT ![buf[i].cur] = [s \in Sector |-> IF s <= n THEN buf[i].data[s]
                                              ELSE @[s]]]

(***************************************************************************)
(* fs_write_4k of the victim, and by fs_close of every buffer in turn.      *)
(***************************************************************************)
NeedsWrite(i) == buf[i].cur # None /\ buf[i].dirty

WrittenBackNot(i) == disk

WrittenBack(i) == IF NeedsWrite(i) THEN Stored(disk, i, NSECTOR) ELSE disk

VictimFails ==
  /\ \E s \in WriteFails :
       NeedsWrite(fs_victim) /\ disk' = Stored(disk, fs_victim, s - 1)
  /\ buf' = Swept
  /\ clock_head' = After(fs_victim)
  /\ UNCHANGED chain

Last(S) == CHOOSE i \in S : \A j \in S : j <= i

WrittenBelow(n) == [a \in Address |->
  LET dirty == {i \in Buffer : i < n /\ NeedsWrite(i) /\ buf[i].cur = a}
  IN  IF dirty = {} THEN disk[a] ELSE buf[Last(dirty)].data]

CleanBelow(n) == [i \in Buffer |->
  IF i < n /\ NeedsWrite(i) THEN [buf[i] EXCEPT !.dirty = FALSE] ELSE buf[i]]

WriteBuffers ==
  /\ \/ disk' = WrittenBelow(NBUF) /\ buf' = CleanBelow(NBUF)
     \/ \E i \in Buffer, s \in WriteFails :
          /\ NeedsWrite(i)
          /\ disk' = Stored(WrittenBelow(i), i, s - 1)
          /\ buf' = CleanBelow(i)
  /\ UNCHANGED <<clock_head, chain>>

-----------------------------------------------------------------------------
(***************************************************************************)
(* fs_read_4k.                                                             *)
(***************************************************************************)
FoundShort(a) == {i \in 0..NBUF-2 : buf[i].cur = a}

Found(a) == {i \in Buffer : buf[i].cur = a}

First(S) == CHOOSE i \in S : \A j \in S : i <= j

Filled(i, a, data) == [Swept EXCEPT ![i] =
  [data |-> data, cur |-> a, ref |-> TRUE, dirty |-> FALSE]]

Miss(a) ==
  /\ disk' = WrittenBack(fs_victim)
  /\ buf' = Filled(fs_victim, a, disk[a])
  /\ clock_head' = After(fs_victim)
  /\ UNCHANGED chain

(* A read that fails leaves the sectors it got in the victim's buffer.     *)
MissFails(a) ==
  /\ disk' = WrittenBack(fs_victim)
  /\ \E n \in ReadFails :
       buf' = [Swept EXCEPT ![fs_victim] =
         [data |-> [s \in Sector |-> IF s < n THEN disk[a][s] ELSE @.data[s]],
          cur |-> @.cur, ref |-> @.ref, dirty |-> FALSE]]
  /\ clock_head' = After(fs_victim)
  /\ UNCHANGED chain

Hit(a) ==
  /\ buf' = [buf EXCEPT ![First(Found(a))].ref = TRUE]
  /\ UNCHANGED <<disk, clock_head, chain>>

fs_read(b) ==
  LET a == b + Base
  IN  IF Found(a) # {} THEN Hit(a)
      ELSE VictimFails \/ Miss(a) \/ MissFails(a)

(***************************************************************************)
(* One turn of fs_write's loop: fs_read_4k and the bytes it changes.       *)
(***************************************************************************)
Changed(B, i, s, v) == [B EXCEPT ![i] =
  [data |-> [@.data EXCEPT ![s] = v], cur |-> @.cur, ref |-> TRUE, dirty |-> TRUE]]

fs_write(b, s, v) ==
  LET a == b + Base
  IN  IF Found(a) # {}
      THEN /\ buf' = Changed(buf, First(Found(a)), s, v)
           /\ UNCHANGED <<disk, clock_head, chain>>
      ELSE \/ VictimFails
           \/ MissFails(a)
           \/ /\ disk' = WrittenBack(fs_victim)
              /\ buf' = Changed(Filled(fs_victim, a, disk[a]), fs_victim, s, v)
              /\ clock_head' = After(fs_victim)
              /\ UNCHANGED chain

(***************************************************************************)
(* A new block: fs_alloc erases it on the card, fs_clr_4k takes a buffer   *)
(* for it.  Neither adds base_addr.                                        *)
(***************************************************************************)
ErasedNot(b, n) == disk

Erased(b, n) == [disk EXCEPT ![b] = [s \in Sector |-> IF s <= n THEN Zero ELSE @[s]]]

EraseFails(b) ==
  /\ \E s \in WriteFails : disk' = Erased(b, s - 1)
  /\ UNCHANGED <<buf, clock_head, chain>>

fs_clr(b) ==
  LET i == fs_victim
      erased == Erased(b, NSECTOR)
  IN  /\ \/ /\ disk' = IF NeedsWrite(i) THEN Stored(erased, i, NSECTOR) ELSE erased
            /\ buf' = [Swept EXCEPT ![i] =
                 [data |-> Blank, cur |-> b, ref |-> FALSE, dirty |-> FALSE]]
         \/ /\ NeedsWrite(i)
            /\ \E s \in WriteFails : disk' = Stored(erased, i, s - 1)
            /\ buf' = Swept
      /\ clock_head' = After(i)
      /\ chain' = chain \union {b}

-----------------------------------------------------------------------------
(***************************************************************************)
(* After fs_open, for a file with or without blocks.                       *)
(***************************************************************************)
Init ==
  /\ disk \in [Address -> {[s \in Sector |-> v] : v \in Value}]
  /\ buf = [i \in Buffer |-> [data |-> Blank, cur |-> None, ref |-> FALSE, dirty |-> FALSE]]
  /\ clock_head = 0
  /\ chain \in SUBSET Block

Next ==
  \/ \E b \in chain : fs_read(b)
  \/ \E b \in chain, s \in Sector, v \in Value : fs_write(b, s, v)
  \/ \E b \in Block \ chain : EraseFails(b) \/ fs_clr(b)
  \/ WriteBuffers

Spec == Init /\ [][Next]_vars

-----------------------------------------------------------------------------
Content == [Sector -> Value]

BUF == [data : Content, cur : Address \union {None}, ref : BOOLEAN, dirty : BOOLEAN]

TypeOK ==
  /\ disk \in [Address -> Content]
  /\ buf \in [Buffer -> BUF]
  /\ clock_head \in Buffer
  /\ chain \in SUBSET Block

(* No block is in two buffers, or a change to one would be lost when the   *)
(* other is written back (the search of fs_read_4k, fs_clr_4k's new entry).*)
OneCopy ==
  \A i, j \in Buffer : buf[i].cur = buf[j].cur /\ buf[i].cur # None => i = j

(* A buffer that is not dirty holds what the card holds: it may be dropped *)
(* (fs_write_4k clears the bit only after the card took all sectors).  Not *)
(* so after a read that stopped at a later sector than the first.          *)
CleanIsStored ==
  \A i \in Buffer :
    buf[i].cur # None /\ ~buf[i].dirty => buf[i].data = disk[buf[i].cur]

(* The clock spares what was used since the hand passed and what would     *)
(* cost a write: a referenced buffer goes only if all others are in use or *)
(* dirty, a dirty one only if all are (fs_victim_4k's two sweeps).         *)
VictimIsCheapest ==
  [][\A i \in Buffer : buf'[i].cur # buf[i].cur =>
       /\ buf[i].ref \/ buf[i].dirty => Idle = {}
       /\ buf[i].dirty => Clean = {}]_vars

(* To the file the buffers and the card are one: a block reads back as     *)
(* written through replacement, write-backs that stop at any sector and    *)
(* reads that fail at once ("if not in buffer, find victim & replace"),    *)
(* and a new block is empty and takes nothing from the others.  A read     *)
(* that stops at a later sector, and a partition, make it false.           *)
View(b) == IF Found(b + Base) # {} THEN buf[First(Found(b + Base))].data
           ELSE disk[b + Base]

File == INSTANCE FileBlocks WITH content <- [b \in chain |-> View(b)]

ReadsBack == File!Spec
=============================================================================
