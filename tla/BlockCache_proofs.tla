-------------------------- MODULE BlockCache_proofs -------------------------
(***************************************************************************)
(* Theorems about the block cache, for every number of buffers, blocks and *)
(* sectors: its types and the choice of the victim on any card; that a     *)
(* block has one copy on a card without a partition table, whatever fails; *)
(* the rest when, moreover, a read fails at the first sector of the block  *)
(* or not at all.  Writes may fail at any sector throughout.               *)
(***************************************************************************)
EXTENDS BlockCache, NatLemmas

Unpartitioned == Base = 0

PlainCard == Base = 0 /\ ReadFails \subseteq {1}

(***************************************************************************)
(* OneCopy is not inductive: fs_clr files a block in a buffer without      *)
(* looking for it in the others.  It must be a new one, so no buffer holds *)
(* what is not the file's.                                                 *)
(***************************************************************************)
OwnBlocks == \A i \in Buffer : buf[i].cur \in chain \union {None}

CacheInv == TypeOK /\ OneCopy /\ CleanIsStored /\ OwnBlocks

-----------------------------------------------------------------------------
LEMMA Ranges ==
  /\ Block \subseteq Nat
  /\ PlainCard => Address = Block
  /\ None \notin Block
  /\ Zero \in Value
  /\ Blank \in Content
BY CacheAssumption DEF Block, Address, None, PlainCard, Blank, Content

LEMMA EarliestIn ==
  ASSUME clock_head \in Buffer, NEW S \in SUBSET Buffer, S # {}
  PROVE  Earliest(S) \in S
<1> USE CacheAssumption
<1>1. \A i \in S : Turn(i) \in Nat
  BY DEF Turn, Buffer
<1> DEFINE f == [i \in S |-> Turn(i)]
<1>2. \E i \in S : \A j \in S : f[i] <= f[j]
  <2>1. f \in [S -> Nat]
    BY <1>1
  <2> HIDE DEF f
  <2> QED BY <2>1, LeastMeasure
<1>3. \E i \in S : \A j \in S : Turn(i) <= Turn(j)
  BY <1>2
<1> QED BY <1>3 DEF Earliest

(* fs_victim_4k returns a buffer, and the hand stays on one.               *)
LEMMA VictimType ==
  ASSUME clock_head \in Buffer
  PROVE  fs_victim \in Buffer /\ After(fs_victim) \in Buffer
<1>1. Idle \in SUBSET Buffer /\ Clean \in SUBSET Buffer
  BY DEF Idle, Clean
<1>2. fs_victim \in Buffer
  BY <1>1, EarliestIn DEF fs_victim
<1>3. After(fs_victim) \in Buffer
  BY <1>2, CacheAssumption DEF After, Buffer
<1> QED BY <1>2, <1>3

(* The sweeps change reference bits and nothing else.                      *)
LEMMA SweptKeeps ==
  ASSUME TypeOK
  PROVE  /\ Swept \in [Buffer -> BUF]
         /\ \A i \in Buffer : /\ Swept[i].cur = buf[i].cur
                              /\ Swept[i].data = buf[i].data
                              /\ Swept[i].dirty = buf[i].dirty
<1>1. \A i \in Buffer : buf[i] \in BUF
  BY DEF TypeOK
<1>2. \A i \in Buffer : [buf[i] EXCEPT !.ref = FALSE] \in BUF
  BY <1>1 DEF BUF
<1> QED BY <1>1, <1>2 DEF Swept, BUF

-----------------------------------------------------------------------------
(***************************************************************************)
(* What a write-back leaves true.  Matches(d, B) is CleanIsStored of a     *)
(* card d and buffers B.                                                   *)
(***************************************************************************)
Matches(d, B) ==
  \A i \in Buffer : B[i].cur # None /\ ~B[i].dirty => B[i].data = d[B[i].cur]

(* Writing a dirty buffer, in whole or in part, changes its block alone.   *)
LEMMA StoredKeeps ==
  ASSUME TypeOK,
         NEW d \in [Address -> Content], NEW i \in Buffer, NEW n,
         NeedsWrite(i)
  PROVE  /\ Stored(d, i, n) \in [Address -> Content]
         /\ \A a \in Address : a # buf[i].cur => Stored(d, i, n)[a] = d[a]
         /\ n = NSECTOR => Stored(d, i, n)[buf[i].cur] = buf[i].data
<1>1. buf[i] \in BUF /\ buf[i].cur \in Address /\ buf[i].data \in Content
  BY DEF TypeOK, BUF, NeedsWrite
<1> DEFINE c == [s \in Sector |-> IF s <= n THEN buf[i].data[s]
                                  ELSE d[buf[i].cur][s]]
<1>2. Stored(d, i, n) = [d EXCEPT ![buf[i].cur] = c]
  BY DEF Stored
<1>3. c \in Content
  <2>1. d[buf[i].cur] \in Content
    BY <1>1
  <2> QED BY <1>1, <2>1 DEF Content
<1>4. n = NSECTOR => c = buf[i].data
  BY <1>1, CacheAssumption DEF Content, Sector
<1> HIDE DEF c
<1> QED BY <1>1, <1>2, <1>3, <1>4

LEMMA WrittenBackKeeps ==
  ASSUME CacheInv, NEW i \in Buffer
  PROVE  /\ WrittenBack(i) \in [Address -> Content]
         /\ \A a \in Address : a # buf[i].cur => WrittenBack(i)[a] = disk[a]
         /\ buf[i].cur # None => WrittenBack(i)[buf[i].cur] = buf[i].data
<1>1. CASE NeedsWrite(i)
  BY <1>1, StoredKeeps DEF CacheInv, TypeOK, WrittenBack
<1>2. CASE ~NeedsWrite(i)
  BY <1>2 DEF CacheInv, TypeOK, CleanIsStored, WrittenBack, NeedsWrite
<1> QED BY <1>1, <1>2

-----------------------------------------------------------------------------
(***************************************************************************)
(* The invariant as a predicate of the card, the buffers and the file's    *)
(* blocks after a step.                                                    *)
(***************************************************************************)
Consistent(d, B, c) ==
  /\ d \in [Address -> Content]
  /\ B \in [Buffer -> BUF]
  /\ \A i, j \in Buffer : B[i].cur = B[j].cur /\ B[i].cur # None => i = j
  /\ Matches(d, B)
  /\ \A i \in Buffer : B[i].cur \in c \union {None}

LEMMA InvIsConsistent ==
  CacheInv <=> /\ Consistent(disk, buf, chain)
               /\ clock_head \in Buffer /\ chain \in SUBSET Block
BY DEF CacheInv, TypeOK, OneCopy, CleanIsStored, OwnBlocks, Consistent, Matches

LEMMA InvAfter ==
  ASSUME Consistent(disk', buf', chain'),
         clock_head' \in Buffer, chain' \in SUBSET Block
  PROVE  CacheInv'
BY DEF CacheInv, TypeOK, OneCopy, CleanIsStored, OwnBlocks, Consistent, Matches

(* A buffer gets a block that no other one holds.                          *)
LEMMA Replaced ==
  ASSUME CacheInv, NEW v \in Buffer, NEW r \in BUF, NEW c \in SUBSET Block,
         chain \subseteq c, r.cur \in c,
         \A i \in Buffer : i # v => buf[i].cur # r.cur,
         NEW d \in [Address -> Content],
         \A i \in Buffer : i # v /\ buf[i].cur # None => d[buf[i].cur] = disk[buf[i].cur],
         ~r.dirty => r.data = d[r.cur]
  PROVE  Consistent(d, [Swept EXCEPT ![v] = r], c)
<1> DEFINE B == [Swept EXCEPT ![v] = r]
<1>1. Swept \in [Buffer -> BUF] /\ B \in [Buffer -> BUF] /\ B[v] = r
  BY SweptKeeps DEF CacheInv
<1>2. \A i \in Buffer : i # v => /\ B[i].cur = buf[i].cur
                                 /\ B[i].data = buf[i].data
                                 /\ B[i].dirty = buf[i].dirty
  BY <1>1, SweptKeeps DEF CacheInv
<1>3. \A i \in Buffer : B[i].cur \in c \union {None}
  BY <1>1, <1>2 DEF CacheInv, OwnBlocks
<1>4. \A i, j \in Buffer : B[i].cur = B[j].cur /\ B[i].cur # None => i = j
  BY <1>1, <1>2 DEF CacheInv, OneCopy
<1>5. Matches(d, B)
  BY <1>1, <1>2 DEF CacheInv, CleanIsStored, Matches
<1> QED BY <1>1, <1>3, <1>4, <1>5 DEF Consistent

(* The buffers keep what they hold, and the card keeps what is clean.      *)
LEMMA Retained ==
  ASSUME CacheInv, NEW B \in [Buffer -> BUF], NEW c \in SUBSET Block,
         chain \subseteq c,
         \A i \in Buffer : B[i].cur = buf[i].cur,
         NEW d \in [Address -> Content], Matches(d, B)
  PROVE  Consistent(d, B, c)
BY DEF CacheInv, OneCopy, OwnBlocks, Consistent

-----------------------------------------------------------------------------
(***************************************************************************)
(* One lemma per operation.                                                *)
(***************************************************************************)
LEMMA HitKeeps ==
  ASSUME CacheInv, NEW a, Found(a) # {}, Hit(a)
  PROVE  CacheInv'
<1> DEFINE i == First(Found(a))
<1>1. buf' = [buf EXCEPT ![i].ref = TRUE] /\ UNCHANGED <<disk, clock_head, chain>>
  BY DEF Hit
<1> HIDE DEF i
<1>2. \A j \in Buffer : buf[j] \in BUF /\ [buf[j] EXCEPT !.ref = TRUE] \in BUF
  BY DEF CacheInv, TypeOK, BUF
<1>3. /\ buf' \in [Buffer -> BUF]
      /\ \A j \in Buffer : /\ buf'[j].cur = buf[j].cur
                           /\ buf'[j].data = buf[j].data
                           /\ buf'[j].dirty = buf[j].dirty
  BY <1>1, <1>2 DEF CacheInv, TypeOK, BUF
<1> HIDE DEF CacheInv
<1>4. Consistent(disk, buf', chain)
  BY <1>3, Retained, InvIsConsistent DEF Consistent, Matches
<1> QED BY <1>1, <1>4, InvIsConsistent, InvAfter

(* A changed buffer is dirty, and keeps its block.                         *)
LEMMA ChangedHitKeeps ==
  ASSUME CacheInv, NEW i \in Buffer, NEW s \in Sector, NEW v \in Value,
         buf' = Changed(buf, i, s, v), UNCHANGED <<disk, clock_head, chain>>
  PROVE  CacheInv'
<1>1. buf[i] \in BUF
  BY DEF CacheInv, TypeOK
<1> DEFINE r == [data |-> [buf[i].data EXCEPT ![s] = v], cur |-> buf[i].cur,
                 ref |-> TRUE, dirty |-> TRUE]
<1>2. r \in BUF
  BY <1>1 DEF BUF, Content
<1>3. buf' = [buf EXCEPT ![i] = r]
  BY <1>1 DEF Changed, CacheInv, TypeOK, BUF
<1>4. buf' \in [Buffer -> BUF] /\ \A j \in Buffer : buf'[j].cur = buf[j].cur
  BY <1>2, <1>3 DEF CacheInv, TypeOK
<1>5. Matches(disk, buf')
  BY <1>2, <1>3 DEF CacheInv, TypeOK, CleanIsStored, Matches
<1>6. Consistent(disk, buf', chain)
  BY <1>4, <1>5, Retained DEF CacheInv, TypeOK
<1> QED BY <1>6, InvAfter DEF CacheInv, TypeOK

(* The victim's write-back stops half-way.                                 *)
LEMMA VictimFailsKeeps ==
  ASSUME CacheInv, VictimFails
  PROVE  CacheInv'
<1>1. fs_victim \in Buffer /\ After(fs_victim) \in Buffer
  BY VictimType DEF CacheInv, TypeOK
<1>2. PICK s \in WriteFails :
        NeedsWrite(fs_victim) /\ disk' = Stored(disk, fs_victim, s - 1)
  BY DEF VictimFails
<1>3. /\ disk' \in [Address -> Content]
      /\ \A a \in Address : a # buf[fs_victim].cur => disk'[a] = disk[a]
  BY <1>1, <1>2, StoredKeeps DEF CacheInv, TypeOK
<1>4. buf' = Swept /\ clock_head' = After(fs_victim) /\ chain' = chain
  BY DEF VictimFails
<1>5. \A i \in Buffer : buf[i].cur # None => buf[i].cur \in Address
  BY DEF CacheInv, TypeOK, BUF
<1>6. Matches(disk', Swept)
  BY <1>1, <1>2, <1>3, <1>5, SweptKeeps
     DEF CacheInv, OneCopy, CleanIsStored, Matches, NeedsWrite
<1>7. Consistent(disk', Swept, chain)
  BY <1>3, <1>6, SweptKeeps, Retained DEF CacheInv, TypeOK
<1> QED BY <1>1, <1>4, <1>7, InvAfter DEF CacheInv, TypeOK

(* The victim is written back and gets block a, read or then changed.      *)
LEMMA FilledKeeps ==
  ASSUME CacheInv, NEW a \in Block, a \in Address, a \in chain, Found(a) = {},
         NEW r \in BUF, r.cur = a, ~r.dirty => r.data = disk[a],
         disk' = WrittenBack(fs_victim),
         buf' = [Swept EXCEPT ![fs_victim] = r],
         clock_head' = After(fs_victim), UNCHANGED chain
  PROVE  CacheInv'
<1>1. fs_victim \in Buffer /\ After(fs_victim) \in Buffer
  BY VictimType DEF CacheInv, TypeOK
<1>2. \A i \in Buffer : buf[i].cur # a
  BY DEF Found
<1>3. /\ disk' \in [Address -> Content]
      /\ \A b \in Address : b # buf[fs_victim].cur => disk'[b] = disk[b]
  BY <1>1, WrittenBackKeeps
<1>4. disk'[a] = disk[a]
  BY <1>1, <1>2, <1>3
<1>5. \A i \in Buffer : buf[i].cur # None => buf[i].cur \in Address
  BY DEF CacheInv, TypeOK, BUF
<1>6. \A i \in Buffer : i # fs_victim /\ buf[i].cur # None =>
                          disk'[buf[i].cur] = disk[buf[i].cur]
  BY <1>1, <1>3, <1>5 DEF CacheInv, OneCopy
<1>7. chain \in SUBSET Block
  BY DEF CacheInv, TypeOK
<1>8. Consistent(disk', [Swept EXCEPT ![fs_victim] = r], chain)
  BY <1>1, <1>2, <1>3, <1>4, <1>6, <1>7, Replaced
<1> QED BY <1>1, <1>7, <1>8, InvAfter

LEMMA MissKeeps ==
  ASSUME CacheInv, NEW a \in Block, a \in Address, a \in chain, Found(a) = {}, Miss(a)
  PROVE  CacheInv'
<1> DEFINE r == [data |-> disk[a], cur |-> a, ref |-> TRUE, dirty |-> FALSE]
<1>1. r \in BUF
  BY DEF CacheInv, TypeOK, BUF
<1>2. buf' = [Swept EXCEPT ![fs_victim] = r]
  BY DEF Miss, Filled
<1> QED BY <1>1, <1>2, FilledKeeps DEF Miss

LEMMA ChangedMissKeeps ==
  ASSUME CacheInv, NEW a \in Block, a \in Address, a \in chain, Found(a) = {},
         NEW s \in Sector, NEW v \in Value,
         disk' = WrittenBack(fs_victim),
         buf' = Changed(Filled(fs_victim, a, disk[a]), fs_victim, s, v),
         clock_head' = After(fs_victim), UNCHANGED chain
  PROVE  CacheInv'
<1> DEFINE r == [data |-> [disk[a] EXCEPT ![s] = v], cur |-> a,
                 ref |-> TRUE, dirty |-> TRUE]
<1>1. disk[a] \in Content
  BY DEF CacheInv, TypeOK
<1>2. r \in BUF
  BY <1>1 DEF BUF, Content
<1>3. fs_victim \in Buffer /\ Swept \in [Buffer -> BUF]
  BY VictimType, SweptKeeps DEF CacheInv, TypeOK
<1>4. buf' = [Swept EXCEPT ![fs_victim] = r]
  BY <1>3 DEF Changed, Filled
<1> HIDE DEF r
<1> QED BY <1>2, <1>4, FilledKeeps DEF r

(* A read that fails at the first sector leaves the victim as written.     *)
LEMMA MissFailsKeeps ==
  ASSUME PlainCard, CacheInv, NEW a, MissFails(a)
  PROVE  CacheInv'
<1> DEFINE v == fs_victim
<1>1. v \in Buffer /\ After(v) \in Buffer
  BY VictimType DEF CacheInv, TypeOK
<1>2. Swept \in [Buffer -> BUF]
  BY SweptKeeps DEF CacheInv
<1>3. PICK n \in ReadFails :
        buf' = [Swept EXCEPT ![v] =
          [data |-> [s \in Sector |-> IF s < n THEN disk[a][s] ELSE @.data[s]],
           cur |-> @.cur, ref |-> @.ref, dirty |-> FALSE]]
  BY DEF MissFails
<1>4. n = 1
  BY DEF PlainCard
<1> DEFINE r == [data |-> Swept[v].data, cur |-> Swept[v].cur,
                 ref |-> Swept[v].ref, dirty |-> FALSE]
<1>5. r \in BUF
  BY <1>1, <1>2 DEF BUF
<1>6. [s \in Sector |-> IF s < n THEN disk[a][s] ELSE Swept[v].data[s]] = Swept[v].data
  BY <1>1, <1>2, <1>4, CacheAssumption DEF BUF, Content, Sector
<1>7. buf' = [Swept EXCEPT ![v] = r]
  BY <1>1, <1>2, <1>3, <1>6 DEF BUF
<1>8. /\ disk' \in [Address -> Content]
      /\ \A b \in Address : b # buf[v].cur => disk'[b] = disk[b]
      /\ buf[v].cur # None => disk'[buf[v].cur] = buf[v].data
  BY <1>1, WrittenBackKeeps DEF MissFails
<1> HIDE DEF r, v
<1>9. /\ buf' \in [Buffer -> BUF]
      /\ \A i \in Buffer : /\ buf'[i].cur = buf[i].cur
                           /\ buf'[i].data = buf[i].data
                           /\ i # v => buf'[i].dirty = buf[i].dirty
  BY <1>1, <1>2, <1>5, <1>7, SweptKeeps DEF r, CacheInv
<1>10. \A i \in Buffer : buf[i].cur # None => buf[i].cur \in Address
  BY DEF CacheInv, TypeOK, BUF
<1>11. Matches(disk', buf')
  BY <1>1, <1>8, <1>9, <1>10 DEF CacheInv, OneCopy, CleanIsStored, Matches
<1>12. Consistent(disk', buf', chain)
  BY <1>8, <1>9, <1>11, Retained DEF CacheInv, TypeOK
<1>13. clock_head' = After(v) /\ chain' = chain
  BY DEF MissFails, v
<1> QED BY <1>1, <1>12, <1>13, InvAfter DEF CacheInv, TypeOK

-----------------------------------------------------------------------------
(* Erasing a block that is not the file's concerns no buffer.              *)
LEMMA ErasedKeeps ==
  ASSUME CacheInv, PlainCard, NEW b \in Block \ chain, NEW n
  PROVE  /\ Erased(b, n) \in [Address -> Content]
         /\ \A i \in Buffer : buf[i].cur # None =>
              buf[i].cur # b /\ Erased(b, n)[buf[i].cur] = disk[buf[i].cur]
         /\ n = NSECTOR => Erased(b, n)[b] = Blank
<1> DEFINE c == [s \in Sector |-> IF s <= n THEN Zero ELSE disk[b][s]]
<1>1. b \in Address /\ disk \in [Address -> Content] /\ disk[b] \in Content
  BY Ranges DEF CacheInv, TypeOK
<1>2. c \in Content
  BY <1>1, Ranges DEF Content
<1>3. n = NSECTOR => c = Blank
  BY CacheAssumption DEF Sector, Blank
<1>4. Erased(b, n) = [disk EXCEPT ![b] = c]
  BY DEF Erased
<1>5. \A i \in Buffer : buf[i].cur # None => buf[i].cur # b /\ buf[i].cur \in Address
  BY DEF CacheInv, OwnBlocks, TypeOK, BUF
<1> HIDE DEF c
<1> QED BY <1>1, <1>2, <1>3, <1>4, <1>5

LEMMA EraseFailsKeeps ==
  ASSUME CacheInv, PlainCard, NEW b \in Block \ chain, EraseFails(b)
  PROVE  CacheInv'
<1>1. PICK s \in WriteFails : disk' = Erased(b, s - 1)
  BY DEF EraseFails
<1>2. UNCHANGED <<buf, clock_head, chain>>
  BY DEF EraseFails
<1>3. disk' \in [Address -> Content] /\ Matches(disk', buf)
  BY <1>1, ErasedKeeps DEF CacheInv, CleanIsStored, Matches
<1>4. Consistent(disk', buf, chain)
  BY <1>3, Retained DEF CacheInv, TypeOK
<1> QED BY <1>2, <1>4, InvAfter DEF CacheInv, TypeOK

(* A fresh buffer for a new block, or the victim's write-back fails.       *)
LEMMA ClrKeeps ==
  ASSUME CacheInv, PlainCard, NEW b \in Block \ chain, fs_clr(b)
  PROVE  CacheInv'
<1> DEFINE v == fs_victim
           erased == Erased(b, NSECTOR)
           c == chain \union {b}
           r == [data |-> Blank, cur |-> b, ref |-> FALSE, dirty |-> FALSE]
<1>1. v \in Buffer /\ After(v) \in Buffer
  BY VictimType DEF CacheInv, TypeOK
<1>2. /\ erased \in [Address -> Content]
      /\ \A i \in Buffer : buf[i].cur # None =>
           buf[i].cur # b /\ erased[buf[i].cur] = disk[buf[i].cur]
      /\ erased[b] = Blank
  BY ErasedKeeps
<1>3. c \in SUBSET Block /\ chain \subseteq c /\ b \in c /\ b \in Address /\ b # None
  BY Ranges DEF CacheInv, TypeOK
<1>4. r \in BUF
  BY <1>3, Ranges DEF BUF
<1>5. \A i \in Buffer : buf[i].cur # None => buf[i].cur \in Address
  BY DEF CacheInv, TypeOK, BUF
<1>6. clock_head' = After(v) /\ chain' = c
  BY DEF fs_clr
<1>7. \A i \in Buffer : i # v /\ buf[i].cur # None => buf[i].cur # buf[v].cur
  BY <1>1 DEF CacheInv, OneCopy
<1> HIDE DEF v, erased, c, r
<1>8. CASE /\ disk' = IF NeedsWrite(v) THEN Stored(erased, v, NSECTOR) ELSE erased
           /\ buf' = [Swept EXCEPT ![v] = r]
  <2>1. /\ disk' \in [Address -> Content]
        /\ \A a \in Address : a # buf[v].cur => disk'[a] = erased[a]
    BY <1>1, <1>2, <1>8, StoredKeeps DEF CacheInv
  <2>2. \A i \in Buffer : i # v /\ buf[i].cur # None =>
                            disk'[buf[i].cur] = disk[buf[i].cur]
    BY <1>2, <1>5, <1>7, <2>1
  <2>3. b # buf[v].cur
    BY <1>1, <1>2, <1>3
  <2>4. r.data = disk'[r.cur] /\ r.cur = b
    BY <1>2, <1>3, <2>1, <2>3 DEF r
  <2>5. \A i \in Buffer : buf[i].cur # b
    BY <1>2, <1>3
  <2>6. Consistent(disk', [Swept EXCEPT ![v] = r], c)
    BY <1>1, <1>3, <1>4, <2>1, <2>2, <2>4, <2>5, Replaced
  <2> QED BY <1>1, <1>3, <1>6, <1>8, <2>6, InvAfter DEF CacheInv, TypeOK
<1>9. CASE /\ NeedsWrite(v)
           /\ \E s \in WriteFails : disk' = Stored(erased, v, s - 1)
           /\ buf' = Swept
  <2>1. /\ disk' \in [Address -> Content]
        /\ \A a \in Address : a # buf[v].cur => disk'[a] = erased[a]
    BY <1>1, <1>2, <1>9, StoredKeeps DEF CacheInv
  <2>2. \A i \in Buffer : i # v /\ buf[i].cur # None =>
                            disk'[buf[i].cur] = disk[buf[i].cur]
    BY <1>2, <1>5, <1>7, <2>1
  <2>3. Matches(disk', Swept)
    BY <1>1, <1>9, <2>2, SweptKeeps DEF CacheInv, CleanIsStored, Matches, NeedsWrite
  <2>4. Consistent(disk', Swept, c)
    BY <1>3, <2>1, <2>3, SweptKeeps, Retained DEF CacheInv
  <2> QED BY <1>1, <1>3, <1>6, <1>9, <2>4, InvAfter DEF CacheInv, TypeOK
<1> QED BY <1>8, <1>9 DEF fs_clr, v, erased, r

-----------------------------------------------------------------------------
(* fs_close has written the first n buffers.                               *)
LEMMA WrittenBelowKeeps ==
  ASSUME CacheInv, NEW n
  PROVE  /\ WrittenBelow(n) \in [Address -> Content]
         /\ CleanBelow(n) \in [Buffer -> BUF]
         /\ \A i \in Buffer : /\ CleanBelow(n)[i].cur = buf[i].cur
                              /\ CleanBelow(n)[i].data = buf[i].data
                              /\ CleanBelow(n)[i].dirty =>
                                   buf[i].dirty /\ ~(i < n /\ NeedsWrite(i))
                              /\ buf[i].dirty /\ ~(i < n /\ NeedsWrite(i)) =>
                                   CleanBelow(n)[i].dirty
         /\ Matches(WrittenBelow(n), CleanBelow(n))
<1> DEFINE W(a) == {i \in Buffer : i < n /\ NeedsWrite(i) /\ buf[i].cur = a}
<1>1. \A a \in Address : W(a) # {} => Last(W(a)) \in W(a)
  <2> SUFFICES ASSUME NEW a \in Address, NEW i \in W(a)
               PROVE  Last(W(a)) \in W(a)
    OBVIOUS
  <2>1. \A j \in W(a) : j = i
    BY DEF CacheInv, OneCopy, NeedsWrite
  <2>2. i \in Nat
    BY CacheAssumption DEF Buffer
  <2>3. \A j \in W(a) : j <= i
    BY <2>1, <2>2
  <2> HIDE DEF W
  <2> QED BY <2>3 DEF Last
<1>2. \A a \in Address : WrittenBelow(n)[a] =
        IF W(a) = {} THEN disk[a] ELSE buf[Last(W(a))].data
  BY DEF WrittenBelow
<1>3. \A i \in Buffer : buf[i] \in BUF /\ buf[i].data \in Content
  BY DEF CacheInv, TypeOK, BUF
<1>4. WrittenBelow(n) \in [Address -> Content]
  <2>1. \A a \in Address :
          (IF W(a) = {} THEN disk[a] ELSE buf[Last(W(a))].data) \in Content
    BY <1>1, <1>3 DEF CacheInv, TypeOK
  <2> QED BY <2>1 DEF WrittenBelow
<1>5. \A i \in Buffer : [buf[i] EXCEPT !.dirty = FALSE] \in BUF
  BY <1>3 DEF BUF
<1>6. /\ CleanBelow(n) \in [Buffer -> BUF]
      /\ \A i \in Buffer : CleanBelow(n)[i] =
           IF i < n /\ NeedsWrite(i) THEN [buf[i] EXCEPT !.dirty = FALSE] ELSE buf[i]
  BY <1>3, <1>5 DEF CleanBelow
<1>7. \A i \in Buffer : /\ CleanBelow(n)[i].cur = buf[i].cur
                        /\ CleanBelow(n)[i].data = buf[i].data
                        /\ CleanBelow(n)[i].dirty =>
                             buf[i].dirty /\ ~(i < n /\ NeedsWrite(i))
                        /\ buf[i].dirty /\ ~(i < n /\ NeedsWrite(i)) =>
                             CleanBelow(n)[i].dirty
  BY <1>3, <1>6 DEF BUF
<1>8. ASSUME NEW i \in Buffer,
             CleanBelow(n)[i].cur # None, ~CleanBelow(n)[i].dirty
      PROVE  CleanBelow(n)[i].data = WrittenBelow(n)[CleanBelow(n)[i].cur]
  <2>1. buf[i].cur \in Address /\ buf[i].cur # None
    BY <1>3, <1>7, <1>8 DEF BUF
  <2>2. CASE i < n /\ NeedsWrite(i)
    <3>1. i \in W(buf[i].cur)
      BY <2>2
    <3>2. Last(W(buf[i].cur)) \in W(buf[i].cur)
      BY <1>1, <2>1, <3>1
    <3>3. Last(W(buf[i].cur)) = i
      BY <2>1, <3>2 DEF CacheInv, OneCopy
    <3> HIDE DEF W
    <3> QED BY <1>2, <1>7, <2>1, <3>1, <3>3
  <2>3. CASE ~(i < n /\ NeedsWrite(i))
    <3>1. ~buf[i].dirty
      BY <1>7, <1>8, <2>3
    <3>2. W(buf[i].cur) = {}
      BY <2>1, <3>1 DEF CacheInv, OneCopy, NeedsWrite
    <3> HIDE DEF W
    <3> QED BY <1>2, <1>7, <2>1, <3>1, <3>2 DEF CacheInv, CleanIsStored
  <2> QED BY <2>2, <2>3
<1> QED BY <1>4, <1>6, <1>7, <1>8 DEF Matches

LEMMA WriteBuffersKeeps ==
  ASSUME CacheInv, WriteBuffers
  PROVE  CacheInv'
<1>1. UNCHANGED <<clock_head, chain>>
  BY DEF WriteBuffers
<1>2. CASE disk' = WrittenBelow(NBUF) /\ buf' = CleanBelow(NBUF)
  <2>1. Consistent(disk', buf', chain)
    BY <1>2, WrittenBelowKeeps, Retained DEF CacheInv, TypeOK
  <2> QED BY <1>1, <2>1, InvAfter DEF CacheInv, TypeOK
<1>3. ASSUME NEW i \in Buffer, NEW s \in WriteFails, NeedsWrite(i),
             disk' = Stored(WrittenBelow(i), i, s - 1), buf' = CleanBelow(i)
      PROVE  CacheInv'
  <2>1. /\ disk' \in [Address -> Content]
        /\ \A a \in Address : a # buf[i].cur => disk'[a] = WrittenBelow(i)[a]
    BY <1>3, WrittenBelowKeeps, StoredKeeps DEF CacheInv
  <2>2. /\ buf' \in [Buffer -> BUF]
        /\ \A j \in Buffer : buf'[j].cur = buf[j].cur
        /\ Matches(WrittenBelow(i), buf')
    BY <1>3, WrittenBelowKeeps
  <2>3. buf'[i].dirty
    <3>1. ~(i < i) /\ buf[i].dirty
      BY <1>3, CacheAssumption DEF Buffer, NeedsWrite
    <3> QED BY <1>3, <3>1, WrittenBelowKeeps
  <2>4. \A j \in Buffer : buf'[j].cur # None => buf'[j].cur \in Address
    BY <2>2 DEF BUF
  <2>5. Matches(disk', buf')
    BY <2>1, <2>2, <2>3, <2>4 DEF Matches, CacheInv, OneCopy
  <2>6. Consistent(disk', buf', chain)
    BY <2>1, <2>2, <2>5, Retained DEF CacheInv, TypeOK
  <2> QED BY <1>1, <2>6, InvAfter DEF CacheInv, TypeOK
<1> QED BY <1>2, <1>3 DEF WriteBuffers

-----------------------------------------------------------------------------
LEMMA InitInv ==
  ASSUME Init
  PROVE  CacheInv
<1> USE CacheAssumption
<1>1. \A v \in Value : [s \in Sector |-> v] \in Content
  BY DEF Content
<1>2. disk \in [Address -> Content]
  <2> DEFINE C == {[s \in Sector |-> v] : v \in Value}
  <2>1. C \subseteq Content
    BY <1>1
  <2>2. disk \in [Address -> C]
    BY DEF Init
  <2> HIDE DEF C
  <2> QED BY <2>1, <2>2
<1>3. /\ buf \in [Buffer -> BUF]
      /\ \A i \in Buffer : buf[i].cur = None
  BY Ranges DEF Init, BUF
<1>4. clock_head \in Buffer /\ chain \in SUBSET Block
  BY DEF Init, Buffer
<1> QED BY <1>2, <1>3, <1>4 DEF CacheInv, TypeOK, OneCopy, CleanIsStored, OwnBlocks

(* What fs_read and fs_write are called with, and what they find.          *)
LEMMA FoundIn ==
  ASSUME TypeOK, NEW a, Found(a) # {}
  PROVE  First(Found(a)) \in Found(a) /\ First(Found(a)) \in Buffer
<1>1. Found(a) \subseteq Nat /\ Found(a) \subseteq Buffer
  BY CacheAssumption DEF Found, Buffer
<1>2. \E i \in Found(a) : \A j \in Found(a) : i <= j
  BY <1>1, LeastNat
<1> QED BY <1>1, <1>2 DEF First

LEMMA OwnAddress ==
  ASSUME PlainCard, TypeOK, NEW b \in chain
  PROVE  b + Base = b /\ b \in Block /\ b \in Address
BY Ranges DEF PlainCard, TypeOK

LEMMA NextKeeps ==
  ASSUME PlainCard, CacheInv, [Next]_vars
  PROVE  CacheInv'
<1>0. TypeOK
  BY DEF CacheInv
<1>1. ASSUME NEW b \in chain, fs_read(b)
      PROVE  CacheInv'
  <2>1. b + Base = b /\ b \in Block /\ b \in Address
    BY <1>0, OwnAddress
  <2>2. CASE Found(b) # {}
    BY <1>1, <2>1, <2>2, HitKeeps DEF fs_read
  <2>3. CASE Found(b) = {}
    <3>1. VictimFails \/ Miss(b) \/ MissFails(b)
      BY <1>1, <2>1, <2>3 DEF fs_read
    <3> QED BY <2>1, <2>3, <3>1, VictimFailsKeeps, MissKeeps, MissFailsKeeps
  <2> QED BY <2>2, <2>3
<1>2. ASSUME NEW b \in chain, NEW s \in Sector, NEW v \in Value, fs_write(b, s, v)
      PROVE  CacheInv'
  <2>1. b + Base = b /\ b \in Block /\ b \in Address
    BY <1>0, OwnAddress
  <2>2. CASE Found(b) # {}
    <3>1. First(Found(b)) \in Buffer
      BY <1>0, <2>2, FoundIn
    <3>2. /\ buf' = Changed(buf, First(Found(b)), s, v)
          /\ UNCHANGED <<disk, clock_head, chain>>
      BY <1>2, <2>1, <2>2 DEF fs_write
    <3> QED BY <3>1, <3>2, ChangedHitKeeps
  <2>3. CASE Found(b) = {}
    <3>1. CASE VictimFails
      BY <3>1, VictimFailsKeeps
    <3>2. CASE MissFails(b)
      BY <3>2, MissFailsKeeps
    <3>3. CASE /\ disk' = WrittenBack(fs_victim)
               /\ buf' = Changed(Filled(fs_victim, b, disk[b]), fs_victim, s, v)
               /\ clock_head' = After(fs_victim)
               /\ UNCHANGED chain
      BY <2>1, <2>3, <3>3, ChangedMissKeeps
    <3> QED BY <1>2, <2>1, <2>3, <3>1, <3>2, <3>3 DEF fs_write
  <2> QED BY <2>2, <2>3
<1>3. ASSUME NEW b \in Block \ chain, EraseFails(b) \/ fs_clr(b)
      PROVE  CacheInv'
  BY <1>3, EraseFailsKeeps, ClrKeeps
<1>4. CASE WriteBuffers
  BY <1>4, WriteBuffersKeeps
<1>5. CASE UNCHANGED vars
  BY <1>5 DEF vars, CacheInv, TypeOK, OneCopy, CleanIsStored, OwnBlocks
<1> QED BY <1>1, <1>2, <1>3, <1>4, <1>5 DEF Next

-----------------------------------------------------------------------------
(* What holds in every state of the cache of such a card.                  *)
THEOREM CacheInductive ==
  ASSUME PlainCard
  PROVE  Spec => []CacheInv
<1>1. Init => CacheInv
  BY InitInv
<1>2. CacheInv /\ [Next]_vars => CacheInv'
  BY NextKeeps
<1> QED BY <1>1, <1>2, PTL DEF Spec

(***************************************************************************)
(* On any card, partitioned or not, and wherever reading fails.            *)
(***************************************************************************)

(* An entry of the cache is what fs_read_4k or fs_clr_4k puts into it.     *)
LEMMA FillsType ==
  ASSUME TypeOK, NEW a \in Address, NEW s \in Sector, NEW v \in Value
  PROVE  /\ Filled(fs_victim, a, disk[a]) \in [Buffer -> BUF]
         /\ Changed(Filled(fs_victim, a, disk[a]), fs_victim, s, v) \in [Buffer -> BUF]
         /\ \A i \in Buffer : Changed(buf, i, s, v) \in [Buffer -> BUF]
<1>1. ASSUME NEW B \in [Buffer -> BUF], NEW i \in Buffer
      PROVE  Changed(B, i, s, v) \in [Buffer -> BUF]
  <2>1. B[i] \in BUF
    OBVIOUS
  <2>2. [data |-> [B[i].data EXCEPT ![s] = v], cur |-> B[i].cur,
         ref |-> TRUE, dirty |-> TRUE] \in BUF
    BY <2>1 DEF BUF, Content
  <2> QED BY <2>2 DEF Changed
<1>2. fs_victim \in Buffer /\ Swept \in [Buffer -> BUF]
  BY VictimType, SweptKeeps DEF TypeOK
<1>3. [data |-> disk[a], cur |-> a, ref |-> TRUE, dirty |-> FALSE] \in BUF
  BY DEF TypeOK, BUF
<1>4. Filled(fs_victim, a, disk[a]) \in [Buffer -> BUF]
  BY <1>2, <1>3 DEF Filled
<1> QED BY <1>1, <1>2, <1>4 DEF TypeOK

(* The card after write-back, after an erasure and after fs_close.         *)
LEMMA CardType ==
  ASSUME TypeOK
  PROVE  /\ \A i \in Buffer : WrittenBack(i) \in [Address -> Content]
         /\ \A b \in Block, n \in Int : Erased(b, n) \in [Address -> Content]
         /\ \A n \in Int : WrittenBelow(n) \in [Address -> Content]
         /\ \A n \in Int : CleanBelow(n) \in [Buffer -> BUF]
<1> USE CacheAssumption
<1>1. \A i \in Buffer : WrittenBack(i) \in [Address -> Content]
  BY StoredKeeps DEF WrittenBack, TypeOK
<1>2. ASSUME NEW b \in Block, NEW n \in Int
      PROVE  Erased(b, n) \in [Address -> Content]
  <2>1. b \in Address /\ disk[b] \in Content
    BY DEF TypeOK, Block, Address
  <2>2. [s \in Sector |-> IF s <= n THEN Zero ELSE disk[b][s]] \in Content
    BY <2>1 DEF Content
  <2> QED BY <2>1, <2>2 DEF Erased, TypeOK
<1>3. ASSUME NEW n \in Int
      PROVE  WrittenBelow(n) \in [Address -> Content]
  <2> DEFINE W(a) == {i \in Buffer : i < n /\ NeedsWrite(i) /\ buf[i].cur = a}
  <2>1. ASSUME NEW a \in Address, W(a) # {}
        PROVE  Last(W(a)) \in Buffer
    <3>1. W(a) \subseteq 0..NBUF-1 /\ NBUF - 1 \in Nat
      BY DEF Buffer
    <3> HIDE DEF W
    <3>2. \E i \in W(a) : \A j \in W(a) : j <= i
      BY <2>1, <3>1, GreatestNat
    <3> QED BY <3>1, <3>2 DEF Last, Buffer
  <2>2. \A i \in Buffer : buf[i].data \in Content
    BY DEF TypeOK, BUF
  <2>3. \A a \in Address :
          (IF W(a) = {} THEN disk[a] ELSE buf[Last(W(a))].data) \in Content
    BY <2>1, <2>2 DEF TypeOK
  <2> QED BY <2>3 DEF WrittenBelow
<1>4. ASSUME NEW n \in Int
      PROVE  CleanBelow(n) \in [Buffer -> BUF]
  <2>1. \A i \in Buffer : buf[i] \in BUF /\ [buf[i] EXCEPT !.dirty = FALSE] \in BUF
    BY DEF TypeOK, BUF
  <2> QED BY <2>1 DEF CleanBelow
<1> QED BY <1>1, <1>2, <1>3, <1>4

LEMMA VictimFailsType ==
  ASSUME TypeOK, VictimFails
  PROVE  TypeOK'
<1>1. fs_victim \in Buffer /\ After(fs_victim) \in Buffer /\ Swept \in [Buffer -> BUF]
  BY VictimType, SweptKeeps DEF TypeOK
<1>2. disk' \in [Address -> Content]
  BY <1>1, StoredKeeps DEF VictimFails, TypeOK
<1> QED BY <1>1, <1>2 DEF VictimFails, TypeOK

LEMMA MissFailsType ==
  ASSUME TypeOK, NEW a \in Address, MissFails(a)
  PROVE  TypeOK'
<1>1. fs_victim \in Buffer /\ After(fs_victim) \in Buffer /\ Swept \in [Buffer -> BUF]
  BY VictimType, SweptKeeps DEF TypeOK
<1>2. disk' \in [Address -> Content]
  BY <1>1, CardType DEF MissFails
<1>3. PICK n \in ReadFails :
        buf' = [Swept EXCEPT ![fs_victim] =
          [data |-> [s \in Sector |-> IF s < n THEN disk[a][s] ELSE @.data[s]],
           cur |-> @.cur, ref |-> @.ref, dirty |-> FALSE]]
  BY DEF MissFails
<1>4. disk[a] \in Content /\ Swept[fs_victim] \in BUF
  BY <1>1 DEF TypeOK
<1>5. [data |-> [s \in Sector |-> IF s < n THEN disk[a][s]
                                  ELSE Swept[fs_victim].data[s]],
       cur |-> Swept[fs_victim].cur, ref |-> Swept[fs_victim].ref,
       dirty |-> FALSE] \in BUF
  BY <1>4 DEF BUF, Content
<1>6. buf' \in [Buffer -> BUF]
  BY <1>1, <1>3, <1>5
<1> QED BY <1>1, <1>2, <1>6 DEF MissFails, TypeOK

LEMMA ClrType ==
  ASSUME TypeOK, NEW b \in Block, fs_clr(b)
  PROVE  TypeOK'
<1> DEFINE v == fs_victim
           erased == Erased(b, NSECTOR)
           r == [data |-> Blank, cur |-> b, ref |-> FALSE, dirty |-> FALSE]
<1>1. v \in Buffer /\ After(v) \in Buffer /\ Swept \in [Buffer -> BUF]
  BY VictimType, SweptKeeps DEF TypeOK
<1>2. erased \in [Address -> Content]
  BY CardType, CacheAssumption
<1>3. b \in Address
  BY CacheAssumption DEF Block, Address
<1>4. r \in BUF
  BY <1>3, Ranges DEF BUF
<1>5. \A n : NeedsWrite(v) => Stored(erased, v, n) \in [Address -> Content]
  BY <1>1, <1>2, StoredKeeps
<1> HIDE DEF v, erased, r
<1>6. /\ disk' \in [Address -> Content] /\ buf' \in [Buffer -> BUF]
      /\ clock_head' = After(v) /\ chain' = chain \union {b}
  BY <1>1, <1>2, <1>4, <1>5 DEF fs_clr, v, erased, r
<1> QED BY <1>1, <1>6 DEF TypeOK

LEMMA WriteBuffersType ==
  ASSUME TypeOK, WriteBuffers
  PROVE  TypeOK'
<1>1. Buffer \subseteq Int /\ NBUF \in Int
  BY CacheAssumption DEF Buffer
<1>2. disk' \in [Address -> Content] /\ buf' \in [Buffer -> BUF]
  BY <1>1, CardType, StoredKeeps DEF WriteBuffers
<1> QED BY <1>2 DEF WriteBuffers, TypeOK

LEMMA TypeKeeps ==
  ASSUME TypeOK, [Next]_vars
  PROVE  TypeOK'
<1>0. \A b \in chain : b + Base \in Address
  BY CacheAssumption DEF TypeOK, Block, Address
<1>1. ASSUME NEW b \in chain, fs_read(b)
      PROVE  TypeOK'
  <2> DEFINE a == b + Base
  <2>1. CASE Found(a) # {}
    <3>1. /\ buf' = [buf EXCEPT ![First(Found(a))].ref = TRUE]
          /\ UNCHANGED <<disk, clock_head, chain>>
      BY <1>1, <2>1 DEF fs_read, Hit
    <3>2. \A i \in Buffer : buf[i] \in BUF /\ [buf[i] EXCEPT !.ref = TRUE] \in BUF
      BY DEF TypeOK, BUF
    <3> QED BY <3>1, <3>2 DEF TypeOK
  <2>2. CASE Miss(a)
    <3>1. Sector # {} /\ Value # {}
      BY CacheAssumption DEF Sector
    <3>2. buf' \in [Buffer -> BUF]
      BY <1>0, <2>2, <3>1, FillsType DEF Miss
    <3>3. disk' \in [Address -> Content] /\ clock_head' \in Buffer
      BY <2>2, VictimType, CardType DEF Miss, TypeOK
    <3> QED BY <2>2, <3>2, <3>3 DEF Miss, TypeOK
  <2> QED BY <1>0, <1>1, <2>1, <2>2, VictimFailsType, MissFailsType DEF fs_read
<1>2. ASSUME NEW b \in chain, NEW s \in Sector, NEW v \in Value, fs_write(b, s, v)
      PROVE  TypeOK'
  <2> DEFINE a == b + Base
  <2>1. CASE Found(a) # {}
    BY <1>0, <1>2, <2>1, FoundIn, FillsType DEF fs_write, TypeOK
  <2>2. CASE /\ disk' = WrittenBack(fs_victim)
             /\ buf' = Changed(Filled(fs_victim, a, disk[a]), fs_victim, s, v)
             /\ clock_head' = After(fs_victim)
             /\ UNCHANGED chain
    <3>1. buf' \in [Buffer -> BUF]
      BY <1>0, <2>2, FillsType
    <3>2. disk' \in [Address -> Content] /\ clock_head' \in Buffer
      BY <2>2, VictimType, CardType DEF TypeOK
    <3> QED BY <2>2, <3>1, <3>2 DEF TypeOK
  <2> QED BY <1>0, <1>2, <2>1, <2>2, VictimFailsType, MissFailsType DEF fs_write
<1>3. ASSUME NEW b \in Block \ chain, EraseFails(b)
      PROVE  TypeOK'
  <2>1. \A s \in WriteFails : s - 1 \in Int
    BY CacheAssumption DEF Sector
  <2>2. disk' \in [Address -> Content]
    BY <1>3, <2>1, CardType DEF EraseFails
  <2> QED BY <1>3, <2>2 DEF EraseFails, TypeOK
<1>4. ASSUME NEW b \in Block \ chain, fs_clr(b)
      PROVE  TypeOK'
  BY <1>4, ClrType
<1>5. CASE WriteBuffers
  BY <1>5, WriteBuffersType
<1>6. CASE UNCHANGED vars
  BY <1>6 DEF vars, TypeOK
<1> QED BY <1>1, <1>2, <1>3, <1>4, <1>5, <1>6 DEF Next

(* Every buffer number, block number and content is one (fs_victim_4k,     *)
(* fs_read_4k, fs_clr_4k).                                                 *)
THEOREM CacheTypeCorrect == Spec => []TypeOK
<1>1. Init => TypeOK
  BY InitInv DEF CacheInv
<1>2. TypeOK /\ [Next]_vars => TypeOK'
  BY TypeKeeps
<1> QED BY <1>1, <1>2, PTL DEF Spec

-----------------------------------------------------------------------------
(* The two sweeps choose a buffer that costs less if there is one.         *)
LEMMA VictimCost ==
  ASSUME clock_head \in Buffer
  PROVE  /\ buf[fs_victim].ref \/ buf[fs_victim].dirty => Idle = {}
         /\ buf[fs_victim].dirty => Clean = {}
<1>1. Idle \in SUBSET Buffer /\ Clean \in SUBSET Buffer /\ Idle \subseteq Clean
  BY DEF Idle, Clean
<1>2. Idle # {} => fs_victim \in Idle
  BY <1>1, EarliestIn DEF fs_victim
<1>3. Idle = {} /\ Clean # {} => fs_victim \in Clean
  BY <1>1, EarliestIn DEF fs_victim
<1> QED BY <1>1, <1>2, <1>3 DEF Idle, Clean

(* No step gives another buffer than the victim to another block.          *)
LEMMA OthersStay ==
  ASSUME TypeOK, [Next]_vars, NEW i \in Buffer, i # fs_victim
  PROVE  buf'[i].cur = buf[i].cur
<1> DEFINE v == fs_victim
<1>0. buf \in [Buffer -> BUF] /\ v \in Buffer
      /\ Swept \in [Buffer -> BUF] /\ Swept[i].cur = buf[i].cur
  BY VictimType, SweptKeeps DEF TypeOK
<1>1. VictimFails => buf' = Swept
  BY DEF VictimFails
<1>2. ASSUME NEW a, Miss(a) \/ MissFails(a)
      PROVE  buf'[i] = Swept[i]
  BY <1>0, <1>2 DEF Miss, MissFails, Filled
<1>3. ASSUME NEW b \in chain, fs_read(b)
      PROVE  buf'[i].cur = buf[i].cur
  <2>1. Hit(b + Base) => buf'[i].cur = buf[i].cur
    BY <1>0 DEF Hit, BUF
  <2> QED BY <1>0, <1>1, <1>2, <1>3, <2>1 DEF fs_read
<1>4. ASSUME NEW b \in chain, NEW s \in Sector, NEW x \in Value, fs_write(b, s, x)
      PROVE  buf'[i].cur = buf[i].cur
  <2>1. ASSUME NEW j, buf' = Changed(buf, j, s, x)
        PROVE  buf'[i].cur = buf[i].cur
    BY <1>0, <2>1 DEF Changed
  <2>2. ASSUME NEW a, buf' = Changed(Filled(v, a, disk[a]), v, s, x)
        PROVE  buf'[i].cur = buf[i].cur
    BY <1>0, <2>2 DEF Changed, Filled
  <2> QED BY <1>0, <1>1, <1>2, <1>4, <2>1, <2>2 DEF fs_write
<1>5. ASSUME NEW b \in Block, fs_clr(b)
      PROVE  buf'[i].cur = buf[i].cur
  BY <1>0, <1>5 DEF fs_clr
<1>6. ASSUME WriteBuffers
      PROVE  buf'[i].cur = buf[i].cur
  <2>1. \A n \in Int : CleanBelow(n)[i].cur = buf[i].cur
    BY <1>0 DEF CleanBelow, BUF
  <2>2. Buffer \subseteq Int /\ NBUF \in Int
    BY CacheAssumption DEF Buffer
  <2> QED BY <1>6, <2>1, <2>2 DEF WriteBuffers
<1> QED BY <1>3, <1>4, <1>5, <1>6 DEF Next, EraseFails, vars

(* A referenced buffer is replaced only if no other is idle, a dirty one   *)
(* only if all are dirty (fs_victim_4k).                                   *)
THEOREM CheapestReplaced == Spec => VictimIsCheapest
<1> DEFINE Cheap == \A i \in Buffer : buf'[i].cur # buf[i].cur =>
                      /\ buf[i].ref \/ buf[i].dirty => Idle = {}
                      /\ buf[i].dirty => Clean = {}
<1>1. TypeOK /\ [Next]_vars => Cheap
  <2> SUFFICES ASSUME TypeOK, [Next]_vars, NEW i \in Buffer, buf'[i].cur # buf[i].cur
               PROVE  /\ buf[i].ref \/ buf[i].dirty => Idle = {}
                      /\ buf[i].dirty => Clean = {}
    OBVIOUS
  <2>1. i = fs_victim
    BY OthersStay
  <2> QED BY <2>1, VictimCost DEF TypeOK
<1>2. TypeOK /\ [Next]_vars => [Cheap]_vars
  BY <1>1
<1>3. Spec => [][Cheap]_vars
  BY <1>2, CacheTypeCorrect, PTL DEF Spec
<1> QED BY <1>3 DEF VictimIsCheapest

-----------------------------------------------------------------------------
(* The victim's buffer is kept, or goes to a block of the file that is in   *)
(* none, or to a new one.                                                  *)
LEMMA VictimPlaced ==
  ASSUME TypeOK, [Next]_vars
  PROVE  \/ buf'[fs_victim].cur = buf[fs_victim].cur /\ UNCHANGED chain
         \/ \E b \in chain : /\ buf'[fs_victim].cur = b + Base /\ Found(b + Base) = {}
                             /\ UNCHANGED chain
         \/ \E b \in Block \ chain : /\ chain' = chain \union {b}
                                     /\ buf'[fs_victim].cur \in {b, buf[fs_victim].cur}
<1> DEFINE v == fs_victim
           Same == buf'[v].cur = buf[v].cur
<1>0. /\ buf \in [Buffer -> BUF] /\ v \in Buffer
      /\ Swept \in [Buffer -> BUF] /\ Swept[v].cur = buf[v].cur
  BY VictimType, SweptKeeps DEF TypeOK
<1>1. ASSUME VictimFails \/ (\E a : MissFails(a))
      PROVE  Same /\ UNCHANGED chain
  BY <1>0, <1>1 DEF VictimFails, MissFails
<1>2. ASSUME NEW b \in chain, fs_read(b)
      PROVE  \/ Same /\ UNCHANGED chain
             \/ buf'[v].cur = b + Base /\ Found(b + Base) = {} /\ UNCHANGED chain
  <2>1. Hit(b + Base) => Same /\ UNCHANGED chain
    BY <1>0 DEF Hit, BUF
  <2>2. Miss(b + Base) => buf'[v].cur = b + Base /\ UNCHANGED chain
    BY <1>0 DEF Miss, Filled
  <2> QED BY <1>1, <1>2, <2>1, <2>2 DEF fs_read
<1>3. ASSUME NEW b \in chain, NEW s \in Sector, NEW x \in Value, fs_write(b, s, x)
      PROVE  \/ Same /\ UNCHANGED chain
             \/ buf'[v].cur = b + Base /\ Found(b + Base) = {} /\ UNCHANGED chain
  <2>1. ASSUME NEW j, buf' = Changed(buf, j, s, x)
        PROVE  Same
    BY <1>0, <2>1 DEF Changed
  <2>2. ASSUME NEW a, buf' = Changed(Filled(v, a, disk[a]), v, s, x)
        PROVE  buf'[v].cur = a
    BY <1>0, <2>2 DEF Changed, Filled
  <2> QED BY <1>1, <1>3, <2>1, <2>2 DEF fs_write
<1>4. ASSUME NEW b \in Block, fs_clr(b)
      PROVE  chain' = chain \union {b} /\ buf'[v].cur \in {b, buf[v].cur}
  BY <1>0, <1>4 DEF fs_clr
<1>5. ASSUME WriteBuffers
      PROVE  Same /\ UNCHANGED chain
  <2>1. \A n \in Int : CleanBelow(n)[v].cur = buf[v].cur
    BY <1>0 DEF CleanBelow, BUF
  <2>2. Buffer \subseteq Int /\ NBUF \in Int
    BY CacheAssumption DEF Buffer
  <2> QED BY <1>5, <2>1, <2>2 DEF WriteBuffers
<1> HIDE DEF v
<1> QED BY <1>2, <1>3, <1>4, <1>5 DEF v, Next, EraseFails, vars

(* No block is ever in two buffers (fs_read_4k's search, fs_clr_4k's new    *)
(* block), wherever reading and writing fail, on an unpartitioned card.    *)
THEOREM NoSecondCopy ==
  ASSUME Unpartitioned
  PROVE  Spec => []OneCopy
<1> DEFINE Placed == TypeOK /\ OneCopy /\ OwnBlocks
<1>1. Init => Placed
  BY InitInv DEF CacheInv
<1>2. Placed /\ [Next]_vars => Placed'
  <2> SUFFICES ASSUME Placed, [Next]_vars PROVE Placed'
    OBVIOUS
  <2>1. TypeOK'
    BY TypeKeeps
  <2>2. \A i \in Buffer : i # fs_victim => buf'[i].cur = buf[i].cur
    BY OthersStay
  <2>3. \A b \in chain : b + Base = b
    BY CacheAssumption DEF Unpartitioned, TypeOK, Block
  <2>4. \A i \in Buffer : buf[i].cur \in chain \union {None}
    BY DEF OwnBlocks
  <2>5. \A b \in Block \ chain : \A i \in Buffer : buf[i].cur # b
    BY <2>4, Ranges
  <2>6. \A b \in chain : Found(b) = {} => \A i \in Buffer : buf[i].cur # b
    BY DEF Found
  <2>7. OwnBlocks'
    BY <2>2, <2>3, <2>4, VictimPlaced DEF OwnBlocks
  <2>8. OneCopy'
    BY <2>2, <2>3, <2>5, <2>6, VictimPlaced DEF OneCopy
  <2> QED BY <2>1, <2>7, <2>8
<1>3. Placed => OneCopy
  OBVIOUS
<1> QED BY <1>1, <1>2, <1>3, PTL DEF Spec

(* A buffer that is not dirty may always be dropped (fs_write_4k), on an    *)
(* unpartitioned card whose reads fail at the first sector or not at all.  *)
THEOREM CleanStored ==
  ASSUME PlainCard
  PROVE  Spec => []CleanIsStored
<1>1. CacheInv => CleanIsStored
  BY DEF CacheInv
<1> QED BY <1>1, CacheInductive, PTL

-----------------------------------------------------------------------------
(***************************************************************************)
(* The buffers and the card together implement FileBlocks.  Shows(d, B,    *)
(* b, x): a card d with buffers B shows x to a reader of block b.          *)
(***************************************************************************)
Shows(d, B, b, x) ==
  \/ \E i \in Buffer : B[i].cur = b /\ B[i].data = x
  \/ (\A i \in Buffer : B[i].cur # b) /\ d[b] = x

(* The content of the abstract file, and the same as what is shown.        *)
Shown == [b \in chain |-> View(b)]

LEMMA FirstOfOne ==
  ASSUME NEW S \in SUBSET Buffer, NEW i \in S, \A j \in S : j = i
  PROVE  First(S) = i
<1>1. \A j \in S : i <= j
  BY CacheAssumption DEF Buffer
<1>2. First(S) \in S
  BY <1>1 DEF First
<1> QED BY <1>2

(* With one copy of a block at most, a reader sees just one content.       *)
LEMMA ViewIsShown ==
  ASSUME PlainCard, NEW B, NEW d, NEW b \in Block, NEW x, Shows(d, B, b, x),
         \A i, j \in Buffer : B[i].cur = B[j].cur /\ B[i].cur # None => i = j
  PROVE  x = IF {i \in Buffer : B[i].cur = b + Base} # {}
             THEN B[First({i \in Buffer : B[i].cur = b + Base})].data
             ELSE d[b + Base]
<1>0. b + Base = b /\ b # None
  BY Ranges DEF PlainCard
<1> DEFINE S == {i \in Buffer : B[i].cur = b}
<1>1. ASSUME NEW i \in Buffer, B[i].cur = b, B[i].data = x
      PROVE  S # {} /\ B[First(S)].data = x
  <2>1. S \in SUBSET Buffer /\ i \in S /\ \A j \in S : j = i
    BY <1>0, <1>1
  <2> HIDE DEF S
  <2>2. First(S) = i
    BY <2>1, FirstOfOne
  <2> QED BY <1>1, <2>1, <2>2
<1>2. ASSUME \A i \in Buffer : B[i].cur # b
      PROVE  S = {}
  BY <1>2
<1> QED BY <1>0, <1>1, <1>2 DEF Shows

(* The view of a block before a step.                                      *)
LEMMA ViewNow ==
  ASSUME PlainCard, CacheInv, NEW b \in chain
  PROVE  /\ Shows(disk, buf, b, View(b))
         /\ View(b) \in Content
         /\ \A i \in Buffer : buf[i].cur = b => buf[i].data = View(b)
         /\ (\A i \in Buffer : buf[i].cur # b) => disk[b] = View(b)
<1>1. b \in Block /\ b \in Address /\ b + Base = b
  BY OwnAddress DEF CacheInv
<1>2. \A i, j \in Buffer : buf[i].cur = buf[j].cur /\ buf[i].cur # None => i = j
  BY DEF CacheInv, OneCopy
<1>3. ASSUME NEW x, Shows(disk, buf, b, x)
      PROVE  x = View(b)
  BY <1>1, <1>2, <1>3, ViewIsShown DEF View, Found
<1>4. \A i \in Buffer : buf[i].cur = b => buf[i].data = View(b)
  BY <1>3 DEF Shows
<1>5. (\A i \in Buffer : buf[i].cur # b) => disk[b] = View(b)
  BY <1>3 DEF Shows
<1>6. Shows(disk, buf, b, View(b))
  BY <1>4, <1>5 DEF Shows
<1>7. View(b) \in Content
  BY <1>1, <1>6 DEF Shows, CacheInv, TypeOK, BUF
<1> QED BY <1>4, <1>5, <1>6, <1>7

(* The view after a step.                                                  *)
LEMMA ViewNext ==
  ASSUME PlainCard, CacheInv', NEW b \in chain', NEW x, Shows(disk', buf', b, x)
  PROVE  View(b)' = x
<1>1. b \in Block
  BY DEF CacheInv, TypeOK
<1>2. \A i, j \in Buffer : buf'[i].cur = buf'[j].cur /\ buf'[i].cur # None => i = j
  BY DEF CacheInv, OneCopy
<1> QED BY <1>1, <1>2, ViewIsShown DEF View, Found

-----------------------------------------------------------------------------
(***************************************************************************)
(* Three kinds of step.  The buffers keep their blocks and contents, and   *)
(* the card changes under buffers alone: nothing changes to a reader.      *)
(***************************************************************************)
LEMMA KeptShows ==
  ASSUME PlainCard, CacheInv, NEW B, NEW d,
         \A i \in Buffer : B[i].cur = buf[i].cur /\ B[i].data = buf[i].data,
         \A b \in chain : (\A i \in Buffer : buf[i].cur # b) => d[b] = disk[b]
  PROVE  \A b \in chain : Shows(d, B, b, View(b))
BY ViewNow DEF Shows

(* The victim is written back and another block takes its buffer.          *)
LEMMA RefilledShows ==
  ASSUME PlainCard, CacheInv, NEW r, NEW d, NEW a,
         \A i \in Buffer : buf[i].cur # a, r.cur = a,
         \A b \in chain : b # buf[fs_victim].cur /\ b # a => d[b] = disk[b],
         buf[fs_victim].cur # None => d[buf[fs_victim].cur] = buf[fs_victim].data
  PROVE  /\ \A b \in chain : b # a => Shows(d, [Swept EXCEPT ![fs_victim] = r], b, View(b))
         /\ Shows(d, [Swept EXCEPT ![fs_victim] = r], a, r.data)
<1> DEFINE v == fs_victim
           B == [Swept EXCEPT ![v] = r]
<1>1. v \in Buffer /\ Swept \in [Buffer -> BUF]
  BY VictimType, SweptKeeps DEF CacheInv, TypeOK
<1>2. B[v] = r
  BY <1>1
<1>3. \A i \in Buffer : i # v => B[i].cur = buf[i].cur /\ B[i].data = buf[i].data
  BY <1>1, SweptKeeps DEF CacheInv
<1> HIDE DEF v, B
<1>4. Shows(d, B, a, r.data)
  BY <1>1, <1>2 DEF Shows
<1>5. ASSUME NEW b \in chain, b # a
      PROVE  Shows(d, B, b, View(b))
  <2>1. CASE \E i \in Buffer : i # v /\ buf[i].cur = b
    BY <1>3, <2>1, ViewNow DEF Shows
  <2>2. CASE \A i \in Buffer : i # v => buf[i].cur # b
    <3>1. \A i \in Buffer : B[i].cur # b
      BY <1>2, <1>3, <1>5, <2>2
    <3>2. d[b] = View(b)
      <4>1. CASE buf[v].cur = b
        <5>1. b # None
          BY Ranges DEF CacheInv, TypeOK
        <5> QED BY <1>1, <4>1, <5>1, ViewNow DEF v
      <4>2. CASE buf[v].cur # b
        BY <1>5, <2>2, <4>2, ViewNow DEF v
      <4> QED BY <4>1, <4>2
    <3> QED BY <3>1, <3>2 DEF Shows
  <2> QED BY <2>1, <2>2
<1> QED BY <1>4, <1>5 DEF v, B

(* What the card shows of a block that a miss reads.                       *)
LEMMA MissShows ==
  ASSUME PlainCard, CacheInv, NEW a \in chain, Found(a) = {},
         NEW r, r.cur = a, disk' = WrittenBack(fs_victim),
         buf' = [Swept EXCEPT ![fs_victim] = r]
  PROVE  /\ \A b \in chain : b # a => Shows(disk', buf', b, View(b))
         /\ Shows(disk', buf', a, r.data)
         /\ disk[a] = View(a)
<1>1. fs_victim \in Buffer
  BY VictimType DEF CacheInv, TypeOK
<1>2. \A i \in Buffer : buf[i].cur # a
  BY DEF Found
<1>3. \A b \in chain : b \in Address
  BY OwnAddress DEF CacheInv
<1>4. /\ \A b \in chain : b # buf[fs_victim].cur /\ b # a => disk'[b] = disk[b]
      /\ buf[fs_victim].cur # None => disk'[buf[fs_victim].cur] = buf[fs_victim].data
  BY <1>1, <1>3, WrittenBackKeeps
<1>5. /\ \A b \in chain : b # a =>
           Shows(disk', [Swept EXCEPT ![fs_victim] = r], b, View(b))
      /\ Shows(disk', [Swept EXCEPT ![fs_victim] = r], a, r.data)
  <2>1. PICK d : d = disk'
    OBVIOUS
  <2>2. /\ \A b \in chain : b # buf[fs_victim].cur /\ b # a => d[b] = disk[b]
        /\ buf[fs_victim].cur # None => d[buf[fs_victim].cur] = buf[fs_victim].data
    BY <1>4, <2>1
  <2>3. /\ \A b \in chain : b # a =>
             Shows(d, [Swept EXCEPT ![fs_victim] = r], b, View(b))
        /\ Shows(d, [Swept EXCEPT ![fs_victim] = r], a, r.data)
    BY <1>2, <2>2, RefilledShows
  <2> QED BY <2>1, <2>3
<1>6. disk[a] = View(a)
  BY <1>2, ViewNow
<1> QED BY <1>5, <1>6

-----------------------------------------------------------------------------
(* A reader sees no difference: the step is a stutter of the file.         *)
LEMMA Unseen ==
  ASSUME PlainCard, CacheInv', UNCHANGED chain,
         \A b \in chain : Shows(disk', buf', b, View(b))
  PROVE  Shown' = Shown
<1>1. \A b \in chain : View(b)' = View(b)
  BY ViewNext
<1> QED BY <1>1 DEF Shown

(* A write-back that stops half-way is hidden by its buffer.               *)
LEMMA VictimFailsUnseen ==
  ASSUME PlainCard, CacheInv, CacheInv', VictimFails
  PROVE  Shown' = Shown
<1>1. fs_victim \in Buffer
  BY VictimType DEF CacheInv, TypeOK
<1>2. PICK s \in WriteFails :
        NeedsWrite(fs_victim) /\ disk' = Stored(disk, fs_victim, s - 1)
  BY DEF VictimFails
<1>3. \A a \in Address : a # buf[fs_victim].cur => disk'[a] = disk[a]
  BY <1>1, <1>2, StoredKeeps DEF CacheInv, TypeOK
<1>4. \A b \in chain : b \in Address
  BY OwnAddress DEF CacheInv
<1>5. \A b \in chain : (\A i \in Buffer : buf[i].cur # b) => disk'[b] = disk[b]
  BY <1>1, <1>3, <1>4
<1>6. \A i \in Buffer : buf'[i].cur = buf[i].cur /\ buf'[i].data = buf[i].data
  BY SweptKeeps DEF VictimFails, CacheInv
<1>7. \A b \in chain : Shows(disk', buf', b, View(b))
  BY <1>5, <1>6, KeptShows
<1> QED BY <1>7, Unseen DEF VictimFails

(* A read that fails leaves the victim written back, with its content.     *)
LEMMA MissFailsUnseen ==
  ASSUME PlainCard, CacheInv, CacheInv', NEW a, MissFails(a)
  PROVE  Shown' = Shown
<1> DEFINE v == fs_victim
<1>1. v \in Buffer /\ Swept \in [Buffer -> BUF]
  BY VictimType, SweptKeeps DEF CacheInv, TypeOK
<1>2. PICK n \in ReadFails :
        buf' = [Swept EXCEPT ![v] =
          [data |-> [s \in Sector |-> IF s < n THEN disk[a][s] ELSE @.data[s]],
           cur |-> @.cur, ref |-> @.ref, dirty |-> FALSE]]
  BY DEF MissFails
<1>3. n = 1
  BY DEF PlainCard
<1>4. [s \in Sector |-> IF s < n THEN disk[a][s] ELSE Swept[v].data[s]] = Swept[v].data
  BY <1>1, <1>3, CacheAssumption DEF BUF, Content, Sector
<1>5. buf'[v].cur = Swept[v].cur /\ buf'[v].data = Swept[v].data
  BY <1>1, <1>2, <1>4
<1>6. \A i \in Buffer : i # v => buf'[i] = Swept[i]
  BY <1>1, <1>2
<1>7. \A i \in Buffer : buf'[i].cur = buf[i].cur /\ buf'[i].data = buf[i].data
  BY <1>5, <1>6, SweptKeeps DEF CacheInv
<1>8. \A b \in chain : b \in Address
  BY OwnAddress DEF CacheInv
<1>9. \A b \in chain : (\A i \in Buffer : buf[i].cur # b) => disk'[b] = disk[b]
  BY <1>1, <1>8, WrittenBackKeeps DEF MissFails
<1>10. \A b \in chain : Shows(disk', buf', b, View(b))
  BY <1>7, <1>9, KeptShows
<1> QED BY <1>10, Unseen DEF MissFails

(* fs_read_4k, found or not, changes nothing to a reader.                  *)
LEMMA ReadUnseen ==
  ASSUME PlainCard, CacheInv, CacheInv', NEW b \in chain, fs_read(b)
  PROVE  Shown' = Shown
<1>1. b + Base = b
  BY OwnAddress DEF CacheInv
<1>2. CASE Found(b) # {}
  <2>1. /\ buf' = [buf EXCEPT ![First(Found(b))].ref = TRUE]
        /\ UNCHANGED <<disk, clock_head, chain>>
    BY <1>1, <1>2 DEF fs_read, Hit
  <2>2. \A i \in Buffer : buf'[i].cur = buf[i].cur /\ buf'[i].data = buf[i].data
    BY <2>1 DEF CacheInv, TypeOK, BUF
  <2>3. \A c \in chain : Shows(disk', buf', c, View(c))
    BY <2>1, <2>2, KeptShows
  <2> QED BY <2>1, <2>3, Unseen
<1>3. CASE Found(b) = {} /\ Miss(b)
  <2> DEFINE r == [data |-> disk[b], cur |-> b, ref |-> TRUE, dirty |-> FALSE]
  <2>1. buf' = [Swept EXCEPT ![fs_victim] = r] /\ r.cur = b /\ r.data = disk[b]
    BY <1>3 DEF Miss, Filled
  <2>2. disk' = WrittenBack(fs_victim) /\ UNCHANGED chain
    BY <1>3 DEF Miss
  <2> HIDE DEF r
  <2>3. /\ \A c \in chain : c # b => Shows(disk', buf', c, View(c))
        /\ Shows(disk', buf', b, r.data)
        /\ disk[b] = View(b)
    BY <1>3, <2>1, <2>2, MissShows, Zenon
  <2>4. \A c \in chain : Shows(disk', buf', c, View(c))
    BY <2>1, <2>3
  <2> QED BY <2>2, <2>4, Unseen
<1> QED BY <1>1, <1>2, <1>3, VictimFailsUnseen, MissFailsUnseen DEF fs_read

(* A write that succeeds is FileBlocks's, one that fails a stutter.        *)
LEMMA Written ==
  ASSUME PlainCard, CacheInv, CacheInv', UNCHANGED chain,
         NEW b \in chain, NEW s \in Sector, NEW v \in Value,
         \A c \in chain : c # b => Shows(disk', buf', c, View(c)),
         Shows(disk', buf', b, [View(b) EXCEPT ![s] = v])
  PROVE  Shown' = [Shown EXCEPT ![b][s] = v]
<1>1. \A c \in chain : c # b => View(c)' = View(c)
  BY ViewNext
<1>2. View(b)' = [View(b) EXCEPT ![s] = v]
  BY ViewNext
<1>3. Shown' = [c \in chain |-> IF c = b THEN [View(b) EXCEPT ![s] = v] ELSE View(c)]
  BY <1>1, <1>2 DEF Shown
<1> QED BY <1>3 DEF Shown

LEMMA WriteRefines ==
  ASSUME PlainCard, CacheInv, CacheInv',
         NEW b \in chain, NEW s \in Sector, NEW v \in Value, fs_write(b, s, v)
  PROVE  Shown' = Shown \/ Shown' = [Shown EXCEPT ![b][s] = v]
<1>1. b + Base = b /\ b # None
  BY OwnAddress, Ranges DEF CacheInv
<1>2. CASE Found(b) # {}
  <2> DEFINE i == First(Found(b))
  <2>1. i \in Buffer /\ buf[i].cur = b
    BY <1>2, FoundIn DEF CacheInv, Found
  <2>2. buf' = Changed(buf, i, s, v) /\ UNCHANGED <<disk, clock_head, chain>>
    BY <1>1, <1>2 DEF fs_write
  <2> HIDE DEF i
  <2>3. /\ buf'[i].cur = b /\ buf'[i].data = [buf[i].data EXCEPT ![s] = v]
        /\ \A j \in Buffer : j # i => buf'[j] = buf[j]
    BY <2>1, <2>2 DEF Changed, CacheInv, TypeOK
  <2>4. buf[i].data = View(b)
    BY <2>1, ViewNow
  <2>5. Shows(disk', buf', b, [View(b) EXCEPT ![s] = v])
    BY <2>1, <2>3, <2>4 DEF Shows
  <2>6. ASSUME NEW c \in chain, c # b
        PROVE  Shows(disk', buf', c, View(c))
    <3>1. Shows(disk, buf, c, View(c))
      BY ViewNow
    <3> QED BY <2>1, <2>2, <2>3, <2>6, <3>1 DEF Shows
  <2> QED BY <2>2, <2>5, <2>6, Written
<1>3. CASE /\ Found(b) = {}
           /\ disk' = WrittenBack(fs_victim)
           /\ buf' = Changed(Filled(fs_victim, b, disk[b]), fs_victim, s, v)
           /\ UNCHANGED chain
  <2> DEFINE r == [data |-> [disk[b] EXCEPT ![s] = v], cur |-> b,
                   ref |-> TRUE, dirty |-> TRUE]
  <2>1. fs_victim \in Buffer /\ Swept \in [Buffer -> BUF]
    BY VictimType, SweptKeeps DEF CacheInv, TypeOK
  <2>2. buf' = [Swept EXCEPT ![fs_victim] = r]
    BY <1>3, <2>1 DEF Changed, Filled
  <2>3. r.cur = b /\ r.data = [disk[b] EXCEPT ![s] = v]
    OBVIOUS
  <2> HIDE DEF r
  <2>4. /\ \A c \in chain : c # b => Shows(disk', buf', c, View(c))
        /\ Shows(disk', buf', b, r.data)
        /\ disk[b] = View(b)
    BY <1>3, <2>2, <2>3, MissShows, Zenon
  <2>5. Shows(disk', buf', b, [View(b) EXCEPT ![s] = v])
    BY <2>3, <2>4
  <2> QED BY <1>3, <2>4, <2>5, Written
<1> QED BY <1>1, <1>2, <1>3, VictimFailsUnseen, MissFailsUnseen DEF fs_write

(* Erasing a new block on the card, if it fails, concerns no block of the  *)
(* file.                                                                   *)
LEMMA EraseFailsUnseen ==
  ASSUME PlainCard, CacheInv, CacheInv', NEW b \in Block \ chain, EraseFails(b)
  PROVE  Shown' = Shown
<1>1. \A c \in chain : disk'[c] = disk[c]
  <2>1. PICK s \in WriteFails : disk' = Erased(b, s - 1)
    BY DEF EraseFails
  <2>2. chain \subseteq Address
    BY OwnAddress DEF CacheInv
  <2> QED BY <2>1, <2>2 DEF Erased, CacheInv, TypeOK
<1>2. UNCHANGED <<buf, clock_head, chain>>
  BY DEF EraseFails
<1>3. \A c \in chain : Shows(disk', buf', c, View(c))
  BY <1>1, <1>2, KeptShows
<1> QED BY <1>2, <1>3, Unseen

(* A new block is empty, in the victim's buffer or on the card, and the    *)
(* others read as before.                                                  *)
LEMMA ClrRefines ==
  ASSUME PlainCard, CacheInv, CacheInv', NEW b \in Block \ chain, fs_clr(b)
  PROVE  Shown' = [c \in chain \union {b} |-> IF c = b THEN Blank ELSE Shown[c]]
<1> DEFINE v == fs_victim
           erased == Erased(b, NSECTOR)
           r == [data |-> Blank, cur |-> b, ref |-> FALSE, dirty |-> FALSE]
<1>1. v \in Buffer
  BY VictimType DEF CacheInv, TypeOK
<1>2. /\ erased \in [Address -> Content]
      /\ erased[b] = Blank
      /\ \A i \in Buffer : buf[i].cur # b
      /\ b \in Address /\ b # None /\ chain \subseteq Address
  BY ErasedKeeps, Ranges, OwnAddress DEF CacheInv, OwnBlocks
<1>3. \A c \in chain : erased[c] = disk[c]
  BY <1>2 DEF Erased, CacheInv, TypeOK
<1>4. chain' = chain \union {b}
  BY DEF fs_clr
<1>5. r.cur = b /\ r.data = Blank
  OBVIOUS
<1> HIDE DEF v, erased, r
<1>6. /\ \A c \in chain : Shows(disk', buf', c, View(c))
      /\ Shows(disk', buf', b, Blank)
  <2>1. CASE /\ disk' = IF NeedsWrite(v) THEN Stored(erased, v, NSECTOR) ELSE erased
             /\ buf' = [Swept EXCEPT ![v] = r]
    <3>1. \A c \in chain : c # buf[v].cur => disk'[c] = disk[c]
      BY <1>1, <1>2, <1>3, <2>1, StoredKeeps DEF CacheInv
    <3>2. buf[v].cur # None => disk'[buf[v].cur] = buf[v].data
      <4>1. CASE NeedsWrite(v)
        BY <1>1, <1>2, <2>1, <4>1, StoredKeeps DEF CacheInv
      <4>2. CASE ~NeedsWrite(v)
        BY <1>1, <1>3, <2>1, <4>2
           DEF NeedsWrite, CacheInv, CleanIsStored, OwnBlocks
      <4> QED BY <4>1, <4>2
    <3>3. /\ \A c \in chain : c # b => Shows(disk', [Swept EXCEPT ![v] = r], c, View(c))
          /\ Shows(disk', [Swept EXCEPT ![v] = r], b, r.data)
      BY <1>2, <1>5, <3>1, <3>2, RefilledShows DEF v
    <3> QED BY <1>5, <2>1, <3>3
  <2>2. CASE /\ NeedsWrite(v)
             /\ \E s \in WriteFails : disk' = Stored(erased, v, s - 1)
             /\ buf' = Swept
    <3>1. \A a \in Address : a # buf[v].cur => disk'[a] = erased[a]
      BY <1>1, <1>2, <2>2, StoredKeeps DEF CacheInv
    <3>2. \A i \in Buffer : buf'[i].cur = buf[i].cur /\ buf'[i].data = buf[i].data
      BY <2>2, SweptKeeps DEF CacheInv
    <3>3. \A c \in chain : (\A i \in Buffer : buf[i].cur # c) => disk'[c] = disk[c]
      BY <1>1, <1>2, <1>3, <3>1
    <3>4. \A c \in chain : Shows(disk', buf', c, View(c))
      BY <3>2, <3>3, KeptShows
    <3>5. Shows(disk', buf', b, Blank)
      BY <1>1, <1>2, <3>1, <3>2 DEF Shows
    <3> QED BY <3>4, <3>5
  <2> QED BY <2>1, <2>2 DEF fs_clr, v, erased, r
<1>7. \A c \in chain : View(c)' = View(c)
  BY <1>4, <1>6, ViewNext
<1>8. View(b)' = Blank
  BY <1>4, <1>6, ViewNext
<1> QED BY <1>4, <1>7, <1>8 DEF Shown

(* fs_close writes what the buffers hold, where they hold it.              *)
LEMMA WriteBuffersUnseen ==
  ASSUME PlainCard, CacheInv, CacheInv', WriteBuffers
  PROVE  Shown' = Shown
<1>1. ASSUME NEW n, NEW b \in chain, \A i \in Buffer : buf[i].cur # b
      PROVE  WrittenBelow(n)[b] = disk[b]
  <2>1. b \in Address
    BY OwnAddress DEF CacheInv
  <2>2. {i \in Buffer : i < n /\ NeedsWrite(i) /\ buf[i].cur = b} = {}
    BY <1>1
  <2> QED BY <2>1, <2>2 DEF WrittenBelow
<1>2. \A n : \A i \in Buffer : /\ CleanBelow(n)[i].cur = buf[i].cur
                              /\ CleanBelow(n)[i].data = buf[i].data
  BY WrittenBelowKeeps
<1>3. CASE disk' = WrittenBelow(NBUF) /\ buf' = CleanBelow(NBUF)
  <2>1. \A b \in chain : Shows(disk', buf', b, View(b))
    BY <1>1, <1>2, <1>3, KeptShows
  <2> QED BY <2>1, Unseen DEF WriteBuffers
<1>4. ASSUME NEW i \in Buffer, NEW s \in WriteFails, NeedsWrite(i),
             disk' = Stored(WrittenBelow(i), i, s - 1), buf' = CleanBelow(i)
      PROVE  Shown' = Shown
  <2>1. \A a \in Address : a # buf[i].cur => disk'[a] = WrittenBelow(i)[a]
    BY <1>4, WrittenBelowKeeps, StoredKeeps DEF CacheInv
  <2>2. chain \subseteq Address
    BY OwnAddress DEF CacheInv
  <2>3. \A b \in chain : (\A j \in Buffer : buf[j].cur # b) => disk'[b] = disk[b]
    BY <1>1, <1>4, <2>1, <2>2
  <2>4. \A b \in chain : Shows(disk', buf', b, View(b))
    BY <1>2, <1>4, <2>3, KeptShows
  <2> QED BY <2>4, Unseen DEF WriteBuffers
<1> QED BY <1>3, <1>4 DEF WriteBuffers

-----------------------------------------------------------------------------
LEMMA FileInit ==
  ASSUME PlainCard, Init
  PROVE  File!Init
<1>1. CacheInv
  BY InitInv
<1>2. Shown \in [chain -> Content]
  BY <1>1, ViewNow DEF Shown
<1>3. chain \in SUBSET Block
  BY <1>1 DEF CacheInv, TypeOK
<1> QED BY <1>2, <1>3 DEF File!Init, Shown, Content

LEMMA FileNext ==
  ASSUME PlainCard, CacheInv, CacheInv', [Next]_vars
  PROVE  Shown' = Shown \/ File!Next
<1>0. DOMAIN Shown = chain
  BY DEF Shown
<1>1. ASSUME NEW b \in chain, fs_read(b)
      PROVE  Shown' = Shown
  BY <1>1, ReadUnseen
<1>2. ASSUME NEW b \in chain, NEW s \in Sector, NEW v \in Value, fs_write(b, s, v)
      PROVE  Shown' = Shown \/ File!Next
  <2>1. Shown' = Shown \/ Shown' = [Shown EXCEPT ![b][s] = v]
    BY <1>2, WriteRefines
  <2>2. Shown' = [Shown EXCEPT ![b][s] = v] => File!Write(b, s, v)
    BY DEF File!Write, Shown
  <2>3. File!Write(b, s, v) => File!Next
    BY <1>0 DEF File!Next, Shown
  <2> QED BY <2>1, <2>2, <2>3
<1>3. ASSUME NEW b \in Block \ chain, EraseFails(b)
      PROVE  Shown' = Shown
  BY <1>3, EraseFailsUnseen
<1>4. ASSUME NEW b \in Block \ chain, fs_clr(b)
      PROVE  File!Next
  <2>1. Shown' = [c \in chain \union {b} |-> IF c = b THEN Blank ELSE Shown[c]]
    BY <1>4, ClrRefines
  <2>2. File!Extend(b)
    BY <1>0, <2>1 DEF File!Extend, Shown, Blank
  <2> QED BY <1>0, <2>2 DEF File!Next, Shown
<1>5. CASE WriteBuffers
  BY <1>5, WriteBuffersUnseen
<1>6. CASE UNCHANGED vars
  BY <1>6 DEF vars, Shown, View, Found
<1> QED BY <1>1, <1>2, <1>3, <1>4, <1>5, <1>6 DEF Next

(* Through the buffers the file's blocks read back as they were written,   *)
(* whatever is replaced, written back or fails, and a new one is empty:    *)
(* the cache implements FileBlocks.                                        *)
THEOREM CacheReadsBack ==
  ASSUME PlainCard
  PROVE  Spec => ReadsBack
<1>1. Init => File!Init
  BY FileInit
<1>2. CacheInv /\ CacheInv' /\ [Next]_vars => [File!Next]_Shown
  BY FileNext
<1>3. CacheInv /\ CacheInv' /\ [Next]_vars => [File!Next]_[b \in chain |-> View(b)]
  BY <1>2 DEF Shown
<1> QED BY <1>1, <1>3, CacheInductive, PTL DEF Spec, ReadsBack, File!Spec
=============================================================================
