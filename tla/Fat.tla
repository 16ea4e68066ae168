--------------------------------- MODULE Fat --------------------------------
(***************************************************************************)
(* The FAT32 file system of kernel/fs/fat, as the Shell's commands touch,  *)
(* mkdir, vi, rm, rmdir and mv use it.  The FAT, the directories and       *)
(* FSInfo have a copy in memory and one on the card; a command changes the *)
(* first and then writes to the card, one block after another.  Whatever   *)
(* the card holds at any moment is what a restart after a power cut would  *)
(* find.                                                                   *)
(*                                                                         *)
(* A file's content is counted in clusters.  A directory is one sector and *)
(* the FAT entries in use are in one sector too.  How blocks are cached,   *)
(* and what a failing card does to them, is BlockCache's subject.          *)
(***************************************************************************)
EXTENDS Integers, Sequences, FiniteSets

CONSTANTS
  NDIR,       \* directories; number d is in cluster d + 1, the root in 2
  Name,
  NSLOT,      \* bound: entries in a directory, which is never full
  NCLUSTER,   \* fat_info.total_data_clusters
  FreeCount,  \* FSI_Free_Count, which the code never changes
  Path,       \* the files the commands name: <<directory, name>>
  Moves,      \* pairs of source and destination the commands move
  Value,      \* what a cluster may hold
  Zero,
  Dots,       \* the cluster of a new directory
  MaxSave     \* bound: clusters an editor saves at once

Dir == 1..NDIR
Cluster == 2..NCLUSTER+1
Slot == Dir \X (1..NSLOT)

ASSUME FatAssumption ==
  /\ {NDIR, NSLOT, NCLUSTER, MaxSave} \subseteq Nat \ {0}
  /\ Cardinality(Name) <= NSLOT
  /\ NDIR < NCLUSTER
  /\ FreeCount \in Nat
  /\ Path \subseteq Dir \X Name /\ Moves \subseteq Path \X Path
  /\ {Zero, Dots} \intersect Value = {} /\ Zero # Dots

EOC == -1        \* above every cluster number: the end of a chain
Empty == [name |-> "", start |-> 0, size |-> 0]   \* 0 or 0xE5 in the name

VARIABLES
  fat,     \* FAT entries: 0 when free, the next cluster, or EOC
  hint,    \* FSI_Nxt_Free
  dir,     \* directory entries
  card,    \* the four on the card, the clusters' content being only there
  cmd,     \* the command under way: name, arguments, what it does next
  file,    \* its open FILE: the entry's slot, a copy, the dirty data_bufs,
           \*   the cluster fs_write is at and how many are written
  todo,    \* blocks fs_fflush and fs_close have yet to write, in order
  before   \* the files when the command began

vars == <<fat, hint, dir, card, cmd, file, todo, before>>

-----------------------------------------------------------------------------
(***************************************************************************)
(* fs_find and fs_find_empty_entry: the first entry that fits.             *)
(***************************************************************************)
First(S) == CHOOSE s \in S : \A t \in S : s[2] <= t[2]

Named(D, p) == {s \in Slot : s[1] = p[1] /\ D[s] # Empty /\ D[s].name = p[2]}

Exists(D, p) == Named(D, p) # {}

EmptySlots(d) == {s \in Slot : s[1] = d /\ dir[s] = Empty}

(***************************************************************************)
(* get_fat_entry_value again and again, from cluster c on.                 *)
(***************************************************************************)
Walk(F, c) ==
  LET step[n \in 0..NCLUSTER] ==
        IF n = 0 THEN c ELSE IF step[n-1] \in Cluster THEN F[step[n-1]] ELSE step[n-1]
  IN  step

Chain(F, c) == {Walk(F, c)[n] : n \in 0..NCLUSTER} \intersect Cluster

(***************************************************************************)
(* fs_read of the whole file.                                              *)
(***************************************************************************)
Content(D, F, data, p) ==
  LET e == D[First(Named(D, p))]
  IN  [i \in 1..e.size |-> data[Walk(F, e.start)[i-1]]]

Files(D, F, data) ==
  [p \in {q \in Path : Exists(D, q)} |-> Content(D, F, data, p)]

-----------------------------------------------------------------------------
(***************************************************************************)
(* fs_alloc: the cluster after the hint, or the first free one when the    *)
(* hint seems illegal; then the hint moves to before the next free one.    *)
(* Without a next one it fails, with the cluster marked.                   *)
(* Without any the entry asked for lies beyond the card, and it fails too. *)
(***************************************************************************)
FreeFrom(F, c) == {k \in Cluster : k >= c /\ F[k] = 0}

Least(S) == CHOOSE k \in S : \A j \in S : k <= j

Candidate == IF hint + 1 > FreeCount + 1
             THEN (IF FreeFrom(fat, 2) = {} THEN 0 ELSE Least(FreeFrom(fat, 2)))
             ELSE hint + 1

Marked(c) == [fat EXCEPT ![c] = EOC]

CanAlloc == Candidate # 0 /\ FreeFrom(Marked(Candidate), Candidate) # {}

NextHintAfter(c) == Least(FreeFrom(Marked(c), c))

NextHintStays(c) == hint

NextHint(c) == Least(FreeFrom(Marked(c), c)) - 1

-----------------------------------------------------------------------------
(***************************************************************************)
(* fs_fflush writes FSInfo, the FAT and the directories; fs_close then the *)
(* data.                                                                   *)
(***************************************************************************)
DirectoriesFirst == <<"info", "dir", "fat">>

fs_fflush == <<"info", "fat", "dir">>

Pending == todo # <<>>

WriteInfo ==
  /\ Pending /\ Head(todo) = "info"
  /\ card' = [card EXCEPT !.hint = hint]
  /\ todo' = Tail(todo)
  /\ UNCHANGED <<fat, hint, dir, cmd, file, before>>

WriteFat ==
  /\ Pending /\ Head(todo) = "fat"
  /\ card' = [card EXCEPT !.fat = fat]
  /\ todo' = Tail(todo)
  /\ UNCHANGED <<fat, hint, dir, cmd, file, before>>

WriteDir ==
  /\ Pending /\ Head(todo) = "dir"
  /\ card' = [card EXCEPT !.dir = dir]
  /\ todo' = Tail(todo)
  /\ UNCHANGED <<fat, hint, dir, cmd, file, before>>

WriteData ==
  /\ Pending /\ Head(todo) = "data"
  /\ IF file.buf = {} THEN todo' = Tail(todo) /\ UNCHANGED <<card, file>>
     ELSE \E c \in file.buf :
            /\ card' = [card EXCEPT !.data[c] = cmd.value]
            /\ file' = [file EXCEPT !.buf = @ \ {c}]
            /\ UNCHANGED todo
  /\ UNCHANGED <<fat, hint, dir, cmd, before>>

(***************************************************************************)
(* A FAT sector is also written when another one takes its buffer.         *)
(***************************************************************************)
write_fat_sector ==
  /\ cmd.next # "idle" /\ ~Pending
  /\ card.fat # fat
  /\ card' = [card EXCEPT !.fat = fat]
  /\ UNCHANGED <<fat, hint, dir, cmd, file, todo, before>>

-----------------------------------------------------------------------------
NoFile == [slot |-> <<1, 1>>, entry |-> Empty, buf |-> {}, at |-> 0, done |-> 0]

NoCommand == [next |-> "idle", op |-> "none", src |-> <<>>, dst |-> <<>>,
              count |-> 0, value |-> Zero]

Opened(p) ==
  LET s == First(Named(dir, p))
  IN  [NoFile EXCEPT !.slot = s, !.entry = dir[s], !.at = dir[s].start]

Begin(op, p, q, n, v, next) ==
  /\ cmd.next = "idle"
  /\ cmd' = [next |-> next, op |-> op, src |-> p, dst |-> q, count |-> n, value |-> v]
  /\ before' = Files(dir, fat, card.data)

Goes(next) == cmd.next = next /\ ~Pending

(***************************************************************************)
(* fs_create_with_attr.                                                    *)
(***************************************************************************)
Create(p) ==
  /\ ~Exists(dir, p) /\ EmptySlots(p[1]) # {}
  /\ dir' = [dir EXCEPT ![First(EmptySlots(p[1]))] = [Empty EXCEPT !.name = p[2]]]
  /\ todo' = fs_fflush
  /\ UNCHANGED <<fat, hint, card, file>>

touch(p) == Begin("touch", p, p, 0, Zero, "return") /\ Create(p)

(***************************************************************************)
(* myvi's save_file: create the file when there is none, open it, write    *)
(* from its start, close it, whatever the calls before return.  A file of  *)
(* Path can be created: its directory exists and has room for its names.   *)
(* StraySave has what happens when it cannot.                              *)
(***************************************************************************)
vi(p, n, v) ==
  \/ Begin("vi", p, p, n, v, "open") /\ Create(p)
  \/ /\ Exists(dir, p)
     /\ Begin("vi", p, p, n, v, "write")
     /\ file' = Opened(p)
     /\ UNCHANGED <<fat, hint, dir, card, todo>>

(***************************************************************************)
(* fs_mkdir: create the entry, open it, write the entries of itself and of *)
(* its parent into a first cluster, and close it with size 0.  What other  *)
(* commands put into the new directory is left out.                        *)
(***************************************************************************)
mkdir(p) == Begin("mkdir", p, p, 1, Dots, "open") /\ Create(p)

Open ==
  /\ Goes("open")
  /\ file' = Opened(cmd.src)
  /\ cmd' = [cmd EXCEPT !.next = "write"]
  /\ UNCHANGED <<fat, hint, dir, card, todo, before>>

(***************************************************************************)
(* fs_write, a cluster at a time: the first or a next one is allocated and *)
(* erased when the chain has none.  The size grows when all are written.   *)
(***************************************************************************)
NeedsCluster ==
  IF file.at = 0 THEN TRUE ELSE file.done > 0 /\ fat[file.at] = EOC

GrownAlways(size, n) == n

Grown(size, n) == IF n > size THEN n ELSE size

Written(c, entry) ==
  /\ file' = [file EXCEPT !.buf = @ \union {c}, !.at = c, !.done = @ + 1,
                          !.entry = IF file.done + 1 = cmd.count
                                    THEN [entry EXCEPT !.size = Grown(@, cmd.count)]
                                    ELSE entry]
  /\ cmd' = [cmd EXCEPT !.next = IF file.done + 1 = cmd.count THEN "close" ELSE "write"]
  /\ UNCHANGED <<dir, todo, before>>

WriteNext ==
  /\ Goes("write") /\ ~NeedsCluster
  /\ Written(IF file.done = 0 THEN file.at ELSE fat[file.at], file.entry)
  /\ UNCHANGED <<fat, hint, card>>

WriteNew ==
  LET c == Candidate
  IN  /\ Goes("write") /\ NeedsCluster /\ CanAlloc
      /\ hint' = NextHint(c)
      /\ card' = [card EXCEPT !.data[c] = Zero]
      /\ fat' = IF file.at = 0 THEN Marked(c) ELSE [Marked(c) EXCEPT ![file.at] = c]
      /\ Written(c, IF file.at = 0 THEN [file.entry EXCEPT !.start = c] ELSE file.entry)

WriteFails ==
  /\ Goes("write") /\ NeedsCluster /\ ~CanAlloc
  /\ fat' = IF Candidate = 0 THEN fat ELSE Marked(Candidate)
  /\ cmd' = [cmd EXCEPT !.next = "close"]
  /\ UNCHANGED <<hint, dir, card, file, todo, before>>

(***************************************************************************)
(* fs_close, also when fs_write failed: save_file does not look, and mkdir *)
(* takes any result but 1 for a success, its two further calls failing in  *)
(* the same way.                                                           *)
(***************************************************************************)
Closed == IF cmd.op = "mkdir" THEN [file.entry EXCEPT !.size = 0] ELSE file.entry

Close ==
  /\ Goes("close")
  /\ dir' = [dir EXCEPT ![file.slot] = Closed]
  /\ todo' = fs_fflush \o <<"data">>
  /\ cmd' = [cmd EXCEPT !.next = "return"]
  /\ UNCHANGED <<fat, hint, card, file, before>>

(***************************************************************************)
(* fs_rm: release the chain, then close with the entry marked as deleted.  *)
(***************************************************************************)
rm(p) ==
  /\ Exists(dir, p)
  /\ Begin("rm", p, p, 0, Zero, "close")
  /\ fat' = [c \in Cluster |-> IF c \in Chain(fat, Opened(p).entry.start)
                               THEN 0 ELSE fat[c]]
  /\ file' = [Opened(p) EXCEPT !.entry = Empty]
  /\ UNCHANGED <<hint, dir, card, todo>>

(* fs_rmdir does the same, whatever the entry is and whoever is in it.     *)
rmdir(p) == rm(p)

(***************************************************************************)
(* fs_mv: create the destination, give it the source's entry, all 32 bytes *)
(* of it, and delete the source's.                                         *)
(***************************************************************************)
mv(p, q) ==
  /\ Exists(dir, p)
  /\ Begin("mv", p, q, 0, Zero, "copy")
  /\ file' = Opened(p)
  /\ ~Exists(dir, q) /\ EmptySlots(q[1]) # {}
  /\ dir' = [dir EXCEPT ![First(EmptySlots(q[1]))] = [Empty EXCEPT !.name = q[2]]]
  /\ todo' = fs_fflush
  /\ UNCHANGED <<fat, hint, card>>

Copy ==
  /\ Goes("copy")
  /\ dir' = [dir EXCEPT ![First(Named(dir, cmd.dst))] = file.entry]
  /\ file' = [file EXCEPT !.entry = Empty]
  /\ todo' = fs_fflush
  /\ cmd' = [cmd EXCEPT !.next = "close"]
  /\ UNCHANGED <<fat, hint, card, before>>

Return ==
  /\ Goes("return")
  /\ cmd' = NoCommand /\ file' = NoFile /\ before' = <<>>
  /\ UNCHANGED <<fat, hint, dir, card, todo>>

-----------------------------------------------------------------------------
(***************************************************************************)
(* A card with the directories and no files.                               *)
(***************************************************************************)
Init ==
  /\ fat = [c \in Cluster |-> IF c <= NDIR + 1 THEN EOC ELSE 0]
  /\ hint = NDIR + 1
  /\ dir = [s \in Slot |-> Empty]
  /\ card = [fat |-> fat, hint |-> hint, dir |-> dir, data |-> [c \in Cluster |-> Zero]]
  /\ cmd = NoCommand /\ file = NoFile /\ todo = <<>> /\ before = <<>>

Next ==
  \/ \E p \in Path : touch(p) \/ mkdir(p) \/ rm(p) \/ rmdir(p)
  \/ \E p \in Path, n \in 1..MaxSave, v \in Value : vi(p, n, v)
  \/ \E m \in Moves : mv(m[1], m[2])
  \/ Open \/ WriteNext \/ WriteNew \/ WriteFails \/ Close \/ Copy \/ Return
  \/ WriteInfo \/ WriteFat \/ WriteDir \/ WriteData
  \/ write_fat_sector

Spec == Init /\ [][Next]_vars

-----------------------------------------------------------------------------
Entry == [name : Name \union {""}, start : Cluster \union {0}, size : 0..NCLUSTER]

TypeOK ==
  /\ fat \in [Cluster -> Cluster \union {0, EOC}]
  /\ hint \in 1..NCLUSTER
  /\ dir \in [Slot -> Entry]
  /\ card \in [fat : [Cluster -> Cluster \union {0, EOC}], hint : 1..NCLUSTER,
               dir : [Slot -> Entry], data : [Cluster -> Value \union {Zero, Dots}]]
  /\ cmd.next \in {"idle", "open", "write", "close", "copy", "return"}
  /\ file.slot \in Slot /\ file.entry \in Entry /\ file.buf \subseteq Cluster
  /\ file.at \in Cluster \union {0} /\ file.done \in 0..MaxSave
  /\ DOMAIN before \subseteq Path

(* Every chain of a directory on the card ends, has no free cluster and    *)
(* none of another file or of a directory, and is as long as the entry     *)
(* says; not only between commands but wherever the power goes while a     *)
(* file is created or saved (fs_fflush's order, fs_alloc's choice).        *)
Sound(D, F) ==
  LET used == {s \in Slot : D[s] # Empty}
  IN  /\ \A s \in used :
           /\ Walk(F, D[s].start)[NCLUSTER] = (IF D[s].start = 0 THEN 0 ELSE EOC)
           /\ D[s].size <= Cardinality(Chain(F, D[s].start))
           /\ \A d \in Dir : d + 1 \notin Chain(F, D[s].start)
      /\ \A s, t \in used :
           s # t => Chain(F, D[s].start) \intersect Chain(F, D[t].start) = {}

CardSound == cmd.op \notin {"rm", "mv"} => Sound(card.dir, card.fat)

(* A power cut costs at most the file the command is about: all others are *)
(* on the card as they were when it began (every command on files in       *)
(* directories there are, whether or not it finds room, at every block it  *)
(* writes; between commands all files are there).                          *)
OthersSurvive ==
  IF cmd.next = "idle"
  THEN Files(card.dir, card.fat, card.data) = Files(dir, fat, card.data)
  ELSE \A p \in Path \ {cmd.src, cmd.dst} :
         /\ Exists(card.dir, p) <=> p \in DOMAIN before
         /\ p \in DOMAIN before => Content(card.dir, card.fat, card.data, p) = before[p]

(* The commands are calls of a file store: when one returns it has done to *)
(* the files it names what it is called after, and nothing to others       *)
(* (moves that keep the name; mkdir leaves an entry of size 0).            *)
Store == INSTANCE FileStore WITH
  call  <- [op |-> cmd.op, src |-> cmd.src, dst |-> cmd.dst,
            count |-> cmd.count, value |-> cmd.value],
  store <- IF cmd.next = "idle" THEN Files(dir, fat, card.data) ELSE before

ImplementsStore == Store!Spec
=============================================================================
