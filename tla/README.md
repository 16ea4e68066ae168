# A verification project for the Mini Operating System

The repository is a teaching kernel (ZJUNIX) for a single MIPS32 processor: a
boot-time memory manager, a buddy and a slab allocator, a multi-level feedback
scheduler with fork, exit and kill, a FAT32 file system with block caches, a
handful of drivers and a Shell that runs as a kernel process. This directory
holds TLA+ models of it, TLC configurations that check them on small instances
and TLAPS proofs that hold for every instance. Paths below are relative to the
repository's root.

## 1. The system

### How it runs

`init_kernel` (`kernel/init.c`) sets up the memory managers, the file system, the
system calls and process control, creates two processes (the Shell and a clock),
and enables interrupts. From then on it idles as the process `init`, which has
ASID 0 and is never scheduled again. There is one processor. System calls,
interrupts and exceptions run to completion with interrupts off; everything
else, the Shell's kernel procedures included, runs with interrupts on, and the
only thing that takes the processor away is interrupt 7, the timer. `lockup`
(`kernel/lock/lock.c`) sets a flag and returns: it neither waits nor keeps
interrupts off, so it excludes nobody.

### Components

| component | source | state | operations | who calls it |
|---|---|---|---|---|
| identifiers | `kernel/pc/pid.c` | bitmap `page`, `nr_free`, `last_pid` | `alloc_pidmap`, `free_pidmap` | fork, kill, Shell |
| process control | `kernel/pc/pc.c` | `task_queue[8].pcb[16]`, `curr_proc[8]`, `curr_queue`, `kill_state` | `pc_schedule`, `pc_create`, `do_fork`, `pc_preempt_syscall`, `pc_kill_syscall`, `pc_kill`, `alt_kill_mode`, `pc_peek` | timer, system calls, exceptions, Shell |
| Shell | `usr/ps.c` | command buffer | `parse_cmd` | the keyboard's user |
| buddy allocator | `kernel/mm/buddy.c` | `struct page` array, five free lists with counts | `init_buddy`, `__alloc_pages`, `__free_pages` | slab, kmalloc, fork |
| slab, kmalloc | `kernel/mm/slab.c` | ten caches: a current page, partial and full lists | `kmalloc`, `kfree` | everybody |
| boot memory | `kernel/mm/bootmm.c` | page map, at most ten segments | `bootmm_alloc_pages`, `bootmm_free_pages` | `init_buddy` |
| block caches | `kernel/fs/fscache/fscache.c` | buffers with sector, reference and dirty bit; clock hand | `fs_read_*`, `fs_write_*`, `fs_clr_*` | FAT32 |
| FAT32 | `kernel/fs/fat/*.c` | FAT, FSInfo hints, directory entries, open files | open, read, write, close, create, rm, mv, cp, mkdir | Shell |
| file tree | `kernel/fs/tree/tree.c` | linked nodes | add, find, delete | Shell |
| keyboard | `kernel/driver/ps2.c` | ring of 32 keys, two indices, modifier state, unfinished bytes | `ps2_handler`, `kernel_getkey` | interrupt 2, Shell, editor |
| editor | `usr/myvi.c` | text buffer, cursor, page, mode, last line | `myvi`, one key at a time | Shell |
| SD, display, clock | `kernel/driver/*.c`, `kernel/time/time.c` | device registers | blocks, characters, time string | file system, everybody |

### What is hard about it, and what makes it correct

*Process control* moves PCBs between arrays at every tick. A process that used
its slice up sinks a level, one that was preempted rises; each move is a search
for a free slot and a copy. `pc_create` and `pc_kill` do their own searches and
copies from the Shell **with interrupts on**, so the scheduler can rearrange the
table between any two of their statements. Correct means: no process is lost,
doubled or renamed; the bitmap marks the identifiers in use and no others;
every process has a living parent; a context is loaded only after it was
written; high levels go first and low ones still get their turn.

*The memory managers* keep redundant data (a level and a flag per page, a list,
a count) which a merge trusts. Correct means: no page is lost or given out
twice, and what can be merged has been.

*The file system* keeps the FAT, directory entries and data in three caches
that are written at different moments. Correct means: what was written is what
is read, a cluster belongs to one file, and a power cut loses at most the
operation under way.

*The keyboard's* ring has one writer, the interrupt handler, and one reader, the
Shell, but the reader also clears the whole ring and both indices when its index
wraps, with interrupts on. Correct means: keys arrive once and in order, and a
modifier is on only while its key is held.

*The editor* keeps a location in a text that grows, shrinks and joins its lines
under it, and a page that follows. Correct means: the cursor stays in the text and
on the screen, and what was saved is what is loaded again.

The hazards, each at its line, are in `PROJECT.json`.

## 2. Modules

| module | models | lines of what |
|---|---|---|
| `Pidmap` | `pid.c` | the bitmap as the set `page`; `alloc_pidmap` and `free_pidmap` as one step for a system call, and as their loads and stores for the Shell |
| `ProcessControl` | `pc.c`, the process commands of `ps.c`, exception entry | extends `Pidmap`; one action per handler, several per Shell procedure |
| `ProcessTable` | the promise of process control | identifiers mapped to threads, one of which runs |
| `ProcessControl_proofs` | | the inductive invariant and its proof; then, in a calm environment, the stronger invariant, and `ProcessTable` is implemented |
| `BlockSizes` | block arithmetic of `buddy.c` | sizes, buddies, the pages of a block |
| `NatLemmas` | | arithmetic, finite sets, and aligned blocks and buddies: what the proofs share |
| `Blocks` | the memory `buddy.c` divides | pages and levels; shared by `Buddy` and `SlabCache` |
| `Buddy` | `buddy.c` | the Shell's calls with their reads and writes apart, do_fork's stacks |
| `Buddy_proofs` | | the inductive invariant of the buddy system and its proof |
| `SlabCache` | `slab.c`, `list.h` | one cache over the buddy lists, link by link; every call a caller's sequence of turns |
| `SlabCache_proofs` | | circular lists in memory, halving and merging on them, free chains; the inductive invariant and its proof |
| `BlockCache` | `fscache.c`, and the parts of `fat.c` that use it for a file | one open file's buffers over a card whose accesses may stop half-way |
| `BlockCache_proofs` | | the inductive invariant of the cache and its proof |
| `FileBlocks` | the promise of the cache | the blocks of a file, read back as written |
| `Fat`, `MCFat` | `fat.c`, `mkdir`, `rm`, `rmdir` and `mv` of `usr.c`, `save_file` of `myvi.c` | what is in memory and what is on the card, block by block |
| `StraySave` | `save_file` where the file cannot be created | extends `MCFat` with the editor's global `file`, used again after a failed open |
| `FileStore` | the promise of the file system | named files that are created, saved, removed and moved |
| `PageAllocator` | the promise of the three allocators | sets of pages, disjoint, of the wanted length |
| `BootMemory` | `bootmm.c` | the page map and the records of what is used for what |
| `BootMemory_proofs` | | `find_pages`, the operations on records, the inductive invariant and its proof |
| `Keyboard`, `MCKeyboard` | `ps2.c` | the ring between the interrupt handler and the Shell |
| `Keyboard_proofs` | | the handler's loop, codes on a line of bytes, the ring's window, the inductive invariant and its proof |
| `Editor`, `MCEditor` | `myvi.c` | text, cursor and page, a key per step |
| `Editor_proofs` | | lines, the loading of a file, rows of the screen, the inductive invariants and their proofs |

### ProcessControl and the code

`task_queue[l][s]` is `task_queue[l].pcb[s]` with its ASID, PPID, static priority
and context. The registers are abstracted to the *thread* they resume: `cpu` is
the thread on the processor, `pcb.ctx` the thread whose registers `copy_context`
saved there. With that, "a process resumes somebody else's registers" is a
statement about two variables, which `ImplementsTable` makes. Two contexts are
nobody's thread: `Begun`, when `pc_create` has written the epc and not yet the stack
pointer, and `Torn`, when the two belong to different threads; a PCB that holds one of
them and is scheduled runs as `Torn`.

| action | code |
|---|---|
| `Timer` | interrupt 7, `pc_schedule`: save, requeue one level down (`Requeued`), pick (`Dispatch`) |
| `do_fork` | system call 12, slot search, `alloc_pidmap`, PCB and `curr_proc`, all in the handler |
| `Exit`, `Fault`, `pc_kill_syscall`, `ExitDone` | system call 10 from `exit()` or from `do_exceptions`, which then spins |
| `CmdCreate`, `ShellLoads`, `ShellSets`, `ShellCounts` | the Shell's `alloc_pidmap`: the search; load and store of the bit's word; load and store of `nr_free`, then `last_pid` |
| `CreateSearch`, `CreateFill`, `CreateStack`, `CreateStatic`, `CreatePublish`, `CreateParent`, `pc_preempt_syscall` | `pc_create`: the slot, then epc, sp, static priority, ASID and parent one by one, and system call 11 |
| `CmdProc` | `proc_demo_create`, which takes a slot number for an ASID |
| `CmdKill`, `KillVisit`, `KillClear`, `KillReturn` | `pc_kill`, one slot at a time, nested for children |
| `KillFree`, `ShellFree` | its `free_pidmap`: one step inside the system call; for the Shell load and store of `nr_free`, then of the word |
| `alt_kill_mode` | the command that switches between orphans to init and children die too |

What one step covers: a whole handler when interrupts are off. With interrupts
on, a search of the bitmap or of one level is one step, and every load and every
store of a word that others read or write is another: `old` and `count` are the
registers the Shell holds the loaded values in, and a word of the bitmap has `WORD`
identifiers, whose bits a store overwrites together. `gp` and the argument are the
same for every process and are written with the stack pointer. `CreateParent` reads the current PCB once for the parent's
ASID and for the decision to preempt; `KillVisit` reads `kill_state` at each slot,
which only the Shell's prompt changes. A kernel that spins in `while (1)` with
interrupts off is the mode "stopped", in which nothing more happens: that is why
the configurations switch the deadlock check off. The Shell spinning for a full
level still yields to the timer ("stuck").

Who does what: created and forked threads may fork and exit at any time, the
clock process is an endless loop, any process but init may run into an
exception. `Allowed` names the behaviours an instance admits; an instance
without "timer_in_shell" is the claim *as long as no tick falls into the Shell's
procedures*, and the properties that hold only so are checked only so.

Left out: `time_slice` and the counter (a tick is a slice used up; whether one
was used up during a system call is a nondeterministic choice), names, the
stack pointers, the contents of registers, `print_proc`. The timer during boot is
left out as well: `Init` is the state in which `init_kernel` enables interrupts.
The SD driver enables them earlier, but the first tick is 10,000,000 cycles
after `init_pc`.

### Buddy and the code

`flag`, `bplevel`, `freelist` and `count` are the fields of the same name; `page`
numbers count from `buddy.start_page`. `held` is what the callers have, as the
first page and the level. `init_buddy` frees the pages one by one, so the first
merges of a run are those of the boot. A call of the Shell takes one step per
turn of the loop of `__free_pages` for the test and one for the merge; one step
for the search of `__alloc_pages` and one for what it then writes. List operations
are indivisible, an abstraction which makes the model's races a subset of the
code's. `ForkStack` is `do_fork`'s `kmalloc(8192)`, in a handler; the code never
frees a stack, and `MaxForks` bounds them. A kmalloc that finds nothing spins
("stuck").

### SlabCache and the code

`struct page` has one `list` entry. The buddy system links a free block by it, the
cache a full or a partial page, and `list_empty` of it is how `slab_free` knows the
current page. So this module goes one level below `Buddy`: `links` holds the `prev`
and `next` of every page and list head, `list_add`, `list_add_tail`, `list_del` and
`list_del_init` do to them what `list.h` does, poison included, and following a
poisoned pointer ends the execution (`links.ok`), as the exception would. In
return the calls are not interrupted: only the Shell allocates small objects, and
`Buddy` already shows what a fork in between costs.

An address is a page and an index. `freeobj`, `nr_objs`, `reference` are the page's
fields, `behind` the free pointer each object carries at `cache->offset`, `cpu` is
`cache->cpu.page`; `cache->cpu.freeobj` only repeats its `freeobj`. The loop
`slalloc_check` is `kmalloc`, then `PartialPage` until there is an object, then
`TakeObject`, or `NewPage` and `TakeObject`; `kfree` is one step with its merges.

The callers are the Shell's commands. They keep nearly all they allocate; `cat`
frees its buffer, `exec` its program, `mmtest1` and `mmtest4` the first of two;
`deleteNode` frees only a node without a parent, which of the nodes of the file
tree is the root alone. So at any time at most one object or block is going to
be freed, and `temp` is that one. The interface invites more: a caller that frees
all objects of a page that was full sends it back to the buddy system with its
list entry still on the cache's list (`slab.c:269`), and one that frees between an
allocation from the partial list and the next follows the entry that `list_del`
poisoned (`slab.c:151`). What `slab` shows is that these commands never get there.

### BlockCache and the code

`buf[i]` is `data_buf[i]` with its bits `ref` and `dirty`, `cur` the block, -1 for
0xffffffff. Blocks stand for clusters of `NSECTOR` sectors, addresses are counted
in blocks from the start of the card, `Base` is `fat_info.base_addr`. The clock is
`fs_victim`: the first idle buffer from the hand on, or else the first clean one, or
the one under the hand; `Swept` is what the first sweep does to the reference
bits. An action is a call: the victim, its write-back, and the read. A transfer
that stops at sector `s` has moved the sectors before; the call then returns an
error with the clock moved on and, for a read, the victim's buffer half filled
(`MissFails`). `fs_alloc` erases a block on the card before `fs_clr` files a
fresh buffer for it; `WriteBuffers` is the end of `fs_close`. The 512-byte functions are
the same text for blocks of one sector, and `dir_data_buf` and `fat_buf` use them.

`ReadFails` and `WriteFails` are the sectors at which the card may stop. In `cache` writes
stop anywhere and reads at their first sector. If a read stops at a later one,
the victim's buffer holds the new block's sector under the old block's
number, which the next access of that block returns. So what `cache` claims is
claimed of reads that fail at once or not at all, and of a card without a partition
before the data (`Base` = 0), and the theorems say so in their hypotheses.

### Fat and the code

`fat`, `dir` and `hint` are what memory holds of the FAT, the directories and
FSI_Nxt_Free, `card` what the card has of them, together with the clusters'
content, which has no other place than the card and the open file's buffers
(`file.buf`). A command is a sequence of steps with `cmd.next` as its program
counter; between them come the writes that `fs_fflush` and `fs_close` owe, `todo`, one
per step in the code's order, and a FAT sector may be written early when
another takes its buffer. A power cut is not an action: the invariants speak of
`card` in every state, which is what the next boot would read.

| action | code |
|---|---|
| `touch` | `fs_create_with_attr` and its flush |
| `vi`, `Open`, `WriteNext`, `WriteNew`, `WriteFails`, `Close` | `save_file`: create if new, open, `fs_write` cluster by cluster, `fs_close` |
| `mkdir`, `Open`, `WriteNew`, `WriteFails`, `Close` | `fs_mkdir`: create, open, write the first cluster, close with size 0, also when the write failed: it tests for 1, `fs_write` returns 0xFFFFFFFF |
| `rm`, `rmdir`, `Close` | `fs_rm`, `fs_rmdir`: free the chain in memory, close with the entry marked |
| `mv`, `Copy`, `Close` | `fs_mv`: create, close the destination with the source's entry, close the source |
| `WriteInfo`, `WriteFat`, `WriteDir`, `WriteData` | `fs_fflush`, and the data at the end of `fs_close` |
| `StraySave`: `save_file`, `CloseStray` | `save_file` when `fs_create` and `fs_open` failed: it goes on with the FILE of the file saved before |

`save_file` looks at no result, so `vi` never ends early: a write that fails is followed
by the close. `Path` is what can be created, files in directories there are, with room
for their names; `StraySave` has a file in a directory that does not exist. Then
`file`, a global of `myvi.c`, still is the one of the file saved last. Its clusters get the
new text, and its entry is written at `dir_entry_pos`, which the failed `fs_open` left at
-1: one byte before the first entry of the sector, where the model ends ("ruined").

`FileStore` is told the call under way (`call`: operation, files, what is saved), and
when the call ends the store has changed as that operation and no other says. So a
refinement step cannot be a save answered by a removal, nor a call that returns
without doing anything.

`Candidate`, `CanAlloc` and `NextHint` are `fs_alloc`: it takes the cluster after the hint
without looking whether it is free, and refuses when no further one is, having
marked it. When there is no candidate at all the code asks for the FAT entry of
cluster 0xFFFFFFFF, a sector beyond the card, and fails. Left out: directories
that grow (a directory is one sector; the code past its end is wrong in two
ways, `fat.c:271` and `fat.c:677`), and with them a full directory on a full card; card
errors; what is put into a directory made by `mkdir`; `cp`, whose two names share the
clusters from then on; a path that leads through a plain file; and a stray save before
anything was saved, with a FILE of zeros.

### BootMemory and the code

`bmm` is `bmm`: `used` the pages that are PAGE_USED in `s_map`, `last_alloc`, and `info` the
records up to `count`. Addresses are page-aligned throughout and are page numbers
here, a record's `end` its last page. `Found` is `find_pages` as a recursive function of
the page it has come to, skips included; `Answer` is `bootmm_alloc_pages` with its two
searches, each of which marks its pages before `insert_mminfo` may refuse the record.
`FreeAtEnd`, `FreeInside` and `FreeInsideFirst` are the cases of `bootmm_free_pages`; in the
last one `split_mminfo` counts an unsigned index below zero and goes on moving
memory, the mode "lost". The kernel calls the module once, from `init_buddy`; the
model has the callers its header admits, who free what they were given. `late`
counts the calls since a record was first refused (`MaxLate` bounds them): from
then on map and records differ for good, and only `ImplementsAllocator` is claimed.

### Keyboard and the code

`buffer`, `ready`, `wptr`, `rptr`, `key_buffer`, `keyboard_state` and `keyboard_cmd_state` are the
variables of those names (the modifiers as a set). `wire` is what the keyboard has
yet to deliver, with the acknowledge it sends after the LED command. The n-th entry
stored is the number n, so that order and repetition can be told. Not every entry is a
key: after an acknowledge the handler may read the data register with nothing there and
store what it finds (`Nothing`), which the Shell then gets like a key. `delivered` counts
the entries returned, `wiped` those that `init_buffer` erased before anybody read them.

| action | code |
|---|---|
| `Press`, `Release` | the keyboard: a key's bytes, with its release prefix |
| `ps2_handler` | interrupt 2, the loop's turns until the bytes that are there are used up; after an acknowledge, `continue` goes on with the old count and may read a byte that is not there |
| `GetCopy`, `GetUnready`, `GetAdvance` | `kernel_getkey`, a shared access at a time |
| `EraseBuffer`, `EraseReady`, `ResetWrite`, `ResetRead` | `init_buffer`, called when the index wraps: the two fields of a slot, slot by slot, then the two indices |
| `GetReturn` | the key is returned and the Shell calls again |

The handler may run between any two of the reader's steps. `overrun` and `torn` say
that an entry nobody had read was overwritten, and that one arrived inside
`init_buffer`; the code has both, and the properties say what they do not spoil. Without
either, entries are still lost: when the reader takes the last slot while newer keys
lie in the low ones, `init_buffer` erases those. `PendingWindow` therefore counts: what was
stored is unread in the ring, or was delivered, or was wiped so. A run of the handler
that finds certain status bits set returns before it reads (`ps2.c:132-133`); it changes
nothing and is a stuttering step.
The keys are those that the handler can tell (`KeyAssumption`): one byte below 80, or such
a byte behind e0. F7 is not one of them: its 83 has the bit by which the handler
knows a prefix. Nor are Print Screen and Pause, whose codes are longer.
`kernel_scantoascii`, which looks a key up in a table when it is read, is left out:
it sees the modifiers of that moment, not of the key.

### Editor and the code

`text` is `buffer[0..size-1]`, locations count from 0, and the other variables have the
code's names. An action is a key in a mode, with the scrolling and the drawing
that end its handler; drawing matters for `page_end`. `:wq` ends the editor whatever
the file system did: `SaveSucceeds` writes the text over the file, `SaveFails` leaves what a
create, an open or a write that failed may leave (`Spoilt`), and `RoundTrip` is about the
first. `MaxInst` bounds the last line at the `COLUMN_LEN` bytes the code has for it; it
would write on behind them (`myvi.c:331`). Carriage returns occur in
files, not in what is typed; tabulators are left out. `myvi` opens the file again
after the editor ended, or another one. A backspace at the start of the text
puts the cursor at -1 (`slipped`), and the next key goes to the byte before the
buffer, `below`; the model follows the code to there and not further. `slipped` and
`wide` are not in the code: they remember that this happened, and that a line was
as wide as the screen, since what the properties say ends there.

## 3. Runs

| run | instance | what it shows |
|---|---|---|
| `calm` | 3 levels of 2 slots, 8 identifiers, 3 new threads | without ticks inside the Shell's procedures, without forks after a demotion and without `proc`: `UniqueAsids`, `BitmapExact`, `ParentsLive`, `HighestRuns`, `NoHiddenExhaustion`, and the queues implement `ProcessTable` |
| `live` | 4 slots per level, ticks inside the Shell's procedures too | under fairness every waiting process runs or dies |
| `buddy` | 2 blocks of level 2, levels 0 to 2, 2 stacks | lists and blocks held tile the memory; buddies are merged; a refusal means full; `PageAllocator` is implemented |
| `buddy_race` | the same, forks anywhere | **violation**: a fork between the look at a list and the taking gives one block to two owners |
| `slab` | 4 pages of 3 objects, levels 0 and 1, the Shell's calls | pages in one place, chains exact, no poison followed, spins only when full; `PageAllocator` is implemented in units of objects |
| `cache` | 2 buffers, 3 blocks of 2 sectors, an unpartitioned card, reads that fail at once | `OneCopy`, `CleanIsStored`, `VictimIsCheapest`, and the file's blocks read back: `FileBlocks` is implemented |
| `cache_base` | the same, the partition at block 1 | **violation**: a new block is not erased, another place on the card is |
| `fat` | 3 free clusters, 2 directories of 2 entries, 3 paths, 2 moves | `CardSound` and `OthersSurvive` at every block written; `FileStore` is implemented, call by call |
| `vi_stray` | as `fat`, a save into a directory that is not there | **violation**: the file saved before is written over |
| `boot` | 6 free pages, requests of 1 to 3, alignments 1 and 2, 4 records, 2 types | `RecordsMatchMap` while no record was refused, `RefusesOnlyAround`, and `PageAllocator` is implemented throughout |
| `keys` | a ring of 3, 3 keys out of a letter, Shift, CapsLock and the right Ctrl | `PendingWindow`, `NoStuckModifier`, `AtMostOnce`, and under fairness `Drained` |
| `vi` | 7 characters, a screen of 2 rows of 3, a last line of 3 keys | `CursorInText`; `CursorOnScreen` until a line is as wide as the screen; `RoundTrip` for saves that succeed |

### Bounds

Three levels are enough for a process to be on the base level, in between and
at the top, and the code treats the levels between base and top alike; the
levels below the base are never used by it (`DEFAULT_PRIO` is 0 in the
instances, where the code has 4). Two slots per level make a level full with
two processes, so that every failing search happens, and the search has a slot
to skip. `live` has room on the base level for everybody, see below. Words of two
identifiers let a store of the Shell's write back its neighbour's bit. `MaxSpawn` bounds
the threads started over an execution, not those alive; it leaves the reuse of slots.
For the buddy
system eight pages have every split and every merge of three levels, two top
blocks that must never merge, and a stack level with one above and one below.
Three objects are the fewest any cache of the code has on a page (1024 and 4
bytes each) and tell apart a page's first free, one in between and its last;
four pages make a current, a full, a partial page and a block at the same time,
and are soon used up, so that the slab spins and kmalloc of a block does too.
Two buffers for three blocks replace at every other access and reach all
outcomes of both sweeps; a block of two sectors can be half transferred.
In `fat` three free clusters are few enough that the card gets full with two files,
the hint becomes illegal and the search from the start happens, and
enough that two files have chains of their own. A directory of two entries has a
first one that is deleted and reused; the two moves are one to the other
directory and one back.

Six free pages hold two records of one type with a gap that a third closes, and a
record of three pages that is split in the middle; with four records the limit is
met in every way: by an insertion, by both splits, by the second one only. Two calls
after the first refusal are enough to free the block whose record was removed by
mistake. Three keys in a ring of three, and the zeros that the handler stores after an
acknowledge, make the index wrap with keys unread and the writer overtake the
reader; three bytes on the wire are one whole key
beyond the one the handler is at. The four keys have all forms of byte sequence:
plain, with a prefix, and the one that sends a command back. Seven
characters on two rows of three make lines that fit, wrap, and scroll, and reach
the buffer's limits from both sides; with one letter, since no code tells letters
apart in the text.

### Fairness

`FairSpec` assumes that the timer keeps firing (it is hardware, and Compare is
set again by every schedule) and that a handler in progress goes on. Nothing is
assumed of programs or of the Shell: they may loop for ever. `NobodyStarves` also
needs a free slot on the base level: when it is full, processes of the levels
above cannot sink (`k != 16` fails at `pc.c:182`), keep their level and starve the
base level. The run states the room it needs by its bounds.

`Keyboard` assumes that the interrupt comes once a byte is there, that the status bits
on which the handler returns early (`ps2.c:132`) clear sooner or later (otherwise it would
never read a byte again) and that the Shell goes on reading, as the loop of
`kernel_getchar` does. Nobody has to type. `Drained` excepts executions in which a key
arrived inside `init_buffer`: it may lie where the reading index comes to only after
more keys.

### Findings

Three violations are kept as runs, each refuting a sentence of the code's comments;
`PROJECT.json` has the lines. `buddy_race`: the Shell's kernel procedures are written
as if nothing could interrupt them. `cache_base` is about the ordinary case of a
partitioned card; the maintainers met the same omission elsewhere (`fat.c:349`,
`fat.c:382`). `vi_stray`: the editor ignores that its file could not be opened.

In process control the passing runs stop where the code does, and lifting one
restriction of `calm` gives a counterexample of `ImplementsTable` each. With
"timer_in_shell" in `Allowed`, a tick between the search of `pc_create` and its writes
moves a process into the slot found, which is then overwritten (`pc.c:293`), and a tick
after the match in `pc_kill` lets the victim live on without its identifier
(`pc.c:519`); and a tick between a load and a store of `nr_free` or of the bitmap's word,
with a fork or an exit before the Shell goes on, loses the other's update, or gives two
processes the same identifier (`pid.c:40-41`), so that `NoHiddenExhaustion` is claimed
without such ticks only. What is left with all of this is proved: `TypeOK`. With
"fork_demoted", a fork after a demotion leaves `curr_proc` of the
current level with the child's slot number on another level (`pc.c:352`). And
`pc_kill_syscall` calls `pc_kill` for a child's emptied PCB too, whose ASID is -1
(`pc.c:479`): that releases -1 once for every empty slot, so that `nr_free` grows beyond
the clear bits and the bit of the last identifier is cleared. Once that one is in use
(after 32,767 creations in the code) `BitmapExact` and then `UniqueAsids` fail; this is
why `calm` has more identifiers than threads.

Two more runs fail when a bound is lifted. With 2 in `ReadFails` of `cache`, a read that
fails at its second sector leaves the first in the victim's buffer, `cur` still names
the old block (`fscache.c:105`), and the next read of that block returns what is not its
own: `CleanIsStored` and `ReadsBack` fail. With a move to another name among the `Moves` of
`fat`, `ImplementsStore` fails: `fs_mv` gives the destination the source's entry with the old
name in it (`usr.c:58-66`), so that the command returns 0 and the file has the name it had.

More defects showed while modelling and have no run. `fs_rm` frees the chain before
its entry is marked on the card, so a power cut in between leaves a name for free
clusters, and `fs_mv` has two names for one chain between its closes: `CardSound`
is stated of the other commands only. And a save never truncates (`FileStore`'s
`Overwritten`), so a file that got shorter in the editor keeps its old end (`RoundTrip` excepts
it). `mkdir` on a full card reports success and leaves a directory entry without a
cluster (`usr.c:176`). In the editor a backspace at the start of the text takes the cursor out
of it, `k` never reaches the first line (`loc <= 0` returns), a line longer than the
screen leaves the cursor behind the page (with eight characters on the screen of the
run it stays there after the line is short again, so that `CursorOnScreen` has to
remember), and a full buffer ends the editor without
saving. The keyboard loses what arrives while `init_buffer` clears the ring, and what has
wrapped to its front unread before that, and takes F7
(83) for a prefix (`ps2.c:147`), so that the next code is not recognised: the release of
a modifier may be missed. In
`bootmm.c` a request refused for want of a record leaves its pages marked, a free in the
middle of a record removes the wrong record when the records are used up, one
inside the kernel's own record never ends, and a page run with the page `last_alloc`
in it is in neither of the two searches.

## 4. Proofs

Every theorem holds for all values of the constants that satisfy the assumptions
of its module; a further hypothesis is written as its `ASSUME` and named below.

### Process control, everything allowed

`ProcessControl_proofs`, given `PidAssumption` and `ProcessAssumption` (at least four
identifiers, two slots and three levels from the base up, no more slots than
identifiers), for all numbers of levels, slots, identifiers and threads and all
sets of allowed behaviours:

| theorem | statement |
|---|---|
| `Inductive` | `Spec => []IInv` |
| `TypeCorrect` | `Spec => []TypeOK`: no search or write leaves the table |
| `CounterCoversBitmap` | `Spec => []NoHiddenExhaustion`, given `Untimed`: "timer_in_shell" is not in `Allowed` |

`TypeOK` is not inductive: it holds of the next state only if what the Shell found
before an interruption still means something after it, the slot a slot, the pid an
identifier or the sign that there was none, and the thread it is about to start one.
`IInv` adds what `shell` holds at each step of `pc_create`, and that no call of `pc_kill` is then
under way (`ShellInv`); the proof has one lemma per action, on top of lemmas about the
cyclic search (`Advance` stays in the table and finds what it looks for).

`NoHiddenExhaustion` needs that `nr_free` is never below the number of clear bits at any
load and store, although identifiers are released twice and released without having
been allocated. `CountInv` is `IInv` with what the Shell's registers hold: `old` and `count`
are still what is in memory, and between the bit and the counter `nr_free` is one ahead
(`Held`), because nobody else runs meanwhile. That is where `Untimed` enters, and with a tick
in between `Held` and the property are false. The rest is the cardinality of the
bitmap (`NatLemmas`).

### Process control, calm

The second half of `ProcessControl_proofs` assumes `Calm`, the environment of the run `calm`: `Allowed` has
neither "timer_in_shell" nor "fork_demoted" nor "proc" in it, and `MaxSpawn` is below
`NPID - 1`. These are ordinary things that the code excludes nowhere: a tick may come at
any time, a process that sank a level may fork, and the Shell has the command. What
lifting each does is under *Findings*: the properties are then false. The
last says that the theorems are about executions before the identifiers wrap round
(32,767 creations in the code); it is what makes the release of -1 harmless, since the
bit it clears is one that is never set.

| theorem | statement |
|---|---|
| `CalmInductive` | `Spec => [](CountInv /\ CalmInv)` |
| `CalmUniqueAsids` | `Spec => []UniqueAsids` |
| `CalmBitmapExact` | `Spec => []BitmapExact` |
| `CalmParentsLive` | `Spec => []ParentsLive` |
| `RefinesTable` | `Spec => ImplementsTable` |
| `CalmHighestRuns` | `Spec => []HighestRuns` |

The three invariants speak of quiet states; `CalmInv` says what holds in the middle
of a call. Its parts: no identifier is in two PCBs (`OneEach`), and identifiers are
handed out in order (`Numbered`), so that a parent is older than its child; every
PCB that is not on the processor holds its own thread's registers (`Identified`);
where `pc_create` stands (`Creating`) and whose turn it is (`Turns`). The difficult part
is `pc_kill`, which walks the table and calls itself for the children it meets: a
frame knows which slots it has visited, and **in those neither its process nor a
child of it is left** (`Searched`), which a nested call must not spoil; each frame
but the first was called for what was in the slot its caller looks at
(`Nested`). With that the bitmap is the table without the processes that are
being cleared (`Bitmap`), and every parent is in the table or about to be visited
(`Tree`). `Sound` excepts an exception of the Shell itself, which stops the system.
`CalmInv` was checked by TLC with 7 identifiers and 5 threads before it was proved.
The refinement takes each action to one of `ProcessTable` or to a stutter; the
mapped table is a function of the PCBs, so that moving a PCB does not change it.
`HighestRuns` holds after every `pc_schedule` by its search from the top; what is to be
proved is that nothing in between puts a process above the one that runs, save
`pc_create`, whose preemption the exception waits for: a fork puts the child on the
level the parent runs on (where `fork_demoted` enters), a kill and a reparenting only
empty and keep slots.

### The buddy system

`Buddy_proofs`, on the arithmetic of aligned blocks and buddies of `NatLemmas`, given
`BlockAssumption` and `BuddyAssumption` and the hypothesis `~Interruptible`: processes may fork
between the Shell's calls, not inside one. `buddy_race` shows that the hypothesis is
needed.

| theorem | statement |
|---|---|
| `BuddyInductive` | `Spec => []BuddyInv` |
| `BuddyTypeCorrect` | `Spec => []TypeOK` |
| `BlocksTile` | `Spec => []Tiling` |
| `BuddiesMerged` | `Spec => []Coalesced` |
| `UsedOnce` | `Spec => []InUseOnce`, the property that `buddy_race` refutes without the hypothesis |
| `FullWhenRefused` | `Spec => RefusesOnlyWhenFull` |
| `RefinesAllocator` | `Spec => ImplementsAllocator` |

`__free_pages` believes `bplevel` and `flag` of the buddy's page. A merge leaves the level
of the upper half as it was, so that `bplevel` is **not** exact: pages that head no
block claim to. `BuddyInv` therefore says what the fields mean only for the first
pages of blocks (`ListedMarked`, `HeldMarked`, `OnlyHeldFlagged`), and that listed, held and
moving blocks are aligned and tile the memory handed over so far (`Placed`, and the
tiling). A stale level is then harmless, since an aligned page inside a larger
block is never the buddy of a block of its level: two aligned blocks are disjoint
or one contains the other. `FullWhenRefused` follows from the same fact and `Coalesced`,
with a least counterexample: a free aligned run that is not part of a listed block
would contain two listed buddies.

### The slab cache

`SlabCache_proofs`, given `BlockAssumption` and `SlabAssumption` (a page has at least two
objects; in the code 3 to 341), for all numbers of pages, levels and objects of a page
and all sets of larger requests:

| theorem | statement |
|---|---|
| `SlabInductive` | `Spec => []SlabInv` |
| `SlabTypeOK` | `Spec => []TypeOK` |
| `SlabNeverFaults` | `Spec => []NeverFaults` |
| `SlabPagesInPlace` | `Spec => []PagesInPlace` |
| `SlabFreeChains` | `Spec => []FreeChains` |
| `SlabSpinsOnlyWhenFull` | `Spec => SpinsOnlyWhenFull` |
| `SlabImplementsAllocator` | `Spec => ImplementsAllocator` |

All six properties of the run `slab` are stated. The proof goes up in four layers.

*Links.* `Ring` says that from a head the links lead through given entries and back, in both
directions; `ListAdd` and `ListDel` say that an operation of `list.h` makes one ring another
**and changes no link of an entry that is on no list**: that is what keeps the current
page's entry linked to itself while the buddy system works, and `list_empty` of it true.

*Blocks.* `Divided` says of some tiling `lev` of the memory and some contents `F` of the lists
what `bplevel`, `flag` and `count` tell, as in `Buddy`: a stale `bplevel` is allowed where no block
begins. The two loops are recursive functions of the model (`Halved`, `Unlinked`) that are
first proved to be what their definitions say; `Halving` and `Merging` then follow each
loop from level to level, and `AllocKeeps` and `FreeKeeps` say what a whole call does.

*Chains.* `IsChain` is the free chain of a page as a list of indices: as long as the page
has objects left, without repetition, and just those nobody has. `ChainTake`, `ChainGive`
and `ChainFormatted` are the three ways it changes.

*Pages.* `PagesInPlace` alone is not inductive. `slab_free` of the last object would send a page
to the buddy system with its entry still on a list, and of a page taken with `list_del`
would follow the poison; what rules both out is that **every page but the current one
has at most one object to give** (`CpuPage`): a page leaves the current place only when
full, and the one object or block that a command may free (`temp`) is, on such a page, one
of a full page (`Clients`). So a page that `slab_free` meets on a list is full, keeps its other
objects and goes to the partial list; and one object later it is the current page and
full again. `SlabInv` is the conjunction of these with the types and the lists
(`Lists`): full pages on the full list, pages with one object left on the partial one, all
others of the cache in use, no block a page of the cache. That `slab_alloc` never has to
retire a page before it looks for another follows (`TurnsWithoutCurrent`).

The refinement counts memory in objects; apart (`GivenApart`) are objects of a page by
their index, and pages by the tiling.

### The block cache

`BlockCache_proofs`, for all numbers of buffers, blocks and sectors, given `CacheAssumption`
and the hypothesis in the table: `Unpartitioned` is `base_addr` = 0, `PlainCard` adds that a
read fails at its first sector or not at all. Writes may fail anywhere in both.

| theorem | hypothesis | statement |
|---|---|---|
| `CacheTypeCorrect` | | `Spec => []TypeOK` |
| `CheapestReplaced` | | `Spec => VictimIsCheapest` |
| `NoSecondCopy` | `Unpartitioned` | `Spec => []OneCopy` |
| `CacheInductive` | `PlainCard` | `Spec => []CacheInv` |
| `CleanStored` | `PlainCard` | `Spec => []CleanIsStored` |
| `CacheReadsBack` | `PlainCard` | `Spec => ReadsBack` |

Neither condition is what a card must be: the usual card has a partition, and any
sector may fail. Both are needed: `cache_base` is what a partition does, and
what a read does that fails later is under *Findings*.

`OneCopy` is not inductive, for `fs_clr` files a block in a buffer without a search; `CacheInv` adds that
buffers hold blocks of the file only (`OwnBlocks`), so that a new block is in none of
them. In turn `CleanIsStored` rests on `OneCopy`: writing one buffer back would
otherwise change what a clean second copy is compared with. Two lemmas carry the
step: `Replaced`, one buffer gets a block that no other holds, and `Retained`, all
buffers keep theirs; the operations are instances of them. The refinement of
`FileBlocks` has the same two cases for what a reader of the file would see.

### Boot memory

`BootMemory_proofs`, given `BootAssumption`, without a further hypothesis: for every size of
the memory and of the kernel, every limit of records, and all sizes, types and
alignments of requests. `MaxLate` may be any number too, so that it bounds the
instances and not the theorems.

| theorem | statement |
|---|---|
| `BootInductive` | `Spec => []BootInv` |
| `RecordsAgree` | `Spec => []RecordsMatchMap` |
| `RefusedOnlyAround` | `Spec => []RefusesOnlyAround` |
| `RefinesPageAllocator` | `Spec => ImplementsAllocator` |

`find_pages` is a recursive function of the page reached. That its value is a free run
or 0 (`FindsFree`), and that without alignment it passes over no free run (`FindsAny`),
is shown with the greatest page at which it would fail: every turn looks at larger
pages only, so a page with a wrong value needs a larger one. `FindsAny` gives
`RefusedOnlyAround`, since any run without `last_alloc` lies within the range of one of the
two searches.

The records are not needed for what callers see: `Sane` and `HeldApart` say that the pages
handed out are marked, for one caller each, and they survive every call, with
records refused, lost or removed by mistake. That is `RefinesPageAllocator`. Map and
records agree only as long as no record was refused, and `RecordsMatchMap` is not
inductive: nothing in it says that a caller's pages lie in a **single** record, without
which `bootmm_free_pages` finds no record and leaves them marked (`FreeUnknown`). `Agree` adds
that. It holds because records are extended and bridged but cut only around
pages that are given back, whence the form of the lemmas on records: `More` and `Fewer` say
which pages are recorded after a call, and that every run recorded in one piece
still is, apart from the pages that go. `CutOut` is the hard case, two splits and a
removal that together take a run out of the middle.

### The keyboard

`Keyboard_proofs`, given `KeyboardAssumption` and `KeyAssumption`. `MaxTyped` and `MaxWait` may be any
numbers; so may the size of the ring.

| theorem | statement |
|---|---|
| `KeyboardInductive` | `Spec => []KeyboardInv` |
| `KeysOnce` | `Spec => AtMostOnce` |
| `WindowHolds` | `Spec => []PendingWindow` |
| `NoModifierSticks` | `Spec => []NoStuckModifier` |

The handler's loop is a recursive function of the turn. Its values are determined
turn by turn (`LoopExists`, `LoopEnds`): all turns but the last one or two are acknowledges, and
after the first those change nothing. So a run either keeps one more prefix or
completes one code, perhaps the byte that is not there (`HandlerIs`).

`NoStuckModifier` speaks of the moment when all bytes are taken; before that a modifier may
well be on with its key up. The invariant therefore speaks of the **line**, the
prefixes in `key_buffer` followed by the bytes on the wire (`LineInv`): prefixes on it stand
next to what they belong to (`Regular`), and for each modifier either the last code
about it on the line is a press of a key that is held, or a release, or there is none and
then the modifier is on only if one of its keys is held (`Tied`). A press and a release put
a code behind the line; the handler takes the first code away, or acknowledges,
and what is behind is read as before (`RestShifted`). That an acknowledge never comes between a prefix
and its byte is where the assumption enters that the keyboard answers behind
a key's bytes; otherwise the byte that is not there would eat the prefix.

`AtMostOnce` holds whatever is overwritten: no two slots hold the same key, and the key
on its way is not unread in any of them but the one `kernel_getkey` is about to mark (`Once`).
`PendingWindow` says something of the reader at rest only; `Windowed` follows the window through
`kernel_getkey`, where it has lost its first slot before `rptr` moves, and through
`init_buffer`, where nothing is said until the last slot is erased. That nothing but what
was wiped is missing is `Counted`: as long as nothing was overwritten, the entries
delivered, wiped, unread and on their way to the Shell are as many as were stored.

### The editor

`Editor_proofs`, given `EditorAssumption`: for every size of the buffer and of the screen, all
letters, and all files. `MaxInst` may be any number.

| theorem | statement |
|---|---|
| `EditorInvariant` | `Spec => []EditorInv` |
| `CursorStaysInText` | `Spec => []CursorInText` |
| `CursorStaysOnScreen` | `Spec => []CursorOnScreen` |
| `SavedIsLoaded` | `Spec => RoundTrip` |

`CursorInText` is not inductive, for the page too must be in the text when a deletion
takes its last character: `PagePlace` says that it is while the editor runs, unless the
text is empty. An insertion is always before the last newline and a deletion never
takes it (`MayDelete`; a backspace deletes before the cursor), so it stays.

`RoundTrip` is about saves that the file system carried out; of the others the editor
does not know and nothing is claimed. It needs from the invariant that the text has a
last newline, and that it has no carriage return; then load_file keeps all of it (`KeptFacts`, turn by turn of its loop).

For `CursorOnScreen` the drawing is counted: while all lines are short and the page begins
with a line, the row of a character is the number of newlines between the page and it
(`RowIs`, along the recursion of `Pos`). So `page_end` is the end of the text or the head of line `ROW_LEN` of
the page (`PageEndRight`), and each key needs only how many newlines it puts between page and
cursor: one more at most, which the page then leaves behind (`NextLineOnPage`), or the cursor
is at the head of the line before the page. `OnPage` is the invariant, checked by TLC on
6 characters before it was proved. It keeps that the page begins with a line, which fails
after a wide line: the cursor may then be before the page, and what is typed there
shifts the text under it.

### Only model-checked

`NobodyStarves` and `Drained` are liveness, which is out of the prover's reach. Not proved is
`Fat`, where a call is spread over blocks of a card that are inconsistent until it
ends. Of process control with everything allowed `TypeOK` is proved, and `live` checks
`NobodyStarves`; the other properties are false there.

## 5. Not modelled, and the plan

Output (display, log, `print_proc`), assembly and device set-up, `sem.c` and
`mem/` (not built), ext2 (no code) and VFS (tables filled once) stay out. So does
`tree.c`, which keeps a list of nodes beside the file system that only the command
`tree` reads: `deleteNode` makes the deleted node's next sibling its parent's first
child and so forgets the siblings before it, `findNode` walks the children of first
children only, and both it and its callers dereference NULL for a file that was on
the card before the boot. `get_time_string` is arithmetic without state, and wrong
after the low word's first overflow (`time.c:15`). `cp` gives two names one chain, after
which no property of `Fat` holds.

In the order of what they are worth:

1. Proofs: `CardSound` of `Fat` for files only; what of process
   control is left when one restriction of `Calm` is lifted.
2. `SlabCache` with a second cache that competes for pages, and the choice of the
   cache by size (`get_slab` takes the first that fits in the order 96, 192, 8, ...,
   so that no request reaches the caches below 96).
3. `Fat` with directories of several sectors, and reads and writes that fail.
4. The file tree, beside `Fat`.
