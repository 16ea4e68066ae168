--------------------------- MODULE ProcessControl ---------------------------
(***************************************************************************)
(* Process control of kernel/pc/pc.c: the multi-level feedback queue, the  *)
(* scheduler, fork, exit, and the two procedures the Shell runs with       *)
(* interrupts enabled, pc_create and pc_kill.                              *)
(*                                                                         *)
(* The machine has one processor.  What a context holds is abstracted to   *)
(* the thread of control it resumes: cpu is the thread on the processor,   *)
(* pcb.ctx the thread whose registers were saved in that PCB.  A PCB is    *)
(* empty when its ASID is -1; its other fields keep what they held, and    *)
(* the code does read them.  Not modelled: time_slice and counter, name    *)
(* and the stack.                                                          *)
(*                                                                         *)
(* Exception handlers run to completion with interrupts off: Timer, Fork,  *)
(* Exit are single steps.  The Shell's procedures take one step per search *)
(* of the table and one per access to what others read or write as well,   *)
(* and the timer can come between any two of them.                         *)
(***************************************************************************)
EXTENDS Pidmap, Sequences

CONSTANTS
  NSLOT,         \* PCBs per level, 16 in the code
  DEFAULT_PRIO,  \* the base level, 4 in the code
  MAX_PRIO,      \* the highest level, 7 in the code
  MaxSpawn,      \* bound: number of the last thread an execution starts
  KillArgs,      \* the arguments of the Shell's kill command
  Allowed        \* which of Behaviours the environment shows

Behaviours == {"create", "proc", "kill", "killmode", "fault", "fork",
               "fork_demoted", "timer_in_shell"}

ASSUME ProcessAssumption ==
  /\ NPID > 3
  /\ NSLOT \in Nat /\ NSLOT > 1 /\ NSLOT <= NPID
  /\ DEFAULT_PRIO \in Nat
  /\ MAX_PRIO \in Nat /\ MAX_PRIO >= DEFAULT_PRIO + 2
  /\ MaxSpawn \in Nat /\ MaxSpawn > 1
  /\ KillArgs \subseteq Int
  /\ Allowed \subseteq Behaviours

VARIABLES
  task_queue,    \* task_queue[level].pcb[slot]
  curr_proc,     \* curr_proc[level]: the slot looked at last, -1 at boot
  curr_queue,    \* the level of the running process
  kill_state,    \* TRUE: orphans go to init; FALSE: children die too
  cpu,           \* the thread on the processor
  mode,          \* interrupts on, inside pc_kill_syscall, or in while(1)
  kills,         \* the pc_kill calls in progress, innermost first
  shell,         \* where the Shell stands in pc_create
  spawned        \* the number of the thread started last

schedVars == <<task_queue, curr_proc, curr_queue>>
vars == <<pidVars, schedVars, kill_state, cpu, mode, kills, shell, spawned>>

Level == 0..MAX_PRIO
Slot  == 0..NSLOT-1

INIT  == 0       \* thread and ASID of the idle loop of init_kernel
SHELL == 1       \* thread and ASID of the PowerShell
CLOCK == 2       \* thread and ASID of system_time_proc, an endless loop
NoThread == -1
Thread == 0..MaxSpawn

(***************************************************************************)
(* A context can also have the epc of a thread being created and the rest  *)
(* of whatever was there, or the stack of one thread and the epc of        *)
(* another.  What runs then is nobody's thread.                            *)
(***************************************************************************)
Begun == -2
Torn  == -3
Context == Thread \union {Begun, Torn}

Resumed(ctx) == IF ctx \in Thread THEN ctx ELSE Torn

PidOrNone == Pid \union {NoPid}
PCB == [asid : PidOrNone, ppid : PidOrNone, prio : Level,
        ctx : Context \union {NoThread}]

Current == task_queue[curr_queue][curr_proc[curr_queue]]

-----------------------------------------------------------------------------
(***************************************************************************)
(* The cyclic search of every loop over a level: from the slot after pos,  *)
(* NSLOT slots, stopping in the first that belongs to S.  A search that    *)
(* fails comes back to where it started (to the last slot from -1).        *)
(***************************************************************************)
Dist(pos, s) == (s - pos - 1) % NSLOT

Advance(pos, S) ==
  IF S = {} THEN (pos + NSLOT) % NSLOT
  ELSE CHOOSE s \in S : \A r \in S : Dist(pos, s) <= Dist(pos, r)

FreeSlotsUntested(q, l) == Slot
FreeSlots(q, l)  == {s \in Slot : q[l][s].asid < 0}
ReadySlots(q, l) == {s \in Slot : q[l][s].asid > 0}

ClearedNot(p) == p
Cleared(p) == [p EXCEPT !.asid = NoPid]

(***************************************************************************)
(* copy_context(pt_context, current PCB)                                   *)
(***************************************************************************)
SaveContext(q) == [q EXCEPT ![curr_queue][curr_proc[curr_queue]].ctx = cpu]

(***************************************************************************)
(* First half of pc_schedule: a process whose slice expired goes down one  *)
(* level, to DEFAULT_PRIO at the lowest; one that was preempted goes up    *)
(* one.  It stays when the other level has no free slot.  After an exit it *)
(* is the emptied PCB that moves.                                          *)
(***************************************************************************)
RequeuedNever(q, expired) ==
  [queue |-> q, proc |-> curr_proc, level |-> curr_queue]

Requeued(q, expired) ==
  LET target  == IF expired THEN curr_queue - 1 ELSE curr_queue + 1
      movable == IF expired THEN curr_queue > DEFAULT_PRIO
                            ELSE curr_queue \in DEFAULT_PRIO..MAX_PRIO-1
      from    == curr_proc[curr_queue]
      to      == Advance(curr_proc[target], FreeSlots(q, target))
  IN  IF ~movable
      THEN [queue |-> q, proc |-> curr_proc, level |-> curr_queue]
      ELSE IF FreeSlots(q, target) = {}
      THEN [queue |-> q, proc |-> [curr_proc EXCEPT ![target] = to],
            level |-> curr_queue]
      ELSE [queue |-> [q EXCEPT ![target][to] = q[curr_queue][from],
                                ![curr_queue][from] = Cleared(@)],
            proc  |-> [curr_proc EXCEPT ![target] = to],
            level |-> target]

(***************************************************************************)
(* Second half of pc_schedule: the next ready slot of the highest level    *)
(* that has one.  With no ready process at all the kernel prints an error  *)
(* and spins.                                                              *)
(***************************************************************************)
ReadyLevels(q) == {l \in Level : ReadySlots(q, l) # {}}

TopLevel(q) == CHOOSE l \in ReadyLevels(q) : \A m \in ReadyLevels(q) : m <= l

Dispatch(r, after) ==
  IF ReadyLevels(r.queue) = {}
  THEN /\ task_queue' = r.queue
       /\ curr_proc' = [l \in Level |-> Advance(r.proc[l], {})]
       /\ curr_queue' = r.level
       /\ mode' = "stopped"
       /\ UNCHANGED cpu
  ELSE LET top == TopLevel(r.queue)
       IN  /\ task_queue' = r.queue
           /\ curr_proc' = [l \in Level |->
                IF l < top THEN r.proc[l]
                ELSE Advance(r.proc[l], ReadySlots(r.queue, l))]
           /\ curr_queue' = top
           /\ cpu' = Resumed(r.queue[top][curr_proc'[top]].ctx)
           /\ mode' = after

pc_schedule(q, expired, after) ==
  \E r \in {Requeued(SaveContext(q), expired)} : Dispatch(r, after)

-----------------------------------------------------------------------------
(***************************************************************************)
(* The state in which init_kernel enables interrupts: init idles with      *)
(* ASID 0, the Shell and the clock process wait for the first timer        *)
(* interrupt on the levels create_startup_process gave them.               *)
(***************************************************************************)
EmptyPCB == [asid |-> NoPid, ppid |-> 0, prio |-> 0, ctx |-> NoThread]

StartPCB(l, s) ==
  IF s # 0 THEN EmptyPCB
  ELSE IF l = DEFAULT_PRIO
  THEN [asid |-> INIT, ppid |-> NoPid, prio |-> l, ctx |-> INIT]
  ELSE IF l = DEFAULT_PRIO + 1
  THEN [asid |-> CLOCK, ppid |-> INIT, prio |-> l, ctx |-> CLOCK]
  ELSE IF l = DEFAULT_PRIO + 2
  THEN [asid |-> SHELL, ppid |-> INIT, prio |-> l, ctx |-> SHELL]
  ELSE EmptyPCB

Prompt == [pc |-> "prompt", prio |-> DEFAULT_PRIO, pid |-> NoPid, slot |-> 0,
           thread |-> NoThread]

Init ==
  /\ page = {INIT, SHELL, CLOCK}
  /\ nr_free = NPID - 3
  /\ last_pid = CLOCK
  /\ old = {}
  /\ count = 0
  /\ task_queue = [l \in Level |-> [s \in Slot |-> StartPCB(l, s)]]
  /\ curr_proc = [l \in Level |-> IF l = DEFAULT_PRIO THEN 0 ELSE -1]
  /\ curr_queue = DEFAULT_PRIO
  /\ kill_state = TRUE
  /\ cpu = INIT
  /\ mode = "user"
  /\ kills = [shell |-> <<>>, exit |-> <<>>]
  /\ shell = Prompt
  /\ spawned = CLOCK

-----------------------------------------------------------------------------
(***************************************************************************)
(* The Shell is inside pc_create or pc_kill.  "stuck" is the while(1) of a *)
(* full level, where it still yields to the timer.                         *)
(***************************************************************************)
ShellBusy == shell.pc \notin {"prompt", "stuck"} \/ kills.shell # <<>>

ShellRuns == mode = "user" /\ cpu = SHELL

ProgramRuns == mode = "user" /\ (cpu > CLOCK \/ cpu = Torn)

(***************************************************************************)
(* Interrupt 7: Count has reached Compare.                                 *)
(***************************************************************************)
Timer ==
  /\ mode = "user"
  /\ cpu = SHELL /\ ShellBusy => "timer_in_shell" \in Allowed
  /\ pc_schedule(task_queue, TRUE, "user")
  /\ UNCHANGED <<pidVars, kill_state, kills, shell, spawned>>

(***************************************************************************)
(* System call 12.  The child is put on the level of the parent's static   *)
(* priority, and curr_proc of the parent's current level is set to the     *)
(* child's slot number.  The child runs next.                              *)
(***************************************************************************)
do_fork ==
  LET l      == Current.prio
      free   == FreeSlots(task_queue, l)
      pos    == Advance(curr_proc[l], free)
      asid   == AllocResult(AllocOffset)
      named  == [task_queue EXCEPT ![l][pos].asid = asid]
      saved  == SaveContext(named)
      parent == saved[curr_queue][curr_proc[curr_queue]]
      child  == spawned + 1
  IN  /\ ProgramRuns /\ spawned < MaxSpawn
      /\ "fork" \in Allowed
      /\ l = curr_queue \/ "fork_demoted" \in Allowed
      /\ IF free = {}
         THEN /\ mode' = "stopped"
              /\ UNCHANGED <<pidVars, schedVars, cpu, spawned>>
         ELSE /\ AllocCommit(AllocOffset)
              /\ task_queue' = [saved EXCEPT ![l][pos] =
                   [asid |-> asid, ppid |-> parent.asid, prio |-> l,
                    ctx |-> child]]
              /\ curr_proc' = [curr_proc EXCEPT ![curr_queue] = pos]
              /\ cpu' = child
              /\ spawned' = child
              /\ UNCHANGED <<curr_queue, mode>>
      /\ UNCHANGED <<kill_state, kills, shell>>

-----------------------------------------------------------------------------
(***************************************************************************)
(* pc_kill looks at every slot of every level, from the highest level      *)
(* down.  A call in progress is a frame: the slot it is about to look at,  *)
(* how many are left on the level, and whether it is halfway through       *)
(* killing the process it found there.  Frames nest when children die too. *)
(* A frame with sys = TRUE is the loop of pc_kill_syscall, which looks for *)
(* children only.                                                          *)
(***************************************************************************)
Frame == [proc : Int, sys : BOOLEAN, level : Level, slot : Slot,
          left : 1..NSLOT,
          step : {"visit", "free", "count", "load", "mask", "clear", "return"}]

FrameAtUnmasked(proc, sys, l) ==
  [proc |-> proc, sys |-> sys, level |-> l,
   slot |-> curr_proc[l] + 1, left |-> NSLOT, step |-> "visit"]

FrameAt(proc, sys, l) ==
  [proc |-> proc, sys |-> sys, level |-> l,
   slot |-> (curr_proc[l] + 1) % NSLOT, left |-> NSLOT, step |-> "visit"]

(***************************************************************************)
(* The frames after the innermost one is done with its slot.               *)
(***************************************************************************)
NextSlot(frames) ==
  LET f == Head(frames)
  IN  IF f.left > 1
      THEN <<[f EXCEPT !.slot = (f.slot + 1) % NSLOT, !.left = f.left - 1,
                       !.step = "visit"]>> \o Tail(frames)
      ELSE IF f.level > 0
      THEN <<FrameAt(f.proc, f.sys, f.level - 1)>> \o Tail(frames)
      ELSE Tail(frames)

(***************************************************************************)
(* pc_kill(p) refuses init and the Shell.                                  *)
(***************************************************************************)
KillCall(p) ==
  IF p \in {INIT, SHELL} THEN <<>> ELSE <<FrameAt(p, FALSE, MAX_PRIO)>>

MayKill(who) ==
  /\ kills[who] # <<>>
  /\ IF who = "shell" THEN ShellRuns ELSE mode \in {"exit", "fault"}

(***************************************************************************)
(* One slot of the scan.  A child is handed to init, or killed by a call   *)
(* of pc_kill; only the system call does that to an empty slot as well,    *)
(* whose ASID is -1.                                                       *)
(***************************************************************************)
KillVisit(who) ==
  LET f   == Head(kills[who])
      pcb == task_queue[f.level][f.slot]
      hit == ~f.sys /\ pcb.asid = f.proc
      child == ~hit /\ pcb.ppid = f.proc
      dies  == child /\ ~kill_state /\ (f.sys \/ pcb.asid > 0)
  IN  /\ MayKill(who)
      /\ f.step = "visit"
      /\ kills' = [kills EXCEPT ![who] =
           IF hit THEN <<[f EXCEPT !.step = "free"]>> \o Tail(@)
           ELSE IF dies
           THEN KillCall(pcb.asid) \o <<[f EXCEPT !.step = "return"]>> \o Tail(@)
           ELSE NextSlot(@)]
      /\ task_queue' = IF child /\ kill_state
                       THEN [task_queue EXCEPT ![f.level][f.slot].ppid = INIT]
                       ELSE task_queue
      /\ UNCHANGED <<pidVars, curr_proc, curr_queue, kill_state, cpu, mode,
                     shell, spawned>>

StepTo(who, step) ==
  kills' = [kills EXCEPT ![who] = <<[Head(@) EXCEPT !.step = step]>> \o Tail(@)]

(***************************************************************************)
(* free_pidmap: one step of a handler, and four accesses of the Shell's,   *)
(* which counts the identifier before it clears its bit.                   *)
(***************************************************************************)
KillFree ==
  /\ MayKill("exit")
  /\ Head(kills["exit"]).step = "free"
  /\ free_pidmap(Head(kills["exit"]).proc)
  /\ StepTo("exit", "clear")
  /\ UNCHANGED <<schedVars, kill_state, cpu, mode, shell, spawned>>

ShellFree ==
  LET f   == Head(kills["shell"])
      bit == PidMask(f.proc)
  IN  /\ MayKill("shell")
      /\ \/ f.step = "free"  /\ LoadCount             /\ StepTo("shell", "count")
         \/ f.step = "count" /\ StoreCount(count + 1) /\ StepTo("shell", "load")
         \/ f.step = "load"  /\ LoadWord(bit)         /\ StepTo("shell", "mask")
         \/ /\ f.step = "mask"
            /\ StoreWord(bit, old \ {bit})
            /\ StepTo("shell", "clear")
      /\ UNCHANGED <<schedVars, kill_state, cpu, mode, shell, spawned>>

KillClear(who) ==
  LET f == Head(kills[who])
  IN  /\ MayKill(who)
      /\ f.step = "clear"
      /\ task_queue' = [task_queue EXCEPT ![f.level][f.slot] = Cleared(@)]
      /\ kills' = [kills EXCEPT ![who] = NextSlot(@)]
      /\ UNCHANGED <<pidVars, curr_proc, curr_queue, kill_state, cpu, mode,
                     shell, spawned>>

(***************************************************************************)
(* The nested call has come back.                                          *)
(***************************************************************************)
KillReturn(who) ==
  /\ MayKill(who)
  /\ Head(kills[who]).step = "return"
  /\ kills' = [kills EXCEPT ![who] = NextSlot(@)]
  /\ UNCHANGED <<pidVars, schedVars, kill_state, cpu, mode, shell, spawned>>

-----------------------------------------------------------------------------
(***************************************************************************)
(* System call 10, pc_kill_syscall, by exit() or on an exception no        *)
(* handler is registered for.  After an exception do_exceptions never      *)
(* returns: it spins with interrupts off.  Count may pass Compare while    *)
(* the handler runs, so the emptied PCB moves either way.                  *)
(***************************************************************************)
GiveToInitNot(q, asid) == q

GiveToInit(q, asid) ==
  [l \in Level |-> [s \in Slot |->
     IF q[l][s].ppid = asid THEN [q[l][s] EXCEPT !.ppid = INIT] ELSE q[l][s]]]

WithoutCurrent(q) ==
  [q EXCEPT ![curr_queue][curr_proc[curr_queue]] = Cleared(@)]

AfterKill(how) == IF how = "exit" THEN "user" ELSE "stopped"

pc_kill_syscall(how) ==
  /\ free_pidmap(Current.asid)
  /\ IF kill_state
     THEN /\ \E expired \in BOOLEAN :
               pc_schedule(WithoutCurrent(GiveToInit(task_queue, Current.asid)),
                           expired, AfterKill(how))
          /\ UNCHANGED kills
     ELSE /\ mode' = how
          /\ kills' = [kills EXCEPT !["exit"] =
                         <<FrameAt(Current.asid, TRUE, MAX_PRIO)>>]
          /\ UNCHANGED <<schedVars, cpu>>
  /\ UNCHANGED <<kill_state, shell, spawned>>

Exit == ProgramRuns /\ pc_kill_syscall("exit")

Fault ==
  /\ mode = "user" /\ cpu # INIT /\ "fault" \in Allowed
  /\ pc_kill_syscall("fault")

(***************************************************************************)
(* The end of pc_kill_syscall once the children are dead.                  *)
(***************************************************************************)
ExitDone ==
  /\ mode \in {"exit", "fault"}
  /\ kills.exit = <<>>
  /\ \E expired \in BOOLEAN :
       pc_schedule(WithoutCurrent(task_queue), expired, AfterKill(mode))
  /\ UNCHANGED <<pidVars, kill_state, kills, shell, spawned>>

-----------------------------------------------------------------------------
(***************************************************************************)
(* The Shell's commands.  forktest, pidtest, time and time7 allocate an    *)
(* identifier and call pc_create; proc takes the number of a free slot for *)
(* an identifier.                                                          *)
(***************************************************************************)
AtPrompt == ShellRuns /\ ~ShellBusy /\ shell.pc = "prompt"

ShellAt(pc) == ShellRuns /\ kills.shell = <<>> /\ shell.pc = pc

CommandPrio == {DEFAULT_PRIO, DEFAULT_PRIO + 2, MAX_PRIO}

CmdCreate(prio) ==
  /\ AtPrompt /\ "create" \in Allowed /\ spawned < MaxSpawn
  /\ spawned' = spawned + 1
  /\ shell' = [pc |-> "commit", prio |-> prio, pid |-> AllocOffset,
               slot |-> 0, thread |-> spawned + 1]
  /\ UNCHANGED <<pidVars, schedVars, kill_state, cpu, mode, kills>>

(***************************************************************************)
(* alloc_pidmap after its search: test_and_set_bit, --nr_free, last_pid.   *)
(***************************************************************************)
ShellLoads ==
  /\ ShellAt("commit")
  /\ IF shell.pid = NPID
     THEN /\ shell' = [shell EXCEPT !.pc = "search", !.pid = NoPid]
          /\ UNCHANGED pidVars
     ELSE shell' = [shell EXCEPT !.pc = "set"] /\ LoadWord(shell.pid)
  /\ UNCHANGED <<schedVars, kill_state, cpu, mode, kills, spawned>>

ShellSets ==
  /\ ShellAt("set")
  /\ StoreWord(shell.pid, old \union {shell.pid})
  /\ shell' = IF shell.pid \in old
              THEN [shell EXCEPT !.pc = "search", !.pid = NoPid]
              ELSE [shell EXCEPT !.pc = "fetch"]
  /\ UNCHANGED <<schedVars, kill_state, cpu, mode, kills, spawned>>

ShellCounts ==
  /\ \/ /\ ShellAt("fetch") /\ LoadCount
        /\ shell' = [shell EXCEPT !.pc = "count"]
     \/ /\ ShellAt("count") /\ StoreCount(count - 1)
        /\ shell' = [shell EXCEPT !.pc = "last"]
     \/ /\ ShellAt("last") /\ StoreLast(shell.pid)
        /\ shell' = [shell EXCEPT !.pc = "search"]
  /\ UNCHANGED <<schedVars, kill_state, cpu, mode, kills, spawned>>

pc_peek(l) ==
  LET free == FreeSlots(task_queue, l)
  IN  IF free = {} THEN -1 ELSE CHOOSE s \in free : \A r \in free : s <= r

CmdProc ==
  /\ AtPrompt /\ "proc" \in Allowed /\ spawned < MaxSpawn
  /\ pc_peek(DEFAULT_PRIO) >= 0
  /\ spawned' = spawned + 1
  /\ shell' = [pc |-> "search", prio |-> DEFAULT_PRIO,
               pid |-> pc_peek(DEFAULT_PRIO), slot |-> 0,
               thread |-> spawned + 1]
  /\ UNCHANGED <<pidVars, schedVars, kill_state, cpu, mode, kills>>

(***************************************************************************)
(* pc_create: search a slot, write its epc, then its sp (gp is the same    *)
(* for all) and its static priority, publish its ASID, then its parent,    *)
(* and preempt when the new process has the higher level.                  *)
(***************************************************************************)
CreateSearch ==
  LET free == FreeSlots(task_queue, shell.prio)
  IN  /\ ShellAt("search")
      /\ shell' = IF free = {} THEN [shell EXCEPT !.pc = "stuck"]
                  ELSE [shell EXCEPT !.pc = "fill",
                          !.slot = Advance(curr_proc[shell.prio], free)]
      /\ UNCHANGED <<pidVars, schedVars, kill_state, cpu, mode, kills, spawned>>

CreateFill ==
  /\ ShellAt("fill")
  /\ task_queue' = [task_queue EXCEPT ![shell.prio][shell.slot].ctx = Begun]
  /\ shell' = [shell EXCEPT !.pc = "stack"]
  /\ UNCHANGED <<pidVars, curr_proc, curr_queue, kill_state, cpu, mode, kills,
                 spawned>>

CreateStack ==
  /\ ShellAt("stack")
  /\ task_queue' = [task_queue EXCEPT ![shell.prio][shell.slot].ctx =
                      IF @ = Begun THEN shell.thread ELSE Torn]
  /\ shell' = [shell EXCEPT !.pc = "static"]
  /\ UNCHANGED <<pidVars, curr_proc, curr_queue, kill_state, cpu, mode, kills,
                 spawned>>

CreateStatic ==
  /\ ShellAt("static")
  /\ task_queue' =
       [task_queue EXCEPT ![shell.prio][shell.slot].prio = shell.prio]
  /\ shell' = [shell EXCEPT !.pc = "publish"]
  /\ UNCHANGED <<pidVars, curr_proc, curr_queue, kill_state, cpu, mode, kills,
                 spawned>>

CreatePublish ==
  /\ ShellAt("publish")
  /\ task_queue' =
       [task_queue EXCEPT ![shell.prio][shell.slot].asid = shell.pid]
  /\ shell' = [shell EXCEPT !.pc = "parent"]
  /\ UNCHANGED <<pidVars, curr_proc, curr_queue, kill_state, cpu, mode, kills,
                 spawned>>

CreateParentNoPreempt ==
  /\ ShellAt("parent")
  /\ task_queue' =
       [task_queue EXCEPT ![shell.prio][shell.slot].ppid = Current.asid]
  /\ shell' = Prompt
  /\ UNCHANGED <<pidVars, curr_proc, curr_queue, kill_state, cpu, mode, kills,
                 spawned>>

CreateParent ==
  /\ ShellAt("parent")
  /\ task_queue' =
       [task_queue EXCEPT ![shell.prio][shell.slot].ppid = Current.asid]
  /\ shell' = IF Current.asid > 0 /\ shell.prio > curr_queue
              THEN [Prompt EXCEPT !.pc = "preempt", !.prio = shell.prio]
              ELSE Prompt
  /\ UNCHANGED <<pidVars, curr_proc, curr_queue, kill_state, cpu, mode, kills,
                 spawned>>

(***************************************************************************)
(* System call 11.                                                         *)
(***************************************************************************)
pc_preempt_syscall ==
  /\ ShellAt("preempt")
  /\ shell' = Prompt
  /\ \E expired \in BOOLEAN : pc_schedule(task_queue, expired, "user")
  /\ UNCHANGED <<pidVars, kill_state, kills, spawned>>

CmdKill(p) ==
  /\ AtPrompt /\ "kill" \in Allowed
  /\ kills' = [kills EXCEPT !["shell"] = KillCall(p)]
  /\ UNCHANGED <<pidVars, schedVars, kill_state, cpu, mode, shell, spawned>>

alt_kill_mode ==
  /\ AtPrompt /\ "killmode" \in Allowed
  /\ kill_state' = ~kill_state
  /\ UNCHANGED <<pidVars, schedVars, cpu, mode, kills, shell, spawned>>

-----------------------------------------------------------------------------
ShellNext ==
  \/ \E prio \in CommandPrio : CmdCreate(prio)
  \/ CmdProc
  \/ \E p \in KillArgs : CmdKill(p)
  \/ alt_kill_mode
  \/ ShellFree
  \/ ShellLoads
  \/ ShellSets
  \/ ShellCounts
  \/ CreateSearch
  \/ CreateFill
  \/ CreateStack
  \/ CreateStatic
  \/ CreatePublish
  \/ CreateParent
  \/ pc_preempt_syscall

KillNext(who) ==
  KillVisit(who) \/ KillClear(who) \/ KillReturn(who)

Next ==
  \/ Timer
  \/ do_fork
  \/ Exit
  \/ Fault
  \/ ExitDone
  \/ \E who \in {"shell", "exit"} : KillNext(who)
  \/ KillFree
  \/ ShellNext

Spec == Init /\ [][Next]_vars

-----------------------------------------------------------------------------
ShellRecord ==
  [pc : {"prompt", "stuck", "commit", "set", "fetch", "count", "last",
         "search", "fill", "stack", "static", "publish", "parent", "preempt"},
   prio : Level, pid : PidOrNone \union {NPID}, slot : Slot,
   thread : Thread \union {NoThread}]

(* Every variable has its type; in particular a search never leaves the   *)
(* table, and the current PCB always exists (pc_schedule, pc_create,      *)
(* do_fork and pc_kill index the table with what they computed).          *)
TypeOK ==
  /\ PidTypeOK
  /\ task_queue \in [Level -> [Slot -> PCB]]
  /\ curr_proc \in [Level -> Slot \union {-1}]
  /\ curr_queue \in Level
  /\ curr_proc[curr_queue] \in Slot
  /\ kill_state \in BOOLEAN
  /\ cpu \in Thread \union {Torn}
  /\ mode \in {"user", "exit", "fault", "stopped"}
  /\ kills \in [{"shell", "exit"} -> Seq(Frame)]
  /\ shell \in ShellRecord
  /\ spawned \in Thread

-----------------------------------------------------------------------------
(***************************************************************************)
(* The timer is hardware: it fires again and again.  A handler in progress *)
(* runs on.  Nothing is assumed of the programs or of the Shell.           *)
(***************************************************************************)
FairSpec ==
  /\ Spec
  /\ WF_vars(Timer)
  /\ WF_vars(KillNext("exit") \/ KillFree)
  /\ WF_vars(ExitDone)

(***************************************************************************)
(* The table the PCBs represent.  The running thread's registers are on    *)
(* the processor, every other thread's in its PCB.                         *)
(***************************************************************************)
Live == {e \in Level \X Slot : task_queue[e[1]][e[2]].asid >= 0}
Asid(e) == task_queue[e[1]][e[2]].asid
Asids == {Asid(e) : e \in Live}
IsCurrent(e) == e = <<curr_queue, curr_proc[curr_queue]>>
ThreadOf(e) == IF IsCurrent(e) THEN cpu ELSE task_queue[e[1]][e[2]].ctx

Table == INSTANCE ProcessTable WITH
  Pids    <- Pid,
  Threads <- Thread,
  Idle    <- INIT,
  Shell   <- SHELL,
  dead    <- mode = "stopped",
  running <- IF mode = "stopped" THEN INIT ELSE Current.asid,
  procs   <- [p \in IF mode = "stopped" THEN {} ELSE Asids |->
                ThreadOf(CHOOSE e \in Live : Asid(e) = p)]

(* The queues implement the table: no process is lost, duplicated or       *)
(* handed to another identifier while PCBs move between levels, children   *)
(* are forked and processes die (pc_schedule, do_fork, pc_kill_syscall,    *)
(* pc_create, pc_kill).                                                    *)
ImplementsTable == Table!Spec

(* No identifier is in two PCBs.                                           *)
UniqueAsids == \A d, e \in Live : Asid(d) = Asid(e) => d = e

(* Thread t waits in a PCB the scheduler may pick.                         *)
Waits(t) == \E e \in Live : /\ ~IsCurrent(e)
                            /\ Asid(e) > 0
                            /\ task_queue[e[1]][e[2]].ctx = t

(* "Processes with higher priority is scheduled first" (pc_schedule): at   *)
(* no time does a program run while a process is ready on a level above    *)
(* its own, however processes sink, rise, are forked, created and killed.  *)
(* The exception is the process pc_create has just published, until the    *)
(* system call that pc_create makes for it.                                *)
HighestRuns ==
  mode = "user" /\ cpu # INIT =>
    \A l \in Level : l > curr_queue /\ ReadySlots(task_queue, l) # {} =>
      shell.pc \in {"parent", "preempt"} /\ l = shell.prio

(* No process is starved by higher levels: whoever used up a slice sinks,  *)
(* level by level, to where everybody takes turns (pc_schedule).           *)
NobodyStarves ==
  \A t \in Thread : Waits(t) ~> (cpu = t \/ ~Waits(t) \/ mode = "stopped")

-----------------------------------------------------------------------------
(* Nobody is halfway through a procedure that touches the bookkeeping.     *)
Quiet == mode = "user" /\ kills.shell = <<>> /\ shell.pc # "parent"

(* The identifier alloc_pidmap gave to a pc_create that has not published  *)
(* it yet.                                                                 *)
Pending ==
  IF shell.pc \in {"prompt", "commit", "set", "parent", "preempt"}
  THEN {} ELSE {shell.pid}

(* The bitmap marks exactly the identifiers of processes and the one being *)
(* created: none leaks, none is free while in use (alloc_pidmap at every   *)
(* creation, free_pidmap at every death).                                  *)
BitmapExact == Quiet => page = Asids \union Pending

(* Every process descends from init: its parent is alive, or was replaced  *)
(* by init when it died, or took the process with it (the two kill modes   *)
(* of pc_kill and pc_kill_syscall).                                        *)
ParentsLive ==
  Quiet => \A e \in Live :
    Asid(e) # INIT => task_queue[e[1]][e[2]].ppid \in Asids \ {Asid(e)}
=============================================================================
