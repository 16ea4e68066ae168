------------------------ MODULE ProcessControl_proofs -----------------------
(***************************************************************************)
(* Theorems about process control for every number of levels, slots,       *)
(* identifiers and processes: first what holds with every behaviour of the *)
(* environment, the timer striking anywhere, then what holds when the      *)
(* timer leaves the Shell's procedures alone.                              *)
(***************************************************************************)
EXTENDS ProcessControl, NatLemmas, FiniteSetTheorems

(***************************************************************************)
(* The inductive invariant.  What the Shell has loaded and not stored yet  *)
(* is part of it as soon as the counter is: without the timer in the       *)
(* Shell's procedures, it is what the memory holds.                        *)
(***************************************************************************)
TypedQueue(q) == q \in [Level -> [Slot -> PCB]]

ShellInv ==
  /\ shell \in ShellRecord
  /\ shell.pc = "commit" => shell.pid \in 0..NPID
  /\ shell.pc \in {"set", "fetch", "count", "last"} => shell.pid \in Pid
  /\ shell.pc \in {"search", "fill", "stack", "static", "publish"} =>
       shell.pid \in PidOrNone
  /\ shell.pc \notin {"prompt", "stuck", "publish", "parent", "preempt"} =>
       shell.thread \in Thread
  /\ shell.pc # "prompt" => kills["shell"] = <<>>

QueueInv ==
  /\ TypedQueue(task_queue)
  /\ curr_proc \in [Level -> Slot \union {-1}]
  /\ curr_queue \in Level
  /\ curr_proc[curr_queue] \in Slot

RestInv ==
  /\ kill_state \in BOOLEAN
  /\ cpu \in Thread \union {Torn}
  /\ mode \in {"user", "exit", "fault", "stopped"}
  /\ kills \in [{"shell", "exit"} -> Seq(Frame)]
  /\ spawned \in Thread

IInv == PidTypeOK /\ QueueInv /\ RestInv /\ ShellInv

-----------------------------------------------------------------------------
(* The loop over the slots of a level ends on a slot, and on one of the    *)
(* slots looked for when there is one.                                     *)
LEMMA AdvanceType ==
  ASSUME NEW pos \in Slot \union {-1}, NEW S \in SUBSET Slot
  PROVE  /\ Advance(pos, S) \in Slot
         /\ S # {} => Advance(pos, S) \in S
<1> USE ProcessAssumption
<1>1. CASE S = {}
  <2>1. (pos + NSLOT) % NSLOT \in 0..NSLOT-1
    BY DEF Slot
  <2> QED BY <1>1, <2>1 DEF Advance, Slot
<1>2. CASE S # {}
  <2>1. \A s \in S : Dist(pos, s) \in Nat
    BY DEF Dist, Slot
  <2> DEFINE f == [s \in S |-> Dist(pos, s)]
  <2>2. \E s \in S : \A r \in S : f[s] <= f[r]
    <3>1. f \in [S -> Nat]
      BY <2>1
    <3> HIDE DEF f
    <3> QED BY <1>2, <3>1, LeastMeasure
  <2>3. \E s \in S : \A r \in S : Dist(pos, s) <= Dist(pos, r)
    BY <2>2
  <2> QED BY <1>2, <2>3 DEF Advance
<1> QED BY <1>1, <1>2

(* The scheduler's highest level with a ready process.                     *)
LEMMA TopLevelType ==
  ASSUME NEW q, ReadyLevels(q) # {}
  PROVE  /\ TopLevel(q) \in Level
         /\ ReadySlots(q, TopLevel(q)) # {}
<1> USE ProcessAssumption
<1>1. ReadyLevels(q) \subseteq 0..MAX_PRIO
  BY DEF ReadyLevels, Level
<1>2. \E l \in ReadyLevels(q) : \A m \in ReadyLevels(q) : m <= l
  BY <1>1, GreatestNat
<1>3. TopLevel(q) \in ReadyLevels(q)
  BY <1>2 DEF TopLevel
<1> QED BY <1>3 DEF ReadyLevels

-----------------------------------------------------------------------------
(* alloc_pidmap looks for an identifier inside the bitmap.                 *)
LEMMA AllocOffsetType ==
  ASSUME PidTypeOK
  PROVE  AllocOffset \in 0..NPID
<1> USE ProcessAssumption, PidAssumption
<1> DEFINE off == PidMask(last_pid + 1)
           zero == {p \in Pid \ page : p >= off}
<1>1. CASE zero = {}
  BY <1>1 DEF AllocOffset, find_next_zero_bit
<1>2. CASE zero # {}
  <2>1. zero \subseteq Nat
    BY DEF Pid
  <2>2. \E p \in zero : \A q \in zero : p <= q
    BY <1>2, <2>1, LeastNat
  <2>3. find_next_zero_bit(off) \in zero
    BY <1>2, <2>2 DEF find_next_zero_bit
  <2>4. find_next_zero_bit(off) \in 0..NPID
    BY <2>3 DEF Pid
  <2> QED BY <2>4 DEF AllocOffset
<1> QED BY <1>1, <1>2

LEMMA AllocResultType ==
  ASSUME NEW o
  PROVE  AllocResult(o) \in PidOrNone
BY DEF AllocResult, PidOrNone

(* The accesses to the bitmap, the counter and last_pid.                   *)
LEMMA PidSteps ==
  ASSUME PidTypeOK,
         \/ \E o : AllocCommit(o)
         \/ \E p \in Int : free_pidmap(p)
         \/ \E p : LoadWord(p)
         \/ \E p : \E bits \in SUBSET Pid : StoreWord(p, bits)
         \/ LoadCount
         \/ \E n \in Int : StoreCount(n)
         \/ \E p \in Pid : StoreLast(p)
         \/ UNCHANGED pidVars
  PROVE  PidTypeOK'
<1> USE DEF PidTypeOK
<1>1. CASE \E o : AllocCommit(o)
  BY <1>1 DEF AllocCommit, pidVars
<1>2. CASE \E p \in Int : free_pidmap(p)
  BY <1>2 DEF free_pidmap
<1>3. CASE \E p : LoadWord(p)
  BY <1>3 DEF LoadWord
<1>4. CASE \E p : \E bits \in SUBSET Pid : StoreWord(p, bits)
  BY <1>4 DEF StoreWord
<1>5. CASE LoadCount
  BY <1>5 DEF LoadCount
<1>6. CASE \E n \in Int : StoreCount(n)
  BY <1>6 DEF StoreCount
<1>7. CASE \E p \in Pid : StoreLast(p)
  BY <1>7 DEF StoreLast
<1>8. CASE UNCHANGED pidVars
  BY <1>8 DEF pidVars
<1> QED BY <1>1, <1>2, <1>3, <1>4, <1>5, <1>6, <1>7, <1>8

LEMMA PidUnchanged ==
  ASSUME PidTypeOK, UNCHANGED pidVars
  PROVE  PidTypeOK'
BY PidSteps

-----------------------------------------------------------------------------
(* Moving the current PCB to a free slot of a neighbouring level keeps the *)
(* table typed.                                                            *)
LEMMA RequeuedType ==
  ASSUME NEW q, TypedQueue(q), QueueInv, NEW expired \in BOOLEAN
  PROVE  LET r == Requeued(q, expired)
         IN  /\ TypedQueue(r.queue)
             /\ r.proc \in [Level -> Slot \union {-1}]
             /\ r.level \in Level
<1> USE ProcessAssumption
<1> DEFINE target  == IF expired THEN curr_queue - 1 ELSE curr_queue + 1
           movable == IF expired THEN curr_queue > DEFAULT_PRIO
                      ELSE curr_queue \in DEFAULT_PRIO..MAX_PRIO-1
           from == curr_proc[curr_queue]
           to   == Advance(curr_proc[target], FreeSlots(q, target))
           r    == Requeued(q, expired)
           moved == [q EXCEPT ![target][to] = q[curr_queue][from],
                              ![curr_queue][from] = Cleared(@)]
<1>1. CASE ~movable
  <2>1. r = [queue |-> q, proc |-> curr_proc, level |-> curr_queue]
    BY <1>1 DEF Requeued
  <2> QED BY <2>1 DEF QueueInv
<1>2. CASE movable
  <2>1. target \in Level /\ curr_queue \in Level /\ target # curr_queue
    BY <1>2 DEF Level, QueueInv
  <2>2. to \in Slot /\ (FreeSlots(q, target) # {} => to \in FreeSlots(q, target))
    BY <2>1, AdvanceType DEF FreeSlots, QueueInv
  <2>3. [curr_proc EXCEPT ![target] = to] \in [Level -> Slot \union {-1}]
    BY <2>1, <2>2 DEF QueueInv
  <2>4. CASE FreeSlots(q, target) = {}
    <3>1. r = [queue |-> q, proc |-> [curr_proc EXCEPT ![target] = to],
               level |-> curr_queue]
      BY <1>2, <2>4 DEF Requeued
    <3> QED BY <2>1, <2>3, <3>1
  <2>5. CASE FreeSlots(q, target) # {}
    <3>1. r = [queue |-> moved, proc |-> [curr_proc EXCEPT ![target] = to],
               level |-> target]
      BY <1>2, <2>5 DEF Requeued
    <3>2. from \in Slot
      BY DEF QueueInv
    <3>3. q[curr_queue][from] \in PCB
      BY <2>1, <3>2 DEF TypedQueue
    <3>4. Cleared(q[curr_queue][from]) \in PCB
      BY <3>3 DEF Cleared, PCB, PidOrNone
    <3>5. moved = [l \in Level |-> [s \in Slot |->
                    IF l = target /\ s = to THEN q[curr_queue][from]
                    ELSE IF l = curr_queue /\ s = from
                    THEN Cleared(q[curr_queue][from])
                    ELSE q[l][s]]]
      BY <2>1, <2>2, <3>2 DEF TypedQueue
    <3>6. TypedQueue(moved)
      BY <3>3, <3>4, <3>5 DEF TypedQueue
    <3> HIDE DEF moved
    <3> QED BY <2>1, <2>3, <3>1, <3>6
  <2> QED BY <2>4, <2>5
<1> QED BY <1>1, <1>2

(* Saving the registers of the running thread.                             *)
LEMMA SaveContextType ==
  ASSUME NEW q, TypedQueue(q), QueueInv, cpu \in Thread \union {Torn}
  PROVE  TypedQueue(SaveContext(q))
<1> DEFINE l == curr_queue
           s == curr_proc[curr_queue]
           p == [q[l][s] EXCEPT !.ctx = cpu]
<1>1. l \in Level /\ s \in Slot
  BY DEF QueueInv
<1>2. q[l][s] \in PCB
  BY <1>1 DEF TypedQueue
<1>3. p \in PCB
  BY <1>2 DEF PCB, Context
<1>4. SaveContext(q) = [m \in Level |-> [t \in Slot |->
        IF m = l /\ t = s THEN p ELSE q[m][t]]]
  BY <1>1 DEF SaveContext, TypedQueue
<1> HIDE DEF p
<1> QED BY <1>3, <1>4 DEF TypedQueue

(* Loading the next process.                                               *)
LEMMA DispatchType ==
  ASSUME NEW r, TypedQueue(r.queue), cpu \in Thread \union {Torn},
         r.proc \in [Level -> Slot \union {-1}], r.level \in Level,
         NEW after \in {"user", "stopped"}, Dispatch(r, after)
  PROVE  /\ QueueInv'
         /\ cpu' \in Thread \union {Torn}
         /\ mode' \in {"user", "stopped"}
         /\ task_queue' = r.queue
<1>1. \A l \in Level, S \in SUBSET Slot : Advance(r.proc[l], S) \in Slot
  BY AdvanceType
<1>2. CASE ReadyLevels(r.queue) = {}
  <2>1. /\ task_queue' = r.queue
        /\ curr_proc' = [l \in Level |-> Advance(r.proc[l], {})]
        /\ curr_queue' = r.level
        /\ mode' = "stopped"
        /\ cpu' = cpu
    BY <1>2 DEF Dispatch
  <2>2. \A l \in Level : Advance(r.proc[l], {}) \in Slot
    BY <1>1
  <2> QED BY <2>1, <2>2 DEF QueueInv
<1>3. CASE ReadyLevels(r.queue) # {}
  <2> DEFINE top == TopLevel(r.queue)
  <2>1. /\ task_queue' = r.queue
        /\ curr_proc' = [l \in Level |->
             IF l < top THEN r.proc[l]
             ELSE Advance(r.proc[l], ReadySlots(r.queue, l))]
        /\ curr_queue' = top
        /\ cpu' = Resumed(r.queue[top][curr_proc'[top]].ctx)
        /\ mode' = after
    BY <1>3 DEF Dispatch
  <2>2. top \in Level /\ ReadySlots(r.queue, top) # {}
    BY <1>3, TopLevelType
  <2>3. \A l \in Level : ReadySlots(r.queue, l) \in SUBSET Slot
    BY DEF ReadySlots
  <2>4. curr_proc' \in [Level -> Slot \union {-1}]
    BY <1>1, <2>1, <2>3
  <2>5. curr_proc'[top] = Advance(r.proc[top], ReadySlots(r.queue, top))
    <3>1. ~(top < top)
      BY <2>2 DEF Level
    <3> HIDE DEF top
    <3> QED BY <2>1, <2>2, <3>1
  <2>6. curr_proc'[top] \in ReadySlots(r.queue, top)
    <3>1. r.proc[top] \in Slot \union {-1}
      BY <2>2
    <3> HIDE DEF top
    <3> QED BY <2>2, <2>3, <2>5, <3>1, AdvanceType
  <2>7. curr_proc'[top] \in Slot
    BY <2>6 DEF ReadySlots
  <2>8. cpu' \in Thread \union {Torn}
    BY <2>1 DEF Resumed
  <2> HIDE DEF top
  <2> QED BY <2>1, <2>2, <2>4, <2>7, <2>8 DEF QueueInv
<1> QED BY <1>2, <1>3

(* pc_schedule as a whole.                                                 *)
LEMMA ScheduleStep ==
  ASSUME QueueInv, cpu \in Thread \union {Torn}, NEW q, TypedQueue(q),
         NEW expired \in BOOLEAN, NEW after \in {"user", "stopped"},
         pc_schedule(q, expired, after)
  PROVE  /\ QueueInv'
         /\ cpu' \in Thread \union {Torn}
         /\ mode' \in {"user", "stopped"}
<1> DEFINE sq == SaveContext(q)
           r  == Requeued(sq, expired)
<1>1. TypedQueue(sq)
  BY SaveContextType
<1>2. /\ TypedQueue(r.queue)
      /\ r.proc \in [Level -> Slot \union {-1}]
      /\ r.level \in Level
  <2> HIDE DEF sq
  <2> QED BY <1>1, RequeuedType
<1>3. Dispatch(r, after)
  BY DEF pc_schedule
<1> HIDE DEF r, sq
<1> QED BY <1>2, <1>3, DispatchType

-----------------------------------------------------------------------------
(* Writing one PCB.                                                        *)
LEMMA PutPCB ==
  ASSUME NEW q, TypedQueue(q), NEW l \in Level, NEW s \in Slot, NEW p \in PCB,
         NEW r, r = [q EXCEPT ![l][s] = p]
  PROVE  TypedQueue(r)
BY DEF TypedQueue

(* Emptying a PCB: pc_kill and pc_kill_syscall leave all but the ASID.     *)
LEMMA ClearSlot ==
  ASSUME NEW q, TypedQueue(q), NEW l \in Level, NEW s \in Slot
  PROVE  TypedQueue([q EXCEPT ![l][s] = Cleared(@)])
<1>1. q[l][s] \in PCB
  BY DEF TypedQueue
<1>2. Cleared(q[l][s]) \in PCB
  BY <1>1 DEF Cleared, PCB, PidOrNone
<1> QED BY <1>2 DEF TypedQueue

(* Making init the parent of one process, or of every child of asid.       *)
LEMMA AdoptSlot ==
  ASSUME NEW q, TypedQueue(q), NEW l \in Level, NEW s \in Slot
  PROVE  TypedQueue([q EXCEPT ![l][s].ppid = INIT])
<1>1. q[l][s] \in PCB
  BY DEF TypedQueue
<1>2. INIT \in PidOrNone
  BY ProcessAssumption, PidAssumption DEF INIT, PidOrNone, Pid
<1>3. [q[l][s] EXCEPT !.ppid = INIT] \in PCB
  BY <1>1, <1>2 DEF PCB
<1> QED BY <1>3 DEF TypedQueue

LEMMA GiveToInitType ==
  ASSUME NEW q, TypedQueue(q), NEW asid
  PROVE  TypedQueue(GiveToInit(q, asid))
<1>1. INIT \in PidOrNone
  BY ProcessAssumption, PidAssumption DEF INIT, PidOrNone, Pid
<1>2. \A l \in Level, s \in Slot : [q[l][s] EXCEPT !.ppid = INIT] \in PCB
  <2> SUFFICES ASSUME NEW l \in Level, NEW s \in Slot
               PROVE  [q[l][s] EXCEPT !.ppid = INIT] \in PCB
    OBVIOUS
  <2>1. q[l][s] \in PCB
    BY DEF TypedQueue
  <2> QED BY <1>1, <2>1 DEF PCB
<1> QED BY <1>2 DEF TypedQueue, GiveToInit

(* The current PCB emptied before pc_kill_syscall calls pc_schedule.       *)
LEMMA WithoutCurrentType ==
  ASSUME QueueInv, NEW q, TypedQueue(q)
  PROVE  TypedQueue(WithoutCurrent(q))
<1>1. curr_queue \in Level /\ curr_proc[curr_queue] \in Slot
  BY DEF QueueInv
<1> QED BY <1>1, ClearSlot DEF WithoutCurrent

LEMMA QueueKept ==
  ASSUME QueueInv, UNCHANGED schedVars
  PROVE  QueueInv'
BY DEF QueueInv, schedVars

(* What pc_create knows, whoever else runs.                                *)
LEMMA ShellKept ==
  ASSUME ShellInv, UNCHANGED shell,
         shell.pc = "prompt" \/ kills'["shell"] = kills["shell"]
  PROVE  ShellInv'
BY DEF ShellInv

-----------------------------------------------------------------------------
(* The frames of pc_kill.                                                  *)
LEMMA FrameAtType ==
  ASSUME QueueInv, NEW p \in Int, NEW sys \in BOOLEAN, NEW l \in Level
  PROVE  FrameAt(p, sys, l) \in Frame
<1>1. curr_proc[l] \in Slot \union {-1}
  BY DEF QueueInv
<1>2. (curr_proc[l] + 1) % NSLOT \in Slot /\ NSLOT \in 1..NSLOT
  BY <1>1, ProcessAssumption DEF Slot
<1> QED BY <1>2 DEF FrameAt, Frame

LEMMA PushFrame ==
  ASSUME NEW f \in Frame, NEW fs \in Seq(Frame)
  PROVE  <<f>> \o fs \in Seq(Frame)
OBVIOUS

LEMMA HeadFrame ==
  ASSUME NEW fs \in Seq(Frame), fs # <<>>
  PROVE  Head(fs) \in Frame /\ Tail(fs) \in Seq(Frame)
OBVIOUS

LEMMA StepFrame ==
  ASSUME NEW f \in Frame,
         NEW st \in {"visit", "free", "count", "load", "mask", "clear", "return"}
  PROVE  [f EXCEPT !.step = st] \in Frame
BY DEF Frame

LEMMA NextSlotType ==
  ASSUME QueueInv, NEW fs \in Seq(Frame), fs # <<>>
  PROVE  NextSlot(fs) \in Seq(Frame)
<1> DEFINE f == Head(fs)
           g == [f EXCEPT !.slot = (f.slot + 1) % NSLOT, !.left = f.left - 1,
                          !.step = "visit"]
<1>1. f \in Frame /\ Tail(fs) \in Seq(Frame)
  BY HeadFrame
<1> HIDE DEF f
<1>2. CASE f.left > 1
  <2>1. (f.slot + 1) % NSLOT \in Slot /\ f.left - 1 \in 1..NSLOT
    BY <1>1, <1>2, ProcessAssumption DEF Frame, Slot
  <2>2. g \in Frame
    BY <1>1, <2>1 DEF Frame
  <2>3. NextSlot(fs) = <<g>> \o Tail(fs)
    BY <1>2 DEF NextSlot, f
  <2> HIDE DEF g
  <2> QED BY <1>1, <2>2, <2>3, PushFrame
<1>3. CASE ~(f.left > 1) /\ f.level > 0
  <2>1. f.level - 1 \in Level /\ f.proc \in Int /\ f.sys \in BOOLEAN
    BY <1>1, <1>3, ProcessAssumption DEF Frame, Level
  <2>2. FrameAt(f.proc, f.sys, f.level - 1) \in Frame
    BY <2>1, FrameAtType
  <2>3. NextSlot(fs) = <<FrameAt(f.proc, f.sys, f.level - 1)>> \o Tail(fs)
    BY <1>3 DEF NextSlot, f
  <2> QED BY <1>1, <2>2, <2>3, PushFrame
<1>4. CASE ~(f.left > 1) /\ ~(f.level > 0)
  BY <1>1, <1>4 DEF NextSlot, f
<1> QED BY <1>2, <1>3, <1>4

LEMMA KillCallType ==
  ASSUME QueueInv, NEW p \in Int
  PROVE  KillCall(p) \in Seq(Frame)
<1>1. MAX_PRIO \in Level
  BY ProcessAssumption DEF Level
<1>2. FrameAt(p, FALSE, MAX_PRIO) \in Frame
  BY <1>1, FrameAtType
<1>3. \A f \in Frame : <<f>> \in Seq(Frame)
  OBVIOUS
<1>4. <<FrameAt(p, FALSE, MAX_PRIO)>> \in Seq(Frame)
  BY <1>2, <1>3
<1>5. CASE p \in {INIT, SHELL}
  BY <1>5 DEF KillCall
<1>6. CASE p \notin {INIT, SHELL}
  <2>1. KillCall(p) = <<FrameAt(p, FALSE, MAX_PRIO)>>
    BY <1>6 DEF KillCall
  <2> QED BY <1>4, <2>1
<1> QED BY <1>5, <1>6

-----------------------------------------------------------------------------
(* What every action has at hand.                                          *)
LEMMA CurrentType ==
  ASSUME QueueInv
  PROVE  Current \in PCB /\ Current.asid \in Int /\ Current.prio \in Level
<1>1. Current \in PCB
  BY DEF QueueInv, TypedQueue, Current
<1>2. PidOrNone \subseteq Int
  BY PidAssumption DEF PidOrNone, Pid, NoPid
<1> QED BY <1>1, <1>2 DEF PCB

LEMMA TimerStep ==
  ASSUME IInv, Timer
  PROVE  IInv'
<1>1. TypedQueue(task_queue) /\ QueueInv /\ cpu \in Thread \union {Torn}
  BY DEF IInv, QueueInv, RestInv
<1>2. /\ QueueInv' /\ cpu' \in Thread \union {Torn}
      /\ mode' \in {"user", "stopped"}
  <2>1. pc_schedule(task_queue, TRUE, "user")
    BY DEF Timer
  <2> QED BY <1>1, <2>1, ScheduleStep
<1>3. UNCHANGED <<pidVars, kill_state, kills, shell, spawned>>
  BY DEF Timer
<1>4. PidTypeOK'
  BY <1>3, PidUnchanged DEF IInv
<1>5. ShellInv'
  BY <1>3, ShellKept DEF IInv
<1>6. RestInv'
  BY <1>2, <1>3 DEF IInv, RestInv
<1> QED BY <1>2, <1>4, <1>5, <1>6 DEF IInv

LEMMA ForkStep ==
  ASSUME IInv, do_fork
  PROVE  IInv'
<1> DEFINE l      == Current.prio
           free   == FreeSlots(task_queue, l)
           pos    == Advance(curr_proc[l], free)
           asid   == AllocResult(AllocOffset)
           named  == [task_queue EXCEPT ![l][pos].asid = asid]
           saved  == SaveContext(named)
           parent == saved[curr_queue][curr_proc[curr_queue]]
           child  == spawned + 1
           rec    == [asid |-> asid, ppid |-> parent.asid, prio |-> l,
                      ctx |-> child]
<1>1. /\ QueueInv /\ ShellInv /\ PidTypeOK /\ RestInv
      /\ curr_queue \in Level /\ curr_proc[curr_queue] \in Slot
      /\ l \in Level
  BY CurrentType DEF IInv, QueueInv
<1>2. UNCHANGED <<kill_state, kills, shell>> /\ mode = "user"
  BY DEF do_fork, ProgramRuns
<1>3. CASE free = {}
  <2>1. mode' = "stopped" /\ UNCHANGED <<pidVars, schedVars, cpu, spawned>>
    BY <1>3 DEF do_fork
  <2>2. PidTypeOK'
    BY <1>1, <2>1, PidUnchanged
  <2>3. QueueInv'
    BY <1>1, <2>1, QueueKept
  <2>4. RestInv'
    BY <1>1, <1>2, <2>1 DEF RestInv
  <2> QED BY <1>1, <1>2, <2>2, <2>3, <2>4, ShellKept DEF IInv
<1>4. CASE free # {}
  <2>1. /\ AllocCommit(AllocOffset)
        /\ task_queue' = [saved EXCEPT ![l][pos] = rec]
        /\ curr_proc' = [curr_proc EXCEPT ![curr_queue] = pos]
        /\ cpu' = child
        /\ spawned' = child
        /\ UNCHANGED <<curr_queue, mode>>
    BY <1>4 DEF do_fork
  <2>2. PidTypeOK'
    BY <1>1, <2>1, PidSteps
  <2>3. child \in Thread
    <3>1. spawned \in Thread /\ spawned < MaxSpawn
      BY <1>1 DEF do_fork, RestInv
    <3> QED BY <3>1, ProcessAssumption DEF Thread
  <2>4. asid \in PidOrNone
    BY AllocResultType
  <2>5. pos \in Slot
    <3>1. curr_proc[l] \in Slot \union {-1} /\ free \in SUBSET Slot
      BY <1>1 DEF QueueInv, FreeSlots
    <3> QED BY <3>1, AdvanceType
  <2> HIDE DEF l, pos, asid
  <2>6. TypedQueue(task_queue)
    BY <1>1 DEF QueueInv
  <2>7. [task_queue[l][pos] EXCEPT !.asid = asid] \in PCB
    <3>1. task_queue[l][pos] \in PCB
      BY <1>1, <2>5, <2>6 DEF TypedQueue
    <3> QED BY <2>4, <3>1 DEF PCB
  <2>8. TypedQueue(named)
    BY <1>1, <2>5, <2>6, <2>7 DEF TypedQueue
  <2> HIDE DEF named
  <2>9. TypedQueue(saved) /\ saved[curr_queue][curr_proc[curr_queue]] \in PCB
    <3>1. TypedQueue(saved)
      BY <1>1, <2>8, SaveContextType DEF RestInv
    <3> QED BY <1>1, <3>1 DEF TypedQueue
  <2> HIDE DEF saved
  <2>10. rec \in PCB
    <3>1. parent.asid \in PidOrNone
      BY <2>9 DEF PCB
    <3> QED BY <1>1, <2>3, <2>4, <3>1 DEF PCB, Context
  <2> HIDE DEF rec
  <2>11. TypedQueue(task_queue')
    BY <1>1, <2>1, <2>5, <2>9, <2>10 DEF TypedQueue
  <2>12. QueueInv'
    BY <1>1, <2>1, <2>5, <2>11 DEF QueueInv
  <2>13. RestInv'
    BY <1>1, <1>2, <2>1, <2>3 DEF RestInv
  <2> QED BY <1>1, <1>2, <2>2, <2>12, <2>13, ShellKept DEF IInv
<1> QED BY <1>3, <1>4

(* While the Shell is in pc_kill it is not in pc_create.                   *)
LEMMA ShellAtKill ==
  ASSUME IInv, NEW who \in {"shell", "exit"}, kills[who] # <<>>,
         NEW new, kills' = [kills EXCEPT ![who] = new], UNCHANGED shell
  PROVE  ShellInv'
BY ShellKept DEF IInv, ShellInv, RestInv

(* The innermost frame of a call in progress.                              *)
LEMMA TopFrame ==
  ASSUME IInv, NEW who \in {"shell", "exit"}, kills[who] # <<>>
  PROVE  /\ kills[who] \in Seq(Frame)
         /\ Head(kills[who]) \in Frame
         /\ Tail(kills[who]) \in Seq(Frame)
         /\ NextSlot(kills[who]) \in Seq(Frame)
<1>1. kills[who] \in Seq(Frame) /\ QueueInv
  BY DEF IInv, RestInv
<1> QED BY <1>1, HeadFrame, NextSlotType

LEMMA KillVisitStep ==
  ASSUME IInv, NEW who \in {"shell", "exit"}, KillVisit(who)
  PROVE  IInv'
<1> DEFINE f   == Head(kills[who])
           pcb == task_queue[f.level][f.slot]
           hit == ~f.sys /\ pcb.asid = f.proc
           child == ~hit /\ pcb.ppid = f.proc
           dies  == child /\ ~kill_state /\ (f.sys \/ pcb.asid > 0)
           new == IF hit THEN <<[f EXCEPT !.step = "free"]>> \o Tail(kills[who])
                  ELSE IF dies
                  THEN KillCall(pcb.asid) \o <<[f EXCEPT !.step = "return"]>>
                       \o Tail(kills[who])
                  ELSE NextSlot(kills[who])
<1>1. /\ kills' = [kills EXCEPT ![who] = new]
      /\ task_queue' = IF child /\ kill_state
                       THEN [task_queue EXCEPT ![f.level][f.slot].ppid = INIT]
                       ELSE task_queue
      /\ UNCHANGED <<pidVars, curr_proc, curr_queue, kill_state, cpu, mode,
                     shell, spawned>>
      /\ kills[who] # <<>>
  BY DEF KillVisit, MayKill
<1>2. /\ f \in Frame /\ Tail(kills[who]) \in Seq(Frame)
      /\ NextSlot(kills[who]) \in Seq(Frame)
  BY <1>1, TopFrame
<1>3. QueueInv /\ TypedQueue(task_queue)
  BY DEF IInv, QueueInv
<1>4. f.level \in Level /\ f.slot \in Slot
  BY <1>2 DEF Frame
<1>5. pcb.asid \in Int
  <2>1. pcb \in PCB
    BY <1>3, <1>4 DEF TypedQueue
  <2> QED BY <2>1, PidAssumption DEF PCB, PidOrNone, Pid, NoPid
<1>6. new \in Seq(Frame)
  <2>1. /\ [f EXCEPT !.step = "free"] \in Frame
        /\ [f EXCEPT !.step = "return"] \in Frame
    BY <1>2, StepFrame
  <2>2. KillCall(pcb.asid) \in Seq(Frame)
    BY <1>3, <1>5, KillCallType
  <2>3. /\ <<[f EXCEPT !.step = "free"]>> \o Tail(kills[who]) \in Seq(Frame)
        /\ <<[f EXCEPT !.step = "return"]>> \o Tail(kills[who]) \in Seq(Frame)
    BY <1>2, <2>1, PushFrame
  <2>4. \A a, b, c \in Seq(Frame) : b \o c \in Seq(Frame) => a \o b \o c \in Seq(Frame)
    OBVIOUS
  <2>5. KillCall(pcb.asid) \o <<[f EXCEPT !.step = "return"]>> \o Tail(kills[who])
          \in Seq(Frame)
    <3>1. <<[f EXCEPT !.step = "return"]>> \in Seq(Frame)
      <4>1. \A g \in Frame : <<g>> \in Seq(Frame)
        OBVIOUS
      <4> QED BY <2>1, <4>1
    <3> QED BY <1>2, <2>2, <2>3, <2>4, <3>1
  <2> QED BY <1>2, <2>3, <2>5
<1> HIDE DEF new
<1>7. kills' \in [{"shell", "exit"} -> Seq(Frame)]
  BY <1>1, <1>6 DEF IInv, RestInv
<1>8. TypedQueue(task_queue')
  <2>1. CASE child /\ kill_state
    <3>1. task_queue' = [task_queue EXCEPT ![f.level][f.slot].ppid = INIT]
      BY <1>1, <2>1
    <3> HIDE DEF f
    <3> QED BY <1>3, <1>4, <3>1, AdoptSlot
  <2>2. CASE ~(child /\ kill_state)
    BY <1>1, <1>3, <2>2
  <2> QED BY <2>1, <2>2
<1>9. QueueInv'
  BY <1>1, <1>3, <1>8 DEF QueueInv
<1>10. RestInv'
  BY <1>1, <1>7 DEF IInv, RestInv
<1>11. PidTypeOK'
  BY <1>1, PidUnchanged DEF IInv
<1>12. ShellInv'
  BY <1>1, ShellAtKill
<1> QED BY <1>9, <1>10, <1>11, <1>12 DEF IInv

(* The calls of pc_kill touch the pids and their own frames.               *)
LEMMA FreeSteps ==
  ASSUME IInv, NEW who \in {"shell", "exit"}, kills[who] # <<>>,
         NEW st \in {"count", "load", "mask", "clear"}, StepTo(who, st),
         UNCHANGED <<schedVars, kill_state, cpu, mode, shell, spawned>>,
         PidTypeOK'
  PROVE  IInv'
<1> DEFINE f == Head(kills[who])
           new == <<[f EXCEPT !.step = st]>> \o Tail(kills[who])
<1>1. f \in Frame /\ Tail(kills[who]) \in Seq(Frame)
  BY TopFrame
<1>2. new \in Seq(Frame)
  BY <1>1, StepFrame, PushFrame
<1>3. kills' = [kills EXCEPT ![who] = new]
  BY DEF StepTo
<1> HIDE DEF new
<1>4. RestInv'
  BY <1>2, <1>3 DEF IInv, RestInv
<1>5. QueueInv'
  BY QueueKept DEF IInv
<1>6. ShellInv'
  BY <1>3, ShellAtKill
<1> QED BY <1>4, <1>5, <1>6 DEF IInv

LEMMA KillFreeStep ==
  ASSUME IInv, KillFree
  PROVE  IInv'
<1>1. kills["exit"] # <<>> /\ Head(kills["exit"]).proc \in Int
  BY TopFrame DEF KillFree, MayKill, Frame
<1>2. PidTypeOK'
  BY <1>1, PidSteps DEF KillFree, IInv
<1> QED BY <1>1, <1>2, FreeSteps DEF KillFree

LEMMA ShellFreeStep ==
  ASSUME IInv, ShellFree
  PROVE  IInv'
<1> DEFINE f   == Head(kills["shell"])
           bit == PidMask(f.proc)
<1>1. kills["shell"] # <<>>
  BY DEF ShellFree, MayKill
<1>2. UNCHANGED <<schedVars, kill_state, cpu, mode, shell, spawned>>
  BY DEF ShellFree
<1>3. PICK st \in {"count", "load", "mask", "clear"} :
        /\ StepTo("shell", st)
        /\ \/ LoadCount
           \/ StoreCount(count + 1)
           \/ LoadWord(bit)
           \/ StoreWord(bit, old \ {bit})
  BY DEF ShellFree
<1>4. PidTypeOK'
  <2>1. count + 1 \in Int /\ old \ {bit} \in SUBSET Pid
    BY DEF IInv, PidTypeOK
  <2> QED BY <1>3, <2>1, PidSteps DEF IInv
<1> QED BY <1>1, <1>2, <1>3, <1>4, FreeSteps

LEMMA KillClearStep ==
  ASSUME IInv, NEW who \in {"shell", "exit"}, KillClear(who)
  PROVE  IInv'
<1> DEFINE f == Head(kills[who])
<1>1. /\ task_queue' = [task_queue EXCEPT ![f.level][f.slot] = Cleared(@)]
      /\ kills' = [kills EXCEPT ![who] = NextSlot(@)]
      /\ UNCHANGED <<pidVars, curr_proc, curr_queue, kill_state, cpu, mode,
                     shell, spawned>>
      /\ kills[who] # <<>>
  BY DEF KillClear, MayKill
<1>2. f \in Frame /\ NextSlot(kills[who]) \in Seq(Frame)
  BY <1>1, TopFrame
<1>3. f.level \in Level /\ f.slot \in Slot
  BY <1>2 DEF Frame
<1> HIDE DEF f
<1>4. TypedQueue(task_queue')
  BY <1>1, <1>3, ClearSlot DEF IInv, QueueInv
<1>5. QueueInv'
  BY <1>1, <1>4 DEF IInv, QueueInv
<1>6. kills' \in [{"shell", "exit"} -> Seq(Frame)]
  BY <1>1, <1>2 DEF IInv, RestInv
<1>7. RestInv'
  BY <1>1, <1>6 DEF IInv, RestInv
<1>8. PidTypeOK'
  BY <1>1, PidUnchanged DEF IInv
<1>9. ShellInv'
  BY <1>1, ShellAtKill
<1> QED BY <1>5, <1>7, <1>8, <1>9 DEF IInv

LEMMA KillReturnStep ==
  ASSUME IInv, NEW who \in {"shell", "exit"}, KillReturn(who)
  PROVE  IInv'
<1>1. /\ kills' = [kills EXCEPT ![who] = NextSlot(@)]
      /\ UNCHANGED <<pidVars, schedVars, kill_state, cpu, mode, shell, spawned>>
      /\ kills[who] # <<>>
  BY DEF KillReturn, MayKill
<1>2. NextSlot(kills[who]) \in Seq(Frame)
  BY <1>1, TopFrame
<1>3. kills' \in [{"shell", "exit"} -> Seq(Frame)]
  BY <1>1, <1>2 DEF IInv, RestInv
<1>4. RestInv'
  BY <1>1, <1>3 DEF IInv, RestInv
<1>5. QueueInv'
  BY <1>1, QueueKept DEF IInv
<1>6. PidTypeOK'
  BY <1>1, PidUnchanged DEF IInv
<1>7. ShellInv'
  BY <1>1, ShellAtKill
<1> QED BY <1>4, <1>5, <1>6, <1>7 DEF IInv

-----------------------------------------------------------------------------
(* The process on the processor dies.                                      *)
LEMMA SyscallStep ==
  ASSUME IInv, NEW how \in {"exit", "fault"}, pc_kill_syscall(how)
  PROVE  IInv'
<1>1. QueueInv /\ TypedQueue(task_queue) /\ cpu \in Thread \union {Torn}
  BY DEF IInv, QueueInv, RestInv
<1>2. UNCHANGED <<kill_state, shell, spawned>> /\ free_pidmap(Current.asid)
  BY DEF pc_kill_syscall
<1>3. Current.asid \in Int
  BY <1>1, CurrentType
<1>4. PidTypeOK'
  BY <1>2, <1>3, PidSteps DEF IInv
<1>5. CASE kill_state
  <2> DEFINE g == GiveToInit(task_queue, Current.asid)
             w == WithoutCurrent(g)
  <2>1. PICK expired \in BOOLEAN : pc_schedule(w, expired, AfterKill(how))
    BY <1>5 DEF pc_kill_syscall
  <2>2. TypedQueue(g)
    BY <1>1, GiveToInitType
  <2> HIDE DEF g
  <2>3. TypedQueue(w)
    BY <1>1, <2>2, WithoutCurrentType
  <2>4. AfterKill(how) \in {"user", "stopped"}
    BY DEF AfterKill
  <2> HIDE DEF w
  <2>5. /\ QueueInv' /\ cpu' \in Thread \union {Torn}
        /\ mode' \in {"user", "stopped"}
    BY <1>1, <2>1, <2>3, <2>4, ScheduleStep
  <2>6. UNCHANGED kills
    BY <1>5 DEF pc_kill_syscall
  <2>7. RestInv'
    BY <1>2, <2>5, <2>6 DEF IInv, RestInv
  <2> QED BY <1>2, <1>4, <2>5, <2>6, <2>7, ShellKept DEF IInv
<1>6. CASE ~kill_state
  <2> DEFINE new == <<FrameAt(Current.asid, TRUE, MAX_PRIO)>>
  <2>1. /\ mode' = how
        /\ kills' = [kills EXCEPT !["exit"] = new]
        /\ UNCHANGED <<schedVars, cpu>>
    BY <1>6 DEF pc_kill_syscall
  <2>2. new \in Seq(Frame)
    <3>1. MAX_PRIO \in Level
      BY ProcessAssumption DEF Level
    <3>2. FrameAt(Current.asid, TRUE, MAX_PRIO) \in Frame
      BY <1>1, <1>3, <3>1, FrameAtType
    <3>3. \A f \in Frame : <<f>> \in Seq(Frame)
      OBVIOUS
    <3> QED BY <3>2, <3>3
  <2> HIDE DEF new
  <2>3. kills' \in [{"shell", "exit"} -> Seq(Frame)]
    BY <2>1, <2>2 DEF IInv, RestInv
  <2>4. RestInv'
    BY <1>2, <2>1, <2>3 DEF IInv, RestInv
  <2>5. QueueInv'
    BY <1>1, <2>1, QueueKept
  <2>6. kills'["shell"] = kills["shell"]
    BY <2>1 DEF IInv, RestInv
  <2> QED BY <1>2, <1>4, <2>4, <2>5, <2>6, ShellKept DEF IInv
<1> QED BY <1>5, <1>6

LEMMA ExitDoneStep ==
  ASSUME IInv, ExitDone
  PROVE  IInv'
<1> DEFINE w == WithoutCurrent(task_queue)
<1>1. QueueInv /\ TypedQueue(task_queue) /\ cpu \in Thread \union {Torn}
  BY DEF IInv, QueueInv, RestInv
<1>2. PICK expired \in BOOLEAN : pc_schedule(w, expired, AfterKill(mode))
  BY DEF ExitDone
<1>3. TypedQueue(w)
  BY <1>1, WithoutCurrentType
<1>4. AfterKill(mode) \in {"user", "stopped"}
  BY DEF AfterKill
<1> HIDE DEF w
<1>5. /\ QueueInv' /\ cpu' \in Thread \union {Torn}
      /\ mode' \in {"user", "stopped"}
  BY <1>1, <1>2, <1>3, <1>4, ScheduleStep
<1>6. UNCHANGED <<pidVars, kill_state, kills, shell, spawned>>
  BY DEF ExitDone
<1>7. RestInv'
  BY <1>5, <1>6 DEF IInv, RestInv
<1>8. PidTypeOK'
  BY <1>6, PidUnchanged DEF IInv
<1> QED BY <1>5, <1>6, <1>7, <1>8, ShellKept DEF IInv

-----------------------------------------------------------------------------
(* The Shell's steps that leave the queues alone.                          *)
LEMMA ShellOnly ==
  ASSUME IInv, UNCHANGED <<schedVars, kill_state, cpu, mode, kills>>,
         spawned' \in Thread, PidTypeOK', ShellInv'
  PROVE  IInv'
<1>1. QueueInv'
  BY QueueKept DEF IInv
<1>2. RestInv'
  BY DEF IInv, RestInv
<1> QED BY <1>1, <1>2 DEF IInv

LEMMA CmdCreateStep ==
  ASSUME IInv, NEW prio \in CommandPrio, CmdCreate(prio)
  PROVE  IInv'
<1>1. prio \in Level /\ 0 \in Slot
  BY ProcessAssumption DEF CommandPrio, Level, Slot
<1>2. AllocOffset \in 0..NPID
  BY AllocOffsetType DEF IInv
<1>3. AllocOffset \in PidOrNone \union {NPID}
  BY <1>2, PidAssumption DEF PidOrNone, Pid
<1>4. /\ spawned' = spawned + 1
      /\ shell' = [pc |-> "commit", prio |-> prio, pid |-> AllocOffset,
                   slot |-> 0, thread |-> spawned + 1]
      /\ UNCHANGED <<pidVars, schedVars, kill_state, cpu, mode, kills>>
      /\ spawned < MaxSpawn
      /\ kills["shell"] = <<>>
  BY DEF CmdCreate, AtPrompt, ShellBusy
<1>5. spawned + 1 \in Thread
  BY <1>4, ProcessAssumption DEF IInv, RestInv, Thread
<1>6. ShellInv'
  BY <1>1, <1>2, <1>3, <1>4, <1>5 DEF ShellInv, ShellRecord
<1>7. PidTypeOK'
  BY <1>4, PidUnchanged DEF IInv
<1> QED BY <1>4, <1>5, <1>6, <1>7, ShellOnly

LEMMA ShellLoadsStep ==
  ASSUME IInv, ShellLoads
  PROVE  IInv'
<1>1. /\ shell.pc = "commit"
      /\ shell.pid \in 0..NPID /\ shell \in ShellRecord
      /\ shell.thread \in Thread /\ kills["shell"] = <<>>
      /\ UNCHANGED <<schedVars, kill_state, cpu, mode, kills, spawned>>
  BY DEF ShellLoads, ShellAt, IInv, ShellInv
<1>2. PidTypeOK'
  BY PidSteps DEF ShellLoads, IInv
<1>3. CASE shell.pid = NPID
  <2>1. shell' = [shell EXCEPT !.pc = "search", !.pid = NoPid]
    BY <1>3 DEF ShellLoads
  <2>2. ShellInv'
    BY <1>1, <2>1 DEF ShellInv, ShellRecord, PidOrNone
  <2> QED BY <1>1, <1>2, <2>2, ShellOnly DEF IInv, RestInv
<1>4. CASE shell.pid # NPID
  <2>1. shell' = [shell EXCEPT !.pc = "set"]
    BY <1>4 DEF ShellLoads
  <2>2. shell.pid \in Pid
    BY <1>1, <1>4, PidAssumption DEF Pid
  <2>3. ShellInv'
    BY <1>1, <2>1, <2>2 DEF ShellInv, ShellRecord
  <2> QED BY <1>1, <1>2, <2>3, ShellOnly DEF IInv, RestInv
<1> QED BY <1>3, <1>4

LEMMA ShellSetsStep ==
  ASSUME IInv, ShellSets
  PROVE  IInv'
<1>1. /\ shell.pc = "set"
      /\ shell.pid \in Pid /\ shell \in ShellRecord
      /\ shell.thread \in Thread /\ kills["shell"] = <<>>
      /\ StoreWord(shell.pid, old \union {shell.pid})
      /\ shell' \in {[shell EXCEPT !.pc = "search", !.pid = NoPid],
                     [shell EXCEPT !.pc = "fetch"]}
      /\ UNCHANGED <<schedVars, kill_state, cpu, mode, kills, spawned>>
  BY DEF ShellSets, ShellAt, IInv, ShellInv
<1>2. PidTypeOK'
  <2>1. old \union {shell.pid} \in SUBSET Pid
    BY <1>1 DEF IInv, PidTypeOK
  <2> QED BY <1>1, <2>1, PidSteps DEF IInv
<1>3. ShellInv'
  BY <1>1 DEF ShellInv, ShellRecord, PidOrNone
<1> QED BY <1>1, <1>2, <1>3, ShellOnly DEF IInv, RestInv

LEMMA ShellCountsStep ==
  ASSUME IInv, ShellCounts
  PROVE  IInv'
<1>1. /\ shell.pc \in {"fetch", "count", "last"}
      /\ shell.pid \in Pid /\ shell \in ShellRecord
      /\ shell.thread \in Thread /\ kills["shell"] = <<>>
      /\ shell' \in {[shell EXCEPT !.pc = "count"], [shell EXCEPT !.pc = "last"],
                     [shell EXCEPT !.pc = "search"]}
      /\ LoadCount \/ StoreCount(count - 1) \/ StoreLast(shell.pid)
      /\ UNCHANGED <<schedVars, kill_state, cpu, mode, kills, spawned>>
  BY DEF ShellCounts, ShellAt, IInv, ShellInv
<1>2. PidTypeOK'
  <2>1. count - 1 \in Int
    BY DEF IInv, PidTypeOK
  <2> QED BY <1>1, <2>1, PidSteps DEF IInv
<1>3. ShellInv'
  BY <1>1 DEF ShellInv, ShellRecord, PidOrNone
<1> QED BY <1>1, <1>2, <1>3, ShellOnly DEF IInv, RestInv

LEMMA CmdProcStep ==
  ASSUME IInv, CmdProc
  PROVE  IInv'
<1> DEFINE pid == pc_peek(DEFAULT_PRIO)
           free == FreeSlots(task_queue, DEFAULT_PRIO)
<1>1. /\ spawned' = spawned + 1
      /\ shell' = [pc |-> "search", prio |-> DEFAULT_PRIO, pid |-> pid,
                   slot |-> 0, thread |-> spawned + 1]
      /\ UNCHANGED <<pidVars, schedVars, kill_state, cpu, mode, kills>>
      /\ spawned < MaxSpawn
      /\ pid >= 0
      /\ kills["shell"] = <<>>
  BY DEF CmdProc, AtPrompt, ShellBusy
<1>2. spawned + 1 \in Thread
  BY <1>1, ProcessAssumption DEF IInv, RestInv, Thread
<1>3. DEFAULT_PRIO \in Level /\ 0 \in Slot
  BY ProcessAssumption DEF Level, Slot
<1>4. pid \in Pid
  <2>1. free # {}
    BY <1>1 DEF pc_peek
  <2>2. free \subseteq Nat
    BY DEF FreeSlots, Slot
  <2>3. \E s \in free : \A r \in free : s <= r
    BY <2>1, <2>2, LeastNat
  <2>4. pid \in free
    BY <2>1, <2>3 DEF pc_peek
  <2>5. pid \in Slot
    BY <2>4 DEF FreeSlots
  <2> HIDE DEF pid
  <2> QED BY <2>5, ProcessAssumption, PidAssumption DEF Slot, Pid
<1> HIDE DEF pid
<1>5. ShellInv'
  BY <1>1, <1>2, <1>3, <1>4 DEF ShellInv, ShellRecord, PidOrNone
<1>6. PidTypeOK'
  BY <1>1, PidUnchanged DEF IInv
<1> QED BY <1>1, <1>2, <1>5, <1>6, ShellOnly

LEMMA CreateSearchStep ==
  ASSUME IInv, CreateSearch
  PROVE  IInv'
<1> DEFINE free == FreeSlots(task_queue, shell.prio)
           pos  == Advance(curr_proc[shell.prio], free)
<1>1. /\ shell.pc = "search"
      /\ shell' = IF free = {} THEN [shell EXCEPT !.pc = "stuck"]
                  ELSE [shell EXCEPT !.pc = "fill", !.slot = pos]
      /\ UNCHANGED <<pidVars, schedVars, kill_state, cpu, mode, kills, spawned>>
  BY DEF CreateSearch, ShellAt
<1>2. shell \in ShellRecord /\ shell.prio \in Level
  BY DEF IInv, ShellInv, ShellRecord
<1>3. pos \in Slot
  <2>1. curr_proc[shell.prio] \in Slot \union {-1} /\ free \in SUBSET Slot
    BY <1>2 DEF IInv, QueueInv, FreeSlots
  <2> QED BY <2>1, AdvanceType
<1> HIDE DEF free, pos
<1>4. ShellInv'
  BY <1>1, <1>2, <1>3 DEF IInv, ShellInv, ShellRecord
<1>5. PidTypeOK'
  BY <1>1, PidUnchanged DEF IInv
<1>6. spawned' \in Thread
  BY <1>1 DEF IInv, RestInv
<1> QED BY <1>1, <1>4, <1>5, <1>6, ShellOnly

(* The Shell's steps that write one PCB and move on.                       *)
LEMMA ShellWrites ==
  ASSUME IInv, NEW p \in PCB,
         task_queue' = [task_queue EXCEPT ![shell.prio][shell.slot] = p],
         UNCHANGED <<pidVars, curr_proc, curr_queue, kill_state, cpu, mode,
                     kills, spawned>>,
         ShellInv'
  PROVE  IInv'
<1>1. shell.prio \in Level /\ shell.slot \in Slot
  BY DEF IInv, ShellInv, ShellRecord
<1>2. TypedQueue(task_queue')
  BY <1>1 DEF IInv, QueueInv, TypedQueue
<1>3. QueueInv'
  BY <1>2 DEF IInv, QueueInv
<1>4. RestInv'
  BY DEF IInv, RestInv
<1>5. PidTypeOK'
  BY PidUnchanged DEF IInv
<1> QED BY <1>3, <1>4, <1>5 DEF IInv

(* The PCB pc_create is writing.                                           *)
LEMMA NewPCB ==
  ASSUME IInv
  PROVE  /\ shell \in ShellRecord
         /\ shell.prio \in Level /\ shell.slot \in Slot
         /\ task_queue[shell.prio][shell.slot] \in PCB
BY DEF IInv, ShellInv, ShellRecord, QueueInv, TypedQueue

LEMMA CreateFillStep ==
  ASSUME IInv, CreateFill
  PROVE  IInv'
<1> DEFINE p == [task_queue[shell.prio][shell.slot] EXCEPT !.ctx = Begun]
<1>1. /\ shell.pc = "fill" /\ kills["shell"] = <<>>
      /\ task_queue' = [task_queue EXCEPT ![shell.prio][shell.slot].ctx = Begun]
      /\ shell' = [shell EXCEPT !.pc = "stack"]
      /\ UNCHANGED <<pidVars, curr_proc, curr_queue, kill_state, cpu, mode,
                     kills, spawned>>
  BY DEF CreateFill, ShellAt
<1>2. p \in PCB
  BY NewPCB DEF PCB, Context
<1>3. task_queue' = [task_queue EXCEPT ![shell.prio][shell.slot] = p]
  BY <1>1, NewPCB
<1>4. ShellInv'
  BY <1>1 DEF IInv, ShellInv, ShellRecord
<1> QED BY <1>1, <1>2, <1>3, <1>4, ShellWrites

LEMMA CreateStackStep ==
  ASSUME IInv, CreateStack
  PROVE  IInv'
<1> DEFINE q == task_queue[shell.prio][shell.slot]
           p == [q EXCEPT !.ctx = IF q.ctx = Begun THEN shell.thread ELSE Torn]
<1>1. /\ shell.pc = "stack" /\ kills["shell"] = <<>>
      /\ task_queue' = [task_queue EXCEPT ![shell.prio][shell.slot].ctx =
                          IF @ = Begun THEN shell.thread ELSE Torn]
      /\ shell' = [shell EXCEPT !.pc = "static"]
      /\ UNCHANGED <<pidVars, curr_proc, curr_queue, kill_state, cpu, mode,
                     kills, spawned>>
  BY DEF CreateStack, ShellAt
<1>2. p \in PCB
  <2>1. shell.thread \in Thread
    BY <1>1 DEF IInv, ShellInv
  <2> QED BY <2>1, NewPCB DEF PCB, Context
<1>3. task_queue' = [task_queue EXCEPT ![shell.prio][shell.slot] = p]
  BY <1>1, NewPCB
<1>4. ShellInv'
  BY <1>1 DEF IInv, ShellInv, ShellRecord
<1> QED BY <1>1, <1>2, <1>3, <1>4, ShellWrites

LEMMA CreateStaticStep ==
  ASSUME IInv, CreateStatic
  PROVE  IInv'
<1> DEFINE p == [task_queue[shell.prio][shell.slot] EXCEPT !.prio = shell.prio]
<1>1. /\ shell.pc = "static" /\ kills["shell"] = <<>>
      /\ task_queue' =
           [task_queue EXCEPT ![shell.prio][shell.slot].prio = shell.prio]
      /\ shell' = [shell EXCEPT !.pc = "publish"]
      /\ UNCHANGED <<pidVars, curr_proc, curr_queue, kill_state, cpu, mode,
                     kills, spawned>>
  BY DEF CreateStatic, ShellAt
<1>2. p \in PCB
  BY NewPCB DEF PCB
<1>3. task_queue' = [task_queue EXCEPT ![shell.prio][shell.slot] = p]
  BY <1>1, NewPCB
<1>4. ShellInv'
  BY <1>1 DEF IInv, ShellInv, ShellRecord
<1> QED BY <1>1, <1>2, <1>3, <1>4, ShellWrites

LEMMA CreatePublishStep ==
  ASSUME IInv, CreatePublish
  PROVE  IInv'
<1> DEFINE p == [task_queue[shell.prio][shell.slot] EXCEPT !.asid = shell.pid]
<1>1. /\ shell.pc = "publish" /\ kills["shell"] = <<>>
      /\ task_queue' =
           [task_queue EXCEPT ![shell.prio][shell.slot].asid = shell.pid]
      /\ shell' = [shell EXCEPT !.pc = "parent"]
      /\ UNCHANGED <<pidVars, curr_proc, curr_queue, kill_state, cpu, mode,
                     kills, spawned>>
  BY DEF CreatePublish, ShellAt
<1>2. p \in PCB
  <2>1. shell.pid \in PidOrNone
    BY <1>1 DEF IInv, ShellInv
  <2> QED BY <2>1, NewPCB DEF PCB
<1>3. task_queue' = [task_queue EXCEPT ![shell.prio][shell.slot] = p]
  BY <1>1, NewPCB
<1>4. ShellInv'
  BY <1>1 DEF IInv, ShellInv, ShellRecord
<1> QED BY <1>1, <1>2, <1>3, <1>4, ShellWrites

LEMMA CreateParentStep ==
  ASSUME IInv, CreateParent
  PROVE  IInv'
<1> DEFINE p == [task_queue[shell.prio][shell.slot] EXCEPT !.ppid = Current.asid]
<1>1. /\ kills["shell"] = <<>>
      /\ task_queue' =
           [task_queue EXCEPT ![shell.prio][shell.slot].ppid = Current.asid]
      /\ shell' \in {[Prompt EXCEPT !.pc = "preempt", !.prio = shell.prio], Prompt}
      /\ UNCHANGED <<pidVars, curr_proc, curr_queue, kill_state, cpu, mode,
                     kills, spawned>>
  BY DEF CreateParent, ShellAt
<1>2. p \in PCB
  BY NewPCB, CurrentType DEF PCB, IInv
<1>3. task_queue' = [task_queue EXCEPT ![shell.prio][shell.slot] = p]
  BY <1>1, NewPCB
<1>4. DEFAULT_PRIO \in Level /\ 0 \in Slot /\ NoPid \in PidOrNone
  BY ProcessAssumption DEF Level, Slot, PidOrNone
<1>5. shell' \in ShellRecord /\ shell'.pc \in {"prompt", "preempt"}
  <2>1. shell.prio \in Level
    BY NewPCB
  <2>2. /\ Prompt.pc = "prompt"
        /\ [Prompt EXCEPT !.pc = "preempt", !.prio = shell.prio].pc = "preempt"
    BY DEF Prompt
  <2>3. /\ Prompt \in ShellRecord
        /\ [Prompt EXCEPT !.pc = "preempt", !.prio = shell.prio] \in ShellRecord
    BY <1>4, <2>1 DEF Prompt, ShellRecord
  <2> QED BY <1>1, <2>2, <2>3
<1>6. ShellInv'
  BY <1>1, <1>5 DEF ShellInv
<1> QED BY <1>1, <1>2, <1>3, <1>6, ShellWrites

LEMMA PreemptStep ==
  ASSUME IInv, pc_preempt_syscall
  PROVE  IInv'
<1>1. QueueInv /\ TypedQueue(task_queue) /\ cpu \in Thread \union {Torn}
  BY DEF IInv, QueueInv, RestInv
<1>2. PICK expired \in BOOLEAN : pc_schedule(task_queue, expired, "user")
  BY DEF pc_preempt_syscall
<1>3. /\ QueueInv' /\ cpu' \in Thread \union {Torn}
      /\ mode' \in {"user", "stopped"}
  BY <1>1, <1>2, ScheduleStep
<1>4. shell' = Prompt /\ UNCHANGED <<pidVars, kill_state, kills, spawned>>
  BY DEF pc_preempt_syscall
<1>5. DEFAULT_PRIO \in Level /\ 0 \in Slot /\ NoPid \in PidOrNone
  BY ProcessAssumption DEF Level, Slot, PidOrNone
<1>6. ShellInv'
  BY <1>4, <1>5 DEF ShellInv, ShellRecord, Prompt
<1>7. RestInv'
  BY <1>3, <1>4 DEF IInv, RestInv
<1>8. PidTypeOK'
  BY <1>4, PidUnchanged DEF IInv
<1> QED BY <1>3, <1>6, <1>7, <1>8 DEF IInv

LEMMA CmdKillStep ==
  ASSUME IInv, NEW p \in KillArgs, CmdKill(p)
  PROVE  IInv'
<1>1. /\ kills' = [kills EXCEPT !["shell"] = KillCall(p)]
      /\ UNCHANGED <<pidVars, schedVars, kill_state, cpu, mode, shell, spawned>>
      /\ shell.pc = "prompt"
  BY DEF CmdKill, AtPrompt
<1>2. KillCall(p) \in Seq(Frame)
  BY KillCallType, ProcessAssumption DEF IInv
<1>3. kills' \in [{"shell", "exit"} -> Seq(Frame)]
  BY <1>1, <1>2 DEF IInv, RestInv
<1>4. RestInv'
  BY <1>1, <1>3 DEF IInv, RestInv
<1>5. QueueInv'
  BY <1>1, QueueKept DEF IInv
<1>6. PidTypeOK'
  BY <1>1, PidUnchanged DEF IInv
<1> QED BY <1>1, <1>4, <1>5, <1>6, ShellKept DEF IInv

LEMMA KillModeStep ==
  ASSUME IInv, alt_kill_mode
  PROVE  IInv'
<1>1. /\ kill_state' = ~kill_state
      /\ UNCHANGED <<pidVars, schedVars, cpu, mode, kills, shell, spawned>>
  BY DEF alt_kill_mode
<1>2. RestInv'
  BY <1>1 DEF IInv, RestInv
<1>3. QueueInv'
  BY <1>1, QueueKept DEF IInv
<1>4. PidTypeOK'
  BY <1>1, PidUnchanged DEF IInv
<1> QED BY <1>1, <1>2, <1>3, <1>4, ShellKept DEF IInv

-----------------------------------------------------------------------------
(* The invariant holds when init_kernel enables interrupts.                *)
LEMMA InitIInv == Init => IInv
<1> SUFFICES ASSUME Init PROVE IInv
  OBVIOUS
<1> USE ProcessAssumption, PidAssumption
<1>1. PidTypeOK
  BY DEF Init, PidTypeOK, Pid, INIT, SHELL, CLOCK
<1>2. /\ {INIT, SHELL, CLOCK} \subseteq Thread
      /\ {INIT, SHELL, CLOCK, NoPid, 0} \subseteq PidOrNone
      /\ 0 \in Level /\ DEFAULT_PRIO \in Level /\ 0 \in Slot
  BY DEF INIT, SHELL, CLOCK, NoPid, Thread, PidOrNone, Pid, Level, Slot
<1>3. \A l \in Level, s \in Slot : StartPCB(l, s) \in PCB
  BY <1>2 DEF StartPCB, EmptyPCB, PCB, Context
<1>4. task_queue = [l \in Level |-> [s \in Slot |-> StartPCB(l, s)]]
  BY DEF Init
<1>5. TypedQueue(task_queue)
  BY <1>3, <1>4 DEF TypedQueue
<1>6. QueueInv
  BY <1>2, <1>5 DEF Init, QueueInv
<1>7. RestInv
  <2>1. kills \in [{"shell", "exit"} -> Seq(Frame)]
    <3>1. kills = [w \in {"shell", "exit"} |-> <<>>]
      BY DEF Init
    <3> QED BY <3>1
  <2> QED BY <1>2, <2>1 DEF Init, RestInv
<1>8. ShellInv
  BY <1>2 DEF Init, Prompt, ShellInv, ShellRecord
<1> QED BY <1>1, <1>6, <1>7, <1>8 DEF IInv

(* Every step keeps it.                                                    *)
LEMMA StepIInv == IInv /\ [Next]_vars => IInv'
<1> SUFFICES ASSUME IInv, [Next]_vars PROVE IInv'
  OBVIOUS
<1>1. CASE Timer
  BY <1>1, TimerStep
<1>2. CASE do_fork
  BY <1>2, ForkStep
<1>3. CASE Exit
  BY <1>3, SyscallStep DEF Exit
<1>4. CASE Fault
  BY <1>4, SyscallStep DEF Fault
<1>5. CASE ExitDone
  BY <1>5, ExitDoneStep
<1>6. CASE \E who \in {"shell", "exit"} : KillNext(who)
  BY <1>6, KillVisitStep, KillClearStep, KillReturnStep DEF KillNext
<1>9. CASE KillFree
  BY <1>9, KillFreeStep
<1>7. CASE ShellNext
  <2>1. CASE \E prio \in CommandPrio : CmdCreate(prio)
    BY <2>1, CmdCreateStep
  <2>2. CASE \E p \in KillArgs : CmdKill(p)
    BY <2>2, CmdKillStep
  <2> QED BY <1>7, <2>1, <2>2, CmdProcStep, KillModeStep, ShellFreeStep,
             ShellLoadsStep, ShellSetsStep, ShellCountsStep, CreateSearchStep,
             CreateFillStep, CreateStackStep, CreateStaticStep,
             CreatePublishStep, CreateParentStep, PreemptStep DEF ShellNext
<1>8. CASE UNCHANGED vars
  <2>1. PidTypeOK'
    BY <1>8, PidUnchanged DEF IInv, vars
  <2>2. QueueInv'
    BY <1>8, QueueKept DEF IInv, vars
  <2>3. RestInv'
    BY <1>8 DEF IInv, RestInv, vars
  <2>4. ShellInv'
    BY <1>8, ShellKept DEF IInv, vars
  <2> QED BY <2>1, <2>2, <2>3, <2>4 DEF IInv
<1> QED BY <1>1, <1>2, <1>3, <1>4, <1>5, <1>6, <1>7, <1>8, <1>9 DEF Next

(* The inductive invariant holds in every reachable state.                 *)
THEOREM Inductive == Spec => []IInv
BY InitIInv, StepIInv, PTL DEF Spec

-----------------------------------------------------------------------------
(* Whatever the timer interrupts, every index computed by pc_schedule,     *)
(* pc_create, do_fork and pc_kill stays inside the table and every field   *)
(* has a value of its type.                                                *)
THEOREM TypeCorrect == Spec => []TypeOK
<1>1. IInv => TypeOK
  BY DEF IInv, QueueInv, RestInv, ShellInv, TypedQueue, TypeOK
<1> QED BY <1>1, Inductive, PTL

-----------------------------------------------------------------------------
(***************************************************************************)
(* The counter, when the timer leaves the Shell's procedures alone.  With  *)
(* interrupts on, that the Shell stores what it has computed from what the *)
(* memory still holds is a fact about every other program.                 *)
(***************************************************************************)
Untimed == "timer_in_shell" \notin Allowed

(* What the Shell has loaded, and how far the counter is ahead.            *)
Held ==
  /\ shell.pc = "set" => old = page \intersect Word(shell.pid)
  /\ shell.pc \in {"fetch", "count"} => nr_free > NPID - Cardinality(page)
  /\ shell.pc = "count" => count = nr_free
  /\ kills["shell"] # <<>> =>
       LET f == Head(kills["shell"])
       IN  /\ f.step = "count" => count = nr_free
           /\ f.step \in {"load", "mask"} => nr_free > NPID - Cardinality(page)
           /\ f.step = "mask" => old = page \intersect Word(PidMask(f.proc))

(* A frame that has called another does nothing but wait for it.           *)
Waiting(fs) == \A i \in 2..Len(fs) : fs[i].step = "return"

CountInv ==
  /\ IInv /\ NoHiddenExhaustion /\ Waiting(kills["shell"])
  /\ mode = "user" => Held /\ (ShellBusy => cpu = SHELL)
  /\ mode = "exit" => ~ShellBusy

LEMMA PageFinite ==
  ASSUME PidTypeOK
  PROVE  /\ IsFiniteSet(page)
         /\ Cardinality(page) \in Nat
         /\ IsFiniteSet(Pid)
         /\ Cardinality(Pid) = NPID
         /\ Cardinality(page) <= NPID
         /\ page # Pid => Cardinality(page) < NPID
<1>1. IsFiniteSet(Pid) /\ Cardinality(Pid) = NPID
  BY PidAssumption, FS_Interval DEF Pid
<1>2. page \in SUBSET Pid
  BY DEF PidTypeOK
<1>3. /\ IsFiniteSet(page)
      /\ Cardinality(page) <= NPID
      /\ page # Pid => Cardinality(page) # NPID
  BY <1>1, <1>2, FS_Subset
<1>4. Cardinality(page) \in Nat
  BY <1>3, FS_CardinalityType
<1> QED BY <1>1, <1>3, <1>4, PidAssumption

(* Setting the bit of a clear identifier and decrementing nr_free.         *)
LEMMA AllocCounts ==
  ASSUME PidTypeOK, NoHiddenExhaustion, NEW o, AllocCommit(o)
  PROVE  NoHiddenExhaustion'
<1> USE PidAssumption
<1>1. CASE o \in Pid \ page
  <2>1. page' = page \union {o} /\ nr_free' = nr_free - 1
    BY <1>1 DEF AllocCommit
  <2>2. Cardinality(page') = Cardinality(page) + 1
    BY <1>1, <2>1, PageFinite, FS_AddElement
  <2>3. nr_free >= NPID - Cardinality(page) /\ nr_free \in Int
    BY DEF NoHiddenExhaustion, PidTypeOK
  <2> QED BY <2>1, <2>2, <2>3, PageFinite DEF NoHiddenExhaustion
<1>2. CASE o \notin Pid \ page
  BY <1>2 DEF AllocCommit, NoHiddenExhaustion, pidVars
<1> QED BY <1>1, <1>2

(* Releasing an identifier, marked or not.                                 *)
LEMMA FreeCounts ==
  ASSUME PidTypeOK, NoHiddenExhaustion, NEW p, free_pidmap(p)
  PROVE  NoHiddenExhaustion'
<1>1. page' = page \ {PidMask(p)} /\ nr_free' = nr_free + 1
  BY DEF free_pidmap
<1>2. Cardinality(page') = Cardinality(page)
      \/ Cardinality(page') = Cardinality(page) - 1
  BY <1>1, PageFinite, FS_RemoveElement
<1>3. nr_free >= NPID - Cardinality(page) /\ nr_free \in Int
  BY DEF PidTypeOK, NoHiddenExhaustion
<1> QED BY <1>1, <1>2, <1>3, PageFinite, PidAssumption DEF NoHiddenExhaustion

LEMMA CountUnchanged ==
  ASSUME NoHiddenExhaustion, UNCHANGED pidVars
  PROVE  NoHiddenExhaustion'
BY DEF NoHiddenExhaustion, pidVars

(* The steps of the others, while the Shell is in none of its procedures,  *)
(* or when it will never run again.                                        *)
LEMMA OthersCount ==
  ASSUME CountInv, IInv', NoHiddenExhaustion', kills'["shell"] = kills["shell"],
         \/ ~ShellBusy /\ UNCHANGED shell
         \/ mode' \notin {"user", "exit"}
  PROVE  CountInv'
<1>1. Waiting(kills["shell"])'
  BY DEF CountInv
<1>2. CASE ~ShellBusy /\ UNCHANGED shell
  <2>1. ~ShellBusy'
    BY <1>2 DEF ShellBusy
  <2>2. Held'
    BY <1>2 DEF Held, ShellBusy
  <2> QED BY <1>1, <2>1, <2>2 DEF CountInv
<1>3. CASE mode' \notin {"user", "exit"}
  BY <1>1, <1>3 DEF CountInv
<1> QED BY <1>2, <1>3

(* The Shell's own steps.                                                  *)
LEMMA ShellCount ==
  ASSUME CountInv, IInv', NoHiddenExhaustion', ShellRuns, UNCHANGED <<cpu, mode>>,
         Waiting(kills'["shell"]), Held'
  PROVE  CountInv'
BY DEF CountInv, ShellRuns

(* The frames after the innermost one is done with its slot.               *)
Settled(fs) == Waiting(fs) /\ (fs # <<>> => Head(fs).step \in {"visit", "free", "clear", "return"})

LEMMA SettledFrames ==
  ASSUME NEW fs \in Seq(Frame), fs # <<>>, Waiting(fs),
         NEW g \in Frame, g.step \in {"visit", "free", "clear", "return"}
  PROVE  Settled(<<g>> \o Tail(fs)) /\ Settled(Tail(fs))
<1>1. /\ Len(Tail(fs)) = Len(fs) - 1 /\ Len(fs) \in Nat
      /\ \A i \in 1..Len(fs)-1 : Tail(fs)[i] = fs[i+1]
  OBVIOUS
<1> DEFINE r == <<g>> \o Tail(fs)
<1>2. /\ Len(r) = Len(fs) /\ r # <<>> /\ Head(r) = g
      /\ \A i \in 2..Len(r) : r[i] = fs[i]
  BY <1>1
<1> HIDE DEF r
<1>3. Settled(r)
  BY <1>2 DEF Settled, Waiting
<1>4. Waiting(Tail(fs))
  <2> SUFFICES ASSUME NEW i \in 2..Len(Tail(fs))
               PROVE  Tail(fs)[i].step = "return"
    BY DEF Waiting
  <2>1. Tail(fs)[i] = fs[i+1] /\ i+1 \in 2..Len(fs)
    BY <1>1
  <2> QED BY <2>1 DEF Waiting
<1>5. Tail(fs) # <<>> => Head(Tail(fs)).step = "return"
  <2> SUFFICES ASSUME Tail(fs) # <<>>
               PROVE  Head(Tail(fs)).step = "return"
    OBVIOUS
  <2>1. Head(Tail(fs)) = fs[2] /\ 2 \in 2..Len(fs)
    BY <1>1
  <2> QED BY <2>1 DEF Waiting
<1> QED BY <1>3, <1>4, <1>5 DEF r, Settled

LEMMA SettledNext ==
  ASSUME QueueInv, NEW fs \in Seq(Frame), fs # <<>>, Waiting(fs)
  PROVE  Settled(NextSlot(fs))
<1> DEFINE f == Head(fs)
           g == [f EXCEPT !.slot = (f.slot + 1) % NSLOT, !.left = f.left - 1,
                          !.step = "visit"]
           h == FrameAt(f.proc, f.sys, f.level - 1)
<1>1. f \in Frame
  BY HeadFrame
<1> HIDE DEF f
<1>2. CASE f.left > 1
  <2>1. (f.slot + 1) % NSLOT \in Slot /\ f.left - 1 \in 1..NSLOT
    BY <1>1, <1>2, ProcessAssumption DEF Frame, Slot
  <2>2. g \in Frame
    BY <1>1, <2>1 DEF Frame
  <2>3. g.step = "visit"
    BY <1>1 DEF Frame
  <2>4. NextSlot(fs) = <<g>> \o Tail(fs)
    BY <1>2 DEF NextSlot, f
  <2> HIDE DEF g
  <2> QED BY <2>2, <2>3, <2>4, SettledFrames
<1>3. CASE ~(f.left > 1) /\ f.level > 0
  <2>1. f.level - 1 \in Level /\ f.proc \in Int /\ f.sys \in BOOLEAN
    BY <1>1, <1>3, ProcessAssumption DEF Frame, Level
  <2>2. h \in Frame
    BY <2>1, FrameAtType
  <2>3. h.step = "visit"
    BY DEF FrameAt
  <2>4. NextSlot(fs) = <<h>> \o Tail(fs)
    BY <1>3 DEF NextSlot, f
  <2> HIDE DEF h
  <2> QED BY <2>2, <2>3, <2>4, SettledFrames
<1>4. CASE ~(f.left > 1) /\ ~(f.level > 0)
  <2>1. NextSlot(fs) = Tail(fs)
    BY <1>4 DEF NextSlot, f
  <2>2. PICK x \in Frame : x = [f EXCEPT !.step = "visit"]
    BY <1>1, StepFrame
  <2>3. x.step = "visit"
    BY <1>1, <2>2 DEF Frame
  <2> QED BY <2>1, <2>3, SettledFrames
<1> QED BY <1>2, <1>3, <1>4

(* The steps of pc_kill that are not free_pidmap's.                        *)
LEMMA KillCounts ==
  ASSUME CountInv, IInv', NEW who \in {"shell", "exit"}, MayKill(who),
         NEW new, kills' = [kills EXCEPT ![who] = new],
         who = "shell" => Settled(new),
         UNCHANGED <<pidVars, cpu, mode, shell>>
  PROVE  CountInv'
<1>1. kills \in [{"shell", "exit"} -> Seq(Frame)]
  BY DEF CountInv, IInv, RestInv
<1>2. NoHiddenExhaustion'
  BY CountUnchanged DEF CountInv
<1>3. CASE who = "exit"
  <2>1. mode \in {"exit", "fault"} /\ kills'["shell"] = kills["shell"]
    BY <1>1, <1>3 DEF MayKill
  <2> QED BY <1>2, <2>1, OthersCount DEF CountInv
<1>4. CASE who = "shell"
  <2>1. ShellRuns /\ shell.pc = "prompt" /\ kills'["shell"] = new
    BY <1>1, <1>4 DEF MayKill, CountInv, IInv, ShellInv
  <2>2. Held'
    BY <1>4, <2>1 DEF Held, Settled
  <2> QED BY <1>2, <1>4, <2>1, <2>2, ShellCount DEF Settled
<1> QED BY <1>3, <1>4

LEMMA KillVisitCounts ==
  ASSUME CountInv, IInv', NEW who \in {"shell", "exit"}, KillVisit(who)
  PROVE  CountInv'
<1> DEFINE fs  == kills[who]
           f   == Head(fs)
           pcb == task_queue[f.level][f.slot]
           hit == ~f.sys /\ pcb.asid = f.proc
           dies == ~hit /\ pcb.ppid = f.proc /\ ~kill_state /\ (f.sys \/ pcb.asid > 0)
           back == <<[f EXCEPT !.step = "return"]>> \o Tail(fs)
           new == IF hit THEN <<[f EXCEPT !.step = "free"]>> \o Tail(fs)
                  ELSE IF dies THEN KillCall(pcb.asid) \o back
                  ELSE NextSlot(fs)
<1>1. /\ MayKill(who) /\ fs # <<>>
      /\ UNCHANGED <<pidVars, cpu, mode, shell>>
      /\ kills' = [kills EXCEPT ![who] =
           IF hit THEN <<[f EXCEPT !.step = "free"]>> \o Tail(@)
           ELSE IF dies
           THEN KillCall(pcb.asid) \o <<[f EXCEPT !.step = "return"]>> \o Tail(@)
           ELSE NextSlot(@)]
  BY DEF KillVisit, MayKill
<1>2. kills \in [{"shell", "exit"} -> Seq(Frame)] /\ QueueInv
  BY DEF CountInv, IInv, RestInv
<1>3. fs \in Seq(Frame) /\ f \in Frame /\ Tail(fs) \in Seq(Frame)
  BY <1>1, <1>2, HeadFrame
<1>4. /\ [f EXCEPT !.step = "free"] \in Frame
      /\ [f EXCEPT !.step = "return"] \in Frame
      /\ [f EXCEPT !.step = "free"].step = "free"
      /\ [f EXCEPT !.step = "return"].step = "return"
  BY <1>3 DEF Frame
<1>5. kills' = [kills EXCEPT ![who] = new]
  <2>1. KillCall(pcb.asid) \in Seq(Frame)
    <3>1. f.level \in Level /\ f.slot \in Slot
      BY <1>3 DEF Frame
    <3>2. pcb \in PCB
      BY <1>2, <3>1 DEF QueueInv, TypedQueue
    <3>3. pcb.asid \in Int
      BY <3>2, PidAssumption DEF PCB, PidOrNone, Pid, NoPid
    <3> QED BY <1>2, <3>3, KillCallType
  <2>2. \A x, y, z \in Seq(Frame) : (x \o y) \o z = x \o (y \o z)
    OBVIOUS
  <2>3. <<[f EXCEPT !.step = "return"]>> \in Seq(Frame)
    <3>1. \A x \in Frame : <<x>> \in Seq(Frame)
      OBVIOUS
    <3> QED BY <1>4, <3>1
  <2>4. (KillCall(pcb.asid) \o <<[f EXCEPT !.step = "return"]>>) \o Tail(fs)
          = KillCall(pcb.asid) \o back
    BY <1>3, <2>1, <2>2, <2>3
  <2> QED BY <1>1, <1>2, <2>4
<1>6. who = "shell" => Settled(new)
  <2> SUFFICES ASSUME who = "shell" PROVE Settled(new)
    OBVIOUS
  <2>1. Waiting(fs)
    BY DEF CountInv
  <2>2. Settled(NextSlot(fs)) /\ Settled(<<[f EXCEPT !.step = "free"]>> \o Tail(fs))
        /\ Settled(back)
    BY <1>1, <1>2, <1>3, <1>4, <2>1, SettledNext, SettledFrames
  <2>3. Settled(KillCall(pcb.asid) \o back)
    <3>0. back \in Seq(Frame) /\ back # <<>> /\ Head(back).step = "return"
      <4>1. \A g \in Frame, t \in Seq(Frame) :
              /\ <<g>> \o t \in Seq(Frame) /\ <<g>> \o t # <<>>
              /\ Head(<<g>> \o t) = g
        OBVIOUS
      <4>2. PICK g \in Frame : g = [f EXCEPT !.step = "return"]
        BY <1>4
      <4>3. back = <<g>> \o Tail(fs) /\ g.step = "return"
        BY <1>4, <4>2
      <4> HIDE DEF back
      <4> QED BY <1>3, <4>1, <4>3
    <3>1. CASE pcb.asid \in {INIT, SHELL}
      <4>1. KillCall(pcb.asid) \o back = back
        BY <3>0, <3>1 DEF KillCall
      <4> QED BY <2>2, <4>1
    <3>2. CASE pcb.asid \notin {INIT, SHELL}
      <4> DEFINE h == FrameAt(pcb.asid, FALSE, MAX_PRIO)
                 r == <<h>> \o back
      <4> HIDE DEF back
      <4>1. KillCall(pcb.asid) \o back = r
        BY <3>2 DEF KillCall
      <4>2. h.step = "visit"
        BY DEF FrameAt
      <4> HIDE DEF h
      <4>3. /\ Len(r) = Len(back) + 1 /\ r # <<>> /\ Head(r) = h
            /\ \A i \in 2..Len(r) : r[i] = back[i-1]
        BY <3>0
      <4>4. \A i \in 1..Len(back) : back[i].step = "return"
        <5>1. back[1].step = "return" /\ Waiting(back) /\ Len(back) \in Nat
          BY <2>2, <3>0 DEF Settled
        <5> QED BY <5>1 DEF Waiting
      <4>5. Len(back) \in Nat
        BY <3>0
      <4> HIDE DEF r
      <4>6. Settled(r)
        BY <4>2, <4>3, <4>4, <4>5 DEF Settled, Waiting
      <4> QED BY <4>1, <4>6
    <3> QED BY <3>1, <3>2
  <2> QED BY <2>2, <2>3
<1>7. MayKill(who) /\ UNCHANGED <<pidVars, cpu, mode, shell>>
  BY <1>1
<1> HIDE DEF new
<1> QED BY <1>5, <1>6, <1>7, KillCounts

(* free_pidmap: by a handler, and by the Shell.                            *)
LEMMA KillFreeCounts ==
  ASSUME CountInv, IInv', KillFree
  PROVE  CountInv'
<1>1. NoHiddenExhaustion'
  BY FreeCounts DEF KillFree, CountInv, IInv
<1>2. mode \in {"exit", "fault"} /\ kills'["shell"] = kills["shell"]
      /\ UNCHANGED <<mode, shell>>
  BY DEF KillFree, MayKill, StepTo, CountInv, IInv, RestInv
<1> QED BY <1>1, <1>2, OthersCount DEF CountInv

LEMMA ShellFreeCounts ==
  ASSUME CountInv, IInv', ShellFree
  PROVE  CountInv'
<1> DEFINE fs  == kills["shell"]
           f   == Head(fs)
           bit == PidMask(f.proc)
<1>1. /\ fs # <<>> /\ ShellRuns /\ UNCHANGED <<cpu, mode, shell>>
      /\ shell.pc = "prompt" /\ Held /\ NoHiddenExhaustion /\ Waiting(fs)
      /\ PidTypeOK /\ kills \in [{"shell", "exit"} -> Seq(Frame)]
      /\ fs \in Seq(Frame) /\ f \in Frame
  BY HeadFrame DEF ShellFree, MayKill, ShellRuns, CountInv, IInv, RestInv, ShellInv
<1>2. ASSUME NEW st \in {"count", "load", "mask", "clear"}, StepTo("shell", st)
      PROVE  /\ Waiting(kills'["shell"]) /\ kills'["shell"] # <<>>
             /\ Head(kills'["shell"]).step = st
             /\ Head(kills'["shell"]).proc = f.proc
  <2> DEFINE g == [f EXCEPT !.step = st]
  <2>1. /\ g \in Frame
        /\ g.step = st /\ g.proc = f.proc
    <3>1. f \in Frame
      BY <1>1
    <3>2. g \in Frame
      BY <3>1, StepFrame
    <3> HIDE DEF f
    <3>3. g.step = st /\ g.proc = f.proc
      BY <3>1 DEF Frame
    <3> QED BY <3>2, <3>3
  <2>2. kills'["shell"] = <<g>> \o Tail(fs)
    BY <1>1, <1>2 DEF StepTo
  <2>3. /\ Len(Tail(fs)) = Len(fs) - 1 /\ Len(fs) \in Nat
        /\ \A i \in 1..Len(fs)-1 : Tail(fs)[i] = fs[i+1]
    BY <1>1
  <2> HIDE DEF g, fs
  <2> DEFINE r == <<g>> \o Tail(fs)
  <2>4. /\ Len(r) = Len(fs) /\ r # <<>> /\ Head(r) = g
        /\ \A i \in 2..Len(r) : r[i] = fs[i]
    BY <1>1, <2>3
  <2> HIDE DEF r
  <2>5. Waiting(r)
    BY <1>1, <2>4 DEF Waiting
  <2> QED BY <2>1, <2>2, <2>4, <2>5 DEF r
<1>3. CASE f.step = "free"
  <2>1. LoadCount /\ StepTo("shell", "count")
    BY <1>3 DEF ShellFree
  <2>2. Held' /\ NoHiddenExhaustion'
    BY <1>1, <1>2, <2>1 DEF Held, LoadCount, NoHiddenExhaustion
  <2> QED BY <1>1, <1>2, <2>1, <2>2, ShellCount
<1>4. CASE f.step = "count"
  <2>1. StoreCount(count + 1) /\ StepTo("shell", "load")
    BY <1>4 DEF ShellFree
  <2>2. nr_free' = nr_free + 1 /\ page' = page /\ nr_free \in Int
        /\ nr_free >= NPID - Cardinality(page)
    BY <1>1, <1>4, <2>1 DEF Held, StoreCount, NoHiddenExhaustion, PidTypeOK
  <2>3. nr_free' > NPID - Cardinality(page)
    BY <1>1, <2>2, PageFinite, PidAssumption
  <2>4. Held' /\ NoHiddenExhaustion'
    BY <1>1, <1>2, <2>1, <2>2, <2>3, PageFinite, PidAssumption
       DEF Held, NoHiddenExhaustion
  <2> QED BY <1>1, <1>2, <2>1, <2>4, ShellCount
<1>5. CASE f.step = "load"
  <2>1. LoadWord(bit) /\ StepTo("shell", "mask")
    BY <1>5 DEF ShellFree
  <2>2. Held' /\ NoHiddenExhaustion'
    BY <1>1, <1>2, <1>5, <2>1 DEF Held, LoadWord, NoHiddenExhaustion, Word
  <2> QED BY <1>1, <1>2, <2>1, <2>2, ShellCount
<1>6. CASE f.step = "mask"
  <2>1. StoreWord(bit, old \ {bit}) /\ StepTo("shell", "clear")
    BY <1>6 DEF ShellFree
  <2>2. /\ old = page \intersect Word(bit)
        /\ nr_free > NPID - Cardinality(page)
        /\ nr_free' = nr_free /\ nr_free \in Int
        /\ page' = (page \ Word(bit)) \union (old \ {bit})
    BY <1>1, <1>6, <2>1 DEF Held, StoreWord, PidTypeOK
  <2>3. bit \in Word(bit)
    <3>1. f.proc \in Int
      BY <1>1 DEF Frame
    <3>2. bit \in Pid
      BY <3>1, PidAssumption DEF PidMask, Pid
    <3> HIDE DEF bit
    <3> QED BY <3>2 DEF Word
  <2>4. page' = page \ {bit}
    BY <2>2, <2>3
  <2>5. Cardinality(page') = Cardinality(page)
        \/ Cardinality(page') = Cardinality(page) - 1
    BY <1>1, <2>4, PageFinite, FS_RemoveElement
  <2>6. NoHiddenExhaustion'
    BY <1>1, <2>2, <2>5, PageFinite, PidAssumption DEF NoHiddenExhaustion
  <2>7. Held'
    BY <1>1, <1>2, <2>1 DEF Held
  <2> QED BY <1>1, <1>2, <2>1, <2>6, <2>7, ShellCount
<1> QED BY <1>3, <1>4, <1>5, <1>6 DEF ShellFree

-----------------------------------------------------------------------------
(* alloc_pidmap, as the Shell runs it.                                     *)
LEMMA ShellFact ==
  ASSUME CountInv, ShellRuns, kills["shell"] = <<>>
  PROVE  /\ Held /\ NoHiddenExhaustion /\ Waiting(<<>>) /\ PidTypeOK
         /\ mode = "user" /\ cpu = SHELL
<1>1. Waiting(<<>>)
  BY DEF Waiting
<1> QED BY <1>1 DEF CountInv, ShellRuns, IInv

LEMMA ShellLoadsCounts ==
  ASSUME CountInv, IInv', ShellLoads
  PROVE  CountInv'
<1>1. /\ shell.pc = "commit" /\ kills["shell"] = <<>> /\ ShellRuns
      /\ UNCHANGED <<cpu, mode, kills>>
  BY DEF ShellLoads, ShellAt
<1>2. NoHiddenExhaustion'
  BY <1>1, ShellFact DEF ShellLoads, LoadWord, NoHiddenExhaustion, pidVars
<1>3. Held'
  BY <1>1, ShellFact DEF ShellLoads, LoadWord, Held, Word, IInv, ShellInv, ShellRecord, CountInv
<1> QED BY <1>1, <1>2, <1>3, ShellCount, ShellFact

LEMMA ShellSetsCounts ==
  ASSUME CountInv, IInv', ShellSets
  PROVE  CountInv'
<1>1. /\ shell.pc = "set" /\ kills["shell"] = <<>> /\ ShellRuns
      /\ UNCHANGED <<cpu, mode, kills>>
      /\ page' = (page \ Word(shell.pid)) \union (old \union {shell.pid})
      /\ nr_free' = nr_free
      /\ shell.pid \in Pid /\ shell \in ShellRecord
  BY DEF ShellSets, ShellAt, StoreWord, CountInv, IInv, ShellInv
<1>2. old = page \intersect Word(shell.pid) /\ shell.pid \in Word(shell.pid)
  BY <1>1, ShellFact DEF Held, Word
<1>3. page' = page \union {shell.pid}
  BY <1>1, <1>2
<1>4. CASE shell.pid \in old
  <2>1. page' = page
    BY <1>2, <1>3, <1>4
  <2>2. shell'.pc = "search"
    BY <1>1, <1>4 DEF ShellSets, ShellRecord
  <2>3. NoHiddenExhaustion' /\ Held'
    BY <1>1, <2>1, <2>2, ShellFact DEF NoHiddenExhaustion, Held
  <2> QED BY <1>1, <2>3, ShellCount, ShellFact
<1>5. CASE shell.pid \notin old
  <2>1. shell.pid \notin page
    BY <1>2, <1>5
  <2>2. Cardinality(page') = Cardinality(page) + 1
    BY <1>1, <1>3, <2>1, PageFinite, ShellFact, FS_AddElement
  <2>3. nr_free \in Int /\ nr_free >= NPID - Cardinality(page) /\ Cardinality(page) \in Nat
    BY <1>1, ShellFact, PageFinite DEF NoHiddenExhaustion, PidTypeOK
  <2>4. nr_free' > NPID - Cardinality(page') /\ NoHiddenExhaustion'
    BY <1>1, <2>2, <2>3, PidAssumption DEF NoHiddenExhaustion
  <2>5. shell'.pc = "fetch"
    BY <1>1, <1>5 DEF ShellSets, ShellRecord
  <2>6. Held'
    BY <1>1, <2>4, <2>5 DEF Held
  <2> QED BY <1>1, <2>4, <2>6, ShellCount, ShellFact
<1> QED BY <1>4, <1>5

LEMMA ShellCountsCounts ==
  ASSUME CountInv, IInv', ShellCounts
  PROVE  CountInv'
<1>1. /\ kills["shell"] = <<>> /\ ShellRuns /\ UNCHANGED <<cpu, mode, kills>>
      /\ shell.pc \in {"fetch", "count", "last"} /\ shell \in ShellRecord
  BY DEF ShellCounts, ShellAt, CountInv, IInv, ShellInv
<1>2. nr_free \in Int /\ Cardinality(page) \in Nat /\ NPID \in Int
  BY <1>1, ShellFact, PageFinite, PidAssumption DEF PidTypeOK
<1>3. CASE shell.pc = "fetch"
  <2>1. LoadCount /\ shell' = [shell EXCEPT !.pc = "count"]
    BY <1>3 DEF ShellCounts, ShellAt
  <2>2. shell'.pc = "count"
    BY <1>1, <2>1 DEF ShellRecord
  <2>3. NoHiddenExhaustion' /\ Held'
    BY <1>1, <1>3, <2>1, <2>2, ShellFact DEF LoadCount, NoHiddenExhaustion, Held
  <2> QED BY <1>1, <2>3, ShellCount, ShellFact
<1>4. CASE shell.pc = "count"
  <2>1. StoreCount(count - 1) /\ shell' = [shell EXCEPT !.pc = "last"]
    BY <1>4 DEF ShellCounts, ShellAt
  <2>2. shell'.pc = "last"
    BY <1>1, <2>1 DEF ShellRecord
  <2>3. nr_free' = nr_free - 1 /\ page' = page /\ nr_free > NPID - Cardinality(page)
    BY <1>1, <1>4, <2>1, ShellFact DEF StoreCount, Held
  <2>4. NoHiddenExhaustion'
    BY <1>2, <2>3 DEF NoHiddenExhaustion
  <2>5. Held'
    BY <1>1, <2>2 DEF Held
  <2> QED BY <1>1, <2>4, <2>5, ShellCount, ShellFact
<1>5. CASE shell.pc = "last"
  <2>1. StoreLast(shell.pid) /\ shell' = [shell EXCEPT !.pc = "search"]
    BY <1>5 DEF ShellCounts, ShellAt
  <2>2. shell'.pc = "search"
    BY <1>1, <2>1 DEF ShellRecord
  <2>3. NoHiddenExhaustion' /\ Held'
    BY <1>1, <2>1, <2>2, ShellFact DEF StoreLast, NoHiddenExhaustion, Held
  <2> QED BY <1>1, <2>3, ShellCount, ShellFact
<1> QED BY <1>1, <1>3, <1>4, <1>5

(* The Shell's steps outside alloc_pidmap and pc_kill.                     *)
LEMMA ShellRest ==
  ASSUME CountInv, IInv', ShellRuns, kills["shell"] = <<>>,
         UNCHANGED <<pidVars, cpu, mode, kills>>,
         shell'.pc \notin {"set", "fetch", "count"}
  PROVE  CountInv'
<1>1. NoHiddenExhaustion' /\ Held'
  BY ShellFact, CountUnchanged DEF Held
<1> QED BY <1>1, ShellCount, ShellFact

LEMMA ShellNextCounts ==
  ASSUME CountInv, IInv', ShellNext
  PROVE  CountInv'
<1>0. shell \in ShellRecord /\ kills \in [{"shell", "exit"} -> Seq(Frame)]
  BY DEF CountInv, IInv, ShellInv, RestInv
<1>1. CASE \E prio \in CommandPrio : CmdCreate(prio)
  BY <1>1, ShellRest DEF CmdCreate, AtPrompt, ShellBusy
<1>2. CASE CmdProc
  BY <1>2, ShellRest DEF CmdProc, AtPrompt, ShellBusy
<1>3. CASE \E p \in KillArgs : CmdKill(p)
  <2>1. PICK p \in KillArgs : CmdKill(p)
    BY <1>3
  <2>2. /\ shell.pc = "prompt" /\ kills["shell"] = <<>> /\ ShellRuns
        /\ kills'["shell"] = KillCall(p)
        /\ UNCHANGED <<pidVars, cpu, mode, shell>>
    BY <1>0, <2>1 DEF CmdKill, AtPrompt, ShellBusy
  <2>3. KillCall(p) # <<>> => Len(KillCall(p)) = 1 /\ Head(KillCall(p)).step = "visit"
    BY DEF KillCall, FrameAt
  <2>4. Waiting(kills'["shell"])
    <3>1. KillCall(p) = <<>> \/ Len(KillCall(p)) = 1
      BY <2>3
    <3>2. Len(<<>>) = 0
      OBVIOUS
    <3> QED BY <2>2, <3>1, <3>2 DEF Waiting
  <2>5. Held' /\ NoHiddenExhaustion'
    BY <2>2, <2>3, ShellFact, CountUnchanged DEF Held
  <2> QED BY <2>2, <2>4, <2>5, ShellCount
<1>4. CASE alt_kill_mode
  BY <1>4, ShellRest DEF alt_kill_mode, AtPrompt, ShellBusy
<1>5. CASE CreateSearch
  <2>1. shell'.pc \in {"stuck", "fill"}
    BY <1>0, <1>5 DEF CreateSearch, ShellRecord
  <2> QED BY <1>5, <2>1, ShellRest DEF CreateSearch, ShellAt
<1>6. CASE CreateFill \/ CreateStack \/ CreateStatic \/ CreatePublish
  <2>1. shell'.pc \in {"stack", "static", "publish", "parent"}
    BY <1>0, <1>6 DEF CreateFill, CreateStack, CreateStatic, CreatePublish, ShellRecord
  <2> QED BY <1>6, <2>1, ShellRest
         DEF CreateFill, CreateStack, CreateStatic, CreatePublish, ShellAt
<1>7. CASE CreateParent
  <2>1. shell'.pc \in {"prompt", "preempt"}
    <3>1. /\ Prompt.pc = "prompt"
          /\ [Prompt EXCEPT !.pc = "preempt", !.prio = shell.prio].pc = "preempt"
      BY DEF Prompt
    <3> QED BY <1>7, <3>1 DEF CreateParent
  <2> QED BY <1>7, <2>1, ShellRest DEF CreateParent, ShellAt
<1>8. CASE pc_preempt_syscall
  <2>1. /\ shell' = Prompt /\ kills["shell"] = <<>> /\ ShellRuns
        /\ UNCHANGED <<pidVars, kills>>
    BY <1>8 DEF pc_preempt_syscall, ShellAt
  <2>2. NoHiddenExhaustion' /\ Waiting(kills'["shell"])
    BY <2>1, ShellFact, CountUnchanged
  <2>3. ~ShellBusy' /\ Held'
    BY <2>1 DEF ShellBusy, Prompt, Held
  <2> QED BY <2>2, <2>3 DEF CountInv
<1> QED BY <1>1, <1>2, <1>3, <1>4, <1>5, <1>6, <1>7, <1>8, ShellFreeCounts,
           ShellLoadsCounts, ShellSetsCounts, ShellCountsCounts DEF ShellNext

-----------------------------------------------------------------------------
LEMMA InitCounts == Init => CountInv
<1> SUFFICES ASSUME Init PROVE CountInv
  OBVIOUS
<1> USE ProcessAssumption, PidAssumption
<1>1. NoHiddenExhaustion
  <2>1. page = 0..2 /\ nr_free = NPID - 3
    BY DEF Init, INIT, SHELL, CLOCK
  <2>2. Cardinality(0..2) = 3
    <3>1. \A b \in Nat : Cardinality(0..b) = b + 1
      BY FS_Interval
    <3>2. 2 \in Nat
      OBVIOUS
    <3>3. Cardinality(0..2) = 2 + 1
      BY <3>1, <3>2, Zenon
    <3> QED BY <3>3
  <2>3. Cardinality(page) = 3
    BY <2>1, <2>2
  <2> QED BY <2>1, <2>3 DEF NoHiddenExhaustion
<1>2. /\ mode = "user" /\ kills["shell"] = <<>> /\ shell.pc = "prompt"
  BY DEF Init, Prompt
<1>3. Waiting(kills["shell"])
  BY <1>2 DEF Waiting
<1>4. ~ShellBusy /\ Held
  BY <1>2 DEF ShellBusy, Held
<1> QED BY <1>1, <1>2, <1>3, <1>4, InitIInv DEF CountInv

LEMMA NextCounts == Untimed /\ CountInv /\ [Next]_vars => CountInv'
<1> SUFFICES ASSUME Untimed, CountInv, [Next]_vars PROVE CountInv'
  OBVIOUS
<1>0. IInv' /\ IInv /\ PidTypeOK /\ NoHiddenExhaustion
  BY StepIInv DEF CountInv, IInv
<1>1. mode = "user" /\ (cpu = SHELL => ~ShellBusy) => ~ShellBusy
  BY DEF CountInv
<1>2. CASE Timer
  BY <1>0, <1>1, <1>2, OthersCount, CountUnchanged DEF Timer, Untimed
<1>3. CASE do_fork
  <2>1. ~ShellBusy /\ UNCHANGED <<kills, shell>>
    <3>1. ProgramRuns /\ UNCHANGED <<kills, shell>>
      BY <1>3 DEF do_fork
    <3> QED BY <1>1, <3>1 DEF ProgramRuns, SHELL, CLOCK, Torn
  <2>2. NoHiddenExhaustion'
    BY <1>0, <1>3, AllocCounts, CountUnchanged DEF do_fork
  <2> QED BY <1>0, <2>1, <2>2, OthersCount
<1>4. ASSUME NEW how, pc_kill_syscall(how)
      PROVE  /\ NoHiddenExhaustion' /\ UNCHANGED shell
             /\ kills'["shell"] = kills["shell"]
  BY <1>0, <1>4, FreeCounts DEF pc_kill_syscall, CountInv, IInv, RestInv
<1>5. CASE Exit
  <2>1. ~ShellBusy
    BY <1>1, <1>5 DEF Exit, ProgramRuns, SHELL, CLOCK, Torn
  <2> QED BY <1>0, <1>4, <1>5, <2>1, OthersCount DEF Exit
<1>6. CASE Fault
  <2>1. mode' \in {"fault", "stopped"}
    BY <1>6 DEF Fault, pc_kill_syscall, pc_schedule, Dispatch, AfterKill
  <2> QED BY <1>0, <1>4, <1>6, <2>1, OthersCount DEF Fault
<1>7. CASE ExitDone
  <2>1. NoHiddenExhaustion' /\ UNCHANGED <<kills, shell>>
    BY <1>0, <1>7, CountUnchanged DEF ExitDone
  <2>2. CASE mode = "exit"
    BY <1>0, <2>1, <2>2, OthersCount DEF CountInv
  <2>3. CASE mode = "fault"
    <3>1. mode' = "stopped"
      BY <1>7, <2>3 DEF ExitDone, pc_schedule, Dispatch, AfterKill
    <3> QED BY <1>0, <2>1, <3>1, OthersCount
  <2> QED BY <1>7, <2>2, <2>3 DEF ExitDone
<1>8. CASE \E who \in {"shell", "exit"} : KillNext(who)
  <2>1. PICK who \in {"shell", "exit"} : KillNext(who)
    BY <1>8
  <2>2. CASE KillVisit(who)
    BY <1>0, <2>2, KillVisitCounts
  <2>3. CASE KillClear(who) \/ KillReturn(who)
    <3>1. /\ MayKill(who) /\ kills' = [kills EXCEPT ![who] = NextSlot(kills[who])]
          /\ UNCHANGED <<pidVars, cpu, mode, shell>>
      BY <2>3 DEF KillClear, KillReturn
    <3>2. who = "shell" => Settled(NextSlot(kills[who]))
      BY <1>0, <3>1, SettledNext DEF MayKill, CountInv, IInv, RestInv
    <3> QED BY <1>0, <3>1, <3>2, KillCounts
  <2> QED BY <2>1, <2>2, <2>3 DEF KillNext
<1>9. CASE KillFree
  BY <1>0, <1>9, KillFreeCounts
<1>10. CASE ShellNext
  BY <1>0, <1>10, ShellNextCounts
<1>11. CASE UNCHANGED vars
  <2>1. NoHiddenExhaustion' /\ UNCHANGED <<kills, shell, mode, cpu, pidVars>>
    BY <1>0, <1>11, CountUnchanged DEF vars
  <2>2. Held' = Held /\ ShellBusy' = ShellBusy /\ Waiting(kills["shell"])'
    BY <2>1 DEF Held, ShellBusy, pidVars, Waiting, CountInv
  <2> QED BY <1>0, <2>1, <2>2 DEF CountInv
<1> QED BY <1>2, <1>3, <1>5, <1>6, <1>7, <1>8, <1>9, <1>10, <1>11 DEF Next

(* alloc_pidmap's early return on nr_free = 0 never hides a free           *)
(* identifier, although identifiers are released twice, as long as no tick *)
(* falls between the loads and the stores of the Shell's calls.            *)
THEOREM CounterCoversBitmap ==
  ASSUME Untimed
  PROVE  Spec => []NoHiddenExhaustion
<1>1. CountInv => NoHiddenExhaustion
  BY DEF CountInv
<1>2. CountInv /\ [Next]_vars => CountInv'
  BY NextCounts
<1> QED BY <1>1, <1>2, InitCounts, PTL DEF Spec

-----------------------------------------------------------------------------
(***************************************************************************)
(* When the timer leaves the Shell's procedures alone: no process is lost, *)
(* doubled or left without a parent, and no identifier leaks.              *)
(***************************************************************************)
(***************************************************************************)
(* The environment of these theorems.  The timer does not interrupt        *)
(* pc_create and pc_kill, programs fork on the level of their static       *)
(* priority, the proc command is not used, and fewer processes are started *)
(* than there are identifiers, so that alloc_pidmap finds one and the      *)
(* highest is never handed out.                                            *)
(***************************************************************************)
Calm ==
  /\ Allowed \subseteq {"create", "kill", "killmode", "fault", "fork"}
  /\ MaxSpawn < NPID - 1

-----------------------------------------------------------------------------
(***************************************************************************)
(* The inductive invariant.  Of a queue q: the identifiers in it, each in  *)
(* one PCB, and whose PCB holds the thread of that number.                 *)
(***************************************************************************)
AsidsIn(q) == {a \in Pid : \E l \in Level, s \in Slot : q[l][s].asid = a}

OneEach(q) == \A l, m \in Level, s, t \in Slot :
  q[l][s].asid # NoPid /\ q[l][s].asid = q[m][t].asid => l = m /\ s = t

CurrentIs(l, s) == l = curr_queue /\ s = curr_proc[curr_queue]

Threaded(q) == \A l \in Level, s \in Slot :
  q[l][s].asid # NoPid => q[l][s].ctx = q[l][s].asid

OthersThreaded(q) == \A l \in Level, s \in Slot :
  q[l][s].asid # NoPid /\ ~CurrentIs(l, s) => q[l][s].ctx = q[l][s].asid

(* A parent is older, and is init's only if there is none.                 *)
Kin(pcb, P) ==
  /\ pcb.asid = INIT => pcb.ppid \in {NoPid, INIT}
  /\ pcb.asid \notin {INIT, NoPid} => pcb.ppid \in P /\ pcb.ppid \in 0..pcb.asid-1

Family(q, P) == \A l \in Level, s \in Slot : Kin(q[l][s], P)

(* Identifiers are handed out in order, and thread p is process p.  While  *)
(* alloc_pidmap is at work, it is on the next one.                         *)
Numbered ==
  /\ last_pid = IF shell.pc \in {"commit", "set", "fetch", "count", "last"}
                THEN spawned - 1 ELSE spawned
  /\ spawned >= CLOCK
  /\ AsidsIn(task_queue) \subseteq 0..last_pid
  /\ page \subseteq 0..(IF shell.pc \in {"commit", "set"} THEN spawned - 1 ELSE spawned)

Identified ==
  mode # "stopped" =>
    /\ OthersThreaded(task_queue)
    /\ Current.asid = cpu
    /\ INIT \in AsidsIn(task_queue)

(* What the Shell knows in pc_create.                                      *)
Creating ==
  LET pcb == task_queue[shell.prio][shell.slot]
  IN  /\ shell.pc \in {"commit", "set", "fetch", "count", "last"} => shell.pid = spawned
      /\ shell.pc \notin {"prompt", "parent", "preempt"} =>
           /\ shell.pid = shell.thread
           /\ shell.pid \in CLOCK+1..spawned
           /\ shell.pid \notin AsidsIn(task_queue)
      /\ mode = "user" =>
           /\ shell.pc \in {"fill", "stack", "static", "publish"} => pcb.asid = NoPid
           /\ shell.pc = "stack" => pcb.ctx = Begun
           /\ shell.pc \in {"static", "publish"} => pcb.ctx = shell.thread
           /\ shell.pc = "parent" => pcb.asid \notin {INIT, SHELL, NoPid}

(* An exception of the Shell stops the system in the end; until then the   *)
(* bookkeeping is none.                                                    *)
Sound == mode \in {"user", "exit"} \/ (mode = "fault" /\ cpu # SHELL)

(* Whose turn it is.                                                       *)
Turns ==
  /\ mode = "user" => kills.exit = <<>> /\ (ShellBusy => cpu = SHELL)
  /\ mode = "exit" => cpu > CLOCK
  /\ mode = "fault" => cpu # INIT
  /\ Sound /\ mode # "user" => ~ShellBusy
  /\ mode = "user" /\ kills.shell # <<>> => shell.pc = "prompt"

(***************************************************************************)
(* The frames of pc_kill.  A frame has visited the levels above its own    *)
(* and the slots of its level before the one it looks at.                  *)
(***************************************************************************)
Visited(f, l, s) ==
  \/ l > f.level
  \/ l = f.level /\ Dist(curr_proc[l], s) < NSLOT - f.left

At(f) == task_queue[f.level][f.slot]

(* A frame of who's call, in any state where it runs.                      *)
FrameOK(f, who) ==
  /\ f.proc # INIT /\ (f.proc = SHELL => f.sys)
  /\ f.sys => f.proc = cpu /\ who = "exit"
  /\ Dist(curr_proc[f.level], f.slot) = NSLOT - f.left
  /\ f.step \in {"free", "count", "load", "mask", "clear"} => ~f.sys /\ At(f).asid = f.proc

Good(who) == {f \in Frame : FrameOK(f, who)}

(* Frame c[1] was called by frame c[2].                                    *)
Calls == {c \in Frame \X Frame : c[2].step = "return" /\ ~c[1].sys}

Linked(fs, R) == \A i \in 1..Len(fs)-1 : <<fs[i], fs[i+1]>> \in R

FramesOK(who) == kills[who] \in Seq(Good(who)) /\ Linked(kills[who], Calls)

(* Where a frame has been, neither its process nor a child is left.        *)
Done(f, l, s) ==
  task_queue[l][s].asid \notin {NoPid, INIT} =>
    /\ task_queue[l][s].ppid # f.proc
    /\ ~f.sys => task_queue[l][s].asid # f.proc

Searched(f) == \A l \in Level, s \in Slot : Visited(f, l, s) => Done(f, l, s)

(* On behalf of a process that exits, a younger one is looked for.         *)
Younger(f) == f.sys \/ f.proc = NoPid \/ f.proc > cpu

Sane(who) == {f \in Good(who) : Searched(f) /\ (who = "exit" => Younger(f))}

(* The call is about the process in the caller's slot.                     *)
CallsFor == {c \in Calls : At(c[2]).asid \in {NoPid, c[1].proc}}

Nested(who) ==
  /\ kills[who] \in Seq(Sane(who)) /\ Linked(kills[who], CallsFor)
  /\ kills[who] # <<>> /\ kills[who][1].step = "return" => At(kills[who][1]).asid = NoPid

Frames ==
  /\ mode = "user" => FramesOK("shell")
  /\ FramesOK("exit")
  /\ Sound => Nested("shell") /\ Nested("exit")

-----------------------------------------------------------------------------
(***************************************************************************)
(* The bitmap and the parents while processes die.                         *)
(***************************************************************************)
Clearing(who) ==
  IF kills[who] # <<>> /\ kills[who][1].step = "clear" THEN {kills[who][1].proc} ELSE {}

Dying == IF mode = "user" THEN {} ELSE {cpu}

Procs(fs) == {fs[i].proc : i \in 1..Len(fs)}

Killed(who) == Procs(kills[who])

Bitmap ==
  Sound => page = (AsidsIn(task_queue) \ (Clearing("shell") \union Clearing("exit") \union Dying))
                    \union Pending

Orphan(l, s) == shell.pc = "parent" /\ l = shell.prio /\ s = shell.slot

Parents == (AsidsIn(task_queue) \ Dying) \union Killed("shell") \union Killed("exit")

Tree ==
  Sound => \A l \in Level, s \in Slot : Orphan(l, s) \/ Kin(task_queue[l][s], Parents)

CalmInv ==
  /\ IInv
  /\ OneEach(task_queue) /\ Numbered /\ Identified /\ Creating
  /\ Turns /\ Frames /\ Bitmap /\ Tree

-----------------------------------------------------------------------------
(***************************************************************************)
(* What a step does to the set of processes.                               *)
(***************************************************************************)
Born(p) ==
  /\ p \in Pid \ AsidsIn(task_queue)
  /\ AsidsIn(task_queue') = AsidsIn(task_queue) \union {p}

Died(p) ==
  /\ p \in AsidsIn(task_queue) \ {INIT, SHELL}
  /\ AsidsIn(task_queue') = AsidsIn(task_queue) \ {p}

-----------------------------------------------------------------------------
(***************************************************************************)
(* Identifiers in queues.                                                  *)
(***************************************************************************)

(* The identifiers are natural numbers, and -1 is none of them.            *)
LEMMA Identifiers ==
  /\ Pid \subseteq Nat /\ NoPid \notin Pid /\ NoPid = -1
  /\ \A pcb \in PCB : /\ pcb.asid \in PidOrNone /\ pcb.asid \in Int
                      /\ pcb.asid # NoPid => pcb.asid \in Pid /\ pcb.asid >= 0
BY PidAssumption DEF Pid, NoPid, PCB, PidOrNone

(* A queue with the same identifiers in the same slots.                    *)
LEMMA SamePlaces ==
  ASSUME NEW q, NEW r, \A l \in Level, s \in Slot : r[l][s].asid = q[l][s].asid
  PROVE  AsidsIn(r) = AsidsIn(q) /\ (OneEach(q) => OneEach(r))
BY DEF AsidsIn, OneEach

(* copy_context into the current PCB: now every PCB holds its own thread.  *)
LEMMA SavedCalm ==
  ASSUME QueueInv, cpu \in Thread, NEW q, TypedQueue(q), OneEach(q), OthersThreaded(q),
         q[curr_queue][curr_proc[curr_queue]].asid \in {NoPid, cpu}
  PROVE  LET r == SaveContext(q)
         IN  /\ TypedQueue(r) /\ OneEach(r) /\ Threaded(r)
             /\ AsidsIn(r) = AsidsIn(q)
             /\ \A P : Family(q, P) => Family(r, P)
<1> DEFINE l == curr_queue
           s == curr_proc[curr_queue]
           p == [q[l][s] EXCEPT !.ctx = cpu]
           r == SaveContext(q)
<1>1. l \in Level /\ s \in Slot
  BY DEF QueueInv
<1>2. q[l][s] \in PCB
  BY <1>1 DEF TypedQueue
<1>3. p \in PCB /\ p.ctx = cpu /\ p.asid = q[l][s].asid /\ p.ppid = q[l][s].ppid
  BY <1>2 DEF PCB, Context
<1>4. r = [m \in Level |-> [t \in Slot |->
        IF m = l /\ t = s THEN p ELSE q[m][t]]]
  BY <1>1 DEF SaveContext, TypedQueue
<1> HIDE DEF p, r
<1>5. TypedQueue(r)
  BY <1>3, <1>4 DEF TypedQueue
<1>6. \A m \in Level, t \in Slot : r[m][t].asid = q[m][t].asid /\ r[m][t].ppid = q[m][t].ppid
  BY <1>3, <1>4
<1>7. AsidsIn(r) = AsidsIn(q) /\ OneEach(r)
  BY <1>6, SamePlaces
<1>8. \A P : Family(q, P) => Family(r, P)
  BY <1>6 DEF Family, Kin
<1>9. Threaded(r)
  <2> SUFFICES ASSUME NEW m \in Level, NEW t \in Slot, r[m][t].asid # NoPid
               PROVE  r[m][t].ctx = r[m][t].asid
    BY DEF Threaded
  <2>1. CASE m = l /\ t = s
    BY <1>3, <1>4, <1>6, <2>1
  <2>2. CASE ~(m = l /\ t = s)
    <3>1. ~CurrentIs(m, t) /\ r[m][t] = q[m][t]
      BY <1>4, <2>2 DEF CurrentIs
    <3> QED BY <3>1 DEF OthersThreaded
  <2> QED BY <2>1, <2>2
<1> QED BY <1>5, <1>7, <1>8, <1>9 DEF r

(* pc_schedule's move of the current PCB loses and doubles nobody.         *)
LEMMA RequeuedCalm ==
  ASSUME QueueInv, NEW q, TypedQueue(q), OneEach(q), Threaded(q), NEW expired \in BOOLEAN
  PROVE  LET r == Requeued(q, expired).queue
         IN  /\ OneEach(r) /\ Threaded(r)
             /\ AsidsIn(r) = AsidsIn(q)
             /\ \A P : Family(q, P) => Family(r, P)
<1> USE ProcessAssumption
<1> DEFINE target  == IF expired THEN curr_queue - 1 ELSE curr_queue + 1
           movable == IF expired THEN curr_queue > DEFAULT_PRIO
                      ELSE curr_queue \in DEFAULT_PRIO..MAX_PRIO-1
           from == curr_proc[curr_queue]
           to   == Advance(curr_proc[target], FreeSlots(q, target))
           r    == Requeued(q, expired).queue
           moved == [q EXCEPT ![target][to] = q[curr_queue][from],
                              ![curr_queue][from] = Cleared(@)]
<1>1. CASE ~movable \/ FreeSlots(q, target) = {}
  <2>1. r = q
    BY <1>1 DEF Requeued
  <2> HIDE DEF r
  <2> QED BY <2>1 DEF r
<1>2. CASE movable /\ FreeSlots(q, target) # {}
  <2>1. target \in Level /\ curr_queue \in Level /\ target # curr_queue /\ from \in Slot
    BY <1>2 DEF Level, QueueInv
  <2>2. to \in FreeSlots(q, target)
    BY <1>2, <2>1, AdvanceType DEF FreeSlots, QueueInv
  <2>3. to \in Slot /\ q[target][to] \in PCB /\ q[target][to].asid < 0
    BY <2>1, <2>2 DEF FreeSlots, TypedQueue
  <2>4. q[target][to].asid = NoPid
    BY <2>3, Identifiers
  <2>5. r = moved
    BY <1>2 DEF Requeued
  <2>6. q[curr_queue][from] \in PCB
    BY <2>1 DEF TypedQueue
  <2>7. Cleared(q[curr_queue][from]).asid = NoPid
    BY <2>6 DEF Cleared, PCB
  <2>8. moved = [l \in Level |-> [s \in Slot |->
                  IF l = target /\ s = to THEN q[curr_queue][from]
                  ELSE IF l = curr_queue /\ s = from
                  THEN Cleared(q[curr_queue][from])
                  ELSE q[l][s]]]
    BY <2>1, <2>3 DEF TypedQueue
  <2> HIDE DEF target, to, from, r, moved
  <2>9. /\ r[target][to] = q[curr_queue][from]
        /\ r[curr_queue][from].asid = NoPid
        /\ \A l \in Level, s \in Slot :
             ~(l = target /\ s = to) /\ ~(l = curr_queue /\ s = from) => r[l][s] = q[l][s]
    BY <2>1, <2>3, <2>5, <2>7, <2>8
  <2>10. OneEach(r)
    BY <2>1, <2>3, <2>4, <2>9 DEF OneEach
  <2>11. Threaded(r)
    BY <2>1, <2>3, <2>9 DEF Threaded
  <2>12. AsidsIn(r) = AsidsIn(q)
    <3>1. \A a \in Pid : (\E l \in Level, s \in Slot : r[l][s].asid = a)
                      => (\E l \in Level, s \in Slot : q[l][s].asid = a)
      BY <2>1, <2>3, <2>9, Identifiers
    <3>2. \A a \in Pid : (\E l \in Level, s \in Slot : q[l][s].asid = a)
                      => (\E l \in Level, s \in Slot : r[l][s].asid = a)
      BY <2>1, <2>3, <2>4, <2>9, Identifiers
    <3> QED BY <3>1, <3>2 DEF AsidsIn
  <2>13. ASSUME NEW P, Family(q, P)
         PROVE  Family(r, P)
    <3>1. \A pcb : pcb.asid = NoPid => Kin(pcb, P)
      BY DEF Kin, INIT, NoPid
    <3> QED BY <2>1, <2>3, <2>9, <2>13, <3>1 DEF Family
  <2> QED BY <2>10, <2>11, <2>12, <2>13 DEF r
<1> QED BY <1>1, <1>2

(* The process that pc_schedule picks is the one whose thread it loads.    *)
LEMMA DispatchCalm ==
  ASSUME NEW r, TypedQueue(r.queue), Threaded(r.queue),
         r.proc \in [Level -> Slot \union {-1}],
         NEW after, Dispatch(r, after), mode' # "stopped"
  PROVE  /\ mode' = after
         /\ Current'.asid = cpu'
         /\ cpu' \in AsidsIn(r.queue) \ {INIT}
<1> DEFINE top == TopLevel(r.queue)
           slot == Advance(r.proc[top], ReadySlots(r.queue, top))
<1>1. ReadyLevels(r.queue) # {}
  BY DEF Dispatch
<1>2. /\ task_queue' = r.queue
      /\ curr_proc' = [l \in Level |->
           IF l < top THEN r.proc[l]
           ELSE Advance(r.proc[l], ReadySlots(r.queue, l))]
      /\ curr_queue' = top
      /\ cpu' = Resumed(r.queue[top][curr_proc'[top]].ctx)
      /\ mode' = after
  BY <1>1 DEF Dispatch
<1>3. top \in Level /\ ReadySlots(r.queue, top) # {} /\ ~(top < top)
  BY <1>1, TopLevelType DEF Level
<1>4. slot \in ReadySlots(r.queue, top)
  <2>1. r.proc[top] \in Slot \union {-1} /\ ReadySlots(r.queue, top) \in SUBSET Slot
    BY <1>3 DEF ReadySlots
  <2> HIDE DEF top
  <2> QED BY <1>3, <2>1, AdvanceType
<1> HIDE DEF top
<1>5. curr_proc'[top] = slot
  BY <1>2, <1>3
<1>6. slot \in Slot /\ r.queue[top][slot].asid > 0 /\ r.queue[top][slot] \in PCB
  BY <1>3, <1>4 DEF ReadySlots, TypedQueue
<1> HIDE DEF slot
<1>7. r.queue[top][slot].ctx = r.queue[top][slot].asid
  BY <1>3, <1>6, Identifiers DEF Threaded
<1>8. r.queue[top][slot].asid \in AsidsIn(r.queue) \ {INIT}
  BY <1>3, <1>6, Identifiers DEF AsidsIn, INIT
<1>9. Resumed(r.queue[top][slot].ctx) = r.queue[top][slot].ctx
  <2> PICK pcb : pcb = r.queue[top][slot]
    OBVIOUS
  <2>1. pcb \in PCB /\ pcb.ctx > 0
    BY <1>6, <1>7
  <2>2. pcb.ctx \in Thread
    BY <2>1 DEF PCB, Context, Begun, Torn, NoThread
  <2> QED BY <2>2 DEF Resumed
<1> QED BY <1>2, <1>5, <1>7, <1>8, <1>9 DEF Current

(* pc_schedule as a whole, of the queue q it is called with.               *)
LEMMA ScheduleCalm ==
  ASSUME QueueInv, cpu \in Thread, NEW q, TypedQueue(q),
         OneEach(q), OthersThreaded(q),
         q[curr_queue][curr_proc[curr_queue]].asid \in {NoPid, cpu},
         NEW expired \in BOOLEAN, NEW after, pc_schedule(q, expired, after)
  PROVE  /\ OneEach(task_queue') /\ Threaded(task_queue')
         /\ AsidsIn(task_queue') = AsidsIn(q)
         /\ \A P : Family(q, P) => Family(task_queue', P)
         /\ mode' # "stopped" => /\ mode' = after
                                 /\ Current'.asid = cpu'
                                 /\ cpu' \in AsidsIn(q) \ {INIT}
<1> DEFINE sq == SaveContext(q)
           r  == Requeued(sq, expired)
<1>1. /\ TypedQueue(sq) /\ OneEach(sq) /\ Threaded(sq)
      /\ AsidsIn(sq) = AsidsIn(q)
      /\ \A P : Family(q, P) => Family(sq, P)
  BY SavedCalm
<1>3. Dispatch(r, after)
  BY DEF pc_schedule
<1> HIDE DEF sq
<1>4. /\ OneEach(r.queue) /\ Threaded(r.queue)
      /\ AsidsIn(r.queue) = AsidsIn(sq)
      /\ \A P : Family(sq, P) => Family(r.queue, P)
  BY <1>1, RequeuedCalm
<1>5. TypedQueue(r.queue) /\ r.proc \in [Level -> Slot \union {-1}]
  BY <1>1, RequeuedType
<1> HIDE DEF r
<1>6. task_queue' = r.queue
  BY <1>3 DEF Dispatch
<1>7. mode' # "stopped" => /\ mode' = after
                           /\ Current'.asid = cpu'
                           /\ cpu' \in AsidsIn(r.queue) \ {INIT}
  BY <1>3, <1>4, <1>5, DispatchCalm
<1> QED BY <1>1, <1>4, <1>6, <1>7

-----------------------------------------------------------------------------
(***************************************************************************)
(* Sequences of frames: none, the first one replaced, removed, one added.  *)
(***************************************************************************)

(* No call in progress.                                                    *)
LEMMA NoFrame ==
  ASSUME NEW fs, fs = <<>>, NEW S, NEW R
  PROVE  fs \in Seq(S) /\ Linked(fs, R) /\ Procs(fs) = {}
<1>1. Len(fs) = 0 /\ fs \in Seq(S) /\ 1..0 = {} /\ 1..(0-1) = {}
  OBVIOUS
<1> QED BY <1>1 DEF Linked, Procs

(* One call, that has called no other.                                     *)
LEMMA OneFrame ==
  ASSUME NEW S, NEW R, NEW f \in S, NEW fs, fs = <<f>>
  PROVE  /\ fs \in Seq(S) /\ Linked(fs, R) /\ Procs(fs) = {f.proc}
         /\ fs[1] = f /\ fs # <<>>
<1>1. Len(fs) = 1 /\ fs[1] = f /\ fs # <<>> /\ fs \in Seq(S)
  OBVIOUS
<1>2. 1..1 = {1} /\ 1..(1-1) = {}
  OBVIOUS
<1> QED BY <1>1, <1>2 DEF Linked, Procs

(* The parts of a sequence that is not empty.                              *)
LEMMA Parts ==
  ASSUME NEW S, NEW fs \in Seq(S), fs # <<>>
  PROVE  /\ Head(fs) = fs[1] /\ fs[1] \in S
         /\ Tail(fs) \in Seq(S) /\ Len(Tail(fs)) = Len(fs) - 1 /\ Len(fs) \in Nat
         /\ \A i \in 1..Len(fs)-1 : Tail(fs)[i] = fs[i+1]
OBVIOUS

(* The innermost frame is replaced by one of the same process.             *)
LEMMA ReplacedFrame ==
  ASSUME NEW S, NEW fs \in Seq(S), fs # <<>>, NEW g, g.proc = fs[1].proc,
         NEW R, Linked(fs, R)
  PROVE  LET r == <<g>> \o Tail(fs)
         IN  /\ r # <<>> /\ r[1] = g /\ Procs(r) = Procs(fs)
             /\ \A T : Tail(fs) \in Seq(T) /\ g \in T => r \in Seq(T)
             /\ (Len(fs) > 1 => <<g, fs[2]>> \in R) => Linked(r, R)
<1> DEFINE r == <<g>> \o Tail(fs)
<1>1. /\ Len(r) = Len(fs) /\ r # <<>> /\ r[1] = g /\ Len(fs) \in Nat \ {0}
      /\ \A i \in 2..Len(fs) : r[i] = fs[i]
  BY Parts
<1>2. \A T : Tail(fs) \in Seq(T) /\ g \in T => r \in Seq(T)
  OBVIOUS
<1> HIDE DEF r
<1>3. \A i \in 1..Len(fs) : r[i].proc = fs[i].proc
  <2> TAKE i \in 1..Len(fs)
  <2>1. i = 1 \/ i \in 2..Len(fs)
    OBVIOUS
  <2> QED BY <1>1, <2>1
<1>4. Procs(r) = Procs(fs)
  BY <1>1, <1>3 DEF Procs
<1>5. ASSUME Len(fs) > 1 => <<g, fs[2]>> \in R
      PROVE  Linked(r, R)
  <2> SUFFICES ASSUME NEW i \in 1..Len(r)-1
               PROVE  <<r[i], r[i+1]>> \in R
    BY DEF Linked
  <2>1. i+1 \in 2..Len(fs) /\ i \in 1..Len(fs)-1
    BY <1>1
  <2>2. CASE i = 1
    BY <1>1, <1>5, <2>1, <2>2
  <2>3. CASE i # 1
    <3>1. i \in 2..Len(fs) /\ <<fs[i], fs[i+1]>> \in R
      BY <2>1, <2>3 DEF Linked
    <3> QED BY <1>1, <2>1, <3>1
  <2> QED BY <2>2, <2>3
<1> QED BY <1>1, <1>2, <1>4, <1>5 DEF r

(* The innermost frame is removed.                                         *)
LEMMA PoppedFrame ==
  ASSUME NEW S, NEW fs \in Seq(S), fs # <<>>, NEW R, Linked(fs, R)
  PROVE  LET r == Tail(fs)
         IN  /\ Procs(fs) \subseteq Procs(r) \union {fs[1].proc}
             /\ Linked(r, R)
             /\ r # <<>> => r[1] = fs[2] /\ <<fs[1], fs[2]>> \in R /\ r[1] \in S
<1> DEFINE r == Tail(fs)
<1>1. /\ r \in Seq(S) /\ Len(r) = Len(fs) - 1 /\ Len(fs) \in Nat \ {0}
      /\ \A i \in 1..Len(fs)-1 : r[i] = fs[i+1]
  BY Parts
<1> HIDE DEF r
<1>2. ASSUME NEW i \in 1..Len(fs)
      PROVE  fs[i].proc \in Procs(r) \union {fs[1].proc}
  <2>1. CASE i # 1
    <3>1. i-1 \in 1..Len(fs)-1 /\ (i-1)+1 = i
      BY <1>1, <2>1
    <3>2. r[i-1] = fs[i] /\ i-1 \in 1..Len(r)
      BY <1>1, <3>1
    <3> QED BY <3>2 DEF Procs
  <2> QED BY <2>1
<1>3. Linked(r, R)
  <2> SUFFICES ASSUME NEW i \in 1..Len(r)-1
               PROVE  <<r[i], r[i+1]>> \in R
    BY DEF Linked
  <2>1. i \in 1..Len(fs)-1 /\ i+1 \in 1..Len(fs)-1
    BY <1>1
  <2>2. <<fs[i+1], fs[(i+1)+1]>> \in R
    BY <2>1 DEF Linked
  <2> QED BY <1>1, <2>1, <2>2
<1>4. r # <<>> => r[1] = fs[2] /\ <<fs[1], fs[2]>> \in R /\ r[1] \in S
  <2> SUFFICES ASSUME r # <<>>
               PROVE  r[1] = fs[2] /\ <<fs[1], fs[2]>> \in R /\ r[1] \in S
    OBVIOUS
  <2>1. 1 \in 1..Len(fs)-1 /\ r[1] \in S
    BY <1>1
  <2>2. r[1] = fs[1+1] /\ <<fs[1], fs[1+1]>> \in R
    BY <1>1, <2>1 DEF Linked
  <2> QED BY <2>1, <2>2
<1>5. Procs(fs) \subseteq Procs(r) \union {fs[1].proc}
  BY <1>2 DEF Procs
<1> QED BY <1>3, <1>4, <1>5 DEF r

(* A frame is added to a sequence that is not empty.                       *)
LEMMA PushedFrame ==
  ASSUME NEW S, NEW fs \in Seq(S), fs # <<>>, NEW h, NEW R, Linked(fs, R)
  PROVE  LET r == <<h>> \o fs
         IN  /\ r # <<>> /\ r[1] = h /\ Procs(r) = Procs(fs) \union {h.proc}
             /\ \A T : fs \in Seq(T) /\ h \in T => r \in Seq(T)
             /\ <<h, fs[1]>> \in R => Linked(r, R)
<1> DEFINE r == <<h>> \o fs
<1>1. /\ Len(r) = Len(fs) + 1 /\ r # <<>> /\ r[1] = h /\ Len(fs) \in Nat \ {0}
      /\ \A i \in 1..Len(fs) : r[i+1] = fs[i]
  OBVIOUS
<1>2. \A T : fs \in Seq(T) /\ h \in T => r \in Seq(T)
  OBVIOUS
<1> HIDE DEF r
<1>3. Procs(r) = Procs(fs) \union {h.proc}
  <2>1. \A i \in 1..Len(r) : i = 1 \/ (i-1 \in 1..Len(fs) /\ (i-1)+1 = i)
    BY <1>1
  <2>2. \A i \in 1..Len(fs) : i+1 \in 1..Len(r)
    BY <1>1
  <2>3. 1 \in 1..Len(r)
    BY <1>1
  <2>4. Procs(r) \subseteq Procs(fs) \union {h.proc}
    <3> SUFFICES ASSUME NEW i \in 1..Len(r)
                 PROVE  r[i].proc \in Procs(fs) \union {h.proc}
      BY DEF Procs
    <3>1. CASE i = 1
      BY <1>1, <3>1
    <3>2. CASE i # 1
      <4>1. i-1 \in 1..Len(fs) /\ r[i] = fs[i-1]
        BY <1>1, <2>1, <3>2
      <4> QED BY <4>1 DEF Procs
    <3> QED BY <3>1, <3>2
  <2>5. Procs(fs) \subseteq Procs(r)
    BY <1>1, <2>2 DEF Procs
  <2>6. h.proc \in Procs(r)
    BY <1>1, <2>3 DEF Procs
  <2> QED BY <2>4, <2>5, <2>6
<1>4. ASSUME <<h, fs[1]>> \in R
      PROVE  Linked(r, R)
  <2> SUFFICES ASSUME NEW i \in 1..Len(r)-1
               PROVE  <<r[i], r[i+1]>> \in R
    BY DEF Linked
  <2>1. i \in 1..Len(fs)
    BY <1>1
  <2>2. CASE i = 1
    BY <1>1, <1>4, <2>1, <2>2
  <2>3. CASE i # 1
    <3>1. i-1 \in 1..Len(fs)-1 /\ i-1 \in 1..Len(fs) /\ (i-1)+1 = i
      BY <1>1, <2>1, <2>3
    <3>2. r[i] = fs[i-1] /\ <<fs[i-1], fs[i]>> \in R
      BY <1>1, <3>1 DEF Linked
    <3> QED BY <1>1, <2>1, <3>2
  <2> QED BY <2>2, <2>3
<1> QED BY <1>1, <1>2, <1>3, <1>4 DEF r

-----------------------------------------------------------------------------
(***************************************************************************)
(* States in which nobody is being killed.                                 *)
(***************************************************************************)

(* Nobody is being killed: the bitmap and the parents are exact.           *)
LEMMA IdleFacts ==
  ASSUME CalmInv, mode = "user", kills.shell = <<>>
  PROVE  /\ page = AsidsIn(task_queue) \union Pending
         /\ \A l \in Level, s \in Slot :
              Orphan(l, s) \/ Kin(task_queue[l][s], AsidsIn(task_queue))
         /\ shell.pc # "parent" => Family(task_queue, AsidsIn(task_queue))
         /\ INIT \in AsidsIn(task_queue)
         /\ kills.exit = <<>>
<1>1. Sound /\ kills.exit = <<>> /\ Dying = {}
  BY DEF CalmInv, Turns, Sound, Dying
<1>2. /\ Clearing("shell") = {} /\ Clearing("exit") = {}
      /\ Killed("shell") = {} /\ Killed("exit") = {}
  BY <1>1, NoFrame DEF Clearing, Killed
<1>3. Parents = AsidsIn(task_queue)
  BY <1>1, <1>2 DEF Parents
<1>4. \A l \in Level, s \in Slot :
        Orphan(l, s) \/ Kin(task_queue[l][s], AsidsIn(task_queue))
  BY <1>1, <1>3 DEF CalmInv, Tree
<1>5. page = AsidsIn(task_queue) \union Pending
  BY <1>1, <1>2 DEF CalmInv, Bitmap
<1> QED BY <1>1, <1>4, <1>5 DEF Orphan, Family, CalmInv, Identified

(* And conversely: this is all the invariant then asks.                    *)
LEMMA IdleInv ==
  ASSUME IInv', OneEach(task_queue'), Numbered', Identified', Creating',
         kills'.exit = <<>>, mode' \in {"user", "stopped"},
         mode' = "user" =>
           /\ kills'.shell = <<>>
           /\ ShellBusy' => cpu' = SHELL
           /\ page' = AsidsIn(task_queue') \union Pending'
           /\ \A l \in Level, s \in Slot :
                Orphan(l, s)' \/ Kin(task_queue'[l][s], AsidsIn(task_queue'))
  PROVE  CalmInv'
<1>1. Turns'
  BY DEF Turns, Sound
<1>2. FramesOK("exit")' /\ (mode' = "user" => FramesOK("shell")')
  BY NoFrame DEF FramesOK
<1>3. Sound' => mode' = "user"
  BY DEF Sound
<1>4. mode' = "user" => Nested("shell")' /\ Nested("exit")'
  BY NoFrame DEF Nested
<1>5. Frames'
  BY <1>2, <1>3, <1>4 DEF Frames
<1>6. mode' = "user" => Dying' = {} /\ Clearing("shell")' = {} /\ Clearing("exit")' = {}
  BY DEF Dying, Clearing
<1>7. Bitmap'
  BY <1>3, <1>6 DEF Bitmap
<1>8. mode' = "user" => AsidsIn(task_queue') \subseteq Parents'
  BY <1>6 DEF Parents
<1>9. Tree'
  BY <1>3, <1>8 DEF Tree, Kin
<1> QED BY <1>1, <1>5, <1>7, <1>9 DEF CalmInv

(* pc_schedule in its callers: the processes are those of the queue q it   *)
(* is called with, and if the system runs on, they are all accounted for.  *)
LEMMA ScheduleKeeps ==
  ASSUME CalmInv, IInv', cpu \in Thread, NEW q, TypedQueue(q), OneEach(q),
         OthersThreaded(q), q[curr_queue][curr_proc[curr_queue]].asid \in {NoPid, cpu},
         AsidsIn(q) \subseteq AsidsIn(task_queue), INIT \in AsidsIn(q),
         NEW expired \in BOOLEAN, NEW after \in {"user", "stopped"},
         pc_schedule(q, expired, after),
         UNCHANGED <<last_pid, spawned>>, page' \subseteq page,
         kills'.exit = <<>>,
         shell' = shell \/ (shell' = Prompt /\ shell.pc = "preempt"),
         after = "user" =>
           /\ kills'.shell = <<>> /\ shell'.pc \in {"prompt", "stuck"}
           /\ page' = AsidsIn(q) \union Pending'
           /\ Family(q, AsidsIn(q))
  PROVE  CalmInv'
<1>1. QueueInv
  BY DEF CalmInv, IInv
<1>2. /\ OneEach(task_queue') /\ Threaded(task_queue')
      /\ AsidsIn(task_queue') = AsidsIn(q)
      /\ \A P : Family(q, P) => Family(task_queue', P)
      /\ mode' # "stopped" => /\ mode' = after
                              /\ Current'.asid = cpu'
                              /\ cpu' \in AsidsIn(q) \ {INIT}
  BY <1>1, ScheduleCalm
<1>3. mode' \in {"user", "stopped"}
  BY <1>2
<1>4. Numbered'
  BY <1>2 DEF CalmInv, Numbered, Prompt
<1>5. Identified'
  BY <1>2 DEF Identified, Threaded, OthersThreaded
<1>6. Creating'
  BY <1>2 DEF CalmInv, Creating, Prompt
<1>7. mode' = "user" =>
        /\ kills'.shell = <<>> /\ ~ShellBusy'
        /\ page' = AsidsIn(task_queue') \union Pending'
        /\ Family(task_queue', AsidsIn(task_queue'))
  BY <1>2 DEF ShellBusy
<1>8. mode' = "user" => \A l \in Level, s \in Slot :
        Orphan(l, s)' \/ Kin(task_queue'[l][s], AsidsIn(task_queue'))
  BY <1>7 DEF Family
<1> QED BY <1>2, <1>3, <1>4, <1>5, <1>6, <1>7, <1>8, IdleInv

(* The queue as it stands is one that pc_schedule may be called with.      *)
LEMMA QueueAsIs ==
  ASSUME CalmInv, mode # "stopped"
  PROVE  /\ TypedQueue(task_queue) /\ OneEach(task_queue)
         /\ OthersThreaded(task_queue) /\ QueueInv
         /\ task_queue[curr_queue][curr_proc[curr_queue]].asid = cpu
         /\ curr_queue \in Level /\ curr_proc[curr_queue] \in Slot
         /\ cpu \in AsidsIn(task_queue) /\ cpu \in Pid /\ cpu \in Thread /\ cpu \in Nat
<1>1. /\ TypedQueue(task_queue) /\ OneEach(task_queue)
      /\ OthersThreaded(task_queue) /\ QueueInv
      /\ task_queue[curr_queue][curr_proc[curr_queue]].asid = cpu
      /\ curr_queue \in Level /\ curr_proc[curr_queue] \in Slot
      /\ cpu \in Thread \union {Torn}
  BY DEF CalmInv, IInv, QueueInv, RestInv, Identified, Current
<1>2. Current \in PCB /\ Current.asid = cpu
  BY <1>1, CurrentType DEF Current
<1>3. cpu \in Thread /\ cpu \in Nat /\ cpu \in Pid
  <2>1. cpu \in PidOrNone
    BY <1>2 DEF PCB
  <2>2. cpu \in Thread
    BY <1>1, <2>1, Identifiers DEF PidOrNone, Torn
  <2>3. cpu \in Nat
    BY <2>2, ProcessAssumption DEF Thread
  <2> QED BY <1>2, <2>2, <2>3, Identifiers
<1> QED BY <1>1, <1>3 DEF AsidsIn

(* The timer interrupts no procedure of the Shell: pc_schedule.            *)
LEMMA TimerCalm ==
  ASSUME Calm, CalmInv, IInv', Timer
  PROVE  CalmInv'
<1>1. /\ mode = "user"
      /\ pc_schedule(task_queue, TRUE, "user")
      /\ UNCHANGED <<pidVars, kill_state, kills, shell, spawned>>
  BY DEF Timer
<1>2. ~ShellBusy
  BY DEF Timer, Calm, CalmInv, Turns
<1>3. kills.shell = <<>> /\ shell.pc \in {"prompt", "stuck"}
  BY <1>2 DEF ShellBusy
<1>4. /\ page = AsidsIn(task_queue) \union Pending
      /\ Family(task_queue, AsidsIn(task_queue))
      /\ INIT \in AsidsIn(task_queue) /\ kills.exit = <<>>
  BY <1>1, <1>3, IdleFacts
<1>5. UNCHANGED <<last_pid, spawned, page, Pending, kills, shell>>
  BY <1>1 DEF pidVars, Pending
<1> QED BY <1>1, <1>3, <1>4, <1>5, QueueAsIs, ScheduleKeeps

(* pc_create has made a process of a higher level: pc_schedule.            *)
LEMMA PreemptCalm ==
  ASSUME CalmInv, IInv', pc_preempt_syscall
  PROVE  CalmInv'
<1>1. /\ mode = "user" /\ kills.shell = <<>> /\ shell.pc = "preempt"
      /\ shell' = Prompt
      /\ UNCHANGED <<pidVars, kill_state, kills, spawned>>
  BY DEF pc_preempt_syscall, ShellAt, ShellRuns
<1>2. PICK expired \in BOOLEAN : pc_schedule(task_queue, expired, "user")
  BY DEF pc_preempt_syscall
<1>3. /\ page = AsidsIn(task_queue) \union Pending
      /\ Family(task_queue, AsidsIn(task_queue))
      /\ INIT \in AsidsIn(task_queue) /\ kills.exit = <<>>
  BY <1>1, IdleFacts
<1>4. UNCHANGED <<last_pid, spawned, page, kills>> /\ Pending = {} /\ Pending' = {}
  BY <1>1 DEF pidVars, Pending, Prompt
<1>5. shell'.pc = "prompt"
  BY <1>1 DEF Prompt
<1> QED BY <1>1, <1>2, <1>3, <1>4, <1>5, QueueAsIs, ScheduleKeeps

-----------------------------------------------------------------------------
(***************************************************************************)
(* The process on the processor dies.                                      *)
(***************************************************************************)

(* Emptying the current PCB takes its identifier out of the queue.         *)
LEMMA WithoutCurrentCalm ==
  ASSUME QueueInv, cpu \in Nat, NEW q, TypedQueue(q), OneEach(q), OthersThreaded(q),
         q[curr_queue][curr_proc[curr_queue]].asid = cpu
  PROVE  LET r == WithoutCurrent(q)
         IN  /\ OneEach(r) /\ OthersThreaded(r)
             /\ r[curr_queue][curr_proc[curr_queue]].asid = NoPid
             /\ AsidsIn(r) = AsidsIn(q) \ {cpu}
             /\ \A P : Family(q, P) => Family(r, P)
<1> DEFINE l == curr_queue
           s == curr_proc[curr_queue]
           p == Cleared(q[l][s])
           r == WithoutCurrent(q)
<1>1. l \in Level /\ s \in Slot
  BY DEF QueueInv
<1>2. q[l][s] \in PCB /\ p.asid = NoPid
  BY <1>1 DEF TypedQueue, Cleared, PCB
<1>3. r = [m \in Level |-> [t \in Slot |->
        IF m = l /\ t = s THEN p ELSE q[m][t]]]
  BY <1>1 DEF WithoutCurrent, TypedQueue
<1> HIDE DEF p, r
<1>4. /\ r[l][s].asid = NoPid
      /\ \A m \in Level, t \in Slot : ~(m = l /\ t = s) => r[m][t] = q[m][t]
  BY <1>1, <1>2, <1>3
<1> USE Identifiers
<1>5. OneEach(r)
  BY <1>1, <1>4 DEF OneEach
<1>6. OthersThreaded(r)
  BY <1>1, <1>4 DEF OthersThreaded, CurrentIs
<1>7. AsidsIn(r) = AsidsIn(q) \ {cpu}
  <2>1. \A a \in Pid : (\E m \in Level, t \in Slot : r[m][t].asid = a)
                    => a # cpu /\ (\E m \in Level, t \in Slot : q[m][t].asid = a)
    BY <1>1, <1>4 DEF OneEach
  <2>2. \A a \in Pid : a # cpu /\ (\E m \in Level, t \in Slot : q[m][t].asid = a)
                    => (\E m \in Level, t \in Slot : r[m][t].asid = a)
    BY <1>1, <1>4
  <2> QED BY <2>1, <2>2 DEF AsidsIn
<1>8. ASSUME NEW P, Family(q, P)
      PROVE  Family(r, P)
  <2>1. \A pcb : pcb.asid = NoPid => Kin(pcb, P)
    BY DEF Kin, INIT, NoPid
  <2> QED BY <1>1, <1>4, <1>8, <2>1 DEF Family
<1> QED BY <1>4, <1>5, <1>6, <1>7, <1>8 DEF r

(* Its children become init's.                                             *)
LEMMA GiveToInitCalm ==
  ASSUME NEW q, TypedQueue(q), OneEach(q), OthersThreaded(q), NEW a \in Nat \ {INIT}
  PROVE  LET r == GiveToInit(q, a)
         IN  /\ OneEach(r) /\ OthersThreaded(r) /\ AsidsIn(r) = AsidsIn(q)
             /\ \A l \in Level, s \in Slot : r[l][s].asid = q[l][s].asid
             /\ \A P : Family(q, P) /\ INIT \in P => Family(r, P \ {a})
<1> DEFINE r == GiveToInit(q, a)
<1>1. ASSUME NEW l \in Level, NEW s \in Slot
      PROVE  /\ r[l][s].asid = q[l][s].asid
             /\ r[l][s].ctx = q[l][s].ctx
             /\ r[l][s].ppid = IF q[l][s].ppid = a THEN INIT ELSE q[l][s].ppid
             /\ q[l][s] \in PCB
  <2>1. q[l][s] \in PCB
    BY DEF TypedQueue
  <2>2. r[l][s] = IF q[l][s].ppid = a THEN [q[l][s] EXCEPT !.ppid = INIT]
                  ELSE q[l][s]
    BY DEF GiveToInit
  <2> HIDE DEF r
  <2> QED BY <2>1, <2>2 DEF PCB
<1> HIDE DEF r
<1>2. OneEach(r) /\ AsidsIn(r) = AsidsIn(q)
  BY <1>1, SamePlaces
<1>3. OthersThreaded(r)
  BY <1>1 DEF OthersThreaded
<1>4. ASSUME NEW P, Family(q, P), INIT \in P
      PROVE  Family(r, P \ {a})
  <2> SUFFICES ASSUME NEW l \in Level, NEW s \in Slot
               PROVE  Kin(r[l][s], P \ {a})
    BY DEF Family
  <2>1. Kin(q[l][s], P) /\ q[l][s].asid \in PidOrNone
    BY <1>1, <1>4, Identifiers DEF Family
  <2>2. q[l][s].asid \notin {INIT, NoPid} => q[l][s].asid \in Nat /\ INIT \in 0..q[l][s].asid-1
    <3>1. Pid \subseteq Nat /\ q[l][s].asid \in Pid \union {NoPid}
      BY <2>1, Identifiers DEF PidOrNone
    <3>2. q[l][s].asid \notin {INIT, NoPid} =>
            /\ q[l][s].asid \in Nat /\ q[l][s].asid # 0
      BY <3>1 DEF INIT
    <3> QED BY <3>2 DEF INIT
  <2>3. CASE q[l][s].ppid = a
    <3>1. r[l][s].ppid = INIT /\ r[l][s].asid = q[l][s].asid /\ INIT \in P \ {a}
      BY <1>1, <1>4, <2>3
    <3> QED BY <2>2, <3>1 DEF Kin
  <2>4. CASE q[l][s].ppid # a
    <3>1. r[l][s].ppid = q[l][s].ppid /\ r[l][s].asid = q[l][s].asid
      BY <1>1, <2>4
    <3> QED BY <2>1, <2>4, <3>1 DEF Kin
  <2> QED BY <2>3, <2>4
<1> QED BY <1>1, <1>2, <1>3, <1>4 DEF r

(* free_pidmap of an identifier in the bitmap's range is its own bit.      *)
LEMMA OwnBit ==
  ASSUME NEW p \in Pid
  PROVE  PidMask(p) = p
BY PidAssumption DEF Pid, PidMask

(* A frame that looks for the children of p from the highest level on.     *)
Fresh(f, p, sys) ==
  /\ f \in Frame /\ Searched(f)
  /\ Dist(curr_proc[f.level], f.slot) = NSLOT - f.left
  /\ f.proc = p /\ f.sys = sys /\ f.step = "visit"

(* A frame on its first slot has not been anywhere.                        *)
LEMMA FreshFrame ==
  ASSUME QueueInv, NEW p \in Int, NEW sys \in BOOLEAN,
         NEW f, f = FrameAt(p, sys, MAX_PRIO)
  PROVE  Fresh(f, p, sys)
<1>1. MAX_PRIO \in Level /\ curr_proc[MAX_PRIO] \in Slot \union {-1}
  BY ProcessAssumption DEF QueueInv, Level
<1>2. /\ f.proc = p /\ f.sys = sys /\ f.step = "visit" /\ f.level = MAX_PRIO
      /\ f.left = NSLOT /\ f.slot = (curr_proc[MAX_PRIO] + 1) % NSLOT
  BY DEF FrameAt
<1>3. Dist(curr_proc[MAX_PRIO], f.slot) = 0
  BY <1>1, <1>2, ProcessAssumption DEF Dist, Slot
<1>4. \A l \in Level, s \in Slot : ~Visited(f, l, s)
  <2> SUFFICES ASSUME NEW l \in Level, NEW s \in Slot, Visited(f, l, s)
               PROVE  FALSE
    OBVIOUS
  <2>1. l = MAX_PRIO /\ Dist(curr_proc[l], s) < 0
    BY <1>2, ProcessAssumption DEF Visited, Level
  <2>2. Dist(curr_proc[l], s) >= 0
    BY <1>1, <2>1, ProcessAssumption DEF Dist, Slot
  <2>3. Dist(curr_proc[l], s) \in Int
    BY <1>1, <2>1, ProcessAssumption DEF Dist, Slot
  <2> QED BY <2>1, <2>2, <2>3
<1>5. f \in Frame
  BY <1>1, FrameAtType
<1> QED BY <1>2, <1>3, <1>4, <1>5, ProcessAssumption DEF Searched, Fresh

(* pc_kill_syscall: at once, or by looking for the children first.         *)
LEMMA SyscallCalm ==
  ASSUME CalmInv, IInv', NEW how \in {"exit", "fault"}, mode = "user", cpu # INIT,
         how = "exit" => cpu > CLOCK, pc_kill_syscall(how)
  PROVE  /\ CalmInv'
         /\ mode' = "user" => Died(cpu) /\ cpu' \in AsidsIn(task_queue') \ {INIT}
         /\ mode' \in {"exit", "fault"} => UNCHANGED <<task_queue, cpu>>
<1>1. /\ Current.asid = cpu /\ free_pidmap(cpu)
      /\ UNCHANGED <<kill_state, shell, spawned>>
      /\ kills.exit = <<>> /\ (ShellBusy => cpu = SHELL)
      /\ UNCHANGED Pending
  BY DEF CalmInv, Identified, pc_kill_syscall, Turns, Pending
<1>2. /\ TypedQueue(task_queue) /\ OneEach(task_queue)
      /\ OthersThreaded(task_queue) /\ QueueInv
      /\ task_queue[curr_queue][curr_proc[curr_queue]].asid = cpu
      /\ curr_queue \in Level /\ curr_proc[curr_queue] \in Slot /\ cpu \in Thread
      /\ cpu \in AsidsIn(task_queue) /\ cpu \in Pid /\ cpu \in Nat
      /\ INIT \in AsidsIn(task_queue)
  BY QueueAsIs DEF CalmInv, Identified
<1>3. page' = page \ {cpu} /\ last_pid' = last_pid
  BY <1>1, <1>2, OwnBit DEF free_pidmap
<1>4. cpu # SHELL => /\ ~ShellBusy /\ kills.shell = <<>> /\ shell.pc \in {"prompt", "stuck"}
  BY <1>1 DEF ShellBusy
<1>5. cpu # SHELL => page' = (AsidsIn(task_queue) \ {cpu}) \union Pending
  <2>1. cpu \notin Pending
    BY <1>2 DEF Pending, CalmInv, Creating
  <2> QED BY <1>3, <1>4, <2>1, IdleFacts
<1>6. how = "exit" => cpu # SHELL
  BY <1>2 DEF SHELL, CLOCK
<1>7. CASE kill_state
  <2> DEFINE g == GiveToInit(task_queue, cpu)
             w == WithoutCurrent(g)
  <2>1. PICK expired \in BOOLEAN : pc_schedule(w, expired, AfterKill(how))
    BY <1>1, <1>7 DEF pc_kill_syscall
  <2>2. /\ TypedQueue(g)
        /\ OneEach(g) /\ OthersThreaded(g) /\ AsidsIn(g) = AsidsIn(task_queue)
        /\ g[curr_queue][curr_proc[curr_queue]].asid = cpu
    BY <1>2, GiveToInitType, GiveToInitCalm
  <2>3. \A P : Family(task_queue, P) /\ INIT \in P => Family(g, P \ {cpu})
    BY <1>2, GiveToInitCalm
  <2> HIDE DEF g
  <2>4. /\ TypedQueue(w)
        /\ OneEach(w) /\ OthersThreaded(w) /\ AsidsIn(w) = AsidsIn(task_queue) \ {cpu}
        /\ w[curr_queue][curr_proc[curr_queue]].asid = NoPid
        /\ \A P : Family(g, P) => Family(w, P)
    BY <1>2, <2>2, WithoutCurrentType, WithoutCurrentCalm
  <2> HIDE DEF w
  <2>5. AfterKill(how) \in {"user", "stopped"} /\ (AfterKill(how) = "user" => how = "exit")
    BY DEF AfterKill
  <2>6. kills' = kills
    BY <1>7 DEF pc_kill_syscall
  <2>7. how = "exit" => Family(w, AsidsIn(w))
    BY <1>2, <1>4, <1>6, <2>3, <2>4, IdleFacts
  <2>8. INIT \in AsidsIn(w) /\ AsidsIn(w) \subseteq AsidsIn(task_queue)
    BY <1>2, <2>4
  <2>9. AfterKill(how) = "user" =>
          /\ kills'.shell = <<>> /\ shell'.pc \in {"prompt", "stuck"}
          /\ page' = AsidsIn(w) \union Pending'
          /\ Family(w, AsidsIn(w))
    BY <1>1, <1>4, <1>5, <1>6, <2>4, <2>5, <2>6, <2>7
  <2>10. CalmInv'
    BY <1>1, <1>2, <1>3, <2>1, <2>4, <2>5, <2>6, <2>8, <2>9, ScheduleKeeps
  <2>11. /\ AsidsIn(task_queue') = AsidsIn(w)
         /\ mode' # "stopped" => mode' = AfterKill(how) /\ cpu' \in AsidsIn(w) \ {INIT}
    BY <1>2, <2>1, <2>4, ScheduleCalm
  <2>12. mode' = "user" => Died(cpu)
    BY <1>2, <1>6, <2>4, <2>5, <2>11 DEF Died
  <2> QED BY <2>5, <2>10, <2>11, <2>12
<1>8. CASE ~kill_state
  <2> PICK f : f = FrameAt(cpu, TRUE, MAX_PRIO)
    OBVIOUS
  <2>1. /\ mode' = how
        /\ kills' = [kills EXCEPT !["exit"] = <<f>>]
        /\ UNCHANGED <<schedVars, cpu>>
    BY <1>1, <1>8 DEF pc_kill_syscall
  <2>2. /\ Searched(f) /\ Dist(curr_proc[f.level], f.slot) = NSLOT - f.left
        /\ f.proc = cpu /\ f.sys = TRUE /\ f.step = "visit" /\ f \in Frame
    <3>1. TRUE \in BOOLEAN /\ QueueInv /\ cpu \in Int
      BY <1>2
    <3>2. Fresh(f, cpu, TRUE)
      BY <3>1, FreshFrame
    <3> QED BY <3>2 DEF Fresh
  <2>3. kills'.exit = <<f>> /\ kills'.shell = kills.shell
    BY <2>1 DEF CalmInv, IInv, RestInv
  <2>4. OneEach(task_queue') /\ Numbered' /\ Identified' /\ Creating'
    BY <1>1, <1>3, <2>1
       DEF CalmInv, Numbered, Identified, Creating, schedVars, Current,
           OthersThreaded, CurrentIs
  <2>5. Sound' => cpu # SHELL
    BY <1>6, <2>1 DEF Sound
  <2>6. Turns'
    BY <1>1, <1>4, <2>1, <2>3, <2>5 DEF Turns, ShellBusy
  <2>a. kills'["exit"] = <<f>>
    BY <2>3
  <2>b. f \in Good("exit")'
    BY <2>1, <2>2 DEF Good, FrameOK, schedVars, INIT
  <2>c. f \in Sane("exit")'
    <3>1. Searched(f)'
      BY <2>1, <2>2 DEF Searched, Visited, Done, schedVars
    <3> QED BY <2>2, <2>b, <3>1 DEF Sane, Younger
  <2>d. /\ kills'["exit"] \in Seq(Good("exit")') /\ Linked(kills'["exit"], Calls)
        /\ kills'["exit"][1] = f /\ kills'["exit"] # <<>> /\ Procs(kills'["exit"]) = {f.proc}
    BY <2>a, <2>b, OneFrame
  <2>e. kills'["exit"] \in Seq(Sane("exit")') /\ Linked(kills'["exit"], CallsFor')
    BY <2>a, <2>c, OneFrame
  <2>7. FramesOK("exit")'
    BY <2>d DEF FramesOK
  <2>8. Sound' => Nested("shell")'
    BY <1>4, <2>3, <2>5, NoFrame DEF Nested
  <2>9. Nested("exit")'
    BY <2>2, <2>d, <2>e DEF Nested
  <2>10. Frames'
    BY <2>1, <2>7, <2>8, <2>9 DEF Frames
  <2>11. Dying' = {cpu} /\ Clearing("exit")' = {} /\ (Sound' => Clearing("shell")' = {})
    <3>1. Dying' = {cpu}
      BY <2>1 DEF Dying
    <3>2. Clearing("exit")' = {}
      BY <2>2, <2>d DEF Clearing
    <3>3. Sound' => Clearing("shell")' = {}
      BY <1>4, <2>3, <2>5 DEF Clearing
    <3> QED BY <3>1, <3>2, <3>3
  <2>12. Bitmap'
    BY <1>1, <1>5, <2>1, <2>5, <2>11 DEF Bitmap, schedVars
  <2>13. Tree'
    <3> SUFFICES ASSUME Sound', NEW l \in Level, NEW s \in Slot
                 PROVE  Kin(task_queue'[l][s], Parents')
      BY DEF Tree
    <3>1. Family(task_queue, AsidsIn(task_queue))
      BY <1>4, <2>5, IdleFacts
    <3>2. Killed("exit")' = {cpu}
      BY <2>2, <2>d DEF Killed
    <3>3. AsidsIn(task_queue) \subseteq Parents'
      BY <2>1, <2>11, <3>2 DEF Parents, schedVars
    <3> QED BY <2>1, <3>1, <3>3 DEF Family, Kin, schedVars
  <2>14. CalmInv'
    BY <2>4, <2>6, <2>10, <2>12, <2>13 DEF CalmInv
  <2> QED BY <2>1, <2>14 DEF schedVars
<1> QED BY <1>7, <1>8

(* The children are dead, and the caller follows them.                     *)
LEMMA ExitDoneCalm ==
  ASSUME CalmInv, IInv', ExitDone
  PROVE  /\ CalmInv'
         /\ mode' # "stopped" => Died(cpu) /\ cpu' \in AsidsIn(task_queue') \ {INIT}
<1>1. /\ mode \in {"exit", "fault"} /\ kills.exit = <<>>
      /\ UNCHANGED <<pidVars, kill_state, kills, shell, spawned, Pending>>
  BY DEF ExitDone, Pending
<1>2. /\ TypedQueue(task_queue) /\ OneEach(task_queue)
      /\ OthersThreaded(task_queue) /\ QueueInv
      /\ task_queue[curr_queue][curr_proc[curr_queue]].asid = cpu
      /\ cpu \in AsidsIn(task_queue) /\ cpu \in Thread /\ cpu \in Nat
      /\ INIT \in AsidsIn(task_queue)
  BY <1>1, QueueAsIs DEF CalmInv, Identified
<1>3. cpu # INIT
  BY <1>1, <1>2 DEF CalmInv, Turns, INIT, CLOCK
<1> DEFINE w == WithoutCurrent(task_queue)
<1>4. PICK expired \in BOOLEAN : pc_schedule(w, expired, AfterKill(mode))
  BY DEF ExitDone
<1>5. /\ TypedQueue(w)
      /\ OneEach(w) /\ OthersThreaded(w) /\ AsidsIn(w) = AsidsIn(task_queue) \ {cpu}
      /\ w[curr_queue][curr_proc[curr_queue]].asid = NoPid
      /\ \A P : Family(task_queue, P) => Family(w, P)
  BY <1>2, WithoutCurrentType, WithoutCurrentCalm
<1> HIDE DEF w
<1>6. AfterKill(mode) \in {"user", "stopped"} /\ (AfterKill(mode) = "user" => mode = "exit")
  BY <1>1 DEF AfterKill
<1>7. ASSUME mode = "exit"
      PROVE  /\ kills.shell = <<>> /\ shell.pc \in {"prompt", "stuck"}
             /\ page = AsidsIn(w) \union Pending
             /\ Family(w, AsidsIn(w))
  <2>1. Sound /\ ~ShellBusy
    BY <1>7 DEF Sound, CalmInv, Turns
  <2>2. kills.shell = <<>> /\ shell.pc \in {"prompt", "stuck"}
    BY <2>1 DEF ShellBusy
  <2>3. /\ Clearing("shell") = {} /\ Clearing("exit") = {} /\ Dying = {cpu}
        /\ Killed("shell") = {} /\ Killed("exit") = {}
    BY <1>1, <1>7, <2>2, NoFrame DEF Clearing, Killed, Dying
  <2>4. Parents = AsidsIn(w)
    BY <1>5, <2>3 DEF Parents
  <2>5. Family(task_queue, AsidsIn(w))
    BY <2>1, <2>2, <2>4 DEF CalmInv, Tree, Family, Orphan
  <2>6. page = AsidsIn(w) \union Pending
    BY <1>5, <2>1, <2>3 DEF CalmInv, Bitmap
  <2> QED BY <1>5, <2>2, <2>5, <2>6
<1>8. UNCHANGED <<last_pid, spawned, page>>
  BY <1>1 DEF pidVars
<1>9. INIT \in AsidsIn(w) /\ AsidsIn(w) \subseteq AsidsIn(task_queue)
  BY <1>2, <1>3, <1>5
<1>10. AfterKill(mode) = "user" =>
         /\ kills'.shell = <<>> /\ shell'.pc \in {"prompt", "stuck"}
         /\ page' = AsidsIn(w) \union Pending'
         /\ Family(w, AsidsIn(w))
  BY <1>1, <1>6, <1>7, <1>8
<1>11. CalmInv'
  BY <1>1, <1>2, <1>4, <1>5, <1>6, <1>8, <1>9, <1>10, ScheduleKeeps
<1>12. /\ AsidsIn(task_queue') = AsidsIn(w)
       /\ mode' # "stopped" => mode' = AfterKill(mode) /\ cpu' \in AsidsIn(w) \ {INIT}
  BY <1>2, <1>4, <1>5, ScheduleCalm
<1>13. mode' # "stopped" => Died(cpu)
  <2> SUFFICES ASSUME mode' # "stopped"
               PROVE  Died(cpu)
    OBVIOUS
  <2>1. mode = "exit"
    BY <1>6, <1>12
  <2>2. cpu > CLOCK
    BY <2>1 DEF CalmInv, Turns
  <2> QED BY <1>2, <1>3, <1>5, <1>12, <2>2 DEF Died, CLOCK, SHELL
<1> QED BY <1>11, <1>12, <1>13

-----------------------------------------------------------------------------
(***************************************************************************)
(* Processes are created.                                                  *)
(***************************************************************************)

(* alloc_pidmap finds the identifier after the last one.                   *)
LEMMA AllocCalm ==
  ASSUME PidTypeOK, NoHiddenExhaustion, page \subseteq 0..last_pid, last_pid + 1 < NPID
  PROVE  /\ last_pid + 1 \in Pid \ page
         /\ AllocOffset = last_pid + 1 /\ AllocResult(last_pid + 1) = last_pid + 1
<1> DEFINE a == last_pid + 1
           zero == {p \in Pid \ page : p >= a}
<1>1. last_pid \in Nat /\ NPID \in Nat \ {0} /\ last_pid \in Pid
  BY PidAssumption DEF PidTypeOK, Pid
<1>2. a \in Pid /\ a \notin page
  BY <1>1 DEF Pid
<1>3. PidMask(a) = a
  BY <1>2, OwnBit
<1>4. page # Pid
  BY <1>2
<1>5. nr_free # 0
  <2>1. Cardinality(page) < NPID /\ Cardinality(page) \in Nat
    BY <1>4, PageFinite
  <2> QED BY <1>1, <2>1 DEF PidTypeOK, NoHiddenExhaustion
<1>6. a \in zero /\ \A p \in zero : a <= p
  BY <1>1, <1>2 DEF Pid
<1>7. \A p \in zero : p <= a => p = a
  BY <1>1, <1>6 DEF Pid
<1>8. (CHOOSE p \in zero : \A q \in zero : p <= q) = a
  <2>1. PICK least : least = CHOOSE p \in zero : \A q \in zero : p <= q
    OBVIOUS
  <2>2. least \in zero /\ \A q \in zero : least <= q
    BY <1>6, <2>1
  <2> QED BY <1>6, <1>7, <2>1, <2>2
<1>9. find_next_zero_bit(a) = a
  BY <1>6, <1>8 DEF find_next_zero_bit
<1> QED BY <1>2, <1>3, <1>5, <1>9 DEF AllocOffset, AllocResult

(* A new process in a free PCB.                                            *)
LEMMA NewProcess ==
  ASSUME NEW q, OneEach(q), NEW l \in Level, NEW s \in Slot, q[l][s].asid = NoPid,
         NEW p, p.asid \in Pid, p.asid \notin AsidsIn(q),
         NEW r, \A m \in Level, t \in Slot :
                  r[m][t].asid = IF m = l /\ t = s THEN p.asid ELSE q[m][t].asid
  PROVE  OneEach(r) /\ AsidsIn(r) = AsidsIn(q) \union {p.asid}
<1> USE Identifiers
<1>1. \A m \in Level, t \in Slot : q[m][t].asid # p.asid
  BY DEF AsidsIn
<1>2. OneEach(r)
  BY <1>1 DEF OneEach
<1>3. \A a \in Pid : (\E m \in Level, t \in Slot : r[m][t].asid = a)
                  => a = p.asid \/ (\E m \in Level, t \in Slot : q[m][t].asid = a)
  OBVIOUS
<1>4. \A a \in Pid : (\E m \in Level, t \in Slot : q[m][t].asid = a)
                  => (\E m \in Level, t \in Slot : r[m][t].asid = a)
  OBVIOUS
<1>5. r[l][s].asid = p.asid
  OBVIOUS
<1> QED BY <1>2, <1>3, <1>4, <1>5 DEF AsidsIn

(* A free slot is an empty PCB.                                            *)
LEMMA FreeIsEmpty ==
  ASSUME NEW q, TypedQueue(q), NEW l \in Level, FreeSlots(q, l) # {},
         NEW pos \in Slot \union {-1}
  PROVE  LET s == Advance(pos, FreeSlots(q, l))
         IN  s \in Slot /\ q[l][s].asid = NoPid /\ q[l][s] \in PCB
<1> DEFINE s == Advance(pos, FreeSlots(q, l))
<1>1. FreeSlots(q, l) \in SUBSET Slot
  BY DEF FreeSlots
<1>2. s \in FreeSlots(q, l)
  BY <1>1, AdvanceType
<1> HIDE DEF s
<1>3. s \in Slot /\ q[l][s].asid < 0 /\ q[l][s] \in PCB
  BY <1>2 DEF FreeSlots, TypedQueue
<1> QED BY <1>3, Identifiers DEF s

(* do_fork: the child takes the processor from its parent.                 *)
LEMMA ForkCalm ==
  ASSUME Calm, CountInv, CalmInv, IInv', do_fork
  PROVE  CalmInv' /\ (mode' # "stopped" => Born(cpu'))
<1> DEFINE l      == Current.prio
           free   == FreeSlots(task_queue, l)
           pos    == Advance(curr_proc[l], free)
           asid   == AllocResult(AllocOffset)
           named  == [task_queue EXCEPT ![l][pos].asid = asid]
           saved  == SaveContext(named)
           child  == spawned + 1
           s      == curr_proc[curr_queue]
<1>1. /\ mode = "user" /\ cpu > CLOCK /\ spawned < MaxSpawn /\ l = curr_queue
      /\ UNCHANGED <<kill_state, kills, shell>>
  <2>1. /\ mode = "user" /\ (cpu > CLOCK \/ cpu = Torn) /\ spawned < MaxSpawn
        /\ l = curr_queue /\ UNCHANGED <<kill_state, kills, shell>>
    BY DEF do_fork, ProgramRuns, Calm
  <2>2. cpu \in Nat
    BY <2>1, QueueAsIs
  <2> HIDE DEF l
  <2> QED BY <2>1, <2>2 DEF Torn
<1>2. /\ TypedQueue(task_queue) /\ OneEach(task_queue)
      /\ OthersThreaded(task_queue) /\ QueueInv
      /\ task_queue[curr_queue][s].asid = cpu
      /\ curr_queue \in Level /\ s \in Slot
      /\ cpu \in AsidsIn(task_queue) /\ cpu \in Pid /\ cpu \in Nat
      /\ INIT \in AsidsIn(task_queue)
  BY <1>1, QueueAsIs DEF CalmInv, Identified
<1>3. kills.shell = <<>> /\ shell.pc \in {"prompt", "stuck"} /\ kills.exit = <<>>
  <2>1. cpu # SHELL
    BY <1>1, <1>2 DEF SHELL, CLOCK
  <2> QED BY <1>1, <2>1 DEF CalmInv, Turns, ShellBusy
<1>4. /\ page = AsidsIn(task_queue) \union Pending
      /\ Family(task_queue, AsidsIn(task_queue))
  BY <1>1, <1>3, IdleFacts
<1>5. /\ last_pid = spawned /\ spawned \in Nat /\ MaxSpawn \in Nat /\ NPID \in Nat
      /\ AsidsIn(task_queue) \subseteq 0..last_pid /\ page \subseteq 0..last_pid
      /\ MaxSpawn < NPID - 1
  <2>1. Numbered /\ spawned \in Thread /\ Calm
    BY DEF CalmInv, IInv, RestInv
  <2>2. MaxSpawn \in Nat /\ NPID \in Nat /\ NPID > 3
    BY ProcessAssumption, PidAssumption
  <2>3. spawned \in Nat /\ MaxSpawn < NPID - 1
    BY <2>1, <2>2 DEF Thread, Calm
  <2> QED BY <1>3, <2>1, <2>2, <2>3 DEF Numbered
<1>6. CASE free = {}
  <2>1. mode' = "stopped" /\ UNCHANGED <<pidVars, schedVars, cpu, spawned>>
    BY <1>6 DEF do_fork
  <2>2. OneEach(task_queue') /\ Numbered' /\ Identified' /\ Creating'
    BY <1>1, <2>1 DEF CalmInv, Numbered, Identified, Creating, schedVars, pidVars
  <2> QED BY <1>1, <1>3, <2>1, <2>2, IdleInv
<1>7. CASE free # {}
  <2> DEFINE rec == [asid |-> asid, ppid |-> saved[curr_queue][s].asid, prio |-> l,
                     ctx |-> child]
  <2>1. /\ AllocCommit(AllocOffset)
        /\ task_queue' = [saved EXCEPT ![l][pos] = rec]
        /\ curr_proc' = [curr_proc EXCEPT ![curr_queue] = pos]
        /\ cpu' = child
        /\ spawned' = child
        /\ UNCHANGED <<curr_queue, mode>>
    BY <1>7 DEF do_fork
  <2>2. /\ AllocOffset = child /\ asid = child /\ child \in Pid \ page
        /\ child \in Nat /\ child > cpu
    <3>1. PidTypeOK /\ NoHiddenExhaustion
      BY DEF CountInv, IInv
    <3> QED BY <1>1, <1>2, <1>5, <3>1, AllocCalm
  <2>3. page' = page \union {child} /\ last_pid' = child
    BY <2>1, <2>2 DEF AllocCommit
  <2>4. pos \in Slot /\ task_queue[l][pos].asid = NoPid /\ task_queue[l][pos] \in PCB
    <3>1. curr_proc[l] \in Slot \union {-1}
      BY <1>1, <1>2 DEF QueueInv
    <3> QED BY <1>1, <1>2, <1>7, <3>1, FreeIsEmpty
  <2>5. pos # s
    BY <1>1, <1>2, <2>4 DEF NoPid
  <2> HIDE DEF pos, asid
  <2>6. named = [m \in Level |-> [t \in Slot |->
          IF m = l /\ t = pos THEN [task_queue[l][pos] EXCEPT !.asid = asid]
          ELSE task_queue[m][t]]]
    BY <1>1, <1>2, <2>4 DEF TypedQueue
  <2>7. named[curr_queue][s] = task_queue[curr_queue][s]
    BY <1>1, <1>2, <2>5, <2>6
  <2> HIDE DEF named
  <2> DEFINE p == [task_queue[curr_queue][s] EXCEPT !.ctx = cpu]
  <2>8. /\ p.asid = cpu /\ p.ctx = cpu /\ p.ppid = task_queue[curr_queue][s].ppid
    <3>1. task_queue[curr_queue][s] \in PCB
      BY <1>2 DEF TypedQueue
    <3> QED BY <1>2, <3>1 DEF PCB
  <2>9. saved = [m \in Level |-> [t \in Slot |->
          IF m = curr_queue /\ t = s THEN p ELSE named[m][t]]]
    <3>1. /\ named = [m \in Level |-> named[m]]
          /\ \A m \in Level : named[m] = [t \in Slot |-> named[m][t]]
      BY <2>6
    <3>2. p = [named[curr_queue][s] EXCEPT !.ctx = cpu]
      BY <2>7
    <3> HIDE DEF p
    <3>3. saved = [named EXCEPT ![curr_queue] = [named[curr_queue] EXCEPT ![s] = p]]
      BY <1>2, <3>1, <3>2 DEF SaveContext
    <3>4. saved = [m \in Level |-> saved[m]]
      BY <1>2, <3>1, <3>3
    <3>5. ASSUME NEW m \in Level
          PROVE  saved[m] = [t \in Slot |->
                   IF m = curr_queue /\ t = s THEN p ELSE named[m][t]]
      BY <1>2, <3>1, <3>3
    <3> HIDE DEF saved
    <3> QED BY <3>4, <3>5
  <2>10. saved[curr_queue][s] = p
    BY <1>2, <2>9
  <2> HIDE DEF p, saved
  <2>11. rec.asid = child /\ rec.ppid = cpu /\ rec.ctx = child
    BY <2>2, <2>8, <2>10
  <2> HIDE DEF rec
  <2>12. task_queue' = [m \in Level |-> [t \in Slot |->
           IF m = l /\ t = pos THEN rec
           ELSE IF m = l /\ t = s THEN p ELSE task_queue[m][t]]]
    BY <1>1, <1>2, <2>1, <2>4, <2>6, <2>9
  <2> HIDE DEF l
  <2>13. /\ task_queue'[l][pos] = rec /\ task_queue'[l][s] = p /\ l \in Level
         /\ \A m \in Level, t \in Slot :
              ~(m = l /\ t = pos) /\ ~(m = l /\ t = s) => task_queue'[m][t] = task_queue[m][t]
    BY <1>1, <1>2, <2>4, <2>5, <2>12
  <2>14. \A m \in Level, t \in Slot :
           task_queue'[m][t].asid =
             IF m = l /\ t = pos THEN rec.asid ELSE task_queue[m][t].asid
    BY <1>1, <1>2, <2>8, <2>13
  <2>15. child \notin AsidsIn(task_queue)
    BY <1>5
  <2>16. OneEach(task_queue') /\ AsidsIn(task_queue') = AsidsIn(task_queue) \union {child}
    <3>1. rec.asid \in Pid /\ rec.asid \notin AsidsIn(task_queue)
      BY <2>2, <2>11, <2>15
    <3> QED BY <1>2, <2>4, <2>11, <2>13, <2>14, <3>1, NewProcess
  <2>17. Numbered'
    <3>1. /\ shell'.pc \notin {"commit", "set", "fetch", "count", "last"}
          /\ spawned >= CLOCK
      BY <1>1, <1>3 DEF CalmInv, Numbered
    <3>2. AsidsIn(task_queue') \subseteq 0..child /\ page' \subseteq 0..child
      BY <1>5, <2>2, <2>3, <2>16
    <3>3. spawned' >= CLOCK /\ spawned' = last_pid'
      BY <1>5, <2>1, <2>3, <3>1 DEF CLOCK
    <3>4. AsidsIn(task_queue') \subseteq 0..last_pid' /\ page' \subseteq 0..last_pid'
      BY <2>3, <3>2
    <3> QED BY <3>1, <3>3, <3>4 DEF Numbered
  <2>18. Identified'
    <3>1. curr_proc'[curr_queue'] = pos /\ curr_queue' = l
      BY <1>1, <1>2, <2>1, <2>4 DEF QueueInv
    <3>2. Current'.asid = cpu'
      BY <2>1, <2>11, <2>13, <3>1 DEF Current
    <3>3. OthersThreaded(task_queue)'
      BY <1>1, <1>2, <2>8, <2>13, <3>1 DEF OthersThreaded, CurrentIs
    <3> QED BY <1>2, <2>16, <3>2, <3>3 DEF Identified
  <2>19. Creating'
    <3>1. shell'.pc = "stuck" =>
            /\ shell'.pid = shell'.thread /\ shell'.pid \in CLOCK+1..spawned
            /\ shell'.pid \notin AsidsIn(task_queue)
      BY <1>1, <1>3 DEF CalmInv, Creating
    <3>2. shell'.pc = "stuck" =>
            /\ shell'.pid \in CLOCK+1..child /\ shell'.pid # child
      BY <1>5, <3>1 DEF CLOCK
    <3> QED BY <1>1, <1>3, <2>1, <2>16, <3>1, <3>2 DEF Creating
  <2>20. page' = AsidsIn(task_queue') \union Pending'
    BY <1>1, <1>4, <2>3, <2>16 DEF Pending
  <2>21. \A m \in Level, t \in Slot : Kin(task_queue'[m][t], AsidsIn(task_queue'))
    <3>1. \A pcb : Kin(pcb, AsidsIn(task_queue)) => Kin(pcb, AsidsIn(task_queue'))
      BY <2>16 DEF Kin
    <3>2. Kin(rec, AsidsIn(task_queue'))
      BY <1>2, <2>2, <2>11, <2>16 DEF Kin, INIT
    <3>3. Kin(p, AsidsIn(task_queue'))
      <4>1. Kin(task_queue[curr_queue][s], AsidsIn(task_queue))
        BY <1>2, <1>4 DEF Family
      <4> QED BY <1>2, <2>8, <3>1, <4>1 DEF Kin
    <3> QED BY <1>4, <2>13, <3>1, <3>2, <3>3 DEF Family
  <2>22. CalmInv'
    BY <1>1, <1>3, <2>1, <2>16, <2>17, <2>18, <2>19, <2>20, <2>21, IdleInv
       DEF ShellBusy
  <2> QED BY <2>1, <2>2, <2>15, <2>16, <2>22 DEF Born
<1> QED BY <1>6, <1>7

-----------------------------------------------------------------------------
(***************************************************************************)
(* The Shell's commands.  The Shell has the processor and kills nobody.    *)
(***************************************************************************)

(* The Shell runs: it knows all the processes, and so do we.               *)
LEMMA ShellFacts ==
  ASSUME Calm, CalmInv, ShellRuns, kills.shell = <<>>
  PROVE  /\ mode = "user" /\ cpu = SHELL /\ kills.exit = <<>>
         /\ page = AsidsIn(task_queue) \union Pending
         /\ \A l \in Level, s \in Slot :
              Orphan(l, s) \/ Kin(task_queue[l][s], AsidsIn(task_queue))
         /\ INIT \in AsidsIn(task_queue) /\ SHELL \in AsidsIn(task_queue)
         /\ OneEach(task_queue) /\ TypedQueue(task_queue) /\ QueueInv
         /\ OthersThreaded(task_queue) /\ Current.asid = SHELL
         /\ AsidsIn(task_queue) \subseteq 0..last_pid
         /\ shell.prio \in Level /\ shell.slot \in Slot
         /\ spawned \in Nat /\ spawned <= MaxSpawn /\ spawned >= 2 /\ MaxSpawn \in Nat
         /\ last_pid \in Nat /\ NPID \in Nat /\ MaxSpawn < NPID - 1 /\ PidTypeOK
<1>1. mode = "user" /\ cpu = SHELL
  BY DEF ShellRuns
<1>2. /\ kills.exit = <<>> /\ page = AsidsIn(task_queue) \union Pending
      /\ \A l \in Level, s \in Slot :
           Orphan(l, s) \/ Kin(task_queue[l][s], AsidsIn(task_queue))
      /\ INIT \in AsidsIn(task_queue)
  BY <1>1, IdleFacts
<1>3. /\ OneEach(task_queue) /\ TypedQueue(task_queue) /\ QueueInv
      /\ OthersThreaded(task_queue) /\ Current.asid = SHELL
      /\ SHELL \in AsidsIn(task_queue)
  BY <1>1, QueueAsIs DEF Current
<1>4. /\ AsidsIn(task_queue) \subseteq 0..last_pid
      /\ shell.prio \in Level /\ shell.slot \in Slot /\ PidTypeOK
      /\ last_pid \in Pid
  BY DEF CalmInv, Numbered, IInv, ShellInv, ShellRecord, PidTypeOK
<1>5. /\ spawned \in Nat /\ spawned <= MaxSpawn /\ spawned >= 2 /\ MaxSpawn \in Nat
      /\ last_pid \in Nat /\ NPID \in Nat /\ MaxSpawn < NPID - 1
  BY <1>4, ProcessAssumption, PidAssumption
     DEF CalmInv, Numbered, IInv, RestInv, Thread, Calm, CLOCK, Pid
<1> QED BY <1>1, <1>2, <1>3, <1>4, <1>5

(* The queue and the processes are as they were.                           *)
LEMMA ShellMoves ==
  ASSUME CalmInv, IInv', mode = "user", cpu = SHELL,
         kills.exit = <<>>, kills.shell = <<>>,
         \A l \in Level, s \in Slot : Kin(task_queue[l][s], AsidsIn(task_queue)),
         UNCHANGED <<schedVars, cpu, mode, kills>>, Numbered', Creating',
         page' = AsidsIn(task_queue) \union Pending'
  PROVE  CalmInv'
<1>1. task_queue' = task_queue
  BY DEF schedVars
<1>2. OneEach(task_queue') /\ Identified'
  BY <1>1 DEF CalmInv, Identified, schedVars, Current, OthersThreaded, CurrentIs
<1>3. page' = AsidsIn(task_queue') \union Pending'
  BY <1>1
<1> QED BY <1>1, <1>2, <1>3, IdleInv

(* alloc_pidmap finds the next identifier, the one of the new thread.      *)
LEMMA CmdCreateCalm ==
  ASSUME Calm, CountInv, CalmInv, IInv', NEW prio, CmdCreate(prio)
  PROVE  CalmInv'
<1>1. /\ ShellRuns /\ kills.shell = <<>> /\ shell.pc = "prompt" /\ spawned < MaxSpawn
      /\ spawned' = spawned + 1
      /\ shell'.pc = "commit" /\ shell'.pid = AllocOffset /\ shell'.thread = spawned + 1
      /\ UNCHANGED <<pidVars, schedVars, kill_state, cpu, mode, kills>>
  BY DEF CmdCreate, AtPrompt, ShellBusy
<1>2. last_pid = spawned
  BY <1>1 DEF CalmInv, Numbered
<1>3. AllocOffset = spawned + 1
  <2>1. NoHiddenExhaustion /\ page \subseteq 0..last_pid
    BY <1>1, <1>2 DEF CountInv, CalmInv, Numbered
  <2> QED BY <1>1, <1>2, <2>1, ShellFacts, AllocCalm
<1>4. \A l \in Level, s \in Slot : Kin(task_queue[l][s], AsidsIn(task_queue))
  BY <1>1, ShellFacts DEF Orphan
<1>5. /\ AsidsIn(task_queue) \subseteq 0..last_pid /\ page \subseteq 0..last_pid
      /\ spawned \in Nat /\ spawned >= 2
  BY <1>1, <1>2, ShellFacts DEF CalmInv, Numbered
<1>6. UNCHANGED <<task_queue, last_pid, page>>
  BY <1>1 DEF pidVars, schedVars
<1>7. Numbered'
  BY <1>1, <1>2, <1>5, <1>6 DEF Numbered, CLOCK
<1>8. spawned + 1 \notin AsidsIn(task_queue) /\ spawned + 1 \in CLOCK+1..spawned+1
  BY <1>2, <1>5 DEF CLOCK
<1>9. Creating'
  BY <1>1, <1>3, <1>6, <1>8 DEF Creating
<1>10. page' = AsidsIn(task_queue) \union Pending'
  <2>1. Pending = {} /\ Pending' = {}
    BY <1>1 DEF Pending
  <2> QED BY <1>1, <1>6, <2>1, ShellFacts
<1> QED BY <1>1, <1>4, <1>7, <1>9, <1>10, ShellFacts, ShellMoves

(* While alloc_pidmap is at work: its identifier is the next one, and free. *)
LEMMA AllocFacts ==
  ASSUME Calm, CalmInv, ShellRuns, kills.shell = <<>>,
         shell.pc \in {"commit", "set", "fetch", "count", "last"}
  PROVE  /\ last_pid = spawned - 1 /\ shell.pid = spawned /\ shell.pid = shell.thread
         /\ shell.pid \in CLOCK+1..spawned /\ shell.pid \notin AsidsIn(task_queue)
         /\ AsidsIn(task_queue) \subseteq 0..spawned-1
         /\ spawned \in Pid /\ spawned \in Nat /\ spawned >= 2 /\ spawned # NPID
         /\ shell \in ShellRecord
         /\ \A l \in Level, s \in Slot : Kin(task_queue[l][s], AsidsIn(task_queue))
<1>1. /\ last_pid = spawned - 1 /\ shell.pid = spawned /\ shell.pid = shell.thread
      /\ shell.pid \in CLOCK+1..spawned /\ shell.pid \notin AsidsIn(task_queue)
      /\ shell \in ShellRecord
  BY DEF CalmInv, Numbered, Creating, IInv, ShellInv
<1>2. /\ AsidsIn(task_queue) \subseteq 0..last_pid
      /\ spawned \in Nat /\ spawned >= 2 /\ spawned <= MaxSpawn /\ MaxSpawn < NPID - 1
      /\ NPID \in Nat /\ MaxSpawn \in Nat
  BY ShellFacts
<1>3. \A l \in Level, s \in Slot : Kin(task_queue[l][s], AsidsIn(task_queue))
  BY ShellFacts DEF Orphan
<1>4. spawned \in Pid /\ spawned # NPID
  BY <1>2 DEF Pid
<1> QED BY <1>1, <1>2, <1>3, <1>4

(* alloc_pidmap loads the word of the identifier,                          *)
LEMMA ShellLoadsCalm ==
  ASSUME Calm, CalmInv, IInv', ShellLoads
  PROVE  CalmInv'
<1>1. /\ ShellRuns /\ kills.shell = <<>> /\ shell.pc = "commit"
      /\ UNCHANGED <<schedVars, kill_state, cpu, mode, kills, spawned>>
  BY DEF ShellLoads, ShellAt
<1>2. shell.pid # NPID
  BY <1>1, AllocFacts
<1>3. shell' = [shell EXCEPT !.pc = "set"] /\ UNCHANGED <<page, last_pid>>
  BY <1>2 DEF ShellLoads, LoadWord
<1>4. shell'.pc = "set" /\ shell'.pid = shell.pid /\ shell'.thread = shell.thread
  BY <1>1, <1>3, AllocFacts DEF ShellRecord
<1>5. Numbered'
  BY <1>1, <1>3, <1>4 DEF CalmInv, Numbered, schedVars
<1>6. Creating'
  BY <1>1, <1>4, AllocFacts DEF Creating, schedVars
<1>7. page' = AsidsIn(task_queue) \union Pending'
  <2>1. Pending = {} /\ Pending' = {}
    BY <1>1, <1>4 DEF Pending
  <2> QED BY <1>1, <1>3, <2>1, ShellFacts
<1> QED BY <1>1, <1>5, <1>6, <1>7, AllocFacts, ShellFacts, ShellMoves

(* and stores it with the bit set.                                         *)
LEMMA ShellSetsCalm ==
  ASSUME Calm, CountInv, CalmInv, IInv', ShellSets
  PROVE  CalmInv'
<1>1. /\ ShellRuns /\ kills.shell = <<>> /\ shell.pc = "set"
      /\ UNCHANGED <<schedVars, kill_state, cpu, mode, kills, spawned>>
      /\ page' = (page \ Word(shell.pid)) \union (old \union {shell.pid})
      /\ last_pid' = last_pid
  BY DEF ShellSets, ShellAt, StoreWord
<1>2. old = page \intersect Word(shell.pid) /\ page \subseteq 0..spawned-1
  BY <1>1 DEF CountInv, Held, CalmInv, Numbered, ShellRuns
<1>3. page' = page \union {spawned}
  BY <1>1, <1>2, AllocFacts
<1>4. shell.pid \notin old
  BY <1>1, <1>2, AllocFacts
<1>5. shell' = [shell EXCEPT !.pc = "fetch"]
  BY <1>4 DEF ShellSets
<1>6. shell'.pc = "fetch" /\ shell'.pid = shell.pid /\ shell'.thread = shell.thread
  BY <1>1, <1>5, AllocFacts DEF ShellRecord
<1>7. Numbered'
  <2>1. /\ last_pid' = spawned - 1 /\ spawned >= CLOCK /\ AsidsIn(task_queue) \subseteq 0..spawned-1
        /\ spawned \in 0..spawned /\ 0..spawned-1 \subseteq 0..spawned
    BY <1>1, AllocFacts DEF CLOCK
  <2>2. page' \subseteq 0..spawned
    BY <1>2, <1>3, <2>1
  <2>3. task_queue' = task_queue /\ spawned' = spawned
    BY <1>1 DEF schedVars
  <2> QED BY <1>6, <2>1, <2>2, <2>3 DEF Numbered
<1>8. Creating'
  BY <1>1, <1>6, AllocFacts DEF Creating, schedVars
<1>9. page' = AsidsIn(task_queue) \union Pending'
  <2>1. Pending = {} /\ Pending' = {spawned}
    BY <1>1, <1>6, AllocFacts DEF Pending
  <2> QED BY <1>1, <1>3, <2>1, ShellFacts
<1> QED BY <1>1, <1>7, <1>8, <1>9, AllocFacts, ShellFacts, ShellMoves

(* It counts the identifier and remembers it.                              *)
LEMMA ShellCountsCalm ==
  ASSUME Calm, CalmInv, IInv', ShellCounts
  PROVE  CalmInv'
<1>1. /\ ShellRuns /\ kills.shell = <<>>
      /\ UNCHANGED <<schedVars, kill_state, cpu, mode, kills, spawned>>
      /\ shell.pc \in {"fetch", "count", "last"} /\ page' = page
      /\ \/ /\ shell.pc # "last" /\ last_pid' = last_pid
            /\ \E pc \in {"count", "last"} : shell' = [shell EXCEPT !.pc = pc]
         \/ /\ shell.pc = "last" /\ last_pid' = shell.pid
            /\ shell' = [shell EXCEPT !.pc = "search"]
  BY DEF ShellCounts, ShellAt, LoadCount, StoreCount, StoreLast
<1>2. /\ shell'.pid = shell.pid /\ shell'.thread = shell.thread
      /\ \/ shell'.pc \in {"count", "last"} /\ last_pid' = spawned - 1
         \/ shell'.pc = "search" /\ last_pid' = spawned
  BY <1>1, AllocFacts DEF ShellRecord
<1>3. Numbered'
  <2>1. AsidsIn(task_queue) \subseteq 0..spawned-1 /\ AsidsIn(task_queue) \subseteq 0..spawned
    BY <1>1, AllocFacts
  <2>2. page \subseteq 0..spawned /\ spawned >= CLOCK
    BY <1>1 DEF CalmInv, Numbered
  <2> QED BY <1>1, <1>2, <2>1, <2>2 DEF Numbered, schedVars
<1>4. Creating'
  BY <1>1, <1>2, AllocFacts DEF Creating, schedVars
<1>5. page' = AsidsIn(task_queue) \union Pending'
  <2>1. Pending' = Pending
    BY <1>1, <1>2 DEF Pending
  <2> QED BY <1>1, <2>1, ShellFacts
<1> QED BY <1>1, <1>3, <1>4, <1>5, AllocFacts, ShellFacts, ShellMoves

(* pc_create finds an empty PCB, or spins for ever.                        *)
LEMMA CreateSearchCalm ==
  ASSUME Calm, CalmInv, IInv', CreateSearch
  PROVE  CalmInv'
<1> DEFINE l    == shell.prio
           free == FreeSlots(task_queue, l)
           pos  == Advance(curr_proc[l], free)
<1>1. /\ ShellRuns /\ kills.shell = <<>> /\ shell.pc = "search"
      /\ shell' = IF free = {} THEN [shell EXCEPT !.pc = "stuck"]
                  ELSE [shell EXCEPT !.pc = "fill", !.slot = pos]
      /\ UNCHANGED <<pidVars, schedVars, kill_state, cpu, mode, kills, spawned>>
  BY DEF CreateSearch, ShellAt
<1>2. shell \in ShellRecord
  BY DEF CalmInv, IInv, ShellInv
<1>3. free # {} => task_queue[l][pos].asid = NoPid
  <2>1. TypedQueue(task_queue) /\ l \in Level /\ curr_proc[l] \in Slot \union {-1}
    BY <1>1, ShellFacts DEF QueueInv
  <2> QED BY <2>1, FreeIsEmpty
<1> HIDE DEF pos
<1>4. /\ shell'.pc \in {"stuck", "fill"} /\ shell'.pid = shell.pid
      /\ shell'.thread = shell.thread /\ shell'.prio = l
      /\ shell'.pc = "fill" => free # {} /\ shell'.slot = pos
  <2> HIDE DEF free
  <2> QED BY <1>1, <1>2 DEF ShellRecord
<1>5. \A m \in Level, s \in Slot : Kin(task_queue[m][s], AsidsIn(task_queue))
  BY <1>1, ShellFacts DEF Orphan
<1>6. UNCHANGED <<task_queue, last_pid, page, spawned>>
  BY <1>1 DEF pidVars, schedVars
<1>7. Numbered'
  BY <1>1, <1>4, <1>6 DEF CalmInv, Numbered
<1>8. Creating'
  BY <1>1, <1>3, <1>4, <1>6 DEF CalmInv, Creating
<1>9. page' = AsidsIn(task_queue) \union Pending'
  <2>1. Pending' = Pending
    BY <1>1, <1>4 DEF Pending
  <2> QED BY <1>1, <1>6, <2>1, ShellFacts
<1> QED BY <1>1, <1>5, <1>7, <1>8, <1>9, ShellFacts, ShellMoves

(* The other kill mode, between two kills.                                 *)
LEMMA KillModeCalm ==
  ASSUME Calm, CalmInv, IInv', alt_kill_mode
  PROVE  CalmInv'
<1>1. /\ ShellRuns /\ kills.shell = <<>> /\ shell.pc = "prompt"
      /\ UNCHANGED <<pidVars, schedVars, cpu, mode, kills, shell, spawned>>
  BY DEF alt_kill_mode, AtPrompt, ShellBusy
<1>2. \A l \in Level, s \in Slot : Kin(task_queue[l][s], AsidsIn(task_queue))
  BY <1>1, ShellFacts DEF Orphan
<1>3. UNCHANGED <<task_queue, last_pid, page, spawned, Pending>>
  BY <1>1 DEF pidVars, schedVars, Pending
<1>4. Numbered'
  BY <1>1, <1>3 DEF CalmInv, Numbered
<1>5. Creating'
  BY <1>1, <1>3 DEF CalmInv, Creating
<1>6. page' = AsidsIn(task_queue) \union Pending'
  BY <1>1, <1>3, ShellFacts
<1> QED BY <1>1, <1>2, <1>4, <1>5, <1>6, ShellFacts, ShellMoves

(* One write of pc_create into its PCB, which is not the Shell's own.      *)
LEMMA CreateWrites ==
  ASSUME Calm, CalmInv, ShellRuns, kills.shell = <<>>,
         task_queue[shell.prio][shell.slot].asid # SHELL, NEW p,
         task_queue' = [task_queue EXCEPT ![shell.prio][shell.slot] = p],
         UNCHANGED <<curr_proc, curr_queue, cpu, mode>>,
         p.asid # NoPid => p.ctx = p.asid,
         INIT \in AsidsIn(task_queue')
  PROVE  /\ Identified'
         /\ task_queue'[shell.prio][shell.slot] = p
         /\ \A l \in Level, s \in Slot :
              ~(l = shell.prio /\ s = shell.slot) => task_queue'[l][s] = task_queue[l][s]
<1>1. /\ QueueInv /\ TypedQueue(task_queue) /\ shell.prio \in Level /\ shell.slot \in Slot
      /\ OthersThreaded(task_queue) /\ Current.asid = SHELL /\ mode = "user" /\ cpu = SHELL
  BY ShellFacts
<1>2. task_queue' = [m \in Level |-> [t \in Slot |->
        IF m = shell.prio /\ t = shell.slot THEN p ELSE task_queue[m][t]]]
  BY <1>1 DEF TypedQueue
<1>3. /\ task_queue'[shell.prio][shell.slot] = p
      /\ \A l \in Level, s \in Slot :
           ~(l = shell.prio /\ s = shell.slot) => task_queue'[l][s] = task_queue[l][s]
  BY <1>1, <1>2
<1>4. ~CurrentIs(shell.prio, shell.slot) /\ curr_queue \in Level /\ curr_proc[curr_queue] \in Slot
  BY <1>1 DEF CurrentIs, Current, QueueInv
<1>5. Current' = Current
  BY <1>3, <1>4 DEF Current, CurrentIs
<1>6. OthersThreaded(task_queue)'
  <2> SUFFICES ASSUME NEW l \in Level, NEW s \in Slot,
                      task_queue'[l][s].asid # NoPid, ~CurrentIs(l, s)'
               PROVE  task_queue'[l][s].ctx = task_queue'[l][s].asid
    BY DEF OthersThreaded
  <2>1. ~CurrentIs(l, s)
    BY DEF CurrentIs
  <2>2. CASE l = shell.prio /\ s = shell.slot
    BY <1>3, <2>2
  <2>3. CASE ~(l = shell.prio /\ s = shell.slot)
    BY <1>1, <1>3, <2>1, <2>3 DEF OthersThreaded
  <2> QED BY <2>2, <2>3
<1> QED BY <1>1, <1>3, <1>5, <1>6 DEF Identified

(* pc_create fills the PCB it found; it is still nobody's.                 *)
LEMMA FillCalm ==
  ASSUME Calm, CalmInv, IInv', ShellRuns, kills.shell = <<>>,
         shell.pc \in {"fill", "stack", "static"},
         NEW p, p.asid = NoPid,
         task_queue' = [task_queue EXCEPT ![shell.prio][shell.slot] = p],
         NEW pc \in {"stack", "static", "publish"}, shell' = [shell EXCEPT !.pc = pc],
         p.ctx = IF pc = "stack" THEN Begun ELSE shell.thread,
         UNCHANGED <<pidVars, curr_proc, curr_queue, kill_state, cpu, mode, kills, spawned>>
  PROVE  CalmInv'
<1> DEFINE l == shell.prio
           s == shell.slot
<1>2. /\ TypedQueue(task_queue) /\ l \in Level /\ s \in Slot /\ mode = "user"
      /\ shell \in ShellRecord /\ OneEach(task_queue)
      /\ INIT \in AsidsIn(task_queue) /\ kills.exit = <<>> /\ cpu = SHELL
  BY ShellFacts DEF CalmInv, IInv, ShellInv
<1>3. task_queue[l][s].asid = NoPid
  BY <1>2 DEF CalmInv, Creating
<1>6. /\ task_queue'[l][s] = p
      /\ \A m \in Level, t \in Slot :
           ~(m = l /\ t = s) => task_queue'[m][t] = task_queue[m][t]
  BY <1>2 DEF TypedQueue
<1>7. \A m \in Level, t \in Slot : task_queue'[m][t].asid = task_queue[m][t].asid
  BY <1>3, <1>6
<1>8. AsidsIn(task_queue') = AsidsIn(task_queue) /\ OneEach(task_queue')
  <2>1. PICK q, r : q = task_queue /\ r = task_queue'
    OBVIOUS
  <2>2. \A m \in Level, t \in Slot : r[m][t].asid = q[m][t].asid
    BY <1>7, <2>1
  <2>3. AsidsIn(r) = AsidsIn(q) /\ (OneEach(q) => OneEach(r))
    BY <2>2, SamePlaces
  <2> QED BY <1>2, <2>1, <2>3
<1>9. Identified'
  <2>1. task_queue[l][s].asid # SHELL /\ INIT \in AsidsIn(task_queue')
    BY <1>2, <1>3, <1>8 DEF NoPid, SHELL
  <2> QED BY <2>1, CreateWrites
<1>10. /\ shell'.pc = pc /\ shell'.pid = shell.pid /\ shell'.thread = shell.thread
       /\ shell'.prio = l /\ shell'.slot = s
  BY <1>2 DEF ShellRecord
<1>11. UNCHANGED <<last_pid, page, spawned>>
  BY DEF pidVars
<1>12. Numbered'
  BY <1>8, <1>10, <1>11 DEF CalmInv, Numbered
<1>13. Creating'
  <2>1. /\ shell.pid = shell.thread /\ shell.pid \in CLOCK+1..spawned
        /\ shell.pid \notin AsidsIn(task_queue)
    BY DEF CalmInv, Creating
  <2> QED BY <1>6, <1>8, <1>10, <1>11, <2>1 DEF Creating
<1>14. page' = AsidsIn(task_queue') \union Pending'
  <2>1. Pending' = Pending
    BY <1>10 DEF Pending
  <2> QED BY <1>8, <1>11, <2>1, ShellFacts
<1>15. \A m \in Level, t \in Slot : Kin(task_queue'[m][t], AsidsIn(task_queue'))
  <2>1. \A m \in Level, t \in Slot : Kin(task_queue[m][t], AsidsIn(task_queue))
    BY ShellFacts DEF Orphan
  <2>2. Kin(p, AsidsIn(task_queue))
    BY DEF Kin, NoPid, INIT
  <2> QED BY <1>6, <1>8, <2>1, <2>2
<1>16. kills'.exit = <<>> /\ kills'.shell = <<>> /\ mode' = "user" /\ cpu' = SHELL
  BY <1>2
<1> QED BY <1>8, <1>9, <1>12, <1>13, <1>14, <1>15, <1>16, IdleInv

LEMMA CreateFillCalm ==
  ASSUME Calm, CalmInv, IInv', CreateFill \/ CreateStack \/ CreateStatic
  PROVE  CalmInv'
<1> DEFINE l   == shell.prio
           s   == shell.slot
           pcb == task_queue[l][s]
<1>1. /\ ShellRuns /\ kills.shell = <<>> /\ shell.pc \in {"fill", "stack", "static"}
      /\ UNCHANGED <<pidVars, curr_proc, curr_queue, kill_state, cpu, mode,
                     kills, spawned>>
  BY DEF CreateFill, CreateStack, CreateStatic, ShellAt
<1>2. /\ TypedQueue(task_queue) /\ l \in Level /\ s \in Slot /\ pcb \in PCB
      /\ pcb.asid = NoPid
      /\ shell.pc = "stack" => pcb.ctx = Begun
      /\ shell.pc = "static" => pcb.ctx = shell.thread
  BY <1>1, ShellFacts DEF TypedQueue, CalmInv, Creating
<1>3. CASE CreateFill
  <2> DEFINE p == [pcb EXCEPT !.ctx = Begun]
  <2>1. p.asid = NoPid /\ p.ctx = Begun
    BY <1>2 DEF PCB
  <2>2. task_queue' = [task_queue EXCEPT ![l][s] = p] /\ shell' = [shell EXCEPT !.pc = "stack"]
    BY <1>2, <1>3 DEF CreateFill, TypedQueue
  <2> HIDE DEF p
  <2> QED BY <1>1, <2>1, <2>2, FillCalm
<1>4. CASE CreateStack
  <2> DEFINE p == [pcb EXCEPT !.ctx = shell.thread]
  <2>1. p.asid = NoPid /\ p.ctx = shell.thread
    BY <1>2 DEF PCB
  <2>2. pcb.ctx = Begun
    BY <1>2, <1>4 DEF CreateStack, ShellAt
  <2>3. task_queue' = [task_queue EXCEPT ![l][s] = p] /\ shell' = [shell EXCEPT !.pc = "static"]
    BY <1>2, <1>4, <2>2 DEF CreateStack, TypedQueue
  <2> HIDE DEF p
  <2> QED BY <1>1, <2>1, <2>3, FillCalm
<1>5. CASE CreateStatic
  <2> DEFINE p == [pcb EXCEPT !.prio = l]
  <2>1. p.asid = NoPid /\ p.ctx = shell.thread
    BY <1>2, <1>5 DEF PCB, CreateStatic, ShellAt
  <2>2. task_queue' = [task_queue EXCEPT ![l][s] = p] /\ shell' = [shell EXCEPT !.pc = "publish"]
    BY <1>2, <1>5 DEF CreateStatic, TypedQueue
  <2> HIDE DEF p
  <2> QED BY <1>1, <2>1, <2>2, FillCalm
<1> QED BY <1>3, <1>4, <1>5

(* The PCB gets its identifier: a process is born.                         *)
LEMMA CreatePublishCalm ==
  ASSUME Calm, CalmInv, IInv', CreatePublish
  PROVE  CalmInv' /\ Born(shell.pid) /\ shell.pid \in Thread
<1> DEFINE l == shell.prio
           s == shell.slot
           p == [task_queue[l][s] EXCEPT !.asid = shell.pid]
<1>1. /\ ShellRuns /\ kills.shell = <<>> /\ shell.pc = "publish"
      /\ task_queue' = [task_queue EXCEPT ![l][s].asid = shell.pid]
      /\ shell' = [shell EXCEPT !.pc = "parent"]
      /\ UNCHANGED <<pidVars, curr_proc, curr_queue, kill_state, cpu, mode,
                     kills, spawned>>
  BY DEF CreatePublish, ShellAt
<1>2. /\ TypedQueue(task_queue) /\ l \in Level /\ s \in Slot /\ mode = "user"
      /\ task_queue[l][s] \in PCB /\ shell \in ShellRecord /\ OneEach(task_queue)
      /\ INIT \in AsidsIn(task_queue) /\ kills.exit = <<>> /\ cpu = SHELL
      /\ spawned \in Nat /\ spawned <= MaxSpawn /\ MaxSpawn \in Nat
      /\ NPID \in Nat /\ MaxSpawn < NPID - 1
  BY <1>1, ShellFacts DEF TypedQueue, CalmInv, IInv, ShellInv
<1>3. /\ task_queue[l][s].asid = NoPid /\ task_queue[l][s].ctx = shell.thread
      /\ shell.pid = shell.thread /\ shell.pid \in CLOCK+1..spawned
      /\ shell.pid \notin AsidsIn(task_queue)
  BY <1>1, <1>2 DEF CalmInv, Creating
<1>4. /\ p.asid = shell.pid /\ p.ctx = shell.pid
      /\ shell.pid \in Pid /\ shell.pid \notin {INIT, SHELL, NoPid}
  <2>1. shell.pid \in Nat /\ shell.pid > 2 /\ shell.pid < NPID
    BY <1>2, <1>3 DEF CLOCK
  <2> QED BY <1>2, <1>3, <2>1 DEF PCB, Pid, INIT, SHELL, NoPid
<1>5. task_queue' = [task_queue EXCEPT ![l][s] = p]
  BY <1>1, <1>2 DEF TypedQueue
<1> HIDE DEF p
<1>6. /\ task_queue'[l][s] = p
      /\ \A m \in Level, t \in Slot :
           ~(m = l /\ t = s) => task_queue'[m][t] = task_queue[m][t]
  BY <1>2, <1>5 DEF TypedQueue
<1>7. \A m \in Level, t \in Slot :
        task_queue'[m][t].asid = IF m = l /\ t = s THEN p.asid ELSE task_queue[m][t].asid
  BY <1>6
<1>8. /\ AsidsIn(task_queue') = AsidsIn(task_queue) \union {shell.pid}
      /\ OneEach(task_queue')
  <2>1. OneEach(task_queue') /\ AsidsIn(task_queue') = AsidsIn(task_queue) \union {p.asid}
    BY <1>2, <1>3, <1>4, <1>7, NewProcess
  <2> QED BY <1>4, <2>1
<1>9. Identified'
  <2>1. task_queue[l][s].asid # SHELL /\ INIT \in AsidsIn(task_queue')
    BY <1>2, <1>3, <1>8 DEF NoPid, SHELL
  <2> QED BY <1>1, <1>4, <1>5, <2>1, CreateWrites
<1>10. /\ shell'.pc = "parent" /\ shell'.prio = l /\ shell'.slot = s
  BY <1>1, <1>2 DEF ShellRecord
<1>11. UNCHANGED <<last_pid, page, spawned>>
  BY <1>1 DEF pidVars
<1>12. page' = AsidsIn(task_queue') \union Pending'
  <2>1. Pending = {shell.pid} /\ Pending' = {}
    BY <1>1, <1>10 DEF Pending
  <2> QED BY <1>1, <1>8, <1>11, <2>1, ShellFacts
<1>13. Numbered'
  <2>1. last_pid = spawned /\ spawned >= CLOCK /\ page \subseteq 0..spawned
    BY <1>1 DEF CalmInv, Numbered
  <2>2. AsidsIn(task_queue') \subseteq page'
    BY <1>12
  <2> QED BY <1>10, <1>11, <2>1, <2>2 DEF Numbered
<1>14. Creating'
  BY <1>1, <1>4, <1>6, <1>10, <1>11 DEF Creating
<1>15. \A m \in Level, t \in Slot :
         Orphan(m, t)' \/ Kin(task_queue'[m][t], AsidsIn(task_queue'))
  <2>1. \A m \in Level, t \in Slot : Kin(task_queue[m][t], AsidsIn(task_queue))
    BY <1>1, ShellFacts DEF Orphan
  <2>2. \A pcb : Kin(pcb, AsidsIn(task_queue)) => Kin(pcb, AsidsIn(task_queue'))
    BY <1>8 DEF Kin
  <2> QED BY <1>6, <1>10, <2>1, <2>2 DEF Orphan
<1>16. kills'.exit = <<>> /\ kills'.shell = <<>> /\ mode' = "user" /\ cpu' = SHELL
  BY <1>1, <1>2
<1>17. CalmInv'
  BY <1>8, <1>9, <1>12, <1>13, <1>14, <1>15, <1>16, IdleInv
<1>18. Born(shell.pid) /\ shell.pid \in Thread
  BY <1>2, <1>3, <1>4, <1>8 DEF Born, Thread, CLOCK
<1> QED BY <1>17, <1>18

(* And its parent, the Shell.                                              *)
LEMMA CreateParentCalm ==
  ASSUME Calm, CalmInv, IInv', CreateParent
  PROVE  CalmInv'
<1> DEFINE l == shell.prio
           s == shell.slot
           p == [task_queue[l][s] EXCEPT !.ppid = Current.asid]
<1>1. /\ ShellRuns /\ kills.shell = <<>> /\ shell.pc = "parent"
      /\ task_queue' = [task_queue EXCEPT ![l][s].ppid = Current.asid]
      /\ shell'.pc \in {"preempt", "prompt"}
      /\ UNCHANGED <<pidVars, curr_proc, curr_queue, kill_state, cpu, mode,
                     kills, spawned>>
  BY DEF CreateParent, ShellAt, Prompt
<1>2. /\ TypedQueue(task_queue) /\ l \in Level /\ s \in Slot /\ mode = "user"
      /\ task_queue[l][s] \in PCB /\ OneEach(task_queue)
      /\ INIT \in AsidsIn(task_queue) /\ SHELL \in AsidsIn(task_queue)
      /\ kills.exit = <<>> /\ cpu = SHELL /\ Current.asid = SHELL
  BY <1>1, ShellFacts DEF TypedQueue
<1>3. task_queue[l][s].asid \notin {INIT, SHELL, NoPid}
  BY <1>1, <1>2 DEF CalmInv, Creating
<1>4. p.asid = task_queue[l][s].asid /\ p.ppid = SHELL /\ p.ctx = task_queue[l][s].ctx
  BY <1>2 DEF PCB
<1>5. task_queue' = [task_queue EXCEPT ![l][s] = p]
  BY <1>1, <1>2 DEF TypedQueue
<1> HIDE DEF p
<1>6. /\ task_queue'[l][s] = p
      /\ \A m \in Level, t \in Slot :
           ~(m = l /\ t = s) => task_queue'[m][t] = task_queue[m][t]
  BY <1>2, <1>5 DEF TypedQueue
<1>7. \A m \in Level, t \in Slot : task_queue'[m][t].asid = task_queue[m][t].asid
  BY <1>4, <1>6
<1>8. AsidsIn(task_queue') = AsidsIn(task_queue) /\ OneEach(task_queue')
  BY <1>2, <1>7, SamePlaces
<1>9. Identified'
  <2>1. p.ctx = p.asid
    <3>1. ~CurrentIs(l, s) /\ OthersThreaded(task_queue)
      BY <1>1, <1>2, <1>3, ShellFacts DEF CurrentIs, Current
    <3> QED BY <1>2, <1>3, <1>4, <3>1 DEF OthersThreaded
  <2>2. INIT \in AsidsIn(task_queue') /\ task_queue[l][s].asid # SHELL
    BY <1>2, <1>3, <1>8
  <2> QED BY <1>1, <1>5, <2>1, <2>2, CreateWrites
<1>10. UNCHANGED <<last_pid, page, spawned>>
  BY <1>1 DEF pidVars
<1>11. Numbered'
  BY <1>1, <1>8, <1>10 DEF CalmInv, Numbered
<1>12. Creating'
  BY <1>1 DEF Creating
<1>13. page' = AsidsIn(task_queue') \union Pending'
  <2>1. Pending = {} /\ Pending' = {}
    BY <1>1 DEF Pending
  <2> QED BY <1>1, <1>8, <1>10, <2>1, ShellFacts
<1>14. \A m \in Level, t \in Slot : Kin(task_queue'[m][t], AsidsIn(task_queue'))
  <2>1. \A m \in Level, t \in Slot :
          ~(m = l /\ t = s) => Kin(task_queue[m][t], AsidsIn(task_queue))
    BY <1>1, ShellFacts DEF Orphan
  <2>2. Kin(p, AsidsIn(task_queue'))
    <3>1. p.asid \in Pid /\ p.asid \in Nat /\ p.asid > 1
      BY <1>2, <1>3, <1>4, Identifiers DEF INIT, SHELL
    <3> QED BY <1>2, <1>3, <1>4, <1>8, <3>1 DEF Kin, SHELL
  <2> QED BY <1>6, <1>8, <2>1, <2>2
<1>15. kills'.exit = <<>> /\ kills'.shell = <<>> /\ mode' = "user" /\ cpu' = SHELL
  BY <1>1, <1>2
<1> QED BY <1>8, <1>9, <1>11, <1>12, <1>13, <1>14, <1>15, IdleInv

-----------------------------------------------------------------------------
(***************************************************************************)
(* Processes are killed.  A step of pc_kill removes processes and gives    *)
(* children to init, and does nothing else to the queue.                   *)
(***************************************************************************)
Shrinks(q, r) == \A l \in Level, s \in Slot :
  /\ r[l][s].asid \in {q[l][s].asid, NoPid}
  /\ r[l][s].ctx = q[l][s].ctx
  /\ r[l][s].ppid \in {q[l][s].ppid, INIT}

Callers(who) == {g \in Good(who) : g.step = "return"}

Heirs(who) == (AsidsIn(task_queue) \ Dying) \union Killed(who)

(* What is known where pc_kill takes a step.                               *)
LEMMA KillFacts ==
  ASSUME CalmInv, NEW who \in {"shell", "exit"}, MayKill(who)
  PROVE  /\ kills[who] # <<>> /\ kills[who] \in Seq(Good(who)) /\ Linked(kills[who], Calls)
         /\ kills[who] \in Seq(Frame)
         /\ Head(kills[who]) = kills[who][1] /\ kills[who][1] \in Good(who)
         /\ Tail(kills[who]) \in Seq(Callers(who))
         /\ mode # "stopped"
         /\ who = "shell" => /\ mode = "user" /\ cpu = SHELL /\ shell.pc = "prompt"
                             /\ kills.exit = <<>>
         /\ who = "exit" => mode \in {"exit", "fault"} /\ cpu # INIT
         /\ Sound /\ who = "exit" => kills.shell = <<>> /\ shell.pc \in {"prompt", "stuck"}
         /\ Sound => /\ Nested(who) /\ kills[who][1] \in Sane(who)
                     /\ page = (AsidsIn(task_queue) \ (Clearing(who) \union Dying)) \union Pending
                     /\ \A l \in Level, s \in Slot : Kin(task_queue[l][s], Heirs(who))
         /\ TypedQueue(task_queue) /\ OneEach(task_queue) /\ OthersThreaded(task_queue)
         /\ QueueInv /\ Current.asid = cpu /\ INIT \in AsidsIn(task_queue) /\ cpu \in Nat
         /\ INIT \notin Dying
<1>1. kills[who] # <<>> /\ (IF who = "shell" THEN ShellRuns ELSE mode \in {"exit", "fault"})
  BY DEF MayKill
<1>2. mode # "stopped"
  BY <1>1 DEF ShellRuns
<1>3. /\ TypedQueue(task_queue) /\ OneEach(task_queue) /\ OthersThreaded(task_queue)
      /\ QueueInv /\ Current.asid = cpu /\ INIT \in AsidsIn(task_queue) /\ cpu \in Nat
  BY <1>2, QueueAsIs DEF Current, CalmInv, Identified
<1>4. who = "shell" => /\ mode = "user" /\ cpu = SHELL /\ shell.pc = "prompt"
                       /\ kills.exit = <<>>
  BY <1>1 DEF ShellRuns, CalmInv, Turns
<1>5. who = "exit" => mode \in {"exit", "fault"} /\ cpu # INIT
  BY <1>1, <1>3 DEF CalmInv, Turns, INIT, CLOCK
<1>6. Sound /\ who = "exit" => kills.shell = <<>> /\ shell.pc \in {"prompt", "stuck"}
  BY <1>5 DEF CalmInv, Turns, ShellBusy
<1>7. kills[who] \in Seq(Good(who)) /\ Linked(kills[who], Calls)
  BY <1>4 DEF CalmInv, Frames, FramesOK
<1>8. Head(kills[who]) = kills[who][1] /\ kills[who][1] \in Good(who)
  BY <1>1, <1>7, Parts
<1>9. kills[who] \in Seq(Frame)
  BY <1>7 DEF Good
<1>10. Tail(kills[who]) \in Seq(Callers(who))
  <2>1. PICK fs : fs = kills[who]
    OBVIOUS
  <2>2. /\ Tail(fs) \in Seq(Good(who)) /\ Len(Tail(fs)) = Len(fs) - 1 /\ Len(fs) \in Nat
        /\ \A i \in 1..Len(fs)-1 : Tail(fs)[i] = fs[i+1]
    BY <1>1, <1>7, <2>1, Parts
  <2>3. ASSUME NEW i \in 1..Len(fs)-1
        PROVE  Tail(fs)[i] \in Callers(who)
    <3>1. <<fs[i], fs[i+1]>> \in Calls /\ Tail(fs)[i] = fs[i+1]
      BY <1>7, <2>1, <2>2, <2>3 DEF Linked
    <3>2. fs[i+1].step = "return"
      BY <3>1 DEF Calls
    <3>3. Tail(fs)[i] \in Good(who)
      BY <2>2
    <3> QED BY <3>1, <3>2, <3>3 DEF Callers
  <2>4. \A i \in 1..Len(Tail(fs)) : Tail(fs)[i] \in Callers(who)
    BY <2>2, <2>3
  <2>5. ASSUME NEW r \in Seq(Good(who)), \A i \in 1..Len(r) : r[i] \in Callers(who)
        PROVE  r \in Seq(Callers(who))
    BY <2>5
  <2> QED BY <2>1, <2>2, <2>4, <2>5
<1>11. ASSUME Sound
       PROVE  /\ Nested(who) /\ kills[who][1] \in Sane(who)
              /\ page = (AsidsIn(task_queue) \ (Clearing(who) \union Dying)) \union Pending
              /\ \A l \in Level, s \in Slot : Kin(task_queue[l][s], Heirs(who))
  <2>1. Nested(who)
    BY <1>11 DEF CalmInv, Frames
  <2>2. kills[who][1] \in Sane(who)
    <3>1. kills[who] \in Seq(Sane(who))
      BY <2>1 DEF Nested
    <3> QED BY <1>1, <3>1, Parts
  <2>3. \A w \in {"shell", "exit"} : w # who => Clearing(w) = {} /\ Killed(w) = {}
    BY <1>4, <1>6, <1>11, NoFrame DEF Clearing, Killed
  <2>4. page = (AsidsIn(task_queue) \ (Clearing(who) \union Dying)) \union Pending
    BY <1>11, <2>3 DEF CalmInv, Bitmap
  <2>5. Parents = Heirs(who)
    BY <2>3 DEF Parents, Heirs
  <2>6. shell.pc # "parent"
    BY <1>4, <1>6, <1>11
  <2>7. \A l \in Level, s \in Slot : Kin(task_queue[l][s], Heirs(who))
    BY <1>11, <2>5, <2>6 DEF CalmInv, Tree, Orphan
  <2> QED BY <2>1, <2>2, <2>4, <2>7
<1>12. INIT \notin Dying
  BY <1>4, <1>5 DEF Dying
<1> QED BY <1>1, <1>2, <1>3, <1>4, <1>5, <1>6, <1>7, <1>8, <1>9, <1>10, <1>11, <1>12

(* What a step of pc_kill has to keep.                                     *)
LEMMA KillCalm ==
  ASSUME CalmInv, IInv', NEW who \in {"shell", "exit"}, MayKill(who),
         \A w \in {"shell", "exit"} : w # who => kills'[w] = kills[w],
         UNCHANGED <<curr_proc, curr_queue, cpu, mode, shell, spawned, last_pid>>,
         Shrinks(task_queue, task_queue'),
         Current'.asid = Current.asid, INIT \in AsidsIn(task_queue'),
         page' \subseteq page,
         FramesOK(who)',
         Sound =>
           /\ Nested(who)'
           /\ page' = (AsidsIn(task_queue') \ (Clearing(who)' \union Dying)) \union Pending
           /\ \A l \in Level, s \in Slot : Kin(task_queue'[l][s], Heirs(who)')
  PROVE  CalmInv'
<1> USE Identifiers
<1>1. /\ who = "shell" => /\ mode = "user" /\ cpu = SHELL /\ shell.pc = "prompt"
                          /\ kills.exit = <<>>
      /\ who = "exit" => mode \in {"exit", "fault"} /\ cpu # INIT
      /\ Sound /\ who = "exit" => kills.shell = <<>> /\ shell.pc \in {"prompt", "stuck"}
      /\ OneEach(task_queue) /\ OthersThreaded(task_queue) /\ Current.asid = cpu
  BY KillFacts
<1>2. AsidsIn(task_queue') \subseteq AsidsIn(task_queue)
  BY DEF AsidsIn, Shrinks
<1>3. OneEach(task_queue')
  <2> SUFFICES ASSUME NEW l \in Level, NEW m \in Level, NEW s \in Slot, NEW t \in Slot,
                      task_queue'[l][s].asid # NoPid,
                      task_queue'[l][s].asid = task_queue'[m][t].asid
               PROVE  l = m /\ s = t
    BY DEF OneEach
  <2>1. /\ task_queue[l][s].asid = task_queue'[l][s].asid
        /\ task_queue[m][t].asid = task_queue'[m][t].asid
    BY DEF Shrinks
  <2> QED BY <1>1, <2>1 DEF OneEach
<1>4. Numbered'
  BY <1>2 DEF CalmInv, Numbered
<1>5. Identified'
  <2>1. OthersThreaded(task_queue)'
    BY <1>1 DEF OthersThreaded, CurrentIs, Shrinks
  <2> QED BY <1>1, <2>1 DEF Identified
<1>6. Creating'
  <2>1. mode' = "user" => shell'.pc = "prompt"
    BY <1>1
  <2> QED BY <1>2, <2>1 DEF CalmInv, Creating
<1>7. Turns'
  <2>1. Sound' = Sound
    BY DEF Sound
  <2>2. ShellBusy' => ShellBusy \/ who = "shell"
    BY DEF ShellBusy
  <2>3. mode' = "user" => kills'.exit = <<>> /\ (ShellBusy' => cpu' = SHELL)
    BY <1>1, <2>2 DEF CalmInv, Turns
  <2>4. Sound' /\ mode' # "user" => ~ShellBusy'
    BY <1>1, <2>1 DEF ShellBusy
  <2>5. mode' = "user" /\ kills'.shell # <<>> => shell'.pc = "prompt"
    BY <1>1
  <2> QED BY <1>1, <2>3, <2>4, <2>5 DEF CalmInv, Turns
<1>8. Sound' <=> Sound
  BY DEF Sound
<1>9. \A w \in {"shell", "exit"} : w # who /\ (Sound \/ w = "exit") => kills'[w] = <<>>
  BY <1>1
<1>10. Frames'
  <2>1. \A w \in {"shell", "exit"} : w # who /\ (Sound \/ w = "exit") => FramesOK(w)' /\ Nested(w)'
    BY <1>9, NoFrame DEF FramesOK, Nested
  <2>2. mode = "user" => Sound
    BY DEF Sound
  <2> QED BY <1>8, <2>1, <2>2 DEF Frames
<1>11. Bitmap' /\ Tree'
  <2>1. \A w \in {"shell", "exit"} : w # who /\ Sound => Clearing(w)' = {} /\ Killed(w)' = {}
    BY <1>9, NoFrame DEF Clearing, Killed
  <2>2. Dying' = Dying /\ Pending' = Pending
    BY DEF Dying, Pending
  <2>3. Bitmap'
    BY <1>8, <2>1, <2>2 DEF Bitmap
  <2>4. Sound => Parents' = Heirs(who)'
    BY <2>1 DEF Parents, Heirs
  <2>5. Tree'
    BY <1>8, <2>4 DEF Tree
  <2> QED BY <2>3, <2>5
<1> QED BY <1>3, <1>4, <1>5, <1>6, <1>7, <1>10, <1>11 DEF CalmInv

-----------------------------------------------------------------------------
(***************************************************************************)
(* The scan of pc_kill reaches every slot.                                 *)
(***************************************************************************)

(* How far a slot is from where the scan of its level began.               *)
LEMMA DistFacts ==
  ASSUME NEW pos \in Slot \union {-1}, NEW s \in Slot
  PROVE  /\ Dist(pos, s) \in 0..NSLOT-1
         /\ \A t \in Slot : Dist(pos, t) = Dist(pos, s) => t = s
         /\ (s + 1) % NSLOT \in Slot
         /\ Dist(pos, s) < NSLOT - 1 => Dist(pos, (s + 1) % NSLOT) = Dist(pos, s) + 1
<1> USE ProcessAssumption
<1>1. Dist(pos, s) = IF s > pos THEN s - pos - 1 ELSE s - pos - 1 + NSLOT
  BY DEF Dist, Slot
<1>2. \A t \in Slot : Dist(pos, t) = IF t > pos THEN t - pos - 1 ELSE t - pos - 1 + NSLOT
  BY DEF Dist, Slot
<1>3. (s + 1) % NSLOT = IF s = NSLOT - 1 THEN 0 ELSE s + 1
  BY DEF Slot
<1>4. (s + 1) % NSLOT \in Slot
  BY <1>3 DEF Slot
<1>5. Dist(pos, s) < NSLOT - 1 => Dist(pos, (s + 1) % NSLOT) = Dist(pos, s) + 1
  BY <1>1, <1>2, <1>3, <1>4 DEF Slot
<1> QED BY <1>1, <1>2, <1>4, <1>5 DEF Slot

(* g is f a slot further, in the same level or the one below.              *)
Further(f, g) ==
  /\ g \in Frame /\ Dist(curr_proc[g.level], g.slot) = NSLOT - g.left
  /\ g.proc = f.proc /\ g.sys = f.sys /\ g.step = "visit"
  /\ \A l \in Level, s \in Slot :
       Visited(g, l, s) => Visited(f, l, s) \/ (l = f.level /\ s = f.slot)

(* The frame after f's slot; it has visited that slot as well.             *)
LEMMA NextInLevel ==
  ASSUME QueueInv, NEW f \in Frame, Dist(curr_proc[f.level], f.slot) = NSLOT - f.left,
         f.left > 1,
         NEW g, g = [f EXCEPT !.slot = (f.slot + 1) % NSLOT, !.left = f.left - 1,
                              !.step = "visit"]
  PROVE  Further(f, g)
<1> USE ProcessAssumption DEF Further
<1>1. /\ f.level \in Level /\ f.slot \in Slot /\ f.left \in 1..NSLOT
      /\ curr_proc[f.level] \in Slot \union {-1}
  BY DEF Frame, QueueInv
<1>2. (f.slot + 1) % NSLOT \in Slot /\ f.left - 1 \in 1..NSLOT
  BY <1>1, DistFacts
<1>3. /\ g.proc = f.proc /\ g.sys = f.sys /\ g.step = "visit" /\ g.level = f.level
      /\ g.slot = (f.slot + 1) % NSLOT /\ g.left = f.left - 1 /\ g \in Frame
  BY <1>2 DEF Frame
<1>4. Dist(curr_proc[g.level], g.slot) = NSLOT - g.left
  BY <1>1, <1>3, DistFacts
<1>5. ASSUME NEW l \in Level, NEW s \in Slot, Visited(g, l, s)
      PROVE  Visited(f, l, s) \/ (l = f.level /\ s = f.slot)
  <2>1. CASE l > f.level
    BY <2>1 DEF Visited
  <2>2. CASE l = f.level
    <3>0. PICK c \in Slot \union {-1}, t \in Slot : c = curr_proc[l] /\ t = f.slot
      BY <1>1, <2>2
    <3>1. Dist(curr_proc[l], s) < NSLOT - (f.left - 1) /\ Dist(curr_proc[l], s) \in 0..NSLOT-1
      <4>1. Dist(curr_proc[l], s) \in 0..NSLOT-1 /\ ~(l > f.level)
        BY <1>1, <2>2, DistFacts DEF Level
      <4> QED BY <1>3, <1>5, <4>1 DEF Visited
    <3>2. Dist(curr_proc[l], s) = Dist(curr_proc[l], f.slot) => s = f.slot
      <4>1. Dist(c, s) = Dist(c, t) => s = t
        BY DistFacts
      <4> QED BY <3>0, <4>1
    <3> QED BY <1>1, <2>2, <3>1, <3>2 DEF Visited
  <2> QED BY <1>1, <1>3, <1>5, <2>1, <2>2 DEF Visited, Level
<1> QED BY <1>3, <1>4, <1>5

(* The first frame of the level below; all of this level is visited.       *)
LEMMA NextLevel ==
  ASSUME QueueInv, NEW f \in Frame, Dist(curr_proc[f.level], f.slot) = NSLOT - f.left,
         ~(f.left > 1), f.level > 0,
         NEW g, g = FrameAt(f.proc, f.sys, f.level - 1)
  PROVE  Further(f, g)
<1> USE ProcessAssumption DEF Further
<1> DEFINE k == f.level - 1
<1>1. /\ f.level \in Level /\ f.slot \in Slot /\ f.left = 1
      /\ curr_proc[f.level] \in Slot \union {-1}
      /\ k \in Level /\ curr_proc[k] \in Slot \union {-1}
      /\ f.proc \in Int /\ f.sys \in BOOLEAN
  BY DEF Frame, QueueInv, Level
<1>2. g \in Frame
  BY <1>1, FrameAtType
<1>3. /\ g.proc = f.proc /\ g.sys = f.sys /\ g.step = "visit" /\ g.level = k
      /\ g.left = NSLOT /\ g.slot = (curr_proc[k] + 1) % NSLOT
  BY DEF FrameAt
<1>4. Dist(curr_proc[k], (curr_proc[k] + 1) % NSLOT) = 0
  BY <1>1 DEF Dist, Slot
<1>5. ASSUME NEW l \in Level, NEW s \in Slot, Visited(g, l, s)
      PROVE  Visited(f, l, s) \/ (l = f.level /\ s = f.slot)
  <2>1. CASE l > f.level
    BY <2>1 DEF Visited
  <2>2. CASE l = f.level
    <3>0. PICK c \in Slot \union {-1}, t \in Slot : c = curr_proc[l] /\ t = f.slot
      BY <1>1, <2>2
    <3>1. Dist(curr_proc[l], s) \in 0..NSLOT-1
      BY <1>1, <2>2, DistFacts
    <3>2. Dist(curr_proc[l], s) = Dist(curr_proc[l], f.slot) => s = f.slot
      <4>1. Dist(c, s) = Dist(c, t) => s = t
        BY DistFacts
      <4> QED BY <3>0, <4>1
    <3> QED BY <1>1, <2>2, <3>1, <3>2 DEF Visited
  <2>3. CASE l = k
    <3>1. Dist(curr_proc[l], s) \in 0..NSLOT-1 /\ ~(l > k)
      BY <1>1, <2>3, DistFacts DEF Level
    <3> QED BY <1>1, <1>3, <1>5, <2>3, <3>1 DEF Visited
  <2> QED BY <1>1, <1>3, <1>5, <2>1, <2>2, <2>3 DEF Visited, Level
<1> QED BY <1>1, <1>2, <1>3, <1>4, <1>5

(* Below the lowest level there is no slot left.                           *)
LEMMA AllVisited ==
  ASSUME QueueInv, NEW f \in Frame, Dist(curr_proc[f.level], f.slot) = NSLOT - f.left,
         ~(f.left > 1), ~(f.level > 0), NEW l \in Level, NEW s \in Slot
  PROVE  Visited(f, l, s) \/ (l = f.level /\ s = f.slot)
<1> USE ProcessAssumption
<1>1. /\ f.level = 0 /\ f.slot \in Slot /\ f.left = 1 /\ 0 \in Level
      /\ curr_proc[f.level] \in Slot \union {-1}
  BY DEF Frame, QueueInv, Level
<1>2. CASE l = 0
  <2>1. Dist(curr_proc[l], s) \in 0..NSLOT-1
    BY <1>1, <1>2, DistFacts
  <2>2. Dist(curr_proc[l], s) = Dist(curr_proc[l], f.slot) => s = f.slot
    <3>1. PICK c \in Slot \union {-1}, t \in Slot : c = curr_proc[l] /\ t = f.slot
      BY <1>1, <1>2
    <3>2. Dist(c, s) = Dist(c, t) => s = t
      BY DistFacts
    <3> QED BY <3>1, <3>2
  <2> QED BY <1>1, <1>2, <2>1, <2>2 DEF Visited
<1>3. CASE l # 0
  BY <1>1, <1>3 DEF Visited, Level
<1> QED BY <1>2, <1>3

-----------------------------------------------------------------------------
(***************************************************************************)
(* The frames after a step of pc_kill.                                     *)
(***************************************************************************)

(* The elements of a sequence over A and over B are in both.               *)
LEMMA SeqOfBoth ==
  ASSUME NEW A, NEW B, NEW C, NEW r, r \in Seq(A), r \in Seq(B),
         \A x \in A : x \in B => x \in C
  PROVE  r \in Seq(C)
OBVIOUS

(* The callers' frames stay what they are while processes disappear.       *)
LEMMA FramesKeep ==
  ASSUME CalmInv, NEW who \in {"shell", "exit"}, MayKill(who),
         Shrinks(task_queue, task_queue'), UNCHANGED <<curr_proc, cpu>>
  PROVE  /\ Tail(kills[who]) \in Seq(Good(who)')
         /\ \A c \in CallsFor : c \in CallsFor'
         /\ \A g \in Frame : g.proc # INIT /\ Searched(g) => Searched(g)'
         /\ Sound => Tail(kills[who]) \in Seq(Sane(who)')
<1>1. ASSUME NEW g \in Callers(who)
      PROVE  g \in Good(who)'
  <2>1. g \in Frame /\ FrameOK(g, who) /\ g.step = "return"
    BY DEF Callers, Good
  <2>2. FrameOK(g, who)'
    BY <2>1 DEF FrameOK
  <2> QED BY <2>1, <2>2 DEF Good
<1>2. Tail(kills[who]) \in Seq(Callers(who))
  BY KillFacts
<1>3. Tail(kills[who]) \in Seq(Good(who)')
  BY <1>1, <1>2, SeqOfBoth
<1>4. ASSUME NEW c \in CallsFor
      PROVE  c \in CallsFor'
  <2>1. c \in Calls /\ At(c[2]).asid \in {NoPid, c[1].proc}
    BY DEF CallsFor
  <2>2. c[2] \in Frame
    BY <2>1 DEF Calls
  <2>3. c[2].level \in Level /\ c[2].slot \in Slot
    BY <2>2 DEF Frame
  <2>4. At(c[2])'.asid \in {At(c[2]).asid, NoPid}
    BY <2>3 DEF Shrinks, At
  <2>5. At(c[2])'.asid \in {NoPid, c[1].proc}
    BY <2>1, <2>4
  <2> QED BY <2>1, <2>5 DEF CallsFor
<1>5. ASSUME NEW g \in Frame, g.proc # INIT, Searched(g)
      PROVE  Searched(g)'
  <2> SUFFICES ASSUME NEW l \in Level, NEW s \in Slot, Visited(g, l, s)'
               PROVE  Done(g, l, s)'
    BY DEF Searched
  <2>1. Visited(g, l, s)
    BY DEF Visited
  <2>2. Done(g, l, s)
    BY <1>5, <2>1 DEF Searched
  <2> QED BY <1>5, <2>2 DEF Done, Shrinks
<1>6. ASSUME Sound
      PROVE  Tail(kills[who]) \in Seq(Sane(who)')
  <2>1. Tail(kills[who]) \in Seq(Sane(who))
    <3>1. kills[who] \in Seq(Sane(who)) /\ kills[who] # <<>>
      BY <1>6, KillFacts DEF Nested
    <3> QED BY <3>1, Parts
  <2>2. ASSUME NEW g \in Callers(who), g \in Sane(who)
        PROVE  g \in Sane(who)'
    <3>1. g \in Good(who)' /\ g \in Frame /\ g.proc # INIT
      BY <1>1 DEF Callers, Good, FrameOK
    <3>2. Searched(g) /\ (who = "exit" => Younger(g))
      BY <2>2 DEF Sane
    <3>3. Searched(g)' /\ (who = "exit" => Younger(g)')
      BY <1>5, <3>1, <3>2 DEF Younger
    <3> QED BY <3>1, <3>3 DEF Sane
  <2> QED BY <1>2, <2>1, <2>2, SeqOfBoth
<1> QED BY <1>3, <1>4, <1>5, <1>6

(* The frames r are those of who with g for the innermost.                 *)
Replaced(who, g, r) ==
  /\ r \in Seq(Good(who)') /\ Linked(r, Calls)
  /\ r # <<>> /\ r[1] = g /\ Procs(r) = Killed(who)
  /\ Sound => r \in Seq(Sane(who)') /\ Linked(r, CallsFor')

(* The innermost frame changes, and is still about the same process.       *)
LEMMA ReplaceCalm ==
  ASSUME CalmInv, NEW who \in {"shell", "exit"}, MayKill(who),
         Shrinks(task_queue, task_queue'), UNCHANGED <<curr_proc, cpu>>,
         NEW g \in Good(who)', Sound => g \in Sane(who)',
         g.proc = kills[who][1].proc, g.sys = kills[who][1].sys,
         NEW r, r = <<g>> \o Tail(kills[who])
  PROVE  Replaced(who, g, r)
<1>1. PICK fs : fs = kills[who]
  OBVIOUS
<1>2. /\ fs # <<>> /\ fs \in Seq(Frame) /\ Linked(fs, Calls)
      /\ Sound => Linked(fs, CallsFor)
      /\ Len(fs) \in Nat
  BY <1>1, KillFacts, Parts DEF Nested
<1>3. /\ Tail(fs) \in Seq(Good(who)') /\ (Sound => Tail(fs) \in Seq(Sane(who)'))
      /\ \A c \in CallsFor : c \in CallsFor'
  BY <1>1, FramesKeep
<1>4. /\ r # <<>> /\ r[1] = g /\ Procs(r) = Procs(fs)
      /\ \A T : Tail(fs) \in Seq(T) /\ g \in T => r \in Seq(T)
      /\ (Len(fs) > 1 => <<g, fs[2]>> \in Calls) => Linked(r, Calls)
  BY <1>1, <1>2, ReplacedFrame
<1>5. g \in Frame
  BY DEF Good
<1>6. Len(fs) > 1 => <<g, fs[2]>> \in Calls
  <2> SUFFICES ASSUME Len(fs) > 1
               PROVE  <<g, fs[2]>> \in Calls
    OBVIOUS
  <2>1. 1 \in 1..Len(fs)-1 /\ 1 + 1 = 2
    BY <1>2
  <2>2. <<fs[1], fs[2]>> \in Calls
    BY <1>2, <2>1 DEF Linked
  <2> QED BY <1>1, <1>5, <2>2 DEF Calls
<1>7. ASSUME Sound
      PROVE  Linked(r, CallsFor')
  <2>1. Linked(fs, CallsFor')
    BY <1>2, <1>3, <1>7 DEF Linked
  <2>2. ASSUME Len(fs) > 1
        PROVE  <<g, fs[2]>> \in CallsFor'
    <3>1. 1 \in 1..Len(fs)-1 /\ 1 + 1 = 2
      BY <1>2, <2>2
    <3>2. <<fs[1], fs[2]>> \in CallsFor'
      BY <2>1, <3>1 DEF Linked
    <3>3. At(fs[2])'.asid \in {NoPid, g.proc}
      BY <1>1, <3>2 DEF CallsFor
    <3> QED BY <1>6, <2>2, <3>3 DEF CallsFor
  <2> QED BY <1>1, <1>2, <2>1, <2>2, ReplacedFrame
<1>8. r \in Seq(Good(who)')
  BY <1>3, <1>4
<1>9. Sound => r \in Seq(Sane(who)')
  BY <1>3, <1>4
<1> QED BY <1>1, <1>4, <1>6, <1>7, <1>8, <1>9 DEF Killed, Replaced

(* The innermost frame has moved on to its next slot.                      *)
LEMMA AdvancedCalm ==
  ASSUME CalmInv, NEW who \in {"shell", "exit"}, MayKill(who),
         Shrinks(task_queue, task_queue'), UNCHANGED <<curr_proc, cpu>>,
         NEW f, f = kills[who][1], Sound => Done(f, f.level, f.slot)',
         NEW g \in Frame, Dist(curr_proc[g.level], g.slot) = NSLOT - g.left,
         g.proc = f.proc, g.sys = f.sys, g.step = "visit",
         \A l \in Level, s \in Slot :
           Visited(g, l, s) => Visited(f, l, s) \/ (l = f.level /\ s = f.slot)
  PROVE  g \in Good(who)' /\ (Sound => g \in Sane(who)')
<1>1. f \in Good(who) /\ (Sound => f \in Sane(who))
  BY KillFacts
<1>2. f \in Frame /\ FrameOK(f, who)
  BY <1>1 DEF Good
<1>3. FrameOK(g, who)'
  BY <1>2 DEF FrameOK
<1>4. g \in Good(who)'
  BY <1>3 DEF Good
<1>5. ASSUME Sound
      PROVE  g \in Sane(who)'
  <2>1. Searched(f) /\ (who = "exit" => Younger(f)) /\ f.proc # INIT
    BY <1>1, <1>2, <1>5 DEF Sane, FrameOK
  <2>2. Searched(f)'
    BY <1>2, <2>1, FramesKeep
  <2>3. Searched(g)'
    <3> SUFFICES ASSUME NEW l \in Level, NEW s \in Slot, Visited(g, l, s)'
                 PROVE  Done(g, l, s)'
      BY DEF Searched
    <3>1. Visited(g, l, s)
      BY DEF Visited
    <3>2. CASE Visited(f, l, s)
      <4>1. Visited(f, l, s)'
        BY <3>2 DEF Visited
      <4>2. Done(f, l, s)'
        BY <2>2, <4>1 DEF Searched
      <4> QED BY <4>2 DEF Done
    <3>3. CASE l = f.level /\ s = f.slot
      BY <1>5, <3>3 DEF Done
    <3> QED BY <3>1, <3>2, <3>3
  <2>4. who = "exit" => Younger(g)'
    BY <2>1 DEF Younger
  <2> QED BY <1>4, <2>3, <2>4 DEF Sane
<1> QED BY <1>4, <1>5

(* Done with a slot: either the call goes on, or it has seen every slot    *)
(* and returns to its caller, whose slot is empty.                         *)
LEMMA NextSlotCalm ==
  ASSUME CalmInv, NEW who \in {"shell", "exit"}, MayKill(who),
         Shrinks(task_queue, task_queue'), UNCHANGED <<curr_proc, cpu>>,
         NEW f, f = kills[who][1], Sound => Done(f, f.level, f.slot)',
         NEW r, r = NextSlot(kills[who])
  PROVE  /\ r \in Seq(Good(who)') /\ Linked(r, Calls)
         /\ r # <<>> => r[1].step \in {"visit", "return"}
         /\ Sound => /\ r \in Seq(Sane(who)') /\ Linked(r, CallsFor')
                     /\ r # <<>> /\ r[1].step = "return" => At(r[1])'.asid = NoPid
         /\ Sound => \/ Killed(who) \subseteq Procs(r)
                     \/ /\ Killed(who) \subseteq Procs(r) \union {f.proc}
                        /\ \A l \in Level, s \in Slot : Done(f, l, s)'
<1>1. PICK fs : fs = kills[who]
  OBVIOUS
<1>2. /\ fs # <<>> /\ fs \in Seq(Frame) /\ Linked(fs, Calls) /\ Head(fs) = f
      /\ f \in Good(who) /\ QueueInv
      /\ Sound => Linked(fs, CallsFor) /\ Searched(f)
      /\ fs[1] = f
  BY <1>1, KillFacts DEF Nested, Sane
<1>3. f \in Frame /\ Dist(curr_proc[f.level], f.slot) = NSLOT - f.left /\ f.proc # INIT
  BY <1>2 DEF Good, FrameOK
<1>4. CASE f.left > 1
  <2>1. PICK g : g = [f EXCEPT !.slot = (f.slot + 1) % NSLOT, !.left = f.left - 1,
                               !.step = "visit"]
    OBVIOUS
  <2>2. /\ g \in Frame /\ Dist(curr_proc[g.level], g.slot) = NSLOT - g.left
        /\ g.proc = f.proc /\ g.sys = f.sys /\ g.step = "visit"
        /\ \A l \in Level, s \in Slot :
             Visited(g, l, s) => Visited(f, l, s) \/ (l = f.level /\ s = f.slot)
    <3>1. QueueInv
      BY <1>2
    <3>2. Further(f, g)
      BY <1>3, <1>4, <2>1, <3>1, NextInLevel
    <3> QED BY <3>2 DEF Further
  <2>3. g \in Good(who)' /\ (Sound => g \in Sane(who)')
    BY <2>2, AdvancedCalm
  <2>4. r = <<g>> \o Tail(kills[who])
    BY <1>1, <1>2, <1>4, <2>1 DEF NextSlot
  <2>5. /\ r \in Seq(Good(who)') /\ Linked(r, Calls)
        /\ r # <<>> /\ r[1] = g /\ Procs(r) = Killed(who)
        /\ Sound => r \in Seq(Sane(who)') /\ Linked(r, CallsFor')
    <3>1. g.proc = kills[who][1].proc /\ g.sys = kills[who][1].sys
      BY <2>2
    <3>2. /\ g \in Good(who)' /\ Shrinks(task_queue, task_queue')
          /\ UNCHANGED <<curr_proc, cpu>> /\ MayKill(who)
      BY <2>3
    <3>3. Replaced(who, g, r)
      BY <2>3, <2>4, <3>1, <3>2, ReplaceCalm
    <3> QED BY <3>3 DEF Replaced
  <2> QED BY <2>2, <2>5
<1>5. CASE ~(f.left > 1) /\ f.level > 0
  <2>1. PICK g : g = FrameAt(f.proc, f.sys, f.level - 1)
    OBVIOUS
  <2>2. /\ g \in Frame /\ Dist(curr_proc[g.level], g.slot) = NSLOT - g.left
        /\ g.proc = f.proc /\ g.sys = f.sys /\ g.step = "visit"
        /\ \A l \in Level, s \in Slot :
             Visited(g, l, s) => Visited(f, l, s) \/ (l = f.level /\ s = f.slot)
    <3>1. Further(f, g)
      BY <1>2, <1>3, <1>5, <2>1, NextLevel
    <3> QED BY <3>1 DEF Further
  <2>3. g \in Good(who)' /\ (Sound => g \in Sane(who)')
    BY <2>2, AdvancedCalm
  <2>4. r = <<g>> \o Tail(kills[who])
    BY <1>1, <1>2, <1>5, <2>1 DEF NextSlot
  <2>5. /\ r \in Seq(Good(who)') /\ Linked(r, Calls)
        /\ r # <<>> /\ r[1] = g /\ Procs(r) = Killed(who)
        /\ Sound => r \in Seq(Sane(who)') /\ Linked(r, CallsFor')
    <3>1. g.proc = kills[who][1].proc /\ g.sys = kills[who][1].sys
      BY <2>2
    <3>2. /\ g \in Good(who)' /\ Shrinks(task_queue, task_queue')
          /\ UNCHANGED <<curr_proc, cpu>> /\ MayKill(who)
      BY <2>3
    <3>3. Replaced(who, g, r)
      BY <2>3, <2>4, <3>1, <3>2, ReplaceCalm
    <3> QED BY <3>3 DEF Replaced
  <2> QED BY <2>2, <2>5
<1>6. CASE ~(f.left > 1) /\ ~(f.level > 0)
  <2>1. r = Tail(fs)
    BY <1>1, <1>2, <1>6 DEF NextSlot
  <2>2. /\ Procs(fs) \subseteq Procs(r) \union {f.proc} /\ Linked(r, Calls)
        /\ r # <<>> => r[1] = fs[2] /\ <<f, fs[2]>> \in Calls /\ r[1] \in Frame
    BY <1>2, <2>1, PoppedFrame
  <2>3. /\ r \in Seq(Good(who)') /\ (Sound => r \in Seq(Sane(who)'))
        /\ \A c \in CallsFor : c \in CallsFor'
    BY <1>1, <2>1, FramesKeep
  <2>4. r # <<>> => r[1].step = "return" /\ ~f.sys
    BY <2>2 DEF Calls
  <2>5. ASSUME Sound
        PROVE  \A l \in Level, s \in Slot : Done(f, l, s)'
    <3>1. Searched(f)'
      BY <1>2, <1>3, <2>5, FramesKeep
    <3> SUFFICES ASSUME NEW l \in Level, NEW s \in Slot
                 PROVE  Done(f, l, s)'
      OBVIOUS
    <3>2. CASE Visited(f, l, s)
      <4>1. Visited(f, l, s)'
        BY <3>2 DEF Visited
      <4> QED BY <3>1, <4>1 DEF Searched
    <3>3. CASE l = f.level /\ s = f.slot
      BY <2>5, <3>3 DEF Done
    <3> QED BY <1>2, <1>3, <1>6, <3>2, <3>3, AllVisited
  <2>6. ASSUME Sound
        PROVE  Linked(r, CallsFor')
    <3>1. Linked(fs, CallsFor')
      BY <1>2, <2>3, <2>6 DEF Linked
    <3> QED BY <1>2, <2>1, <3>1, PoppedFrame
  <2>7. ASSUME Sound, r # <<>>
        PROVE  At(r[1])'.asid = NoPid
    <3>1. Linked(fs, CallsFor')
      BY <1>2, <2>3, <2>7 DEF Linked
    <3>2. <<f, fs[2]>> \in CallsFor' /\ r[1] = fs[2] /\ r[1] \in Frame
      BY <1>2, <2>1, <2>2, <2>7, <3>1, PoppedFrame
    <3>3. At(r[1])'.asid \in {NoPid, f.proc}
      BY <3>2 DEF CallsFor
    <3>4. r[1].level \in Level /\ r[1].slot \in Slot
      BY <3>2 DEF Frame
    <3>5. Done(f, r[1].level, r[1].slot)'
      BY <2>5, <2>7, <3>4 DEF Done
    <3> QED BY <1>3, <2>4, <2>7, <3>3, <3>5 DEF Done, At
  <2> QED BY <1>1, <2>2, <2>3, <2>4, <2>5, <2>6, <2>7 DEF Killed
<1> QED BY <1>4, <1>5, <1>6

-----------------------------------------------------------------------------
(***************************************************************************)
(* The steps of pc_kill.                                                   *)
(***************************************************************************)

(* A step that ends with the slot and goes on to the next.                 *)
LEMMA AfterSlot ==
  ASSUME CalmInv, IInv', NEW who \in {"shell", "exit"}, MayKill(who),
         NEW f, f = kills[who][1],
         kills' = [kills EXCEPT ![who] = NextSlot(@)],
         UNCHANGED <<pidVars, curr_proc, curr_queue, cpu, mode, shell, spawned>>,
         Shrinks(task_queue, task_queue'),
         Current'.asid = Current.asid, INIT \in AsidsIn(task_queue'),
         Sound =>
           /\ Done(f, f.level, f.slot)'
           /\ page = (AsidsIn(task_queue') \ Dying) \union Pending
           /\ \A l \in Level, s \in Slot :
                Kin(task_queue'[l][s],
                    (AsidsIn(task_queue') \ Dying) \union Killed(who) \union {f.proc})
  PROVE  CalmInv'
<1>1. PICK r : r = NextSlot(kills[who])
  OBVIOUS
<1>2. kills'[who] = r /\ \A w \in {"shell", "exit"} : w # who => kills'[w] = kills[w]
  BY <1>1 DEF CalmInv, IInv, RestInv
<1>3. /\ r \in Seq(Good(who)') /\ Linked(r, Calls)
      /\ r # <<>> => r[1].step \in {"visit", "return"}
      /\ Sound => /\ r \in Seq(Sane(who)') /\ Linked(r, CallsFor')
                  /\ r # <<>> /\ r[1].step = "return" => At(r[1])'.asid = NoPid
      /\ Sound => \/ Killed(who) \subseteq Procs(r)
                  \/ /\ Killed(who) \subseteq Procs(r) \union {f.proc}
                     /\ \A l \in Level, s \in Slot : Done(f, l, s)'
  BY <1>1, NextSlotCalm
<1>4. FramesOK(who)'
  BY <1>2, <1>3 DEF FramesOK
<1>5. Sound => Nested(who)'
  BY <1>2, <1>3 DEF Nested, At
<1>6. Clearing(who)' = {}
  BY <1>2, <1>3 DEF Clearing
<1>7. UNCHANGED <<last_pid, page>> /\ page' \subseteq page
  BY DEF pidVars
<1>8. Dying' = Dying /\ Killed(who)' = Procs(r)
  BY <1>2 DEF Dying, Killed
<1>9. f.proc \in Killed(who) /\ f.proc # INIT
  <2>1. kills[who] # <<>> /\ kills[who] \in Seq(Frame) /\ f \in Good(who)
    BY KillFacts
  <2>2. 1 \in 1..Len(kills[who])
    BY <2>1
  <2> QED BY <2>1, <2>2 DEF Killed, Procs, Good, FrameOK
<1>10. ASSUME Sound, NEW l \in Level, NEW s \in Slot
       PROVE  Kin(task_queue'[l][s], Heirs(who)')
  <2>1. Kin(task_queue'[l][s], (AsidsIn(task_queue') \ Dying) \union Killed(who))
    <3>1. (AsidsIn(task_queue') \ Dying) \union Killed(who) \union {f.proc}
            = (AsidsIn(task_queue') \ Dying) \union Killed(who)
      BY <1>9
    <3> QED BY <1>10, <3>1
  <2>2. Heirs(who)' = (AsidsIn(task_queue') \ Dying) \union Procs(r)
    BY <1>8 DEF Heirs
  <2>3. CASE Killed(who) \subseteq Procs(r)
    BY <2>1, <2>2, <2>3 DEF Kin
  <2>4. CASE /\ Killed(who) \subseteq Procs(r) \union {f.proc}
             /\ Done(f, l, s)'
    BY <2>1, <2>2, <2>4 DEF Kin, Done
  <2> QED BY <1>3, <1>10, <2>3, <2>4
<1>11. Sound => page' = (AsidsIn(task_queue') \ (Clearing(who)' \union Dying)) \union Pending
  BY <1>6, <1>7
<1> QED BY <1>2, <1>4, <1>5, <1>7, <1>10, <1>11, KillCalm

(* No process lost, and no child given away.                               *)
LEMMA ShrinksSame ==
  ASSUME task_queue' = task_queue
  PROVE  Shrinks(task_queue, task_queue')
BY DEF Shrinks

(* The call for the process in the slot has come back: it is empty.        *)
LEMMA KillReturnCalm ==
  ASSUME CalmInv, IInv', NEW who \in {"shell", "exit"}, KillReturn(who)
  PROVE  CalmInv'
<1>1. PICK f : f = kills[who][1]
  OBVIOUS
<1>2. /\ MayKill(who) /\ Head(kills[who]).step = "return"
      /\ kills' = [kills EXCEPT ![who] = NextSlot(@)]
      /\ UNCHANGED <<pidVars, schedVars, kill_state, cpu, mode, shell, spawned>>
  BY DEF KillReturn
<1>3. task_queue' = task_queue /\ UNCHANGED <<curr_proc, curr_queue>>
  BY <1>2 DEF schedVars
<1>4. f.step = "return" /\ kills[who] # <<>> /\ INIT \in AsidsIn(task_queue)
  BY <1>1, <1>2, KillFacts
<1>5. Current' = Current
  BY <1>3 DEF Current
<1>6. ASSUME Sound
      PROVE  /\ Done(f, f.level, f.slot)'
             /\ page = (AsidsIn(task_queue') \ Dying) \union Pending
             /\ \A l \in Level, s \in Slot :
                  Kin(task_queue'[l][s],
                      (AsidsIn(task_queue') \ Dying) \union Killed(who) \union {f.proc})
  <2>1. At(f).asid = NoPid
    BY <1>1, <1>2, <1>4, <1>6, KillFacts DEF Nested
  <2>2. Done(f, f.level, f.slot)'
    BY <1>3, <2>1 DEF Done, At
  <2>3. Clearing(who) = {}
    BY <1>1, <1>4 DEF Clearing
  <2>4. page = (AsidsIn(task_queue') \ Dying) \union Pending
    BY <1>2, <1>3, <1>6, <2>3, KillFacts
  <2>5. \A l \in Level, s \in Slot : Kin(task_queue[l][s], Heirs(who))
    BY <1>2, <1>6, KillFacts
  <2> QED BY <1>3, <2>2, <2>4, <2>5 DEF Heirs, Kin
<1> QED BY <1>1, <1>2, <1>3, <1>4, <1>5, <1>6, ShrinksSame, AfterSlot

(* The process that pc_kill is about to empty is not the running one.      *)
LEMMA KillClearCalm ==
  ASSUME CalmInv, IInv', NEW who \in {"shell", "exit"}, KillClear(who)
  PROVE  /\ CalmInv'
         /\ \/ AsidsIn(task_queue') = AsidsIn(task_queue)
            \/ \E p \in Pid \ {cpu} : Died(p)
<1> USE Identifiers
<1>1. PICK f : f = kills[who][1]
  OBVIOUS
<1>2. /\ MayKill(who) /\ Head(kills[who]) = f /\ f.step = "clear"
      /\ kills' = [kills EXCEPT ![who] = NextSlot(@)]
      /\ UNCHANGED <<pidVars, curr_proc, curr_queue, kill_state, cpu, mode, shell, spawned>>
      /\ kills[who] # <<>>
  BY <1>1, KillFacts DEF KillClear
<1>3. task_queue' = [task_queue EXCEPT ![f.level][f.slot] = Cleared(@)]
  BY <1>2 DEF KillClear
<1>4. /\ f \in Frame /\ ~f.sys /\ At(f).asid = f.proc /\ f.proc # INIT /\ f.proc # SHELL
      /\ Sound /\ who = "exit" => f.proc = NoPid \/ f.proc > cpu
  <2>1. f \in Good(who) /\ (Sound => f \in Sane(who))
    BY <1>1, <1>2, KillFacts
  <2> QED BY <1>2, <2>1 DEF Good, FrameOK, Sane, Younger
<1>5. /\ TypedQueue(task_queue) /\ OneEach(task_queue) /\ INIT \in AsidsIn(task_queue)
      /\ QueueInv /\ Current.asid = cpu /\ cpu \in Nat
      /\ f.level \in Level /\ f.slot \in Slot /\ task_queue[f.level][f.slot] \in PCB
  <2>1. f.level \in Level /\ f.slot \in Slot
    BY <1>4 DEF Frame
  <2> QED BY <1>2, <2>1, KillFacts DEF TypedQueue
<1>6. task_queue[f.level][f.slot].asid = f.proc /\ f.proc \in PidOrNone
  BY <1>4, <1>5 DEF At
<1>7. PICK p : p = Cleared(task_queue[f.level][f.slot])
  OBVIOUS
<1>8. /\ p.asid = NoPid /\ p.ppid = task_queue[f.level][f.slot].ppid
      /\ p.ctx = task_queue[f.level][f.slot].ctx
  BY <1>5, <1>7 DEF Cleared, PCB
<1>9. /\ task_queue'[f.level][f.slot] = p
      /\ \A l \in Level, s \in Slot :
           ~(l = f.level /\ s = f.slot) => task_queue'[l][s] = task_queue[l][s]
  BY <1>3, <1>5, <1>7 DEF TypedQueue
<1>10. Shrinks(task_queue, task_queue')
  BY <1>8, <1>9 DEF Shrinks
<1>11. f.proc # cpu
  <2>1. CASE who = "shell"
    BY <1>2, <1>4, <2>1, KillFacts
  <2>2. CASE who = "exit" /\ Sound
    BY <1>4, <1>5, <1>6, <2>2
  <2>3. CASE who = "exit" /\ ~Sound
    BY <1>2, <1>4, <2>3, KillFacts DEF Sound
  <2> QED BY <2>1, <2>2, <2>3
<1>12. Current' = Current
  <2>1. curr_queue \in Level /\ curr_proc[curr_queue] \in Slot
    BY <1>5 DEF QueueInv
  <2> QED BY <1>2, <1>5, <1>6, <1>9, <1>11, <2>1 DEF Current
<1>13. AsidsIn(task_queue') = AsidsIn(task_queue) \ {f.proc}
  <2>1. \A a \in Pid : (\E l \in Level, s \in Slot : task_queue'[l][s].asid = a)
          => a # f.proc /\ (\E l \in Level, s \in Slot : task_queue[l][s].asid = a)
    BY <1>5, <1>6, <1>8, <1>9 DEF OneEach
  <2>2. \A a \in Pid : a # f.proc /\ (\E l \in Level, s \in Slot : task_queue[l][s].asid = a)
          => (\E l \in Level, s \in Slot : task_queue'[l][s].asid = a)
    BY <1>5, <1>6, <1>9
  <2> QED BY <2>1, <2>2 DEF AsidsIn
<1>14. ASSUME Sound
       PROVE  /\ Done(f, f.level, f.slot)'
              /\ page = (AsidsIn(task_queue') \ Dying) \union Pending
              /\ \A l \in Level, s \in Slot :
                   Kin(task_queue'[l][s],
                       (AsidsIn(task_queue') \ Dying) \union Killed(who) \union {f.proc})
  <2>1. Done(f, f.level, f.slot)'
    BY <1>8, <1>9 DEF Done
  <2>2. Clearing(who) = {f.proc}
    BY <1>1, <1>2 DEF Clearing
  <2>3. page = (AsidsIn(task_queue') \ Dying) \union Pending
    BY <1>2, <1>13, <1>14, <2>2, KillFacts
  <2>4. \A l \in Level, s \in Slot : Kin(task_queue[l][s], Heirs(who))
    BY <1>2, <1>14, KillFacts
  <2>5. Heirs(who) \subseteq (AsidsIn(task_queue') \ Dying) \union Killed(who) \union {f.proc}
    BY <1>13 DEF Heirs
  <2>6. Kin(p, Heirs(who))
    BY <1>8 DEF Kin, NoPid, INIT
  <2> QED BY <1>9, <2>1, <2>3, <2>4, <2>5, <2>6 DEF Kin
<1>15. INIT \in AsidsIn(task_queue')
  BY <1>4, <1>5, <1>13
<1>16. CalmInv'
  BY <1>1, <1>2, <1>10, <1>12, <1>14, <1>15, AfterSlot
<1>17. CASE f.proc \in AsidsIn(task_queue)
  BY <1>4, <1>11, <1>13, <1>16, <1>17 DEF Died, AsidsIn
<1>18. CASE f.proc \notin AsidsIn(task_queue)
  BY <1>13, <1>16, <1>18
<1> QED BY <1>17, <1>18

(* A frame in the same place, at another step of the same slot.            *)
LEMMA SameFrame ==
  ASSUME NEW f \in Frame,
         NEW st \in {"visit", "free", "count", "load", "mask", "clear", "return"},
         NEW g, g = [f EXCEPT !.step = st]
  PROVE  /\ g \in Frame /\ g.proc = f.proc /\ g.sys = f.sys /\ g.step = st
         /\ g.level = f.level /\ g.slot = f.slot /\ g.left = f.left
BY DEF Frame

(* g is f a step further in the same slot.                                 *)
Stepped(who, f, st, g) ==
  /\ g \in Good(who)' /\ (Sound => g \in Sane(who)')
  /\ g.proc = f.proc /\ g.sys = f.sys /\ g.step = st /\ g \in Frame
  /\ At(g) = At(f)

(* The frame takes its next step on the slot, the queue is as it was.      *)
LEMMA StepCalm ==
  ASSUME CalmInv, NEW who \in {"shell", "exit"}, MayKill(who),
         UNCHANGED <<task_queue, curr_proc, cpu>>,
         NEW f, f = kills[who][1],
         NEW st \in {"free", "count", "load", "mask", "clear", "return"},
         NEW g, g = [f EXCEPT !.step = st],
         st # "return" => ~f.sys /\ At(f).asid = f.proc
  PROVE  Stepped(who, f, st, g)
<1>1. f \in Good(who) /\ (Sound => f \in Sane(who))
  BY KillFacts
<1>2. f \in Frame /\ FrameOK(f, who)
  BY <1>1 DEF Good
<1>3. /\ g \in Frame /\ g.proc = f.proc /\ g.sys = f.sys /\ g.step = st
      /\ g.level = f.level /\ g.slot = f.slot /\ g.left = f.left
  BY <1>2, SameFrame
<1>4. At(g) = At(f)
  BY <1>3 DEF At
<1>5. FrameOK(g, who)'
  BY <1>2, <1>3 DEF FrameOK, At
<1>6. g \in Good(who)'
  BY <1>3, <1>5 DEF Good
<1>7. ASSUME Sound
      PROVE  g \in Sane(who)'
  <2>1. Searched(f) /\ (who = "exit" => Younger(f))
    BY <1>1, <1>7 DEF Sane
  <2>2. Searched(g)'
    BY <1>3, <2>1 DEF Searched, Visited, Done
  <2>3. who = "exit" => Younger(g)'
    BY <1>3, <2>1 DEF Younger
  <2> QED BY <1>6, <2>2, <2>3 DEF Sane
<1> QED BY <1>3, <1>4, <1>6, <1>7 DEF Stepped

(* The queue is as it was, and so are the heirs, or there are more.        *)
LEMMA StillKin ==
  ASSUME CalmInv, NEW who \in {"shell", "exit"}, MayKill(who), Sound,
         UNCHANGED <<task_queue, cpu, mode>>, Killed(who) \subseteq Killed(who)'
  PROVE  \A l \in Level, s \in Slot : Kin(task_queue'[l][s], Heirs(who)')
<1>1. \A l \in Level, s \in Slot : Kin(task_queue[l][s], Heirs(who))
  BY KillFacts
<1>2. Dying' = Dying
  BY DEF Dying
<1>3. Heirs(who) \subseteq Heirs(who)'
  BY <1>2 DEF Heirs
<1> QED BY <1>1, <1>3 DEF Kin

(* free_pidmap, access by access: pc_kill clears the bit of the process it *)
(* found, with the last one.  The bit it clears for an empty slot is that  *)
(* of the last identifier, which nobody has.                               *)
LEMMA AccessCalm ==
  ASSUME Calm, CalmInv, IInv', NEW who \in {"shell", "exit"}, MayKill(who),
         Head(kills[who]).step \in {"free", "count", "load", "mask"},
         NEW st \in {"count", "load", "mask", "clear"}, StepTo(who, st),
         page' = IF st = "clear" THEN page \ {PidMask(Head(kills[who]).proc)} ELSE page,
         last_pid' = last_pid,
         UNCHANGED <<schedVars, kill_state, cpu, mode, shell, spawned>>
  PROVE  CalmInv'
<1> USE Identifiers
<1>1. PICK f : f = kills[who][1]
  OBVIOUS
<1>2. /\ MayKill(who) /\ Head(kills[who]) = f
      /\ f.step \in {"free", "count", "load", "mask"}
      /\ page' = IF st = "clear" THEN page \ {PidMask(f.proc)} ELSE page
      /\ UNCHANGED <<schedVars, kill_state, cpu, mode, shell, spawned>>
      /\ kills[who] # <<>>
  BY <1>1, KillFacts
<1>3. PICK g : g = [f EXCEPT !.step = st]
  OBVIOUS
<1>4. PICK r : r = <<g>> \o Tail(kills[who])
  OBVIOUS
<1>5. kills' = [kills EXCEPT ![who] = r]
  BY <1>2, <1>3, <1>4 DEF StepTo
<1>6. kills'[who] = r /\ \A w \in {"shell", "exit"} : w # who => kills'[w] = kills[w]
  BY <1>5 DEF CalmInv, IInv, RestInv
<1>7. UNCHANGED <<task_queue, curr_proc, curr_queue>>
  BY <1>2 DEF schedVars
<1>8. f \in Frame /\ ~f.sys /\ At(f).asid = f.proc /\ f.level \in Level /\ f.slot \in Slot
  <2>1. f \in Good(who)
    BY <1>1, <1>2, KillFacts
  <2> QED BY <1>2, <2>1 DEF Good, FrameOK, Frame
<1>9. /\ g \in Good(who)' /\ (Sound => g \in Sane(who)')
      /\ g.proc = f.proc /\ g.sys = f.sys /\ g.step = st
  <2>1. Stepped(who, f, st, g)
    <3>1. UNCHANGED <<task_queue, curr_proc, cpu>> /\ MayKill(who)
      BY <1>1, <1>2, <1>7
    <3> QED BY <1>1, <1>2, <1>3, <1>8, <3>1, StepCalm
  <2> QED BY <2>1 DEF Stepped
<1>10. Shrinks(task_queue, task_queue')
  BY <1>7, ShrinksSame
<1>11. /\ r \in Seq(Good(who)') /\ Linked(r, Calls)
       /\ r # <<>> /\ r[1] = g /\ Procs(r) = Killed(who)
       /\ Sound => r \in Seq(Sane(who)') /\ Linked(r, CallsFor')
  <2>1. g.proc = kills[who][1].proc /\ g.sys = kills[who][1].sys
    BY <1>1, <1>9
  <2>2. /\ g \in Good(who)' /\ UNCHANGED <<curr_proc, cpu>> /\ MayKill(who)
    BY <1>2, <1>7, <1>9
  <2>3. Replaced(who, g, r)
    BY <1>4, <1>9, <1>10, <2>1, <2>2, ReplaceCalm
  <2> QED BY <2>3 DEF Replaced
<1>12. FramesOK(who)' /\ Killed(who)' = Killed(who)
  BY <1>6, <1>11 DEF FramesOK, Killed
<1>13. Sound => Nested(who)'
  BY <1>6, <1>9, <1>11 DEF Nested
<1>14. Clearing(who)' = (IF st = "clear" THEN {f.proc} ELSE {}) /\ Clearing(who) = {}
  BY <1>1, <1>2, <1>6, <1>9, <1>11 DEF Clearing
<1>15. page' = IF st = "clear" THEN page \ {f.proc} ELSE page
  <2>1. page' = IF st = "clear" THEN page \ {PidMask(f.proc)} ELSE page
    BY <1>2
  <2>2. f.proc \in Pid \/ f.proc = NoPid
    <3>1. At(f) \in PCB
      BY <1>2, <1>8, KillFacts DEF TypedQueue, At
    <3> QED BY <1>8, <3>1 DEF PidOrNone
  <2>3. CASE f.proc \in Pid
    BY <2>1, <2>3, OwnBit
  <2>4. CASE f.proc = NoPid
    <3>1. PidMask(f.proc) = NPID - 1
      BY <2>4, PidAssumption DEF PidMask, NoPid
    <3>2. NPID - 1 \notin page /\ NoPid \notin page
      <4>1. /\ spawned \in Nat /\ spawned < NPID - 1 /\ page \subseteq 0..spawned
            /\ NPID \in Nat
        <5>1. /\ spawned \in Nat /\ spawned <= MaxSpawn /\ MaxSpawn \in Nat
              /\ MaxSpawn < NPID - 1 /\ NPID \in Nat
          BY ProcessAssumption, PidAssumption
             DEF CalmInv, IInv, RestInv, Thread, Calm
        <5>2. page \subseteq 0..spawned
          BY <5>1 DEF CalmInv, Numbered
        <5> QED BY <5>1, <5>2
      <4> QED BY <4>1 DEF NoPid
    <3> QED BY <2>1, <2>4, <3>1, <3>2
  <2> QED BY <2>2, <2>3, <2>4
<1>16. ASSUME Sound
       PROVE  page' = (AsidsIn(task_queue') \ (Clearing(who)' \union Dying)) \union Pending
  <2>1. page = (AsidsIn(task_queue) \ Dying) \union Pending
    BY <1>2, <1>14, <1>16, KillFacts
  <2>2. f.proc \notin Pending
    <3>1. f.proc \in AsidsIn(task_queue) \/ f.proc = NoPid
      <4>1. At(f) = task_queue[f.level][f.slot] /\ At(f) \in PCB
        BY <1>2, <1>8, KillFacts DEF TypedQueue, At
      <4> QED BY <1>8, <4>1 DEF AsidsIn
    <3>2. \A x \in Pending : x \notin AsidsIn(task_queue) /\ x # NoPid
      BY DEF Pending, CalmInv, Creating, CLOCK, NoPid
    <3> QED BY <3>1, <3>2
  <2> QED BY <1>7, <1>14, <1>15, <2>1, <2>2
<1>17. Sound => \A l \in Level, s \in Slot : Kin(task_queue'[l][s], Heirs(who)')
  BY <1>2, <1>7, <1>12, StillKin
<1>18. Current'.asid = Current.asid /\ INIT \in AsidsIn(task_queue')
  BY <1>2, <1>7, KillFacts DEF Current
<1> QED BY <1>2, <1>6, <1>7, <1>10, <1>12, <1>13, <1>15, <1>16, <1>17, <1>18, KillCalm

LEMMA KillFreeCalm ==
  ASSUME Calm, CalmInv, IInv', KillFree
  PROVE  CalmInv'
BY AccessCalm DEF KillFree, free_pidmap

LEMMA ShellFreeCalm ==
  ASSUME Calm, CountInv, CalmInv, IInv', ShellFree
  PROVE  CalmInv'
<1> DEFINE f   == Head(kills["shell"])
           bit == PidMask(f.proc)
<1>1. /\ MayKill("shell") /\ UNCHANGED <<schedVars, kill_state, cpu, mode, shell, spawned>>
  BY DEF ShellFree
<1>2. \/ /\ f.step \in {"free", "count", "load"} /\ UNCHANGED <<page, last_pid>>
         /\ \E st \in {"count", "load", "mask"} : StepTo("shell", st)
      \/ /\ f.step = "mask" /\ last_pid' = last_pid /\ StepTo("shell", "clear")
         /\ page' = (page \ Word(bit)) \union (old \ {bit})
  BY DEF ShellFree, LoadCount, StoreCount, LoadWord, StoreWord
<1>3. CASE f.step \in {"free", "count", "load"}
  BY <1>1, <1>2, <1>3, AccessCalm
<1>4. CASE f.step = "mask"
  <2>1. old = page \intersect Word(bit)
    BY <1>1, <1>4 DEF MayKill, ShellRuns, CountInv, Held
  <2>2. page' = page \ {bit}
    <3>1. bit \in Pid
      <4>1. f.proc \in Int
        BY <1>1, HeadFrame DEF MayKill, CalmInv, IInv, RestInv, Frame
      <4> HIDE DEF f
      <4> QED BY <4>1, PidAssumption DEF PidMask, Pid
    <3>2. bit \in Word(bit)
      BY <3>1 DEF Word
    <3> HIDE DEF bit
    <3> QED BY <1>2, <1>4, <2>1, <3>2
  <2> QED BY <1>1, <1>2, <1>4, <2>2, AccessCalm
<1> QED BY <1>2, <1>3, <1>4

(* What is known of the slot pc_kill looks at.                             *)
LEMMA VisitFacts ==
  ASSUME CalmInv, NEW who \in {"shell", "exit"}, KillVisit(who),
         NEW f, f = kills[who][1]
  PROVE  /\ MayKill(who) /\ Head(kills[who]) = f /\ f.step = "visit"
         /\ f \in Frame /\ f.level \in Level /\ f.slot \in Slot /\ f.proc # INIT
         /\ At(f) \in PCB /\ At(f) = task_queue[f.level][f.slot]
         /\ UNCHANGED <<pidVars, curr_proc, curr_queue, kill_state, cpu, mode,
                        shell, spawned, page, last_pid>>
         /\ Clearing(who) = {}
         /\ f.sys => f.proc = cpu /\ who = "exit"
         /\ f.proc = SHELL => f.sys
         /\ Sound => /\ page = (AsidsIn(task_queue) \ Dying) \union Pending
                     /\ Kin(At(f), Heirs(who))
                     /\ who = "exit" => Younger(f)
<1>1. MayKill(who) /\ Head(kills[who]) = f /\ f.step = "visit"
  BY KillFacts DEF KillVisit
<1>2. UNCHANGED <<pidVars, curr_proc, curr_queue, kill_state, cpu, mode,
                  shell, spawned, page, last_pid>>
  BY DEF KillVisit, pidVars
<1>3. f \in Good(who) /\ (Sound => f \in Sane(who)) /\ TypedQueue(task_queue)
  BY <1>1, KillFacts
<1>4. /\ f \in Frame /\ f.proc # INIT /\ (f.sys => f.proc = cpu /\ who = "exit")
      /\ f.proc = SHELL => f.sys
  BY <1>3 DEF Good, FrameOK
<1>5. f.level \in Level /\ f.slot \in Slot
  BY <1>4 DEF Frame
<1>6. At(f) \in PCB /\ At(f) = task_queue[f.level][f.slot]
  BY <1>3, <1>5 DEF TypedQueue, At
<1>7. Clearing(who) = {}
  BY <1>1 DEF Clearing
<1>8. Sound => page = (AsidsIn(task_queue) \ Dying) \union Pending
  BY <1>1, <1>7, KillFacts
<1>9. Sound => Kin(At(f), Heirs(who))
  BY <1>1, <1>5, <1>6, KillFacts
<1>10. Sound /\ who = "exit" => Younger(f)
  BY <1>3 DEF Sane
<1> QED BY <1>1, <1>2, <1>4, <1>5, <1>6, <1>7, <1>8, <1>9, <1>10

(* The slot holds the process to be killed.                                *)
LEMMA VisitHitCalm ==
  ASSUME CalmInv, IInv', NEW who \in {"shell", "exit"}, KillVisit(who),
         NEW f, f = kills[who][1], ~f.sys, At(f).asid = f.proc
  PROVE  CalmInv'
<1>1. /\ MayKill(who) /\ Head(kills[who]) = f /\ f.step = "visit"
      /\ f \in Frame /\ f.level \in Level /\ f.slot \in Slot
      /\ At(f) = task_queue[f.level][f.slot]
      /\ UNCHANGED <<pidVars, curr_proc, curr_queue, kill_state, cpu, mode,
                     shell, spawned, page, last_pid>>
      /\ Clearing(who) = {}
      /\ Sound => page = (AsidsIn(task_queue) \ Dying) \union Pending
  BY VisitFacts
<1>2. PICK g : g = [f EXCEPT !.step = "free"]
  OBVIOUS
<1>3. PICK r : r = <<g>> \o Tail(kills[who])
  OBVIOUS
<1>4. kills' = [kills EXCEPT ![who] = r] /\ task_queue' = task_queue
  BY <1>1, <1>2, <1>3 DEF KillVisit
<1>5. kills'[who] = r /\ \A w \in {"shell", "exit"} : w # who => kills'[w] = kills[w]
  BY <1>4 DEF CalmInv, IInv, RestInv
<1>6. /\ g \in Good(who)' /\ (Sound => g \in Sane(who)')
      /\ g.proc = f.proc /\ g.sys = f.sys /\ g.step = "free"
  <2>1. Stepped(who, f, "free", g)
    <3>1. UNCHANGED <<task_queue, curr_proc, cpu>> /\ MayKill(who)
      BY <1>1, <1>4
    <3> QED BY <1>1, <1>2, <3>1, StepCalm
  <2> QED BY <2>1 DEF Stepped
<1>7. Shrinks(task_queue, task_queue')
  BY <1>4, ShrinksSame
<1>8. /\ r \in Seq(Good(who)') /\ Linked(r, Calls)
      /\ r # <<>> /\ r[1] = g /\ Procs(r) = Killed(who)
      /\ Sound => r \in Seq(Sane(who)') /\ Linked(r, CallsFor')
  <2>1. g.proc = kills[who][1].proc /\ g.sys = kills[who][1].sys
    BY <1>6
  <2>2. /\ g \in Good(who)' /\ UNCHANGED <<curr_proc, cpu>> /\ MayKill(who)
    BY <1>1, <1>6
  <2>3. Replaced(who, g, r)
    BY <1>3, <1>6, <1>7, <2>1, <2>2, ReplaceCalm
  <2> QED BY <2>3 DEF Replaced
<1>9. FramesOK(who)' /\ Killed(who)' = Killed(who)
  BY <1>5, <1>8 DEF FramesOK, Killed
<1>10. Sound => Nested(who)'
  BY <1>5, <1>6, <1>8 DEF Nested
<1>11. Clearing(who)' = {}
  BY <1>5, <1>6, <1>8 DEF Clearing
<1>12. Sound => page' = (AsidsIn(task_queue') \ (Clearing(who)' \union Dying)) \union Pending
  BY <1>1, <1>4, <1>11
<1>13. Sound => \A l \in Level, s \in Slot : Kin(task_queue'[l][s], Heirs(who)')
  BY <1>1, <1>4, <1>9, StillKin
<1>14. Current'.asid = Current.asid /\ INIT \in AsidsIn(task_queue')
  BY <1>1, <1>4, KillFacts DEF Current
<1> QED BY <1>1, <1>5, <1>7, <1>9, <1>10, <1>12, <1>13, <1>14, KillCalm

(* Frames put in front of frames.                                          *)
LEMMA JoinedFrames ==
  ASSUME NEW S, NEW T \in Seq(S), NEW g \in S, NEW h \in S
  PROVE  /\ <<>> \o <<g>> \o T = <<g>> \o T
         /\ <<h>> \o <<g>> \o T = <<h>> \o (<<g>> \o T)
<1>1. <<>> \o <<g>> = <<g>>
  OBVIOUS
<1>2. <<h>> \o <<g>> \o T = <<h>> \o (<<g>> \o T)
  <2>1. <<h>> \o <<g>> \in Seq(S) /\ <<g>> \o T \in Seq(S)
    OBVIOUS
  <2> QED BY <2>1
<1> QED BY <1>1, <1>2

(* The call of pc_kill for a child that dies with its parent.              *)
LEMMA ChildCall ==
  ASSUME CalmInv, NEW who \in {"shell", "exit"}, KillVisit(who),
         NEW f, f = kills[who][1], At(f).ppid = f.proc, f.sys \/ At(f).asid > 0
  PROVE  /\ Sound => At(f).asid \notin {INIT, SHELL}
         /\ Sound /\ who = "exit" => At(f).asid = NoPid \/ At(f).asid > cpu
<1> SUFFICES ASSUME Sound
             PROVE  /\ At(f).asid \notin {INIT, SHELL}
                    /\ who = "exit" => At(f).asid = NoPid \/ At(f).asid > cpu
  OBVIOUS
<1>1. /\ f.proc # INIT /\ At(f) \in PCB
      /\ f.sys => f.proc = cpu /\ who = "exit"
      /\ Kin(At(f), Heirs(who)) /\ (who = "exit" => Younger(f))
  BY VisitFacts
<1>2. cpu \in Nat
  BY KillFacts, VisitFacts
<1>3. At(f).asid = NoPid \/ (At(f).asid \in Nat /\ At(f).asid >= 0)
  BY <1>1, Identifiers
<1>4. At(f).asid # INIT
  <2> SUFFICES ASSUME At(f).asid = INIT
               PROVE  FALSE
    OBVIOUS
  <2>1. f.sys /\ f.proc = cpu /\ At(f).ppid \in {NoPid, INIT}
    BY <1>1 DEF Kin, INIT
  <2> QED BY <1>1, <1>2, <2>1 DEF NoPid
<1>5. At(f).asid # NoPid => At(f).ppid \in 0..At(f).asid-1
  BY <1>1, <1>4 DEF Kin
<1>6. At(f).asid # SHELL
  BY <1>1, <1>5 DEF SHELL, INIT, NoPid
<1>7. ASSUME who = "exit", At(f).asid # NoPid
      PROVE  At(f).asid > cpu
  <2>1. f.proc \in 0..At(f).asid-1 /\ At(f).asid \in Nat
    BY <1>3, <1>5, <1>7
  <2>2. f.proc = cpu \/ f.proc = NoPid \/ f.proc > cpu
    BY <1>1, <1>7 DEF Younger
  <2> QED BY <1>2, <2>1, <2>2 DEF NoPid
<1> QED BY <1>4, <1>6, <1>7

(* The slot holds a child that dies: pc_kill calls itself.                 *)
LEMMA VisitDiesCalm ==
  ASSUME CalmInv, IInv', NEW who \in {"shell", "exit"}, KillVisit(who),
         NEW f, f = kills[who][1], ~(~f.sys /\ At(f).asid = f.proc),
         At(f).ppid = f.proc, ~kill_state, f.sys \/ At(f).asid > 0
  PROVE  CalmInv'
<1>1. /\ MayKill(who) /\ Head(kills[who]) = f /\ f.step = "visit"
      /\ f \in Frame /\ f.level \in Level /\ f.slot \in Slot
      /\ At(f) \in PCB /\ At(f) = task_queue[f.level][f.slot]
      /\ UNCHANGED <<pidVars, curr_proc, curr_queue, kill_state, cpu, mode,
                     shell, spawned, page, last_pid>>
      /\ Clearing(who) = {}
      /\ Sound => page = (AsidsIn(task_queue) \ Dying) \union Pending
  BY VisitFacts
<1>2. PICK g : g = [f EXCEPT !.step = "return"]
  OBVIOUS
<1>3. PICK r : r = <<g>> \o Tail(kills[who])
  OBVIOUS
<1>4. PICK k : k = KillCall(At(f).asid) \o <<g>> \o Tail(kills[who])
  OBVIOUS
<1>5. kills' = [kills EXCEPT ![who] = k] /\ task_queue' = task_queue
  BY <1>1, <1>2, <1>4 DEF KillVisit
<1>6. kills'[who] = k /\ \A w \in {"shell", "exit"} : w # who => kills'[w] = kills[w]
  BY <1>5 DEF CalmInv, IInv, RestInv
<1>7. /\ g \in Good(who)' /\ (Sound => g \in Sane(who)') /\ g \in Frame
      /\ g.proc = f.proc /\ g.sys = f.sys /\ g.step = "return" /\ At(g) = At(f)
  <2>1. Stepped(who, f, "return", g)
    <3>1. UNCHANGED <<task_queue, curr_proc, cpu>> /\ MayKill(who)
      BY <1>1, <1>5
    <3> QED BY <1>1, <1>2, <3>1, StepCalm
  <2> QED BY <2>1 DEF Stepped
<1>8. Shrinks(task_queue, task_queue')
  BY <1>5, ShrinksSame
<1>9. /\ r \in Seq(Good(who)') /\ Linked(r, Calls)
      /\ r # <<>> /\ r[1] = g /\ Procs(r) = Killed(who)
      /\ Sound => r \in Seq(Sane(who)') /\ Linked(r, CallsFor')
  <2>1. g.proc = kills[who][1].proc /\ g.sys = kills[who][1].sys
    BY <1>7
  <2>2. /\ g \in Good(who)' /\ UNCHANGED <<curr_proc, cpu>> /\ MayKill(who)
    BY <1>1, <1>7
  <2>3. Sound => g \in Sane(who)'
    BY <1>7
  <2>4. Replaced(who, g, r)
    BY <1>3, <1>8, <2>1, <2>2, <2>3, ReplaceCalm
  <2> QED BY <2>4 DEF Replaced
<1>10. Tail(kills[who]) \in Seq(Frame)
  <2>1. MayKill(who)
    BY <1>1
  <2>2. kills[who] \in Seq(Frame) /\ kills[who] # <<>>
    BY <2>1, KillFacts
  <2> QED BY <2>2
<1>11. ASSUME At(f).asid \in {INIT, SHELL}
       PROVE  /\ FramesOK(who)' /\ Killed(who) \subseteq Killed(who)' /\ ~Sound
              /\ Clearing(who)' = {}
  <2>1. k = r
    BY <1>3, <1>4, <1>7, <1>10, <1>11, JoinedFrames DEF KillCall
  <2>2. ~Sound
    BY <1>11, ChildCall
  <2> QED BY <1>6, <1>7, <1>9, <2>1, <2>2 DEF FramesOK, Killed, Clearing
<1>12. ASSUME At(f).asid \notin {INIT, SHELL}
       PROVE  /\ FramesOK(who)' /\ Killed(who) \subseteq Killed(who)'
              /\ Sound => Nested(who)'
              /\ Clearing(who)' = {}
  <2>1. PICK h : h = FrameAt(At(f).asid, FALSE, MAX_PRIO)
    OBVIOUS
  <2>2. /\ h \in Frame /\ Searched(h)
        /\ Dist(curr_proc[h.level], h.slot) = NSLOT - h.left
        /\ h.proc = At(f).asid /\ h.sys = FALSE /\ h.step = "visit"
    <3>1. PICK a, b : a = At(f).asid /\ b = FALSE
      OBVIOUS
    <3>2. a \in Int /\ b \in BOOLEAN /\ h = FrameAt(a, b, MAX_PRIO) /\ QueueInv
      BY <1>1, <2>1, <3>1, KillFacts, Identifiers
    <3>3. /\ h \in Frame /\ Searched(h)
          /\ Dist(curr_proc[h.level], h.slot) = NSLOT - h.left
          /\ h.proc = a /\ h.sys = b /\ h.step = "visit"
      <4>1. Fresh(h, a, b)
        BY <3>2, FreshFrame
      <4> QED BY <4>1 DEF Fresh
    <3> QED BY <3>1, <3>3
  <2>3. k = <<h>> \o r
    <3>1. PICK T : T = Tail(kills[who])
      OBVIOUS
    <3>2. KillCall(At(f).asid) = <<h>>
      BY <1>12, <2>1 DEF KillCall
    <3>3. T \in Seq(Frame) /\ g \in Frame /\ h \in Frame
      BY <1>7, <1>10, <2>2, <3>1
    <3>4. <<h>> \o <<g>> \o T = <<h>> \o (<<g>> \o T)
      BY <3>3, JoinedFrames
    <3> QED BY <1>3, <1>4, <3>1, <3>2, <3>4
  <2>4. h \in Good(who)'
    <3>1. FrameOK(h, who)'
      BY <1>1, <1>12, <2>2 DEF FrameOK
    <3> QED BY <2>2, <3>1 DEF Good
  <2>5. <<h, g>> \in Calls /\ <<h, g>> \in CallsFor'
    <3>1. <<h, g>> \in Calls
      BY <1>7, <2>2 DEF Calls
    <3>2. At(g)'.asid = h.proc
      BY <1>1, <1>5, <1>7, <2>2 DEF At
    <3> QED BY <3>1, <3>2 DEF CallsFor
  <2>6. ASSUME Sound
        PROVE  h \in Sane(who)'
    <3>1. Searched(h)'
      BY <1>1, <1>5, <2>2 DEF Searched, Visited, Done
    <3>2. who = "exit" => Younger(h)'
      <4>1. who = "exit" => At(f).asid = NoPid \/ At(f).asid > cpu
        BY <2>6, ChildCall
      <4> QED BY <1>1, <2>2, <4>1 DEF Younger
    <3> QED BY <2>4, <3>1, <3>2 DEF Sane
  <2>7. /\ k # <<>> /\ k[1] = h /\ Procs(k) = Procs(r) \union {h.proc}
        /\ \A T : r \in Seq(T) /\ h \in T => k \in Seq(T)
        /\ Linked(k, Calls)
    BY <1>9, <2>3, <2>5, PushedFrame
  <2>8. k \in Seq(Good(who)') /\ (Sound => k \in Seq(Sane(who)'))
    BY <1>9, <2>4, <2>6, <2>7
  <2>9. Sound => Linked(k, CallsFor')
    BY <1>9, <2>3, <2>5, PushedFrame
  <2>10. FramesOK(who)' /\ Killed(who) \subseteq Killed(who)' /\ Clearing(who)' = {}
    BY <1>6, <1>9, <2>2, <2>7, <2>8 DEF FramesOK, Killed, Clearing
  <2>11. Sound => Nested(who)'
    BY <1>6, <2>2, <2>7, <2>8, <2>9 DEF Nested
  <2> QED BY <2>10, <2>11
<1>13. /\ FramesOK(who)' /\ Killed(who) \subseteq Killed(who)' /\ Clearing(who)' = {}
       /\ Sound => Nested(who)'
  BY <1>11, <1>12
<1>14. Sound => page' = (AsidsIn(task_queue') \ (Clearing(who)' \union Dying)) \union Pending
  BY <1>1, <1>5, <1>13
<1>15. Sound => \A l \in Level, s \in Slot : Kin(task_queue'[l][s], Heirs(who)')
  BY <1>1, <1>5, <1>13, StillKin
<1>16. Current'.asid = Current.asid /\ INIT \in AsidsIn(task_queue')
  BY <1>1, <1>5, KillFacts DEF Current
<1> QED BY <1>1, <1>6, <1>8, <1>13, <1>14, <1>15, <1>16, KillCalm

(* The slot holds neither; a child is handed to init.                      *)
LEMMA VisitNextCalm ==
  ASSUME CalmInv, IInv', NEW who \in {"shell", "exit"}, KillVisit(who),
         NEW f, f = kills[who][1], ~(~f.sys /\ At(f).asid = f.proc),
         ~(At(f).ppid = f.proc /\ ~kill_state /\ (f.sys \/ At(f).asid > 0))
  PROVE  CalmInv'
<1> USE Identifiers
<1>1. /\ MayKill(who) /\ Head(kills[who]) = f /\ f.step = "visit"
      /\ f \in Frame /\ f.level \in Level /\ f.slot \in Slot
      /\ At(f) \in PCB /\ At(f) = task_queue[f.level][f.slot]
      /\ UNCHANGED <<pidVars, curr_proc, curr_queue, kill_state, cpu, mode,
                     shell, spawned, page, last_pid>>
      /\ Clearing(who) = {} /\ f.proc # INIT
      /\ Sound => page = (AsidsIn(task_queue) \ Dying) \union Pending
  BY VisitFacts
<1>2. /\ TypedQueue(task_queue) /\ OneEach(task_queue) /\ QueueInv
      /\ INIT \in AsidsIn(task_queue) /\ INIT \notin Dying
      /\ Sound => \A l \in Level, s \in Slot : Kin(task_queue[l][s], Heirs(who))
  BY <1>1, KillFacts
<1>3. kills' = [kills EXCEPT ![who] = NextSlot(@)]
  BY <1>1 DEF KillVisit
<1>4. PICK p : p = IF At(f).ppid = f.proc /\ kill_state THEN [At(f) EXCEPT !.ppid = INIT]
                   ELSE At(f)
  OBVIOUS
<1>5. /\ p.asid = At(f).asid /\ p.ctx = At(f).ctx
      /\ p.ppid = IF At(f).ppid = f.proc /\ kill_state THEN INIT ELSE At(f).ppid
  BY <1>1, <1>4 DEF PCB
<1>6. /\ task_queue'[f.level][f.slot] = p
      /\ \A l \in Level, s \in Slot :
           ~(l = f.level /\ s = f.slot) => task_queue'[l][s] = task_queue[l][s]
  <2>1. CASE At(f).ppid = f.proc /\ kill_state
    <3>1. task_queue' = [task_queue EXCEPT ![f.level][f.slot].ppid = INIT]
      BY <1>1, <2>1 DEF KillVisit
    <3> QED BY <1>1, <1>2, <1>4, <2>1, <3>1 DEF TypedQueue
  <2>2. CASE ~(At(f).ppid = f.proc /\ kill_state)
    <3>1. task_queue' = task_queue
      BY <1>1, <2>2 DEF KillVisit
    <3> QED BY <1>1, <1>4, <2>2, <3>1
  <2> QED BY <2>1, <2>2
<1>7. Shrinks(task_queue, task_queue')
  BY <1>1, <1>5, <1>6 DEF Shrinks
<1>8. \A l \in Level, s \in Slot : task_queue'[l][s].asid = task_queue[l][s].asid
  BY <1>1, <1>5, <1>6
<1>9. AsidsIn(task_queue') = AsidsIn(task_queue)
  BY <1>8, SamePlaces
<1>10. Current'.asid = Current.asid
  <2>1. curr_queue \in Level /\ curr_proc[curr_queue] \in Slot
    BY <1>2 DEF QueueInv
  <2> QED BY <1>1, <1>8, <2>1 DEF Current
<1>11. ASSUME Sound
       PROVE  /\ Done(f, f.level, f.slot)'
              /\ page = (AsidsIn(task_queue') \ Dying) \union Pending
              /\ \A l \in Level, s \in Slot :
                   Kin(task_queue'[l][s],
                       (AsidsIn(task_queue') \ Dying) \union Killed(who) \union {f.proc})
  <2>1. ASSUME p.asid \notin {NoPid, INIT}
        PROVE  p.ppid # f.proc /\ (~f.sys => p.asid # f.proc)
    <3>1. p.asid > 0
      <4>1. p.asid \in Nat /\ p.asid # 0
        <5>1. p.asid \in PidOrNone
          BY <1>1, <1>5 DEF PCB
        <5> QED BY <5>1, <2>1, PidAssumption DEF PidOrNone, Pid, NoPid, INIT
      <4> QED BY <4>1
    <3> QED BY <1>1, <1>5, <3>1
  <2>2. Done(f, f.level, f.slot)'
    BY <1>6, <2>1 DEF Done
  <2>3. page = (AsidsIn(task_queue') \ Dying) \union Pending
    BY <1>1, <1>9, <1>11
  <2>4. Kin(p, Heirs(who))
    <3>1. Kin(At(f), Heirs(who))
      BY <1>1, <1>2, <1>11
    <3>2. INIT \in Heirs(who)
      BY <1>2 DEF Heirs
    <3>3. p.asid \notin {INIT, NoPid} => INIT \in 0..p.asid-1
      <4>1. p.asid # NoPid => p.asid \in Nat
        <5>1. p.asid \in PidOrNone
          BY <1>1, <1>5 DEF PCB
        <5> QED BY <5>1, PidAssumption DEF PidOrNone, Pid, NoPid
      <4> QED BY <4>1 DEF INIT
    <3> QED BY <1>5, <3>1, <3>2, <3>3 DEF Kin
  <2>5. \A l \in Level, s \in Slot : Kin(task_queue'[l][s], Heirs(who))
    BY <1>2, <1>6, <1>11, <2>4
  <2>6. Heirs(who) \subseteq (AsidsIn(task_queue') \ Dying) \union Killed(who) \union {f.proc}
    BY <1>9 DEF Heirs
  <2> QED BY <2>2, <2>3, <2>5, <2>6 DEF Kin
<1>12. INIT \in AsidsIn(task_queue')
  BY <1>2, <1>9
<1> QED BY <1>1, <1>3, <1>7, <1>10, <1>11, <1>12, AfterSlot

(* One slot of the scan.                                                   *)
LEMMA KillVisitCalm ==
  ASSUME CalmInv, IInv', NEW who \in {"shell", "exit"}, KillVisit(who)
  PROVE  CalmInv'
<1>1. PICK f : f = kills[who][1]
  OBVIOUS
<1> QED BY <1>1, VisitHitCalm, VisitDiesCalm, VisitNextCalm

(* The Shell's kill command starts the search for p.                       *)
LEMMA CmdKillCalm ==
  ASSUME Calm, CalmInv, IInv', NEW p \in KillArgs, CmdKill(p)
  PROVE  CalmInv'
<1>1. /\ ShellRuns /\ kills.shell = <<>> /\ shell.pc = "prompt"
      /\ kills' = [kills EXCEPT !["shell"] = KillCall(p)]
      /\ UNCHANGED <<pidVars, schedVars, kill_state, cpu, mode, shell, spawned>>
  BY DEF CmdKill, AtPrompt, ShellBusy
<1>2. /\ mode = "user" /\ cpu = SHELL /\ kills.exit = <<>>
      /\ page = AsidsIn(task_queue) \union Pending
      /\ \A l \in Level, s \in Slot : Kin(task_queue[l][s], AsidsIn(task_queue))
      /\ QueueInv
  BY <1>1, ShellFacts DEF Orphan
<1>3. UNCHANGED <<task_queue, curr_proc, curr_queue, last_pid, page, Pending>>
  BY <1>1 DEF pidVars, schedVars, Pending
<1>4. Numbered'
  BY <1>1, <1>3 DEF CalmInv, Numbered
<1>5. Creating'
  BY <1>1, <1>3 DEF CalmInv, Creating
<1>6. kills \in [{"shell", "exit"} -> Seq(Frame)]
  BY DEF CalmInv, IInv, RestInv
<1>7. CASE p \in {INIT, SHELL}
  <2>1. kills' = kills
    BY <1>1, <1>6, <1>7 DEF KillCall
  <2>2. page' = AsidsIn(task_queue) \union Pending'
    BY <1>2, <1>3
  <2> QED BY <1>1, <1>2, <1>4, <1>5, <2>1, <2>2, ShellMoves
<1>8. CASE p \notin {INIT, SHELL}
  <2>1. PICK f, b : b = FALSE /\ f = FrameAt(p, b, MAX_PRIO)
    OBVIOUS
  <2>2. /\ Searched(f) /\ Dist(curr_proc[f.level], f.slot) = NSLOT - f.left
        /\ f.proc = p /\ f.sys = b /\ f.step = "visit" /\ f \in Frame
    <3>1. b \in BOOLEAN /\ QueueInv /\ p \in Int
      BY <1>2, <2>1, ProcessAssumption
    <3>2. Fresh(f, p, b)
      BY <2>1, <3>1, FreshFrame
    <3> QED BY <3>2 DEF Fresh
  <2>3. kills'["shell"] = <<f>> /\ kills'["exit"] = <<>>
    BY <1>1, <1>2, <1>6, <1>8, <2>1 DEF KillCall
  <2>4. OneEach(task_queue') /\ Identified'
    BY <1>1, <1>3 DEF CalmInv, Identified, Current, OthersThreaded, CurrentIs
  <2>5. Turns'
    BY <1>1, <1>2, <2>3 DEF Turns, ShellBusy
  <2>6. f \in Good("shell")'
    BY <1>1, <1>3, <1>8, <2>1, <2>2 DEF Good, FrameOK
  <2>7. f \in Sane("shell")'
    <3>1. Searched(f)'
      BY <1>3, <2>2 DEF Searched, Visited, Done
    <3> QED BY <2>6, <3>1 DEF Sane
  <2>8. /\ kills'["shell"] \in Seq(Good("shell")') /\ Linked(kills'["shell"], Calls)
        /\ kills'["shell"][1] = f /\ kills'["shell"] # <<>>
        /\ Procs(kills'["shell"]) = {f.proc}
    BY <2>3, <2>6, OneFrame
  <2>9. kills'["shell"] \in Seq(Sane("shell")') /\ Linked(kills'["shell"], CallsFor')
    BY <2>3, <2>7, OneFrame
  <2>10. FramesOK("shell")' /\ FramesOK("exit")' /\ Nested("exit")'
    BY <2>3, <2>8, NoFrame DEF FramesOK, Nested
  <2>11. Nested("shell")'
    BY <2>2, <2>8, <2>9 DEF Nested
  <2>12. Frames'
    BY <2>10, <2>11 DEF Frames
  <2>13. Dying' = {} /\ Clearing("shell")' = {} /\ Clearing("exit")' = {}
    BY <1>1, <1>2, <2>2, <2>3, <2>8 DEF Dying, Clearing
  <2>14. Bitmap'
    BY <1>2, <1>3, <2>13 DEF Bitmap
  <2>15. Tree'
    <3>1. AsidsIn(task_queue) \subseteq Parents'
      BY <1>3, <2>13 DEF Parents
    <3> QED BY <1>2, <1>3, <3>1 DEF Tree, Kin
  <2> QED BY <1>4, <1>5, <2>4, <2>5, <2>12, <2>14, <2>15 DEF CalmInv
<1> QED BY <1>7, <1>8

-----------------------------------------------------------------------------
(* The invariant holds when init_kernel enables interrupts.                *)
LEMMA InitCalm == Init => CalmInv
<1> SUFFICES ASSUME Init PROVE CalmInv
  OBVIOUS
<1> USE ProcessAssumption, PidAssumption
<1>1. /\ task_queue = [l \in Level |-> [s \in Slot |-> StartPCB(l, s)]]
      /\ page = {INIT, SHELL, CLOCK} /\ last_pid = CLOCK /\ spawned = CLOCK
      /\ curr_proc = [l \in Level |-> IF l = DEFAULT_PRIO THEN 0 ELSE -1]
      /\ curr_queue = DEFAULT_PRIO /\ cpu = INIT /\ mode = "user"
      /\ kills.shell = <<>> /\ kills.exit = <<>> /\ shell.pc = "prompt"
  BY DEF Init, Prompt
<1>2. /\ 0 \in Slot /\ {INIT, SHELL, CLOCK} \subseteq Pid
      /\ DEFAULT_PRIO \in Level /\ DEFAULT_PRIO + 1 \in Level /\ DEFAULT_PRIO + 2 \in Level
  BY DEF INIT, SHELL, CLOCK, Pid, Level, Slot
<1>3. \A l \in Level, s \in Slot :
        task_queue[l][s] =
          IF s = 0 /\ l = DEFAULT_PRIO
          THEN [asid |-> INIT, ppid |-> NoPid, prio |-> l, ctx |-> INIT]
          ELSE IF s = 0 /\ l = DEFAULT_PRIO + 1
          THEN [asid |-> CLOCK, ppid |-> INIT, prio |-> l, ctx |-> CLOCK]
          ELSE IF s = 0 /\ l = DEFAULT_PRIO + 2
          THEN [asid |-> SHELL, ppid |-> INIT, prio |-> l, ctx |-> SHELL]
          ELSE [asid |-> NoPid, ppid |-> 0, prio |-> 0, ctx |-> NoThread]
  BY <1>1, <1>2 DEF StartPCB, EmptyPCB
<1>4. \A l \in Level, s \in Slot :
        /\ task_queue[l][s].asid =
             IF s = 0 /\ l = DEFAULT_PRIO THEN 0
             ELSE IF s = 0 /\ l = DEFAULT_PRIO + 1 THEN 2
             ELSE IF s = 0 /\ l = DEFAULT_PRIO + 2 THEN 1 ELSE -1
        /\ task_queue[l][s].ctx = task_queue[l][s].asid
        /\ task_queue[l][s].ppid \in {-1, 0}
        /\ task_queue[l][s].asid \in {1, 2} => task_queue[l][s].ppid = 0
  <2> TAKE l \in Level, s \in Slot
  <2> PICK pcb : pcb = task_queue[l][s]
    OBVIOUS
  <2>1. /\ DEFAULT_PRIO # DEFAULT_PRIO + 1 /\ DEFAULT_PRIO # DEFAULT_PRIO + 2
        /\ DEFAULT_PRIO + 1 # DEFAULT_PRIO + 2
    OBVIOUS
  <2>2. CASE s = 0 /\ l = DEFAULT_PRIO
    <3>1. pcb = [asid |-> INIT, ppid |-> NoPid, prio |-> l, ctx |-> INIT]
      BY <1>3, <2>2
    <3>2. pcb.asid = 0 /\ pcb.ctx = 0 /\ pcb.ppid = -1
      BY <3>1 DEF INIT, NoPid
    <3> QED BY <2>2, <3>2
  <2>3. CASE s = 0 /\ l = DEFAULT_PRIO + 1
    <3>1. pcb = [asid |-> CLOCK, ppid |-> INIT, prio |-> l, ctx |-> CLOCK]
      BY <1>3, <2>1, <2>3
    <3>2. pcb.asid = 2 /\ pcb.ctx = 2 /\ pcb.ppid = 0
      BY <3>1 DEF INIT, CLOCK
    <3> QED BY <2>1, <2>3, <3>2
  <2>4. CASE s = 0 /\ l = DEFAULT_PRIO + 2
    <3>1. pcb = [asid |-> SHELL, ppid |-> INIT, prio |-> l, ctx |-> SHELL]
      BY <1>3, <2>1, <2>4
    <3>2. pcb.asid = 1 /\ pcb.ctx = 1 /\ pcb.ppid = 0
      BY <3>1 DEF INIT, SHELL
    <3> QED BY <2>1, <2>4, <3>2
  <2>5. CASE s # 0 \/ l \notin {DEFAULT_PRIO, DEFAULT_PRIO + 1, DEFAULT_PRIO + 2}
    <3>1. pcb = [asid |-> NoPid, ppid |-> 0, prio |-> 0, ctx |-> NoThread]
      BY <1>3, <2>5
    <3>2. pcb.asid = -1 /\ pcb.ctx = -1 /\ pcb.ppid = 0
      BY <3>1 DEF NoPid, NoThread
    <3> QED BY <2>5, <3>2
  <2> QED BY <2>2, <2>3, <2>4, <2>5
<1>5. AsidsIn(task_queue) = {0, 1, 2}
  <2>1. \A a \in Pid : (\E l \in Level, s \in Slot : task_queue[l][s].asid = a) => a \in {0, 1, 2}
    BY <1>4 DEF Pid
  <2>2. /\ task_queue[DEFAULT_PRIO][0].asid = 0
        /\ task_queue[DEFAULT_PRIO + 1][0].asid = 2
        /\ task_queue[DEFAULT_PRIO + 2][0].asid = 1
    BY <1>2, <1>4
  <2>3. \A a \in {0, 1, 2} : a \in Pid /\ (\E l \in Level, s \in Slot : task_queue[l][s].asid = a)
    BY <1>2, <2>2 DEF INIT, SHELL, CLOCK
  <2> QED BY <2>1, <2>3 DEF AsidsIn
<1>6. OneEach(task_queue)
  BY <1>4 DEF OneEach, NoPid, Level
<1>7. Numbered
  BY <1>1, <1>5 DEF Numbered, INIT, SHELL, CLOCK
<1>8. Identified
  BY <1>1, <1>2, <1>4, <1>5 DEF Identified, OthersThreaded, Current, INIT
<1>9. Creating
  BY <1>1 DEF Creating
<1>10. Turns /\ Dying = {} /\ Pending = {} /\ ~ShellBusy
  BY <1>1 DEF Turns, Sound, ShellBusy, Dying, Pending
<1>11. /\ Clearing("shell") = {} /\ Clearing("exit") = {}
       /\ Killed("shell") = {} /\ Killed("exit") = {}
  BY <1>1, NoFrame DEF Clearing, Killed
<1>12. Frames
  BY <1>1, NoFrame DEF Frames, FramesOK, Nested
<1>13. Bitmap
  BY <1>1, <1>5, <1>10, <1>11 DEF Bitmap, INIT, SHELL, CLOCK
<1>14. Tree
  <2>1. Parents = {0, 1, 2}
    BY <1>5, <1>10, <1>11 DEF Parents
  <2> QED BY <1>4, <2>1 DEF Tree, Kin, INIT, NoPid
<1> QED BY <1>6, <1>7, <1>8, <1>9, <1>10, <1>12, <1>13, <1>14, InitIInv DEF CalmInv

(* A program that exits is nobody's torn context.                          *)
LEMMA ExitFacts ==
  ASSUME CalmInv, Exit
  PROVE  mode = "user" /\ cpu > CLOCK /\ cpu # INIT
<1>1. mode = "user" /\ (cpu > CLOCK \/ cpu = Torn)
  BY DEF Exit, ProgramRuns
<1>2. cpu \in Nat
  BY <1>1, QueueAsIs
<1> QED BY <1>1, <1>2 DEF Torn, INIT, CLOCK

(* Every step keeps the invariant.                                         *)
LEMMA NextCalm == Calm /\ CountInv /\ CalmInv /\ [Next]_vars => CalmInv'
<1> SUFFICES ASSUME Calm, CountInv, CalmInv, [Next]_vars PROVE CalmInv'
  OBVIOUS
<1>1. IInv'
  BY StepIInv DEF CalmInv
<1>2. CASE Timer
  BY <1>1, <1>2, TimerCalm
<1>3. CASE do_fork
  BY <1>1, <1>3, ForkCalm
<1>4. CASE Exit
  BY <1>1, <1>4, ExitFacts, SyscallCalm DEF Exit
<1>5. CASE Fault
  BY <1>1, <1>5, SyscallCalm DEF Fault
<1>6. CASE ExitDone
  BY <1>1, <1>6, ExitDoneCalm
<1>7. CASE \E who \in {"shell", "exit"} : KillNext(who)
  BY <1>1, <1>7, KillVisitCalm, KillClearCalm, KillReturnCalm DEF KillNext
<1>10. CASE KillFree
  BY <1>1, <1>10, KillFreeCalm
<1>8. CASE ShellNext
  <2>1. CASE \E prio \in CommandPrio : CmdCreate(prio)
    BY <1>1, <2>1, CmdCreateCalm
  <2>2. CASE \E p \in KillArgs : CmdKill(p)
    BY <1>1, <2>2, CmdKillCalm
  <2>3. ~CmdProc
    BY DEF CmdProc, Calm
  <2> QED BY <1>1, <1>8, <2>1, <2>2, <2>3, KillModeCalm, ShellFreeCalm,
             ShellLoadsCalm, ShellSetsCalm, ShellCountsCalm, CreateSearchCalm, CreateFillCalm, CreatePublishCalm,
             CreateParentCalm, PreemptCalm DEF ShellNext
<1>9. CASE UNCHANGED vars
  <2>1. /\ task_queue' = task_queue /\ curr_proc' = curr_proc /\ curr_queue' = curr_queue
        /\ page' = page /\ last_pid' = last_pid /\ cpu' = cpu /\ mode' = mode
        /\ kills' = kills /\ shell' = shell /\ spawned' = spawned
    BY <1>9 DEF vars, schedVars, pidVars
  <2>2. /\ Turns' /\ Numbered' /\ Creating' /\ Identified' /\ OneEach(task_queue')
    BY <2>1 DEF CalmInv, Turns, Numbered, Creating, Identified, Sound, ShellBusy,
                OthersThreaded, CurrentIs, Current
  <2>3. Sound' = Sound
    BY <2>1 DEF Sound
  <2>4. \A who \in {"shell", "exit"} :
          /\ Good(who)' = Good(who) /\ Sane(who)' = Sane(who) /\ CallsFor' = CallsFor
          /\ Clearing(who)' = Clearing(who) /\ Killed(who)' = Killed(who)
    BY <2>1 DEF Good, FrameOK, At, Sane, Searched, Visited, Done, Younger, CallsFor,
                Clearing, Killed
  <2>5. Frames'
    BY <2>1, <2>3, <2>4 DEF CalmInv, Frames, FramesOK, Nested, At
  <2>6. Dying' = Dying /\ Pending' = Pending
    BY <2>1 DEF Dying, Pending
  <2>7. Bitmap' /\ Tree'
    BY <2>1, <2>3, <2>4, <2>6 DEF CalmInv, Bitmap, Tree, Parents, Orphan
  <2> QED BY <1>1, <2>2, <2>5, <2>7 DEF CalmInv
<1> QED BY <1>2, <1>3, <1>4, <1>5, <1>6, <1>7, <1>8, <1>9, <1>10 DEF Next

(* In a calm environment the invariant holds in every reachable state.     *)
THEOREM CalmInductive == ASSUME Calm PROVE Spec => [](CountInv /\ CalmInv)
<1>1. Init => CountInv /\ CalmInv
  BY InitCounts, InitCalm
<1>2. Untimed
  BY DEF Calm, Untimed
<1>3. CountInv /\ CalmInv /\ [Next]_vars => (CountInv /\ CalmInv)'
  BY <1>2, NextCounts, NextCalm
<1> QED BY <1>1, <1>3, PTL DEF Spec

-----------------------------------------------------------------------------
(***************************************************************************)
(* What follows for the processes.                                         *)
(***************************************************************************)

(* The identifiers of the PCBs in use, as the properties count them.       *)
LEMMA AsidsAre ==
  ASSUME TypedQueue(task_queue)
  PROVE  /\ Asids = AsidsIn(task_queue)
         /\ \A e \in Live : /\ e[1] \in Level /\ e[2] \in Slot /\ e = <<e[1], e[2]>>
                           /\ Asid(e) = task_queue[e[1]][e[2]].asid
                           /\ Asid(e) \in AsidsIn(task_queue) /\ Asid(e) # NoPid
<1> USE Identifiers
<1>1. ASSUME NEW e \in Live
      PROVE  /\ e[1] \in Level /\ e[2] \in Slot /\ e = <<e[1], e[2]>>
             /\ Asid(e) = task_queue[e[1]][e[2]].asid
             /\ Asid(e) \in AsidsIn(task_queue) /\ Asid(e) # NoPid
  <2>1. e \in Level \X Slot /\ Asid(e) >= 0 /\ Asid(e) = task_queue[e[1]][e[2]].asid
    BY DEF Live, Asid
  <2>2. e[1] \in Level /\ e[2] \in Slot /\ e = <<e[1], e[2]>>
    BY <2>1
  <2>3. task_queue[e[1]][e[2]] \in PCB /\ Asid(e) # NoPid
    BY <2>1, <2>2 DEF TypedQueue
  <2>4. Asid(e) \in Pid
    BY <2>1, <2>3
  <2> QED BY <2>1, <2>2, <2>3, <2>4 DEF AsidsIn
<1>2. ASSUME NEW a \in AsidsIn(task_queue)
      PROVE  a \in Asids
  <2>1. PICK l \in Level, s \in Slot : task_queue[l][s].asid = a
    BY DEF AsidsIn
  <2>2. a >= 0
    BY DEF AsidsIn
  <2>3. <<l, s>> \in Live /\ Asid(<<l, s>>) = a
    BY <2>1, <2>2 DEF Live, Asid
  <2> QED BY <2>3 DEF Asids
<1> QED BY <1>1, <1>2 DEF Asids

(* No two PCBs ever hold the same identifier: pc_schedule moves a PCB      *)
(* without leaving a copy, and alloc_pidmap hands out no identifier twice. *)
THEOREM CalmUniqueAsids == ASSUME Calm PROVE Spec => []UniqueAsids
<1>1. CalmInv => UniqueAsids
  <2> SUFFICES ASSUME CalmInv, NEW d \in Live, NEW e \in Live, Asid(d) = Asid(e)
               PROVE  d = e
    BY DEF UniqueAsids
  <2>1. TypedQueue(task_queue) /\ OneEach(task_queue)
    BY DEF CalmInv, IInv, QueueInv
  <2> QED BY <2>1, AsidsAre DEF OneEach
<1> QED BY <1>1, CalmInductive, PTL

(* The bitmap marks the processes and the one being created, and nothing   *)
(* else: alloc_pidmap and free_pidmap are called in step with the PCBs.    *)
THEOREM CalmBitmapExact == ASSUME Calm PROVE Spec => []BitmapExact
<1>1. CalmInv => BitmapExact
  <2> SUFFICES ASSUME CalmInv, Quiet
               PROVE  page = Asids \union Pending
    BY DEF BitmapExact
  <2>1. TypedQueue(task_queue) /\ mode = "user" /\ kills.shell = <<>>
    BY DEF CalmInv, IInv, QueueInv, Quiet
  <2> QED BY <2>1, AsidsAre, IdleFacts
<1> QED BY <1>1, CalmInductive, PTL

(* Whoever is not init has a parent in the table, another process than     *)
(* itself: pc_kill and pc_kill_syscall leave no child of the dead behind,  *)
(* neither when they hand it to init nor when they kill it as well.        *)
THEOREM CalmParentsLive == ASSUME Calm PROVE Spec => []ParentsLive
<1>1. CalmInv => ParentsLive
  <2> SUFFICES ASSUME CalmInv, Quiet, NEW e \in Live, Asid(e) # INIT
               PROVE  task_queue[e[1]][e[2]].ppid \in Asids \ {Asid(e)}
    BY DEF ParentsLive
  <2>1. TypedQueue(task_queue) /\ mode = "user" /\ kills.shell = <<>> /\ shell.pc # "parent"
    BY DEF CalmInv, IInv, QueueInv, Quiet
  <2>2. /\ Asids = AsidsIn(task_queue) /\ e[1] \in Level /\ e[2] \in Slot
        /\ Asid(e) = task_queue[e[1]][e[2]].asid
        /\ Asid(e) \in AsidsIn(task_queue) /\ Asid(e) # NoPid
    BY <2>1, AsidsAre
  <2>3. Kin(task_queue[e[1]][e[2]], AsidsIn(task_queue))
    BY <2>1, <2>2, IdleFacts DEF Family
  <2>4. PICK pcb, a : pcb = task_queue[e[1]][e[2]] /\ a = Asid(e)
    OBVIOUS
  <2>5. a \in Pid /\ a \in Int
    <3>1. a \in Pid
      BY <2>2, <2>4 DEF AsidsIn
    <3> QED BY <3>1, PidAssumption DEF Pid
  <2>6. pcb.asid = a /\ a \notin {INIT, NoPid} /\ Kin(pcb, AsidsIn(task_queue))
    BY <2>2, <2>3, <2>4
  <2>7. pcb.ppid \in AsidsIn(task_queue) /\ pcb.ppid \in 0..a-1
    BY <2>6 DEF Kin
  <2>8. pcb.ppid # a
    BY <2>5, <2>7
  <2> QED BY <2>2, <2>4, <2>7, <2>8
<1> QED BY <1>1, CalmInductive, PTL

-----------------------------------------------------------------------------
(***************************************************************************)
(* The queues implement the table of ProcessTable.                         *)
(***************************************************************************)

(* The table the queues stand for.                                         *)
TableProcs == [p \in IF mode = "stopped" THEN {} ELSE Asids |->
                 ThreadOf(CHOOSE e \in Live : Asid(e) = p)]

TableRunning == IF mode = "stopped" THEN INIT ELSE Current.asid

(* Thread p is process p, so the table maps every identifier to itself.    *)
PlainTable ==
  /\ TableProcs = [p \in IF mode = "stopped" THEN {} ELSE AsidsIn(task_queue) |-> p]
  /\ TableRunning = IF mode = "stopped" THEN INIT ELSE cpu

(* It follows from the invariant.                                          *)
LEMMA TableIs == CalmInv => PlainTable
<1> SUFFICES ASSUME CalmInv PROVE PlainTable
  OBVIOUS
<1>1. /\ TypedQueue(task_queue)
      /\ mode # "stopped" => OthersThreaded(task_queue) /\ Current.asid = cpu
  BY DEF CalmInv, IInv, QueueInv, Identified
<1>2. Asids = AsidsIn(task_queue)
  BY <1>1, AsidsAre
<1>3. ASSUME mode # "stopped", NEW p \in Asids
      PROVE  ThreadOf(CHOOSE e \in Live : Asid(e) = p) = p
  <2>1. \E e \in Live : Asid(e) = p
    BY DEF Asids
  <2>2. PICK e : e = CHOOSE d \in Live : Asid(d) = p
    OBVIOUS
  <2>3. e \in Live /\ Asid(e) = p
    BY <2>1, <2>2
  <2>4. /\ e[1] \in Level /\ e[2] \in Slot /\ e = <<e[1], e[2]>> /\ p # NoPid
        /\ task_queue[e[1]][e[2]].asid = p
    BY <1>1, <2>3, AsidsAre
  <2>5. CASE IsCurrent(e)
    <3>1. Current = task_queue[e[1]][e[2]]
      BY <2>5 DEF IsCurrent, Current
    <3> QED BY <1>1, <1>3, <2>2, <2>4, <2>5, <3>1 DEF ThreadOf
  <2>6. CASE ~IsCurrent(e)
    <3>1. ~CurrentIs(e[1], e[2])
      BY <2>4, <2>6 DEF IsCurrent, CurrentIs
    <3>2. task_queue[e[1]][e[2]].ctx = p
      BY <1>1, <1>3, <2>4, <3>1 DEF OthersThreaded
    <3> QED BY <2>2, <2>6, <3>2 DEF ThreadOf
  <2> QED BY <2>5, <2>6
<1> QED BY <1>1, <1>2, <1>3 DEF PlainTable, TableProcs, TableRunning

(* What a step does to the table, in terms of the queues.                  *)
TableStep ==
  \/ mode # "stopped" /\ mode' = "stopped"
  \/ (mode' = "stopped" <=> mode = "stopped") /\ AsidsIn(task_queue') = AsidsIn(task_queue)
       /\ cpu' = cpu
  \/ /\ mode # "stopped" /\ mode' # "stopped"
     /\ \/ /\ AsidsIn(task_queue') = AsidsIn(task_queue)
           /\ cpu' \in AsidsIn(task_queue) \ {INIT}
        \/ \E p \in Pid \intersect Thread : Born(p) /\ cpu' \in {cpu, p}
        \/ \E p \in Pid \ {cpu} : Died(p) /\ cpu' = cpu
        \/ Died(cpu) /\ cpu' \in AsidsIn(task_queue') \ {INIT}

(* pc_schedule switches, or stops when nobody is ready.                    *)
LEMMA ScheduleTable ==
  ASSUME CalmInv, mode = "user", NEW expired \in BOOLEAN,
         pc_schedule(task_queue, expired, "user")
  PROVE  TableStep
<1>1. /\ TypedQueue(task_queue) /\ OneEach(task_queue)
      /\ OthersThreaded(task_queue) /\ QueueInv /\ cpu \in Thread
      /\ task_queue[curr_queue][curr_proc[curr_queue]].asid \in {NoPid, cpu}
  BY QueueAsIs
<1>2. /\ AsidsIn(task_queue') = AsidsIn(task_queue)
      /\ mode' # "stopped" => cpu' \in AsidsIn(task_queue) \ {INIT}
  BY <1>1, ScheduleCalm
<1> QED BY <1>2 DEF TableStep

(* A write to another field than the identifier.                           *)
LEMMA FieldWritten ==
  ASSUME NEW q, TypedQueue(q), NEW l \in Level, NEW s \in Slot,
         NEW p, p.asid = q[l][s].asid, NEW r, r = [q EXCEPT ![l][s] = p]
  PROVE  \A m \in Level, t \in Slot : r[m][t].asid = q[m][t].asid
BY DEF TypedQueue

(* The same identifiers in the same slots.                                 *)
LEMMA SameTable ==
  ASSUME \A l \in Level, s \in Slot : task_queue'[l][s].asid = task_queue[l][s].asid,
         UNCHANGED <<cpu, mode>>
  PROVE  TableStep
<1>1. AsidsIn(task_queue') = AsidsIn(task_queue)
  BY SamePlaces
<1> QED BY <1>1 DEF TableStep

(* A slot pc_kill looks at keeps its identifier.                           *)
LEMMA VisitKeeps ==
  ASSUME CalmInv, NEW who \in {"shell", "exit"}, KillVisit(who)
  PROVE  /\ \A l \in Level, s \in Slot : task_queue'[l][s].asid = task_queue[l][s].asid
         /\ UNCHANGED <<cpu, mode>>
<1>1. PICK f : f = kills[who][1]
  OBVIOUS
<1>2. /\ MayKill(who) /\ Head(kills[who]) = f /\ f.level \in Level /\ f.slot \in Slot
      /\ UNCHANGED <<cpu, mode>>
  BY <1>1, VisitFacts
<1>3. TypedQueue(task_queue)
  BY <1>2, KillFacts
<1>4. \/ task_queue' = task_queue
      \/ task_queue' = [task_queue EXCEPT ![f.level][f.slot].ppid = INIT]
  BY <1>2 DEF KillVisit
<1>5. PICK p : p = [task_queue[f.level][f.slot] EXCEPT !.ppid = INIT]
  OBVIOUS
<1>6. p.asid = task_queue[f.level][f.slot].asid
  BY <1>2, <1>3, <1>5 DEF TypedQueue, PCB
<1>7. \/ task_queue' = task_queue
      \/ task_queue' = [task_queue EXCEPT ![f.level][f.slot] = p]
  BY <1>2, <1>3, <1>4, <1>5 DEF TypedQueue
<1>8. \A l \in Level, s \in Slot : task_queue'[l][s].asid = task_queue[l][s].asid
  BY <1>2, <1>3, <1>6, <1>7, FieldWritten
<1> QED BY <1>2, <1>8

(* pc_create writes the identifier in one place only.                      *)
LEMMA WriteKeeps ==
  ASSUME CalmInv, CreateFill \/ CreateStack \/ CreateStatic \/ CreateParent
  PROVE  /\ \A l \in Level, s \in Slot : task_queue'[l][s].asid = task_queue[l][s].asid
         /\ UNCHANGED <<cpu, mode>>
<1> DEFINE l == shell.prio
           s == shell.slot
<1>1. /\ TypedQueue(task_queue) /\ l \in Level /\ s \in Slot
      /\ task_queue[l][s] \in PCB /\ UNCHANGED <<cpu, mode>>
  BY DEF CreateFill, CreateStack, CreateStatic, CreateParent, CalmInv, IInv,
              QueueInv, ShellInv, ShellRecord, TypedQueue
<1>2. \A c : /\ [task_queue[l][s] EXCEPT !.ctx = c].asid = task_queue[l][s].asid
             /\ [task_queue[l][s] EXCEPT !.prio = c].asid = task_queue[l][s].asid
             /\ [task_queue[l][s] EXCEPT !.ppid = c].asid = task_queue[l][s].asid
  BY <1>1 DEF PCB
<1>3. \E p : /\ task_queue' = [task_queue EXCEPT ![l][s] = p]
             /\ p.asid = task_queue[l][s].asid
  <2>1. CASE CreateFill
    <3>1. task_queue' = [task_queue EXCEPT ![l][s] = [@ EXCEPT !.ctx = Begun]]
      BY <2>1 DEF CreateFill
    <3> QED BY <1>1, <1>2, <3>1 DEF TypedQueue
  <2>2. CASE CreateStack
    <3>1. \E c : task_queue' = [task_queue EXCEPT ![l][s] = [@ EXCEPT !.ctx = c]]
      BY <1>1, <2>2 DEF CreateStack, TypedQueue
    <3> QED BY <1>1, <1>2, <3>1 DEF TypedQueue
  <2>3. CASE CreateStatic
    <3>1. task_queue' = [task_queue EXCEPT ![l][s] = [@ EXCEPT !.prio = l]]
      BY <2>3 DEF CreateStatic
    <3> QED BY <1>1, <1>2, <3>1 DEF TypedQueue
  <2>4. CASE CreateParent
    <3>1. task_queue' = [task_queue EXCEPT ![l][s] = [@ EXCEPT !.ppid = Current.asid]]
      BY <2>4 DEF CreateParent
    <3> QED BY <1>1, <1>2, <3>1 DEF TypedQueue
  <2> QED BY <2>1, <2>2, <2>3, <2>4
<1>4. \A m \in Level, t \in Slot : task_queue'[m][t].asid = task_queue[m][t].asid
  BY <1>1, <1>3, FieldWritten
<1> QED BY <1>1, <1>4

(* The processor runs a thread, after the step as well.                    *)
CpuThreaded == mode # "stopped" => cpu \in Thread

LEMMA OwnThread == CalmInv => CpuThreaded
BY QueueAsIs DEF CpuThreaded

LEMMA OwnThreadNext == CalmInv' /\ mode' # "stopped" => cpu' \in Thread
<1>1. CalmInv' => CpuThreaded'
  BY OwnThread, PTL
<1> QED BY <1>1 DEF CpuThreaded

(* Every step does to the table one of these.                              *)
LEMMA NextTable ==
  ASSUME Calm, CountInv, CalmInv, Next
  PROVE  TableStep
<1>1. IInv'
  BY StepIInv DEF CalmInv
<1>2. CASE Timer
  BY <1>2, ScheduleTable DEF Timer
<1>3. CASE do_fork
  <2>1. /\ mode = "user" /\ mode' \in {"user", "stopped"} /\ CalmInv'
        /\ mode' # "stopped" => Born(cpu')
    BY <1>1, <1>3, ForkCalm DEF do_fork, ProgramRuns
  <2>2. mode' # "stopped" => cpu' \in Thread /\ mode # "stopped"
    BY <2>1, OwnThreadNext
  <2> QED BY <2>1, <2>2 DEF TableStep, Born
<1>4. CASE Exit \/ Fault
  <2>1. PICK how \in {"exit", "fault"} :
          /\ mode = "user" /\ cpu # INIT /\ (how = "exit" => cpu > CLOCK)
          /\ pc_kill_syscall(how)
    BY <1>4, ExitFacts DEF Exit, Fault
  <2>2. /\ mode' = "user" => Died(cpu) /\ cpu' \in AsidsIn(task_queue') \ {INIT}
        /\ mode' \in {"exit", "fault"} => UNCHANGED <<task_queue, cpu>>
    BY <1>1, <2>1, SyscallCalm
  <2>3. mode' \in {"user", "exit", "fault", "stopped"}
    BY <1>1 DEF IInv, RestInv
  <2> QED BY <2>1, <2>2, <2>3 DEF TableStep
<1>5. CASE ExitDone
  BY <1>1, <1>5, ExitDoneCalm DEF TableStep, ExitDone
<1>6. ASSUME NEW who \in {"shell", "exit"}, KillNext(who)
      PROVE  TableStep
  <2>1. CASE KillVisit(who)
    BY <2>1, VisitKeeps, SameTable
  <2>2. CASE KillReturn(who)
    BY <2>2, SameTable DEF KillReturn, schedVars
  <2>3. CASE KillClear(who)
    <3>1. \/ AsidsIn(task_queue') = AsidsIn(task_queue)
          \/ \E p \in Pid \ {cpu} : Died(p)
      BY <1>1, <2>3, KillClearCalm
    <3>2. MayKill(who) /\ UNCHANGED <<cpu, mode>>
      BY <2>3 DEF KillClear
    <3>3. mode # "stopped"
      BY <3>2, KillFacts
    <3> QED BY <3>1, <3>2, <3>3 DEF TableStep
  <2> QED BY <1>6, <2>1, <2>2, <2>3 DEF KillNext
<1>8. CASE KillFree
  BY <1>8, SameTable DEF KillFree, schedVars
<1>7. CASE ShellNext
  <2>1. CASE CreateFill \/ CreateStack \/ CreateStatic \/ CreateParent
    BY <2>1, WriteKeeps, SameTable
  <2>2. CASE CreatePublish
    <3>1. Born(shell.pid) /\ shell.pid \in Thread
      BY <1>1, <2>2, CreatePublishCalm
    <3>2. mode = "user" /\ UNCHANGED <<cpu, mode>>
      BY <2>2 DEF CreatePublish, ShellAt, ShellRuns
    <3> QED BY <3>1, <3>2 DEF TableStep, Born
  <2>3. CASE pc_preempt_syscall
    BY <2>3, ScheduleTable DEF pc_preempt_syscall, ShellAt, ShellRuns
  <2>4. CASE UNCHANGED <<task_queue, cpu, mode>>
    BY <2>4, SameTable
  <2>5. ~CmdProc
    BY DEF CmdProc, Calm
  <2> QED BY <1>7, <2>1, <2>2, <2>3, <2>4, <2>5
           DEF ShellNext, CmdCreate, CmdKill, alt_kill_mode, ShellFree, ShellLoads,
               ShellSets, ShellCounts, CreateSearch, schedVars
<1> QED BY <1>2, <1>3, <1>4, <1>5, <1>6, <1>7, <1>8 DEF Next

(* Every such step is one of ProcessTable, or changes nothing there.       *)
LEMMA NextMapped ==
  ASSUME Calm, CountInv, CalmInv, CalmInv', PlainTable, PlainTable', [Next]_vars
  PROVE  [Table!Next]_(Table!tableVars)
<1> DEFINE A == AsidsIn(task_queue)
           dead == mode = "stopped"
<1>1. /\ TableProcs = [p \in IF mode = "stopped" THEN {} ELSE A |-> p]
      /\ TableRunning = IF mode = "stopped" THEN INIT ELSE cpu
      /\ TableProcs' = [p \in IF mode' = "stopped" THEN {} ELSE A' |-> p]
      /\ TableRunning' = IF mode' = "stopped" THEN INIT ELSE cpu'
  BY DEF PlainTable
<1>2. CASE UNCHANGED vars
  <2>1. UNCHANGED <<task_queue, curr_proc, curr_queue, cpu, mode>>
    BY <1>2 DEF vars, schedVars
  <2>2. UNCHANGED <<TableProcs, TableRunning>> /\ UNCHANGED dead
    BY <1>1, <2>1 DEF AsidsIn
  <2> QED BY <2>2 DEF Table!tableVars, TableProcs, TableRunning
<1>3. CASE Next
  <2>1. TableStep
    BY <1>3, NextTable
  <2>2. CASE mode # "stopped" /\ mode' = "stopped"
    <3>1. TableProcs' = [p \in {} |-> TableProcs[p]] /\ TableRunning' = INIT
      BY <1>1, <2>2
    <3>2. Table!Stop
      BY <2>2, <3>1 DEF Table!Stop, Table!Keep, TableProcs, TableRunning
    <3> QED BY <3>2 DEF Table!Next
  <2>3. CASE dead' = dead /\ A' = A /\ cpu' = cpu
    <3>1. UNCHANGED <<TableProcs, TableRunning>>
      BY <1>1, <2>3
    <3> QED BY <2>3, <3>1 DEF Table!tableVars, TableProcs, TableRunning
  <2>4. ASSUME mode # "stopped", mode' # "stopped"
        PROVE  /\ TableProcs = [p \in A |-> p] /\ TableProcs' = [p \in A' |-> p]
               /\ TableRunning = cpu /\ TableRunning' = cpu'
               /\ DOMAIN TableProcs = A /\ DOMAIN TableProcs' = A'
    BY <1>1, <2>4
  <2>5. CASE mode # "stopped" /\ mode' # "stopped" /\ A' = A /\ cpu' \in A \ {INIT}
    <3>1. TableRunning' \in DOMAIN TableProcs \ {INIT} /\ UNCHANGED TableProcs /\ UNCHANGED dead
      BY <2>4, <2>5
    <3>2. Table!Switch
      BY <2>5, <3>1 DEF Table!Switch, Table!Members, TableProcs, TableRunning
    <3> QED BY <3>2 DEF Table!Next
  <2>6. ASSUME mode # "stopped", mode' # "stopped",
               NEW p \in Pid \intersect Thread, Born(p), cpu' \in {cpu, p}
        PROVE  Table!Next
    <3>1. p \notin A /\ A' = A \union {p}
      BY <2>6 DEF Born
    <3>2. /\ p \notin DOMAIN TableProcs
          /\ \A q \in DOMAIN TableProcs : TableProcs[q] # p
          /\ TableProcs' = [q \in DOMAIN TableProcs \union {p} |->
                               IF q = p THEN p ELSE TableProcs[q]]
          /\ TableRunning' \in {TableRunning, p} /\ UNCHANGED dead
      BY <2>4, <2>6, <3>1
    <3>3. Table!Spawn(p, p)
      BY <2>6, <3>2 DEF Table!Spawn, Table!Members, TableProcs, TableRunning
    <3> QED BY <3>3 DEF Table!Next
  <2>7. ASSUME mode # "stopped", mode' # "stopped",
               NEW p \in Pid \ {cpu}, Died(p), cpu' = cpu
        PROVE  Table!Next
    <3>1. p \in A \ {INIT, SHELL} /\ A' = A \ {p}
      BY <2>7 DEF Died
    <3>2. /\ p \in DOMAIN TableProcs \ {INIT, SHELL, TableRunning}
          /\ TableProcs' = [q \in DOMAIN TableProcs \ {p} |-> TableProcs[q]]
          /\ UNCHANGED TableRunning /\ UNCHANGED dead
      BY <2>4, <2>7, <3>1
    <3>3. Table!Kill(p)
      BY <2>7, <3>2 DEF Table!Kill, Table!Members, Table!Keep, TableProcs, TableRunning
    <3> QED BY <3>3 DEF Table!Next
  <2>8. CASE /\ mode # "stopped" /\ mode' # "stopped"
             /\ Died(cpu) /\ cpu' \in A' \ {INIT}
    <3>1. cpu \in A \ {INIT, SHELL} /\ A' = A \ {cpu}
      BY <2>8 DEF Died
    <3>2. /\ TableRunning \notin {INIT, SHELL}
          /\ TableProcs' = [q \in DOMAIN TableProcs \ {TableRunning} |-> TableProcs[q]]
          /\ TableRunning' \in DOMAIN TableProcs' \ {INIT} /\ UNCHANGED dead
      BY <2>4, <2>8, <3>1
    <3>3. Table!Exit
      BY <2>8, <3>2 DEF Table!Exit, Table!Members, Table!Keep, TableProcs, TableRunning
    <3> QED BY <3>3 DEF Table!Next
  <2> QED BY <2>1, <2>2, <2>3, <2>5, <2>6, <2>7, <2>8 DEF TableStep
<1> QED BY <1>2, <1>3

(* The queues implement the table: pc_schedule, do_fork, pc_create,        *)
(* pc_kill and pc_kill_syscall do to it what ProcessTable allows, or       *)
(* nothing; no process is lost, doubled or given another's thread.         *)
THEOREM RefinesTable == ASSUME Calm PROVE Spec => ImplementsTable
<1>1. Init => Table!Init
  <2> SUFFICES ASSUME Init PROVE Table!Init
    OBVIOUS
  <2>1. CalmInv /\ mode = "user" /\ cpu = INIT
    BY InitCalm DEF Init
  <2>2. AsidsIn(task_queue) = {INIT, SHELL, 2}
    <3>1. kills.shell = <<>> /\ shell.pc = "prompt" /\ page = {INIT, SHELL, CLOCK}
      BY DEF Init, Prompt
    <3> QED BY <2>1, <3>1, IdleFacts DEF Pending, CLOCK
  <2>3. TableProcs = [p \in {INIT, SHELL, 2} |-> p] /\ TableRunning = INIT
    BY <2>1, <2>2, TableIs DEF PlainTable
  <2>4. {INIT, SHELL, 2} \subseteq Thread
    BY ProcessAssumption DEF Thread, INIT, SHELL
  <2> HIDE DEF TableProcs, TableRunning
  <2>5. /\ TableProcs \in [{INIT, SHELL, 2} -> Thread]
        /\ \A p, q \in DOMAIN TableProcs : p # q => TableProcs[p] # TableProcs[q]
    BY <2>3, <2>4
  <2> QED BY <2>1, <2>3, <2>5 DEF Table!Init, Table!Members, TableProcs, TableRunning
<1>2. CalmInv' => PlainTable'
  BY TableIs, PTL
<1>3. CountInv /\ CalmInv /\ CalmInv' /\ [Next]_vars => [Table!Next]_(Table!tableVars)
  BY <1>2, TableIs, NextMapped
<1> QED BY <1>1, <1>3, CalmInductive, PTL DEF Spec, ImplementsTable, Table!Spec

-----------------------------------------------------------------------------
(***************************************************************************)
(* The highest level runs.                                                 *)
(***************************************************************************)

(* No level above the one pc_schedule picks from has a ready process.      *)
LEMMA ScheduleTakesHighest ==
  ASSUME NEW q, NEW expired, NEW after, pc_schedule(q, expired, after)
  PROVE  mode' = "user" =>
           \A l \in Level : l > curr_queue' => ReadySlots(task_queue', l) = {}
<1>1. PICK r : Dispatch(r, after)
  BY DEF pc_schedule
<1>2. CASE ReadyLevels(r.queue) = {}
  BY <1>1, <1>2 DEF Dispatch
<1>3. CASE ReadyLevels(r.queue) # {}
  <2> DEFINE levels == ReadyLevels(r.queue)
             top == TopLevel(r.queue)
  <2>1. task_queue' = r.queue /\ curr_queue' = top
    BY <1>1, <1>3 DEF Dispatch
  <2>2. levels \subseteq 0..MAX_PRIO
    BY DEF ReadyLevels, Level
  <2>3. \E x \in levels : \A y \in levels : y <= x
    BY <1>3, <2>2, GreatestNat, ProcessAssumption
  <2>4. top \in levels /\ \A y \in levels : y <= top
    BY <2>3 DEF TopLevel
  <2>5. \A l \in Level : l > top => l \notin levels
    BY <2>2, <2>4 DEF Level
  <2> HIDE DEF top
  <2> QED BY <2>1, <2>5 DEF ReadyLevels
<1> QED BY <1>2, <1>3

(* Nobody becomes ready.                                                   *)
LEMMA HighestKept ==
  ASSUME HighestRuns, UNCHANGED <<curr_queue, cpu, mode>>,
         \A l \in Level, s \in Slot :
           task_queue'[l][s].asid \in {task_queue[l][s].asid, NoPid},
         \/ UNCHANGED shell
         \/ shell.pc \notin {"parent", "preempt"}
  PROVE  HighestRuns'
<1>1. \A l \in Level : ReadySlots(task_queue', l) \subseteq ReadySlots(task_queue, l)
  BY DEF ReadySlots, NoPid
<1> QED BY <1>1 DEF HighestRuns

(* A child joins the level of its parent, which runs.                      *)
LEMMA ForkHighest ==
  ASSUME Calm, CalmInv, HighestRuns, do_fork
  PROVE  HighestRuns'
<1>1. CASE mode' = "stopped"
  BY <1>1 DEF HighestRuns
<1>2. CASE mode' # "stopped"
  <2>1. /\ mode = "user" /\ cpu # INIT /\ Current.prio = curr_queue
        /\ UNCHANGED <<curr_queue, mode, shell>>
    <3>1. /\ ProgramRuns /\ UNCHANGED <<curr_queue, mode, shell>>
          /\ Current.prio = curr_queue \/ "fork_demoted" \in Allowed
      BY <1>2, Zenon DEF do_fork, schedVars
    <3> QED BY <3>1 DEF ProgramRuns, Calm, INIT, CLOCK, Torn
  <2>2. TypedQueue(task_queue)
    BY <2>1, QueueAsIs
  <2>3. ASSUME NEW m \in Level, m # curr_queue
        PROVE  task_queue'[m] = task_queue[m]
    <3> DEFINE pos   == Advance(curr_proc[curr_queue], FreeSlots(task_queue, curr_queue))
               named == [task_queue EXCEPT
                           ![curr_queue][pos].asid = AllocResult(AllocOffset)]
    <3>1. \E rec : task_queue' = [SaveContext(named) EXCEPT ![curr_queue][pos] = rec]
      BY <1>2, <2>1, Zenon DEF do_fork, schedVars
    <3>2. /\ DOMAIN task_queue = Level /\ named[m] = task_queue[m] /\ DOMAIN named = Level
      BY <2>2, <2>3 DEF TypedQueue
    <3> HIDE DEF named, pos
    <3>3. SaveContext(named)[m] = named[m] /\ DOMAIN SaveContext(named) = Level
      BY <2>3, <3>2 DEF SaveContext
    <3> QED BY <2>3, <3>1, <3>2, <3>3
  <2>4. \A m \in Level : m > curr_queue =>
          ReadySlots(task_queue', m) = ReadySlots(task_queue, m)
    BY <2>1, <2>3, QueueAsIs DEF ReadySlots, Level
  <2> QED BY <2>1, <2>4 DEF HighestRuns
<1> QED BY <1>1, <1>2


LEMMA NextHighest ==
  Calm /\ CalmInv /\ HighestRuns /\ [Next]_vars => HighestRuns'
<1> SUFFICES ASSUME Calm, CalmInv, HighestRuns, [Next]_vars PROVE HighestRuns'
  OBVIOUS
<1>1. ASSUME NEW q, NEW expired, NEW after, pc_schedule(q, expired, after)
      PROVE  HighestRuns'
  BY <1>1, ScheduleTakesHighest DEF HighestRuns
<1>2. CASE Timer \/ ExitDone \/ pc_preempt_syscall
  BY <1>1, <1>2 DEF Timer, ExitDone, pc_preempt_syscall
<1>3. CASE do_fork
  BY <1>3, ForkHighest
<1>4. CASE Exit \/ Fault
  <2>1. PICK how \in {"exit", "fault"} : pc_kill_syscall(how)
    BY <1>4 DEF Exit, Fault
  <2>2. CASE mode' = how
    BY <2>2 DEF HighestRuns
  <2> QED BY <1>1, <2>1, <2>2 DEF pc_kill_syscall
<1>5. ASSUME NEW who \in {"shell", "exit"}, KillNext(who)
      PROVE  HighestRuns'
  <2>1. CASE KillVisit(who)
    <3>1. UNCHANGED <<curr_queue, cpu, mode, shell>>
      BY <2>1 DEF KillVisit
    <3> QED BY <2>1, <3>1, VisitKeeps, HighestKept
  <2>2. CASE KillReturn(who)
    <3>1. UNCHANGED <<task_queue, curr_queue, cpu, mode, shell>>
      BY <2>2 DEF KillReturn, schedVars
    <3> QED BY <3>1, HighestKept
  <2>3. CASE KillClear(who)
    <3>1. MayKill(who) /\ UNCHANGED <<curr_queue, cpu, mode, shell>>
      BY <2>3 DEF KillClear
    <3>2. PICK l, s : task_queue' = [task_queue EXCEPT ![l][s] = Cleared(@)]
      BY <2>3 DEF KillClear
    <3>3. TypedQueue(task_queue)
      BY <3>1, KillFacts
    <3>4. \A m \in Level, t \in Slot :
            task_queue'[m][t].asid \in {task_queue[m][t].asid, NoPid}
      <4> SUFFICES ASSUME NEW m \in Level, NEW t \in Slot
                   PROVE  task_queue'[m][t].asid \in {task_queue[m][t].asid, NoPid}
        OBVIOUS
      <4>1. task_queue[m][t] \in PCB
        BY <3>3 DEF TypedQueue
      <4>2. Cleared(task_queue[m][t]).asid = NoPid
        BY <4>1 DEF Cleared, PCB
      <4>3. task_queue'[m][t] \in {task_queue[m][t], Cleared(task_queue[m][t])}
        BY <3>2, <3>3 DEF TypedQueue
      <4> QED BY <4>2, <4>3
    <3> QED BY <3>1, <3>4, HighestKept
  <2> QED BY <1>5, <2>1, <2>2, <2>3 DEF KillNext
<1>6. CASE KillFree
  <2>1. UNCHANGED <<task_queue, curr_queue, cpu, mode, shell>>
    BY <1>6 DEF KillFree, schedVars
  <2> QED BY <2>1, HighestKept
<1>7. CASE ShellNext
  <2>1. CASE CreateFill \/ CreateStack \/ CreateStatic
    <3>1. UNCHANGED curr_queue /\ shell.pc \notin {"parent", "preempt"}
      BY <2>1 DEF CreateFill, CreateStack, CreateStatic, ShellAt
    <3> QED BY <2>1, <3>1, WriteKeeps, HighestKept
  <2>2. CASE CreatePublish
    <3>1. /\ TypedQueue(task_queue) /\ shell.pc = "publish" /\ shell'.pc = "parent"
          /\ shell'.prio = shell.prio /\ UNCHANGED <<curr_queue, cpu, mode>>
      BY <2>2 DEF CreatePublish, ShellAt, CalmInv, IInv, QueueInv, ShellInv, ShellRecord
    <3>2. task_queue' = [task_queue EXCEPT ![shell.prio][shell.slot].asid = shell.pid]
      BY <2>2 DEF CreatePublish
    <3>3. \A l \in Level : l # shell.prio =>
            ReadySlots(task_queue', l) = ReadySlots(task_queue, l)
      BY <3>1, <3>2 DEF TypedQueue, ReadySlots
    <3> QED BY <3>1, <3>3 DEF HighestRuns
  <2>3. CASE CreateParent
    <3>1. /\ shell.pc = "parent" /\ Current.asid = cpu /\ cpu = SHELL
          /\ UNCHANGED <<curr_queue, cpu, mode>> /\ mode = "user"
      BY <2>3, ShellFacts DEF CreateParent, ShellAt
    <3>2. \A l \in Level : ReadySlots(task_queue', l) = ReadySlots(task_queue, l)
      BY <2>3, WriteKeeps DEF ReadySlots
    <3>3. /\ shell.prio > curr_queue => shell'.pc = "preempt" /\ shell'.prio = shell.prio
          /\ shell.prio \in Level /\ curr_queue \in Level
      BY <2>3, <3>1 DEF CreateParent, SHELL, Prompt, CalmInv, IInv, QueueInv, ShellInv,
                        ShellRecord
    <3> QED BY <3>1, <3>2, <3>3 DEF HighestRuns
  <2>4. CASE /\ UNCHANGED <<task_queue, curr_queue, cpu, mode>>
             /\ UNCHANGED shell \/ shell.pc \notin {"parent", "preempt"}
    BY <2>4, HighestKept
  <2>5. ~CmdProc
    BY DEF CmdProc, Calm
  <2> QED BY <1>2, <1>7, <2>1, <2>2, <2>3, <2>4, <2>5
           DEF ShellNext, CmdCreate, CmdKill, alt_kill_mode, ShellFree, ShellLoads,
               ShellSets, ShellCounts, CreateSearch, AtPrompt, ShellAt, schedVars
<1>8. CASE UNCHANGED vars
  <2>1. UNCHANGED <<task_queue, curr_queue, cpu, mode, shell>>
    BY <1>8 DEF vars, schedVars
  <2> QED BY <2>1, HighestKept
<1> QED BY <1>2, <1>3, <1>4, <1>5, <1>6, <1>7, <1>8 DEF Next

(* "Processes with higher priority is scheduled first" (pc_schedule): no    *)
(* program runs while a process is ready on a level above its own, except   *)
(* for the one pc_create has just published.                                *)
THEOREM CalmHighestRuns == ASSUME Calm PROVE Spec => []HighestRuns
<1>1. Init => HighestRuns
  BY DEF Init, HighestRuns
<1> QED BY <1>1, CalmInductive, NextHighest, PTL DEF Spec
=============================================================================
