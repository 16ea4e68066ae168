---------------------------- MODULE ProcessTable ----------------------------
(***************************************************************************)
(* What process control promises, without queues, slots, levels or         *)
(* bitmaps: a table of processes, each one a thread of control with an     *)
(* identifier of its own, and one of them running.                         *)
(***************************************************************************)
EXTENDS Integers

CONSTANTS Pids,     \* the identifiers
          Threads,  \* the threads of control
          Idle,     \* the process that runs only until the first dispatch
          Shell     \* the process that kill refuses

VARIABLES
  procs,    \* the thread of every process, by identifier
  running,  \* the identifier of the running process
  dead      \* the system has stopped

tableVars == <<procs, running, dead>>

Members == DOMAIN procs

Init ==
  /\ procs \in [{Idle, Shell, 2} -> Threads]
  /\ \A p, q \in Members : p # q => procs[p] # procs[q]
  /\ running = Idle
  /\ dead = FALSE

Keep(S) == [p \in S |-> procs[p]]

(***************************************************************************)
(* The processor goes to some process of the table, never back to Idle.    *)
(***************************************************************************)
Switch ==
  /\ ~dead
  /\ running' \in Members \ {Idle}
  /\ UNCHANGED <<procs, dead>>

(***************************************************************************)
(* A new identifier and a new thread.  A fork runs the child at once.      *)
(***************************************************************************)
Spawn(p, t) ==
  /\ ~dead
  /\ p \notin Members
  /\ \A q \in Members : procs[q] # t
  /\ procs' = [q \in Members \union {p} |-> IF q = p THEN t ELSE procs[q]]
  /\ running' \in {running, p}
  /\ UNCHANGED dead

(***************************************************************************)
(* The Shell kills another process, neither Idle nor itself; a process     *)
(* that exits takes descendants with it in the same way.                   *)
(***************************************************************************)
Kill(p) ==
  /\ ~dead
  /\ p \in Members \ {Idle, Shell, running}
  /\ procs' = Keep(Members \ {p})
  /\ UNCHANGED <<running, dead>>

Exit ==
  /\ ~dead
  /\ running \notin {Idle, Shell}
  /\ procs' = Keep(Members \ {running})
  /\ running' \in DOMAIN procs' \ {Idle}
  /\ UNCHANGED dead

(***************************************************************************)
(* An exception nobody handles stops the system.                           *)
(***************************************************************************)
Stop ==
  /\ ~dead
  /\ dead' = TRUE
  /\ procs' = Keep({})
  /\ running' = Idle

Next ==
  \/ Switch
  \/ \E p \in Pids, t \in Threads : Spawn(p, t)
  \/ \E p \in Pids : Kill(p)
  \/ Exit
  \/ Stop

Spec == Init /\ [][Next]_tableVars
=============================================================================
