------------------------------ MODULE FileStore -----------------------------
(***************************************************************************)
(* What the file system promises its callers: named files, each one a      *)
(* sequence of clusters.  A call names an operation and its arguments, and *)
(* takes effect when it is answered.  Saving overwrites from the start and *)
(* may extend; it does not truncate.  Without room it may have overwritten *)
(* a part.                                                                 *)
(***************************************************************************)
EXTENDS Integers, Sequences

CONSTANTS Path,    \* the names files may have
          Value,   \* what a cluster may hold
          MaxSave  \* bound: clusters saved at once

VARIABLES store,   \* the files there are, and what is in them
          call     \* the call under way: operation, files, what is saved

storeVars == <<store, call>>

Idle == call.op = "none"

Init == store = <<>> /\ Idle

Put(p, content) ==
  store' = [q \in DOMAIN store \union {p} |-> IF q = p THEN content ELSE store[q]]

Old(p) == IF p \in DOMAIN store THEN store[p] ELSE <<>>

Overwritten(content, v, n) ==
  [i \in 1 .. IF n > Len(content) THEN n ELSE Len(content) |->
     IF i <= n THEN v ELSE content[i]]

Create(p) == p \notin DOMAIN store /\ Put(p, <<>>)

Save(p, v, n) == Put(p, Overwritten(Old(p), v, n))

SaveInPart(p, v) ==
  \E m \in 0..Len(Old(p)) : Put(p, Overwritten(Old(p), v, m))

Remove(p) ==
  /\ p \in DOMAIN store
  /\ store' = [q \in DOMAIN store \ {p} |-> store[q]]

Move(p, q) ==
  /\ p \in DOMAIN store /\ q \notin DOMAIN store
  /\ store' = [r \in (DOMAIN store \ {p}) \union {q} |->
                 IF r = q THEN store[p] ELSE store[r]]

Invoke ==
  /\ Idle
  /\ \/ call'.op \in {"touch", "mkdir", "rm", "mv"}
     \/ call'.op = "vi" /\ call'.value \in Value /\ call'.count \in 1..MaxSave
  /\ {call'.src, call'.dst} \subseteq Path
  /\ UNCHANGED store

Answer ==
  /\ \/ call.op \in {"touch", "mkdir"} /\ Create(call.src)
     \/ /\ call.op = "vi"
        /\ Save(call.src, call.value, call.count) \/ SaveInPart(call.src, call.value)
     \/ call.op = "rm" /\ Remove(call.src)
     \/ call.op = "mv" /\ Move(call.src, call.dst)
  /\ call'.op = "none"

Next == Invoke \/ Answer

Spec == Init /\ [][Next]_storeVars
=============================================================================
