------------------------------ MODULE AtomicFS ------------------------------
(***************************************************************************)
(* What the log promises to the file system: the writes of the operations  *)
(* of a group become durable together, when none of them is active, and a  *)
(* crash takes the disk back to the last commit.                           *)
(***************************************************************************)
CONSTANTS Blocks, Vals, Ops, InitVal

VARIABLES
  stable,   \* what a crash would leave
  pending,  \* what the running operations see
  active    \* the operations between begin_op and end_op

vars == <<stable, pending, active>>

Init ==
  /\ stable = [b \in Blocks |-> InitVal] /\ pending = stable
  /\ active = {}

(* A group starts when the one before it is durable. *)
Begin(p) ==
  /\ p \notin active
  /\ active = {} => pending = stable
  /\ active' = active \cup {p}
  /\ UNCHANGED <<stable, pending>>

Write(p, b, v) ==
  /\ p \in active
  /\ pending' = [pending EXCEPT ![b] = v]
  /\ UNCHANGED <<stable, active>>

End(p) ==
  /\ active' = active \ {p}
  /\ UNCHANGED <<stable, pending>>

Commit ==
  /\ active = {}
  /\ stable' = pending
  /\ UNCHANGED <<pending, active>>

Crash ==
  /\ pending' = stable
  /\ active' = {}
  /\ UNCHANGED stable

Next ==
  \/ \E p \in Ops : Begin(p) \/ End(p) \/ \E b \in Blocks, v \in Vals : Write(p, b, v)
  \/ Commit \/ Crash

Spec == Init /\ [][Next]_vars

=============================================================================
