----------------------------- MODULE BlockStore -----------------------------
(***************************************************************************)
(* What the buffer cache promises to the file system: a thread that has    *)
(* read a block holds it alone until it releases it, and sees what was     *)
(* last written to it, whether that has reached the disk or not.           *)
(***************************************************************************)
CONSTANTS Threads, Blocks, Vals, InitVal

VARIABLES
  content,   \* of a block
  holder     \* of a block: the set of threads that hold it

vars == <<content, holder>>

Init ==
  /\ content = [b \in Blocks |-> InitVal]
  /\ holder = [b \in Blocks |-> {}]

Acquire(t, b) ==
  /\ holder[b] = {}
  /\ holder' = [holder EXCEPT ![b] = {t}]
  /\ UNCHANGED content

Modify(t, b) ==
  /\ t \in holder[b]
  /\ \E v \in Vals : content' = [content EXCEPT ![b] = v]
  /\ UNCHANGED holder

Release(t, b) ==
  /\ t \in holder[b]
  /\ holder' = [holder EXCEPT ![b] = {}]
  /\ UNCHANGED content

Next == \E t \in Threads, b \in Blocks : Acquire(t, b) \/ Modify(t, b) \/ Release(t, b)

Spec == Init /\ [][Next]_vars
=============================================================================
