------------------------------ MODULE FifoLock ------------------------------
(***************************************************************************)
(* A lock that is granted in the order in which it was asked for.          *)
(***************************************************************************)
EXTENDS Sequences

CONSTANT Threads

VARIABLES
  queue,   \* the threads that asked, oldest first
  holder   \* the threads that hold the lock

vars == <<queue, holder>>

Init == queue = << >> /\ holder = {}

Ask(t) ==
  /\ \A i \in DOMAIN queue : queue[i] # t
  /\ queue' = Append(queue, t)
  /\ UNCHANGED holder

Take(t) ==
  /\ queue # << >> /\ Head(queue) = t
  /\ holder = {}
  /\ holder' = {t}
  /\ UNCHANGED queue

Release(t) ==
  /\ holder = {t}
  /\ holder' = {}
  /\ queue' = Tail(queue)

Next == \E t \in Threads : Ask(t) \/ Take(t) \/ Release(t)

(* The lock is granted in the order of the queue. *)
Safety == Init /\ [][Next]_vars

(* The first in the queue gets the lock when it is free. *)
Spec == Safety /\ \A t \in Threads : WF_vars(Take(t))

=============================================================================
