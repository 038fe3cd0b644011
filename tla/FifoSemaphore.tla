--------------------------- MODULE FifoSemaphore ---------------------------
(***************************************************************************)
(* What README promises of a semaphore: a counter that never goes below    *)
(* zero, and threads that wait for it in a queue.  A thread that raises    *)
(* the semaphore while others wait hands its unit to the first of them;    *)
(* that thread, and only that one, then returns from sem_down, and it      *)
(* does return: a wakeup is not lost.                                      *)
(***************************************************************************)
EXTENDS Integers, Sequences

CONSTANTS Threads, Sems, InitCount

VARIABLES
  value,    \* of a semaphore: the units that nobody holds
  queue,    \* of a semaphore: the threads waiting for it
  granted   \* the threads that have been handed a unit and have not returned

vars == <<value, queue, granted>>

Init ==
  /\ value = [s \in Sems |-> InitCount]
  /\ queue = [s \in Sems |-> << >>]
  /\ granted = {}

Waiting(t) == \E s \in Sems : \E i \in 1..Len(queue[s]) : queue[s][i] = t

Down(t, s) ==
  /\ ~Waiting(t) /\ t \notin granted
  /\ IF value[s] > 0
     THEN value' = [value EXCEPT ![s] = @ - 1] /\ UNCHANGED queue
     ELSE queue' = [queue EXCEPT ![s] = Append(@, t)] /\ UNCHANGED value
  /\ UNCHANGED granted

Up(s) ==
  IF queue[s] = << >>
  THEN value' = [value EXCEPT ![s] = @ + 1] /\ UNCHANGED <<queue, granted>>
  ELSE /\ granted' = granted \cup {Head(queue[s])}
       /\ queue' = [queue EXCEPT ![s] = Tail(@)]
       /\ UNCHANGED value

Return(t) ==
  /\ t \in granted
  /\ granted' = granted \ {t}
  /\ UNCHANGED <<value, queue>>

Next == \E t \in Threads : Return(t) \/ \E s \in Sems : Down(t, s) \/ Up(s)

(* what holds without any promise of progress *)
Safety == Init /\ [][Next]_vars

Spec == Safety /\ \A t \in Threads : WF_vars(Return(t))

=============================================================================
