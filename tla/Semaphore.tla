----------------------------- MODULE Semaphore -----------------------------
(***************************************************************************)
(* The blocking semaphore of the user library (ucthreads.c): a count and a *)
(* ring of waiting thread ids under a spinlock, on top of the system calls *)
(* park and unpark (proc.c).  Any number of threads use any number of      *)
(* semaphores; none of them is killed while it waits.                      *)
(*                                                                         *)
(* The code between slock_acquire and the next write that is not covered   *)
(* by the guard is one step; park and unpark run under ptable.lock and are *)
(* one step each.                                                          *)
(***************************************************************************)
EXTENDS Integers, Sequences, FiniteSets

CONSTANTS
  Threads,    \* thread ids
  Sems,       \* semaphores; one also stands for the address of its count
  QMAX,       \* size of the ring
  InitCount,  \* n of sem_init
  MaxCount    \* bound: no sem_up while the count is this high

(* README: behaviour is undefined when more threads wait than fit the queue *)
Assumptions ==
  /\ Threads \subseteq Nat \ {0} /\ IsFiniteSet(Threads)
  /\ QMAX \in Nat \ {0} /\ Cardinality(Threads) <= QMAX
  /\ InitCount \in Nat /\ MaxCount \in Nat
  /\ 0 \notin Sems

VARIABLES
  guard, count, arr, start, end, len,  \* of a semaphore; len is waitq.count
  state, chan, lostwakeup,             \* of a thread, in the kernel
  pc, sem, pid                         \* of a thread: where it is, and its locals

queuev  == <<arr, start, end, len>>
kernelv == <<state, chan, lostwakeup>>
vars    == <<guard, count, queuev, kernelv, pc, sem, pid>>

-----------------------------------------------------------------------------
(* sem_init, qinit *)
Init ==
  /\ guard = [s \in Sems |-> FALSE]
  /\ count = [s \in Sems |-> InitCount]
  /\ arr = [s \in Sems |-> [i \in 0..QMAX - 1 |-> 0]]
  /\ start = [s \in Sems |-> 0] /\ end = [s \in Sems |-> 0] /\ len = [s \in Sems |-> 0]
  /\ state = [t \in Threads |-> "RUNNABLE"]
  /\ chan = [t \in Threads |-> 0] /\ lostwakeup = [t \in Threads |-> 0]
  /\ pc = [t \in Threads |-> "idle"]
  /\ sem = [t \in Threads |-> 0] /\ pid = [t \in Threads |-> 0]

enq(s, x) ==
  /\ arr' = [arr EXCEPT ![s][end[s]] = x]
  /\ end' = [end EXCEPT ![s] = (@ + 1) % QMAX]
  /\ len' = [len EXCEPT ![s] = @ + 1]
  /\ UNCHANGED start

deq(s) ==
  /\ start' = [start EXCEPT ![s] = (@ + 1) % QMAX]
  /\ len' = [len EXCEPT ![s] = @ - 1]
  /\ UNCHANGED <<arr, end>>

At(t, l) == pc[t] = l /\ state[t] = "RUNNABLE"
GoTo(t, l) == pc' = [pc EXCEPT ![t] = l]

(* slock_acquire, with which a call on semaphore s begins *)
Enter(t, s) ==
  /\ At(t, "idle")
  /\ ~guard[s]
  /\ guard' = [guard EXCEPT ![s] = TRUE]
  /\ sem' = [sem EXCEPT ![t] = s]

(* slock_release *)
Leave(t) == guard' = [guard EXCEPT ![sem[t]] = FALSE]

(* the end of a call, and of its locals *)
Return(t) ==
  /\ GoTo(t, "idle")
  /\ sem' = [sem EXCEPT ![t] = 0]
  /\ pid' = [pid EXCEPT ![t] = 0]

(* sem_up, up to the call of unpark *)
Up(t, s) ==
  /\ Enter(t, s)
  /\ count[s] < MaxCount
  /\ count' = [count EXCEPT ![s] = @ + 1]
  /\ IF count'[s] <= 0
     THEN /\ pid' = [pid EXCEPT ![t] = arr[s][start[s]]]
          /\ deq(s)
          /\ GoTo(t, "unpark")
     ELSE GoTo(t, "release") /\ UNCHANGED <<queuev, pid>>
  /\ UNCHANGED kernelv

(* sem_down, up to slock_release *)
Down(t, s) ==
  /\ Enter(t, s)
  /\ count' = [count EXCEPT ![s] = @ - 1]
  /\ IF count'[s] < 0
     THEN enq(s, t) /\ GoTo(t, "wait")
     ELSE GoTo(t, "release") /\ UNCHANGED queuev
  /\ UNCHANGED <<kernelv, pid>>

Release(t) ==
  /\ At(t, "release")
  /\ Leave(t)
  /\ Return(t)
  /\ UNCHANGED <<count, queuev, kernelv>>

WaitRelease(t) ==
  /\ At(t, "wait")
  /\ Leave(t)
  /\ GoTo(t, "park")
  /\ UNCHANGED <<count, queuev, kernelv, sem, pid>>

(* Mutation of Unpark: an unpark that comes too early is lost. *)
UnparkForgets(t) ==
  /\ At(t, "unpark")
  /\ IF state[pid[t]] = "SLEEPING" /\ chan[pid[t]] = sem[t]
     THEN /\ state' = [state EXCEPT ![pid[t]] = "RUNNABLE"]
          /\ chan' = [chan EXCEPT ![pid[t]] = 0]
     ELSE UNCHANGED <<state, chan>>
  /\ GoTo(t, "release")
  /\ UNCHANGED <<guard, count, queuev, lostwakeup, sem, pid>>

(* The kernel: an unpark that comes before its park is remembered. *)
Unpark(t) ==
  /\ At(t, "unpark")
  /\ IF state[pid[t]] = "SLEEPING" /\ chan[pid[t]] = sem[t]
     THEN /\ state' = [state EXCEPT ![pid[t]] = "RUNNABLE"]
          /\ chan' = [chan EXCEPT ![pid[t]] = 0]
          /\ UNCHANGED lostwakeup
     ELSE /\ lostwakeup' = [lostwakeup EXCEPT ![pid[t]] = sem[t]]
          /\ UNCHANGED <<state, chan>>
  /\ GoTo(t, "release")
  /\ UNCHANGED <<guard, count, queuev, sem, pid>>

(* Mutation of Park: a remembered unpark is not used up. *)
ParkKeepsWakeup(t) ==
  /\ At(t, "park")
  /\ IF lostwakeup[t] = sem[t]
     THEN Return(t) /\ UNCHANGED <<state, chan>>
     ELSE /\ state' = [state EXCEPT ![t] = "SLEEPING"]
          /\ chan' = [chan EXCEPT ![t] = sem[t]]
          /\ GoTo(t, "parked")
          /\ UNCHANGED <<sem, pid>>
  /\ UNCHANGED <<guard, count, queuev, lostwakeup>>

Park(t) ==
  /\ At(t, "park")
  /\ lostwakeup' = [lostwakeup EXCEPT ![t] = 0]
  /\ IF lostwakeup[t] = sem[t]
     THEN Return(t) /\ UNCHANGED <<state, chan>>
     ELSE /\ state' = [state EXCEPT ![t] = "SLEEPING"]
          /\ chan' = [chan EXCEPT ![t] = sem[t]]
          /\ GoTo(t, "parked")
          /\ UNCHANGED <<sem, pid>>
  /\ UNCHANGED <<guard, count, queuev>>

ParkReturn(t) ==
  /\ At(t, "parked")
  /\ chan' = [chan EXCEPT ![t] = 0]
  /\ Return(t)
  /\ UNCHANGED <<guard, count, queuev, state, lostwakeup>>

(* what a thread does once it is inside a call *)
Step(t) == Release(t) \/ WaitRelease(t) \/ Unpark(t) \/ Park(t) \/ ParkReturn(t)

Next == \E t \in Threads : Step(t) \/ \E s \in Sems : Up(t, s) \/ Down(t, s)

(* The scheduler runs every thread.  Nothing is assumed of the spinlock    *)
(* guard, which is not fair: a thread may spin in slock_acquire for ever.  *)
Spec == Init /\ [][Next]_vars /\ \A t \in Threads : WF_vars(Step(t))

-----------------------------------------------------------------------------
(* the threads in the ring, oldest first *)
Waiters(s) == [i \in 1..len[s] |-> arr[s][(start[s] + i - 1) % QMAX]]

InCall(t) == pc[t] \in {"wait", "park", "parked"}
Queued(t) == \E s \in Sems : \E i \in 1..len[s] : Waiters(s)[i] = t

(* A wakeup is spent exactly once.  A thread outside sem_down has no       *)
(* remembered wakeup, which would let a later sem_down through (park,      *)
(* unpark); a thread still in the ring has neither been woken nor been     *)
(* given a remembered wakeup.                                              *)
WakeupSpentOnce ==
  \A t \in Threads :
     /\ lostwakeup[t] # 0 => InCall(t) /\ ~Queued(t) /\ lostwakeup[t] = sem[t]
     /\ Queued(t) => lostwakeup[t] = 0 /\ (pc[t] = "parked" => state[t] = "SLEEPING")

(* what an abstract semaphore would hold: the units that nobody holds, the *)
(* threads waiting, and those that have been given a unit but not returned *)
Value == [s \in Sems |-> IF count[s] > 0 THEN count[s] ELSE 0]
Queue == [s \in Sems |-> Waiters(s)]
Granted == {t \in Threads : InCall(t) /\ ~Queued(t)}

Fifo == INSTANCE FifoSemaphore WITH value <- Value, queue <- Queue, granted <- Granted

(* sem_up and sem_down implement a first-come-first-served semaphore: a    *)
(* unit goes to the thread that has waited longest, nobody else returns    *)
(* from a sem_down that blocked, and a thread that was given a unit does   *)
(* return (README: "does not suffer from lost wakeups").                   *)
Implements == Fifo!Spec

=============================================================================
