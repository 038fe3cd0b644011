----------------------------- MODULE TicketLock -----------------------------
(***************************************************************************)
(* The ticket lock of the user library (ucthreads.c).  Both counters are   *)
(* unsigned ints that only grow, so they wrap around after M tickets.      *)
(***************************************************************************)
EXTENDS Integers, Sequences, FiniteSets

CONSTANTS
  Threads,
  M         \* the number of values of a uint

ASSUME ThreadsAssumption == IsFiniteSet(Threads)
(* At most NPROC threads exist, far fewer than 2^32. *)
ASSUME MAssumption == M \in Nat \ {0} /\ Cardinality(Threads) <= M

VARIABLES
  ticket, turn,  \* the lock
  mine, pc       \* of a thread: its ticket; idle, spinning or holding the lock

vars == <<ticket, turn, mine, pc>>

Init ==
  /\ ticket = 0 /\ turn = 0
  /\ mine = [t \in Threads |-> 0]
  /\ pc = [t \in Threads |-> "idle"]

(* x + 1 on a uint *)
Succ(x) == IF x + 1 = M THEN 0 ELSE x + 1

(* Mutation of Draw: the fetch and the add are not atomic. *)
DrawReadOnly(t) ==
  /\ pc[t] = "idle"
  /\ mine' = [mine EXCEPT ![t] = ticket]
  /\ ticket' = IF \E u \in Threads : pc[u] = "spin" THEN ticket ELSE Succ(ticket)
  /\ pc' = [pc EXCEPT ![t] = "spin"]
  /\ UNCHANGED turn

(* tlock_acquire: xaddl *)
Draw(t) ==
  /\ pc[t] = "idle"
  /\ mine' = [mine EXCEPT ![t] = ticket]
  /\ ticket' = Succ(ticket)
  /\ pc' = [pc EXCEPT ![t] = "spin"]
  /\ UNCHANGED turn

(* Mutation of Take: a comparison with < in place of !=. *)
TakeLess(t) ==
  /\ pc[t] = "spin"
  /\ turn >= mine[t]
  /\ pc' = [pc EXCEPT ![t] = "locked"]
  /\ UNCHANGED <<ticket, turn, mine>>

(* tlock_acquire: the read of turn that ends the loop *)
Take(t) ==
  /\ pc[t] = "spin"
  /\ turn = mine[t]
  /\ pc' = [pc EXCEPT ![t] = "locked"]
  /\ UNCHANGED <<ticket, turn, mine>>

(* Mutation of Release: turn does not move on. *)
ReleaseNothing(t) ==
  /\ pc[t] = "locked"
  /\ pc' = [pc EXCEPT ![t] = "idle"]
  /\ mine' = [mine EXCEPT ![t] = 0]
  /\ UNCHANGED <<ticket, turn>>

(* tlock_release; only the holder writes turn *)
Release(t) ==
  /\ pc[t] = "locked"
  /\ turn' = Succ(turn)
  /\ pc' = [pc EXCEPT ![t] = "idle"]
  /\ mine' = [mine EXCEPT ![t] = 0]
  /\ UNCHANGED ticket

Next == \E t \in Threads : Draw(t) \/ Take(t) \/ Release(t)

(* Every thread is scheduled, and leaves its critical section. *)
Spec == Init /\ [][Next]_vars
Fairness == \A t \in Threads : WF_vars(Take(t)) /\ WF_vars(Release(t))
FairSpec == Spec /\ Fairness

-----------------------------------------------------------------------------
Asked == {t \in Threads : pc[t] # "idle"}

(* how many releases a ticket is away from its turn *)
Wait(x) == IF x >= turn THEN x - turn ELSE x - turn + M

(* Both counters and every ticket are uints. *)
TypeOK ==
  /\ ticket \in 0..M - 1 /\ turn \in 0..M - 1
  /\ mine \in [Threads -> 0..M - 1]
  /\ pc \in [Threads -> {"idle", "spin", "locked"}]

(* Two threads never hold the lock together, also when the counters have   *)
(* wrapped around (tlock_acquire, tlock_release).                          *)
MutualExclusion ==
  \A t, u \in Threads : pc[t] = "locked" /\ pc[u] = "locked" => t = u

(* The tickets in use are the ones from turn up to ticket, one thread      *)
(* each, across the wrap-around: no two threads wait for the same turn     *)
(* and no turn comes that nobody waits for.                                *)
TicketsInUse ==
  /\ \A t, u \in Asked : mine[t] = mine[u] => t = u
  /\ \A t \in Asked : Wait(mine[t]) < Cardinality(Asked)
  /\ ticket = IF turn + Cardinality(Asked) >= M THEN turn + Cardinality(Asked) - M
              ELSE turn + Cardinality(Asked)

(* the threads in the order of their tickets, and the ones in the section *)
Queue == [i \in 1..Cardinality(Asked) |-> CHOOSE t \in Asked : Wait(mine[t]) = i - 1]
Holders == {t \in Threads : pc[t] = "locked"}

(* The lock is first come, first served, and the thread whose turn it is   *)
(* gets it.                                                                *)
Fifo == INSTANCE FifoLock WITH queue <- Queue, holder <- Holders

Implements == Fifo!Spec

(* A thread that asks for the lock gets it: nobody starves (tlock).        *)
NoStarvation == \A t \in Threads : (pc[t] = "spin") ~> (pc[t] = "locked")

=============================================================================
