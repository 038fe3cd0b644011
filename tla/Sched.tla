------------------------------- MODULE Sched --------------------------------
(***************************************************************************)
(* CPUs, spinlocks and context switches (spinlock.c, and scheduler, sched, *)
(* yield, forkret, sleep and wakeup of proc.c), below the level at which   *)
(* module Proc sees a thread run.  The threads call sleep (sys_sleep); the *)
(* timer interrupts every CPU that lets it, and CPU 0 counts the ticks     *)
(* (trap.c).                                                               *)
(*                                                                         *)
(* A context is a thread or the scheduler of a CPU.  What is left of its   *)
(* execution is a sequence of steps, code; a CPU runs the first one of the *)
(* context that it is in, and an interrupt puts its handler in front.      *)
(* Nobody is killed here.                                                  *)
(***************************************************************************)
EXTENDS Integers, Sequences, FiniteSets

CONSTANTS
  Cpus, cpu0,
  Threads,
  N,        \* the argument of sleep
  W         \* ticks is an unsigned number below W

Locks == {"ptable", "tickslock"}
Free == "none"

VARIABLES
  lock,     \* of a spinlock: the CPU that holds it, or Free
  cur,      \* of a CPU: the context whose stack it is on; itself for its scheduler
  proc,     \* of a CPU: mycpu()->proc, or Free
  ncli, intena,  \* of a CPU
  FL_IF,    \* of a CPU: interrupts are enabled
  code,     \* of a context
  state, chan,   \* of a thread
  saved,    \* of a thread: the local intena of sched
  ticks, ticks0, \* ticks0 is the local of sys_sleep
  panicked

cpuv == <<cur, proc, ncli, intena, FL_IF>>
vars == <<lock, cpuv, code, state, chan, saved, ticks, ticks0, panicked>>

-----------------------------------------------------------------------------
acquire(l) == <<"acquire", l>>
release(l) == <<"release", l>>
do(s) == <<"do", s>>

sched == <<do("swtch"), do("sched_return")>>

(* Mutation of yield: ptable.lock is released before the stack is left. *)
yieldEarly == <<acquire("ptable"), do("RUNNABLE"), release("ptable")>> \o sched

yield == <<acquire("ptable"), do("RUNNABLE")>> \o sched \o <<release("ptable")>>
forkret == <<release("ptable"), do("iret")>>
scheduler == <<do("sti"), acquire("ptable"), do("loop")>>
wakeup == <<acquire("ptable"), do("wakeup1"), release("ptable")>>

(* Mutation of sleep: lk is released before ptable.lock is taken. *)
sleepGap == <<release("tickslock"), acquire("ptable"), do("SLEEPING")>> \o sched
            \o <<do("tidy"), release("ptable"), acquire("tickslock")>>

(* sleep(&ticks, &tickslock) *)
sleep == <<acquire("ptable"), release("tickslock"), do("SLEEPING")>> \o sched
         \o <<do("tidy"), release("ptable"), acquire("tickslock")>>

(* trap for the timer, and the return from it *)
timer(c) == (IF c = cpu0 THEN <<acquire("tickslock"), do("tick")>> \o wakeup \o <<release("tickslock")>>
             ELSE << >>)
            \o <<do("tick_yield"), do("iret")>>

sys_sleep == <<acquire("tickslock"), do("ticks0"), do("test")>>

(* The CPUs are in their schedulers, and the threads have been made by     *)
(* fork, to start in forkret.                                              *)
Init ==
  /\ lock = [l \in Locks |-> Free]
  /\ cur = [c \in Cpus |-> c] /\ proc = [c \in Cpus |-> Free]
  /\ ncli = [c \in Cpus |-> 0] /\ intena = [c \in Cpus |-> FALSE] /\ FL_IF = [c \in Cpus |-> FALSE]
  /\ code = [x \in Threads \cup Cpus |-> IF x \in Cpus THEN scheduler ELSE forkret]
  /\ state = [t \in Threads |-> "RUNNABLE"] /\ chan = [t \in Threads |-> Free]
  /\ saved = [t \in Threads |-> FALSE]
  /\ ticks = 0 /\ ticks0 = [t \in Threads |-> 0]
  /\ panicked = FALSE

-----------------------------------------------------------------------------
(* CPU c is at a step, and goes on with others *)
At(c, s) == code[cur[c]] # << >> /\ Head(code[cur[c]]) = s /\ ~panicked
Go(c, steps) == code' = [code EXCEPT ![cur[c]] = steps \o Tail(@)]

Unlocked == UNCHANGED <<state, chan, saved, ticks, ticks0>>

(* Mutation of Acquire: interrupts stay as they are. *)
AcquireNoCli(c, l) ==
  /\ At(c, acquire(l)) /\ lock[l] \in {Free, c}
  /\ panicked' = (lock[l] = c)
  /\ lock' = [lock EXCEPT ![l] = c]
  /\ intena' = [intena EXCEPT ![c] = IF ncli[c] = 0 THEN FL_IF[c] ELSE @]
  /\ ncli' = [ncli EXCEPT ![c] = @ + 1]
  /\ Go(c, << >>)
  /\ Unlocked /\ UNCHANGED <<cur, proc, FL_IF>>

(* acquire: pushcli and the xchg that succeeds.  While it spins the CPU    *)
(* does nothing else.                                                      *)
Acquire(c, l) ==
  /\ At(c, acquire(l)) /\ lock[l] \in {Free, c}
  /\ panicked' = (lock[l] = c)
  /\ lock' = [lock EXCEPT ![l] = c]
  /\ intena' = [intena EXCEPT ![c] = IF ncli[c] = 0 THEN FL_IF[c] ELSE @]
  /\ ncli' = [ncli EXCEPT ![c] = @ + 1]
  /\ FL_IF' = [FL_IF EXCEPT ![c] = FALSE]
  /\ Go(c, << >>)
  /\ Unlocked /\ UNCHANGED <<cur, proc>>

(* release, with popcli *)
Release(c, l) ==
  /\ At(c, release(l))
  /\ panicked' = (lock[l] # c \/ FL_IF[c] \/ ncli[c] < 1)
  /\ lock' = [lock EXCEPT ![l] = Free]
  /\ ncli' = [ncli EXCEPT ![c] = @ - 1]
  /\ FL_IF' = [FL_IF EXCEPT ![c] = ncli[c] = 1 /\ intena[c]]
  /\ Go(c, << >>)
  /\ Unlocked /\ UNCHANGED <<cur, proc, intena>>

(* the other steps, each under a lock or on data of its own CPU or thread *)
Local(c, s) == At(c, do(s)) /\ UNCHANGED <<lock, ncli, panicked>>

Sti(c) ==
  /\ Local(c, "sti")
  /\ FL_IF' = [FL_IF EXCEPT ![c] = TRUE]
  /\ Go(c, << >>)
  /\ Unlocked /\ UNCHANGED <<cur, proc, intena>>

(* scheduler, the loop: a thread that is RUNNABLE, or the end of the table *)
Scheduler(c) ==
  /\ Local(c, "loop")
  /\ proc' = [proc EXCEPT ![c] = Free]
  /\ Go(c, <<release("ptable")>> \o scheduler)
  /\ Unlocked /\ UNCHANGED <<cur, intena, FL_IF>>

Pick(c, t) ==
  /\ Local(c, "loop") /\ state[t] = "RUNNABLE"
  /\ proc' = [proc EXCEPT ![c] = t]
  /\ state' = [state EXCEPT ![t] = "RUNNING"]
  /\ cur' = [cur EXCEPT ![c] = t]
  /\ UNCHANGED <<intena, FL_IF, code, chan, saved, ticks, ticks0>>

SetState(c, s) ==
  /\ Local(c, s) /\ s \in {"RUNNABLE", "SLEEPING"}
  /\ state' = [state EXCEPT ![proc[c]] = s]
  /\ chan' = IF s = "SLEEPING" THEN [chan EXCEPT ![proc[c]] = "ticks"] ELSE chan
  /\ Go(c, << >>)
  /\ UNCHANGED <<cur, proc, intena, FL_IF, saved, ticks, ticks0>>

(* sched and swtch, to the scheduler of the CPU *)
Swtch(c) ==
  LET t == proc[c] IN
  /\ At(c, do("swtch"))
  /\ panicked' = (lock["ptable"] # c \/ ncli[c] # 1 \/ state[t] = "RUNNING" \/ FL_IF[c])
  /\ saved' = [saved EXCEPT ![t] = intena[c]]
  /\ cur' = [cur EXCEPT ![c] = c]
  /\ proc' = [proc EXCEPT ![c] = Free]
  /\ Go(c, << >>)
  /\ UNCHANGED <<lock, ncli, intena, FL_IF, state, chan, ticks, ticks0>>

(* sched after swtch, maybe on another CPU *)
SchedReturn(c) ==
  /\ Local(c, "sched_return")
  /\ intena' = [intena EXCEPT ![c] = saved[proc[c]]]
  /\ Go(c, << >>)
  /\ Unlocked /\ UNCHANGED <<cur, proc, FL_IF>>

Tidy(c) ==
  /\ Local(c, "tidy")
  /\ chan' = [chan EXCEPT ![proc[c]] = Free]
  /\ Go(c, << >>)
  /\ UNCHANGED <<cur, proc, intena, FL_IF, state, saved, ticks, ticks0>>

Wakeup1(c) ==
  /\ Local(c, "wakeup1")
  /\ state' = [t \in Threads |-> IF state[t] = "SLEEPING" /\ chan[t] = "ticks" THEN "RUNNABLE" ELSE state[t]]
  /\ Go(c, << >>)
  /\ UNCHANGED <<cur, proc, intena, FL_IF, chan, saved, ticks, ticks0>>

-----------------------------------------------------------------------------
(* An interrupt of the timer: the gate turns interrupts off. *)
Interrupt(c) ==
  /\ FL_IF[c] /\ ~panicked
  /\ FL_IF' = [FL_IF EXCEPT ![c] = FALSE]
  /\ code' = [code EXCEPT ![cur[c]] = timer(c) \o @]
  /\ Unlocked /\ UNCHANGED <<lock, cur, proc, ncli, intena, panicked>>

Tick(c) ==
  /\ Local(c, "tick")
  /\ ticks' = (ticks + 1) % W
  /\ Go(c, << >>)
  /\ UNCHANGED <<cur, proc, intena, FL_IF, state, chan, saved, ticks0>>

(* trap: a thread that runs gives the CPU up on a tick *)
TickYield(c) ==
  /\ Local(c, "tick_yield")
  /\ Go(c, IF proc[c] # Free /\ state[proc[c]] = "RUNNING" THEN yield ELSE << >>)
  /\ Unlocked /\ UNCHANGED <<cur, proc, intena, FL_IF>>

(* trapret *)
Iret(c) ==
  /\ Local(c, "iret")
  /\ FL_IF' = [FL_IF EXCEPT ![c] = TRUE]
  /\ Go(c, << >>)
  /\ Unlocked /\ UNCHANGED <<cur, proc, intena>>

(* A thread in user space calls sleep; interrupts stay on in a system call. *)
Syscall(c) ==
  /\ cur[c] \in Threads /\ code[cur[c]] = << >> /\ ~panicked
  /\ code' = [code EXCEPT ![cur[c]] = sys_sleep]
  /\ Unlocked /\ UNCHANGED <<lock, cpuv, panicked>>

Ticks0(c) ==
  /\ Local(c, "ticks0")
  /\ ticks0' = [ticks0 EXCEPT ![proc[c]] = ticks]
  /\ Go(c, << >>)
  /\ UNCHANGED <<cur, proc, intena, FL_IF, state, chan, saved, ticks>>

Elapsed(t) == (ticks - ticks0[t]) % W >= N

(* the loop of sys_sleep *)
Test(c) ==
  /\ Local(c, "test")
  /\ Go(c, IF Elapsed(proc[c]) THEN <<release("tickslock")>> ELSE sleep \o <<do("test")>>)
  /\ ticks0' = IF Elapsed(proc[c]) THEN [ticks0 EXCEPT ![proc[c]] = 0] ELSE ticks0
  /\ UNCHANGED <<cur, proc, intena, FL_IF, state, chan, saved, ticks>>

Next ==
  \E c \in Cpus :
    \/ \E l \in Locks : Acquire(c, l) \/ Release(c, l)
    \/ \E t \in Threads : Pick(c, t)
    \/ \E s \in {"RUNNABLE", "SLEEPING"} : SetState(c, s)
    \/ Sti(c) \/ Scheduler(c) \/ Swtch(c) \/ SchedReturn(c) \/ Tidy(c) \/ Wakeup1(c)
    \/ Interrupt(c) \/ Tick(c) \/ TickYield(c) \/ Iret(c)
    \/ Syscall(c) \/ Ticks0(c) \/ Test(c)

Spec == Init /\ [][Next]_vars

-----------------------------------------------------------------------------
(* No assertion of spinlock.c and sched fails: a CPU never takes a lock it *)
(* holds or gives back one it does not, also when a timer interrupt comes  *)
(* in between; and a thread that gives up its CPU has ptable.lock, and no  *)
(* other lock, with interrupts off.                                        *)
NoPanic == ~panicked

(* A thread is on one CPU at most, the one whose proc it is, and is        *)
(* RUNNING from when it is picked until, with ptable.lock held, it has     *)
(* changed its state and left its stack.                                   *)
OnOneCpu ==
  /\ \A t \in Threads : Cardinality({c \in Cpus : cur[c] = t}) <= 1
  /\ \A c \in Cpus : cur[c] \in Threads =>
       /\ proc[c] = cur[c]
       /\ state[cur[c]] # "RUNNING" => lock["ptable"] = c
  /\ \A t \in Threads : state[t] = "RUNNING" => \E c \in Cpus : cur[c] = t

(* No wakeup is lost between the test of a condition and the sleep: while  *)
(* nobody has tickslock, who sleeps on ticks has a tick to wait for.       *)
NoLostWakeup ==
  lock["tickslock"] = Free =>
    \A t \in Threads : state[t] = "SLEEPING" => ~Elapsed(t)
=============================================================================
