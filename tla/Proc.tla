-------------------------------- MODULE Proc --------------------------------
(***************************************************************************)
(* The process table of xv6-kthreads: processes that are groups of kernel  *)
(* threads (proc.c), the thread-killing part of exec (exec.c), the checks  *)
(* of p->killed at the kernel boundary (trap.c) and the program of the     *)
(* first process (init.c).                                                 *)
(*                                                                         *)
(* A slot of ptable.proc is a number in 1..NPROC, in table order, and 0 is *)
(* the null pointer.  Every field of struct proc that the code below reads *)
(* is a function on the slots.  pc[p] is where the thread of slot p is     *)
(* inside the kernel.  A critical section under ptable.lock is one step    *)
(* (spinlock.c makes it so); a stretch of code outside the lock is one     *)
(* step up to the next write that another thread can observe.              *)
(*                                                                         *)
(* RUNNABLE stands for the code's RUNNABLE and RUNNING: nothing here tells *)
(* them apart, and any RUNNABLE thread may take the next step, which is    *)
(* what several CPUs and a preemptive scheduler allow.                     *)
(***************************************************************************)
EXTENDS Integers, FiniteSets

CONSTANTS
  NPROC,    \* size of ptable.proc
  MaxPid,   \* bound: no thread is created once nextpid exceeds it
  Calls,    \* the system calls that user programs make
  Chans,    \* the user addresses that park and unpark are called with
  Rules     \* what the user programs promise (see Keeps)

ASSUME NPROCAssumption == NPROC \in Nat /\ NPROC >= 1
ASSUME MaxPidAssumption == MaxPid \in Nat /\ MaxPid >= 1
ASSUME CallsAssumption ==
  Calls \subseteq {"fork", "clone", "wait", "join", "exit", "kill", "park", "unpark",
                   "exec", "fault"}

Slots == 1..NPROC
Ptr == 0..NPROC
initproc == 1

ASSUME ChansAssumption == Chans \cap Ptr = {}

(* Page directories are numbered; the machine has room for one more than   *)
(* there are slots, so that exec finds a page while all slots are in use.  *)
PgIds == 1..(NPROC + 1)

VARIABLES
  state,        \* UNUSED, EMBRYO, SLEEPING, RUNNABLE (or RUNNING), ZOMBIE
  pid, tgid,    \* thread id, thread group id; 0 when cleared
  process,      \* the thread group leader
  parent,       \* the thread group leader of the parent process
  chan,         \* what a SLEEPING thread sleeps on
  killed,
  lostwakeup,   \* an unpark that came before its park
  threadcount,  \* of a leader: the threads that are alive
  pgdir,        \* page directory
  cwd,          \* of a leader: holds a reference to the working directory
  nextpid,
  pgs,          \* the page directories that are allocated
  pc, np, tmp,  \* kernel program counter, local slot pointer, local integer
  panicked      \* the message of panic(), or "no"

ids    == <<pid, tgid, process, parent, nextpid>>
sleepv == <<chan, lostwakeup>>
mem    == <<pgdir, pgs, cwd>>
locals == <<np, tmp>>
vars   == <<state, ids, sleepv, killed, threadcount, mem, pc, locals, panicked>>

States == {"UNUSED", "EMBRYO", "SLEEPING", "RUNNABLE", "ZOMBIE"}

Creating == {"fork2", "fork3", "fork4", "clone2", "clone3", "clone4"}

Pcs == {"none", "user", "fork", "clone", "wait", "join", "kill", "park", "parked",
        "unpark", "exec", "exec2", "exec3", "exec4", "exec5",
        "exit", "exitcwd", "exit2"} \cup Creating

-----------------------------------------------------------------------------
First(S) == CHOOSE s \in S : \A t \in S : s <= t

Alive(p) == state[p] \in {"SLEEPING", "RUNNABLE"}

(* The threads that README's note on threadcount counts. *)
LiveThreads(l) == {q \in Slots : process[q] = l /\ Alive(q)}

At(p, l) == state[p] = "RUNNABLE" /\ pc[p] = l /\ panicked = "no"

GoTo(p, l) == pc' = [pc EXCEPT ![p] = l]

(* Back to user space; the locals of the call are gone. *)
Return(p) ==
  /\ GoTo(p, "user")
  /\ np' = [np EXCEPT ![p] = 0]
  /\ tmp' = [tmp EXCEPT ![p] = 0]

(* wakeup1: every thread asleep on one of the channels C becomes RUNNABLE. *)
Wakeup1(C) == [q \in Slots |-> IF state[q] = "SLEEPING" /\ chan[q] \in C
                               THEN "RUNNABLE" ELSE state[q]]

(* sleep(c, &ptable.lock), called with the lock held *)
Sleep(p, c) ==
  /\ state' = [state EXCEPT ![p] = "SLEEPING"]
  /\ chan' = [chan EXCEPT ![p] = c]

(* "Tidy up" of a thread that leaves a loop around sleep. *)
Awake(p) == chan' = [chan EXCEPT ![p] = 0]

Halt(message) ==
  /\ panicked' = message
  /\ UNCHANGED <<state, ids, sleepv, killed, threadcount, mem, pc, locals>>

-----------------------------------------------------------------------------
(* After userinit and the exec of /init: one process, in user space. *)
Init ==
  LET One(v, d) == [p \in Slots |-> IF p = initproc THEN v ELSE d] IN
  /\ state = One("RUNNABLE", "UNUSED")
  /\ pid = One(1, 0) /\ tgid = One(1, 0) /\ process = One(initproc, 0)
  /\ parent = [p \in Slots |-> 0]
  /\ chan = [p \in Slots |-> 0] /\ lostwakeup = [p \in Slots |-> 0]
  /\ killed = [p \in Slots |-> FALSE]
  /\ threadcount = One(1, 0)
  /\ pgdir = One(1, 0) /\ pgs = {1}
  /\ cwd = One(TRUE, FALSE)
  /\ nextpid = 2
  /\ pc = One("user", "none")
  /\ np = [p \in Slots |-> 0] /\ tmp = [p \in Slots |-> 0]
  /\ panicked = "no"

(***************************************************************************)
(* What the user programs promise.  The kernel enforces none of these; a   *)
(* specification with a smaller Rules has programs that break them.        *)
(*   fork_wait    no thread forks while another thread of its process is   *)
(*                in wait, nor the other way round                         *)
(*   one_joiner   no two threads join the same thread                      *)
(*   leader_last  the leader exits, or is killed, only as the last thread  *)
(*   leader_exec  only the leader calls exec                               *)
(*   kill_known   kill is given the id of a thread that exists, not init's *)
(***************************************************************************)
Siblings(p) == {q \in Slots \ {p} : process[q] = process[p] /\ Alive(q)}

Keeps(p, c) ==
  /\ "fork_wait" \in Rules =>
       /\ c = "fork" => \A q \in Siblings(p) : pc[q] # "wait"
       /\ c = "wait" => \A q \in Siblings(p) :
                            pc[q] \notin {"fork", "fork2", "fork3", "fork4"}
  /\ "leader_last" \in Rules =>
       (c = "exit" /\ process[p] = p => Siblings(p) = {})
  /\ "leader_exec" \in Rules => (c = "exec" => process[p] = p)

MayKill(x) ==
  /\ "kill_known" \in Rules => \E q \in Slots \ {initproc} : pid[q] = x /\ Alive(q)
  /\ "leader_last" \in Rules =>
       \A q \in Slots : pid[q] = x /\ process[q] = q => Siblings(q) = {}

MayJoin(p, x) ==
  "one_joiner" \in Rules =>
     \A q \in Siblings(p) : ~(pc[q] = "join" /\ tmp[q] = x)

(* trap: a system call of a thread that has not been killed *)
Syscall(p, c) ==
  /\ At(p, "user") /\ ~killed[p]
  /\ p # initproc
  /\ Keeps(p, c)
  /\ GoTo(p, c)
  /\ UNCHANGED <<state, ids, sleepv, killed, threadcount, mem, locals, panicked>>

(* the system call join(x) *)
JoinCall(p, x) ==
  /\ At(p, "user") /\ ~killed[p]
  /\ p # initproc /\ "join" \in Calls
  /\ MayJoin(p, x)
  /\ tmp' = [tmp EXCEPT ![p] = x]
  /\ GoTo(p, "join")
  /\ UNCHANGED <<state, ids, sleepv, killed, threadcount, mem, np, panicked>>

(* trap: a killed thread exits at its next system call or interrupt, and   *)
(* also when a system call returns.                                        *)
TrapKilled(p) ==
  /\ At(p, "user") /\ killed[p]
  /\ GoTo(p, "exit")
  /\ UNCHANGED <<state, ids, sleepv, killed, threadcount, mem, locals, panicked>>

(* main of init.c: fork a shell, then wait until it, tmp, is reaped.  At   *)
(* the bound on pids init waits without a shell.                           *)
InitProgram ==
  /\ At(initproc, "user") /\ ~killed[initproc]
  /\ GoTo(initproc, IF tmp[initproc] = 0 /\ nextpid <= MaxPid THEN "fork" ELSE "wait")
  /\ UNCHANGED <<state, ids, sleepv, killed, threadcount, mem, locals, panicked>>

-----------------------------------------------------------------------------
(* allocproc, up to the release of ptable.lock *)
Unused == {q \in Slots : state[q] = "UNUSED"}

Allocproc(p, next) ==
  /\ Unused # {} /\ nextpid <= MaxPid
  /\ LET n == First(Unused) IN
       /\ state' = [state EXCEPT ![n] = "EMBRYO"]
       /\ pid' = [pid EXCEPT ![n] = nextpid]
       /\ np' = [np EXCEPT ![p] = n]
  /\ nextpid' = nextpid + 1
  /\ GoTo(p, next)
  /\ UNCHANGED <<tgid, process, parent, sleepv, killed, threadcount, mem, tmp, panicked>>

(* fork and clone return -1; init exits when its fork fails (init.c). *)
NoProc(p) ==
  /\ IF p = initproc THEN GoTo(p, "exit") /\ UNCHANGED locals ELSE Return(p)
  /\ UNCHANGED <<state, ids, sleepv, killed, threadcount, mem, panicked>>

(* kalloc or copyuvm failed: the slot goes back without ptable.lock, and   *)
(* what has been written to it by then stays.                              *)
Abandon(p) ==
  /\ state' = [state EXCEPT ![np[p]] = "UNUSED"]
  /\ IF p = initproc
     THEN GoTo(p, "exit") /\ np' = [np EXCEPT ![p] = 0] /\ UNCHANGED tmp
     ELSE Return(p)

ForkAlloc(p) ==
  /\ At(p, "fork")
  /\ \/ Allocproc(p, "fork2")
     \/ Unused = {} /\ NoProc(p)
     \/ /\ nextpid > MaxPid       \* only because of the bound
        /\ Return(p)
        /\ UNCHANGED <<state, ids, sleepv, killed, threadcount, mem, panicked>>

(* allocproc's kalloc of the kernel stack fails. *)
NoStack(p) ==
  /\ At(p, "fork2") \/ At(p, "clone2")
  /\ Abandon(p)
  /\ UNCHANGED <<ids, sleepv, killed, threadcount, mem, panicked>>

(* The thread group fields are set and the address space is copied. *)
ForkGroup(p) ==
  /\ At(p, "fork2")
  /\ tgid' = [tgid EXCEPT ![np[p]] = pid[np[p]]]
  /\ process' = [process EXCEPT ![np[p]] = np[p]]
  /\ lostwakeup' = [lostwakeup EXCEPT ![np[p]] = 0]
  /\ \/ /\ PgIds \ pgs # {}
        /\ pgdir' = [pgdir EXCEPT ![np[p]] = First(PgIds \ pgs)]
        /\ pgs' = pgs \cup {First(PgIds \ pgs)}
        /\ GoTo(p, "fork3")
        /\ UNCHANGED <<state, locals>>
     \/ /\ pgdir' = [pgdir EXCEPT ![np[p]] = 0]
        /\ Abandon(p)
        /\ UNCHANGED pgs
  /\ UNCHANGED <<pid, parent, nextpid, chan, killed, threadcount, cwd, panicked>>

(* Mutation of ForkParent: the parent is the thread, not its leader. *)
ForkParentThread(p) ==
  /\ At(p, "fork3")
  /\ parent' = [parent EXCEPT ![np[p]] = p]
  /\ cwd' = [cwd EXCEPT ![np[p]] = TRUE]
  /\ GoTo(p, "fork4")
  /\ UNCHANGED <<state, pid, tgid, process, nextpid, sleepv, killed, threadcount,
                 pgdir, pgs, locals, panicked>>

(* np->parent is written, and the files and cwd duplicated, without a lock. *)
ForkParent(p) ==
  /\ At(p, "fork3")
  /\ parent' = [parent EXCEPT ![np[p]] = process[p]]
  /\ cwd' = [cwd EXCEPT ![np[p]] = TRUE]
  /\ GoTo(p, "fork4")
  /\ UNCHANGED <<state, pid, tgid, process, nextpid, sleepv, killed, threadcount,
                 pgdir, pgs, locals, panicked>>

ForkCommit(p) ==
  /\ At(p, "fork4")
  /\ state' = [state EXCEPT ![np[p]] = "RUNNABLE"]
  /\ threadcount' = [threadcount EXCEPT ![np[p]] = 1]
  /\ pc' = [pc EXCEPT ![p] = "user", ![np[p]] = "user"]
  /\ np' = [np EXCEPT ![p] = 0]
  /\ tmp' = [tmp EXCEPT ![p] = IF p = initproc THEN pid[np[p]] ELSE 0]
  /\ UNCHANGED <<ids, sleepv, killed, mem, panicked>>

-----------------------------------------------------------------------------
(* clone: a bad stack is refused before a slot is allocated. *)
CloneAlloc(p) ==
  /\ At(p, "clone")
  /\ \/ Allocproc(p, "clone2")
     \/ NoProc(p)

(* The new thread joins the group; curproc->parent is loaded into tmp. *)
CloneGroup(p) ==
  /\ At(p, "clone2")
  /\ tgid' = [tgid EXCEPT ![np[p]] = tgid[p]]
  /\ process' = [process EXCEPT ![np[p]] = process[p]]
  /\ lostwakeup' = [lostwakeup EXCEPT ![np[p]] = 0]
  /\ pgdir' = [pgdir EXCEPT ![np[p]] = pgdir[p]]
  /\ threadcount' = [threadcount EXCEPT ![np[p]] = 0]
  /\ tmp' = [tmp EXCEPT ![p] = parent[p]]
  /\ GoTo(p, "clone3")
  /\ UNCHANGED <<state, pid, parent, nextpid, chan, killed, pgs, cwd, np, panicked>>

(* ... and stored, without ptable.lock *)
CloneParent(p) ==
  /\ At(p, "clone3")
  /\ parent' = [parent EXCEPT ![np[p]] = tmp[p]]
  /\ GoTo(p, "clone4")
  /\ UNCHANGED <<state, pid, tgid, process, nextpid, sleepv, killed, threadcount,
                 mem, locals, panicked>>

(* Mutation of CloneCommit: killed is not looked at. *)
CloneCommitUnchecked(p) ==
  /\ At(p, "clone4")
  /\ state' = [state EXCEPT ![np[p]] = "RUNNABLE"]
  /\ threadcount' = [threadcount EXCEPT ![process[p]] = @ + 1]
  /\ pc' = [pc EXCEPT ![p] = "user", ![np[p]] = "user"]
  /\ np' = [np EXCEPT ![p] = 0]
  /\ tmp' = [tmp EXCEPT ![p] = 0]
  /\ UNCHANGED <<ids, sleepv, killed, mem, panicked>>

(* A thread that has been killed creates a ZOMBIE, which is not counted. *)
CloneCommit(p) ==
  /\ At(p, "clone4")
  /\ IF killed[p]
     THEN /\ state' = [state EXCEPT ![np[p]] = "ZOMBIE"]
          /\ GoTo(p, "user")
          /\ UNCHANGED threadcount
     ELSE /\ state' = [state EXCEPT ![np[p]] = "RUNNABLE"]
          /\ threadcount' = [threadcount EXCEPT ![process[p]] = @ + 1]
          /\ pc' = [pc EXCEPT ![p] = "user", ![np[p]] = "user"]
  /\ np' = [np EXCEPT ![p] = 0]
  /\ tmp' = [tmp EXCEPT ![p] = 0]
  /\ UNCHANGED <<ids, sleepv, killed, mem, panicked>>

-----------------------------------------------------------------------------
(* Mutation of ExitBegin: the test of threadcount is off by one. *)
ExitBeginTooEarly(p) ==
  /\ At(p, "exit") /\ p # initproc
  /\ GoTo(p, IF threadcount[process[p]] <= 2 THEN "exitcwd" ELSE "exit2")
  /\ UNCHANGED <<state, ids, sleepv, killed, threadcount, mem, locals, panicked>>

(* exit: the files are closed and threadcount is read under ptable.lock,   *)
(* which is then released.                                                 *)
ExitBegin(p) ==
  /\ At(p, "exit")
  /\ IF p = initproc
     THEN Halt("init exiting")
     ELSE /\ GoTo(p, IF threadcount[process[p]] = 1 THEN "exitcwd" ELSE "exit2")
          /\ UNCHANGED <<state, ids, sleepv, killed, threadcount, mem, locals, panicked>>

(* the only thread left drops the reference to the working directory *)
ExitCwd(p) ==
  /\ At(p, "exitcwd")
  /\ cwd' = [cwd EXCEPT ![process[p]] = FALSE]
  /\ GoTo(p, "exit2")
  /\ UNCHANGED <<state, ids, sleepv, killed, threadcount, pgdir, pgs, locals, panicked>>

Orphans(p) == {q \in Slots : parent[q] = p}

(* What a mutation of ExitWakes does: the joiners, or the parent, are not woken. *)
ExitWakesNoGroup(p) == {parent[p]}
ExitWakesNoParent(p) == {process[p]}

(* The channels that are woken: the threads of the parent in wait, those   *)
(* of the group in join or exec, and init for an orphan that is dead.      *)
ExitWakes(p) ==
  {parent[p], process[p]}
     \cup (IF \E q \in Orphans(p) : state[q] = "ZOMBIE" THEN {initproc} ELSE {})

(* Children of this slot are passed to init, and the thread is never       *)
(* scheduled again.                                                        *)
ExitFinal(p) ==
  /\ At(p, "exit2")
  /\ state' = [Wakeup1(ExitWakes(p)) EXCEPT ![p] = "ZOMBIE"]
  /\ parent' = [q \in Slots |-> IF q \in Orphans(p) THEN initproc ELSE parent[q]]
  /\ threadcount' = [threadcount EXCEPT ![process[p]] = @ - 1]
  /\ pc' = [pc EXCEPT ![p] = "none"]
  /\ UNCHANGED <<pid, tgid, process, nextpid, sleepv, killed, mem, locals, panicked>>

-----------------------------------------------------------------------------
(* What wait and join do to each slot they reap. *)
Reap(S) ==
  /\ state' = [q \in Slots |-> IF q \in S THEN "UNUSED" ELSE state[q]]
  /\ pid' = [q \in Slots |-> IF q \in S THEN 0 ELSE pid[q]]
  /\ tgid' = [q \in Slots |-> IF q \in S THEN 0 ELSE tgid[q]]
  /\ process' = [q \in Slots |-> IF q \in S THEN 0 ELSE process[q]]
  /\ parent' = [q \in Slots |-> IF q \in S THEN 0 ELSE parent[q]]
  /\ killed' = [q \in Slots |-> IF q \in S THEN FALSE ELSE killed[q]]
  /\ threadcount' = [q \in Slots |-> IF q \in S THEN 0 ELSE threadcount[q]]
  /\ pgdir' = [q \in Slots |-> IF q \in S THEN 0 ELSE pgdir[q]]

Children(p) == {q \in Slots : parent[q] = process[p]}

(* Mutation of DeadChildren: a dead thread is taken for a dead process. *)
DeadChildThreads(p) == {q \in Children(p) : state[q] = "ZOMBIE"}

DeadChildren(p) == {q \in Children(p) : threadcount[process[q]] = 0}

(* init remembers its shell until wait returns the shell's id or -1. *)
WaitReturns(p, result) ==
  /\ GoTo(p, "user")
  /\ tmp' = [tmp EXCEPT ![p] = IF p = initproc /\ result \notin {-1, @} THEN @ ELSE 0]
  /\ UNCHANGED np

WaitFail(p) ==
  /\ At(p, "wait")
  /\ Children(p) = {} \/ killed[p]
  /\ Awake(p)
  /\ WaitReturns(p, -1)
  /\ UNCHANGED <<state, ids, lostwakeup, killed, threadcount, mem, panicked>>

WaitSleep(p) ==
  /\ At(p, "wait")
  /\ Children(p) # {} /\ ~killed[p] /\ DeadChildren(p) = {}
  /\ Sleep(p, process[p])
  /\ UNCHANGED <<ids, lostwakeup, killed, threadcount, mem, pc, locals, panicked>>

(* The whole group of the first dead child is reaped.  freevm is called    *)
(* for the slot that is the leader by pid and by process.                  *)
WaitReap(p) ==
  /\ At(p, "wait")
  /\ ~killed[p] /\ DeadChildren(p) # {}
  /\ LET id == tgid[First(DeadChildren(p))]
         group == {q \in Slots : tgid[q] = id}
         owners == {q \in group : pid[q] = id /\ process[q] = q}
     IN  IF \E q \in group : state[q] # "ZOMBIE"
         THEN Halt("undead")
         ELSE /\ Reap(group)
              /\ pgs' = pgs \ {pgdir[q] : q \in owners}
              /\ Awake(p)
              /\ WaitReturns(p, id)
              /\ UNCHANGED <<nextpid, lostwakeup, cwd, panicked>>

-----------------------------------------------------------------------------
(* join of the pid in tmp.  The slot is looked up once and kept in np; the *)
(* loop around sleep tests the state of that slot only.  (When no slot     *)
(* matches the code compares the pid with a word past the end of the       *)
(* table, taken here to differ from it.)                                   *)
WithPid(x) == {q \in Slots : pid[q] = x}

SameGroup(p, q) == tgid[q] = tgid[p] /\ process[q] = process[p]

JoinTarget(p) == IF np[p] = 0 THEN First(WithPid(tmp[p])) ELSE np[p]

(* Mutation of Joinable: a thread of another process can be joined. *)
JoinableAnyGroup(p) == np[p] = 0 => WithPid(tmp[p]) # {}

Joinable(p) ==
  np[p] = 0 => WithPid(tmp[p]) # {} /\ SameGroup(p, First(WithPid(tmp[p])))

JoinNone(p) ==
  /\ At(p, "join") /\ ~Joinable(p)
  /\ Return(p)
  /\ UNCHANGED <<state, ids, sleepv, killed, threadcount, mem, panicked>>

JoinFail(p) ==
  /\ At(p, "join") /\ Joinable(p)
  /\ state[JoinTarget(p)] # "ZOMBIE" /\ killed[p]
  /\ Awake(p)
  /\ Return(p)
  /\ UNCHANGED <<state, ids, lostwakeup, killed, threadcount, mem, panicked>>

JoinSleep(p) ==
  /\ At(p, "join") /\ Joinable(p)
  /\ state[JoinTarget(p)] # "ZOMBIE" /\ ~killed[p]
  /\ Sleep(p, process[p])
  /\ np' = [np EXCEPT ![p] = JoinTarget(p)]
  /\ UNCHANGED <<ids, lostwakeup, killed, threadcount, mem, pc, tmp, panicked>>

(* The leader is joined but left for wait to reap. *)
JoinReap(p) ==
  /\ At(p, "join") /\ Joinable(p)
  /\ state[JoinTarget(p)] = "ZOMBIE"
  /\ LET t == JoinTarget(p) IN
     IF tgid[t] # pid[t] /\ process[t] # t
     THEN Reap({t})
     ELSE UNCHANGED <<state, pid, tgid, process, parent, killed, threadcount, pgdir>>
  /\ Awake(p)
  /\ Return(p)
  /\ UNCHANGED <<nextpid, lostwakeup, pgs, cwd, panicked>>

-----------------------------------------------------------------------------
(* Mutation of Kill: a sleeping thread is not woken. *)
KillNoWakeup(p, x) ==
  /\ At(p, "kill")
  /\ MayKill(x)
  /\ killed' = [q \in Slots |-> killed[q] \/ (WithPid(x) # {} /\ q = First(WithPid(x)))]
  /\ Return(p)
  /\ UNCHANGED <<state, ids, sleepv, threadcount, mem, panicked>>

(* kill(x) marks the first slot with that pid, whatever its state. *)
Kill(p, x) ==
  /\ At(p, "kill")
  /\ MayKill(x)
  /\ IF WithPid(x) = {}
     THEN UNCHANGED <<state, killed>>
     ELSE LET q == First(WithPid(x)) IN
          /\ killed' = [killed EXCEPT ![q] = TRUE]
          /\ state' = [state EXCEPT ![q] = IF @ = "SLEEPING" THEN "RUNNABLE" ELSE @]
  /\ Return(p)
  /\ UNCHANGED <<ids, sleepv, threadcount, mem, panicked>>

(* A fault in user space (trap, default case) *)
Fault(p) ==
  /\ At(p, "user") /\ p # initproc /\ "fault" \in Calls
  /\ killed' = [killed EXCEPT ![p] = TRUE]
  /\ GoTo(p, "exit")
  /\ UNCHANGED <<state, ids, sleepv, threadcount, mem, locals, panicked>>

(* park(c) does not look at killed. *)
Park(p, c) ==
  /\ At(p, "park")
  /\ lostwakeup' = [lostwakeup EXCEPT ![p] = 0]
  /\ IF lostwakeup[p] = c
     THEN GoTo(p, "user") /\ UNCHANGED <<state, chan>>
     ELSE GoTo(p, "parked") /\ Sleep(p, c)
  /\ UNCHANGED <<ids, killed, threadcount, mem, locals, panicked>>

ParkReturn(p) ==
  /\ At(p, "parked")
  /\ Awake(p)
  /\ Return(p)
  /\ UNCHANGED <<state, ids, lostwakeup, killed, threadcount, mem, panicked>>

(* Mutation of Unpark: the wakeup is only stored. *)
UnparkStores(p, x, c) ==
  /\ At(p, "unpark")
  /\ lostwakeup' = [q \in Slots |-> IF WithPid(x) # {} /\ q = First(WithPid(x))
                                    THEN c ELSE lostwakeup[q]]
  /\ Return(p)
  /\ UNCHANGED <<state, ids, chan, killed, threadcount, mem, panicked>>

Unpark(p, x, c) ==
  /\ At(p, "unpark")
  /\ IF WithPid(x) = {}
     THEN UNCHANGED <<state, sleepv>>
     ELSE LET q == First(WithPid(x)) IN
          IF state[q] = "SLEEPING" /\ chan[q] = c
          THEN /\ state' = [state EXCEPT ![q] = "RUNNABLE"]
               /\ chan' = [chan EXCEPT ![q] = 0]
               /\ UNCHANGED lostwakeup
          ELSE /\ lostwakeup' = [lostwakeup EXCEPT ![q] = c]
               /\ UNCHANGED <<state, chan>>
  /\ Return(p)
  /\ UNCHANGED <<ids, killed, threadcount, mem, panicked>>

-----------------------------------------------------------------------------
(* exec: unless the caller has been killed, every other thread of the      *)
(* group is marked killed and woken.                                       *)
ExecKill(p) ==
  /\ At(p, "exec")
  /\ LET others == {q \in Slots : tgid[q] = tgid[p] /\ pid[q] # pid[p]} IN
     IF killed[p]
     THEN GoTo(p, "user") /\ UNCHANGED <<state, killed>>
     ELSE /\ killed' = [q \in Slots |-> killed[q] \/ q \in others]
          /\ state' = [q \in Slots |-> IF q \in others /\ state[q] = "SLEEPING"
                                       THEN "RUNNABLE" ELSE state[q]]
          /\ GoTo(p, "exec2")
  /\ UNCHANGED <<ids, sleepv, threadcount, mem, locals, panicked>>

(* Mutation of Others: a thread that is marked is taken for dead. *)
OthersUnmarked(p) == {q \in Slots \ {p} : tgid[q] = tgid[p] /\ ~killed[q]}

(* the others still to die *)
Others(p) == {q \in Slots \ {p} : tgid[q] = tgid[p] /\ state[q] # "ZOMBIE"}

ExecSleep(p) ==
  /\ At(p, "exec2") /\ Others(p) # {}
  /\ Sleep(p, process[p])
  /\ UNCHANGED <<ids, lostwakeup, killed, threadcount, mem, pc, locals, panicked>>

ExecAlone(p) ==
  /\ At(p, "exec2") /\ Others(p) = {}
  /\ Awake(p)
  /\ GoTo(p, "exec3")
  /\ UNCHANGED <<state, ids, lostwakeup, killed, threadcount, mem, locals, panicked>>

(* The ids of the caller and of the leader are exchanged in two writes,    *)
(* without ptable.lock.                                                    *)
ExecGivePid(p) ==
  /\ At(p, "exec3")
  /\ pid' = [pid EXCEPT ![process[p]] = pid[p]]
  /\ GoTo(p, "exec4")
  /\ UNCHANGED <<state, tgid, process, parent, nextpid, sleepv, killed, threadcount,
                 mem, locals, panicked>>

ExecTakePid(p) ==
  /\ At(p, "exec4")
  /\ pid' = [pid EXCEPT ![p] = tgid[p]]
  /\ threadcount' = [threadcount EXCEPT ![process[p]] = 1]
  /\ lostwakeup' = [lostwakeup EXCEPT ![process[p]] = 0]
  /\ GoTo(p, "exec5")
  /\ UNCHANGED <<state, tgid, process, parent, nextpid, chan, killed, mem, locals,
                 panicked>>

(* Mutation of ExecImage: the old address space is not freed. *)
ExecImageLeak(p) ==
  /\ At(p, "exec5")
  /\ PgIds \ pgs # {}
  /\ pgdir' = [pgdir EXCEPT ![p] = First(PgIds \ pgs)]
  /\ pgs' = pgs \cup {First(PgIds \ pgs)}
  /\ GoTo(p, "user")
  /\ UNCHANGED <<state, ids, sleepv, killed, threadcount, cwd, locals, panicked>>

(* The image is loaded into a new address space and the old one freed, or  *)
(* the load fails and the thread goes on with the old one.                 *)
ExecImage(p) ==
  /\ At(p, "exec5")
  /\ \/ /\ PgIds \ pgs # {}
        /\ pgdir' = [pgdir EXCEPT ![p] = First(PgIds \ pgs)]
        /\ pgs' = (pgs \cup {First(PgIds \ pgs)}) \ {pgdir[p]}
     \/ UNCHANGED <<pgdir, pgs>>
  /\ GoTo(p, "user")
  /\ UNCHANGED <<state, ids, sleepv, killed, threadcount, cwd, locals, panicked>>

-----------------------------------------------------------------------------
(* What a thread does of its own will in user space ... *)
UserStep(p) ==
  \/ \E c \in Calls \ {"fault", "join"} : Syscall(p, c)
  \/ \E x \in 1..MaxPid : JoinCall(p, x)
  \/ Fault(p)

(* ... and what the kernel does for it once it is scheduled *)
KernelStep(p) ==
  \/ TrapKilled(p)
  \/ NoStack(p) \/ ForkAlloc(p) \/ ForkGroup(p) \/ ForkParent(p) \/ ForkCommit(p)
  \/ CloneAlloc(p) \/ CloneGroup(p) \/ CloneParent(p) \/ CloneCommit(p)
  \/ ExitBegin(p) \/ ExitCwd(p) \/ ExitFinal(p)
  \/ WaitFail(p) \/ WaitSleep(p) \/ WaitReap(p)
  \/ JoinNone(p) \/ JoinFail(p) \/ JoinSleep(p) \/ JoinReap(p)
  \/ \E x \in 0..MaxPid : Kill(p, x)
  \/ \E c \in Chans : Park(p, c)
  \/ ParkReturn(p)
  \/ \E x \in 1..MaxPid, c \in Chans : Unpark(p, x, c)
  \/ ExecKill(p) \/ ExecSleep(p) \/ ExecAlone(p)
  \/ ExecGivePid(p) \/ ExecTakePid(p) \/ ExecImage(p)

Next == InitProgram \/ \E p \in Slots : UserStep(p) \/ KernelStep(p)

Spec == Init /\ [][Next]_vars

(* The scheduler goes round the table, so a RUNNABLE thread is run; a      *)
(* thread in the kernel does not stop by itself; the timer interrupts one  *)
(* in user space.  ptable.lock is assumed to be obtained in the end.       *)
Fairness == WF_vars(InitProgram) /\ \A p \in Slots : WF_vars(KernelStep(p))

FairSpec == Spec /\ Fairness

-----------------------------------------------------------------------------
(* Type correctness of the process table. *)
TypeOK ==
  /\ state \in [Slots -> States]
  /\ pid \in [Slots -> Nat] /\ tgid \in [Slots -> Nat]
  /\ process \in [Slots -> Ptr] /\ parent \in [Slots -> Ptr]
  /\ chan \in [Slots -> Ptr \cup Chans]
  /\ lostwakeup \in [Slots -> {0} \cup Chans]
  /\ killed \in [Slots -> BOOLEAN]
  /\ threadcount \in [Slots -> Nat]
  /\ pgdir \in [Slots -> {0} \cup PgIds] /\ pgs \subseteq PgIds
  /\ cwd \in [Slots -> BOOLEAN]
  /\ nextpid \in Nat
  /\ pc \in [Slots -> Pcs]
  /\ np \in [Slots -> Ptr] /\ tmp \in [Slots -> Nat]
  /\ panicked \in {"no", "init exiting", "undead"}

(* threadcount of a leader is the number of threads of its group that are  *)
(* alive, whatever fork, clone, exit, exec, join and wait do at the same   *)
(* time.  (README: "threadcount is the number of threads in the process    *)
(* which are not ZOMBIE or UNUSED"; clone counts a thread when it becomes  *)
(* RUNNABLE.)                                                              *)
ThreadCountOK == \A l \in Slots : threadcount[l] = Cardinality(LiveThreads(l))

(* When a thread in exec has waited for the others, it is the only live    *)
(* thread of its process, and it stays so while it exchanges ids, resets   *)
(* threadcount and replaces the address space without ptable.lock, however *)
(* clone and exec of its siblings interleaved with it before.              *)
ExecIsAlone ==
  \A p \in Slots : pc[p] \in {"exec3", "exec4", "exec5"} =>
     LiveThreads(process[p]) = {p}

(* From the moment exec has marked the group, every other live thread of   *)
(* it is marked, also one that clone makes RUNNABLE later: "either the     *)
(* thread is created and then terminated, or it is not created at all".    *)
ExecMarksAll ==
  \A p \in Slots : pc[p] = "exec2" =>
     \A q \in LiveThreads(process[p]) \ {p} : killed[q]

(* exit reads threadcount = 1, releases ptable.lock and then drops the     *)
(* working directory: by then no other thread of the process is alive, and *)
(* the reference has not been dropped before.                              *)
LastThreadDropsCwd ==
  \A p \in Slots : pc[p] = "exitcwd" =>
     LiveThreads(process[p]) = {p} /\ cwd[process[p]]

(* No wakeup is lost: a thread does not sleep in park on a channel that an *)
(* unpark, before or after it went to sleep, was delivered to it for.      *)
ParkLosesNoWakeup ==
  \A p \in Slots : state[p] = "SLEEPING" /\ pc[p] = "parked" =>
     chan[p] \in Chans /\ lostwakeup[p] # chan[p]

(* The kernel does not reach panic("undead"): wait never selects a process *)
(* that still has a thread which is not a ZOMBIE.                          *)
NoUndead == panicked # "undead"

(* The slot that a thread in join holds across its sleeps is still the     *)
(* thread it asked for: neither wait nor another join has reaped it.       *)
JoinKeepsTarget ==
  \A p \in Slots : pc[p] = "join" /\ np[p] # 0 =>
     pid[np[p]] = tmp[p] /\ SameGroup(p, np[p])

(* "Pass abandoned children to init": the process that the leader of a     *)
(* process has as its parent has a live thread, which can wait for it.     *)
ParentIsAlive ==
  \A q \in Slots \ {initproc} :
     process[q] = q /\ state[q] \notin {"UNUSED", "EMBRYO"} =>
        parent[q] # 0 /\ LiveThreads(parent[q]) # {}

(* Every live thread runs on an allocated page directory, which it shares  *)
(* with exactly the threads of its own process: freevm in wait and exec    *)
(* never takes one that is in use.  None is leaked or freed twice: the     *)
(* allocated ones are those of the leaders that exist, each of which wait  *)
(* frees.  And a free slot holds no reference to a working directory: exit *)
(* has dropped the one of every process that wait reaped.                  *)
NothingLeaked ==
  LET owners == {q \in Slots : state[q] # "UNUSED" /\ process[q] = q
                                 /\ pid[q] = tgid[q] /\ pgdir[q] # 0}
  IN  /\ \A p, q \in Slots : Alive(p) /\ Alive(q) =>
           /\ pgdir[p] \in pgs
           /\ pgdir[p] = pgdir[q] <=> process[p] = process[q]
      /\ pgs = {pgdir[q] : q \in owners}
      /\ \A q, r \in owners : pgdir[q] = pgdir[r] => q = r
      /\ \A q \in Slots : state[q] = "UNUSED" => ~cwd[q]

-----------------------------------------------------------------------------
(* A thread that has been killed terminates (unless the kernel panics).    *)
KilledTerminates ==
  \A p \in Slots : killed[p] /\ Alive(p) ~> ~Alive(p) \/ panicked # "no"

(* A thread in exec gets past the wait for the other threads: "all other   *)
(* threads in the process are terminated, and the calling thread waits for *)
(* them to terminate".                                                     *)
ExecGetsAlone ==
  \A p \in Slots : pc[p] = "exec2" ~> pc[p] # "exec2" \/ panicked # "no"

(* join returns once the thread it waits for has exited: the wakeup of     *)
(* exit is not lost.                                                       *)
JoinReturns ==
  \A p, q \in Slots :
     pc[p] = "join" /\ np[p] = q /\ state[q] = "ZOMBIE"
        ~> pc[p] # "join" \/ panicked # "no"

(* init reaps every process that has been left to it, with all its threads. *)
InitReaps ==
  \A q \in Slots :
     state[q] = "ZOMBIE" /\ process[q] = q /\ threadcount[q] = 0 /\ parent[q] = initproc
        ~> state[q] = "UNUSED" \/ panicked # "no"

=============================================================================
