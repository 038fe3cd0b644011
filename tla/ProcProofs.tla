----------------------------- MODULE ProcProofs -----------------------------
(***************************************************************************)
(* Proofs about the process table: for every size of the table, every set  *)
(* of system calls and whatever the user programs promise (Rules), the     *)
(* thread count of a process is the number of its live threads, and the    *)
(* two pieces of code that go on without ptable.lock because they are      *)
(* "the 1 thread" (exit dropping the working directory, exec replacing the *)
(* process image) are indeed alone.                                        *)
(***************************************************************************)
EXTENDS ProcInv, FiniteSetTheorems, WellFoundedInduction, NaturalsInduction, TLAPS

-----------------------------------------------------------------------------
(* First picks an element of every non-empty set of natural numbers.       *)
LEMMA FirstIn ==
  ASSUME NEW S, S \subseteq Nat, S # {}
  PROVE  First(S) \in S
<1> DEFINE R == {ss \in Nat \X Nat : ss[1] < ss[2]}
<1>1. IsWellFoundedOn(R, Nat)
  BY NatLessThanWellFounded, Zenon DEF OpToRel
<1> HIDE DEF R
<1>2. PICK x \in S : \A y \in S : ~ (<<y, x>> \in R)
  BY <1>1, WFMin, Zenon
<1>3. ASSUME NEW y \in S PROVE x <= y
  <2>1. <<y, x>> \notin R
    BY <1>2, Zenon
  <2>2. x \in Nat /\ y \in Nat
    BY Zenon
  <2>3. ~(y < x)
    BY <2>1, <2>2, Zenon DEF R
  <2> QED BY <2>2, <2>3
<1> QED BY <1>3, Zenon DEF First

(* Slots are pointers and pointers are natural numbers.                    *)
LEMMA Pointers ==
  0 \in Ptr /\ Slots \subseteq Ptr /\ Ptr \subseteq Nat /\ initproc \in Slots
BY NPROCAssumption DEF Ptr, Slots, initproc

(* The live threads of a process are a finite set of slots.                *)
LEMMA LiveFinite ==
  ASSUME NEW l
  PROVE  /\ LiveThreads(l) \subseteq Slots /\ IsFiniteSet(LiveThreads(l))
         /\ Cardinality(LiveThreads(l)) \in Nat
<1>1. IsFiniteSet(Slots)
  BY FS_Interval, NPROCAssumption DEF Slots
<1>2. LiveThreads(l) \subseteq Slots
  BY Zenon DEF LiveThreads
<1> QED BY <1>1, <1>2, FS_Subset, FS_CardinalityType, Zenon

-----------------------------------------------------------------------------
(* A step of p that creates, reaps and ends no thread and leaves the group *)
(* fields alone; it may put threads to sleep or wake them, and move p to a *)
(* place where it must be alone only when it is.                           *)
Quiet(p) ==
  /\ pc[p] \notin {"none", "exit2"}
  /\ process' = process /\ tgid' = tgid /\ threadcount' = threadcount /\ cwd' = cwd
  /\ \A q \in Slots : \/ state'[q] = state[q]
                      \/ /\ state[q] \in {"SLEEPING", "RUNNABLE"}
                         /\ state'[q] \in {"SLEEPING", "RUNNABLE"}
  /\ \A q \in Slots \ {p} : pc'[q] = pc[q] /\ np'[q] = np[q] /\ tmp'[q] = tmp[q]
  /\ pc'[p] \notin Creating
  /\ pc'[p] \in Solitary => LiveThreads(process[p]) = {p}

(* Such a step preserves the invariant.                                    *)
LEMMA Frame ==
  ASSUME IInv, TypeOK', NEW p \in Slots, Quiet(p)
  PROVE  IInv'
<1> USE DEF Quiet
<1>1. \A q \in Slots : Alive(q)' <=> Alive(q)
  BY Zenon DEF Alive
<1>2. \A l : LiveThreads(l)' = LiveThreads(l)
  BY <1>1, Zenon DEF LiveThreads
<1>3. PcOK'
  BY <1>1, Zenon DEF IInv, PcOK
<1>4. CreateOK'
  BY DEF IInv, CreateOK
<1>5. NewOK'
  BY DEF IInv, NewOK, Creating
<1>6. GroupOK'
  BY <1>1, Zenon DEF IInv, GroupOK
<1>7. AloneOK'
  BY <1>2, Zenon DEF IInv, AloneOK
<1>8. CwdOK'
  BY Zenon DEF IInv, CwdOK
<1>9. ThreadCountOK'
  BY <1>2, Zenon DEF IInv, ThreadCountOK
<1> QED BY <1>3, <1>4, <1>5, <1>6, <1>7, <1>8, <1>9, Zenon DEF IInv

-----------------------------------------------------------------------------
(* The steps between user space and the kernel preserve the invariant.     *)
LEMMA BoundarySteps ==
  ASSUME IInv, NEW p \in Slots,
         UserStep(p) \/ TrapKilled(p) \/ InitProgram
  PROVE  IInv'
<1> USE DEF At, GoTo, ids, sleepv, mem, locals
<1>1. CASE \E c \in Calls \ {"fault", "join"} : Syscall(p, c)
  <2>1. TypeOK'
    BY <1>1, CallsAssumption DEF IInv, TypeOK, Syscall, Pcs
  <2>q. Quiet(p)
    BY <1>1, CallsAssumption, ZenonT(60) DEF Quiet, IInv, TypeOK, Syscall, Creating, Solitary
  <2> QED BY <2>1, <2>q, Frame, Zenon
<1>2. CASE \E x \in 1..MaxPid : JoinCall(p, x)
  <2>1. TypeOK'
    BY <1>2, MaxPidAssumption DEF IInv, TypeOK, JoinCall, Pcs
  <2>q. Quiet(p)
    BY <1>2, Zenon DEF Quiet, IInv, TypeOK, JoinCall, Creating, Solitary
  <2> QED BY <2>1, <2>q, Frame, Zenon
<1>3. CASE Fault(p)
  <2>1. TypeOK'
    BY <1>3, Zenon DEF IInv, TypeOK, Fault, Pcs
  <2>q. Quiet(p)
    BY <1>3, Zenon DEF Quiet, IInv, TypeOK, Fault, Creating, Solitary
  <2> QED BY <2>1, <2>q, Frame, Zenon
<1>4. CASE TrapKilled(p)
  <2>1. TypeOK'
    BY <1>4, Zenon DEF IInv, TypeOK, TrapKilled, Pcs
  <2>q. Quiet(p)
    BY <1>4, Zenon DEF Quiet, IInv, TypeOK, TrapKilled, Creating, Solitary
  <2> QED BY <2>1, <2>q, Frame, Zenon
<1>5. CASE InitProgram
  <2>1. TypeOK'
    BY <1>5, Zenon DEF IInv, TypeOK, InitProgram, Pcs
  <2>2. initproc \in Slots
    BY NPROCAssumption DEF initproc, Slots
  <2>q. Quiet(initproc)
    BY <1>5, <2>2, Zenon DEF Quiet, IInv, TypeOK, InitProgram, Creating, Solitary
  <2> QED BY <2>1, <2>2, <2>q, Frame, Zenon
<1> QED BY <1>1, <1>2, <1>3, <1>4, <1>5, Zenon DEF UserStep

(* The steps that wait, join, kill, park and unpark take without reaping   *)
(* preserve the invariant: a thread that is marked, woken or put to sleep  *)
(* is as alive as it was.                                                  *)
LEMMA SleepSteps ==
  ASSUME IInv, NEW p \in Slots,
         \/ WaitFail(p) \/ WaitSleep(p)
         \/ JoinNone(p) \/ JoinFail(p) \/ JoinSleep(p)
         \/ \E x \in 0..MaxPid : Kill(p, x)
         \/ \E c \in Chans : Park(p, c)
         \/ ParkReturn(p)
         \/ \E x \in 1..MaxPid, c \in Chans : Unpark(p, x, c)
  PROVE  IInv'
<1> USE DEF At, GoTo, Return, Awake, Sleep, ids, sleepv, mem, locals
<1>0. \A x : WithPid(x) # {} => First(WithPid(x)) \in Slots
  BY FirstIn, NPROCAssumption DEF WithPid, Slots
<1>1. CASE WaitFail(p)
  <2>1. TypeOK'
    BY <1>1, Pointers, Zenon DEF IInv, TypeOK, WaitFail, WaitReturns, Pcs
  <2>q. Quiet(p)
    BY <1>1, Zenon DEF Quiet, IInv, TypeOK, WaitFail, WaitReturns, Creating, Solitary
  <2> QED BY <2>1, <2>q, Frame, Zenon
<1>2. CASE WaitSleep(p)
  <2>1. TypeOK'
    BY <1>2, Zenon DEF IInv, TypeOK, WaitSleep, States, Pcs
  <2>q. Quiet(p)
    BY <1>2, Zenon DEF Quiet, IInv, TypeOK, WaitSleep, Creating, Solitary
  <2> QED BY <2>1, <2>q, Frame, Zenon
<1>3. CASE JoinNone(p)
  <2>1. TypeOK'
    BY <1>3, Pointers, Zenon DEF IInv, TypeOK, JoinNone, Pcs
  <2>q. Quiet(p)
    BY <1>3, Zenon DEF Quiet, IInv, TypeOK, JoinNone, Creating, Solitary
  <2> QED BY <2>1, <2>q, Frame, Zenon
<1>4. CASE JoinFail(p)
  <2>1. TypeOK'
    BY <1>4, Pointers, Zenon DEF IInv, TypeOK, JoinFail, Pcs
  <2>q. Quiet(p)
    BY <1>4, Zenon DEF Quiet, IInv, TypeOK, JoinFail, Creating, Solitary
  <2> QED BY <2>1, <2>q, Frame, Zenon
<1>5. CASE JoinSleep(p)
  <2>1. JoinTarget(p) \in Ptr
    BY <1>5, <1>0 DEF IInv, TypeOK, JoinSleep, JoinTarget, Joinable, Ptr, Slots
  <2>2. TypeOK'
    BY <1>5, <2>1, Zenon DEF IInv, TypeOK, JoinSleep, States, Pcs
  <2>q. Quiet(p)
    BY <1>5, Zenon DEF Quiet, IInv, TypeOK, JoinSleep, Creating, Solitary
  <2> QED BY <2>2, <2>q, Frame, Zenon
<1>6. CASE \E x \in 0..MaxPid : Kill(p, x)
  <2>0. PICK x \in 0..MaxPid : Kill(p, x)
    BY <1>6, Zenon
  <2>1. TypeOK'
    <3>1. CASE WithPid(x) = {}
      BY <2>0, <3>1, Pointers, Zenon DEF IInv, TypeOK, Kill, Pcs
    <3>2. CASE WithPid(x) # {}
      <4> DEFINE q == First(WithPid(x))
      <4>1. q \in Slots
        BY <1>0, <3>2, Zenon
      <4> HIDE DEF q
      <4>2. /\ killed' = [killed EXCEPT ![q] = TRUE]
            /\ state' = [state EXCEPT ![q] = IF state[q] = "SLEEPING"
                                            THEN "RUNNABLE" ELSE state[q]]
        BY <2>0, <3>2, Zenon DEF Kill, q
      <4> QED BY <2>0, <4>1, <4>2, Pointers, Zenon DEF IInv, TypeOK, Kill, States, Pcs
    <3> QED BY <3>1, <3>2, Zenon
  <2>2. \A q \in Slots : \/ state'[q] = state[q]
                            \/ /\ state[q] \in {"SLEEPING", "RUNNABLE"}
                               /\ state'[q] \in {"SLEEPING", "RUNNABLE"}
    BY <2>0, <1>0, Zenon DEF IInv, TypeOK, Kill
  <2>q. Quiet(p)
    BY <2>0, <2>2, Zenon DEF Quiet, IInv, TypeOK, Kill, Creating, Solitary
  <2> QED BY <2>1, <2>q, Frame, Zenon
<1>7. CASE \E c \in Chans : Park(p, c)
  <2>1. TypeOK'
    BY <1>7, SMTT(30) DEF IInv, TypeOK, Park, States, Pcs
  <2>2. \A q \in Slots : \/ state'[q] = state[q]
                            \/ /\ state[q] \in {"SLEEPING", "RUNNABLE"}
                               /\ state'[q] \in {"SLEEPING", "RUNNABLE"}
    BY <1>7 DEF IInv, TypeOK, Park
  <2>3. /\ pc[p] = "park" /\ \E k \in {"user", "parked"} : pc' = [pc EXCEPT ![p] = k]
        /\ np' = np /\ tmp' = tmp
        /\ process' = process /\ tgid' = tgid /\ threadcount' = threadcount /\ cwd' = cwd
    BY <1>7, Zenon DEF Park
  <2>4. pc'[p] \in {"user", "parked"} /\ \A q \in Slots \ {p} : pc'[q] = pc[q]
    <3>1. pc \in [Slots -> Pcs]
      BY Zenon DEF IInv, TypeOK
    <3> QED BY <2>3, <3>1, Zenon
  <2>q. Quiet(p)
    BY <2>2, <2>3, <2>4, Zenon DEF Quiet, Creating, Solitary
  <2> QED BY <2>1, <2>q, Frame, Zenon
<1>8. CASE ParkReturn(p)
  <2>1. TypeOK'
    BY <1>8, Pointers, Zenon DEF IInv, TypeOK, ParkReturn, Pcs
  <2>q. Quiet(p)
    BY <1>8, Zenon DEF Quiet, IInv, TypeOK, ParkReturn, Creating, Solitary
  <2> QED BY <2>1, <2>q, Frame, Zenon
<1>9. CASE \E x \in 1..MaxPid, c \in Chans : Unpark(p, x, c)
  <2>1. TypeOK'
    <3>1. state' \in [Slots -> States]
      BY <1>9, <1>0, SMTT(30) DEF IInv, TypeOK, Unpark, States
    <3>2. pc' \in [Slots -> Pcs] /\ np' \in [Slots -> Ptr] /\ tmp' \in [Slots -> Nat]
      BY <1>9, <1>0, Pointers DEF IInv, TypeOK, Unpark, Pcs
    <3>3. chan' \in [Slots -> Ptr \cup Chans] /\ lostwakeup' \in [Slots -> {0} \cup Chans]
      <4>1. /\ chan' = chan \/ \E q \in Slots : chan' = [chan EXCEPT ![q] = 0]
            /\ \/ lostwakeup' = lostwakeup
               \/ \E q \in Slots, c \in Chans : lostwakeup' = [lostwakeup EXCEPT ![q] = c]
        BY <1>9, <1>0 DEF Unpark
      <4>2. chan \in [Slots -> Ptr \cup Chans] /\ lostwakeup \in [Slots -> {0} \cup Chans]
        BY Zenon DEF IInv, TypeOK
      <4>3. 0 \in Ptr \cup Chans
        BY Pointers, Zenon
      <4> QED BY <4>1, <4>2, <4>3, Zenon
    <3> QED BY <1>9, <3>1, <3>2, <3>3, ZenonT(60) DEF IInv, TypeOK, Unpark
  <2>2. \A q \in Slots : \/ state'[q] = state[q]
                            \/ /\ state[q] \in {"SLEEPING", "RUNNABLE"}
                               /\ state'[q] \in {"SLEEPING", "RUNNABLE"}
    BY <1>9, <1>0, SMTT(30) DEF IInv, TypeOK, Unpark
  <2>q. Quiet(p)
    BY <1>9, <2>2 DEF Quiet, IInv, TypeOK, Unpark, Creating, Solitary
  <2> QED BY <2>1, <2>q, Frame, Zenon
<1> QED BY <1>1, <1>2, <1>3, <1>4, <1>5, <1>6, <1>7, <1>8, <1>9, Zenon

(* The steps of exec and the first step of exit preserve the invariant.    *)
(* exec goes on without the lock only when no other thread of the group    *)
(* is left, and exit only when threadcount is 1, which is the number of    *)
(* live threads; the count that exec then writes is the one it has.        *)
LEMMA ExecSteps ==
  ASSUME IInv, NEW p \in Slots,
         \/ ExecKill(p) \/ ExecSleep(p) \/ ExecAlone(p)
         \/ ExecGivePid(p) \/ ExecTakePid(p) \/ ExecImage(p) \/ ExitBegin(p)
  PROVE  IInv'
<1> USE DEF At, GoTo, Awake, Sleep, ids, sleepv, mem, locals
<1>1. CASE ExecKill(p)
  <2>1. TypeOK'
    <3>0. /\ killed \in [Slots -> BOOLEAN]
          /\ \/ killed' = killed
             \/ \E S \in SUBSET Slots : killed' = [q \in Slots |-> killed[q] \/ q \in S]
      BY <1>1, Zenon DEF IInv, TypeOK, ExecKill
    <3>1. killed' \in [Slots -> BOOLEAN]
      BY <3>0, Zenon
    <3>2. state' \in [Slots -> States]
      BY <1>1, SMTT(30) DEF IInv, TypeOK, ExecKill, States
    <3> QED BY <1>1, <3>1, <3>2, Zenon DEF IInv, TypeOK, ExecKill, Pcs
  <2>q. Quiet(p)
    BY <1>1 DEF Quiet, IInv, TypeOK, ExecKill, Creating, Solitary
  <2> QED BY <2>1, <2>q, Frame, Zenon
<1>2. CASE ExecSleep(p)
  <2>1. TypeOK'
    BY <1>2, Zenon DEF IInv, TypeOK, ExecSleep, States, Pcs
  <2>q. Quiet(p)
    BY <1>2, Zenon DEF Quiet, IInv, TypeOK, ExecSleep, Creating, Solitary
  <2> QED BY <2>1, <2>q, Frame, Zenon
<1>3. CASE ExecAlone(p)
  <2>1. TypeOK'
    BY <1>3, Pointers, Zenon DEF IInv, TypeOK, ExecAlone, Pcs
  <2>2. LiveThreads(process[p]) = {p}
    <3>1. Alive(p)
      BY <1>3, Zenon DEF ExecAlone, Alive
    <3>2. ASSUME NEW q \in LiveThreads(process[p]) PROVE q = p
      <4>1. tgid[q] = tgid[p] /\ state[q] # "ZOMBIE" /\ q \in Slots
        BY <3>1, Zenon DEF IInv, GroupOK, LiveThreads, Alive
      <4> QED BY <1>3, <4>1, Zenon DEF ExecAlone, Others
    <3> QED BY <3>1, <3>2, Zenon DEF LiveThreads
  <2>q. Quiet(p)
    BY <1>3, <2>2, Zenon DEF Quiet, IInv, TypeOK, ExecAlone, Creating, Solitary
  <2> QED BY <2>1, <2>q, Frame, Zenon
<1>4. CASE ExecGivePid(p)
  <2>1. TypeOK'
    BY <1>4, Zenon DEF IInv, TypeOK, ExecGivePid, Pcs
  <2>2. LiveThreads(process[p]) = {p}
    BY <1>4, Zenon DEF IInv, AloneOK, ExecGivePid, Solitary
  <2>q. Quiet(p)
    BY <1>4, <2>2, Zenon DEF Quiet, IInv, TypeOK, ExecGivePid, Creating
  <2> QED BY <2>1, <2>q, Frame, Zenon
<1>5. CASE ExecTakePid(p)
  <2>1. LiveThreads(process[p]) = {p}
    BY <1>5, Zenon DEF IInv, AloneOK, ExecTakePid, Solitary
  <2>2. process[p] \in Slots
    BY <1>5, Zenon DEF IInv, GroupOK, Alive, ExecTakePid
  <2>3. threadcount[process[p]] = 1
    BY <2>1, <2>2, FS_Singleton, Zenon DEF IInv, ThreadCountOK
  <2>4. threadcount' = threadcount
    BY <1>5, <2>2, <2>3, Zenon DEF IInv, TypeOK, ExecTakePid
  <2>5. TypeOK'
    BY <1>5, <2>2, <2>4, Zenon DEF IInv, TypeOK, ExecTakePid, Pcs
  <2>q. Quiet(p)
    BY <1>5, <2>1, <2>4, Zenon DEF Quiet, IInv, TypeOK, ExecTakePid, Creating
  <2> QED BY <2>5, <2>q, Frame, Zenon
<1>6. CASE ExecImage(p)
  <2>1. TypeOK'
    <3>1. PgIds \ pgs # {} => First(PgIds \ pgs) \in PgIds
      BY FirstIn, NPROCAssumption DEF PgIds
    <3> QED BY <1>6, <3>1, ZenonT(60) DEF IInv, TypeOK, ExecImage, Pcs
  <2>q. Quiet(p)
    BY <1>6, Zenon DEF Quiet, IInv, TypeOK, ExecImage, Creating, Solitary
  <2> QED BY <2>1, <2>q, Frame, Zenon
<1>7. CASE ExitBegin(p)
  <2>1. TypeOK'
    BY <1>7, Zenon DEF IInv, TypeOK, ExitBegin, Halt, Pcs
  <2>2. CASE p = initproc
    <3>q. Quiet(p)
      BY <1>7, <2>2, Zenon DEF Quiet, ExitBegin, Halt, Creating, Solitary
    <3> QED BY <2>1, <3>q, Frame, Zenon
  <2>3. CASE p # initproc
    <3>1. threadcount[process[p]] = 1 => LiveThreads(process[p]) = {p}
      <4>1. Alive(p) /\ process[p] \in Slots
        BY <1>7, Zenon DEF IInv, GroupOK, Alive, ExitBegin
      <4>2. p \in LiveThreads(process[p])
        BY <4>1, Zenon DEF LiveThreads
      <4>3. ASSUME threadcount[process[p]] = 1 PROVE LiveThreads(process[p]) = {p}
        <5>1. Cardinality(LiveThreads(process[p])) = 1
          BY <4>1, <4>3, Zenon DEF IInv, ThreadCountOK
        <5>2. PICK x : LiveThreads(process[p]) = {x}
          BY <5>1, LiveFinite, FS_Singleton, Zenon
        <5> QED BY <4>2, <5>2, Zenon
      <4> QED BY <4>3, Zenon
    <3>q. Quiet(p)
      BY <1>7, <2>3, <3>1 DEF Quiet, IInv, TypeOK, ExitBegin, Creating, Solitary
    <3> QED BY <2>1, <3>q, Frame, Zenon
  <2> QED BY <2>2, <2>3, Zenon
<1> QED BY <1>1, <1>2, <1>3, <1>4, <1>5, <1>6, <1>7, Zenon

-----------------------------------------------------------------------------
(* The slot that a thread is filling in is nobody's: it is not alive, it   *)
(* runs no code, and no live thread has it as its leader.                  *)
LEMMA Nobodys ==
  ASSUME IInv, NEW n \in Slots, state[n] \in {"UNUSED", "EMBRYO"}
  PROVE  /\ ~Alive(n) /\ pc[n] = "none"
         /\ \A q \in Slots : Alive(q) => process[q] # n
         /\ LiveThreads(n) = {} /\ threadcount[n] = 0
<1>1. ~Alive(n) /\ pc[n] = "none"
  BY Zenon DEF IInv, PcOK, Alive
<1>2. \A q \in Slots : Alive(q) => process[q] # n
  BY Zenon DEF IInv, GroupOK
<1>3. LiveThreads(n) = {}
  BY <1>2, Zenon DEF LiveThreads
<1>4. threadcount[n] = 0
  BY <1>3, FS_EmptySet, Zenon DEF IInv, ThreadCountOK
<1> QED BY <1>1, <1>2, <1>3, <1>4, Zenon

(* A step of p that only fills in a slot n of its own *)
Fills(p, n) ==
  /\ pc[p] \notin {"none", "exit2"}
  /\ state[n] \in {"UNUSED", "EMBRYO"} /\ state'[n] \in {"UNUSED", "EMBRYO", "ZOMBIE"}
  /\ \A q \in Slots \ {p} : pc[q] \in Creating => np[q] # n
  /\ \A q \in Slots \ {n} : /\ state'[q] = state[q]
                            /\ process'[q] = process[q] /\ tgid'[q] = tgid[q]
                            /\ threadcount'[q] = threadcount[q] /\ cwd'[q] = cwd[q]
  /\ threadcount'[n] \in {0, threadcount[n]}
  /\ \A q \in Slots \ {p} : pc'[q] = pc[q] /\ np'[q] = np[q] /\ tmp'[q] = tmp[q]
  /\ pc'[p] \notin Solitary
  /\ pc'[p] \in Creating => np'[p] = n /\ state'[n] = "EMBRYO"
  /\ pc'[p] \in {"fork3", "fork4"} => process'[n] = n
  /\ pc'[p] = "fork4" => cwd'[n]
  /\ pc'[p] \in {"clone3", "clone4"} => process'[n] = process[p] /\ tgid'[n] = tgid[p]
  /\ pc'[p] = "clone3" => tmp'[p] \in Ptr

(* Such a step preserves the invariant.                                    *)
LEMMA FillFrame ==
  ASSUME IInv, TypeOK', NEW p \in Slots, NEW n \in Slots, Fills(p, n)
  PROVE  IInv'
<1>m. /\ pc[p] \notin {"none", "exit2"}
      /\ \A q \in Slots \ {p} : pc[q] \in Creating => np[q] # n
      /\ \A q \in Slots \ {p} : pc'[q] = pc[q] /\ np'[q] = np[q] /\ tmp'[q] = tmp[q]
  BY Zenon DEF Fills
<1>s. /\ state[n] \in {"UNUSED", "EMBRYO"} /\ state'[n] \in {"UNUSED", "EMBRYO", "ZOMBIE"}
      /\ \A q \in Slots \ {n} : state'[q] = state[q]
  BY Zenon DEF Fills
<1>i. \A q \in Slots \ {n} : process'[q] = process[q] /\ tgid'[q] = tgid[q]
  BY Zenon DEF Fills
<1>t. /\ \A q \in Slots \ {n} : threadcount'[q] = threadcount[q]
      /\ threadcount'[n] \in {0, threadcount[n]}
  BY Zenon DEF Fills
<1>w. \A q \in Slots \ {n} : cwd'[q] = cwd[q]
  BY Zenon DEF Fills
<1>p. /\ pc'[p] \notin Solitary
      /\ pc'[p] \in Creating => np'[p] = n /\ state'[n] = "EMBRYO"
  BY Zenon DEF Fills
<1>n. /\ pc'[p] \in {"fork3", "fork4"} => process'[n] = n
      /\ pc'[p] = "fork4" => cwd'[n]
      /\ pc'[p] \in {"clone3", "clone4"} => process'[n] = process[p] /\ tgid'[n] = tgid[p]
      /\ pc'[p] = "clone3" => tmp'[p] \in Ptr
  BY Zenon DEF Fills
<1>0. /\ ~Alive(n) /\ pc[n] = "none" /\ LiveThreads(n) = {} /\ threadcount[n] = 0
      /\ \A q \in Slots : Alive(q) => process[q] # n
  BY <1>s, Nobodys, Zenon
<1>1. \A q \in Slots : /\ Alive(q)' <=> Alive(q)
                       /\ Alive(q) => process'[q] = process[q] /\ tgid'[q] = tgid[q]
  BY <1>0, <1>s, <1>i, Zenon DEF Alive
<1>2. \A l : LiveThreads(l)' = LiveThreads(l)
  BY <1>1, Zenon DEF LiveThreads
<1>a. \A q \in Slots : pc[q] # "none" => Alive(q) /\ q # n
  BY <1>0, Zenon DEF IInv, PcOK
<1>b. p # n /\ Alive(p)
  BY <1>a, <1>m, Zenon
<1>3. PcOK'
  BY <1>1, <1>a, <1>b, <1>m, Zenon DEF IInv, PcOK
<1>c. ASSUME NEW q \in Slots \ {p}, pc'[q] \in Creating
      PROVE  /\ pc[q] \in Creating /\ pc'[q] = pc[q] /\ np'[q] = np[q] /\ np[q] # n
             /\ np[q] \in Slots /\ state[np[q]] = "EMBRYO"
  <2>1. pc[q] \in Creating /\ pc'[q] = pc[q] /\ np'[q] = np[q] /\ np[q] # n
    BY <1>c, <1>m, Zenon
  <2>2. np[q] \in Slots /\ state[np[q]] = "EMBRYO"
    BY <2>1, Zenon DEF IInv, CreateOK
  <2> QED BY <2>1, <2>2, Zenon
<1>4. CreateOK'
  <2>1. ASSUME NEW q \in Slots \ {p}, pc'[q] \in Creating
        PROVE  np'[q] \in Slots /\ np'[q] # n /\ state'[np'[q]] = "EMBRYO"
    BY <1>c, <1>s, <2>1, ZenonT(60)
  <2>2. ASSUME NEW q \in Slots, pc'[q] \in Creating
        PROVE  np'[q] \in Slots /\ state'[np'[q]] = "EMBRYO"
    <3>1. CASE q = p
      BY <1>p, <2>2, <3>1, Zenon
    <3>2. CASE q # p
      BY <2>1, <2>2, <3>2, Zenon
    <3> QED BY <3>1, <3>2, Zenon
  <2>3. ASSUME NEW q \in Slots, NEW r \in Slots \ {q}, pc'[q] \in Creating, pc'[r] \in Creating
        PROVE  np'[r] # np'[q]
    <3>1. CASE q = p
      BY <1>p, <2>1, <2>3, <3>1, Zenon
    <3>2. CASE r = p
      BY <1>p, <2>1, <2>3, <3>2, Zenon
    <3>3. CASE q # p /\ r # p
      <4>1. /\ pc[q] \in Creating /\ np'[q] = np[q]
            /\ pc[r] \in Creating /\ np'[r] = np[r]
        BY <1>c, <2>3, <3>3, Zenon
      <4>2. np[r] # np[q]
        BY <2>3, <4>1, Zenon DEF IInv, CreateOK
      <4> QED BY <4>1, <4>2, Zenon
    <3> QED BY <3>1, <3>2, <3>3, Zenon
  <2> QED BY <2>2, <2>3, Zenon DEF CreateOK
<1>5. NewOK'
  <2>1. ASSUME NEW q \in Slots \ {p}, pc[q] \in Creating
        PROVE  /\ np'[q] = np[q] /\ tmp'[q] = tmp[q]
               /\ process'[np[q]] = process[np[q]] /\ tgid'[np[q]] = tgid[np[q]]
               /\ cwd'[np[q]] = cwd[np[q]]
               /\ process'[q] = process[q] /\ tgid'[q] = tgid[q]
    <3>1. pc'[q] \in Creating
      BY <2>1, <1>m, Zenon
    <3>2. np'[q] = np[q] /\ np[q] \in Slots \ {n} /\ q # n
      BY <2>1, <3>1, <1>c, <1>a, Zenon DEF Creating
    <3> QED BY <3>2, <1>m, <1>i, <1>w, Zenon
  <2>2. ASSUME NEW q \in Slots \ {p}, pc'[q] \in {"fork3", "fork4"}
        PROVE  process'[np'[q]] = np'[q] /\ (pc'[q] = "fork4" => cwd'[np'[q]])
    <3>1. pc[q] = pc'[q] /\ pc[q] \in Creating
      BY <2>2, <1>m, Zenon DEF Creating
    <3>2. process[np[q]] = np[q] /\ (pc[q] = "fork4" => cwd[np[q]])
      BY <2>2, <3>1, Zenon DEF IInv, NewOK
    <3> QED BY <2>1, <3>1, <3>2, Zenon
  <2>3. ASSUME NEW q \in Slots \ {p}, pc'[q] \in {"clone3", "clone4"}
        PROVE  /\ process'[np'[q]] = process'[q] /\ tgid'[np'[q]] = tgid'[q]
               /\ pc'[q] = "clone3" => tmp'[q] \in Ptr
    <3>1. pc[q] = pc'[q] /\ pc[q] \in Creating
      BY <2>3, <1>m, Zenon DEF Creating
    <3>2. /\ process[np[q]] = process[q] /\ tgid[np[q]] = tgid[q]
          /\ pc[q] = "clone3" => tmp[q] \in Ptr
      BY <2>3, <3>1, Zenon DEF IInv, NewOK
    <3>3. process'[np'[q]] = process'[q] /\ tgid'[np'[q]] = tgid'[q] /\ tmp'[q] = tmp[q]
      BY <2>1, <3>1, <3>2, Zenon
    <3> QED BY <3>1, <3>2, <3>3, Zenon
  <2>4. /\ pc'[p] \in {"fork3", "fork4"} => process'[np'[p]] = np'[p]
        /\ pc'[p] = "fork4" => cwd'[np'[p]]
        /\ pc'[p] \in {"clone3", "clone4"} =>
             process'[np'[p]] = process'[p] /\ tgid'[np'[p]] = tgid'[p]
        /\ pc'[p] = "clone3" => tmp'[p] \in Ptr
    <3>1. process'[p] = process[p] /\ tgid'[p] = tgid[p]
      BY <1>b, <1>i, Zenon
    <3>2. pc'[p] \in {"fork3", "fork4", "clone3", "clone4"} => np'[p] = n
      BY <1>p, Zenon DEF Creating
    <3> QED BY <1>n, <3>1, <3>2, Zenon
  <2> QED BY <2>2, <2>3, <2>4, Zenon DEF NewOK
<1>6. GroupOK'
  <2>1. ASSUME NEW q \in Slots, Alive(q)
        PROVE  /\ process'[q] \in Slots /\ process'[process'[q]] = process'[q]
               /\ state'[process'[q]] \notin {"UNUSED", "EMBRYO"}
               /\ tgid'[process'[q]] = tgid'[q]
    <3>1. PICK l \in Slots \ {n} : /\ l = process[q] /\ process[l] = l /\ tgid[l] = tgid[q]
                                   /\ state[l] \notin {"UNUSED", "EMBRYO"}
      BY <2>1, <1>0, Zenon DEF IInv, GroupOK
    <3>2. process'[l] = l /\ tgid'[l] = tgid[q] /\ state'[l] = state[l]
      BY <3>1, <1>s, <1>i, Zenon
    <3>3. process'[q] = l /\ tgid'[q] = tgid[q]
      BY <2>1, <3>1, <1>1, Zenon
    <3> QED BY <3>1, <3>2, <3>3, Zenon
  <2> QED BY <1>1, <2>1, Zenon DEF GroupOK
<1>7. AloneOK'
  <2>1. \A q \in Slots : pc'[q] \in Solitary => pc[q] \in Solitary /\ process'[q] = process[q]
    BY <1>m, <1>p, <1>1, <1>a, Zenon DEF Solitary
  <2> QED BY <1>2, <2>1, Zenon DEF IInv, AloneOK
<1>8. CwdOK'
  <2>1. ASSUME NEW q \in Slots, pc'[q] \notin {"none", "exit2"}
        PROVE  cwd'[process'[q]]
    <3>1. pc[q] \notin {"none", "exit2"} /\ Alive(q)
      BY <2>1, <1>a, <1>m, Zenon
    <3>2. process[q] \in Slots /\ process[q] # n /\ process'[q] = process[q]
      BY <3>1, <1>0, <1>1, Zenon DEF IInv, GroupOK
    <3> QED BY <3>1, <3>2, <1>w, Zenon DEF IInv, CwdOK
  <2> QED BY <2>1, Zenon DEF CwdOK
<1>9. ThreadCountOK'
  BY <1>0, <1>2, <1>t, Zenon DEF IInv, ThreadCountOK
<1> QED BY <1>3, <1>4, <1>5, <1>6, <1>7, <1>8, <1>9, Zenon DEF IInv

-----------------------------------------------------------------------------
(* allocproc makes a free slot an EMBRYO: the invariant is preserved.      *)
LEMMA AllocStep ==
  ASSUME IInv, NEW p \in Slots, pc[p] \in {"fork", "clone"},
         NEW next \in {"fork2", "clone2"}, Allocproc(p, next)
  PROVE  IInv'
<1> DEFINE m == First(Unused)
<1>1. m \in Unused
  BY FirstIn, Pointers, Zenon DEF Allocproc, Unused
<1>2. m \in Slots /\ state[m] = "UNUSED"
  BY <1>1, Zenon DEF Unused
<1>3. PICK n \in Slots : n = m
  BY <1>2, Zenon
<1>4. state[n] = "UNUSED"
  BY <1>2, <1>3, Zenon
<1>5. /\ state' = [state EXCEPT ![n] = "EMBRYO"] /\ pid' = [pid EXCEPT ![n] = nextpid]
      /\ np' = [np EXCEPT ![p] = n] /\ pc' = [pc EXCEPT ![p] = next]
      /\ nextpid' = nextpid + 1
      /\ tgid' = tgid /\ process' = process /\ parent' = parent
      /\ threadcount' = threadcount
      /\ killed' = killed /\ tmp' = tmp /\ panicked' = panicked
      /\ UNCHANGED sleepv /\ UNCHANGED mem
  BY <1>3, Zenon DEF Allocproc, GoTo
<1> HIDE DEF m
<1>6. TypeOK'
  <2>1. state' \in [Slots -> States] /\ pc' \in [Slots -> Pcs]
    BY <1>5, Zenon DEF IInv, TypeOK, States, Pcs, Creating
  <2>2. n \in Ptr
    BY Pointers, Zenon
  <2>3. np' \in [Slots -> Ptr]
    BY <1>5, <2>2, Zenon DEF IInv, TypeOK
  <2>4. pid' \in [Slots -> Nat] /\ nextpid' \in Nat
    <3>1. /\ nextpid \in Nat /\ pid \in [Slots -> Nat]
          /\ nextpid' = nextpid + 1 /\ pid' = [pid EXCEPT ![n] = nextpid]
      BY <1>5, Zenon DEF IInv, TypeOK
    <3>2. nextpid' \in Nat
      BY <3>1
    <3>3. pid' \in [Slots -> Nat]
      BY <3>1, Zenon
    <3> QED BY <3>2, <3>3, Zenon
  <2> QED BY <1>5, <2>1, <2>3, <2>4, Zenon DEF IInv, TypeOK, sleepv, mem
<1>7. \A q \in Slots : pc[q] \in Creating => np[q] # n
  BY <1>4, Zenon DEF IInv, CreateOK
<1>8. /\ pc'[p] = next /\ np'[p] = n /\ state'[n] = "EMBRYO" /\ cwd' = cwd
      /\ \A q \in Slots \ {p} : pc'[q] = pc[q] /\ np'[q] = np[q]
      /\ \A q \in Slots \ {n} : state'[q] = state[q]
  BY <1>5, Zenon DEF IInv, TypeOK, mem
<1>q. Fills(p, n)
  BY <1>4, <1>5, <1>7, <1>8, Zenon DEF Fills, Solitary
<1> QED BY <1>6, <1>q, FillFrame, Zenon

(* fork and clone find a slot, or fail: the invariant is preserved.        *)
LEMMA AllocSteps ==
  ASSUME IInv, NEW p \in Slots, ForkAlloc(p) \/ CloneAlloc(p)
  PROVE  IInv'
<1> USE DEF At, GoTo, Return, ids, sleepv, mem, locals
<1>0. pc[p] \in {"fork", "clone"}
  BY Zenon DEF ForkAlloc, CloneAlloc
<1>1. CASE Allocproc(p, "fork2") \/ Allocproc(p, "clone2")
  BY <1>0, <1>1, AllocStep, Zenon
<1>2. CASE NoProc(p)
  <2>1. TypeOK'
    <3>1. CASE p = initproc
      BY <1>2, <3>1, Zenon DEF IInv, TypeOK, NoProc, Pcs
    <3>2. CASE p # initproc
      <4>1. Return(p)
        BY <1>2, <3>2, Zenon DEF NoProc
      <4> QED BY <1>2, <4>1, Pointers, Zenon DEF IInv, TypeOK, NoProc, Pcs
    <3> QED BY <3>1, <3>2, Zenon
  <2>0. /\ pc \in [Slots -> Pcs] /\ np \in [Slots -> Ptr] /\ tmp \in [Slots -> Nat]
        /\ \E k \in {"user", "exit"} : pc' = [pc EXCEPT ![p] = k]
        /\ np' = np \/ np' = [np EXCEPT ![p] = 0]
        /\ tmp' = tmp \/ tmp' = [tmp EXCEPT ![p] = 0]
    BY <1>2, Zenon DEF IInv, TypeOK, NoProc, Return
  <2>2. pc'[p] \in {"user", "exit"}
    BY <2>0, Zenon
  <2>3. \A q \in Slots \ {p} : pc'[q] = pc[q] /\ np'[q] = np[q] /\ tmp'[q] = tmp[q]
    BY <2>0, Zenon
  <2>q. Quiet(p)
    BY <1>0, <1>2, <2>2, <2>3, Zenon DEF Quiet, NoProc, Creating, Solitary
  <2> QED BY <2>1, <2>q, Frame, Zenon
<1>3. CASE /\ Return(p)
           /\ UNCHANGED <<state, ids, sleepv, killed, threadcount, mem, panicked>>
  <2>1. TypeOK'
    BY <1>3, Pointers, Zenon DEF IInv, TypeOK, Pcs
  <2>2. pc'[p] = "user" /\ \A q \in Slots \ {p} : /\ pc'[q] = pc[q] /\ np'[q] = np[q]
                                                 /\ tmp'[q] = tmp[q]
    BY <1>3, Zenon DEF IInv, TypeOK
  <2>q. Quiet(p)
    BY <1>0, <1>3, <2>2, Zenon DEF Quiet, Creating, Solitary
  <2> QED BY <2>1, <2>q, Frame, Zenon
<1> QED BY <1>1, <1>2, <1>3, Zenon DEF ForkAlloc, CloneAlloc

(* fork and clone fill in the slot, or give it back when there is no       *)
(* memory: the invariant is preserved.                                     *)
LEMMA FillSteps ==
  ASSUME IInv, NEW p \in Slots,
         \/ NoStack(p) \/ ForkGroup(p) \/ ForkParent(p)
         \/ CloneGroup(p) \/ CloneParent(p)
  PROVE  IInv'
<1> USE DEF At, GoTo, ids, sleepv, mem, locals
<1>0. pc[p] \in {"fork2", "fork3", "clone2", "clone3"}
  BY Zenon DEF NoStack, ForkGroup, ForkParent, CloneGroup, CloneParent
<1>a. PICK n \in Slots : n = np[p]
  BY <1>0, Zenon DEF IInv, CreateOK, Creating
<1>b. /\ state[n] = "EMBRYO"
      /\ \A q \in Slots \ {p} : pc[q] \in Creating => np[q] # n
  BY <1>0, <1>a, Zenon DEF IInv, CreateOK, Creating
<1>c. p # n /\ threadcount[n] = 0
  BY <1>0, <1>b, Nobodys, Zenon
<1>d. 0 \in Ptr /\ 0 \in Nat /\ n \in Ptr
  BY Pointers, Zenon
<1>e. ASSUME Abandon(p)
      PROVE  /\ state' = [state EXCEPT ![n] = "UNUSED"]
             /\ pc' \in [Slots -> Pcs] /\ np' \in [Slots -> Ptr] /\ tmp' \in [Slots -> Nat]
             /\ pc'[p] \in {"user", "exit"}
             /\ \A q \in Slots \ {p} : pc'[q] = pc[q] /\ np'[q] = np[q] /\ tmp'[q] = tmp[q]
  <2>1. /\ state' = [state EXCEPT ![n] = "UNUSED"]
        /\ np' = [np EXCEPT ![p] = 0]
        /\ \E l \in {"user", "exit"} : pc' = [pc EXCEPT ![p] = l]
        /\ tmp' = tmp \/ tmp' = [tmp EXCEPT ![p] = 0]
    BY <1>e, <1>a, Zenon DEF Abandon, Return
  <2>k. PICK k \in {"user", "exit"} : pc' = [pc EXCEPT ![p] = k]
    BY <2>1, Zenon
  <2>2. pc' \in [Slots -> Pcs] /\ pc'[p] \in {"user", "exit"}
    <3>1. pc \in [Slots -> Pcs] /\ k \in Pcs
      BY <2>k, Zenon DEF IInv, TypeOK, Pcs
    <3> QED BY <2>k, <3>1, Zenon
  <2>t. pc \in [Slots -> Pcs] /\ np \in [Slots -> Ptr] /\ tmp \in [Slots -> Nat]
    BY Zenon DEF IInv, TypeOK
  <2>3. np' \in [Slots -> Ptr] /\ tmp' \in [Slots -> Nat]
    BY <1>d, <2>1, <2>t, Zenon
  <2>4. \A q \in Slots \ {p} : pc'[q] = pc[q] /\ np'[q] = np[q] /\ tmp'[q] = tmp[q]
    BY <2>1, <2>k, <2>t, Zenon
  <2> QED BY <2>1, <2>2, <2>3, <2>4, Zenon
<1>1. CASE NoStack(p)
  <2>0. Abandon(p)
    BY <1>1, Zenon DEF NoStack
  <2>1. TypeOK'
    BY <1>1, <1>e, <2>0, Zenon DEF IInv, TypeOK, NoStack, States
  <2>2. state'[n] = "UNUSED" /\ \A q \in Slots \ {n} : state'[q] = state[q]
    BY <1>e, <2>0, Zenon DEF IInv, TypeOK
  <2>q. Fills(p, n)
    BY <1>0, <1>1, <1>b, <1>e, <2>0, <2>2, Zenon DEF Fills, NoStack, Creating, Solitary
  <2> QED BY <2>1, <2>q, FillFrame, Zenon
<1>2. CASE ForkGroup(p)
  <2>1. /\ tgid' = [tgid EXCEPT ![n] = pid[n]] /\ process' = [process EXCEPT ![n] = n]
        /\ lostwakeup' = [lostwakeup EXCEPT ![n] = 0]
        /\ pid' = pid /\ parent' = parent /\ nextpid' = nextpid /\ chan' = chan
        /\ killed' = killed /\ threadcount' = threadcount /\ cwd' = cwd
        /\ panicked' = panicked
    BY <1>2, <1>a, Zenon DEF ForkGroup
  <2>2. /\ process'[n] = n
        /\ \A q \in Slots \ {n} : process'[q] = process[q] /\ tgid'[q] = tgid[q]
    BY <2>1, Zenon DEF IInv, TypeOK
  <2>3. CASE GoTo(p, "fork3") /\ UNCHANGED <<state, locals>>
    <3>1. pgdir' \in [Slots -> {0} \cup PgIds] /\ pgs' \subseteq PgIds
      <4>1. PgIds \ pgs # {} => First(PgIds \ pgs) \in PgIds
        BY FirstIn, NPROCAssumption DEF PgIds
      <4>2. CASE PgIds \ pgs # {}
        <5>1. PICK g \in PgIds : g = First(PgIds \ pgs)
          BY <4>1, <4>2, Zenon
        <5>2. \/ pgdir' = [pgdir EXCEPT ![n] = g] /\ pgs' = pgs \cup {g}
              \/ pgdir' = [pgdir EXCEPT ![n] = 0] /\ pgs' = pgs
          BY <1>2, <1>a, <5>1, Zenon DEF ForkGroup
        <5> QED BY <5>2, Zenon DEF IInv, TypeOK
      <4>3. CASE PgIds \ pgs = {}
        <5>1. pgdir' = [pgdir EXCEPT ![n] = 0] /\ pgs' = pgs
          BY <1>2, <1>a, <4>3, Zenon DEF ForkGroup
        <5> QED BY <5>1, Zenon DEF IInv, TypeOK
      <4> QED BY <4>2, <4>3, Zenon
    <3>2. TypeOK'
      BY <2>1, <2>3, <3>1, <1>d, Zenon DEF IInv, TypeOK, Pcs, Creating
    <3>3. pc'[p] = "fork3" /\ \A q \in Slots \ {p} : pc'[q] = pc[q]
      BY <2>3, Zenon DEF IInv, TypeOK
    <3>q. Fills(p, n)
      BY <1>0, <1>a, <1>b, <2>1, <2>2, <2>3, <3>3, Zenon DEF Fills, Solitary
    <3> QED BY <3>2, <3>q, FillFrame, Zenon
  <2>4. CASE Abandon(p) /\ pgdir' = [pgdir EXCEPT ![n] = 0] /\ pgs' = pgs
    <3>1. TypeOK'
      BY <1>d, <1>e, <2>1, <2>4, Zenon DEF IInv, TypeOK, States
    <3>2. state'[n] = "UNUSED" /\ \A q \in Slots \ {n} : state'[q] = state[q]
      BY <1>e, <2>4, Zenon DEF IInv, TypeOK
    <3>q. Fills(p, n)
      BY <1>0, <1>b, <1>e, <2>1, <2>2, <2>4, <3>2, Zenon DEF Fills, Creating, Solitary
    <3> QED BY <3>1, <3>q, FillFrame, Zenon
  <2> QED BY <1>2, <1>a, <2>3, <2>4, Zenon DEF ForkGroup
<1>3. CASE ForkParent(p)
  <2>1. TypeOK'
    BY <1>3, <1>a, Zenon DEF IInv, TypeOK, ForkParent, Pcs, Creating
  <2>2. process[n] = n
    BY <1>3, <1>a, Zenon DEF IInv, NewOK, ForkParent
  <2>3. /\ pc'[p] = "fork4" /\ \A q \in Slots \ {p} : pc'[q] = pc[q]
        /\ cwd'[n] /\ \A q \in Slots \ {n} : cwd'[q] = cwd[q]
    BY <1>3, <1>a, Zenon DEF IInv, TypeOK, ForkParent
  <2>4. /\ state' = state /\ process' = process /\ tgid' = tgid
        /\ threadcount' = threadcount /\ np' = np /\ tmp' = tmp
    BY <1>3, Zenon DEF ForkParent
  <2>q. Fills(p, n)
    BY <1>0, <1>a, <1>b, <2>2, <2>3, <2>4, Zenon DEF Fills, Solitary
  <2> QED BY <2>1, <2>q, FillFrame, Zenon
<1>4. CASE CloneGroup(p)
  <2>1. TypeOK'
    <3>1. parent[p] \in Ptr /\ parent[p] \in Nat
      BY Pointers, Zenon DEF IInv, TypeOK
    <3>2. tmp' \in [Slots -> Nat] /\ threadcount' \in [Slots -> Nat]
      BY <1>4, <1>a, <1>d, <3>1, Zenon DEF IInv, TypeOK, CloneGroup
    <3>3. /\ tgid' \in [Slots -> Nat] /\ process' \in [Slots -> Ptr]
          /\ lostwakeup' \in [Slots -> {0} \cup Chans]
          /\ pgdir' \in [Slots -> {0} \cup PgIds]
      BY <1>4, <1>a, Zenon DEF IInv, TypeOK, CloneGroup
    <3>4. pc' \in [Slots -> Pcs]
      BY <1>4, Zenon DEF IInv, TypeOK, CloneGroup, Pcs, Creating
    <3> QED BY <1>4, <3>2, <3>3, <3>4, Zenon DEF IInv, TypeOK, CloneGroup
  <2>2. /\ process'[n] = process[p] /\ tgid'[n] = tgid[p]
        /\ threadcount'[n] = 0 /\ tmp'[p] \in Ptr
        /\ \A q \in Slots \ {n} : /\ process'[q] = process[q] /\ tgid'[q] = tgid[q]
                                  /\ threadcount'[q] = threadcount[q]
    BY <1>4, <1>a, Zenon DEF IInv, TypeOK, CloneGroup
  <2>3. pc'[p] = "clone3" /\ \A q \in Slots \ {p} : pc'[q] = pc[q] /\ tmp'[q] = tmp[q]
    BY <1>4, Zenon DEF IInv, TypeOK, CloneGroup
  <2>q. Fills(p, n)
    BY <1>0, <1>4, <1>a, <1>b, <2>2, <2>3, Zenon DEF Fills, CloneGroup, Solitary
  <2> QED BY <2>1, <2>q, FillFrame, Zenon
<1>5. CASE CloneParent(p)
  <2>1. process[n] = process[p] /\ tgid[n] = tgid[p] /\ tmp[p] \in Ptr
    BY <1>5, <1>a, Zenon DEF IInv, NewOK, CloneParent
  <2>2. TypeOK'
    BY <1>5, <1>a, <2>1, Zenon DEF IInv, TypeOK, CloneParent, Pcs, Creating
  <2>3. pc'[p] = "clone4" /\ \A q \in Slots \ {p} : pc'[q] = pc[q]
    BY <1>5, Zenon DEF IInv, TypeOK, CloneParent
  <2>q. Fills(p, n)
    BY <1>0, <1>5, <1>a, <1>b, <2>1, <2>3, Zenon DEF Fills, CloneParent, Solitary
  <2> QED BY <2>2, <2>q, FillFrame, Zenon
<1> QED BY <1>1, <1>2, <1>3, <1>4, <1>5, Zenon

-----------------------------------------------------------------------------
(* A step of p that commits the slot n it has filled in to the group of l *)
Births(p, n, l) ==
  /\ pc[p] \in Creating /\ n = np[p]
  /\ process[n] = l /\ process[l] = l /\ tgid[l] = tgid[n] /\ cwd[l]
  /\ l = n \/ l = process[p]
  /\ process' = process /\ tgid' = tgid /\ cwd' = cwd
  /\ state' = [state EXCEPT ![n] = "RUNNABLE"]
  /\ threadcount' = [threadcount EXCEPT ![l] = threadcount[l] + 1]
  /\ pc'[p] = "user" /\ pc'[n] = "user"
  /\ \A q \in Slots \ {p, n} : pc'[q] = pc[q]
  /\ \A q \in Slots \ {p} : np'[q] = np[q] /\ tmp'[q] = tmp[q]

(* A step of p by which the thread n it has filled in comes to life in the *)
(* group of l, and is counted, preserves the invariant.  No thread of that *)
(* group can be relying on being alone: either it is a new group, or p is  *)
(* one of its threads.                                                     *)
LEMMA BirthFrame ==
  ASSUME IInv, TypeOK', NEW p \in Slots, NEW n \in Slots, NEW l \in Slots, Births(p, n, l)
  PROVE  IInv'
<1>m. pc[p] \in Creating /\ n = np[p]
  BY Zenon DEF Births
<1>l. /\ process[n] = l /\ process[l] = l /\ tgid[l] = tgid[n] /\ cwd[l]
      /\ l = n \/ l = process[p]
  BY Zenon DEF Births
<1>u. process' = process /\ tgid' = tgid /\ cwd' = cwd
  BY Zenon DEF Births
<1>t. threadcount' = [threadcount EXCEPT ![l] = threadcount[l] + 1]
  BY Zenon DEF Births
<1>p. /\ pc'[p] = "user" /\ pc'[n] = "user"
      /\ \A q \in Slots \ {p, n} : pc'[q] = pc[q]
      /\ \A q \in Slots \ {p} : np'[q] = np[q] /\ tmp'[q] = tmp[q]
  BY Zenon DEF Births
<1>a. /\ state[n] = "EMBRYO"
      /\ \A q \in Slots \ {p} : pc[q] \in Creating => np[q] # n
  BY <1>m, Zenon DEF IInv, CreateOK
<1>b. /\ ~Alive(n) /\ pc[n] = "none" /\ LiveThreads(n) = {} /\ threadcount[n] = 0
      /\ \A q \in Slots : Alive(q) => process[q] # n
  BY <1>a, Nobodys, Zenon
<1>c. Alive(p) /\ p # n
  BY <1>b, <1>m, Zenon DEF IInv, PcOK, Creating
<1>s. /\ state'[n] = "RUNNABLE" /\ \A q \in Slots \ {n} : state'[q] = state[q]
  BY ZenonT(60) DEF Births, IInv, TypeOK
<1>1. \A q \in Slots : Alive(q)' <=> (Alive(q) \/ q = n)
  BY <1>s, Zenon DEF Alive
<1>2. \A k : k # l => LiveThreads(k)' = LiveThreads(k)
  BY <1>1, <1>l, <1>u, Zenon DEF LiveThreads
<1>3. LiveThreads(l)' = LiveThreads(l) \cup {n} /\ n \notin LiveThreads(l)
  BY <1>1, <1>b, <1>l, <1>u, Zenon DEF LiveThreads
<1>4. PcOK'
  BY <1>1, <1>c, <1>p, Zenon DEF IInv, PcOK
<1>5. \A q \in Slots : pc'[q] \in Creating =>
        /\ q \notin {p, n} /\ pc[q] \in Creating
        /\ pc'[q] = pc[q] /\ np'[q] = np[q] /\ tmp'[q] = tmp[q] /\ np[q] # n
  BY <1>p, <1>a, Zenon DEF Creating
<1>6. CreateOK'
  <2>1. ASSUME NEW q \in Slots, pc'[q] \in Creating
        PROVE  np'[q] \in Slots /\ state'[np'[q]] = "EMBRYO"
    <3>1. np'[q] = np[q] /\ np[q] # n /\ pc[q] \in Creating
      BY <1>5, <2>1, Zenon
    <3>2. np[q] \in Slots /\ state[np[q]] = "EMBRYO"
      BY <3>1, Zenon DEF IInv, CreateOK
    <3> QED BY <3>1, <3>2, <1>s, Zenon
  <2>2. ASSUME NEW q \in Slots, NEW r \in Slots \ {q}, pc'[q] \in Creating, pc'[r] \in Creating
        PROVE  np'[r] # np'[q]
    <3>1. /\ pc[q] \in Creating /\ np'[q] = np[q]
          /\ pc[r] \in Creating /\ np'[r] = np[r]
      BY <1>5, <2>2, Zenon
    <3>2. np[r] # np[q]
      BY <2>2, <3>1, Zenon DEF IInv, CreateOK
    <3> QED BY <3>1, <3>2, Zenon
  <2> QED BY <2>1, <2>2, Zenon DEF CreateOK
<1>7. NewOK'
  <2>1. \A q \in Slots : pc'[q] \in {"fork3", "fork4", "clone3", "clone4"} =>
          pc'[q] = pc[q] /\ np'[q] = np[q] /\ tmp'[q] = tmp[q]
    BY <1>5, Zenon DEF Creating
  <2> QED BY <2>1, <1>u DEF IInv, NewOK
<1>8. GroupOK'
  <2>1. ASSUME NEW q \in Slots, Alive(q)
        PROVE  /\ process[q] \in Slots /\ process[process[q]] = process[q]
               /\ state'[process[q]] \notin {"UNUSED", "EMBRYO"}
               /\ tgid[process[q]] = tgid[q]
    <3>1. /\ process[q] \in Slots /\ process[process[q]] = process[q]
          /\ state[process[q]] \notin {"UNUSED", "EMBRYO"}
          /\ tgid[process[q]] = tgid[q]
      BY <2>1, Zenon DEF IInv, GroupOK
    <3>2. state'[process[q]] = state[process[q]]
      BY <2>1, <3>1, <1>b, <1>s, Zenon
    <3> QED BY <3>1, <3>2, Zenon
  <2>2. state'[l] \notin {"UNUSED", "EMBRYO"}
    BY <1>s, <1>l, <1>c, <2>1, Zenon
  <2>3. \A q \in Slots : Alive(q)' =>
          /\ process[q] \in Slots /\ process[process[q]] = process[q]
          /\ state'[process[q]] \notin {"UNUSED", "EMBRYO"}
          /\ tgid[process[q]] = tgid[q]
    BY <1>1, <1>l, <2>1, <2>2, Zenon
  <2> QED BY <1>u, <2>3, Zenon DEF GroupOK
<1>9. AloneOK'
  <2>1. ASSUME NEW q \in Slots, pc'[q] \in Solitary
        PROVE  LiveThreads(process[q])' = {q}
    <3>1. q \notin {p, n} /\ pc[q] \in Solitary
      BY <2>1, <1>p, Zenon DEF Solitary
    <3>2. LiveThreads(process[q]) = {q} /\ Alive(q)
      BY <3>1, Zenon DEF IInv, AloneOK, PcOK, Solitary
    <3>3. process[q] # l
      BY <1>b, <1>c, <1>l, <3>1, <3>2, Zenon DEF LiveThreads
    <3> QED BY <1>2, <1>u, <3>2, <3>3, Zenon
  <2> QED BY <2>1, Zenon DEF AloneOK
<1>10. CwdOK'
  <2>1. ASSUME NEW q \in Slots, pc'[q] \notin {"none", "exit2"} PROVE cwd[process[q]]
    <3>1. CASE q = n
      BY <3>1, <1>l, Zenon
    <3>2. CASE q # n
      <4>1. pc[q] \notin {"none", "exit2"}
        BY <2>1, <3>2, <1>p, <1>m, Zenon DEF Creating
      <4> QED BY <4>1, Zenon DEF IInv, CwdOK
    <3> QED BY <3>1, <3>2, Zenon
  <2> QED BY <2>1, <1>u, Zenon DEF CwdOK
<1>11. ThreadCountOK'
  <2>1. /\ threadcount'[l] = threadcount[l] + 1
        /\ \A k \in Slots \ {l} : threadcount'[k] = threadcount[k]
    <3>1. threadcount \in [Slots -> Nat]
      BY Zenon DEF IInv, TypeOK
    <3> QED BY <3>1, <1>t, Zenon
  <2>2. Cardinality(LiveThreads(l)') = Cardinality(LiveThreads(l)) + 1
    <3> DEFINE S == LiveThreads(l)
    <3>1. IsFiniteSet(S) /\ n \notin S /\ LiveThreads(l)' = S \cup {n}
      BY <1>3, LiveFinite, Zenon
    <3> HIDE DEF S
    <3>2. Cardinality(S \cup {n}) = Cardinality(S) + 1
      BY <3>1, FS_AddElement, Zenon
    <3> QED BY <3>1, <3>2, Zenon DEF S
  <2>3. \A k \in Slots : threadcount'[k] = Cardinality(LiveThreads(k)')
    BY <1>2, <2>1, <2>2, Zenon DEF IInv, ThreadCountOK
  <2> QED BY <2>3, Zenon DEF ThreadCountOK
<1> QED BY <1>4, <1>6, <1>7, <1>8, <1>9, <1>10, <1>11, Zenon DEF IInv

(* fork and clone commit the new thread, or clone leaves a ZOMBIE because  *)
(* its caller has been killed meanwhile: the invariant is preserved.       *)
LEMMA CommitSteps ==
  ASSUME IInv, NEW p \in Slots, ForkCommit(p) \/ CloneCommit(p)
  PROVE  IInv'
<1>0. pc[p] \in {"fork4", "clone4"} /\ Alive(p)
  BY Zenon DEF ForkCommit, CloneCommit, At, Alive
<1>a. PICK n \in Slots : n = np[p]
  BY <1>0, Zenon DEF IInv, CreateOK, Creating
<1>b. /\ state[n] = "EMBRYO"
      /\ \A q \in Slots \ {p} : pc[q] \in Creating => np[q] # n
  BY <1>0, <1>a, Zenon DEF IInv, CreateOK, Creating
<1>c. p # n /\ threadcount[n] = 0 /\ pc[p] \in Creating
  BY <1>0, <1>b, Nobodys, Zenon DEF Creating
<1>d. 0 \in Ptr /\ 0 \in Nat
  BY Pointers, Zenon
<1>1. CASE ForkCommit(p)
  <2>1. process[n] = n /\ cwd[n]
    BY <1>1, <1>a, Zenon DEF IInv, NewOK, ForkCommit, At
  <2>2. /\ state' = [state EXCEPT ![n] = "RUNNABLE"]
        /\ pc' = [pc EXCEPT ![p] = "user", ![n] = "user"]
        /\ np' = [np EXCEPT ![p] = 0]
        /\ threadcount' = [threadcount EXCEPT ![n] = 1]
        /\ \E x \in {0, pid[n]} : tmp' = [tmp EXCEPT ![p] = x]
        /\ UNCHANGED <<ids, sleepv, killed, mem, panicked>>
    BY <1>1, <1>a, Zenon DEF ForkCommit
  <2>3. state' \in [Slots -> States] /\ pc' \in [Slots -> Pcs]
    BY <2>2, Zenon DEF IInv, TypeOK, States, Pcs
  <2>4. np' \in [Slots -> Ptr]
    BY <1>d, <2>2, Zenon DEF IInv, TypeOK
  <2>5. tmp' \in [Slots -> Nat] /\ threadcount' \in [Slots -> Nat]
    <3>1. pid[n] \in Nat /\ 1 \in Nat
      BY Zenon DEF IInv, TypeOK
    <3>2. PICK x \in {0, pid[n]} : tmp' = [tmp EXCEPT ![p] = x]
      BY <2>2, Zenon
    <3>3. x \in Nat
      BY <1>d, <3>1, Zenon
    <3>4. tmp' \in [Slots -> Nat]
      BY <3>2, <3>3, Zenon DEF IInv, TypeOK
    <3>5. threadcount' \in [Slots -> Nat]
      BY <2>2, <3>1, Zenon DEF IInv, TypeOK
    <3> QED BY <3>4, <3>5, Zenon
  <2>6. TypeOK'
    BY <2>2, <2>3, <2>4, <2>5, Zenon DEF IInv, TypeOK, ids, sleepv, mem
  <2>7. threadcount' = [threadcount EXCEPT ![n] = threadcount[n] + 1]
    BY <1>c, <2>2
  <2>8. /\ pc'[p] = "user" /\ pc'[n] = "user" /\ \A q \in Slots \ {p, n} : pc'[q] = pc[q]
        /\ \A q \in Slots \ {p} : np'[q] = np[q] /\ tmp'[q] = tmp[q]
    BY <2>2, <1>c, Zenon DEF IInv, TypeOK
  <2>9. process' = process /\ tgid' = tgid /\ cwd' = cwd
    BY <2>2, Zenon DEF ids, mem
  <2> QED BY <1>a, <1>c, <2>1, <2>2, <2>6, <2>7, <2>8, <2>9, BirthFrame, ZenonT(30) DEF Births
<1>2. CASE CloneCommit(p)
  <2>1. /\ np' = [np EXCEPT ![p] = 0] /\ tmp' = [tmp EXCEPT ![p] = 0]
        /\ UNCHANGED <<ids, sleepv, killed, mem, panicked>>
    BY <1>2, Zenon DEF CloneCommit
  <2>2. np' \in [Slots -> Ptr] /\ tmp' \in [Slots -> Nat]
    BY <1>d, <2>1, Zenon DEF IInv, TypeOK
  <2>3. \A q \in Slots \ {p} : np'[q] = np[q] /\ tmp'[q] = tmp[q]
    BY <2>1, Zenon DEF IInv, TypeOK
  <2>4. process' = process /\ tgid' = tgid /\ cwd' = cwd
    BY <2>1, Zenon DEF ids, mem
  <2>5. CASE killed[p]
    <3>1. /\ state' = [state EXCEPT ![n] = "ZOMBIE"]
          /\ pc' = [pc EXCEPT ![p] = "user"] /\ threadcount' = threadcount
      BY <1>2, <1>a, <2>5, Zenon DEF CloneCommit, GoTo
    <3>2. TypeOK'
      BY <2>1, <2>2, <3>1, Zenon DEF IInv, TypeOK, ids, sleepv, mem, States, Pcs
    <3>3. /\ state'[n] = "ZOMBIE" /\ \A q \in Slots \ {n} : state'[q] = state[q]
          /\ pc'[p] = "user" /\ \A q \in Slots \ {p} : pc'[q] = pc[q]
      BY <3>1, Zenon DEF IInv, TypeOK
    <3>q. Fills(p, n)
      BY <1>0, <1>b, <2>3, <2>4, <3>1, <3>3, Zenon DEF Fills, Creating, Solitary
    <3> QED BY <3>2, <3>q, FillFrame, Zenon
  <2>6. CASE ~killed[p]
    <3>1. PICK l \in Slots : l = process[p]
      BY <1>0, Zenon DEF IInv, GroupOK
    <3>2. /\ state' = [state EXCEPT ![n] = "RUNNABLE"]
          /\ pc' = [pc EXCEPT ![p] = "user", ![n] = "user"]
          /\ threadcount' = [threadcount EXCEPT ![l] = threadcount[l] + 1]
      BY <1>2, <1>a, <2>6, <3>1, ZenonT(60) DEF CloneCommit
    <3>3. process[n] = l /\ process[l] = l /\ tgid[l] = tgid[n] /\ cwd[l]
      BY <1>0, <1>2, <1>a, <3>1, SMTT(30) DEF IInv, NewOK, GroupOK, CwdOK, CloneCommit, At
    <3>4. threadcount' \in [Slots -> Nat]
      <4>1. threadcount \in [Slots -> Nat] /\ threadcount[l] \in Nat
        BY Zenon DEF IInv, TypeOK
      <4>2. threadcount[l] + 1 \in Nat
        BY <4>1
      <4> QED BY <3>2, <4>1, <4>2, Zenon
    <3>5. state' \in [Slots -> States] /\ pc' \in [Slots -> Pcs]
      BY <3>2, Zenon DEF IInv, TypeOK, States, Pcs
    <3>6. TypeOK'
      BY <2>1, <2>2, <3>4, <3>5, Zenon DEF IInv, TypeOK, ids, sleepv, mem
    <3>7. pc'[p] = "user" /\ pc'[n] = "user" /\ \A q \in Slots \ {p, n} : pc'[q] = pc[q]
      BY <3>2, <1>c, Zenon DEF IInv, TypeOK
    <3> QED BY <1>a, <1>c, <2>3, <2>4, <3>1, <3>2, <3>3, <3>6, <3>7, BirthFrame, ZenonT(60) DEF Births
  <2> QED BY <2>5, <2>6, Zenon
<1> QED BY <1>1, <1>2, Zenon

-----------------------------------------------------------------------------
(* exit: the working directory is dropped by the only live thread, and the *)
(* thread that ends is the one that is no longer counted.  The invariant   *)
(* is preserved.                                                           *)
LEMMA ExitSteps ==
  ASSUME IInv, NEW p \in Slots, ExitCwd(p) \/ ExitFinal(p)
  PROVE  IInv'
<1>0. Alive(p)
  BY Zenon DEF ExitCwd, ExitFinal, At, Alive
<1>a. PICK l \in Slots : l = process[p]
  BY <1>0, Zenon DEF IInv, GroupOK
<1>1. CASE ExitCwd(p)
  <2>1. /\ cwd' = [cwd EXCEPT ![l] = FALSE] /\ pc' = [pc EXCEPT ![p] = "exit2"]
        /\ UNCHANGED <<state, ids, sleepv, killed, threadcount, pgdir, pgs, locals,
                       panicked>>
        /\ pc[p] = "exitcwd"
    BY <1>1, <1>a, Zenon DEF ExitCwd, GoTo, At
  <2>2. TypeOK'
    BY <2>1, Zenon DEF IInv, TypeOK, ids, sleepv, locals, Pcs
  <2>3. LiveThreads(l) = {p}
    BY <2>1, <1>a, Zenon DEF IInv, AloneOK, Solitary
  <2>4. \A k : LiveThreads(k)' = LiveThreads(k)
    BY <2>1, Zenon DEF LiveThreads, Alive, ids
  <2>5. PcOK'
    BY <1>0, <2>1, Zenon DEF IInv, PcOK, TypeOK, Alive
  <2>6. CreateOK'
    BY <2>1, Zenon DEF IInv, CreateOK, TypeOK, locals, Creating
  <2>7. NewOK'
    <3>1. ASSUME NEW q \in Slots, pc'[q] = "fork4" PROVE cwd'[np[q]]
      <4>0. pc[q] = "fork4"
        BY <2>1, <3>1, Zenon DEF IInv, TypeOK
      <4>1. np[q] \in Slots /\ state[np[q]] = "EMBRYO" /\ cwd[np[q]]
        BY <4>0, Zenon DEF IInv, NewOK, CreateOK, Creating
      <4>2. np[q] # l
        BY <1>0, <1>a, <4>1, Zenon DEF IInv, GroupOK
      <4> QED BY <2>1, <4>1, <4>2, Zenon DEF IInv, TypeOK
    <3> QED BY <2>1, <3>1, ZenonT(30) DEF IInv, NewOK, TypeOK, ids, locals
  <2>8. GroupOK'
    BY <2>1, Zenon DEF IInv, GroupOK, Alive, ids
  <2>9. AloneOK'
    <3>1. \A q \in Slots : pc'[q] \in Solitary => pc[q] \in Solitary
      BY <2>1, Zenon DEF IInv, TypeOK, Solitary
    <3>2. process' = process
      BY <2>1, Zenon DEF ids
    <3> QED BY <2>4, <3>1, <3>2, Zenon DEF IInv, AloneOK
  <2>10. CwdOK'
    <3>1. ASSUME NEW q \in Slots, pc'[q] \notin {"none", "exit2"} PROVE cwd'[process[q]]
      <4>1. q # p /\ pc[q] \notin {"none", "exit2"} /\ Alive(q)
        BY <2>1, <3>1, Zenon DEF IInv, TypeOK, PcOK
      <4>2. process[q] \in Slots /\ process[q] # l
        BY <2>3, <4>1, Zenon DEF IInv, GroupOK, LiveThreads
      <4> QED BY <2>1, <4>1, <4>2, Zenon DEF IInv, TypeOK, CwdOK
    <3> QED BY <2>1, <3>1, Zenon DEF CwdOK, ids
  <2>11. ThreadCountOK'
    BY <2>1, <2>4, Zenon DEF IInv, ThreadCountOK
  <2> QED BY <2>2, <2>5, <2>6, <2>7, <2>8, <2>9, <2>10, <2>11, Zenon DEF IInv
<1>2. CASE ExitFinal(p)
  <2>1. /\ pc' = [pc EXCEPT ![p] = "none"]
        /\ threadcount' = [threadcount EXCEPT ![l] = threadcount[l] - 1]
        /\ UNCHANGED <<pid, tgid, process, nextpid, sleepv, killed, mem, locals, panicked>>
    BY <1>2, <1>a, Zenon DEF ExitFinal
  <2>2. /\ state'[p] = "ZOMBIE" /\ state' \in [Slots -> States]
        /\ \A q \in Slots \ {p} :
             \/ state'[q] = state[q]
             \/ state[q] = "SLEEPING" /\ state'[q] = "RUNNABLE"
    BY <1>2, Zenon DEF IInv, TypeOK, ExitFinal, Wakeup1, States
  <2>3. parent' \in [Slots -> Ptr]
    BY <1>2, Pointers, Zenon DEF IInv, TypeOK, ExitFinal
  <2>4. \A q \in Slots : Alive(q)' <=> Alive(q) /\ q # p
    BY <2>2, Zenon DEF Alive
  <2>5. p \in LiveThreads(l) /\ LiveThreads(l)' = LiveThreads(l) \ {p}
    BY <1>0, <1>a, <2>1, <2>4, Zenon DEF LiveThreads
  <2>6. \A k : k # l => LiveThreads(k)' = LiveThreads(k)
    BY <1>a, <2>1, <2>4, Zenon DEF LiveThreads
  <2>7. /\ Cardinality(LiveThreads(l)') = threadcount[l] - 1
        /\ threadcount[l] - 1 \in Nat
    <3> DEFINE S == LiveThreads(l)
    <3>1. /\ IsFiniteSet(S) /\ p \in S /\ LiveThreads(l)' = S \ {p}
          /\ threadcount[l] = Cardinality(S)
      BY <2>5, LiveFinite, Zenon DEF IInv, ThreadCountOK
    <3> HIDE DEF S
    <3>2. IsFiniteSet(S \ {p}) /\ Cardinality(S \ {p}) = Cardinality(S) - 1
      BY <3>1, FS_RemoveElement, Zenon
    <3>3. Cardinality(S \ {p}) \in Nat
      BY <3>2, FS_CardinalityType, Zenon
    <3> QED BY <3>1, <3>2, <3>3, Zenon
  <2>8. TypeOK'
    <3>1. threadcount' \in [Slots -> Nat]
      BY <2>1, <2>7, Zenon DEF IInv, TypeOK
    <3>2. pc' \in [Slots -> Pcs]
      BY <2>1, Zenon DEF IInv, TypeOK, Pcs
    <3> QED BY <2>1, <2>2, <2>3, <3>1, <3>2, Zenon DEF IInv, TypeOK, sleepv, mem, locals
  <2>9. pc'[p] = "none" /\ \A q \in Slots \ {p} : pc'[q] = pc[q]
    BY <2>1, Zenon DEF IInv, TypeOK
  <2>10. PcOK'
    BY <2>4, <2>9, Zenon DEF IInv, PcOK
  <2>11. CreateOK'
    <3>1. \A q \in Slots : state[q] = "EMBRYO" => state'[q] = "EMBRYO"
      BY <1>0, <2>2, Zenon DEF Alive
    <3> QED BY <2>1, <2>9, <3>1, Zenon DEF IInv, CreateOK, Creating, locals
  <2>12. NewOK'
    BY <2>1, <2>9, ZenonT(60) DEF IInv, NewOK, mem, locals
  <2>13. GroupOK'
    <3>1. \A q \in Slots : state[q] \notin {"UNUSED", "EMBRYO"}
                               => state'[q] \notin {"UNUSED", "EMBRYO"}
      BY <2>2, Zenon
    <3> QED BY <2>1, <2>4, <3>1, Zenon DEF IInv, GroupOK
  <2>14. AloneOK'
    <3>1. ASSUME NEW q \in Slots, pc'[q] \in Solitary
          PROVE  LiveThreads(process[q])' = {q}
      <4>1. q # p /\ LiveThreads(process[q]) = {q}
        BY <2>9, <3>1, Zenon DEF IInv, AloneOK, Solitary
      <4>2. process[q] # l
        BY <2>5, <4>1, Zenon
      <4> QED BY <2>1, <2>6, <4>1, <4>2, Zenon
    <3> QED BY <2>1, <3>1, Zenon DEF AloneOK
  <2>15. CwdOK'
    BY <2>1, <2>9, Zenon DEF IInv, CwdOK, mem
  <2>16. ThreadCountOK'
    <3>1. /\ threadcount'[l] = threadcount[l] - 1
          /\ \A k \in Slots \ {l} : threadcount'[k] = threadcount[k]
      <4>1. threadcount \in [Slots -> Nat]
        BY Zenon DEF IInv, TypeOK
      <4> QED BY <2>1, <4>1, Zenon
    <3>2. \A k \in Slots : threadcount'[k] = Cardinality(LiveThreads(k)')
      BY <2>6, <2>7, <3>1, Zenon DEF IInv, ThreadCountOK
    <3> QED BY <3>2, Zenon DEF ThreadCountOK
  <2> QED BY <2>8, <2>10, <2>11, <2>12, <2>13, <2>14, <2>15, <2>16, Zenon DEF IInv
<1> QED BY <1>1, <1>2, Zenon

-----------------------------------------------------------------------------
(* Reaping dead slots that are no live thread's leader preserves the       *)
(* invariant.                                                              *)
LEMMA ReapFrame ==
  ASSUME IInv, TypeOK', NEW p \in Slots, NEW S \in SUBSET Slots,
         Reap(S), \A q \in S : state[q] = "ZOMBIE",
         \A q \in Slots : Alive(q) => process[q] \notin S,
         pc[p] \in {"wait", "join"}, pc' = [pc EXCEPT ![p] = "user"], cwd' = cwd,
         \A q \in Slots \ {p} : np'[q] = np[q] /\ tmp'[q] = tmp[q]
  PROVE  IInv'
<1>1. \A q \in Slots : q \in S => /\ ~Alive(q) /\ pc[q] = "none"
                                  /\ state'[q] = "UNUSED" /\ threadcount'[q] = 0
  BY Zenon DEF Reap, Alive, IInv, PcOK
<1>2. \A q \in Slots \ S : /\ state'[q] = state[q] /\ process'[q] = process[q]
                           /\ tgid'[q] = tgid[q] /\ threadcount'[q] = threadcount[q]
  BY Zenon DEF Reap
<1>3. \A q \in Slots : Alive(q)' <=> Alive(q)
  BY <1>1, <1>2, Zenon DEF Alive
<1>4. pc'[p] = "user" /\ \A q \in Slots \ {p} : pc'[q] = pc[q]
  BY Zenon DEF IInv, TypeOK
<1>5. \A l \in Slots : LiveThreads(l)' = LiveThreads(l)
  <2>1. ASSUME NEW q \in Slots, Alive(q) PROVE process'[q] = process[q]
    BY <2>1, <1>1, <1>2, Zenon
  <2>2. ASSUME NEW l \in Slots, NEW q \in Slots
        PROVE  process'[q] = l /\ Alive(q)' <=> process[q] = l /\ Alive(q)
    BY <2>1, <1>3, Zenon
  <2> QED BY <2>2, Zenon DEF LiveThreads
<1>6. \A q \in Slots : pc[q] # "none" => Alive(q) /\ q \notin S /\ process[q] \in Slots \ S
  BY <1>1, Zenon DEF IInv, PcOK, GroupOK
<1>7. PcOK'
  BY <1>3, <1>4, <1>6, Zenon DEF PcOK
<1>8. ASSUME NEW q \in Slots, pc'[q] \in Creating
      PROVE  /\ q # p /\ pc[q] \in Creating /\ np'[q] = np[q]
             /\ np[q] \in Slots \ S /\ state[np[q]] = "EMBRYO"
  BY <1>4, <1>8, Zenon DEF IInv, CreateOK, Creating
<1>9. CreateOK'
  <2>1. ASSUME NEW q \in Slots, pc'[q] \in Creating
        PROVE  /\ np'[q] \in Slots /\ state'[np'[q]] = "EMBRYO"
               /\ \A r \in Slots \ {q} : pc'[r] \in Creating => np'[r] # np'[q]
    <3>1. /\ pc[q] \in Creating /\ np'[q] = np[q] /\ np[q] \in Slots \ S
          /\ state[np[q]] = "EMBRYO"
      BY <2>1, <1>8, Zenon
    <3>2. state'[np[q]] = "EMBRYO"
      BY <3>1, <1>2, Zenon
    <3>3. ASSUME NEW r \in Slots \ {q}, pc'[r] \in Creating PROVE np'[r] # np'[q]
      <4>1. pc[r] \in Creating /\ np'[r] = np[r]
        BY <3>3, <1>8, Zenon
      <4>2. np[r] # np[q]
        BY <3>1, <4>1, Zenon DEF IInv, CreateOK
      <4> QED BY <3>1, <4>1, <4>2, Zenon
    <3> QED BY <3>1, <3>2, <3>3, Zenon
  <2> QED BY <2>1, Zenon DEF CreateOK
<1>10. NewOK'
  <2>1. ASSUME NEW q \in Slots, pc'[q] \in Creating
        PROVE  /\ pc'[q] = pc[q] /\ np'[q] = np[q] /\ tmp'[q] = tmp[q]
               /\ process'[q] = process[q] /\ tgid'[q] = tgid[q]
               /\ process'[np[q]] = process[np[q]] /\ tgid'[np[q]] = tgid[np[q]]
    <3>1. q # p /\ q \notin S /\ np[q] \in Slots \ S
      BY <2>1, <1>8, <1>6, Zenon DEF Creating
    <3> QED BY <3>1, <1>2, <1>4, Zenon
  <2>2. ASSUME NEW q \in Slots, pc'[q] \in Creating
        PROVE  /\ pc'[q] \in {"fork3", "fork4"} => process'[np'[q]] = np'[q]
               /\ pc'[q] = "fork4" => cwd'[np'[q]]
               /\ pc'[q] \in {"clone3", "clone4"} =>
                    process'[np'[q]] = process'[q] /\ tgid'[np'[q]] = tgid'[q]
               /\ pc'[q] = "clone3" => tmp'[q] \in Ptr
    <3>1. /\ pc'[q] = pc[q] /\ np'[q] = np[q] /\ tmp'[q] = tmp[q]
          /\ process'[q] = process[q] /\ tgid'[q] = tgid[q]
          /\ process'[np[q]] = process[np[q]] /\ tgid'[np[q]] = tgid[np[q]]
      BY <2>1, <2>2, Zenon
    <3>2. /\ pc[q] \in {"fork3", "fork4"} => process[np[q]] = np[q]
          /\ pc[q] = "fork4" => cwd[np[q]]
          /\ pc[q] \in {"clone3", "clone4"} =>
               process[np[q]] = process[q] /\ tgid[np[q]] = tgid[q]
          /\ pc[q] = "clone3" => tmp[q] \in Ptr
      BY Zenon DEF IInv, NewOK
    <3> QED BY <3>1, <3>2, Zenon
  <2>3. ASSUME NEW q \in Slots, pc'[q] \notin Creating
        PROVE  pc'[q] \notin {"fork3", "fork4", "clone3", "clone4"}
    BY <2>3, Zenon DEF Creating
  <2> QED BY <2>2, <2>3, Zenon DEF NewOK
<1>11. GroupOK'
  <2>1. ASSUME NEW q \in Slots, Alive(q)
        PROVE  /\ process'[q] \in Slots /\ process'[process'[q]] = process'[q]
               /\ state'[process'[q]] \notin {"UNUSED", "EMBRYO"}
               /\ tgid'[process'[q]] = tgid'[q]
    <3>1. q \in Slots \ S
      BY <2>1, <1>1, Zenon
    <3>2. PICK l \in Slots \ S : /\ l = process[q] /\ process[l] = l /\ tgid[l] = tgid[q]
                                 /\ state[l] \notin {"UNUSED", "EMBRYO"}
      BY <2>1, Zenon DEF IInv, GroupOK
    <3>3. /\ process'[l] = process[l] /\ tgid'[l] = tgid[l] /\ state'[l] = state[l]
          /\ process'[q] = l /\ tgid'[q] = tgid[q]
      BY <3>1, <3>2, <1>2, Zenon
    <3> QED BY <3>2, <3>3, Zenon
  <2> QED BY <1>3, <2>1, Zenon DEF GroupOK
<1>12. AloneOK'
  <2>1. ASSUME NEW q \in Slots, pc'[q] \in Solitary
        PROVE  process'[q] = process[q] /\ process[q] \in Slots /\ pc[q] \in Solitary
    BY <2>1, <1>2, <1>4, <1>6, Zenon DEF Solitary
  <2> QED BY <2>1, <1>5, Zenon DEF IInv, AloneOK
<1>13. CwdOK'
  BY <1>2, <1>4, <1>6, Zenon DEF IInv, CwdOK
<1>14. ThreadCountOK'
  <2>1. ASSUME NEW l \in Slots, l \in S PROVE Cardinality(LiveThreads(l)) = 0
    <3>1. LiveThreads(l) = {}
      BY <2>1, Zenon DEF LiveThreads
    <3> QED BY <3>1, FS_EmptySet, Zenon
  <2>2. ASSUME NEW l \in Slots PROVE threadcount'[l] = Cardinality(LiveThreads(l)')
    <3>1. CASE l \in S
      BY <3>1, <1>1, <1>5, <2>1, Zenon
    <3>2. CASE l \notin S
      BY <3>2, <1>2, <1>5, Zenon DEF IInv, ThreadCountOK
    <3> QED BY <3>1, <3>2, Zenon
  <2> QED BY <2>2, Zenon DEF ThreadCountOK
<1> QED BY <1>7, <1>9, <1>10, <1>11, <1>12, <1>13, <1>14, Zenon DEF IInv

(* What Reap writes is of the right type.                                  *)
LEMMA ReapTypes ==
  ASSUME TypeOK, NEW S, Reap(S)
  PROVE  /\ state' \in [Slots -> States] /\ killed' \in [Slots -> BOOLEAN]
         /\ pid' \in [Slots -> Nat] /\ tgid' \in [Slots -> Nat]
         /\ process' \in [Slots -> Ptr] /\ parent' \in [Slots -> Ptr]
         /\ threadcount' \in [Slots -> Nat] /\ pgdir' \in [Slots -> {0} \cup PgIds]
<1>1. state' \in [Slots -> States]
  BY Zenon DEF TypeOK, Reap, States
<1>2. killed' \in [Slots -> BOOLEAN]
  BY Zenon DEF TypeOK, Reap
<1>3. pid' \in [Slots -> Nat] /\ tgid' \in [Slots -> Nat] /\ threadcount' \in [Slots -> Nat]
  BY Zenon DEF TypeOK, Reap
<1>4. process' \in [Slots -> Ptr] /\ parent' \in [Slots -> Ptr]
  <2>1. 0 \in Ptr
    BY Pointers, Zenon
  <2> QED BY <2>1, Zenon DEF TypeOK, Reap
<1>5. pgdir' \in [Slots -> {0} \cup PgIds]
  BY Zenon DEF TypeOK, Reap
<1> QED BY <1>1, <1>2, <1>3, <1>4, <1>5, Zenon

(* wait reaps a whole process and join one thread: the invariant is        *)
(* preserved.  The group that wait reaps has no live thread, because       *)
(* otherwise the kernel panics, and join leaves leaders alone.             *)
LEMMA ReapSteps ==
  ASSUME IInv, NEW p \in Slots, WaitReap(p) \/ JoinReap(p)
  PROVE  IInv'
<1>0. pc[p] \in {"wait", "join"} /\ TypeOK /\ 0 \in Ptr /\ 0 \in Nat
  BY Pointers, Zenon DEF WaitReap, JoinReap, At, IInv
<1>1. CASE WaitReap(p)
  <2> DEFINE id == tgid[First(DeadChildren(p))]
             group == {q \in Slots : tgid[q] = id}
             owners == {q \in group : pid[q] = id /\ process[q] = q}
  <2>1. CASE \E q \in group : state[q] # "ZOMBIE"
    <3>1. Halt("undead")
      BY <1>1, <2>1, Zenon DEF WaitReap
    <3>2. TypeOK'
      BY <1>0, <3>1, Zenon DEF TypeOK, Halt, ids, sleepv, mem, locals
    <3>q. Quiet(p)
      BY <1>0, <3>1, Zenon DEF Quiet, Halt, ids, sleepv, mem, locals, Creating, Solitary
    <3> QED BY <3>2, <3>q, Frame, Zenon
  <2>2. CASE \A q \in group : state[q] = "ZOMBIE"
    <3>1. /\ Reap(group) /\ pgs' = pgs \ {pgdir[q] : q \in owners}
          /\ Awake(p) /\ WaitReturns(p, id)
          /\ UNCHANGED <<nextpid, lostwakeup, cwd, panicked>>
      BY <1>1, <2>2, Zenon DEF WaitReap
    <3>2. \A q \in Slots : Alive(q) => process[q] \notin group
      BY <2>2, Zenon DEF IInv, GroupOK, Alive
    <3> HIDE DEF group, id, owners
    <3>3. /\ pc' = [pc EXCEPT ![p] = "user"] /\ chan' = [chan EXCEPT ![p] = 0]
          /\ np' = np /\ \E x \in {0, tmp[p]} : tmp' = [tmp EXCEPT ![p] = x]
      BY <3>1, Zenon DEF WaitReturns, Awake, GoTo
    <3>4. TypeOK'
      <4>1. pc' \in [Slots -> Pcs] /\ chan' \in [Slots -> Ptr \cup Chans]
        BY <1>0, <3>3, Zenon DEF TypeOK, Pcs
      <4>2. tmp' \in [Slots -> Nat]
        <5>1. PICK x \in {0, tmp[p]} : tmp' = [tmp EXCEPT ![p] = x]
          BY <3>3, Zenon
        <5>2. x \in Nat
          BY <1>0, Zenon DEF TypeOK
        <5> QED BY <1>0, <5>1, <5>2, Zenon DEF TypeOK
      <4>3. pgs' \subseteq PgIds
        BY <1>0, <3>1, Zenon DEF TypeOK
      <4> QED BY <1>0, <3>1, <3>3, <4>1, <4>2, <4>3, ReapTypes, Zenon DEF TypeOK
    <3>5. \A q \in Slots \ {p} : np'[q] = np[q] /\ tmp'[q] = tmp[q]
      BY <1>0, <3>3, Zenon DEF TypeOK
    <3>6. group \in SUBSET Slots /\ \A q \in group : state[q] = "ZOMBIE"
      BY <2>2, Zenon DEF group
    <3> QED BY <1>0, <3>1, <3>2, <3>3, <3>4, <3>5, <3>6, ReapFrame, Zenon
  <2> QED BY <2>1, <2>2, Zenon
<1>2. CASE JoinReap(p)
  <2>1. PICK t : t = JoinTarget(p)
    BY Zenon
  <2>2. /\ state[t] = "ZOMBIE" /\ Joinable(p)
        /\ IF tgid[t] # pid[t] /\ process[t] # t
           THEN Reap({t})
           ELSE UNCHANGED <<state, pid, tgid, process, parent, killed, threadcount, pgdir>>
    BY <1>2, <2>1, Zenon DEF JoinReap
  <2>3. t \in Slots
    <3>1. CASE np[p] = 0
      <4>1. WithPid(tmp[p]) # {} /\ t = First(WithPid(tmp[p]))
        BY <2>1, <2>2, <3>1, Zenon DEF JoinTarget, Joinable
      <4> QED BY <4>1, FirstIn, Pointers, Zenon DEF WithPid
    <3>2. CASE np[p] # 0
      <4>1. t \in Ptr /\ t # 0
        BY <1>0, <2>1, <3>2, Zenon DEF JoinTarget, TypeOK
      <4> QED BY <4>1, NPROCAssumption DEF Ptr, Slots
    <3> QED BY <3>1, <3>2, Zenon
  <2>4. /\ pc' = [pc EXCEPT ![p] = "user"] /\ chan' = [chan EXCEPT ![p] = 0]
        /\ np' = [np EXCEPT ![p] = 0] /\ tmp' = [tmp EXCEPT ![p] = 0]
        /\ UNCHANGED <<nextpid, lostwakeup, pgs, cwd, panicked>>
    BY <1>2, Zenon DEF JoinReap, Return, GoTo, Awake
  <2>5. /\ pc' \in [Slots -> Pcs] /\ chan' \in [Slots -> Ptr \cup Chans]
        /\ np' \in [Slots -> Ptr]
    BY <1>0, <2>4, Zenon DEF TypeOK, Pcs
  <2>6. tmp' \in [Slots -> Nat]
    BY <1>0, <2>4, Zenon DEF TypeOK
  <2>7. \A q \in Slots \ {p} : pc'[q] = pc[q] /\ np'[q] = np[q] /\ tmp'[q] = tmp[q]
    BY <1>0, <2>4, Zenon DEF TypeOK
  <2>8. CASE tgid[t] # pid[t] /\ process[t] # t
    <3>1. Reap({t})
      BY <2>2, <2>8, Zenon
    <3>2. TypeOK'
      BY <1>0, <2>4, <2>5, <2>6, <3>1, ReapTypes, Zenon DEF TypeOK
    <3>3. \A q \in Slots : Alive(q) => process[q] \notin {t}
      BY <2>8, Zenon DEF IInv, GroupOK
    <3>4. {t} \in SUBSET Slots /\ \A q \in {t} : state[q] = "ZOMBIE"
      BY <2>2, <2>3, Zenon
    <3>5. cwd' = cwd
      BY <2>4, Zenon
    <3> QED BY <1>0, <2>4, <2>7, <3>1, <3>2, <3>3, <3>4, <3>5, ReapFrame, Zenon
  <2>9. CASE ~(tgid[t] # pid[t] /\ process[t] # t)
    <3>1. UNCHANGED <<state, pid, tgid, process, parent, killed, threadcount, pgdir>>
      BY <2>2, <2>9, Zenon
    <3>2. TypeOK'
      BY <1>0, <2>4, <2>5, <2>6, <3>1, Zenon DEF TypeOK
    <3>3. pc'[p] = "user"
      BY <1>0, <2>4, Zenon DEF TypeOK
    <3>q. Quiet(p)
      BY <1>0, <2>4, <2>7, <3>1, <3>3, Zenon DEF Quiet, Creating, Solitary
    <3> QED BY <3>2, <3>q, Frame, Zenon
  <2> QED BY <2>8, <2>9, Zenon
<1> QED BY <1>1, <1>2, Zenon

-----------------------------------------------------------------------------
(* After userinit there is one process, with one thread.                   *)
LEMMA InitIInv == Init => IInv
<1> SUFFICES ASSUME Init PROVE IInv
  BY Zenon
<1>0. initproc \in Slots /\ initproc \in Nat /\ 0 \in Ptr /\ initproc \in Ptr
  BY Pointers, Zenon
<1>1. TypeOK
  <2>1. 1 \in PgIds
    BY NPROCAssumption DEF PgIds
  <2> QED BY <1>0, <2>1, Zenon DEF Init, TypeOK, States, Pcs
<1>2. PcOK /\ CreateOK /\ NewOK
  BY <1>0, Zenon DEF Init, PcOK, CreateOK, NewOK, Alive, Creating
<1>3. \A q \in Slots : Alive(q) <=> q = initproc
  BY <1>0, Zenon DEF Init, Alive
<1>4. GroupOK /\ CwdOK
  BY <1>0, <1>3, Zenon DEF Init, GroupOK, CwdOK
<1>5. AloneOK
  BY <1>0, Zenon DEF Init, AloneOK, Solitary
<1>6. ThreadCountOK
  <2>1. LiveThreads(initproc) = {initproc}
    BY <1>0, <1>3, Zenon DEF Init, LiveThreads
  <2>2. \A l \in Slots : l # initproc => LiveThreads(l) = {}
    BY <1>0, <1>3, Zenon DEF Init, LiveThreads
  <2>3. Cardinality(LiveThreads(initproc)) = 1
    BY <2>1, FS_Singleton, Zenon
  <2>4. \A l \in Slots : l # initproc => Cardinality(LiveThreads(l)) = 0
    BY <2>2, FS_EmptySet, Zenon
  <2> QED BY <1>0, <2>3, <2>4, Zenon DEF Init, ThreadCountOK
<1> QED BY <1>1, <1>2, <1>4, <1>5, <1>6, Zenon DEF IInv

(* Every step preserves the invariant.                                     *)
LEMMA NextIInv == IInv /\ [Next]_vars => IInv'
<1> SUFFICES ASSUME IInv, [Next]_vars PROVE IInv'
  BY Zenon
<1>1. CASE InitProgram
  BY <1>1, BoundarySteps, Pointers, Zenon
<1>2. ASSUME NEW p \in Slots, UserStep(p) PROVE IInv'
  BY <1>2, BoundarySteps, Zenon
<1>3. ASSUME NEW p \in Slots, KernelStep(p) PROVE IInv'
  BY <1>3, BoundarySteps, SleepSteps, ExecSteps, AllocSteps, FillSteps, CommitSteps,
     ExitSteps, ReapSteps, Zenon DEF KernelStep
<1>4. CASE UNCHANGED vars
  <2>1. /\ TypeOK' = TypeOK /\ PcOK' = PcOK /\ CreateOK' = CreateOK /\ NewOK' = NewOK
        /\ GroupOK' = GroupOK /\ AloneOK' = AloneOK /\ CwdOK' = CwdOK
        /\ ThreadCountOK' = ThreadCountOK
    BY <1>4, Zenon DEF vars, ids, sleepv, mem, locals, TypeOK, PcOK, CreateOK, NewOK, GroupOK,
                AloneOK, CwdOK, ThreadCountOK, LiveThreads, Alive
  <2> QED BY <2>1, Zenon DEF IInv
<1> QED BY <1>1, <1>2, <1>3, <1>4, Zenon DEF Next

(* The inductive invariant holds in every reachable state.                 *)
THEOREM Invariance == Spec => []IInv
BY InitIInv, NextIInv, PTL DEF Spec

(* Type correctness of the process table (proc.c), for every NPROC.        *)
THEOREM TypeCorrect == Spec => []TypeOK
<1>1. IInv => TypeOK
  BY Zenon DEF IInv
<1> QED BY <1>1, Invariance, PTL

(* threadcount is the number of live threads of the process, whatever      *)
(* fork, clone, exit, exec, wait and join do concurrently (proc.c, exec.c) *)
(* and whatever the programs do.                                           *)
THEOREM ThreadCountCorrect == Spec => []ThreadCountOK
<1>1. IInv => ThreadCountOK
  BY Zenon DEF IInv
<1> QED BY <1>1, Invariance, PTL

(* A thread that exec lets past its wait for the others is the only live   *)
(* thread of the process until it has replaced the image (exec.c).         *)
THEOREM ExecAloneCorrect == Spec => []ExecIsAlone
<1>1. IInv => ExecIsAlone
  BY Zenon DEF IInv, AloneOK, ExecIsAlone, Solitary
<1> QED BY <1>1, Invariance, PTL

(* The thread that drops the working directory in exit after it released   *)
(* ptable.lock is the only one alive, and drops a reference that is held   *)
(* (proc.c).                                                               *)
THEOREM LastThreadCorrect == Spec => []LastThreadDropsCwd
<1>1. IInv => LastThreadDropsCwd
  BY Zenon DEF IInv, AloneOK, CwdOK, LastThreadDropsCwd, Solitary
<1> QED BY <1>1, Invariance, PTL

=============================================================================
