---------------------------- MODULE ProcTheorems ----------------------------
(***************************************************************************)
(* The theorems about the process table that rest on the step lemmas of    *)
(* several modules.                                                        *)
(***************************************************************************)
EXTENDS ProcProofs, ProcExecProofs, ProcFamilyProofs

(* First finds the lowest slot (proc.c goes through the table upwards).    *)
LEMMA FirstsHold == Firsts
BY FirstIn, ZenonT(60) DEF Firsts

(* Counting a set of slots. *)
LEMMA CountsHold == Counts
<1>1. IsFiniteSet(Slots)
  BY FS_Interval, NPROCAssumption, SMTT(30) DEF Slots
<1>2. ASSUME NEW S \in SUBSET Slots, Cardinality(S) = 0 PROVE S = {}
  BY <1>1, <1>2, FS_Subset, FS_EmptySet, ZenonT(60)
<1>3. \A q \in Slots : Cardinality({q}) = 1
  BY FS_Singleton, ZenonT(60)
<1> QED
  BY <1>2, <1>3, ZenonT(60) DEF Counts

(* The stronger invariant holds in every reachable state. *)
THEOREM ExecInvariance == Spec => []XInv
<1>1. Init => XInv
  BY InitIInv, InitXInv, ZenonT(60)
<1>2. XInv /\ [Next]_vars => XInv'
  <2> SUFFICES ASSUME XInv, [Next]_vars PROVE XInv'
    BY ZenonT(30)
  <2>1. IInv'
    BY NextIInv, ZenonT(60) DEF XInv
  <2> QED
    BY <2>1, FirstsHold, NextXInv, ZenonT(60)
<1> QED
  BY <1>1, <1>2, PTL DEF Spec

(* exec marks every other thread of its process, also those that a clone   *)
(* in flight makes RUNNABLE after exec has gone through the table (exec.c, *)
(* and the test of killed in clone, proc.c).                               *)
THEOREM ExecMarksCorrect == Spec => []ExecMarksAll
<1>1. XInv => ExecMarksAll
  BY ZenonT(30) DEF XInv
<1> QED BY <1>1, ExecInvariance, PTL

(* park (proc.c) never sleeps on a channel that it has been unparked for.  *)
THEOREM ParkCorrect == Spec => []ParkLosesNoWakeup
<1>1. XInv => ParkLosesNoWakeup
  BY ZenonT(30) DEF XInv
<1> QED BY <1>1, ExecInvariance, PTL

(* The slot that join (proc.c) keeps across its sleeps is still the thread *)
(* it was asked for, when no two threads of a program join the same one.   *)
THEOREM JoinCorrect ==
  ASSUME "one_joiner" \in Rules
  PROVE  Spec => []JoinKeepsTarget
<1>1. XInv => JoinKeepsTarget
  BY ZenonT(60) DEF XInv, JoinOK
<1> QED BY <1>1, ExecInvariance, PTL

(* The ids that kill, join and unpark look threads up by: no two live      *)
(* threads have the same, also between the two writes with which exec      *)
(* exchanges its id with the leader's (exec.c).                            *)
IdsDiffer == \A p, q \in Slots : Alive(p) /\ Alive(q) /\ p # q => pid[p] # pid[q]

(* Ids stay different for every size of the table and whatever programs do. *)
THEOREM IdsCorrect == Spec => []IdsDiffer
<1>1. XInv => IdsDiffer
  BY ZenonT(60) DEF XInv, IdOK, IdsDiffer
<1> QED BY <1>1, ExecInvariance, PTL

-----------------------------------------------------------------------------
(* Every step keeps families and memory in order. *)
LEMMA NextFInv ==
  ASSUME FamilyRules, Firsts, Counts, FInv, XInv', [Next]_vars
  PROVE  FInv'
<1>1. CASE UNCHANGED vars
  BY <1>1, StutterF, ZenonT(60)
<1>2. CASE InitProgram
  <2>1. initproc \in Slots
    BY NPROCAssumption, SMTT(30) DEF initproc, Slots
  <2> QED
    BY <1>2, <2>1, BoundaryF, ZenonT(60)
<1>3. ASSUME NEW p \in Slots, UserStep(p) PROVE FInv'
  <2>1. ~Fault(p)
    BY ZenonT(30) DEF FamilyRules, Fault
  <2>2. \/ \E c \in Calls \ {"fault", "join"} : Syscall(p, c)
        \/ \E x \in 1..MaxPid : JoinCall(p, x)
    BY <1>3, <2>1, ZenonT(60) DEF UserStep
  <2> QED
    BY <2>2, BoundaryF, ZenonT(60)
<1>4. ASSUME NEW p \in Slots, KernelStep(p) PROVE FInv'
  <2>1. TrapKilled(p) => FInv'
    BY BoundaryF, ZenonT(60)
  <2>2. ForkAlloc(p) \/ CloneAlloc(p) => FInv'
    <3>1. ForkAlloc(p) \/ CloneAlloc(p) =>
            \/ At(p, "fork") /\ Allocproc(p, "fork2")
            \/ At(p, "clone") /\ Allocproc(p, "clone2")
            \/ At(p, "fork") /\ NoProc(p)
            \/ At(p, "fork") /\ Return(p)
                 /\ UNCHANGED <<state, ids, sleepv, killed, threadcount, mem, panicked>>
            \/ At(p, "clone") /\ NoProc(p)
      BY ZenonT(30) DEF ForkAlloc, CloneAlloc
    <3>2. (At(p, "fork") /\ Allocproc(p, "fork2")) \/ (At(p, "clone") /\ Allocproc(p, "clone2")) => FInv'
      BY AllocF, ZenonT(60)
    <3>3. \/ At(p, "fork") /\ NoProc(p)
          \/ At(p, "fork") /\ Return(p)
               /\ UNCHANGED <<state, ids, sleepv, killed, threadcount, mem, panicked>>
          \/ At(p, "clone") /\ NoProc(p)
          => FInv'
      BY CallsF, ZenonT(60)
    <3> QED
      BY <3>1, <3>2, <3>3, ZenonT(60)
  <2>3. NoStack(p) \/ ForkGroup(p) \/ ForkParent(p) \/ ForkCommit(p) => FInv'
    BY NoStackF, ForkGroupF, ForkParentF, ForkCommitF, ZenonT(60)
  <2>4. CloneGroup(p) \/ CloneParent(p) \/ CloneCommit(p) => FInv'
    BY CloneGroupF, CloneParentF, CloneCommitF, ZenonT(60)
  <2>5. ExitBegin(p) \/ ExitCwd(p) \/ ExitFinal(p) => FInv'
    BY ExitBeginF, ExitCwdF, ExitFinalF, ZenonT(60)
  <2>6. WaitSleep(p) \/ JoinSleep(p) \/ ExecSleep(p) => FInv'
    BY SleepF, ZenonT(60)
  <2>7. WaitReap(p) \/ JoinReap(p) => FInv'
    BY WaitReapF, JoinReapF, ZenonT(60)
  <2>8. \/ WaitFail(p) \/ JoinNone(p) \/ JoinFail(p)
        \/ \E c \in Chans : Park(p, c)
        \/ ParkReturn(p)
        \/ \E x \in 1..MaxPid, c \in Chans : Unpark(p, x, c)
        => FInv'
    BY CallsF, ZenonT(60)
  <2>9. (\E x \in 0..MaxPid : Kill(p, x)) => FInv'
    BY KillF, ZenonT(60)
  <2>10. ExecKill(p) \/ ExecAlone(p) \/ ExecGivePid(p) \/ ExecTakePid(p) \/ ExecImage(p) => FInv'
    BY ExecF, ExecImageF, ZenonT(60)
  <2> QED
    BY <1>4, <2>1, <2>2, <2>3, <2>4, <2>5, <2>6, <2>7, <2>8, <2>9, <2>10, ZenonT(60) DEF KernelStep
<1> QED
  BY <1>1, <1>2, <1>3, <1>4, ZenonT(60) DEF Next

-----------------------------------------------------------------------------
(* What holds of programs that keep the rules which families rely on. *)

(* The invariant of families and memory holds in every reachable state. *)
THEOREM FamilyInvariance ==
  ASSUME FamilyRules
  PROVE  Spec => []FInv
<1>1. Init => FInv
  BY InitIInv, InitXInv, InitFInv, ZenonT(60)
<1>2. FInv /\ [Next]_vars => FInv'
  <2> SUFFICES ASSUME FInv, [Next]_vars PROVE FInv'
    BY ZenonT(30)
  <2>1. XInv /\ IInv
    BY ZenonT(60) DEF FInv, XInv
  <2>2. IInv'
    BY <2>1, NextIInv, ZenonT(60)
  <2>3. XInv'
    BY <2>1, <2>2, FirstsHold, NextXInv, ZenonT(60)
  <2> QED
    BY <2>3, FirstsHold, CountsHold, NextFInv, ZenonT(60)
<1> QED
  BY <1>1, <1>2, PTL DEF Spec

(* wait (proc.c) never panics on "undead": when the thread count of a      *)
(* child is zero, every slot with its group id is a ZOMBIE.                *)
THEOREM UndeadCorrect ==
  ASSUME FamilyRules
  PROVE  Spec => []NoUndead
<1>1. FInv => NoUndead
  BY ZenonT(30) DEF FInv
<1> QED BY <1>1, FamilyInvariance, PTL

(* The leader of a process, dead or alive, has a parent that lives: exit   *)
(* (proc.c) hands orphans to init before the last thread is gone.          *)
THEOREM ParentCorrect ==
  ASSUME FamilyRules
  PROVE  Spec => []ParentIsAlive
<1>1. ASSUME FInv PROVE ParentIsAlive
  <2>1. ParentOK
    BY <1>1, ZenonT(60) DEF FInv
  <2> SUFFICES ASSUME NEW q \in Slots \ {initproc},
                      process[q] = q, state[q] \notin {"UNUSED", "EMBRYO"}
               PROVE  parent[q] # 0 /\ LiveThreads(parent[q]) # {}
    BY ZenonT(30) DEF ParentIsAlive
  <2>2. parent[q] \in Slots /\ Alive(parent[q]) /\ process[parent[q]] = parent[q]
    BY <2>1, ZenonT(60) DEF ParentOK, Exists
  <2>3. parent[q] \in LiveThreads(parent[q])
    BY <2>2, ZenonT(60) DEF LiveThreads
  <2>4. parent[q] # 0
    BY <2>2, NPROCAssumption, SMTT(30) DEF Slots
  <2> QED
    BY <2>3, <2>4, ZenonT(60)
<1> QED BY <1>1, FamilyInvariance, PTL

(* Page directories are shared by exactly the threads of a process, none   *)
(* is leaked or freed while in use, and a free slot has no working         *)
(* directory (fork, clone, exit and wait in proc.c; exec.c).               *)
THEOREM LeakCorrect ==
  ASSUME FamilyRules
  PROVE  Spec => []NothingLeaked
<1>1. ASSUME FInv PROVE NothingLeaked
  <2>0. MemOK /\ CreateOK /\ GroupOK
    BY <1>1, ZenonT(60) DEF FInv, XInv, IInv
  <2>1. \A q \in Slots : Alive(q) => process[q] \in Owners
    <3> SUFFICES ASSUME NEW q \in Slots, Alive(q) PROVE process[q] \in Owners
      BY ZenonT(30)
    <3>1. /\ process[q] \in Slots /\ process[process[q]] = process[q]
          /\ state[process[q]] \notin {"UNUSED", "EMBRYO"}
      BY <2>0, ZenonT(60) DEF GroupOK
    <3>2. ASSUME NEW r \in Slots, pc[r] \in {"fork2", "clone2"} PROVE np[r] # process[q]
      BY <2>0, <3>1, <3>2, ZenonT(60) DEF CreateOK, Creating
    <3>3. ~Raw(process[q])
      BY <3>1, <3>2, ZenonT(60) DEF Raw
    <3> QED
      BY <3>1, <3>3, ZenonT(60) DEF Owners
  <2>2. ASSUME NEW p \in Slots, NEW q \in Slots, Alive(p), Alive(q)
        PROVE  pgdir[p] \in pgs /\ (pgdir[p] = pgdir[q] <=> process[p] = process[q])
    <3>1. /\ pgdir[p] = pgdir[process[p]] /\ pgdir[q] = pgdir[process[q]]
          /\ process[p] \in Owners /\ process[q] \in Owners
      BY <2>0, <2>1, <2>2, ZenonT(60) DEF MemOK
    <3>2. pgdir[process[p]] = pgdir[process[q]] => process[p] = process[q]
      BY <2>0, <3>1, ZenonT(60) DEF MemOK
    <3>3. pgdir[process[p]] \in pgs
      BY <2>0, <3>1, ZenonT(60) DEF MemOK
    <3> QED
      BY <3>1, <3>2, <3>3, ZenonT(60)
  <2>3. {q \in Slots : state[q] # "UNUSED" /\ process[q] = q /\ pid[q] = tgid[q] /\ pgdir[q] # 0} = Owners
    <3>1. \A q \in Slots : Raw(q) => pgdir[q] = 0
      BY <2>0, ZenonT(60) DEF MemOK
    <3>2. \A q \in Owners : pid[q] = tgid[q] /\ pgdir[q] # 0
      BY <2>0, ZenonT(60) DEF MemOK
    <3> QED
      BY <3>1, <3>2, ZenonT(60) DEF Owners
  <2>4. \A q \in Slots : state[q] = "UNUSED" => ~cwd[q]
    BY <2>0, ZenonT(60) DEF MemOK, Raw
  <2>5. pgs = {pgdir[q] : q \in Owners} /\ \A q, r \in Owners : pgdir[q] = pgdir[r] => q = r
    BY <2>0, ZenonT(30) DEF MemOK
  <2> QED
    BY <2>2, <2>3, <2>4, <2>5, ZenonT(60) DEF NothingLeaked
<1> QED BY <1>1, FamilyInvariance, PTL
=============================================================================
