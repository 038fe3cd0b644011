--------------------------- MODULE ProcExecProofs ---------------------------
(***************************************************************************)
(* More proofs about the process table.  First the calm steps, those in    *)
(* which no thread starts, ends or is reaped: which steps are calm, and    *)
(* that each of them preserves FInv, the invariant of families of          *)
(* processes.  Then that exec marks every thread of its process, also one  *)
(* that clone is about to start, that no wakeup of park is lost, and that  *)
(* join keeps hold of the thread it was asked for.                         *)
(***************************************************************************)
EXTENDS ProcInv, TLAPS

-----------------------------------------------------------------------------
(* Which steps are calm. *)

(* Steps between user space and the kernel. *)
LEMMA CalmBoundary ==
  ASSUME IInv, NpOK, NEW p \in Slots,
         \/ \E c \in Calls \ {"fault", "join"} : Syscall(p, c)
         \/ Fault(p) \/ TrapKilled(p)
         \/ p = initproc /\ InitProgram
  PROVE  Calm(p) /\ Leaves(p)
<1>0. pc \in [Slots -> Pcs] /\ killed \in [Slots -> BOOLEAN]
  BY Zenon DEF IInv, TypeOK
<1>1. /\ UNCHANGED <<pid, tgid, process, nextpid, state, np, tmp>>
      /\ killed' = killed \/ killed' = [killed EXCEPT ![p] = TRUE]
      /\ \E l \in (Calls \ {"fault", "join"}) \cup {"exit", "fork", "wait"} : pc' = [pc EXCEPT ![p] = l]
      /\ pc[p] = "user"
  BY Zenon DEF Syscall, Fault, TrapKilled, InitProgram, At, GoTo, ids, locals
<1>2. np[p] = 0
  BY <1>1, Zenon DEF NpOK, Creating
<1>3. /\ pc'[p] \notin Creating \cup {"exec2", "join"}
      /\ \A q \in Slots \ {p} : pc'[q] = pc[q]
  BY <1>0, <1>1, CallsAssumption DEF Creating
<1> QED
  BY <1>0, <1>1, <1>2, <1>3 DEF Calm, Leaves, Creating

(* A step that leaves a call, or goes on in it, is calm. *)
LEMMA CalmBy ==
  ASSUME IInv, NpOK, NEW p \in Slots, pc[p] \notin Creating,
         pid' = pid, tgid' = tgid, process' = process, nextpid' = nextpid,
         \A q \in Slots : \/ state'[q] = state[q]
                          \/ /\ state[q] \in {"SLEEPING", "RUNNABLE"}
                             /\ state'[q] \in {"SLEEPING", "RUNNABLE"},
         \A q \in Slots : killed[q] => killed'[q],
         NEW l, l \notin Creating, pc' = [pc EXCEPT ![p] = l],
         tmp' = tmp \/ \E x : tmp' = [tmp EXCEPT ![p] = x],
         np' = np \/ np' = [np EXCEPT ![p] = 0]
  PROVE  /\ Calm(p)
         /\ l \notin {"exec2", "join"} /\ (pc[p] # "join" \/ np' # np) => Leaves(p)
<1>0. pc \in [Slots -> Pcs] /\ np \in [Slots -> Ptr] /\ tmp \in [Slots -> Nat]
  BY Zenon DEF IInv, TypeOK
<1>1. /\ pc'[p] = l
      /\ \A q \in Slots \ {p} : pc'[q] = pc[q] /\ np'[q] = np[q] /\ tmp'[q] = tmp[q]
  BY <1>0
<1>2. Calm(p)
  BY <1>1, Zenon DEF Calm
<1>3. pc[p] # "join" => np[p] = 0
  BY Zenon DEF NpOK
<1>4. pc[p] # "join" \/ np' # np => np'[p] = 0
  BY <1>0, <1>3
<1> QED
  BY <1>1, <1>2, <1>4 DEF Leaves

(* A step in which p goes back to sleep where it is. *)
LEMMA CalmSleep ==
  ASSUME IInv, NpOK, NEW p \in Slots, WaitSleep(p) \/ ExecSleep(p)
  PROVE  Calm(p) /\ Leaves(p)
<1>0. state \in [Slots -> States]
  BY Zenon DEF IInv, TypeOK
<1>1. /\ UNCHANGED <<pid, tgid, process, nextpid, killed, pc, np, tmp>>
      /\ state[p] = "RUNNABLE" /\ state' = [state EXCEPT ![p] = "SLEEPING"]
      /\ pc[p] \in {"wait", "exec2"}
  BY Zenon DEF WaitSleep, ExecSleep, Sleep, At, ids, locals
<1>2. \A q \in Slots : \/ state'[q] = state[q]
                       \/ /\ state[q] \in {"SLEEPING", "RUNNABLE"}
                          /\ state'[q] \in {"SLEEPING", "RUNNABLE"}
  BY <1>0, <1>1
<1>3. np[p] = 0
  BY <1>1, Zenon DEF NpOK, Creating
<1> QED
  BY <1>1, <1>2, <1>3, Zenon DEF Calm, Leaves, Creating

(* Calls that fail, that return, or that only mark, wake or put to sleep. *)
LEMMA CalmCalls ==
  ASSUME IInv, NpOK, NEW p \in Slots,
         \/ At(p, "fork") /\ (NoProc(p) \/ (Return(p) /\ UNCHANGED <<state, ids, killed>>))
         \/ At(p, "clone") /\ NoProc(p)
         \/ ExitBegin(p) \/ ExitCwd(p)
         \/ WaitFail(p)
         \/ JoinNone(p) \/ JoinFail(p)
         \/ \E x \in 0..MaxPid : Kill(p, x)
         \/ \E c \in Chans : Park(p, c)
         \/ ParkReturn(p)
         \/ \E x \in 1..MaxPid, c \in Chans : Unpark(p, x, c)
         \/ ExecAlone(p) \/ ExecImage(p)
  PROVE  Calm(p) /\ Leaves(p)
<1> USE DEF At, GoTo, Return, Awake, Sleep, ids, locals
<1>0. /\ state \in [Slots -> States] /\ killed \in [Slots -> BOOLEAN] /\ pc \in [Slots -> Pcs]
      /\ np \in [Slots -> Ptr]
  BY Zenon DEF IInv, TypeOK
<1>1. CASE At(p, "fork") /\ (NoProc(p) \/ (Return(p) /\ UNCHANGED <<state, ids, killed>>))
  <2>1. /\ UNCHANGED <<pid, tgid, process, nextpid, state, killed>> /\ pc[p] = "fork"
        /\ \E l \in {"user", "exit"} : pc' = [pc EXCEPT ![p] = l]
        /\ tmp' = tmp \/ tmp' = [tmp EXCEPT ![p] = 0]
        /\ np' = np \/ np' = [np EXCEPT ![p] = 0]
    BY <1>1, Zenon DEF NoProc
  <2> QED
    BY <2>1, CalmBy, Zenon DEF Creating
<1>2. CASE At(p, "clone") /\ NoProc(p)
  <2>1. /\ UNCHANGED <<pid, tgid, process, nextpid, state, killed>> /\ pc[p] = "clone"
        /\ \E l \in {"user", "exit"} : pc' = [pc EXCEPT ![p] = l]
        /\ tmp' = tmp \/ tmp' = [tmp EXCEPT ![p] = 0]
        /\ np' = np \/ np' = [np EXCEPT ![p] = 0]
    BY <1>2, Zenon DEF NoProc
  <2> QED
    BY <2>1, CalmBy, Zenon DEF Creating
<1>3. CASE ExitBegin(p) \/ ExitCwd(p)
  <2>1. /\ UNCHANGED <<pid, tgid, process, nextpid, state, killed, np, tmp>> /\ pc[p] \in {"exit", "exitcwd"}
        /\ pc' = pc \/ \E l \in {"exitcwd", "exit2"} : pc' = [pc EXCEPT ![p] = l]
    BY <1>3, Zenon DEF ExitBegin, ExitCwd, Halt
  <2>2. \E l \in {"exit", "exitcwd", "exit2"} : pc' = [pc EXCEPT ![p] = l]
    BY <1>0, <2>1
  <2> QED
    BY <2>1, <2>2, CalmBy, Zenon DEF Creating
<1>4. CASE WaitFail(p)
  <2>1. /\ UNCHANGED <<pid, tgid, process, nextpid, state, killed, np>> /\ pc[p] = "wait"
        /\ \E l \in {"user"} : pc' = [pc EXCEPT ![p] = l]
        /\ \E x : tmp' = [tmp EXCEPT ![p] = x]
    BY <1>4, Zenon DEF WaitFail, WaitReturns
  <2> QED
    BY <2>1, CalmBy, Zenon DEF Creating
<1>5. CASE JoinNone(p) \/ JoinFail(p)
  <2>1. /\ UNCHANGED <<pid, tgid, process, nextpid, state, killed>> /\ pc[p] = "join"
        /\ pc' = [pc EXCEPT ![p] = "user"] /\ np' = [np EXCEPT ![p] = 0] /\ tmp' = [tmp EXCEPT ![p] = 0]
    BY <1>5, Zenon DEF JoinNone, JoinFail
  <2>2. Calm(p)
    BY <2>1, CalmBy, Zenon DEF Creating
  <2>3. Leaves(p)
    BY <1>0, <2>1 DEF Leaves
  <2> QED
    BY <2>2, <2>3
<1>6. CASE \E x \in 0..MaxPid : Kill(p, x)
  <2>0. PICK x \in 0..MaxPid : Kill(p, x)
    BY <1>6
  <2>1. /\ UNCHANGED <<pid, tgid, process, nextpid>> /\ pc[p] = "kill"
        /\ \E l \in {"user"} : pc' = [pc EXCEPT ![p] = l]
        /\ np' = [np EXCEPT ![p] = 0] /\ tmp' = [tmp EXCEPT ![p] = 0]
    BY <2>0, Zenon DEF Kill
  <2>2. \/ state' = state /\ killed' = killed
        \/ \E q : /\ killed' = [killed EXCEPT ![q] = TRUE]
                  /\ state' = [state EXCEPT ![q] = IF state[q] = "SLEEPING" THEN "RUNNABLE" ELSE state[q]]
    BY <2>0, Zenon DEF Kill
  <2>3. \A q \in Slots : /\ \/ state'[q] = state[q]
                            \/ state[q] \in {"SLEEPING", "RUNNABLE"} /\ state'[q] \in {"SLEEPING", "RUNNABLE"}
                         /\ killed[q] => killed'[q]
    BY <1>0, <2>2
  <2> QED
    BY <2>1, <2>3, CalmBy, Zenon DEF Creating
<1>7. CASE \E c \in Chans : Park(p, c)
  <2>1. /\ UNCHANGED <<pid, tgid, process, nextpid, killed, np, tmp>> /\ pc[p] = "park" /\ state[p] = "RUNNABLE"
        /\ \E l \in {"user", "parked"} : pc' = [pc EXCEPT ![p] = l]
        /\ state' = state \/ state' = [state EXCEPT ![p] = "SLEEPING"]
    BY <1>7, Zenon DEF Park
  <2>2. \A q \in Slots : \/ state'[q] = state[q]
                         \/ state[q] \in {"SLEEPING", "RUNNABLE"} /\ state'[q] \in {"SLEEPING", "RUNNABLE"}
    BY <1>0, <2>1
  <2> QED
    BY <2>1, <2>2, CalmBy, Zenon DEF Creating
<1>8. CASE ParkReturn(p)
  <2>1. /\ UNCHANGED <<pid, tgid, process, nextpid, state, killed>> /\ pc[p] = "parked"
        /\ \E l \in {"user"} : pc' = [pc EXCEPT ![p] = l]
        /\ np' = [np EXCEPT ![p] = 0] /\ tmp' = [tmp EXCEPT ![p] = 0]
    BY <1>8, Zenon DEF ParkReturn
  <2> QED
    BY <2>1, CalmBy, Zenon DEF Creating
<1>9. CASE \E x \in 1..MaxPid, c \in Chans : Unpark(p, x, c)
  <2>1. /\ UNCHANGED <<pid, tgid, process, nextpid, killed>> /\ pc[p] = "unpark"
        /\ \E l \in {"user"} : pc' = [pc EXCEPT ![p] = l]
        /\ np' = [np EXCEPT ![p] = 0] /\ tmp' = [tmp EXCEPT ![p] = 0]
        /\ \/ state' = state
           \/ \E q : state[q] = "SLEEPING" /\ state' = [state EXCEPT ![q] = "RUNNABLE"]
    BY <1>9, Zenon DEF Unpark
  <2>2. \A q \in Slots : \/ state'[q] = state[q]
                         \/ state[q] \in {"SLEEPING", "RUNNABLE"} /\ state'[q] \in {"SLEEPING", "RUNNABLE"}
    BY <1>0, <2>1
  <2> QED
    BY <2>1, <2>2, CalmBy, Zenon DEF Creating
<1>10. CASE ExecAlone(p) \/ ExecImage(p)
  <2>1. /\ UNCHANGED <<pid, tgid, process, nextpid, state, killed, np, tmp>> /\ pc[p] \in {"exec2", "exec5"}
        /\ \E l \in {"exec3", "user"} : pc' = [pc EXCEPT ![p] = l]
    BY <1>10, Zenon DEF ExecAlone, ExecImage
  <2> QED
    BY <2>1, CalmBy, Zenon DEF Creating
<1> QED
  BY <1>1, <1>2, <1>3, <1>4, <1>5, <1>6, <1>7, <1>8, <1>9, <1>10, Zenon

-----------------------------------------------------------------------------
(* What a step may do to one conjunct and still preserve it. *)

(* p, and nobody else, may go into wait or fork, if no sibling is in the   *)
(* other of the two.                                                       *)
LEMMA WaitFrame ==
  ASSUME IInv, WaitOK, NEW p \in Slots,
         \A q \in Slots : pc'[q] \in Forking \cup {"wait"} =>
            process'[q] = process[q] /\ (q # p => pc'[q] = pc[q]),
         pc'[p] = "wait" => pc[p] = "wait" \/ \A q \in Siblings(p) : pc[q] \notin Forking,
         pc'[p] \in Forking => pc[p] \in Forking \/ \A q \in Siblings(p) : pc[q] # "wait"
  PROVE  WaitOK'
<1> SUFFICES ASSUME NEW q \in Slots, NEW r \in Slots, q # r, process'[q] = process'[r],
                    pc'[q] = "wait", pc'[r] \in Forking
             PROVE  FALSE
  BY Zenon DEF WaitOK
<1>1. process[q] = process[r] /\ (q # p => pc[q] = "wait") /\ (r # p => pc[r] \in Forking)
  BY Zenon
<1>2. q # p => Alive(q)
  BY <1>1, Zenon DEF IInv, PcOK
<1>3. r # p => Alive(r)
  BY <1>1, Zenon DEF IInv, PcOK, Forking
<1> QED
  BY <1>1, <1>2, <1>3, Zenon DEF WaitOK, Siblings

(* No thread starts; a leader is marked, or leaves, only when it is alone; *)
(* only a leader goes into exec.                                           *)
LEMMA LeaderFrame ==
  ASSUME LeaderOK, NEW p \in Slots,
         \A q \in Slots : Alive(q)' => /\ Alive(q) /\ process'[q] = process[q] /\ Alive(process[q])'
                                       /\ killed'[q] => killed[q] \/ process[q] # q \/ Siblings(q) = {},
         \A q \in Slots \ {p} : pc'[q] \in Exiting \cup Execing => pc'[q] = pc[q],
         \A q \in Slots : pc'[q] \in Execing => process'[q] = process[q],
         pc'[p] \in Exiting => pc[p] \in Exiting \/ killed[p] \/ process[p] # p \/ Siblings(p) = {},
         pc'[p] \in Execing => pc[p] \in Execing \/ process[p] = p
  PROVE  LeaderOK'
<1>1. ASSUME NEW q \in Slots, Alive(q)' PROVE Alive(process[q])' /\ process'[q] = process[q]
  BY <1>1, Zenon
<1>2. ASSUME NEW q \in Slots, NEW r \in Slots, Alive(q)', process'[q] = q,
             killed'[q] \/ pc'[q] \in Exiting, Alive(r)', process'[r] = q
      PROVE  r = q
  <2>1. Alive(q) /\ process[q] = q /\ Alive(r) /\ process[r] = q
    BY <1>2, Zenon
  <2>2. killed[q] \/ pc[q] \in Exiting \/ Siblings(q) = {}
    BY <1>2, <2>1, Zenon
  <2>3. Siblings(q) = {} => r = q
    BY <2>1, Zenon DEF Siblings
  <2> QED
    BY <2>1, <2>2, <2>3, Zenon DEF LeaderOK
<1>3. ASSUME NEW q \in Slots, pc'[q] \in Execing PROVE process'[q] = q
  BY <1>3, Zenon DEF LeaderOK
<1> QED
  BY <1>1, <1>2, <1>3, Zenon DEF LeaderOK

(* No thread starts, and init goes on as init.c says.                      *)
LEMMA InitFrame ==
  ASSUME InitOK, Alive(initproc)', process'[initproc] = initproc,
         \A q \in Slots : Alive(q)' => Alive(q) /\ process'[q] = process[q],
         pc'[initproc] \in Forking \cup {"user", "wait", "exit"}
  PROVE  InitOK'
  BY Zenon DEF InitOK

(* init has no siblings. *)
LEMMA InitAlone ==
  ASSUME InitOK
  PROVE  Siblings(initproc) = {}
BY Zenon DEF InitOK, Siblings

-----------------------------------------------------------------------------
(* The steps that start, end and reap nobody, for families of processes. *)

(* The slots stay what they are in a calm step. *)
LEMMA CalmKinds ==
  ASSUME NEW p \in Slots, Calm(p)
  PROVE  /\ \A q \in Slots : /\ Alive(q)' <=> Alive(q)
                             /\ Exists(q)' <=> Exists(q)
                             /\ Raw(q)' <=> Raw(q)
                             /\ \A k \in {"UNUSED", "EMBRYO", "ZOMBIE"} : state'[q] = k <=> state[q] = k
         /\ \A q \in Slots : pc[q] \in Creating => pc'[q] = pc[q] /\ np'[q] = np[q]
         /\ \A q \in Slots : pc'[q] \in Creating => pc[q] = pc'[q] /\ np'[q] = np[q]
         /\ Owners' = Owners
<1>1. \A q \in Slots : /\ Alive(q)' <=> Alive(q)
                       /\ Exists(q)' <=> Exists(q)
                       /\ \A k \in {"UNUSED", "EMBRYO", "ZOMBIE"} : state'[q] = k <=> state[q] = k
  BY Zenon DEF Calm, Alive, Exists
<1>2. \A q \in Slots : pc[q] \in Creating => pc'[q] = pc[q] /\ np'[q] = np[q]
  BY Zenon DEF Calm
<1>3. \A q \in Slots : pc'[q] \in Creating => pc'[q] = pc[q] /\ np'[q] = np[q]
  BY Zenon DEF Calm
<1>4. {"fork2", "clone2"} \subseteq Creating
  BY Zenon DEF Creating
<1>5. \A q \in Slots : Raw(q)' <=> Raw(q)
  BY <1>1, <1>2, <1>3, <1>4, Zenon DEF Raw
<1>6. Owners' = Owners
  BY <1>1, <1>5, Zenon DEF Owners, Calm
<1> QED
  BY <1>1, <1>2, <1>3, <1>5, <1>6, Zenon

(* A calm step that changes no parent leaves the families as they are.     *)
LEMMA CalmFamily ==
  ASSUME FInv, NEW p \in Slots, Calm(p), parent' = parent
  PROVE  EmbryoOK' /\ ParentOK' /\ TgidOK'
<1>1. /\ \A q \in Slots : /\ Alive(q)' <=> Alive(q)
                          /\ Exists(q)' <=> Exists(q)
                          /\ Raw(q)' <=> Raw(q)
                          /\ \A k \in {"UNUSED", "EMBRYO", "ZOMBIE"} : state'[q] = k <=> state[q] = k
      /\ \A q \in Slots : pc[q] \in Creating => pc'[q] = pc[q] /\ np'[q] = np[q]
      /\ \A q \in Slots : pc'[q] \in Creating => pc[q] = pc'[q] /\ np'[q] = np[q]
  BY CalmKinds, Zenon
<1>2. tgid' = tgid /\ process' = process
  BY Zenon DEF Calm
<1>3. EmbryoOK'
  BY <1>1 DEF FInv, EmbryoOK
<1>4. ParentOK'
  <2>1. ASSUME NEW q \in Slots, state'[q] = "UNUSED" PROVE parent'[q] = 0
    BY <1>1, <2>1, Zenon DEF FInv, ParentOK
  <2>2. ASSUME NEW q \in Slots, pc'[q] \in {"fork2", "fork3", "clone2", "clone3"}
        PROVE  parent'[np'[q]] = 0
    <3>1. pc[q] = pc'[q] /\ np'[q] = np[q]
      BY <1>1, <2>2, Zenon DEF Creating
    <3>2. parent[np[q]] = 0
      BY <2>2, <3>1, Zenon DEF FInv, ParentOK
    <3> QED
      BY <3>1, <3>2, Zenon
  <2>3. ASSUME NEW q \in Slots, pc'[q] = "fork4" PROVE parent'[np'[q]] = process'[q]
    <3>1. pc'[q] \in Creating
      BY <2>3, Zenon DEF Creating
    <3> QED
      BY <1>1, <1>2, <2>3, <3>1, ZenonT(60) DEF FInv, ParentOK
  <2>4. ASSUME NEW q \in Slots \ {initproc}, Exists(q)', process'[q] = q
        PROVE  parent'[q] \in Slots /\ Alive(parent[q])' /\ process'[parent'[q]] = parent'[q]
    <3>1. parent[q] \in Slots /\ Alive(parent[q]) /\ process[parent[q]] = parent[q]
      BY <1>1, <1>2, <2>4, Zenon DEF FInv, ParentOK
    <3>2. Alive(parent[q])'
      BY <1>1, <3>1, Zenon DEF Alive
    <3> QED
      BY <1>2, <3>1, <3>2, Zenon
  <2> QED
    BY <2>1, <2>2, <2>3, <2>4, Zenon DEF ParentOK
<1>5. TgidOK'
  <2>1. ASSUME NEW q \in Slots, Exists(q)'
        PROVE  /\ tgid'[q] # 0 /\ process'[q] \in Slots
               /\ Exists(process[q])' /\ process'[process'[q]] = process'[q]
    <3>1. tgid[q] # 0 /\ process[q] \in Slots /\ Exists(process[q]) /\ process[process[q]] = process[q]
      BY <1>1, <2>1, Zenon DEF FInv, TgidOK
    <3>2. Exists(process[q])'
      BY <1>1, <1>2, <3>1, Zenon DEF Exists
    <3> QED
      BY <1>2, <3>1, <3>2, Zenon
  <2>2. \A q, r \in Slots : Exists(q)' /\ Exists(r)' => (tgid'[q] = tgid'[r] <=> process'[q] = process'[r])
    BY <1>1, <1>2, ZenonT(60) DEF FInv, TgidOK
  <2>3. \A q, r \in Slots : q # r /\ Raw(q)' /\ tgid'[q] # 0 => tgid'[r] # tgid'[q]
    BY <1>1, <1>2, Zenon DEF FInv, TgidOK
  <2> QED
    BY <2>1, <2>2, <2>3, Zenon DEF TgidOK
<1> QED
  BY <1>3, <1>4, <1>5, Zenon

(* ... and one that changes no page directory and no working directory     *)
(* leaves the memory as it is.                                             *)
LEMMA CalmMem ==
  ASSUME FInv, NEW p \in Slots, Calm(p), pgdir' = pgdir, pgs' = pgs, cwd' = cwd
  PROVE  MemOK'
<1>1. /\ \A q \in Slots : /\ Alive(q)' <=> Alive(q)
                          /\ Raw(q)' <=> Raw(q)
                          /\ \A k \in {"UNUSED", "EMBRYO", "ZOMBIE"} : state'[q] = k <=> state[q] = k
      /\ \A q \in Slots : pc'[q] \in Creating => pc[q] = pc'[q] /\ np'[q] = np[q]
      /\ Owners' = Owners
  BY CalmKinds, Zenon
<1>2. pid' = pid /\ tgid' = tgid /\ process' = process
  BY Zenon DEF Calm
<1>3. /\ \A q \in Owners : pid[q] = tgid[q] /\ pgdir[q] # 0
      /\ \A q \in Slots : Raw(q) => pgdir[q] = 0
      /\ \A q \in Slots : Alive(q) => pgdir[q] = pgdir[process[q]]
      /\ \A q \in Slots : pc[q] \in {"clone3", "clone4"} => pgdir[np[q]] = pgdir[q]
      /\ pgs = {pgdir[q] : q \in Owners}
      /\ \A q, r \in Owners : pgdir[q] = pgdir[r] => q = r
      /\ \A q \in Slots : Raw(q) \/ process[q] # q \/ state[q] = "ZOMBIE" => ~cwd[q]
  BY Zenon DEF FInv, MemOK
<1>4. \A q \in Slots : pc'[q] \in {"clone3", "clone4"} => pgdir'[np'[q]] = pgdir'[q]
  BY <1>1, <1>3, Zenon DEF Creating
<1>5. /\ \A q \in Owners' : pid'[q] = tgid'[q] /\ pgdir'[q] # 0
      /\ \A q, r \in Owners' : pgdir'[q] = pgdir'[r] => q = r
      /\ pgs' = {pgdir'[q] : q \in Owners'}
  BY <1>1, <1>2, <1>3
<1>6. /\ \A q \in Slots : Raw(q)' => pgdir'[q] = 0
      /\ \A q \in Slots : Alive(q)' => pgdir'[q] = pgdir'[process'[q]]
      /\ \A q \in Slots : Raw(q)' \/ process'[q] # q \/ state'[q] = "ZOMBIE" => ~cwd'[q]
  BY <1>1, <1>2, <1>3, Zenon
<1> QED
  BY <1>4, <1>5, <1>6, Zenon DEF MemOK

-----------------------------------------------------------------------------
(* The calm steps.  What is left to show of each is where the thread goes, *)
(* and whom it marks.                                                      *)
Proper(p) ==
  /\ p = initproc => pc'[p] \in Forking \cup {"user", "wait", "exit"}
  /\ \A q \in Slots : Alive(q) /\ killed'[q] => killed[q] \/ process[q] # q \/ Siblings(q) = {}
  /\ pc'[p] = "wait" => pc[p] = "wait" \/ \A q \in Siblings(p) : pc[q] \notin Forking
  /\ pc'[p] \in Forking => pc[p] \in Forking \/ \A q \in Siblings(p) : pc[q] # "wait"
  /\ pc'[p] \in Exiting => pc[p] \in Exiting \/ killed[p] \/ process[p] # p \/ Siblings(p) = {}
  /\ pc'[p] \in Execing => pc[p] \in Execing \/ process[p] = p

(* A calm step that is proper keeps the promises of the programs.          *)
LEMMA CalmProper ==
  ASSUME FInv, NEW p \in Slots, Calm(p), Proper(p)
  PROVE  InitOK' /\ LeaderOK' /\ WaitOK'
<1>0. IInv /\ InitOK /\ LeaderOK /\ WaitOK
  BY Zenon DEF FInv, XInv
<1>1. \A q \in Slots : Alive(q)' <=> Alive(q)
  BY CalmKinds, Zenon
<1>2. process' = process /\ \A q \in Slots \ {p} : pc'[q] = pc[q]
  BY Zenon DEF Calm
<1>3. \A q \in Slots : Alive(q) => process[q] \in Slots
  BY <1>0, Zenon DEF IInv, GroupOK
<1>4. InitOK'
  <2>1. initproc \in Slots
    BY NPROCAssumption DEF initproc, Slots
  <2>2. Alive(initproc)' /\ process'[initproc] = initproc
    BY <1>0, <1>1, <1>2, <2>1, Zenon DEF InitOK
  <2>3. pc'[initproc] \in Forking \cup {"user", "wait", "exit"}
    <3>1. CASE p = initproc
      BY <3>1, Zenon DEF Proper
    <3>2. CASE p # initproc
      BY <1>0, <1>2, <2>1, <3>2, Zenon DEF InitOK
    <3> QED
      BY <3>1, <3>2, Zenon
  <2> QED
    BY <1>0, <1>1, <1>2, <2>2, <2>3, InitFrame, Zenon
<1>5. WaitOK'
  <2>1. \A q \in Slots : pc'[q] \in Forking \cup {"wait"} =>
            process'[q] = process[q] /\ (q # p => pc'[q] = pc[q])
    BY <1>2, Zenon
  <2> QED
    BY <1>0, <2>1, WaitFrame, Zenon DEF Proper
<1>6. LeaderOK'
  <2>1. ASSUME NEW q \in Slots, Alive(q)'
        PROVE  /\ Alive(q) /\ process'[q] = process[q] /\ Alive(process[q])'
               /\ killed'[q] => killed[q] \/ process[q] # q \/ Siblings(q) = {}
    <3>1. Alive(q) /\ process'[q] = process[q] /\ process[q] \in Slots
      BY <1>1, <1>2, <1>3, <2>1, Zenon
    <3>2. Alive(process[q])
      BY <1>0, <3>1, Zenon DEF LeaderOK
    <3>3. Alive(process[q])'
      BY <1>1, <1>2, <3>1, <3>2, Zenon DEF Alive
    <3> QED
      BY <3>1, <3>3, Zenon DEF Proper
  <2>2. /\ \A q \in Slots \ {p} : pc'[q] \in Exiting \cup Execing => pc'[q] = pc[q]
        /\ \A q \in Slots : pc'[q] \in Execing => process'[q] = process[q]
    BY <1>2, Zenon
  <2> QED
    BY <1>0, <2>1, <2>2, LeaderFrame, Zenon DEF Proper
<1> QED
  BY <1>4, <1>5, <1>6, Zenon

(* ... and preserves the invariant, when it changes no parent and no memory *)
LEMMA CalmStep ==
  ASSUME FInv, XInv', NEW p \in Slots, Calm(p), Proper(p),
         parent' = parent, pgdir' = pgdir, pgs' = pgs, cwd' = cwd,
         panicked' \in {panicked, "init exiting"},
         pc'[p] = "exit2" => pc[p] = "exit2" \/ process[p] # p
  PROVE  FInv'
<1>1. InitOK' /\ LeaderOK' /\ WaitOK'
  BY CalmProper, Zenon
<1>2. EmbryoOK' /\ ParentOK' /\ TgidOK' /\ MemOK'
  BY CalmFamily, CalmMem, Zenon
<1>3. LastOK'
  <2>1. process' = process /\ \A q \in Slots \ {p} : pc'[q] = pc[q]
    BY Zenon DEF Calm
  <2> QED
    BY <2>1, Zenon DEF FInv, LastOK
<1>4. NoUndead'
  BY Zenon DEF FInv, NoUndead
<1> QED
  BY <1>1, <1>2, <1>3, <1>4, Zenon DEF FInv

(* Calls and traps. *)
LEMMA BoundaryF ==
  ASSUME FamilyRules, FInv, XInv', NEW p \in Slots,
         \/ \E c \in Calls \ {"fault", "join"} : Syscall(p, c)
         \/ \E x \in 1..MaxPid : JoinCall(p, x)
         \/ TrapKilled(p)
         \/ p = initproc /\ InitProgram
  PROVE  FInv'
<1>0. /\ IInv /\ NpOK /\ InitOK /\ pc \in [Slots -> Pcs] /\ tmp \in [Slots -> Nat]
  BY Zenon DEF FInv, XInv, IInv, TypeOK
<1>1. /\ UNCHANGED <<pid, tgid, process, nextpid, state, killed, np, parent, pgdir, pgs, cwd, panicked>>
      /\ pc[p] = "user"
  BY Zenon DEF Syscall, JoinCall, TrapKilled, InitProgram, At, ids, mem, locals
<1>2. ASSUME NEW l, pc' = [pc EXCEPT ![p] = l] PROVE pc'[p] = l
  BY <1>0, <1>2, Zenon
<1>3. ASSUME NEW c \in Calls \ {"fault", "join"}, Syscall(p, c) PROVE Calm(p) /\ Proper(p) /\ pc'[p] # "exit2"
  <2>1. Calm(p)
    BY <1>0, <1>3, CalmBoundary, Zenon
  <2>2. pc'[p] = c /\ p # initproc /\ Keeps(p, c)
    BY <1>2, <1>3, Zenon DEF Syscall, GoTo
  <2>3. c \in {"fork", "clone", "wait", "exit", "kill", "park", "unpark", "exec"}
    BY CallsAssumption, Zenon
  <2> QED
    BY <1>1, <2>1, <2>2, <2>3 DEF Proper, FamilyRules, Keeps, Forking, Exiting, Execing
<1>4. ASSUME NEW x \in 1..MaxPid, JoinCall(p, x) PROVE Calm(p) /\ Proper(p) /\ pc'[p] # "exit2"
  <2>1. /\ pc' = [pc EXCEPT ![p] = "join"] /\ tmp' = [tmp EXCEPT ![p] = x] /\ p # initproc
    BY <1>4, Zenon DEF JoinCall, GoTo
  <2>2. Calm(p)
    BY <1>0, <1>1, <2>1, CalmBy, Zenon DEF Creating
  <2> QED
    BY <1>0, <1>1, <2>1, <2>2 DEF Proper, Forking, Exiting, Execing
<1>5. CASE TrapKilled(p)
  <2>1. Calm(p)
    BY <1>0, <1>5, CalmBoundary, Zenon
  <2>2. pc'[p] = "exit" /\ killed[p]
    BY <1>2, <1>5, Zenon DEF TrapKilled, GoTo
  <2>3. Proper(p)
    BY <1>1, <2>2, Zenon DEF Proper, Forking, Exiting, Execing
  <2> QED
    BY <1>1, <2>1, <2>2, <2>3, CalmStep
<1>6. CASE p = initproc /\ InitProgram
  <2>1. Calm(p)
    BY <1>0, <1>6, CalmBoundary, Zenon
  <2>2. pc'[p] \in {"fork", "wait"}
    BY <1>2, <1>6, Zenon DEF InitProgram, GoTo
  <2>3. Siblings(p) = {}
    BY <1>0, <1>6, InitAlone, Zenon
  <2>4. Proper(p)
    BY <1>1, <2>2, <2>3, Zenon DEF Proper, Forking, Exiting, Execing
  <2> QED
    BY <1>1, <2>1, <2>2, <2>4, CalmStep
<1> QED
  BY <1>1, <1>3, <1>4, <1>5, <1>6, CalmStep, Zenon

(* A thread goes to sleep, or back to sleep, where it is.                  *)
LEMMA SleepF ==
  ASSUME FInv, XInv', NEW p \in Slots, WaitSleep(p) \/ ExecSleep(p) \/ JoinSleep(p)
  PROVE  FInv'
<1>0. IInv /\ NpOK /\ InitOK /\ state \in [Slots -> States] /\ np \in [Slots -> Ptr]
  BY Zenon DEF FInv, XInv, IInv, TypeOK
<1>1. /\ UNCHANGED <<pid, tgid, process, nextpid, killed, pc, tmp, parent, pgdir, pgs, cwd, panicked>>
      /\ state[p] = "RUNNABLE" /\ state' = [state EXCEPT ![p] = "SLEEPING"]
      /\ pc[p] \in {"wait", "exec2", "join"}
      /\ np' = np \/ \E q : np' = [np EXCEPT ![p] = q]
  BY Zenon DEF WaitSleep, ExecSleep, JoinSleep, Sleep, At, ids, mem, locals
<1>2. /\ \A q \in Slots : \/ state'[q] = state[q]
                          \/ /\ state[q] \in {"SLEEPING", "RUNNABLE"}
                             /\ state'[q] \in {"SLEEPING", "RUNNABLE"}
      /\ \A q \in Slots \ {p} : np'[q] = np[q]
  BY <1>0, <1>1, Zenon
<1>3. Calm(p)
  BY <1>1, <1>2, Zenon DEF Calm, Creating
<1>4. Proper(p)
  BY <1>0, <1>1, Zenon DEF Proper, InitOK
<1> QED
  BY <1>1, <1>3, <1>4, CalmStep, Zenon

(* Back in user space, or in a call that makes no promise, a thread is     *)
(* where it may be.                                                        *)
LEMMA NeutralProper ==
  ASSUME NEW p \in Slots, p = initproc => pc'[p] = "user", pc'[p] \in {"user", "parked"},
         \A q \in Slots : Alive(q) /\ killed'[q] => killed[q] \/ process[q] # q \/ Siblings(q) = {}
  PROVE  Proper(p) /\ pc'[p] # "exit2"
BY Zenon DEF Proper, Forking, Exiting, Execing

(* Calls that fail or return, and the calls of the thread library.         *)
LEMMA CallsF ==
  ASSUME FInv, XInv', NEW p \in Slots,
         \/ At(p, "fork") /\ NoProc(p)
         \/ At(p, "fork") /\ Return(p) /\ UNCHANGED <<state, ids, sleepv, killed, threadcount, mem, panicked>>
         \/ At(p, "clone") /\ NoProc(p)
         \/ WaitFail(p)
         \/ JoinNone(p) \/ JoinFail(p)
         \/ \E c \in Chans : Park(p, c)
         \/ ParkReturn(p)
         \/ \E x \in 1..MaxPid, c \in Chans : Unpark(p, x, c)
  PROVE  FInv'
<1>0. IInv /\ NpOK /\ InitOK /\ pc \in [Slots -> Pcs]
  BY Zenon DEF FInv, XInv, IInv, TypeOK
<1>1. /\ UNCHANGED <<process, killed, parent, pgdir, pgs, cwd, panicked>>
      /\ pc[p] \in {"fork", "clone", "wait", "join", "park", "parked", "unpark"}
      /\ \E l \in {"user", "parked", "exit"} : pc' = [pc EXCEPT ![p] = l] /\ (l = "exit" => p = initproc)
                                               /\ (l = "parked" => pc[p] = "park")
  BY Zenon DEF NoProc, WaitFail, WaitReturns, JoinNone, JoinFail, Park, ParkReturn, Unpark,
               At, Return, GoTo, ids, mem, locals
<1>2. Calm(p)
  <2>1. \/ At(p, "fork") /\ (NoProc(p) \/ (Return(p) /\ UNCHANGED <<state, ids, killed>>))
        \/ At(p, "clone") /\ NoProc(p)
        \/ WaitFail(p)
        \/ JoinNone(p) \/ JoinFail(p)
        \/ \E c \in Chans : Park(p, c)
        \/ ParkReturn(p)
        \/ \E x \in 1..MaxPid, c \in Chans : Unpark(p, x, c)
    BY Zenon
  <2> QED
    BY <1>0, <2>1, CalmCalls, Zenon
<1>3. /\ pc'[p] \in {"user", "parked", "exit"} /\ (pc'[p] = "exit" => p = initproc)
      /\ pc'[p] = "parked" => p # initproc
  BY <1>0, <1>1, Zenon DEF InitOK, Forking
<1>4. Proper(p) /\ pc'[p] # "exit2"
  <2>1. CASE pc'[p] = "exit"
    <3>1. Siblings(p) = {}
      BY <1>0, <1>3, <2>1, InitAlone, Zenon
    <3> QED
      BY <1>1, <2>1, <3>1, Zenon DEF Proper, Forking, Exiting, Execing
  <2>2. CASE pc'[p] # "exit"
    BY <1>1, <1>3, <2>2, NeutralProper, Zenon
  <2> QED
    BY <2>1, <2>2, Zenon
<1> QED
  BY <1>1, <1>2, <1>4, CalmStep, Zenon

(* kill marks a leader only when it is alone, as the programs promise.     *)
LEMMA KillF ==
  ASSUME Firsts, FamilyRules, FInv, XInv', NEW p \in Slots, NEW x \in 0..MaxPid, Kill(p, x)
  PROVE  FInv'
<1>0. IInv /\ NpOK /\ InitOK /\ pc \in [Slots -> Pcs] /\ killed \in [Slots -> BOOLEAN]
  BY Zenon DEF FInv, XInv, IInv, TypeOK
<1>1. /\ UNCHANGED <<process, parent, pgdir, pgs, cwd, panicked>>
      /\ pc[p] = "kill" /\ pc' = [pc EXCEPT ![p] = "user"] /\ MayKill(x)
      /\ killed' = killed \/ (WithPid(x) # {} /\ killed' = [killed EXCEPT ![First(WithPid(x))] = TRUE])
  BY Zenon DEF Kill, At, Return, GoTo, ids, mem
<1>2. Calm(p)
  BY <1>0, CalmCalls, Zenon
<1>3. ASSUME NEW q \in Slots, killed'[q], ~killed[q], process[q] = q PROVE Siblings(q) = {}
  <2>1. WithPid(x) # {} /\ q = First(WithPid(x))
    BY <1>0, <1>1, <1>3, Zenon
  <2>2. WithPid(x) \in SUBSET Nat
    BY NPROCAssumption DEF WithPid, Slots
  <2>3. pid[q] = x
    BY <2>1, <2>2, Zenon DEF Firsts, WithPid
  <2> QED
    BY <1>1, <1>3, <2>3, Zenon DEF MayKill, FamilyRules
<1>4. pc'[p] = "user"
  BY <1>0, <1>1, Zenon
<1>5. Proper(p) /\ pc'[p] # "exit2"
  BY <1>3, <1>4, NeutralProper, Zenon
<1> QED
  BY <1>1, <1>2, <1>5, CalmStep, Zenon

(* A leader that exits is the last thread, so that it goes by exitcwd.     *)
LEMMA ExitBeginF ==
  ASSUME Counts, FInv, XInv', NEW p \in Slots, ExitBegin(p)
  PROVE  FInv'
<1>0. IInv /\ NpOK /\ InitOK /\ LeaderOK /\ pc \in [Slots -> Pcs]
  BY Zenon DEF FInv, XInv, IInv, TypeOK
<1>1. /\ UNCHANGED <<process, killed, parent, pgdir, pgs, cwd>>
      /\ pc[p] = "exit" /\ panicked' \in {panicked, "init exiting"}
      /\ \/ pc' = pc
         \/ /\ p # initproc
            /\ pc' = [pc EXCEPT ![p] = IF threadcount[process[p]] = 1 THEN "exitcwd" ELSE "exit2"]
  BY Zenon DEF ExitBegin, Halt, At, GoTo, ids, mem
<1>2. Calm(p)
  BY <1>0, CalmCalls, Zenon
<1>3. /\ pc'[p] \in Exiting /\ (p = initproc => pc'[p] = "exit")
      /\ pc'[p] = "exit2" => threadcount[process[p]] # 1
  BY <1>0, <1>1, Zenon DEF Exiting
<1>4. Proper(p)
  BY <1>1, <1>3, Zenon DEF Proper, Exiting, Forking, Execing
<1>5. process[p] = p => threadcount[p] = 1
  <2> SUFFICES ASSUME process[p] = p PROVE threadcount[p] = 1
    BY Zenon
  <2>1. Alive(p)
    BY <1>0, <1>1, Zenon DEF IInv, PcOK
  <2>2. LiveThreads(p) = {p}
    BY <1>0, <1>1, <2>1, ZenonT(60) DEF LeaderOK, LiveThreads, Exiting
  <2> QED
    BY <1>0, <2>2, Zenon DEF IInv, ThreadCountOK, Counts
<1> QED
  BY <1>1, <1>2, <1>3, <1>4, <1>5, CalmStep, Zenon

(* exec, which the leader calls: the others it marks are no leaders, and   *)
(* the exchange of ids changes nothing.                                    *)
LEMMA ExecF ==
  ASSUME FInv, XInv', NEW p \in Slots,
         ExecKill(p) \/ ExecAlone(p) \/ ExecGivePid(p) \/ ExecTakePid(p)
  PROVE  FInv'
<1>0. /\ IInv /\ NpOK /\ InitOK /\ LeaderOK /\ MemOK /\ pc \in [Slots -> Pcs] /\ killed \in [Slots -> BOOLEAN]
      /\ state \in [Slots -> States] /\ pid \in [Slots -> Nat]
  BY Zenon DEF FInv, XInv, IInv, TypeOK
<1>1. /\ UNCHANGED <<tgid, process, nextpid, parent, np, tmp, pgdir, pgs, cwd, panicked>>
      /\ pc[p] \in {"exec", "exec2", "exec3", "exec4"}
      /\ \E l \in {"user", "exec2", "exec3", "exec4", "exec5"} : pc' = [pc EXCEPT ![p] = l]
  BY Zenon DEF ExecKill, ExecAlone, ExecGivePid, ExecTakePid, At, GoTo, ids, mem, locals
<1>2. Alive(p) /\ process[p] = p /\ p # initproc
  BY <1>0, <1>1, Zenon DEF IInv, PcOK, LeaderOK, InitOK, Execing, Forking
<1>3. pid' = pid
  <2>1. p \in Owners
    <3>1. ~Raw(p)
      BY <1>2, Zenon DEF Raw, Alive, FInv, XInv, IInv, CreateOK, Creating
    <3> QED
      BY <1>2, <3>1, Zenon DEF Owners, Alive
  <2>2. pid[p] = tgid[p]
    BY <1>0, <2>1, Zenon DEF MemOK
  <2>3. pid' = pid \/ pid' = [pid EXCEPT ![p] = pid[p]]
    BY <1>2, <2>2, Zenon DEF ExecKill, ExecAlone, ExecGivePid, ExecTakePid, ids
  <2> QED
    BY <1>0, <2>3, Zenon
<1>4. /\ \A q \in Slots : \/ state'[q] = state[q]
                          \/ state[q] \in {"SLEEPING", "RUNNABLE"} /\ state'[q] \in {"SLEEPING", "RUNNABLE"}
      /\ \A q \in Slots : killed[q] => killed'[q]
      /\ \A q \in Slots : killed'[q] => killed[q] \/ (tgid[q] = tgid[p] /\ pid[q] # pid[p])
  <2>1. \/ UNCHANGED <<state, killed>>
        \/ LET others == {q \in Slots : tgid[q] = tgid[p] /\ pid[q] # pid[p]} IN
             /\ killed' = [q \in Slots |-> killed[q] \/ q \in others]
             /\ state' = [q \in Slots |-> IF q \in others /\ state[q] = "SLEEPING"
                                          THEN "RUNNABLE" ELSE state[q]]
    BY Zenon DEF ExecKill, ExecAlone, ExecGivePid, ExecTakePid
  <2>2. CASE UNCHANGED <<state, killed>>
    BY <2>2, Zenon
  <2>3. CASE ~UNCHANGED <<state, killed>>
    BY <2>1, <2>3, Zenon
  <2> QED
    BY <2>2, <2>3, Zenon
<1>5. Calm(p)
  BY <1>0, <1>1, <1>3, <1>4, CalmBy, Zenon DEF Creating
<1>6. ASSUME NEW q \in Slots, Alive(q), killed'[q], ~killed[q] PROVE process[q] # q
  <2>1. tgid[q] = tgid[p] /\ q # p
    BY <1>4, <1>6, Zenon
  <2>2. process[q] = process[p]
    BY <1>2, <1>6, <2>1, ZenonT(60) DEF FInv, XInv, IdOK
  <2> QED
    BY <1>2, <2>1, <2>2, Zenon
<1>7. pc'[p] \in {"user", "exec2", "exec3", "exec4", "exec5"}
  BY <1>0, <1>1, Zenon
<1>8. Proper(p) /\ pc'[p] # "exit2"
  BY <1>2, <1>6, <1>7, Zenon DEF Proper, Forking, Exiting, Execing
<1> QED
  BY <1>1, <1>5, <1>8, CalmStep, Zenon

(* The last thread drops the working directory of its process.             *)
LEMMA ExitCwdF ==
  ASSUME FInv, XInv', NEW p \in Slots, ExitCwd(p)
  PROVE  FInv'
<1>0. /\ IInv /\ NpOK /\ InitOK /\ MemOK /\ pc \in [Slots -> Pcs] /\ cwd \in [Slots -> BOOLEAN]
  BY Zenon DEF FInv, XInv, IInv, TypeOK
<1>1. /\ UNCHANGED <<pid, tgid, process, killed, parent, pgdir, pgs, panicked>>
      /\ pc[p] = "exitcwd" /\ pc' = [pc EXCEPT ![p] = "exit2"] /\ cwd' = [cwd EXCEPT ![process[p]] = FALSE]
  BY Zenon DEF ExitCwd, At, GoTo, ids
<1>2. Calm(p)
  BY <1>0, CalmCalls, Zenon
<1>3. process[p] \in Slots /\ Alive(p)
  BY <1>0, <1>1, Zenon DEF IInv, PcOK, GroupOK
<1>4. pc'[p] = "exit2" /\ p # initproc /\ ~cwd'[process[p]] /\ \A q \in Slots : cwd'[q] => cwd[q]
  BY <1>0, <1>1, <1>3, Zenon DEF InitOK, Forking
<1>5. Proper(p)
  BY <1>1, <1>4, Zenon DEF Proper, Exiting, Forking, Execing
<1>6. InitOK' /\ LeaderOK' /\ WaitOK' /\ EmbryoOK' /\ ParentOK' /\ TgidOK'
  BY <1>1, <1>2, <1>5, CalmProper, CalmFamily, ZenonT(60)
<1>7. LastOK'
  <2>1. \A q \in Slots \ {p} : pc'[q] = pc[q]
    BY <1>2, Zenon DEF Calm
  <2> QED
    BY <1>1, <1>4, <2>1, Zenon DEF FInv, LastOK
<1>8. MemOK'
  <2>1. /\ \A q \in Slots : /\ Alive(q)' <=> Alive(q)
                            /\ Raw(q)' <=> Raw(q)
                            /\ \A k \in {"UNUSED", "EMBRYO", "ZOMBIE"} : state'[q] = k <=> state[q] = k
        /\ \A q \in Slots : pc'[q] \in Creating => pc[q] = pc'[q] /\ np'[q] = np[q]
        /\ Owners' = Owners
    BY <1>2, CalmKinds, Zenon
  <2>2. \A q \in Slots : pc'[q] \in {"clone3", "clone4"} => pgdir'[np'[q]] = pgdir'[q]
    BY <1>0, <1>1, <2>1, SMTT(30) DEF MemOK, Creating
  <2>3. /\ \A q \in Owners' : pid'[q] = tgid'[q] /\ pgdir'[q] # 0
        /\ \A q, r \in Owners' : pgdir'[q] = pgdir'[r] => q = r
        /\ pgs' = {pgdir'[q] : q \in Owners'}
    BY <1>0, <1>1, <2>1 DEF MemOK
  <2>4. /\ \A q \in Slots : Raw(q)' => pgdir'[q] = 0
        /\ \A q \in Slots : Alive(q)' => pgdir'[q] = pgdir'[process'[q]]
    BY <1>0, <1>1, <2>1, Zenon DEF MemOK
  <2>5. \A q \in Slots : Raw(q)' \/ process'[q] # q \/ state'[q] = "ZOMBIE" => ~cwd'[q]
    BY <1>0, <1>1, <1>4, <2>1 DEF MemOK
  <2> QED
    BY <2>2, <2>3, <2>4, <2>5, Zenon DEF MemOK
<1> QED
  BY <1>1, <1>6, <1>7, <1>8, Zenon DEF FInv, NoUndead

(* exec replaces the page directory of its process.  *)
LEMMA ExecImageF ==
  ASSUME Firsts, FInv, XInv', NEW p \in Slots, ExecImage(p)
  PROVE  FInv'
<1>0. /\ IInv /\ NpOK /\ InitOK /\ LeaderOK /\ MemOK /\ pc \in [Slots -> Pcs]
      /\ pgdir \in [Slots -> {0} \cup PgIds]
  BY Zenon DEF FInv, XInv, IInv, TypeOK
<1>1. /\ UNCHANGED <<pid, tgid, process, killed, parent, cwd, panicked>>
      /\ pc[p] = "exec5" /\ pc' = [pc EXCEPT ![p] = "user"]
  BY Zenon DEF ExecImage, At, GoTo, ids
<1>2. Calm(p)
  BY <1>0, CalmCalls, Zenon
<1>3. pc'[p] = "user"
  BY <1>0, <1>1, Zenon
<1>4. Proper(p)
  BY <1>1, <1>3, NeutralProper, Zenon
<1>5. CASE UNCHANGED <<pgdir, pgs>>
  BY <1>1, <1>2, <1>3, <1>4, <1>5, CalmStep
<1>6. CASE ~UNCHANGED <<pgdir, pgs>>
  <2> DEFINE a == First(PgIds \ pgs)
  <2>1. /\ PgIds \ pgs # {} /\ pgdir' = [pgdir EXCEPT ![p] = a]
        /\ pgs' = (pgs \cup {a}) \ {pgdir[p]}
    BY <1>6, Zenon DEF ExecImage
  <2>2. a \in PgIds \ pgs
    <3>1. PgIds \ pgs \in SUBSET Nat
      BY NPROCAssumption DEF PgIds
    <3> QED
      BY <2>1, <3>1, Zenon DEF Firsts
  <2>3. a # 0
    BY <2>2, NPROCAssumption DEF PgIds
  <2> HIDE DEF a
  <2>4. pgdir'[p] = a /\ \A q \in Slots \ {p} : pgdir'[q] = pgdir[q]
    BY <1>0, <2>1, Zenon
  <2>5. Alive(p) /\ process[p] = p /\ LiveThreads(p) = {p} /\ p # initproc
    BY <1>0, <1>1 DEF IInv, PcOK, AloneOK, Solitary, LeaderOK, Execing, InitOK, Forking
  <2>6. ~Raw(p)
    BY <2>5, Zenon DEF Raw, Alive, FInv, XInv, IInv, CreateOK, Creating
  <2>7. p \in Owners
    BY <2>5, <2>6, Zenon DEF Owners, Alive
  <2>8. /\ \A q \in Owners : pid[q] = tgid[q] /\ pgdir[q] # 0
        /\ \A q \in Slots : Raw(q) => pgdir[q] = 0
        /\ \A q \in Slots : Alive(q) => pgdir[q] = pgdir[process[q]]
        /\ \A q \in Slots : pc[q] \in {"clone3", "clone4"} => pgdir[np[q]] = pgdir[q]
        /\ pgs = {pgdir[q] : q \in Owners}
        /\ \A q, r \in Owners : pgdir[q] = pgdir[r] => q = r
        /\ \A q \in Slots : Raw(q) \/ process[q] # q \/ state[q] = "ZOMBIE" => ~cwd[q]
    BY <1>0, Zenon DEF MemOK
  <2>9. /\ \A q \in Slots : /\ Alive(q)' <=> Alive(q)
                            /\ Raw(q)' <=> Raw(q)
                            /\ \A k \in {"UNUSED", "EMBRYO", "ZOMBIE"} : state'[q] = k <=> state[q] = k
        /\ \A q \in Slots : pc'[q] \in Creating => pc[q] = pc'[q] /\ np'[q] = np[q]
        /\ Owners' = Owners
    BY <1>2, CalmKinds, Zenon
  <2>10. Owners \subseteq Slots
    BY Zenon DEF Owners
  <2>11. ASSUME NEW q \in Owners' PROVE pid'[q] = tgid'[q] /\ pgdir'[q] # 0
    <3>1. q \in Owners /\ q \in Slots
      BY <2>9, <2>10, <2>11, Zenon
    <3>2. pid[q] = tgid[q] /\ pgdir[q] # 0
      BY <2>8, <3>1, Zenon
    <3> QED
      BY <1>1, <2>3, <2>4, <3>1, <3>2
  <2>12. \A q \in Slots : Raw(q)' => pgdir'[q] = 0
    BY <2>4, <2>6, <2>8, <2>9, ZenonT(60)
  <2>13. ASSUME NEW q \in Slots, Alive(q)' PROVE pgdir'[q] = pgdir'[process'[q]]
    <3>1. CASE q = p
      BY <1>1, <2>5, <3>1, Zenon
    <3>2. CASE q # p
      <4>1. Alive(q) /\ process[q] \in Slots /\ process[q] # p
        BY <1>0, <2>5, <2>9, <2>13, <3>2 DEF LiveThreads, IInv, GroupOK
      <4> QED
        BY <1>1, <2>4, <2>8, <3>2, <4>1, Zenon
    <3> QED
      BY <3>1, <3>2, Zenon
  <2>14. ASSUME NEW q \in Slots, pc'[q] \in {"clone3", "clone4"} PROVE pgdir'[np'[q]] = pgdir'[q]
    <3>1. pc[q] \in {"clone3", "clone4"} /\ np'[q] = np[q] /\ q # p
      BY <1>1, <2>9, <2>14, Zenon DEF Creating
    <3>2. np[q] \in Slots /\ np[q] # p
      BY <1>0, <2>5, <3>1 DEF IInv, CreateOK, Creating, Alive
    <3>3. pgdir[np[q]] = pgdir[q]
      BY <2>8, <3>1, Zenon
    <3>4. pgdir'[np[q]] = pgdir[np[q]] /\ pgdir'[q] = pgdir[q]
      BY <2>4, <3>1, <3>2, Zenon
    <3> QED
      BY <3>1, <3>3, <3>4
  <2>15. pgs' = {pgdir'[q] : q \in Owners'}
    <3>1. ASSUME NEW g \in pgs' PROVE g \in {pgdir'[q] : q \in Owners}
      <4>1. CASE g = a
        BY <2>4, <2>7, <4>1, Zenon
      <4>2. CASE g # a
        <5>1. PICK q \in Owners : g = pgdir[q] /\ q # p
          BY <2>1, <2>8, <3>1, <4>2, SMTT(30)
        <5> QED
          BY <2>4, <2>10, <5>1, Zenon
      <4> QED
        BY <4>1, <4>2, Zenon
    <3>2. ASSUME NEW q \in Owners PROVE pgdir'[q] \in pgs'
      <4>1. a # pgdir[p]
        BY <2>2, <2>7, <2>8
      <4>2. CASE q = p
        BY <2>1, <2>4, <4>1, <4>2, SMTT(30)
      <4>3. CASE q # p
        BY <2>1, <2>4, <2>7, <2>8, <2>10, <4>3, SMTT(30)
      <4> QED
        BY <4>2, <4>3, Zenon
    <3> QED
      BY <2>9, <3>1, <3>2, Zenon
  <2>16. ASSUME NEW q \in Owners', NEW r \in Owners', pgdir'[q] = pgdir'[r] PROVE q = r
    <3>1. q \in Owners /\ r \in Owners /\ q \in Slots /\ r \in Slots
      BY <2>9, <2>10, <2>16, Zenon
    <3>2. pgdir[q] # a /\ pgdir[r] # a
      BY <2>2, <2>8, <3>1
    <3>3. pgdir[q] = pgdir[r] => q = r
      BY <2>8, <3>1, Zenon
    <3> QED
      BY <2>4, <2>16, <3>1, <3>2, <3>3, Zenon
  <2>17. \A q \in Slots : Raw(q)' \/ process'[q] # q \/ state'[q] = "ZOMBIE" => ~cwd'[q]
    BY <1>1, <2>8, <2>9, Zenon
  <2>18. MemOK'
    BY <2>11, <2>12, <2>13, <2>14, <2>15, <2>16, <2>17, Zenon DEF MemOK
  <2>19. InitOK' /\ LeaderOK' /\ WaitOK' /\ EmbryoOK' /\ ParentOK' /\ TgidOK'
    BY <1>1, <1>2, <1>4, CalmProper, CalmFamily, Zenon
  <2>20. LastOK'
    <3>1. \A q \in Slots \ {p} : pc'[q] = pc[q]
      BY <1>2, Zenon DEF Calm
    <3> QED
      BY <1>1, <1>3, <3>1 DEF FInv, LastOK
  <2> QED
    BY <1>1, <2>18, <2>19, <2>20, Zenon DEF FInv, NoUndead
<1> QED
  BY <1>5, <1>6, Zenon

(* A step that changes nothing keeps everything in order. *)
LEMMA StutterF ==
  ASSUME FInv, XInv', UNCHANGED vars
  PROVE  FInv'
<1>1. UNCHANGED <<state, pid, tgid, process, parent, killed, pgdir, pgs, cwd, pc, np, panicked>>
  BY Zenon DEF vars, ids, mem, locals
<1>2. \A q \in Slots : /\ Alive(q)' <=> Alive(q)
                       /\ Exists(q)' <=> Exists(q)
                       /\ Raw(q)' <=> Raw(q)
  BY <1>1, Zenon DEF Alive, Exists, Raw
<1>3. Owners' = Owners
  BY <1>1, <1>2, Zenon DEF Owners
<1>4. InitOK' /\ LeaderOK' /\ WaitOK' /\ EmbryoOK' /\ LastOK' /\ NoUndead'
  BY <1>1, ZenonT(60) DEF FInv, InitOK, LeaderOK, WaitOK, EmbryoOK, LastOK, NoUndead, Alive
<1>5. ParentOK'
  <2>1. /\ \A q \in Slots : state'[q] = "UNUSED" => parent'[q] = 0
        /\ \A q \in Slots : pc'[q] \in {"fork2", "fork3", "clone2", "clone3"} => parent'[np'[q]] = 0
        /\ \A q \in Slots : pc'[q] = "fork4" => parent'[np'[q]] = process'[q]
    BY <1>1, Zenon DEF FInv, ParentOK
  <2>2. ASSUME NEW q \in Slots \ {initproc}, Exists(q)', process'[q] = q
        PROVE  parent'[q] \in Slots /\ Alive(parent[q])' /\ process'[parent'[q]] = parent'[q]
    <3>1. parent[q] \in Slots /\ Alive(parent[q]) /\ process[parent[q]] = parent[q]
      BY <1>1, <1>2, <2>2, Zenon DEF FInv, ParentOK
    <3> QED
      BY <1>1, <3>1, Zenon DEF Alive
  <2> QED
    BY <2>1, <2>2, Zenon DEF ParentOK
<1>6. TgidOK'
  <2>1. ASSUME NEW q \in Slots, Exists(q)'
        PROVE  /\ tgid'[q] # 0 /\ process'[q] \in Slots
               /\ Exists(process[q])' /\ process'[process'[q]] = process'[q]
    <3>1. /\ tgid[q] # 0 /\ process[q] \in Slots
          /\ Exists(process[q]) /\ process[process[q]] = process[q]
      BY <1>2, <2>1, ZenonT(60) DEF FInv, TgidOK
    <3> QED
      BY <1>1, <3>1, Zenon DEF Exists
  <2>2. \A q, r \in Slots : Exists(q)' /\ Exists(r)' => (tgid'[q] = tgid'[r] <=> process'[q] = process'[r])
    BY <1>1, <1>2, SMTT(30) DEF FInv, TgidOK
  <2>3. \A q, r \in Slots : q # r /\ Raw(q)' /\ tgid'[q] # 0 => tgid'[r] # tgid'[q]
    BY <1>1, <1>2 DEF FInv, TgidOK
  <2> QED
    BY <2>1, <2>2, <2>3, Zenon DEF TgidOK
<1>7. MemOK'
  <2>1. MemOK
    BY Zenon DEF FInv
  <2>2. \A q \in Owners' : pid'[q] = tgid'[q] /\ pgdir'[q] # 0
    BY <1>1, <1>3, <2>1, Zenon DEF MemOK
  <2>3. \A q \in Slots : Raw(q)' => pgdir'[q] = 0
    BY <1>1, <1>2, <2>1, Zenon DEF MemOK
  <2>4. \A q \in Slots : Alive(q)' => pgdir'[q] = pgdir'[process'[q]]
    BY <1>1, <1>2, <2>1, Zenon DEF MemOK
  <2>5. \A q \in Slots : pc'[q] \in {"clone3", "clone4"} => pgdir'[np'[q]] = pgdir'[q]
    BY <1>1, <2>1, Zenon DEF MemOK
  <2>6. pgs' = {pgdir'[q] : q \in Owners'}
    BY <1>1, <1>3, <2>1 DEF MemOK
  <2>7. \A q, r \in Owners' : pgdir'[q] = pgdir'[r] => q = r
    BY <1>1, <1>3, <2>1, ZenonT(60) DEF MemOK
  <2>8. \A q \in Slots : Raw(q)' \/ process'[q] # q \/ state'[q] = "ZOMBIE" => ~cwd'[q]
    BY <1>1, <1>2, <2>1, Zenon DEF MemOK
  <2> QED
    BY <2>2, <2>3, <2>4, <2>5, <2>6, <2>7, <2>8, Zenon DEF MemOK
<1> QED
  BY <1>4, <1>5, <1>6, <1>7, Zenon DEF FInv

-----------------------------------------------------------------------------
(* A step in which no thread starts, and no live thread changes its group  *)
(* or loses its mark.                                                      *)
NoBirth ==
  \A q \in Slots : Alive(q)' => /\ Alive(q) /\ process'[q] = process[q]
                                /\ killed[q] => killed'[q]

(* A step in which the ids of the threads that exist stay. *)
IdsKept ==
  /\ nextpid' = nextpid
  /\ \A q \in Slots :
       /\ pid'[q] \in {0, pid[q]} /\ tgid'[q] \in {0, tgid[q]}
       /\ Alive(q)' \/ state'[q] = "EMBRYO" => pid'[q] = pid[q] /\ tgid'[q] = tgid[q]
       /\ state'[q] = "EMBRYO" => state[q] = "EMBRYO"
  /\ \A p \in Slots : pc'[p] \in {"fork3", "fork4"} => pc[p] \in {"fork3", "fork4"} /\ np'[p] = np[p]

(* Such steps keep the ids in order. *)
LEMMA IdFrame ==
  ASSUME IInv, IInv', IdOK, NoBirth, IdsKept
  PROVE  IdOK'
<1>1. \A p \in Slots : pc'[p] \in {"fork3", "fork4"} => np'[p] \in Slots /\ state'[np'[p]] = "EMBRYO"
  BY Zenon DEF IInv, CreateOK, Creating
<1>2. /\ \A q \in Slots : pid[q] \in Nat /\ tgid[q] \in Nat
      /\ nextpid \in Nat
  BY Zenon DEF IInv, TypeOK
<1>3. \A q \in Slots : pid'[q] < nextpid' /\ tgid'[q] < nextpid'
  BY <1>2 DEF IdOK, IdsKept
<1>4. \A q \in Slots : state'[q] = "EMBRYO" => pid'[q] # 0
  BY DEF IdOK, IdsKept
<1>5. ASSUME NEW p \in Slots, NEW q \in Slots
      PROVE  /\ p # q /\ (Alive(p)' \/ state'[p] = "EMBRYO") /\ (Alive(q)' \/ state'[q] = "EMBRYO")
                  => pid'[p] # pid'[q]
             /\ p # q /\ state'[p] = "EMBRYO" => tgid'[q] # pid'[p]
             /\ Alive(p)' /\ Alive(q)' /\ pid'[p] = tgid'[q] => process'[p] = process'[q]
             /\ Alive(p)' /\ Alive(q)' /\ tgid'[p] = tgid'[q] => process'[p] = process'[q]
  BY DEF IdOK, IdsKept, NoBirth
<1>6. \A p \in Slots : pc'[p] \in {"fork3", "fork4"} => tgid'[np'[p]] = pid'[np'[p]]
  BY <1>1 DEF IdOK, IdsKept
<1> QED
  BY <1>3, <1>4, <1>5, <1>6, Zenon DEF IdOK

(* Such steps leave the threads that exec has marked, marked. *)
LEMMA MarksFrame ==
  ASSUME IInv, IInv', ExecMarksAll, NoBirth,
         \A p \in Slots : pc'[p] = "exec2" => pc[p] = "exec2"
  PROVE  ExecMarksAll'
<1> SUFFICES ASSUME NEW p \in Slots, pc'[p] = "exec2", NEW q \in LiveThreads(process[p])', q # p
             PROVE  killed'[q]
  BY Zenon DEF ExecMarksAll, LiveThreads
<1>1. Alive(p)' /\ Alive(q)' /\ process'[q] = process'[p] /\ q \in Slots
  BY Zenon DEF IInv, PcOK, LiveThreads
<1>2. Alive(q) /\ process[q] = process[p] /\ (killed[q] => killed'[q])
  BY <1>1, Zenon DEF NoBirth
<1> QED
  BY <1>1, <1>2, Zenon DEF ExecMarksAll, LiveThreads

(* A step that puts nobody to sleep in park and delivers no unpark. *)
LEMMA ParkFrame ==
  ASSUME IInv', ParkLosesNoWakeup,
         \A q \in Slots : pc'[q] = "parked" /\ state'[q] = "SLEEPING" =>
            /\ pc[q] = "parked" /\ state[q] = "SLEEPING" /\ chan'[q] = chan[q]
            /\ lostwakeup'[q] \in {0, lostwakeup[q]}
  PROVE  ParkLosesNoWakeup'
<1>1. 0 \notin Chans
  BY ChansAssumption, NPROCAssumption DEF Ptr
<1> QED
  BY <1>1, Zenon DEF ParkLosesNoWakeup

(* A step in which nobody starts to wait for a thread, and the joiners and *)
(* the slots they hold keep their ids and groups.                          *)
JoinKept ==
  \A p \in Slots : pc'[p] = "join" =>
     /\ pc[p] = "join" /\ tmp'[p] = tmp[p] /\ np'[p] = np[p]
     /\ process'[p] = process[p] /\ tgid'[p] = tgid[p]
     /\ np[p] # 0 => pid'[np[p]] = pid[np[p]] /\ tgid'[np[p]] = tgid[np[p]]
                     /\ process'[np[p]] = process[np[p]]

(* Such a step keeps the joiners in order. *)
LEMMA JoinFrame ==
  ASSUME JoinOK, JoinKept
  PROVE  JoinOK'
<1> SUFFICES ASSUME "one_joiner" \in Rules PROVE JoinersOK' /\ JoinKeepsTarget'
  BY Zenon DEF JoinOK
<1>1. JoinersOK'
  BY DEF JoinOK, JoinersOK, JoinKept
<1>2. JoinKeepsTarget'
  <2> SUFFICES ASSUME NEW p \in Slots, pc'[p] = "join", np'[p] # 0
               PROVE  pid'[np'[p]] = tmp'[p] /\ SameGroup(p, np[p])' /\ np'[p] = np[p]
    BY Zenon DEF JoinKeepsTarget, SameGroup
  <2>1. pid[np[p]] = tmp[p] /\ SameGroup(p, np[p])
    BY Zenon DEF JoinKept, JoinOK, JoinKeepsTarget
  <2> QED
    BY <2>1, Zenon DEF JoinKept, SameGroup
<1> QED
  BY <1>1, <1>2, Zenon

(* A step that leaves the raw slots raw. *)
LEMMA RawFrame ==
  ASSUME RawOK, \A q \in Slots : Raw(q)' => (Raw(q) /\ process'[q] = process[q]) \/ process'[q] \in {0, q}
  PROVE  RawOK'
  BY Zenon DEF RawOK

(* A calm step of a thread that leaves its call preserves everything.      *)
LEMMA CalmFrame ==
  ASSUME XInv, IInv', NEW p \in Slots, Calm(p)
  PROVE  /\ IdOK' /\ RawOK' /\ NoBirth
         /\ Leaves(p) => ExecMarksAll' /\ NpOK' /\ JoinOK'
<1>1. NoBirth /\ IdsKept
  BY Zenon DEF Calm, NoBirth, IdsKept, Alive, Creating
<1>2. IdOK'
  BY <1>1, IdFrame, Zenon DEF XInv
<1>3. \A q \in Slots : Raw(q)' => Raw(q) /\ process'[q] = process[q]
  BY Zenon DEF Calm, Raw, Creating
<1>4. RawOK'
  BY <1>3, RawFrame, Zenon DEF XInv
<1>5. ASSUME Leaves(p) PROVE ExecMarksAll'
  BY <1>1, <1>5, MarksFrame, Zenon DEF XInv, Calm, Leaves
<1>6. ASSUME Leaves(p) PROVE NpOK'
  BY <1>6, Zenon DEF XInv, NpOK, Calm, Leaves
<1>7. ASSUME Leaves(p) PROVE JoinOK'
  <2>1. JoinKept
    BY <1>7, Zenon DEF JoinKept, Calm, Leaves
  <2> QED
    BY <2>1, JoinFrame, Zenon DEF XInv
<1> QED
  BY <1>1, <1>2, <1>4, <1>5, <1>6, <1>7, Zenon

-----------------------------------------------------------------------------
(* The slot that a thread in join holds is in use and of its group. *)
LEMMA HeldSlot ==
  ASSUME XInv, "one_joiner" \in Rules, NEW p \in Slots, pc[p] = "join", np[p] # 0
  PROVE  /\ Alive(p) /\ np[p] \in Slots /\ ~Raw(np[p])
         /\ pid[np[p]] = tmp[p] /\ tgid[np[p]] = tgid[p] /\ process[np[p]] = process[p]
<1>1. Alive(p) /\ np[p] \in Slots
  <2>1. np[p] \in Ptr /\ Alive(p)
    BY Zenon DEF XInv, IInv, TypeOK, PcOK
  <2> QED
    BY <2>1, NPROCAssumption DEF Ptr, Slots
<1>2. pid[np[p]] = tmp[p] /\ tgid[np[p]] = tgid[p] /\ process[np[p]] = process[p]
  BY Zenon DEF XInv, JoinOK, JoinKeepsTarget, SameGroup
<1>3. process[p] \in Slots /\ state[process[p]] \notin {"UNUSED", "EMBRYO"}
  BY <1>1, Zenon DEF XInv, IInv, GroupOK
<1>4. ASSUME Raw(np[p]) PROVE FALSE
  <2>1. process[np[p]] \in {0, np[p]}
    BY <1>1, <1>4, Zenon DEF XInv, RawOK
  <2>2. process[p] = np[p]
    BY <1>2, <1>3, <2>1 DEF Slots
  <2>3. state[np[p]] \in {"UNUSED", "EMBRYO"}
    BY <1>4, Zenon DEF Raw, XInv, IInv, CreateOK, Creating
  <2> QED
    BY <1>3, <2>2, <2>3, Zenon
<1> QED
  BY <1>1, <1>2, <1>4, Zenon

(* join and exec *)
LEMMA JoinCallX ==
  ASSUME XInv, IInv', NEW p \in Slots, NEW x \in 1..MaxPid, JoinCall(p, x)
  PROVE  IdOK' /\ RawOK' /\ ExecMarksAll' /\ NpOK' /\ JoinOK'
<1>0. pc \in [Slots -> Pcs] /\ tmp \in [Slots -> Nat]
  BY Zenon DEF XInv, IInv, TypeOK
<1>1. /\ UNCHANGED <<pid, tgid, process, nextpid, state, killed, np>>
      /\ pc[p] = "user" /\ pc' = [pc EXCEPT ![p] = "join"] /\ tmp' = [tmp EXCEPT ![p] = x]
      /\ MayJoin(p, x)
  BY Zenon DEF JoinCall, At, GoTo, ids
<1>2. /\ pc'[p] = "join" /\ tmp'[p] = x
      /\ \A q \in Slots \ {p} : pc'[q] = pc[q] /\ tmp'[q] = tmp[q]
  BY <1>0, <1>1, Zenon
<1>3. Calm(p)
  BY <1>1, <1>2, Zenon DEF Calm, Creating
<1>4. IdOK' /\ RawOK' /\ NoBirth
  BY <1>3, CalmFrame, Zenon
<1>5. ExecMarksAll'
  BY <1>2, <1>4, MarksFrame, Zenon DEF XInv
<1>6. NpOK'
  BY <1>1, <1>2, Zenon DEF XInv, NpOK
<1>7. JoinOK'
  <2> SUFFICES ASSUME "one_joiner" \in Rules PROVE JoinersOK' /\ JoinKeepsTarget'
    BY Zenon DEF JoinOK
  <2>1. ASSUME NEW q \in Slots, q # p, pc[q] = "join", process[q] = process[p] PROVE tmp[q] # x
    <3>1. q \in Siblings(p)
      BY <2>1, Zenon DEF Siblings, XInv, IInv, PcOK
    <3> QED
      BY <1>1, <2>1, <3>1, Zenon DEF MayJoin
  <2>2. JoinersOK'
    BY <1>1, <1>2, <2>1 DEF JoinersOK, XInv, JoinOK
  <2>3. np[p] = 0
    BY <1>1, Zenon DEF XInv, NpOK, Creating
  <2>4. JoinKeepsTarget'
    BY <1>1, <1>2, <2>3, ZenonT(60) DEF JoinKeepsTarget, SameGroup, XInv, JoinOK
  <2> QED
    BY <2>2, <2>4, Zenon
<1> QED
  BY <1>4, <1>5, <1>6, <1>7, Zenon

(* join goes to sleep, with the slot of the thread it was asked for. *)
LEMMA JoinSleepX ==
  ASSUME Firsts, XInv, IInv', NEW p \in Slots, JoinSleep(p)
  PROVE  IdOK' /\ RawOK' /\ ExecMarksAll' /\ NpOK' /\ JoinOK'
<1>0. state \in [Slots -> States] /\ np \in [Slots -> Ptr]
  BY Zenon DEF XInv, IInv, TypeOK
<1>1. /\ UNCHANGED <<pid, tgid, process, nextpid, killed, pc, tmp>>
      /\ state[p] = "RUNNABLE" /\ state' = [state EXCEPT ![p] = "SLEEPING"]
      /\ pc[p] = "join" /\ np' = [np EXCEPT ![p] = JoinTarget(p)] /\ Joinable(p)
  BY Zenon DEF JoinSleep, Sleep, At, ids
<1>2. /\ np'[p] = JoinTarget(p) /\ \A q \in Slots \ {p} : np'[q] = np[q]
      /\ \A q \in Slots : \/ state'[q] = state[q]
                          \/ state[q] \in {"SLEEPING", "RUNNABLE"} /\ state'[q] \in {"SLEEPING", "RUNNABLE"}
  BY <1>0, <1>1, Zenon
<1>3. Calm(p)
  BY <1>1, <1>2, Zenon DEF Calm, Creating
<1>4. IdOK' /\ RawOK' /\ NoBirth
  BY <1>3, CalmFrame, Zenon
<1>5. ExecMarksAll'
  BY <1>1, <1>4, MarksFrame, Zenon DEF XInv
<1>6. NpOK'
  BY <1>1, <1>2, Zenon DEF XInv, NpOK
<1>7. JoinOK'
  <2> SUFFICES ASSUME "one_joiner" \in Rules PROVE JoinersOK' /\ JoinKeepsTarget'
    BY Zenon DEF JoinOK
  <2>1. JoinersOK'
    BY <1>1, Zenon DEF JoinersOK, XInv, JoinOK
  <2>2. pid[JoinTarget(p)] = tmp[p] /\ SameGroup(p, JoinTarget(p))
    <3>1. CASE np[p] = 0
      <4>1. WithPid(tmp[p]) # {} /\ SameGroup(p, First(WithPid(tmp[p])))
        BY <1>1, <3>1, Zenon DEF Joinable
      <4>2. First(WithPid(tmp[p])) \in WithPid(tmp[p])
        BY <4>1, NPROCAssumption DEF Firsts, WithPid, Slots
      <4> QED
        BY <3>1, <4>1, <4>2, Zenon DEF JoinTarget, WithPid
    <3>2. CASE np[p] # 0
      BY <1>1, <3>2, Zenon DEF JoinTarget, XInv, JoinOK, JoinKeepsTarget
    <3> QED
      BY <3>1, <3>2, Zenon
  <2>3. JoinKeepsTarget'
    <3> HIDE DEF JoinTarget
    <3> QED
      BY <1>1, <1>2, <2>2 DEF JoinKeepsTarget, SameGroup, XInv, JoinOK
  <2> QED
    BY <2>1, <2>3, Zenon
<1> QED
  BY <1>4, <1>5, <1>6, <1>7, Zenon

(* exec marks every other thread of the group, since their ids differ. *)
LEMMA ExecKillX ==
  ASSUME XInv, IInv', NEW p \in Slots, ExecKill(p)
  PROVE  IdOK' /\ RawOK' /\ ExecMarksAll' /\ NpOK' /\ JoinOK'
<1> DEFINE others == {q \in Slots : tgid[q] = tgid[p] /\ pid[q] # pid[p]}
<1>0. state \in [Slots -> States] /\ pc \in [Slots -> Pcs] /\ killed \in [Slots -> BOOLEAN]
  BY Zenon DEF XInv, IInv, TypeOK
<1>1. /\ UNCHANGED <<pid, tgid, process, nextpid, np, tmp>> /\ pc[p] = "exec"
      /\ \/ pc' = [pc EXCEPT ![p] = "user"] /\ UNCHANGED <<state, killed>>
         \/ /\ pc' = [pc EXCEPT ![p] = "exec2"]
            /\ killed' = [q \in Slots |-> killed[q] \/ q \in others]
            /\ state' = [q \in Slots |-> IF q \in others /\ state[q] = "SLEEPING"
                                         THEN "RUNNABLE" ELSE state[q]]
  BY Zenon DEF ExecKill, At, GoTo, ids, locals
<1> HIDE DEF others
<1>2. /\ \A q \in Slots \ {p} : pc'[q] = pc[q]
      /\ pc'[p] \in {"user", "exec2"}
      /\ \A q \in Slots : killed[q] => killed'[q]
      /\ \A q \in Slots : \/ state'[q] = state[q]
                          \/ state[q] \in {"SLEEPING", "RUNNABLE"} /\ state'[q] \in {"SLEEPING", "RUNNABLE"}
      /\ pc'[p] = "exec2" => \A q \in others : q \in Slots => killed'[q]
  BY <1>0, <1>1, Zenon
<1>3. Calm(p)
  BY <1>1, <1>2, Zenon DEF Calm, Creating
<1>4. IdOK' /\ RawOK' /\ NoBirth
  BY <1>3, CalmFrame, Zenon
<1>5. np[p] = 0
  BY <1>1, Zenon DEF XInv, NpOK, Creating
<1>6. NpOK'
  BY <1>1, <1>2, <1>5, Zenon DEF XInv, NpOK
<1>7. JoinOK'
  <2>1. JoinKept
    BY <1>1, <1>2, Zenon DEF JoinKept
  <2> QED
    BY <2>1, JoinFrame, Zenon DEF XInv
<1>8. ExecMarksAll'
  <2> SUFFICES ASSUME NEW r \in Slots, pc'[r] = "exec2", NEW q \in LiveThreads(process[r])', q # r
               PROVE  killed'[q]
    BY Zenon DEF ExecMarksAll
  <2>1. Alive(r) /\ Alive(q) /\ process[q] = process[r] /\ q \in Slots /\ (killed[q] => killed'[q])
    BY <1>1, <1>4, Zenon DEF NoBirth, LiveThreads, IInv, PcOK
  <2>2. CASE r = p
    <3>1. tgid[q] = tgid[p]
      BY <2>1, <2>2 DEF XInv, IInv, GroupOK
    <3>2. pid[q] # pid[p]
      BY <2>1, <2>2, Zenon DEF XInv, IdOK
    <3>3. q \in others
      BY <2>1, <3>1, <3>2, Zenon DEF others
    <3> QED
      BY <1>2, <2>1, <2>2, <3>3, ZenonT(60)
  <2>3. CASE r # p
    BY <1>2, <2>1, <2>3, Zenon DEF XInv, ExecMarksAll, LiveThreads
  <2> QED
    BY <2>2, <2>3, Zenon
<1> QED
  BY <1>4, <1>6, <1>7, <1>8, Zenon

-----------------------------------------------------------------------------
(* fork and clone, and the slots that they fill in. *)

(* The joiners, when a step changes the ids of raw slots only. *)
LEMMA RawJoin ==
  ASSUME XInv,
         \A q \in Slots : ~Raw(q) => pid'[q] = pid[q] /\ tgid'[q] = tgid[q] /\ process'[q] = process[q],
         \A q \in Slots : pc'[q] = "join" => pc[q] = "join" /\ tmp'[q] = tmp[q] /\ np'[q] = np[q]
  PROVE  JoinOK'
<1> SUFFICES ASSUME "one_joiner" \in Rules PROVE JoinOK'
  BY Zenon DEF JoinOK
<1>1. ASSUME NEW q \in Slots, pc[q] = "join" PROVE ~Raw(q)
  <2>1. Alive(q)
    BY <1>1, Zenon DEF XInv, IInv, PcOK
  <2>2. state[q] \notin {"UNUSED", "EMBRYO"}
    BY <2>1, Zenon DEF Alive
  <2>3. Raw(q) => state[q] \in {"UNUSED", "EMBRYO"}
    BY DEF Raw, XInv, IInv, CreateOK, Creating
  <2> QED
    BY <2>2, <2>3, Zenon
<1>2. ASSUME NEW q \in Slots, pc[q] = "join", np[q] # 0 PROVE np[q] \in Slots /\ ~Raw(np[q])
  BY <1>2, HeldSlot, Zenon
<1>3. JoinKept
  BY <1>1, <1>2, Zenon DEF JoinKept
<1> QED
  BY <1>3, JoinFrame, Zenon DEF XInv

(* allocproc: the new id is one that nobody has had. *)
LEMMA AllocX ==
  ASSUME Firsts, XInv, IInv', NEW p \in Slots, NEW next \in {"fork2", "clone2"},
         pc[p] \in {"fork", "clone"}, Allocproc(p, next)
  PROVE  IdOK' /\ RawOK' /\ ExecMarksAll' /\ NpOK' /\ JoinOK'
<1> DEFINE n == First(Unused)
<1>0. /\ state \in [Slots -> States] /\ pc \in [Slots -> Pcs] /\ np \in [Slots -> Ptr]
      /\ pid \in [Slots -> Nat] /\ tgid \in [Slots -> Nat] /\ nextpid \in Nat
  BY Zenon DEF XInv, IInv, TypeOK
<1>1. n \in Slots /\ state[n] = "UNUSED"
  <2>1. Unused # {} /\ Unused \subseteq Nat
    BY NPROCAssumption DEF Allocproc, Unused, Slots
  <2>2. n \in Unused
    BY <2>1, Zenon DEF Firsts
  <2> QED
    BY <2>2, Zenon DEF Unused
<1>2. /\ state' = [state EXCEPT ![n] = "EMBRYO"] /\ pid' = [pid EXCEPT ![n] = nextpid]
      /\ np' = [np EXCEPT ![p] = n] /\ nextpid' = nextpid + 1
      /\ pc' = [pc EXCEPT ![p] = next]
      /\ UNCHANGED <<tgid, process, killed, tmp>>
  BY Zenon DEF Allocproc, GoTo
<1> HIDE DEF n
<1>3. /\ state'[n] = "EMBRYO" /\ pid'[n] = nextpid /\ pc'[p] = next /\ np'[p] = n
      /\ \A q \in Slots \ {n} : state'[q] = state[q] /\ pid'[q] = pid[q]
      /\ \A q \in Slots \ {p} : pc'[q] = pc[q] /\ np'[q] = np[q]
  BY <1>0, <1>1, <1>2, Zenon
<1>4. \A q \in Slots : Alive(q)' <=> Alive(q) /\ q # n
  BY <1>1, <1>3, Zenon DEF Alive
<1>5. NoBirth
  BY <1>2, <1>4, Zenon DEF NoBirth
<1>6. ExecMarksAll'
  BY <1>3, <1>5, MarksFrame, Zenon DEF XInv
<1>7. NpOK'
  BY <1>3, Zenon DEF XInv, NpOK, Creating
<1>8. RawOK'
  <2>1. \A q \in Slots : Raw(q)' => Raw(q)
    BY <1>1, <1>3, ZenonT(60) DEF Raw
  <2> QED
    BY <1>2, <2>1, RawFrame, Zenon DEF XInv
<1>9. JoinOK'
  <2>1. Raw(n)
    BY <1>1, Zenon DEF Raw
  <2> QED
    BY <1>2, <1>3, <2>1, RawJoin, Zenon
<1>10. IdOK'
  <2>1. \A q \in Slots : pid[q] < nextpid /\ tgid[q] < nextpid /\ pid[q] \in Nat /\ tgid[q] \in Nat
    BY <1>0, Zenon DEF XInv, IdOK
  <2>2. \A q \in Slots : pid'[q] < nextpid' /\ tgid'[q] < nextpid'
    BY <1>0, <1>2, <1>3, <2>1
  <2>3. nextpid # 0 /\ \A q \in Slots : pid[q] # nextpid /\ tgid[q] # nextpid
    BY <1>0, <1>1, <2>1, SMTT(30)
  <2>4. \A q \in Slots : state'[q] = "EMBRYO" => pid'[q] # 0
    BY <1>3, <2>3 DEF XInv, IdOK
  <2>5. ASSUME NEW q \in Slots, NEW r \in Slots
        PROVE  /\ q # r /\ (Alive(q)' \/ state'[q] = "EMBRYO") /\ (Alive(r)' \/ state'[r] = "EMBRYO")
                    => pid'[q] # pid'[r]
               /\ q # r /\ state'[q] = "EMBRYO" => tgid'[r] # pid'[q]
               /\ Alive(q)' /\ Alive(r)' /\ pid'[q] = tgid'[r] => process'[q] = process'[r]
               /\ Alive(q)' /\ Alive(r)' /\ tgid'[q] = tgid'[r] => process'[q] = process'[r]
    <3>1. /\ q # r /\ (Alive(q) \/ state[q] = "EMBRYO") /\ (Alive(r) \/ state[r] = "EMBRYO") => pid[q] # pid[r]
          /\ q # r /\ state[q] = "EMBRYO" => tgid[r] # pid[q]
          /\ Alive(q) /\ Alive(r) /\ pid[q] = tgid[r] => process[q] = process[r]
          /\ Alive(q) /\ Alive(r) /\ tgid[q] = tgid[r] => process[q] = process[r]
      BY Zenon DEF XInv, IdOK
    <3>2. /\ Alive(q)' <=> Alive(q) /\ q # n
          /\ Alive(r)' <=> Alive(r) /\ r # n
          /\ tgid' = tgid /\ process' = process
      BY <1>2, <1>4, Zenon
    <3>3. /\ q # n => pid'[q] = pid[q] /\ state'[q] = state[q]
          /\ r # n => pid'[r] = pid[r] /\ state'[r] = state[r]
          /\ pid'[n] = nextpid
      BY <1>3, Zenon
    <3>4. CASE q # n /\ r # n
      BY <3>1, <3>2, <3>3, <3>4, ZenonT(60)
    <3>5. CASE q = n /\ r # n
      BY <2>3, <3>2, <3>3, <3>5, Zenon
    <3>6. CASE q # n /\ r = n
      BY <2>3, <3>1, <3>2, <3>3, <3>6, Zenon
    <3>7. CASE q = n /\ r = n
      BY <3>2, <3>7, Zenon
    <3> QED
      BY <3>4, <3>5, <3>6, <3>7, Zenon
  <2>6. \A q \in Slots : pc'[q] \in {"fork3", "fork4"} => tgid'[np'[q]] = pid'[np'[q]]
    <3>1. ASSUME NEW q \in Slots, pc'[q] \in {"fork3", "fork4"} PROVE tgid'[np'[q]] = pid'[np'[q]]
      <4>1. q # p /\ pc[q] \in {"fork3", "fork4"}
        BY <1>3, <3>1, Zenon
      <4>2. np[q] \in Slots /\ np[q] # n
        BY <1>1, <4>1, Zenon DEF XInv, IInv, CreateOK, Creating
      <4> QED
        BY <1>2, <1>3, <4>1, <4>2, SMTT(30) DEF XInv, IdOK
    <3> QED
      BY <3>1, Zenon
  <2> QED
    BY <2>2, <2>4, <2>5, <2>6, Zenon DEF IdOK
<1> QED
  BY <1>6, <1>7, <1>8, <1>9, <1>10, Zenon

(* A slot that is given back. *)
LEMMA NoStackX ==
  ASSUME XInv, IInv', NEW p \in Slots, NoStack(p)
  PROVE  IdOK' /\ RawOK' /\ ExecMarksAll' /\ NpOK' /\ JoinOK'
<1> DEFINE n == np[p]
<1>0. /\ state \in [Slots -> States] /\ pc \in [Slots -> Pcs] /\ np \in [Slots -> Ptr] /\ tmp \in [Slots -> Nat]
  BY Zenon DEF XInv, IInv, TypeOK
<1>1. /\ pc[p] \in {"fork2", "clone2"} /\ UNCHANGED <<pid, tgid, process, nextpid, killed>>
      /\ state' = [state EXCEPT ![n] = "UNUSED"] /\ np' = [np EXCEPT ![p] = 0]
      /\ \E l \in {"exit", "user"} : pc' = [pc EXCEPT ![p] = l]
      /\ tmp' = tmp \/ tmp' = [tmp EXCEPT ![p] = 0]
  BY Zenon DEF NoStack, Abandon, Return, At, GoTo, ids
<1>2. n \in Slots /\ state[n] = "EMBRYO"
  BY <1>1, Zenon DEF XInv, IInv, CreateOK, Creating
<1> HIDE DEF n
<1>3. /\ state'[n] = "UNUSED" /\ pc'[p] \in {"exit", "user"} /\ np'[p] = 0
      /\ \A q \in Slots \ {n} : state'[q] = state[q]
      /\ \A q \in Slots \ {p} : pc'[q] = pc[q] /\ np'[q] = np[q] /\ tmp'[q] = tmp[q]
  BY <1>0, <1>1, <1>2, Zenon
<1>4. NoBirth /\ IdsKept
  BY <1>1, <1>2, <1>3, Zenon DEF NoBirth, IdsKept, Alive
<1>5. IdOK' /\ ExecMarksAll'
  BY <1>3, <1>4, IdFrame, MarksFrame, Zenon DEF XInv
<1>6. NpOK'
  BY <1>3, Zenon DEF XInv, NpOK
<1>7. RawOK'
  <2>1. Raw(n)
    BY <1>1, Zenon DEF Raw, n
  <2>2. \A q \in Slots : Raw(q)' => Raw(q)
    BY <1>2, <1>3, <2>1, Zenon DEF Raw
  <2> QED
    BY <1>1, <2>2, RawFrame, Zenon DEF XInv
<1>8. JoinOK'
  <2>1. JoinKept
    BY <1>1, <1>3, Zenon DEF JoinKept
  <2> QED
    BY <2>1, JoinFrame, Zenon DEF XInv
<1> QED
  BY <1>5, <1>6, <1>7, <1>8, Zenon

(* The group of a new process. *)
LEMMA ForkGroupX ==
  ASSUME XInv, IInv', NEW p \in Slots, ForkGroup(p)
  PROVE  IdOK' /\ RawOK' /\ ExecMarksAll' /\ NpOK' /\ JoinOK'
<1> DEFINE n == np[p]
<1>0. /\ state \in [Slots -> States] /\ pc \in [Slots -> Pcs] /\ np \in [Slots -> Ptr] /\ tmp \in [Slots -> Nat]
      /\ tgid \in [Slots -> Nat] /\ process \in [Slots -> Ptr]
  BY Zenon DEF XInv, IInv, TypeOK
<1>1. /\ pc[p] = "fork2" /\ UNCHANGED <<pid, nextpid, killed>>
      /\ tgid' = [tgid EXCEPT ![n] = pid[n]] /\ process' = [process EXCEPT ![n] = n]
      /\ \/ UNCHANGED <<state, np, tmp>> /\ pc' = [pc EXCEPT ![p] = "fork3"]
         \/ /\ state' = [state EXCEPT ![n] = "UNUSED"] /\ np' = [np EXCEPT ![p] = 0]
            /\ \E l \in {"exit", "user"} : pc' = [pc EXCEPT ![p] = l]
            /\ tmp' = tmp \/ tmp' = [tmp EXCEPT ![p] = 0]
  BY Zenon DEF ForkGroup, Abandon, Return, At, GoTo, locals
<1>2. n \in Slots /\ state[n] = "EMBRYO"
  BY <1>1, Zenon DEF XInv, IInv, CreateOK, Creating
<1>3. \A q \in Slots \ {p} : pc[q] \in Creating => np[q] # n
  BY <1>1, Zenon DEF XInv, IInv, CreateOK, Creating
<1>4. Raw(n)
  BY <1>1, Zenon DEF Raw
<1>5. /\ tgid'[n] = pid[n] /\ process'[n] = n
      /\ \A q \in Slots \ {n} : tgid'[q] = tgid[q] /\ process'[q] = process[q]
  BY <1>0, <1>1, <1>2, ZenonT(60)
<1>6. /\ \A q \in Slots \ {p} : pc'[q] = pc[q] /\ np'[q] = np[q] /\ tmp'[q] = tmp[q]
      /\ \A q \in Slots \ {n} : state'[q] = state[q]
      /\ \/ pc'[p] = "fork3" /\ np'[p] = n /\ state'[n] = "EMBRYO"
         \/ pc'[p] \in {"exit", "user"} /\ np'[p] = 0 /\ state'[n] = "UNUSED"
  <2> HIDE DEF n
  <2>1. np[p] = n
    BY Zenon DEF n
  <2> QED
    BY <1>0, <1>1, <1>2, <2>1
<1> HIDE DEF n
<1>7. NoBirth
  BY <1>1, <1>2, <1>5, <1>6, Zenon DEF NoBirth, Alive
<1>8. ExecMarksAll'
  BY <1>6, <1>7, MarksFrame, Zenon DEF XInv
<1>9. NpOK'
  BY <1>6, Zenon DEF XInv, NpOK, Creating
<1>10. RawOK'
  <2>1. \A q \in Slots : Raw(q)' => (Raw(q) /\ process'[q] = process[q]) \/ process'[q] \in {0, q}
    BY <1>2, <1>5, <1>6, ZenonT(60) DEF Raw
  <2> QED
    BY <2>1, RawFrame, Zenon DEF XInv
<1>11. JoinOK'
  BY <1>1, <1>4, <1>5, <1>6, RawJoin, Zenon
<1>12. IdOK'
  <2>1. \A q \in Slots : pid'[q] < nextpid' /\ tgid'[q] < nextpid'
    BY <1>1, <1>2, <1>5, SMTT(30) DEF XInv, IdOK
  <2>2. \A q \in Slots : state'[q] = "EMBRYO" => pid'[q] # 0
    BY <1>1, <1>2, <1>6, ZenonT(60) DEF XInv, IdOK
  <2>3. \A q \in Slots : /\ Alive(q)' <=> Alive(q) /\ q # n
                         /\ state'[q] = "EMBRYO" => state[q] = "EMBRYO"
    BY <1>2, <1>6, Zenon DEF Alive
  <2>4. ASSUME NEW q \in Slots, NEW r \in Slots
        PROVE  /\ q # r /\ (Alive(q)' \/ state'[q] = "EMBRYO") /\ (Alive(r)' \/ state'[r] = "EMBRYO")
                    => pid'[q] # pid'[r]
               /\ q # r /\ state'[q] = "EMBRYO" => tgid'[r] # pid'[q]
               /\ Alive(q)' /\ Alive(r)' /\ pid'[q] = tgid'[r] => process'[q] = process'[r]
               /\ Alive(q)' /\ Alive(r)' /\ tgid'[q] = tgid'[r] => process'[q] = process'[r]
    BY <1>1, <1>2, <1>5, <2>3, SMTT(30) DEF XInv, IdOK
  <2>5. ASSUME NEW q \in Slots, pc'[q] \in {"fork3", "fork4"} PROVE tgid'[np'[q]] = pid'[np'[q]]
    <3>1. CASE q = p
      BY <1>1, <1>5, <1>6, <2>5, <3>1, ZenonT(60)
    <3>2. CASE q # p
      <4>1. pc[q] \in {"fork3", "fork4"} /\ np'[q] = np[q] /\ np[q] # n /\ np[q] \in Slots
        BY <1>3, <1>6, <2>5, <3>2, SMTT(30) DEF XInv, IInv, CreateOK, Creating
      <4> QED
        BY <1>1, <1>5, <4>1, SMTT(30) DEF XInv, IdOK
    <3> QED
      BY <3>1, <3>2, Zenon
  <2> QED
    BY <2>1, <2>2, <2>4, <2>5, ZenonT(60) DEF IdOK
<1> QED
  BY <1>8, <1>9, <1>10, <1>11, <1>12, Zenon

(* The group of a new thread. *)
LEMMA CloneGroupX ==
  ASSUME XInv, IInv', NEW p \in Slots, CloneGroup(p)
  PROVE  IdOK' /\ RawOK' /\ ExecMarksAll' /\ NpOK' /\ JoinOK'
<1> DEFINE n == np[p]
<1>0. /\ pc \in [Slots -> Pcs] /\ tmp \in [Slots -> Nat]
      /\ tgid \in [Slots -> Nat] /\ process \in [Slots -> Ptr]
  BY Zenon DEF XInv, IInv, TypeOK
<1>1. /\ pc[p] = "clone2" /\ UNCHANGED <<pid, nextpid, killed, state, np>>
      /\ tgid' = [tgid EXCEPT ![n] = tgid[p]] /\ process' = [process EXCEPT ![n] = process[p]]
      /\ pc' = [pc EXCEPT ![p] = "clone3"] /\ \E x : tmp' = [tmp EXCEPT ![p] = x]
  BY Zenon DEF CloneGroup, At, GoTo
<1>2. n \in Slots /\ state[n] = "EMBRYO" /\ n # p
  BY <1>1, Zenon DEF XInv, IInv, CreateOK, Creating, PcOK, Alive
<1>3. \A q \in Slots \ {p} : pc[q] \in Creating => np[q] # n
  BY <1>1, Zenon DEF XInv, IInv, CreateOK, Creating
<1>4. Raw(n)
  BY <1>1, Zenon DEF Raw
<1>5. /\ tgid'[n] = tgid[p] /\ process'[n] = process[p]
      /\ \A q \in Slots \ {n} : tgid'[q] = tgid[q] /\ process'[q] = process[q]
  BY <1>0, <1>1, <1>2, Zenon
<1>6. \A q \in Slots \ {p} : pc'[q] = pc[q] /\ tmp'[q] = tmp[q]
  BY <1>0, <1>1, Zenon
<1>7. pc'[p] = "clone3" /\ np[p] = n
  BY <1>0, <1>1, Zenon
<1> HIDE DEF n
<1>8. NoBirth
  BY <1>1, <1>2, <1>5, Zenon DEF NoBirth, Alive
<1>9. ExecMarksAll'
  BY <1>6, <1>7, <1>8, MarksFrame, Zenon DEF XInv
<1>10. NpOK'
  BY <1>1, <1>6, <1>7, Zenon DEF XInv, NpOK, Creating
<1>11. RawOK'
  <2>1. \A q \in Slots : Raw(q)' => Raw(q) /\ q # n
    BY <1>1, <1>2, <1>3, <1>6, <1>7, ZenonT(60) DEF Raw, Creating
  <2>2. \A q \in Slots : Raw(q)' => Raw(q) /\ process'[q] = process[q]
    BY <1>5, <2>1, Zenon
  <2> QED
    BY <2>2, RawFrame, Zenon DEF XInv
<1>12. JoinOK'
  BY <1>1, <1>4, <1>5, <1>6, <1>7, RawJoin, Zenon
<1>13. IdOK'
  <2>1. \A q \in Slots : pid'[q] < nextpid' /\ tgid'[q] < nextpid'
    BY <1>1, <1>2, <1>5, SMTT(30) DEF XInv, IdOK
  <2>2. \A q \in Slots : state'[q] = "EMBRYO" => pid'[q] # 0
    BY <1>1, Zenon DEF XInv, IdOK
  <2>3. \A q \in Slots : Alive(q)' <=> Alive(q) /\ q # n
    BY <1>1, <1>2, Zenon DEF Alive
  <2>4. ASSUME NEW q \in Slots, NEW r \in Slots, q # r, state'[q] = "EMBRYO" PROVE tgid'[r] # pid'[q]
    <3>1. state[q] = "EMBRYO" /\ q # p
      BY <1>1, <2>4, ZenonT(60) DEF XInv, IInv, PcOK, Alive
    <3> QED
      BY <1>1, <1>2, <1>5, <2>4, <3>1, SMTT(30) DEF XInv, IdOK
  <2>5. ASSUME NEW q \in Slots, NEW r \in Slots
        PROVE  /\ q # r /\ (Alive(q)' \/ state'[q] = "EMBRYO") /\ (Alive(r)' \/ state'[r] = "EMBRYO")
                    => pid'[q] # pid'[r]
               /\ Alive(q)' /\ Alive(r)' /\ pid'[q] = tgid'[r] => process'[q] = process'[r]
               /\ Alive(q)' /\ Alive(r)' /\ tgid'[q] = tgid'[r] => process'[q] = process'[r]
    BY <1>1, <1>2, <1>5, <2>3, SMTT(30) DEF XInv, IdOK
  <2>6. ASSUME NEW q \in Slots, pc'[q] \in {"fork3", "fork4"} PROVE tgid'[np'[q]] = pid'[np'[q]]
    <3>1. q # p /\ pc[q] \in {"fork3", "fork4"}
      BY <1>6, <1>7, <2>6, Zenon
    <3>2. np[q] # n /\ np[q] \in Slots
      BY <1>3, <3>1, Zenon DEF XInv, IInv, CreateOK, Creating
    <3> QED
      BY <1>1, <1>5, <3>1, <3>2, ZenonT(60) DEF XInv, IdOK
  <2> QED
    BY <2>1, <2>2, <2>4, <2>5, <2>6, ZenonT(60) DEF IdOK
<1> QED
  BY <1>9, <1>10, <1>11, <1>12, <1>13, Zenon

(* The parent of a new thread is no concern of these invariants. *)
LEMMA ParentX ==
  ASSUME XInv, IInv', NEW p \in Slots, ForkParent(p) \/ CloneParent(p)
  PROVE  IdOK' /\ RawOK' /\ ExecMarksAll' /\ NpOK' /\ JoinOK'
<1>0. pc \in [Slots -> Pcs]
  BY Zenon DEF XInv, IInv, TypeOK
<1>1. /\ UNCHANGED <<pid, tgid, process, nextpid, killed, state, np, tmp>>
      /\ \/ pc[p] = "fork3" /\ pc' = [pc EXCEPT ![p] = "fork4"]
         \/ pc[p] = "clone3" /\ pc' = [pc EXCEPT ![p] = "clone4"]
  BY Zenon DEF ForkParent, CloneParent, At, GoTo, locals
<1>2. /\ \A q \in Slots \ {p} : pc'[q] = pc[q]
      /\ \/ pc[p] = "fork3" /\ pc'[p] = "fork4"
         \/ pc[p] = "clone3" /\ pc'[p] = "clone4"
  BY <1>0, <1>1, Zenon
<1>3. NoBirth /\ IdsKept
  <2>1. \A q \in Slots : pc'[q] \in {"fork3", "fork4"} => pc[q] \in {"fork3", "fork4"}
    BY <1>2, Zenon
  <2> QED
    BY <1>1, <2>1, Zenon DEF NoBirth, IdsKept, Alive
<1>4. IdOK' /\ ExecMarksAll'
  BY <1>2, <1>3, IdFrame, MarksFrame, Zenon DEF XInv
<1>5. NpOK'
  BY <1>1, <1>2, Zenon DEF XInv, NpOK, Creating
<1>6. RawOK'
  <2>1. \A q \in Slots : Raw(q)' => Raw(q) /\ process'[q] = process[q]
    BY <1>1, <1>2, Zenon DEF Raw
  <2> QED
    BY <2>1, RawFrame, Zenon DEF XInv
<1>7. JoinOK'
  <2>1. JoinKept
    BY <1>1, <1>2, Zenon DEF JoinKept
  <2> QED
    BY <2>1, JoinFrame, Zenon DEF XInv
<1> QED
  BY <1>4, <1>5, <1>6, <1>7, Zenon

(* What fork and clone do when they make the new thread n RUNNABLE. *)
Starts(p, n) ==
  /\ UNCHANGED <<pid, tgid, process, nextpid, killed>>
  /\ n \in Slots /\ n # p /\ state[n] = "EMBRYO" /\ pc[n] = "none" /\ np[n] = 0
  /\ state'[n] = "RUNNABLE" /\ \A q \in Slots \ {n} : state'[q] = state[q]
  /\ pc'[n] = "user" /\ pc'[p] = "user" /\ np'[n] = 0 /\ np'[p] = 0
  /\ \A q \in Slots \ {n, p} : pc'[q] = pc[q] /\ np'[q] = np[q] /\ tmp'[q] = tmp[q]

(* The new thread has an id of its own; that its group is one that no exec *)
(* has marked is left to the two calls.                                    *)
LEMMA StartX ==
  ASSUME XInv, IInv', NEW p \in Slots, NEW n, Starts(p, n),
         \/ tgid[n] = pid[n]
         \/ tgid[n] = tgid[p] /\ process[n] = process[p] /\ Alive(p),
         \A r \in Slots : pc[r] = "exec2" => process[r] # process[n]
  PROVE  IdOK' /\ RawOK' /\ ExecMarksAll' /\ NpOK' /\ JoinOK'
<1> USE DEF Starts
<1>1. \A q \in Slots : Alive(q)' <=> Alive(q) \/ q = n
  BY Zenon DEF Alive
<1>2. \A q \in Slots : state'[q] = "EMBRYO" => state[q] = "EMBRYO" /\ q # n
  BY Zenon
<1>3. IdOK'
  <2>1. \A q \in Slots : /\ pid'[q] < nextpid' /\ tgid'[q] < nextpid'
                         /\ state'[q] = "EMBRYO" => pid'[q] # 0
    BY <1>2, Zenon DEF XInv, IdOK
  <2>2. ASSUME NEW q \in Slots, NEW r \in Slots
        PROVE  /\ q # r /\ (Alive(q)' \/ state'[q] = "EMBRYO") /\ (Alive(r)' \/ state'[r] = "EMBRYO")
                    => pid'[q] # pid'[r]
               /\ q # r /\ state'[q] = "EMBRYO" => tgid'[r] # pid'[q]
    BY <1>1, <1>2, SMTT(30) DEF XInv, IdOK
  <2>3. ASSUME NEW q \in Slots, NEW r \in Slots, Alive(q)', Alive(r)'
        PROVE  /\ pid'[q] = tgid'[r] => process'[q] = process'[r]
               /\ tgid'[q] = tgid'[r] => process'[q] = process'[r]
    BY <1>1, <2>3, SMTT(30) DEF XInv, IdOK
  <2>4. ASSUME NEW q \in Slots, pc'[q] \in {"fork3", "fork4"} PROVE tgid'[np'[q]] = pid'[np'[q]]
    BY <2>4 DEF XInv, IdOK
  <2> QED
    BY <2>1, <2>2, <2>3, <2>4, ZenonT(60) DEF IdOK
<1>4. RawOK'
  <2>1. \A q \in Slots : Raw(q)' => Raw(q) /\ process'[q] = process[q]
    BY Zenon DEF Raw
  <2> QED
    BY <2>1, RawFrame, Zenon DEF XInv
<1>5. ExecMarksAll'
  <2> SUFFICES ASSUME NEW r \in Slots, pc'[r] = "exec2", NEW q \in LiveThreads(process[r])', q # r
               PROVE  killed'[q]
    BY Zenon DEF ExecMarksAll
  <2>1. pc[r] = "exec2" /\ process[q] = process[r] /\ q \in Slots /\ (Alive(q) \/ q = n)
    BY <1>1, Zenon DEF LiveThreads
  <2>2. q # n
    BY <2>1, Zenon
  <2> QED
    BY <2>1, <2>2, Zenon DEF XInv, ExecMarksAll, LiveThreads
<1>6. NpOK'
  BY Zenon DEF XInv, NpOK
<1>7. JoinOK'
  <2>1. JoinKept
    BY Zenon DEF JoinKept
  <2> QED
    BY <2>1, JoinFrame, Zenon DEF XInv
<1> QED
  BY <1>3, <1>4, <1>5, <1>6, <1>7, Zenon

(* The first thread of a new process starts. *)
LEMMA ForkCommitX ==
  ASSUME XInv, IInv', NEW p \in Slots, ForkCommit(p)
  PROVE  IdOK' /\ RawOK' /\ ExecMarksAll' /\ NpOK' /\ JoinOK'
<1> DEFINE n == np[p]
<1>0. /\ state \in [Slots -> States] /\ pc \in [Slots -> Pcs] /\ np \in [Slots -> Ptr] /\ tmp \in [Slots -> Nat]
  BY Zenon DEF XInv, IInv, TypeOK
<1>1. /\ pc[p] = "fork4" /\ UNCHANGED <<pid, tgid, process, nextpid, killed>>
      /\ state' = [state EXCEPT ![n] = "RUNNABLE"]
      /\ pc' = [pc EXCEPT ![p] = "user", ![n] = "user"]
      /\ np' = [np EXCEPT ![p] = 0] /\ \E x : tmp' = [tmp EXCEPT ![p] = x]
  BY Zenon DEF ForkCommit, At, ids
<1>2. n \in Slots /\ state[n] = "EMBRYO" /\ process[n] = n /\ tgid[n] = pid[n]
  BY <1>1, Zenon DEF XInv, IInv, CreateOK, NewOK, IdOK, Creating
<1>3. pc[n] = "none" /\ n # p
  BY <1>1, <1>2, Zenon DEF XInv, IInv, PcOK, Alive
<1>4. np[n] = 0
  BY <1>2, <1>3, Zenon DEF XInv, NpOK, Creating
<1>5. Starts(p, n)
  <2> HIDE DEF n
  <2> QED
    BY <1>0, <1>1, <1>2, <1>3, <1>4, Zenon DEF Starts
<1>6. ASSUME NEW r \in Slots, pc[r] = "exec2" PROVE process[r] # process[n]
  <2>1. Alive(r)
    BY <1>6, Zenon DEF XInv, IInv, PcOK
  <2>2. state[process[r]] # "EMBRYO"
    BY <2>1, Zenon DEF XInv, IInv, GroupOK
  <2> QED
    BY <1>2, <2>2, Zenon
<1> QED
  BY <1>2, <1>5, <1>6, StartX, Zenon

(* A new thread of the group of its creator starts, unless the creator has *)
(* been killed: exec marks the creator before the new thread can start, or *)
(* finds the new thread.                                                   *)
LEMMA CloneCommitX ==
  ASSUME XInv, IInv', NEW p \in Slots, CloneCommit(p)
  PROVE  IdOK' /\ RawOK' /\ ExecMarksAll' /\ NpOK' /\ JoinOK'
<1> DEFINE n == np[p]
<1>0. /\ state \in [Slots -> States] /\ pc \in [Slots -> Pcs] /\ np \in [Slots -> Ptr] /\ tmp \in [Slots -> Nat]
  BY Zenon DEF XInv, IInv, TypeOK
<1>1. /\ pc[p] = "clone4" /\ UNCHANGED <<pid, tgid, process, nextpid, killed>>
      /\ \/ /\ killed[p] /\ state' = [state EXCEPT ![n] = "ZOMBIE"]
            /\ pc' = [pc EXCEPT ![p] = "user"]
         \/ /\ ~killed[p] /\ state' = [state EXCEPT ![n] = "RUNNABLE"]
            /\ pc' = [pc EXCEPT ![p] = "user", ![n] = "user"]
      /\ np' = [np EXCEPT ![p] = 0] /\ tmp' = [tmp EXCEPT ![p] = 0]
  BY Zenon DEF CloneCommit, At, GoTo, ids
<1>2. n \in Slots /\ state[n] = "EMBRYO" /\ process[n] = process[p] /\ tgid[n] = tgid[p]
  BY <1>1, Zenon DEF XInv, IInv, CreateOK, NewOK, Creating
<1>3. pc[n] = "none" /\ n # p /\ Alive(p)
  BY <1>1, <1>2, Zenon DEF XInv, IInv, PcOK, Alive
<1>4. np[n] = 0
  BY <1>2, <1>3, Zenon DEF XInv, NpOK, Creating
<1>5. CASE ~killed[p]
  <2>1. Starts(p, n)
    <3> HIDE DEF n
    <3> QED
      BY <1>0, <1>1, <1>2, <1>3, <1>4, <1>5, Zenon DEF Starts
  <2>2. \A r \in Slots : pc[r] = "exec2" => process[r] # process[n]
    BY <1>1, <1>2, <1>3, <1>5, ZenonT(60) DEF XInv, ExecMarksAll, LiveThreads
  <2> QED
    BY <1>2, <1>3, <2>1, <2>2, StartX, Zenon
<1>6. CASE killed[p]
  <2>1. /\ state'[n] = "ZOMBIE" /\ \A q \in Slots \ {n} : state'[q] = state[q]
        /\ pc'[p] = "user" /\ np'[p] = 0
        /\ \A q \in Slots \ {p} : pc'[q] = pc[q] /\ np'[q] = np[q] /\ tmp'[q] = tmp[q]
    <3> HIDE DEF n
    <3> QED
      BY <1>0, <1>1, <1>2, <1>6, Zenon
  <2> HIDE DEF n
  <2>2. NoBirth /\ IdsKept
    BY <1>1, <1>2, <2>1, Zenon DEF NoBirth, IdsKept, Alive
  <2>3. IdOK' /\ ExecMarksAll'
    BY <2>1, <2>2, IdFrame, MarksFrame, Zenon DEF XInv
  <2>4. NpOK'
    BY <2>1, Zenon DEF XInv, NpOK
  <2>5. RawOK'
    <3>1. \A q \in Slots : Raw(q)' => Raw(q) /\ process'[q] = process[q]
      BY <1>1, <2>1, Zenon DEF Raw
    <3> QED
      BY <3>1, RawFrame, Zenon DEF XInv
  <2>6. JoinOK'
    <3>1. JoinKept
      BY <1>1, <2>1, Zenon DEF JoinKept
    <3> QED
      BY <3>1, JoinFrame, Zenon DEF XInv
  <2> QED
    BY <2>3, <2>4, <2>5, <2>6, Zenon
<1> QED
  BY <1>5, <1>6, Zenon

-----------------------------------------------------------------------------
(* The end of a thread, and of its slot. *)
LEMMA ExitFinalX ==
  ASSUME XInv, IInv', NEW p \in Slots, ExitFinal(p)
  PROVE  IdOK' /\ RawOK' /\ ExecMarksAll' /\ NpOK' /\ JoinOK'
<1>0. state \in [Slots -> States] /\ pc \in [Slots -> Pcs]
  BY Zenon DEF XInv, IInv, TypeOK
<1>1. /\ UNCHANGED <<pid, tgid, process, nextpid, killed, np, tmp>> /\ pc[p] = "exit2"
      /\ state' = [Wakeup1(ExitWakes(p)) EXCEPT ![p] = "ZOMBIE"]
      /\ pc' = [pc EXCEPT ![p] = "none"]
  BY Zenon DEF ExitFinal, At, locals
<1>2. /\ pc'[p] = "none" /\ \A q \in Slots \ {p} : pc'[q] = pc[q]
      /\ state'[p] = "ZOMBIE"
      /\ \A q \in Slots \ {p} : \/ state'[q] = state[q]
                                \/ state[q] = "SLEEPING" /\ state'[q] = "RUNNABLE"
  BY <1>0, <1>1, Zenon DEF Wakeup1
<1>3. NoBirth /\ IdsKept
  BY <1>1, <1>2, Zenon DEF NoBirth, IdsKept, Alive
<1>4. IdOK' /\ ExecMarksAll'
  BY <1>2, <1>3, IdFrame, MarksFrame, Zenon DEF XInv
<1>5. NpOK'
  BY <1>1, <1>2, Zenon DEF XInv, NpOK, Creating
<1>6. RawOK'
  <2>1. \A q \in Slots : Raw(q)' => Raw(q) /\ process'[q] = process[q]
    BY <1>1, <1>2 DEF Raw
  <2> QED
    BY <2>1, RawFrame, Zenon DEF XInv
<1>7. JoinOK'
  <2>1. JoinKept
    BY <1>1, <1>2, Zenon DEF JoinKept
  <2> QED
    BY <2>1, JoinFrame, Zenon DEF XInv
<1> QED
  BY <1>4, <1>5, <1>6, <1>7, Zenon

(* Dead threads are reaped by a thread that leaves its call, and nobody    *)
(* else is waiting for one of them.                                        *)
LEMMA ReapX ==
  ASSUME XInv, IInv', NEW p \in Slots, NEW S, S \subseteq Slots,
         \A q \in S : state[q] = "ZOMBIE",
         Reap(S), nextpid' = nextpid, pc[p] \in {"wait", "join"},
         pc' = [pc EXCEPT ![p] = "user"], \E x : tmp' = [tmp EXCEPT ![p] = x],
         np' = [np EXCEPT ![p] = 0],
         "one_joiner" \in Rules =>
            \A q \in Slots \ {p} : pc[q] = "join" /\ np[q] # 0 => np[q] \notin S
  PROVE  IdOK' /\ RawOK' /\ ExecMarksAll' /\ NpOK' /\ JoinOK'
<1>0. pc \in [Slots -> Pcs] /\ np \in [Slots -> Ptr] /\ tmp \in [Slots -> Nat]
  BY Zenon DEF XInv, IInv, TypeOK
<1>1. /\ \A q \in S : state'[q] = "UNUSED" /\ pid'[q] = 0 /\ tgid'[q] = 0 /\ process'[q] = 0
      /\ \A q \in Slots \ S : /\ state'[q] = state[q] /\ pid'[q] = pid[q] /\ tgid'[q] = tgid[q]
                              /\ process'[q] = process[q] /\ killed'[q] = killed[q]
  BY Zenon DEF Reap
<1>2. /\ pc'[p] = "user" /\ np'[p] = 0
      /\ \A q \in Slots \ {p} : pc'[q] = pc[q] /\ np'[q] = np[q] /\ tmp'[q] = tmp[q]
  BY <1>0, Zenon
<1>3. NoBirth
  BY <1>1, Zenon DEF NoBirth, Alive
<1>4. IdsKept
  <2>1. \A q \in Slots : /\ pid'[q] \in {0, pid[q]} /\ tgid'[q] \in {0, tgid[q]}
                         /\ state'[q] # "UNUSED" => pid'[q] = pid[q] /\ tgid'[q] = tgid[q]
                         /\ state'[q] = "EMBRYO" => state[q] = "EMBRYO"
    BY <1>1, Zenon
  <2> QED
    BY <1>2, <2>1, Zenon DEF IdsKept, Alive
<1>5. IdOK' /\ ExecMarksAll'
  BY <1>2, <1>3, <1>4, IdFrame, MarksFrame, Zenon DEF XInv
<1>6. NpOK'
  BY <1>2, Zenon DEF XInv, NpOK
<1>7. RawOK'
  <2>1. ASSUME NEW q \in Slots, Raw(q)'
        PROVE  (Raw(q) /\ process'[q] = process[q]) \/ process'[q] \in {0, q}
    <3>1. CASE q \in S
      BY <1>1, <3>1, Zenon
    <3>2. CASE q \notin S
      <4>1. process'[q] = process[q] /\ state'[q] = state[q]
        BY <1>1, <3>2, Zenon
      <4>2. \A r \in Slots : pc'[r] \in {"fork2", "clone2"} => pc'[r] = pc[r] /\ np'[r] = np[r]
        BY <1>2, Zenon
      <4>3. Raw(q)
        BY <2>1, <4>1, <4>2, Zenon DEF Raw
      <4> QED
        BY <4>1, <4>3, Zenon
    <3> QED
      BY <3>1, <3>2, Zenon
  <2> QED
    BY <2>1, RawFrame, Zenon DEF XInv
<1>8. JoinOK'
  <2> SUFFICES ASSUME "one_joiner" \in Rules PROVE JoinOK'
    BY Zenon DEF JoinOK
  <2>1. ASSUME NEW q \in Slots, pc'[q] = "join"
        PROVE  q # p /\ pc[q] = "join" /\ q \notin S /\ (np[q] # 0 => np[q] \in Slots \ S)
    <3>1. q # p /\ pc[q] = "join"
      BY <1>2, <2>1, Zenon
    <3>2. q \notin S
      BY <3>1, Zenon DEF XInv, IInv, PcOK, Alive
    <3>3. np[q] # 0 => np[q] \in Slots
      BY <3>1, HeldSlot, Zenon
    <3> QED
      BY <3>1, <3>2, <3>3, Zenon
  <2>2. JoinKept
    BY <1>1, <1>2, <2>1, ZenonT(60) DEF JoinKept
  <2> QED
    BY <2>2, JoinFrame, Zenon DEF XInv
<1> QED
  BY <1>5, <1>6, <1>7, <1>8, Zenon

(* The group that wait reaps is dead as a whole, so nobody is in join.     *)
LEMMA WaitReapX ==
  ASSUME XInv, IInv', NEW p \in Slots, WaitReap(p)
  PROVE  IdOK' /\ RawOK' /\ ExecMarksAll' /\ NpOK' /\ JoinOK'
<1> DEFINE id == tgid[First(DeadChildren(p))]
           group == {q \in Slots : tgid[q] = id}
<1>0. np \in [Slots -> Ptr] /\ pc[p] = "wait"
  BY Zenon DEF XInv, IInv, TypeOK, WaitReap, At
<1>1. np[p] = 0
  BY <1>0, Zenon DEF XInv, NpOK, Creating
<1>2. CASE \E q \in group : state[q] # "ZOMBIE"
  <2>1. UNCHANGED <<pid, tgid, process, nextpid, state, killed, pc, np, tmp>>
    BY <1>2, Zenon DEF WaitReap, Halt, ids, locals
  <2>2. Calm(p) /\ Leaves(p)
    BY <1>0, <1>1, <2>1, Zenon DEF Calm, Leaves, Creating
  <2> QED
    BY <2>2, CalmFrame, Zenon
<1>3. CASE \A q \in group : state[q] = "ZOMBIE"
  <2>1. /\ Reap(group) /\ nextpid' = nextpid /\ np' = np
        /\ pc' = [pc EXCEPT ![p] = "user"] /\ \E x : tmp' = [tmp EXCEPT ![p] = x]
    BY <1>3, Zenon DEF WaitReap, WaitReturns, GoTo
  <2>2. np' = [np EXCEPT ![p] = 0]
    BY <1>0, <1>1, <2>1, Zenon
  <2>3. ASSUME "one_joiner" \in Rules, NEW q \in Slots \ {p}, pc[q] = "join", np[q] # 0
        PROVE  np[q] \notin group
    <3>1. Alive(q) /\ tgid[np[q]] = tgid[q]
      BY <2>3, HeldSlot, Zenon
    <3> QED
      BY <1>3, <3>1, Zenon DEF Alive
  <2>4. group \subseteq Slots
    BY Zenon
  <2> HIDE DEF group
  <2> QED
    BY <1>0, <1>3, <2>1, <2>2, <2>3, <2>4, ReapX, ZenonT(60)
<1> QED
  BY <1>2, <1>3, Zenon

(* What join reaps is not held by another joiner: it would have been asked *)
(* for the same thread.                                                    *)
LEMMA JoinReapX ==
  ASSUME Firsts, XInv, IInv', NEW p \in Slots, JoinReap(p)
  PROVE  IdOK' /\ RawOK' /\ ExecMarksAll' /\ NpOK' /\ JoinOK'
<1> DEFINE t == JoinTarget(p)
<1>0. /\ pc \in [Slots -> Pcs] /\ np \in [Slots -> Ptr] /\ tmp \in [Slots -> Nat]
  BY Zenon DEF XInv, IInv, TypeOK
<1>1. /\ pc[p] = "join" /\ Joinable(p) /\ state[t] = "ZOMBIE" /\ nextpid' = nextpid
      /\ pc' = [pc EXCEPT ![p] = "user"] /\ np' = [np EXCEPT ![p] = 0] /\ tmp' = [tmp EXCEPT ![p] = 0]
      /\ Reap({t}) \/ UNCHANGED <<state, pid, tgid, process, killed>>
  BY Zenon DEF JoinReap, At, Return, GoTo
<1>2. /\ t \in Slots
      /\ "one_joiner" \in Rules => pid[t] = tmp[p] /\ SameGroup(p, t)
  <2>1. CASE np[p] = 0
    <3>1. WithPid(tmp[p]) # {} /\ SameGroup(p, First(WithPid(tmp[p])))
      BY <1>1, <2>1, Zenon DEF Joinable
    <3>2. First(WithPid(tmp[p])) \in WithPid(tmp[p])
      BY <3>1, NPROCAssumption DEF Firsts, WithPid, Slots
    <3> QED
      BY <2>1, <3>1, <3>2, Zenon DEF JoinTarget, WithPid
  <2>2. CASE np[p] # 0
    <3>1. np[p] \in Slots
      BY <1>0, <2>2, NPROCAssumption DEF Ptr, Slots
    <3> QED
      BY <1>1, <2>2, <3>1, Zenon DEF JoinTarget, XInv, JoinOK, JoinKeepsTarget
  <2> QED
    BY <2>1, <2>2, Zenon
<1> HIDE DEF t
<1>3. CASE Reap({t})
  <2>1. ASSUME "one_joiner" \in Rules, NEW q \in Slots \ {p}, pc[q] = "join", np[q] # 0
        PROVE  np[q] # t
    <3>1. pid[np[q]] = tmp[q] /\ process[np[q]] = process[q]
      BY <2>1, HeldSlot, Zenon
    <3>2. process[q] = process[p] => tmp[q] # tmp[p]
      BY <1>1, <2>1, Zenon DEF XInv, JoinOK, JoinersOK
    <3> QED
      BY <1>2, <2>1, <3>1, <3>2, Zenon DEF SameGroup
  <2>2. "one_joiner" \in Rules =>
           \A q \in Slots \ {p} : pc[q] = "join" /\ np[q] # 0 => np[q] \notin {t}
    BY <2>1, Zenon
  <2>3. {t} \subseteq Slots /\ \A q \in {t} : state[q] = "ZOMBIE"
    BY <1>1, <1>2, Zenon
  <2>4. \E x : tmp' = [tmp EXCEPT ![p] = x]
    BY <1>1, Zenon
  <2>5. pc[p] \in {"wait", "join"}
    BY <1>1, Zenon
  <2> QED
    BY <1>1, <1>3, <2>2, <2>3, <2>4, <2>5, ReapX, ZenonT(60)
<1>4. CASE UNCHANGED <<state, pid, tgid, process, killed>>
  <2>1. /\ pc'[p] = "user" /\ np'[p] = 0
        /\ \A q \in Slots \ {p} : pc'[q] = pc[q] /\ np'[q] = np[q] /\ tmp'[q] = tmp[q]
    BY <1>0, <1>1, Zenon
  <2>2. Calm(p) /\ Leaves(p)
    BY <1>1, <1>4, <2>1, Zenon DEF Calm, Leaves, Creating
  <2> QED
    BY <2>2, CalmFrame, Zenon
<1> QED
  BY <1>1, <1>3, <1>4, Zenon

-----------------------------------------------------------------------------
(* exec exchanges ids when the caller is the only live thread of the group. *)
LEMMA ExecGivePidX ==
  ASSUME XInv, IInv', NEW p \in Slots, ExecGivePid(p)
  PROVE  IdOK' /\ RawOK' /\ ExecMarksAll' /\ NpOK' /\ JoinOK'
<1> DEFINE l == process[p]
<1>0. pc \in [Slots -> Pcs] /\ pid \in [Slots -> Nat]
  BY Zenon DEF XInv, IInv, TypeOK
<1>1. /\ UNCHANGED <<tgid, process, nextpid, killed, state, np, tmp>> /\ pc[p] = "exec3"
      /\ pid' = [pid EXCEPT ![l] = pid[p]] /\ pc' = [pc EXCEPT ![p] = "exec4"]
  BY Zenon DEF ExecGivePid, At, GoTo, locals
<1>2. /\ Alive(p) /\ l \in Slots /\ state[l] \notin {"UNUSED", "EMBRYO"} /\ process[l] = l
      /\ LiveThreads(l) = {p}
  BY <1>1, Zenon DEF XInv, IInv, PcOK, GroupOK, AloneOK, Solitary
<1>3. \A q \in Slots : process[q] = l /\ Alive(q) => q = p
  BY <1>2, Zenon DEF LiveThreads
<1> HIDE DEF l
<1>4. /\ pc'[p] = "exec4" /\ \A q \in Slots \ {p} : pc'[q] = pc[q]
      /\ pid'[l] = pid[p] /\ \A q \in Slots \ {l} : pid'[q] = pid[q]
  BY <1>0, <1>1, <1>2, Zenon
<1>5. \A q \in Slots : Alive(q) \/ state[q] = "EMBRYO" => pid'[q] = pid[q]
  BY <1>2, <1>3, <1>4, Zenon
<1>6. \A q \in Slots : Alive(q)' <=> Alive(q)
  BY <1>1, Zenon DEF Alive
<1>7. NoBirth
  BY <1>1, <1>6, Zenon DEF NoBirth
<1>8. ExecMarksAll'
  BY <1>4, <1>7, MarksFrame, Zenon DEF XInv
<1>9. NpOK'
  BY <1>1, <1>4, Zenon DEF XInv, NpOK, Creating
<1>10. RawOK'
  <2>1. \A q \in Slots : Raw(q)' => Raw(q) /\ process'[q] = process[q]
    BY <1>1, <1>4, Zenon DEF Raw
  <2> QED
    BY <2>1, RawFrame, Zenon DEF XInv
<1>11. JoinOK'
  <2> SUFFICES ASSUME "one_joiner" \in Rules PROVE JoinOK'
    BY Zenon DEF JoinOK
  <2>1. ASSUME NEW q \in Slots, pc'[q] = "join"
        PROVE  pc[q] = "join" /\ (np[q] # 0 => np[q] \in Slots \ {l})
    <3>1. pc[q] = "join" /\ q # p
      BY <1>4, <2>1, Zenon
    <3>2. np[q] # 0 => Alive(q) /\ np[q] \in Slots /\ process[np[q]] = process[q]
      BY <3>1, HeldSlot, Zenon
    <3> QED
      BY <1>2, <1>3, <3>1, <3>2, Zenon
  <2>2. JoinKept
    BY <1>1, <1>4, <2>1, Zenon DEF JoinKept
  <2> QED
    BY <2>2, JoinFrame, Zenon DEF XInv
<1>12. IdOK'
  <2>1. \A q \in Slots : /\ pid'[q] < nextpid' /\ tgid'[q] < nextpid'
                         /\ state'[q] = "EMBRYO" => pid'[q] # 0
    BY <1>1, <1>2, <1>4, SMTT(30) DEF XInv, IdOK
  <2>2. ASSUME NEW q \in Slots, NEW r \in Slots
        PROVE  /\ q # r /\ (Alive(q)' \/ state'[q] = "EMBRYO") /\ (Alive(r)' \/ state'[r] = "EMBRYO")
                    => pid'[q] # pid'[r]
               /\ q # r /\ state'[q] = "EMBRYO" => tgid'[r] # pid'[q]
               /\ Alive(q)' /\ Alive(r)' /\ pid'[q] = tgid'[r] => process'[q] = process'[r]
               /\ Alive(q)' /\ Alive(r)' /\ tgid'[q] = tgid'[r] => process'[q] = process'[r]
    <3>1. /\ q # r /\ (Alive(q) \/ state[q] = "EMBRYO") /\ (Alive(r) \/ state[r] = "EMBRYO") => pid[q] # pid[r]
          /\ q # r /\ state[q] = "EMBRYO" => tgid[r] # pid[q]
          /\ Alive(q) /\ Alive(r) /\ pid[q] = tgid[r] => process[q] = process[r]
          /\ Alive(q) /\ Alive(r) /\ tgid[q] = tgid[r] => process[q] = process[r]
      BY Zenon DEF XInv, IdOK
    <3>2. /\ Alive(q)' <=> Alive(q)
          /\ Alive(r)' <=> Alive(r)
          /\ state' = state /\ tgid' = tgid /\ process' = process
      BY <1>1, <1>6, Zenon
    <3> QED
      BY <1>5, <3>1, <3>2, Zenon
  <2>3. ASSUME NEW q \in Slots, pc'[q] \in {"fork3", "fork4"} PROVE tgid'[np'[q]] = pid'[np'[q]]
    <3>1. q # p /\ pc[q] \in {"fork3", "fork4"}
      BY <1>4, <2>3, Zenon
    <3>2. np[q] \in Slots /\ state[np[q]] = "EMBRYO"
      BY <3>1, Zenon DEF XInv, IInv, CreateOK, Creating
    <3> QED
      BY <1>1, <1>5, <3>1, <3>2, ZenonT(60) DEF XInv, IdOK
  <2> QED
    BY <2>1, <2>2, <2>3, ZenonT(60) DEF IdOK
<1> QED
  BY <1>8, <1>9, <1>10, <1>11, <1>12, ZenonT(60)

(* The caller takes the id of the group, which no other live thread has.   *)
LEMMA ExecTakePidX ==
  ASSUME XInv, IInv', NEW p \in Slots, ExecTakePid(p)
  PROVE  IdOK' /\ RawOK' /\ ExecMarksAll' /\ NpOK' /\ JoinOK'
<1>0. pc \in [Slots -> Pcs] /\ pid \in [Slots -> Nat]
  BY Zenon DEF XInv, IInv, TypeOK
<1>1. /\ UNCHANGED <<tgid, process, nextpid, killed, state, np, tmp>> /\ pc[p] = "exec4"
      /\ pid' = [pid EXCEPT ![p] = tgid[p]] /\ pc' = [pc EXCEPT ![p] = "exec5"]
  BY Zenon DEF ExecTakePid, At, GoTo, locals
<1>2. Alive(p) /\ LiveThreads(process[p]) = {p}
  BY <1>1, Zenon DEF XInv, IInv, PcOK, AloneOK, Solitary
<1>3. \A q \in Slots : process[q] = process[p] /\ Alive(q) => q = p
  BY <1>2, Zenon DEF LiveThreads
<1>4. /\ pc'[p] = "exec5" /\ \A q \in Slots \ {p} : pc'[q] = pc[q]
      /\ pid'[p] = tgid[p] /\ \A q \in Slots \ {p} : pid'[q] = pid[q]
  BY <1>0, <1>1, Zenon
<1>5. state[p] # "EMBRYO"
  BY <1>2, Zenon DEF Alive
<1>6. \A q \in Slots : Alive(q)' <=> Alive(q)
  BY <1>1, Zenon DEF Alive
<1>7. NoBirth
  BY <1>1, <1>6, Zenon DEF NoBirth
<1>8. ExecMarksAll'
  BY <1>4, <1>7, MarksFrame, Zenon DEF XInv
<1>9. NpOK'
  BY <1>1, <1>4, Zenon DEF XInv, NpOK, Creating
<1>10. RawOK'
  <2>1. \A q \in Slots : Raw(q)' => Raw(q) /\ process'[q] = process[q]
    BY <1>1, <1>4, Zenon DEF Raw
  <2> QED
    BY <2>1, RawFrame, Zenon DEF XInv
<1>11. JoinOK'
  <2> SUFFICES ASSUME "one_joiner" \in Rules PROVE JoinOK'
    BY Zenon DEF JoinOK
  <2>1. ASSUME NEW q \in Slots, pc'[q] = "join"
        PROVE  pc[q] = "join" /\ (np[q] # 0 => np[q] \in Slots \ {p})
    <3>1. pc[q] = "join" /\ q # p
      BY <1>4, <2>1, Zenon
    <3>2. np[q] # 0 => Alive(q) /\ np[q] \in Slots /\ process[np[q]] = process[q]
      BY <3>1, HeldSlot, Zenon
    <3> QED
      BY <1>3, <3>1, <3>2, Zenon
  <2>2. JoinKept
    BY <1>1, <1>4, <2>1, Zenon DEF JoinKept
  <2> QED
    BY <2>2, JoinFrame, Zenon DEF XInv
<1>12. IdOK'
  <2>1. \A q \in Slots : /\ pid'[q] < nextpid' /\ tgid'[q] < nextpid'
                         /\ state'[q] = "EMBRYO" => pid'[q] # 0
    BY <1>1, <1>4, <1>5, SMTT(30) DEF XInv, IdOK
  <2>2. \A q \in Slots \ {p} : Alive(q) \/ state[q] = "EMBRYO" => pid[q] # tgid[p]
    BY <1>2, <1>3, ZenonT(60) DEF XInv, IdOK
  <2>3. ASSUME NEW q \in Slots, NEW r \in Slots
        PROVE  /\ q # r /\ (Alive(q)' \/ state'[q] = "EMBRYO") /\ (Alive(r)' \/ state'[r] = "EMBRYO")
                    => pid'[q] # pid'[r]
               /\ q # r /\ state'[q] = "EMBRYO" => tgid'[r] # pid'[q]
               /\ Alive(q)' /\ Alive(r)' /\ pid'[q] = tgid'[r] => process'[q] = process'[r]
               /\ Alive(q)' /\ Alive(r)' /\ tgid'[q] = tgid'[r] => process'[q] = process'[r]
    <3>1. /\ q # r /\ (Alive(q) \/ state[q] = "EMBRYO") /\ (Alive(r) \/ state[r] = "EMBRYO") => pid[q] # pid[r]
          /\ q # r /\ state[q] = "EMBRYO" => tgid[r] # pid[q]
          /\ Alive(q) /\ Alive(r) /\ pid[q] = tgid[r] => process[q] = process[r]
          /\ Alive(q) /\ Alive(r) /\ tgid[q] = tgid[r] => process[q] = process[r]
      BY Zenon DEF XInv, IdOK
    <3>2. /\ Alive(q)' <=> Alive(q)
          /\ Alive(r)' <=> Alive(r)
          /\ state' = state /\ tgid' = tgid /\ process' = process
      BY <1>1, <1>6, Zenon
    <3>3. /\ pid'[q] = IF q = p THEN tgid[p] ELSE pid[q]
          /\ pid'[r] = IF r = p THEN tgid[p] ELSE pid[r]
      BY <1>4, Zenon
    <3>4. CASE q # p /\ r # p
      BY <3>1, <3>2, <3>3, <3>4, Zenon
    <3>5. CASE q = p /\ r # p
      BY <1>5, <2>2, <3>1, <3>2, <3>3, <3>5, ZenonT(60)
    <3>6. CASE q # p /\ r = p
      BY <1>5, <2>2, <3>1, <3>2, <3>3, <3>6, ZenonT(60)
    <3>7. CASE q = p /\ r = p
      BY <1>5, <3>2, <3>3, <3>7, ZenonT(60)
    <3> QED
      BY <3>4, <3>5, <3>6, <3>7, ZenonT(60)
  <2>4. ASSUME NEW q \in Slots, pc'[q] \in {"fork3", "fork4"} PROVE tgid'[np'[q]] = pid'[np'[q]]
    <3>1. q # p /\ pc[q] \in {"fork3", "fork4"}
      BY <1>4, <2>4, Zenon
    <3>2. np[q] \in Slots /\ np[q] # p
      BY <1>5, <3>1, ZenonT(60) DEF XInv, IInv, CreateOK, Creating
    <3>3. tgid[np[q]] = pid[np[q]]
      BY <3>1, ZenonT(60) DEF XInv, IdOK
    <3>4. np'[q] = np[q] /\ tgid'[np[q]] = tgid[np[q]] /\ pid'[np[q]] = pid[np[q]]
      BY <1>1, <1>4, <3>1, <3>2, Zenon
    <3> QED
      BY <3>3, <3>4, SMTT(30)
  <2> QED
    BY <2>1, <2>3, <2>4, ZenonT(60) DEF IdOK
<1> QED
  BY <1>8, <1>9, <1>10, <1>11, <1>12, Zenon

-----------------------------------------------------------------------------
(* A step that neither parks nor delivers an unpark. *)
LEMMA ParkBy ==
  ASSUME IInv, IInv', ParkLosesNoWakeup, NEW p \in Slots, NEW l, l # "parked",
         pc' = [pc EXCEPT ![p] = l] \/ \E n : pc' = [pc EXCEPT ![p] = l, ![n] = "user"],
         chan' = chan \/ \E c : chan' = [chan EXCEPT ![p] = c],
         lostwakeup' = lostwakeup \/ \E n : lostwakeup' = [lostwakeup EXCEPT ![n] = 0],
         \A q \in Slots \ {p} : state'[q] = "SLEEPING" => state[q] = "SLEEPING"
  PROVE  ParkLosesNoWakeup'
<1>0. pc \in [Slots -> Pcs] /\ chan \in [Slots -> Ptr \cup Chans] /\ lostwakeup \in [Slots -> {0} \cup Chans]
  BY Zenon DEF IInv, TypeOK
<1>1. pc'[p] # "parked" /\ \A q \in Slots \ {p} : pc'[q] = "parked" => pc[q] = "parked"
  BY <1>0, ZenonT(60)
<1>2. \A q \in Slots \ {p} : chan'[q] = chan[q]
  BY <1>0, Zenon
<1>3. \A q \in Slots : lostwakeup'[q] \in {0, lostwakeup[q]}
  BY <1>0, Zenon
<1> QED
  BY <1>1, <1>2, <1>3, ParkFrame, Zenon

(* Steps that touch neither the state of a thread nor what it sleeps on.   *)
LEMMA ParkUser ==
  ASSUME IInv, IInv', ParkLosesNoWakeup, NEW p \in Slots,
         \/ UserStep(p) \/ TrapKilled(p) \/ ForkParent(p) \/ CloneParent(p)
         \/ ExitBegin(p) \/ ExitCwd(p) \/ JoinNone(p) \/ ExecGivePid(p) \/ ExecImage(p)
         \/ p = initproc /\ InitProgram
         \/ At(p, "fork") /\ (NoProc(p) \/ (Return(p) /\ UNCHANGED <<state, sleepv>>))
         \/ At(p, "clone") /\ NoProc(p)
  PROVE  ParkLosesNoWakeup'
<1>0. pc \in [Slots -> Pcs]
  BY Zenon DEF IInv, TypeOK
<1>1. UNCHANGED <<state, chan, lostwakeup>>
  BY Zenon DEF UserStep, Syscall, JoinCall, Fault, TrapKilled, ForkParent, CloneParent, ExitBegin, ExitCwd,
     JoinNone, ExecGivePid, ExecImage, InitProgram, NoProc, Halt, sleepv
<1>2. \/ \E l \in Calls \cup {"join", "exit", "fork4", "clone4", "exitcwd", "exit2", "user", "exec4", "fork", "wait"} :
             pc' = [pc EXCEPT ![p] = l]
      \/ pc' = pc /\ pc[p] = "exit"
  BY Zenon DEF UserStep, Syscall, JoinCall, Fault, TrapKilled, ForkParent, CloneParent, ExitBegin, ExitCwd,
     JoinNone, ExecGivePid, ExecImage, InitProgram, NoProc, Halt, Return, GoTo, At
<1>3. \E l \in Pcs \ {"parked"} : pc' = [pc EXCEPT ![p] = l]
  <2>1. CASE pc' = pc /\ pc[p] = "exit"
    <3>1. pc' = [pc EXCEPT ![p] = "exit"]
      BY <1>0, <2>1, Zenon
    <3> QED
      BY <3>1, Zenon DEF Pcs
  <2>2. \A l \in Calls \cup {"join", "exit", "fork4", "clone4", "exitcwd", "exit2", "user", "exec4", "fork", "wait"} :
           l = "fault" \/ l \in Pcs \ {"parked"}
    BY CallsAssumption, ZenonT(60) DEF Pcs, Creating
  <2>3. \A l : pc' = [pc EXCEPT ![p] = l] => l \in Pcs
    <3>1. pc' \in [Slots -> Pcs]
      BY Zenon DEF IInv, TypeOK
    <3> QED
      BY <1>0, <3>1, Zenon
  <2>4. "fault" \notin Pcs
    BY Zenon DEF Pcs, Creating
  <2> QED
    BY <1>2, <2>1, <2>2, <2>3, <2>4, ZenonT(60)
<1> QED
  BY <1>1, <1>3, ParkBy, Zenon

(* fork and clone, and the slots that they fill in *)
LEMMA ParkNew ==
  ASSUME IInv, IInv', ParkLosesNoWakeup, NEW p \in Slots,
         \/ Allocproc(p, "fork2") \/ Allocproc(p, "clone2") \/ NoStack(p) \/ ForkGroup(p) \/ CloneGroup(p)
         \/ ForkCommit(p) \/ CloneCommit(p)
  PROVE  ParkLosesNoWakeup'
<1>0. state \in [Slots -> States]
  BY Zenon DEF IInv, TypeOK
<1>1. /\ chan' = chan
      /\ lostwakeup' = lostwakeup \/ \E n : lostwakeup' = [lostwakeup EXCEPT ![n] = 0]
  BY Zenon DEF Allocproc, NoStack, ForkGroup, CloneGroup, ForkCommit, CloneCommit, sleepv
<1>2. \E l \in {"fork2", "clone2", "exit", "user", "fork3", "clone3"} :
         pc' = [pc EXCEPT ![p] = l] \/ \E n : pc' = [pc EXCEPT ![p] = l, ![n] = "user"]
  BY Zenon DEF Allocproc, NoStack, ForkGroup, CloneGroup, ForkCommit, CloneCommit, Abandon, Return, GoTo
<1>3. state' = state \/ \E n, s : s # "SLEEPING" /\ state' = [state EXCEPT ![n] = s]
  BY ZenonT(60) DEF Allocproc, NoStack, ForkGroup, CloneGroup, ForkCommit, CloneCommit, Abandon
<1>4. \A q \in Slots \ {p} : state'[q] = "SLEEPING" => state[q] = "SLEEPING"
  BY <1>0, <1>3, Zenon
<1> QED
  BY <1>1, <1>2, <1>4, ParkBy, ZenonT(60)

(* exit, wait, join, kill and exec *)
LEMMA ParkCalls ==
  ASSUME IInv, IInv', ParkLosesNoWakeup, NEW p \in Slots,
         \/ ExitFinal(p) \/ WaitFail(p) \/ WaitSleep(p) \/ WaitReap(p)
         \/ JoinFail(p) \/ JoinSleep(p) \/ JoinReap(p)
         \/ \E x \in 0..MaxPid : Kill(p, x)
         \/ ParkReturn(p)
         \/ ExecKill(p) \/ ExecSleep(p) \/ ExecAlone(p) \/ ExecTakePid(p)
  PROVE  ParkLosesNoWakeup'
<1>0. state \in [Slots -> States] /\ pc \in [Slots -> Pcs]
  BY Zenon DEF IInv, TypeOK
<1>1. /\ chan' = chan \/ \E c : chan' = [chan EXCEPT ![p] = c]
      /\ lostwakeup' = lostwakeup \/ \E n : lostwakeup' = [lostwakeup EXCEPT ![n] = 0]
  BY ZenonT(60) DEF ExitFinal, WaitFail, WaitSleep, WaitReap, JoinFail, JoinSleep, JoinReap, Kill, ParkReturn,
     ExecKill, ExecSleep, ExecAlone, ExecTakePid, Halt, Sleep, Awake, sleepv
<1>2. \/ \E l \in {"none", "user", "exec2", "exec3", "exec5"} : pc' = [pc EXCEPT ![p] = l]
      \/ pc' = pc /\ pc[p] \in {"wait", "join", "exec2"}
  BY Zenon DEF ExitFinal, WaitFail, WaitSleep, WaitReap, JoinFail, JoinSleep, JoinReap, Kill, ParkReturn,
     ExecKill, ExecSleep, ExecAlone, ExecTakePid, Halt, WaitReturns, Return, GoTo, At
<1>3. \E l \in {"none", "user", "exec2", "exec3", "exec5", "wait", "join"} : pc' = [pc EXCEPT ![p] = l]
  BY <1>0, <1>2, Zenon
<1>4. \A q \in Slots \ {p} : state'[q] = "SLEEPING" => state[q] = "SLEEPING"
  <2>1. CASE WaitFail(p) \/ JoinFail(p) \/ ParkReturn(p) \/ ExecAlone(p) \/ ExecTakePid(p)
    BY <2>1, Zenon DEF WaitFail, JoinFail, ParkReturn, ExecAlone, ExecTakePid
  <2>2. CASE WaitSleep(p) \/ JoinSleep(p) \/ ExecSleep(p)
    <3>1. state' = [state EXCEPT ![p] = "SLEEPING"]
      BY <2>2, Zenon DEF WaitSleep, JoinSleep, ExecSleep, Sleep
    <3> QED
      BY <1>0, <3>1, Zenon
  <2>3. CASE WaitReap(p) \/ JoinReap(p)
    <3>1. \/ state' = state
          \/ \E S : state' = [q \in Slots |-> IF q \in S THEN "UNUSED" ELSE state[q]]
      BY <2>3, Zenon DEF WaitReap, JoinReap, Reap, Halt
    <3> QED
      BY <3>1, Zenon
  <2>4. CASE \E x \in 0..MaxPid : Kill(p, x)
    <3>1. \/ state' = state
          \/ \E q : state' = [state EXCEPT ![q] = IF state[q] = "SLEEPING" THEN "RUNNABLE" ELSE state[q]]
      BY <2>4, Zenon DEF Kill
    <3> QED
      BY <1>0, <3>1, Zenon
  <2>5. CASE ExecKill(p)
    <3>1. \/ state' = state
          \/ \E S : state' = [q \in Slots |-> IF q \in S /\ state[q] = "SLEEPING" THEN "RUNNABLE" ELSE state[q]]
      BY <2>5, Zenon DEF ExecKill
    <3> QED
      BY <3>1, Zenon
  <2>6. CASE ExitFinal(p)
    <3>1. state' = [Wakeup1(ExitWakes(p)) EXCEPT ![p] = "ZOMBIE"]
      BY <2>6, Zenon DEF ExitFinal
    <3> QED
      BY <3>1, Zenon DEF Wakeup1
  <2> QED
    BY <2>1, <2>2, <2>3, <2>4, <2>5, <2>6, ZenonT(60)
<1> QED
  BY <1>1, <1>3, <1>4, ParkBy, Zenon

(* park consumes an unpark that came early, and unpark either wakes the    *)
(* thread or stores what park will find.                                   *)
LEMMA ParkItself ==
  ASSUME IInv, IInv', ParkLosesNoWakeup, NEW p \in Slots,
         \/ \E c \in Chans : Park(p, c)
         \/ \E x \in 1..MaxPid, c \in Chans : Unpark(p, x, c)
  PROVE  ParkLosesNoWakeup'
<1>0. /\ state \in [Slots -> States] /\ pc \in [Slots -> Pcs] /\ chan \in [Slots -> Ptr \cup Chans]
      /\ lostwakeup \in [Slots -> {0} \cup Chans]
  BY Zenon DEF IInv, TypeOK
<1>1. ASSUME NEW c \in Chans, Park(p, c) PROVE ParkLosesNoWakeup'
  <2>1. /\ lostwakeup' = [lostwakeup EXCEPT ![p] = 0]
        /\ \/ pc' = [pc EXCEPT ![p] = "user"] /\ state' = state /\ chan' = chan
           \/ /\ pc' = [pc EXCEPT ![p] = "parked"] /\ state' = [state EXCEPT ![p] = "SLEEPING"]
              /\ chan' = [chan EXCEPT ![p] = c]
    BY <1>1, Zenon DEF Park, Sleep, GoTo
  <2>2. 0 \notin Chans
    BY ChansAssumption, NPROCAssumption DEF Ptr
  <2>3. lostwakeup'[p] = 0 /\ \A q \in Slots \ {p} : lostwakeup'[q] = lostwakeup[q]
    BY <1>0, <2>1, Zenon
  <2>4. /\ pc'[p] = "parked" => chan'[p] = c
        /\ \A q \in Slots \ {p} : pc'[q] = pc[q] /\ state'[q] = state[q] /\ chan'[q] = chan[q]
    BY <1>0, <2>1, Zenon
  <2> QED
    BY <2>2, <2>3, <2>4, ZenonT(60) DEF ParkLosesNoWakeup
<1>2. ASSUME NEW x \in 1..MaxPid, NEW c \in Chans, Unpark(p, x, c) PROVE ParkLosesNoWakeup'
  <2>1. /\ pc' = [pc EXCEPT ![p] = "user"]
        /\ \/ UNCHANGED <<state, chan, lostwakeup>>
           \/ \E q : /\ state' = [state EXCEPT ![q] = "RUNNABLE"] /\ chan' = [chan EXCEPT ![q] = 0]
                     /\ lostwakeup' = lostwakeup
           \/ \E q : /\ ~(state[q] = "SLEEPING" /\ chan[q] = c)
                     /\ lostwakeup' = [lostwakeup EXCEPT ![q] = c] /\ UNCHANGED <<state, chan>>
    BY <1>2, Zenon DEF Unpark, Return, GoTo, sleepv
  <2>2. pc'[p] # "parked" /\ \A q \in Slots \ {p} : pc'[q] = pc[q]
    BY <1>0, <2>1, Zenon
  <2>3. \A q \in Slots : state'[q] = "SLEEPING" =>
            /\ state[q] = "SLEEPING" /\ chan'[q] = chan[q]
            /\ lostwakeup'[q] = lostwakeup[q] \/ lostwakeup'[q] # chan[q]
    BY <1>0, <2>1, Zenon
  <2> QED
    BY <2>2, <2>3, Zenon DEF ParkLosesNoWakeup
<1> QED
  BY <1>1, <1>2, Zenon

-----------------------------------------------------------------------------
(* The invariant holds initially. *)
LEMMA InitXInv ==
  ASSUME Init, IInv
  PROVE  XInv
<1>2. /\ \A q \in Slots : /\ pid[q] = IF q = initproc THEN 1 ELSE 0
                          /\ tgid[q] = IF q = initproc THEN 1 ELSE 0
                          /\ process[q] = IF q = initproc THEN initproc ELSE 0
                          /\ state[q] = IF q = initproc THEN "RUNNABLE" ELSE "UNUSED"
                          /\ pc[q] = IF q = initproc THEN "user" ELSE "none"
                          /\ np[q] = 0
      /\ nextpid = 2
  BY Zenon DEF Init
<1>3. IdOK
  BY <1>2 DEF IdOK, Alive
<1>4. ExecMarksAll /\ ParkLosesNoWakeup /\ NpOK
  BY <1>2, Zenon DEF ExecMarksAll, ParkLosesNoWakeup, NpOK
<1>5. RawOK
  BY <1>2, Zenon DEF RawOK, Raw
<1>6. JoinOK
  BY <1>2, Zenon DEF JoinOK, JoinersOK, JoinKeepsTarget
<1> QED
  BY <1>3, <1>4, <1>5, <1>6, Zenon DEF XInv

(* Every step preserves it. *)
LEMMA NextXInv ==
  ASSUME Firsts, XInv, IInv', [Next]_vars
  PROVE  XInv'
<1>0. Firsts /\ XInv /\ IInv' /\ IInv /\ NpOK /\ ParkLosesNoWakeup
  BY Zenon DEF XInv
<1> DEFINE Rest == IdOK' /\ RawOK' /\ ExecMarksAll' /\ NpOK' /\ JoinOK'
<1>1. CASE InitProgram
  <2>1. initproc \in Slots
    BY NPROCAssumption, SMTT(30) DEF Slots, initproc
  <2>2. Calm(initproc) /\ Leaves(initproc)
    BY <1>0, <1>1, <2>1, CalmBoundary, ZenonT(60)
  <2>3. Rest
    BY <1>0, <2>1, <2>2, CalmFrame, Zenon
  <2>4. ParkLosesNoWakeup'
    BY <1>0, <1>1, <2>1, ParkUser, Zenon
  <2> QED
    BY <1>0, <2>3, <2>4, Zenon DEF XInv
<1>2. ASSUME NEW p \in Slots, UserStep(p) PROVE XInv'
  <2>1. Rest
    <3>1. (\E x \in 1..MaxPid : JoinCall(p, x)) => Rest
      BY <1>0, JoinCallX, Zenon
    <3>2. (\E c \in Calls \ {"fault", "join"} : Syscall(p, c)) \/ Fault(p) => Rest
      <4> SUFFICES ASSUME (\E c \in Calls \ {"fault", "join"} : Syscall(p, c)) \/ Fault(p) PROVE Rest
        BY Zenon
      <4>1. Calm(p) /\ Leaves(p)
        BY <1>0, CalmBoundary, Zenon
      <4> QED
        BY <1>0, <4>1, CalmFrame, Zenon
    <3> QED
      BY <1>2, <3>1, <3>2, Zenon DEF UserStep
  <2>2. ParkLosesNoWakeup'
    BY <1>0, <1>2, ParkUser, Zenon
  <2> QED
    BY <1>0, <2>1, <2>2, Zenon DEF XInv
<1>3. ASSUME NEW p \in Slots, KernelStep(p) PROVE XInv'
  <2>1. \/ TrapKilled(p)
        \/ WaitSleep(p) \/ ExecSleep(p)
        \/ At(p, "fork") /\ (NoProc(p) \/ (Return(p) /\ UNCHANGED <<state, ids, killed, sleepv>>))
        \/ At(p, "clone") /\ NoProc(p)
        \/ ExitBegin(p) \/ ExitCwd(p)
        \/ WaitFail(p)
        \/ JoinNone(p) \/ JoinFail(p)
        \/ \E x \in 0..MaxPid : Kill(p, x)
        \/ \E c \in Chans : Park(p, c)
        \/ ParkReturn(p)
        \/ \E x \in 1..MaxPid, c \in Chans : Unpark(p, x, c)
        \/ ExecAlone(p) \/ ExecImage(p)
        \/ pc[p] \in {"fork", "clone"} /\ (Allocproc(p, "fork2") \/ Allocproc(p, "clone2"))
        \/ NoStack(p) \/ ForkGroup(p) \/ CloneGroup(p) \/ ForkParent(p) \/ CloneParent(p)
        \/ ForkCommit(p) \/ CloneCommit(p) \/ ExitFinal(p) \/ WaitReap(p) \/ JoinSleep(p) \/ JoinReap(p)
        \/ ExecKill(p) \/ ExecGivePid(p) \/ ExecTakePid(p)
    BY <1>3, Zenon DEF KernelStep, ForkAlloc, CloneAlloc, At
  <2>2. ParkLosesNoWakeup'
    BY <1>0, <2>1, ParkUser, ParkNew, ParkCalls, ParkItself, ZenonT(60)
  <2>3. Rest
    <3>1. Calm(p) /\ Leaves(p) => Rest
      BY <1>0, CalmFrame, Zenon
    <3>2. TrapKilled(p) => Rest
      BY <1>0, <3>1, CalmBoundary, Zenon
    <3>3. WaitSleep(p) \/ ExecSleep(p) => Rest
      BY <1>0, <3>1, CalmSleep, Zenon
    <3>4. \/ At(p, "fork") /\ (NoProc(p) \/ (Return(p) /\ UNCHANGED <<state, ids, killed>>))
          \/ At(p, "clone") /\ NoProc(p)
          \/ ExitBegin(p) \/ ExitCwd(p)
          \/ WaitFail(p)
          \/ JoinNone(p) \/ JoinFail(p)
          \/ \E x \in 0..MaxPid : Kill(p, x)
          \/ \E c \in Chans : Park(p, c)
          \/ ParkReturn(p)
          \/ \E x \in 1..MaxPid, c \in Chans : Unpark(p, x, c)
          \/ ExecAlone(p) \/ ExecImage(p)
          => Rest
      BY <1>0, <3>1, CalmCalls, Zenon
    <3>5. pc[p] \in {"fork", "clone"} /\ (Allocproc(p, "fork2") \/ Allocproc(p, "clone2")) => Rest
      BY <1>0, AllocX, ZenonT(60)
    <3>6. NoStack(p) \/ ForkGroup(p) \/ CloneGroup(p) \/ ForkParent(p) \/ CloneParent(p) => Rest
      BY <1>0, NoStackX, ForkGroupX, CloneGroupX, ParentX, ZenonT(60)
    <3>7. ForkCommit(p) \/ CloneCommit(p) \/ ExitFinal(p) \/ WaitReap(p) \/ JoinSleep(p) \/ JoinReap(p) => Rest
      BY <1>0, ForkCommitX, CloneCommitX, ExitFinalX, WaitReapX, JoinSleepX, JoinReapX, ZenonT(60)
    <3>8. ExecKill(p) \/ ExecGivePid(p) \/ ExecTakePid(p) => Rest
      BY <1>0, ExecKillX, ExecGivePidX, ExecTakePidX, ZenonT(60)
    <3> HIDE DEF Rest
    <3> QED
      BY <2>1, <3>2, <3>3, <3>4, <3>5, <3>6, <3>7, <3>8, ZenonT(60)
  <2> QED
    BY <1>0, <2>2, <2>3, Zenon DEF XInv
<1>4. CASE UNCHANGED vars
  <2> USE <1>4 DEF vars, ids, sleepv, mem, locals
  <2>1. RawOK' = RawOK /\ NpOK' = NpOK /\ ParkLosesNoWakeup' = ParkLosesNoWakeup
    BY Zenon DEF RawOK, Raw, NpOK, ParkLosesNoWakeup
  <2>2. IdOK'
    <3>1. NoBirth /\ IdsKept
      BY Zenon DEF NoBirth, IdsKept, Alive
    <3> QED
      BY <1>0, <3>1, IdFrame, Zenon DEF XInv
  <2>3. ExecMarksAll' = ExecMarksAll
    BY Zenon DEF ExecMarksAll, LiveThreads, Alive
  <2>4. JoinersOK' = JoinersOK /\ JoinKeepsTarget' = JoinKeepsTarget
    BY Zenon DEF JoinersOK, JoinKeepsTarget, SameGroup
  <2> QED
    BY <1>0, <2>1, <2>2, <2>3, <2>4, ZenonT(60) DEF XInv, JoinOK
<1> QED
  BY <1>1, <1>2, <1>3, <1>4, Zenon DEF Next

=============================================================================
