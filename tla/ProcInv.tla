------------------------------ MODULE ProcInv -------------------------------
(***************************************************************************)
(* The inductive invariants of the process table: IInv of the thread       *)
(* counts, XInv of exec, park and join, and FInv of families and memory.   *)
(***************************************************************************)
EXTENDS Proc

-----------------------------------------------------------------------------
(* The inductive invariant. *)

(* a thread that is somewhere in the kernel or in user space is alive *)
PcOK == \A p \in Slots : pc[p] # "none" => Alive(p)

(* the slot that a thread is filling in is an EMBRYO of its own *)
CreateOK ==
  \A p \in Slots : pc[p] \in Creating =>
     /\ np[p] \in Slots /\ state[np[p]] = "EMBRYO"
     /\ \A q \in Slots \ {p} : pc[q] \in Creating => np[q] # np[p]

(* what has been written to that slot so far *)
NewOK ==
  \A p \in Slots :
     /\ pc[p] \in {"fork3", "fork4"} => process[np[p]] = np[p]
     /\ pc[p] = "fork4" => cwd[np[p]]
     /\ pc[p] \in {"clone3", "clone4"} =>
          process[np[p]] = process[p] /\ tgid[np[p]] = tgid[p]
     /\ pc[p] = "clone3" => tmp[p] \in Ptr

(* a live thread has a leader, which exists and has the same group id *)
GroupOK ==
  \A p \in Slots : Alive(p) =>
     /\ process[p] \in Slots
     /\ process[process[p]] = process[p]
     /\ state[process[p]] \notin {"UNUSED", "EMBRYO"}
     /\ tgid[process[p]] = tgid[p]

(* where a thread relies on being the only one *)
Solitary == {"exec3", "exec4", "exec5", "exitcwd"}
AloneOK == \A p \in Slots : pc[p] \in Solitary => LiveThreads(process[p]) = {p}

(* the working directory is held until the last step of exit *)
CwdOK == \A p \in Slots : pc[p] \notin {"none", "exit2"} => cwd[process[p]]

IInv == TypeOK /\ PcOK /\ CreateOK /\ NewOK /\ GroupOK /\ AloneOK /\ CwdOK /\ ThreadCountOK

-----------------------------------------------------------------------------
(* What the steps need to know of numbers and of finite sets: the search   *)
(* for the first slot finds one, and counting tells no slot, one slot and  *)
(* more apart.                                                             *)
Firsts == \A S \in SUBSET Nat : S # {} => First(S) \in S

Counts ==
  /\ \A S \in SUBSET Slots : Cardinality(S) = 0 => S = {}
  /\ \A q \in Slots : Cardinality({q}) = 1

-----------------------------------------------------------------------------
(* What exec, park and join need beyond it. *)

(* a slot that has not been given to a thread yet, or not for long enough  *)
(* that fork or clone has set its group                                    *)
Raw(q) ==
  \/ state[q] = "UNUSED"
  \/ \E p \in Slots : pc[p] \in {"fork2", "clone2"} /\ np[p] = q

(* Ids are handed out once.  The exchange of ids in exec keeps the ids of  *)
(* the threads that exist different, and the id of a group with the group. *)
IdOK ==
  /\ \A q \in Slots : pid[q] < nextpid /\ tgid[q] < nextpid
  /\ \A q \in Slots : state[q] = "EMBRYO" => pid[q] # 0
  /\ \A p, q \in Slots :
       /\ p # q /\ (Alive(p) \/ state[p] = "EMBRYO") /\ (Alive(q) \/ state[q] = "EMBRYO") => pid[p] # pid[q]
       /\ p # q /\ state[p] = "EMBRYO" => tgid[q] # pid[p]
       /\ Alive(p) /\ Alive(q) /\ pid[p] = tgid[q] => process[p] = process[q]
       /\ Alive(p) /\ Alive(q) /\ tgid[p] = tgid[q] => process[p] = process[q]
  /\ \A p \in Slots : pc[p] \in {"fork3", "fork4"} => tgid[np[p]] = pid[np[p]]

(* the group of a slot before fork or clone has set it *)
RawOK == \A q \in Slots : Raw(q) => process[q] \in {0, q}

(* the local pointer of a thread that is neither in fork, clone nor join *)
NpOK == \A p \in Slots : pc[p] \notin Creating \cup {"join"} => np[p] = 0

(* what the programs promise of join *)
JoinersOK ==
  \A p, q \in Slots :
    p # q /\ pc[p] = "join" /\ pc[q] = "join" /\ process[p] = process[q] => tmp[p] # tmp[q]

(* ... for programs that keep the promise *)
JoinOK == "one_joiner" \in Rules => JoinersOK /\ JoinKeepsTarget

XInv == IInv /\ IdOK /\ ExecMarksAll /\ ParkLosesNoWakeup /\ RawOK /\ NpOK /\ JoinOK

-----------------------------------------------------------------------------
(* A step of p that changes no id and no group, starts and ends no thread, *)
(* takes no mark back, and is neither in fork or clone nor a step into     *)
(* exec2 or within join.                                                   *)
Calm(p) ==
  /\ pid' = pid /\ tgid' = tgid /\ process' = process /\ nextpid' = nextpid
  /\ \A q \in Slots : \/ state'[q] = state[q]
                      \/ /\ state[q] \in {"SLEEPING", "RUNNABLE"}
                         /\ state'[q] \in {"SLEEPING", "RUNNABLE"}
  /\ \A q \in Slots : killed[q] => killed'[q]
  /\ \A q \in Slots \ {p} : pc'[q] = pc[q] /\ np'[q] = np[q] /\ tmp'[q] = tmp[q]
  /\ pc[p] \notin Creating /\ pc'[p] \notin Creating

(* ... what it does to p itself *)
Leaves(p) ==
  /\ pc'[p] = "exec2" => pc[p] = "exec2"
  /\ pc'[p] = "join" => pc[p] = "join" /\ np'[p] = np[p] /\ tmp'[p] = tmp[p]
  /\ pc'[p] # "join" => np'[p] = 0

-----------------------------------------------------------------------------
(* What is assumed of the programs. *)
FamilyRules == {"fork_wait", "leader_last", "leader_exec"} \subseteq Rules /\ "fault" \notin Calls

(* a slot that a thread lives in, or lived in until it is reaped *)
Exists(q) == state[q] \notin {"UNUSED", "EMBRYO"}

Forking == {"fork", "fork2", "fork3", "fork4"}
Exiting == {"exit", "exitcwd", "exit2"}
Execing == {"exec", "exec2", "exec3", "exec4", "exec5"}

(* init lives, alone in its process, and does what init.c says *)
InitOK ==
  /\ Alive(initproc) /\ process[initproc] = initproc
  /\ pc[initproc] \in Forking \cup {"user", "wait", "exit"}
  /\ \A q \in Slots : Alive(q) /\ process[q] = initproc => q = initproc

(* the leader of a process ends last, and only the leader is in exec *)
LeaderOK ==
  /\ \A q \in Slots : Alive(q) => Alive(process[q])
  /\ \A q, r \in Slots :
       /\ Alive(q) /\ process[q] = q /\ (killed[q] \/ pc[q] \in Exiting)
       /\ Alive(r) /\ process[r] = q
       => r = q
  /\ \A q \in Slots : pc[q] \in Execing => process[q] = q

(* no thread is in fork while another of its process is in wait *)
WaitOK ==
  \A p, q \in Slots :
    p # q /\ process[p] = process[q] /\ pc[p] = "wait" => pc[q] \notin Forking

(* every EMBRYO is being filled in by somebody *)
EmbryoOK ==
  \A q \in Slots : state[q] = "EMBRYO" => \E p \in Slots : pc[p] \in Creating /\ np[p] = q

(* whose child a slot is *)
ParentOK ==
  /\ \A q \in Slots : state[q] = "UNUSED" => parent[q] = 0
  /\ \A p \in Slots : pc[p] \in {"fork2", "fork3", "clone2", "clone3"} => parent[np[p]] = 0
  /\ \A p \in Slots : pc[p] = "fork4" => parent[np[p]] = process[p]
  /\ \A q \in Slots \ {initproc} : Exists(q) /\ process[q] = q =>
       parent[q] \in Slots /\ Alive(parent[q]) /\ process[parent[q]] = parent[q]

(* the group id tells processes apart, the dead ones and the left-over ids *)
(* of slots that fork gave back included                                   *)
TgidOK ==
  /\ \A q \in Slots : Exists(q) =>
       /\ tgid[q] # 0
       /\ process[q] \in Slots /\ Exists(process[q]) /\ process[process[q]] = process[q]
  /\ \A q, r \in Slots : Exists(q) /\ Exists(r) => (tgid[q] = tgid[r] <=> process[q] = process[r])
  /\ \A q, r \in Slots : q # r /\ Raw(q) /\ tgid[q] # 0 => tgid[r] # tgid[q]

(* the slots whose page directory wait frees *)
Owners == {q \in Slots : state[q] # "UNUSED" /\ process[q] = q /\ ~Raw(q)}

(* page directories and working directories *)
MemOK ==
  /\ \A q \in Owners : pid[q] = tgid[q] /\ pgdir[q] # 0
  /\ \A q \in Slots : Raw(q) => pgdir[q] = 0
  /\ \A q \in Slots : Alive(q) => pgdir[q] = pgdir[process[q]]
  /\ \A p \in Slots : pc[p] \in {"clone3", "clone4"} => pgdir[np[p]] = pgdir[p]
  /\ pgs = {pgdir[q] : q \in Owners}
  /\ \A q, r \in Owners : pgdir[q] = pgdir[r] => q = r
  /\ \A q \in Slots : Raw(q) \/ process[q] # q \/ state[q] = "ZOMBIE" => ~cwd[q]

(* a leader in the last step of exit has dropped the working directory *)
LastOK == \A q \in Slots : pc[q] = "exit2" /\ process[q] = q => ~cwd[q]

FInv ==
  /\ XInv /\ InitOK /\ LeaderOK /\ WaitOK /\ EmbryoOK /\ ParentOK /\ TgidOK
  /\ MemOK /\ LastOK /\ NoUndead

=============================================================================
