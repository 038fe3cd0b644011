-------------------------- MODULE ProcFamilyProofs --------------------------
(***************************************************************************)
(* Proofs about families of processes: the steps that create, end and reap *)
(* processes and threads, each shown to preserve FInv, and that FInv holds *)
(* after userinit.                                                         *)
(***************************************************************************)
EXTENDS ProcExecProofs

-----------------------------------------------------------------------------
(* The steps that fill in the slot n of a thread or process that does not  *)
(* exist yet, from allocproc to the step before it starts.                 *)
Builds(p, n) ==
  /\ n \in Slots /\ ~Exists(n) /\ state'[n] \in {"UNUSED", "EMBRYO"}
  /\ killed' = killed /\ panicked' = panicked
  /\ \A q \in Slots \ {n} :
       /\ state'[q] = state[q] /\ pid'[q] = pid[q] /\ tgid'[q] = tgid[q]
       /\ process'[q] = process[q] /\ parent'[q] = parent[q]
       /\ pgdir'[q] = pgdir[q] /\ cwd'[q] = cwd[q]
  /\ \A q \in Slots \ {p} : pc'[q] = pc[q] /\ np'[q] = np[q]
  /\ pc[p] \in Creating \cup {"fork", "clone"}
  /\ pc[p] \in Creating => np[p] = n
  /\ pc[p] \notin Creating => state[n] = "UNUSED"
  /\ pc'[p] \in Creating => np'[p] = n
  /\ pc'[p] \in Creating \cup {"user"} \/ (pc'[p] = "exit" /\ p = initproc)
  /\ pc'[p] \in Forking => pc[p] \in Forking
  /\ pc[p] \in Forking => pc'[p] \in Forking \cup {"user", "exit"}

(* Everybody else keeps out of the slot. *)
LEMMA BuildKinds ==
  ASSUME FInv, NEW p \in Slots, NEW n, Builds(p, n)
  PROVE  /\ Alive(p) /\ p # n /\ ~Alive(n) /\ ~Exists(n) /\ ~Exists(n)'
         /\ \A q \in Slots : (Alive(q)' <=> Alive(q)) /\ (Exists(q)' <=> Exists(q))
         /\ \A q \in Slots : Alive(q) => Exists(q)
         /\ \A q \in Slots : Exists(q) => q # n /\ process[q] \in Slots \ {n}
         /\ \A q \in Slots \ {p} : pc[q] \in Creating => q # n /\ np[q] \in Slots \ {n}
         /\ \A q \in Slots \ {n} : Raw(q)' <=> Raw(q)
         /\ Owners' \ {n} = Owners \ {n}
<1>0. IInv /\ TgidOK /\ n \in Slots
  BY Zenon DEF FInv, XInv, Builds
<1>1. /\ ~Exists(n) /\ ~Exists(n)' /\ ~Alive(n) /\ ~Alive(n)'
      /\ \A q \in Slots : Alive(q) => Exists(q)
  BY Zenon DEF Builds, Exists, Alive
<1>2. Alive(p)
  BY <1>0, Zenon DEF IInv, PcOK, Builds, Creating
<1>3. \A q \in Slots : (Alive(q)' <=> Alive(q)) /\ (Exists(q)' <=> Exists(q))
  <2>1. \A q \in Slots \ {n} : state'[q] = state[q]
    BY Zenon DEF Builds
  <2> QED
    BY <1>1, <2>1, Zenon DEF Alive, Exists
<1>4. \A q \in Slots : Exists(q) => q # n /\ process[q] \in Slots \ {n}
  BY <1>0, <1>1, Zenon DEF TgidOK
<1>5. ASSUME NEW q \in Slots \ {p}, pc[q] \in Creating PROVE q # n /\ np[q] \in Slots \ {n}
  <2>1. Alive(q) /\ np[q] \in Slots /\ state[np[q]] = "EMBRYO"
    BY <1>0, <1>5, Zenon DEF IInv, PcOK, CreateOK, Creating
  <2>2. pc[p] \in Creating => np[q] # np[p]
    BY <1>0, <1>5, Zenon DEF IInv, CreateOK
  <2> QED
    BY <1>1, <2>1, <2>2, Zenon DEF Builds
<1>6. ASSUME NEW q \in Slots \ {n} PROVE Raw(q)' <=> Raw(q)
  <2>1. state'[q] = state[q]
    BY Zenon DEF Builds
  <2>2. {"fork2", "clone2"} \subseteq Creating
    BY Zenon DEF Creating
  <2>3. \A r \in Slots \ {p} : pc'[r] = pc[r] /\ np'[r] = np[r]
    BY Zenon DEF Builds
  <2>4. /\ pc[p] \in {"fork2", "clone2"} => np[p] = n
        /\ pc'[p] \in {"fork2", "clone2"} => np'[p] = n
    BY <2>2, Zenon DEF Builds
  <2> QED
    BY <2>1, <2>3, <2>4, Zenon DEF Raw
<1>7. ASSUME NEW q \in Slots \ {n} PROVE q \in Owners' <=> q \in Owners
  BY <1>6, Zenon DEF Owners, Builds
<1>8. Owners \subseteq Slots /\ Owners' \subseteq Slots
  BY Zenon DEF Owners
<1>9. Owners' \ {n} = Owners \ {n}
  BY <1>7, <1>8, Zenon
<1> QED
  BY <1>0, <1>1, <1>2, <1>3, <1>4, <1>5, <1>6, <1>9, ZenonT(60)

(* The promises of the programs are not touched. *)
LEMMA BuildProper ==
  ASSUME FInv, NEW p \in Slots, NEW n, Builds(p, n)
  PROVE  InitOK' /\ LeaderOK' /\ WaitOK' /\ LastOK' /\ NoUndead'
<1>0. IInv /\ InitOK /\ LeaderOK /\ WaitOK /\ LastOK /\ NoUndead
  BY Zenon DEF FInv, XInv
<1>1. /\ Alive(p) /\ p # n /\ n \in Slots
      /\ \A q \in Slots : Alive(q)' <=> Alive(q)
      /\ \A q \in Slots : Alive(q) => q # n /\ process[q] \in Slots \ {n}
  BY BuildKinds, Zenon DEF Builds
<1>2. \A q \in Slots : Alive(q) => process'[q] = process[q]
  BY <1>1, Zenon DEF Builds
<1>3. initproc \in Slots
  BY NPROCAssumption DEF initproc, Slots
<1>4. \A q \in Slots \ {p} : pc'[q] = pc[q]
  BY Zenon DEF Builds
<1>5. pc'[p] \in Creating \cup {"user", "exit"} /\ (pc'[p] = "exit" => p = initproc)
  BY Zenon DEF Builds, Creating
<1>6. \A q \in Slots : pc'[q] # "none" => Alive(q)
  BY <1>0, <1>1, <1>4, Zenon DEF IInv, PcOK
<1>7. InitOK'
  <2>1. Alive(initproc)' /\ process'[initproc] = initproc
    BY <1>0, <1>1, <1>2, <1>3, Zenon DEF InitOK
  <2>2. pc'[initproc] \in Forking \cup {"user", "wait", "exit"}
    <3>1. CASE p = initproc
      <4>1. pc[p] \in Forking
        BY <1>0, <3>1, Zenon DEF InitOK, Builds, Creating, Forking
      <4>2. pc'[p] \in Forking \cup {"user", "exit"}
        BY <4>1, Zenon DEF Builds
      <4> QED
        BY <3>1, <4>2, Zenon
    <3>2. CASE p # initproc
      BY <1>0, <1>3, <1>4, <3>2, Zenon DEF InitOK
    <3> QED
      BY <3>1, <3>2, Zenon
  <2> QED
    BY <1>0, <1>1, <1>2, <2>1, <2>2, InitFrame, Zenon
<1>8. WaitOK'
  <2>1. \A q \in Slots : pc'[q] \in Forking \cup {"wait"} =>
            process'[q] = process[q] /\ (q # p => pc'[q] = pc[q])
    <3>1. "none" \notin Forking \cup {"wait"}
      BY Zenon DEF Forking
    <3> QED
      BY <1>2, <1>4, <1>6, <3>1, Zenon
  <2>2. pc'[p] # "wait"
    BY <1>5, Zenon DEF Creating
  <2> QED
    BY <1>0, <2>1, <2>2, WaitFrame, Zenon DEF Builds
<1>9. LeaderOK'
  <2>1. ASSUME NEW q \in Slots, Alive(q)'
        PROVE  /\ Alive(q) /\ process'[q] = process[q] /\ Alive(process[q])'
               /\ killed'[q] => killed[q] \/ process[q] # q \/ Siblings(q) = {}
    <3>1. Alive(q) /\ process'[q] = process[q] /\ process[q] \in Slots
      BY <1>1, <1>2, <2>1, Zenon
    <3>2. Alive(process[q])
      BY <1>0, <3>1, Zenon DEF LeaderOK
    <3>3. process'[q] \in Slots /\ Alive(process[q])'
      BY <1>1, <3>1, <3>2, Zenon DEF Alive
    <3> QED
      BY <3>1, <3>3, Zenon DEF Builds
  <2>2. /\ \A q \in Slots \ {p} : pc'[q] \in Exiting \cup Execing => pc'[q] = pc[q]
        /\ \A q \in Slots : pc'[q] \in Execing => process'[q] = process[q]
    <3>1. "none" \notin Execing
      BY Zenon DEF Execing
    <3> QED
      BY <1>2, <1>4, <1>6, <3>1, Zenon
  <2>3. pc'[p] \in Exiting => Siblings(p) = {}
    <3>1. pc'[p] \in Exiting => pc'[p] = "exit"
      BY <1>5, Zenon DEF Creating, Exiting
    <3> QED
      BY <1>0, <1>5, <3>1, InitAlone, Zenon
  <2>4. pc'[p] \notin Execing
    BY <1>5, Zenon DEF Creating, Execing
  <2> QED
    BY <1>0, <2>1, <2>2, <2>3, <2>4, LeaderFrame, Zenon
<1>10. LastOK' /\ NoUndead'
  <2>1. ASSUME NEW q \in Slots, pc'[q] = "exit2", process'[q] = q PROVE ~cwd'[q]
    <3>1. q # p
      BY <1>5, <2>1, Zenon DEF Creating
    <3>2. pc[q] = "exit2" /\ Alive(q)
      BY <1>4, <1>6, <2>1, <3>1, Zenon
    <3>3. process[q] = q /\ cwd'[q] = cwd[q]
      BY <1>1, <1>2, <2>1, <3>2, Zenon DEF Builds
    <3> QED
      BY <1>0, <3>2, <3>3, Zenon DEF LastOK
  <2> QED
    BY <1>0, <2>1, Zenon DEF LastOK, NoUndead, Builds
<1> QED
  BY <1>7, <1>8, <1>9, <1>10, Zenon

(* The families stay, if the slot has the parent it should have and a      *)
(* group id that tells it apart.                                           *)
LEMMA BuildFamily ==
  ASSUME FInv, NEW p \in Slots, NEW n, Builds(p, n),
         state'[n] = "EMBRYO" => pc'[p] \in Creating,
         state'[n] = "UNUSED" => parent'[n] = 0,
         pc'[p] \in {"fork2", "fork3", "clone2", "clone3"} => parent'[n] = 0,
         pc'[p] = "fork4" => parent'[n] = process[p],
         Raw(n)' /\ tgid'[n] # 0 => \A q \in Slots \ {n} : tgid[q] # tgid'[n],
         \A q \in Slots \ {n} : Raw(q) /\ tgid[q] # 0 => tgid'[n] # tgid[q]
  PROVE  EmbryoOK' /\ ParentOK' /\ TgidOK'
<1>0. IInv /\ EmbryoOK /\ ParentOK /\ TgidOK /\ n \in Slots
  BY Zenon DEF FInv, XInv, Builds
<1>1. /\ Alive(p) /\ p # n /\ ~Exists(n) /\ ~Exists(n)'
      /\ \A q \in Slots : (Alive(q)' <=> Alive(q)) /\ (Exists(q)' <=> Exists(q))
      /\ \A q \in Slots : Alive(q) => Exists(q)
      /\ \A q \in Slots : Exists(q) => q # n /\ process[q] \in Slots \ {n}
      /\ \A q \in Slots \ {p} : pc[q] \in Creating => q # n /\ np[q] \in Slots \ {n}
      /\ \A q \in Slots \ {n} : Raw(q)' <=> Raw(q)
  BY BuildKinds, Zenon
<1>2. \A q \in Slots \ {n} :
         /\ state'[q] = state[q] /\ tgid'[q] = tgid[q]
         /\ process'[q] = process[q] /\ parent'[q] = parent[q]
  BY Zenon DEF Builds
<1>3. /\ \A q \in Slots \ {p} : pc'[q] = pc[q] /\ np'[q] = np[q]
      /\ pc[p] \in Creating => np[p] = n
      /\ pc'[p] \in Creating => np'[p] = n
  BY Zenon DEF Builds
<1>4. EmbryoOK'
  <2> SUFFICES ASSUME NEW q \in Slots, state'[q] = "EMBRYO"
               PROVE  \E r \in Slots : pc'[r] \in Creating /\ np'[r] = q
    BY Zenon DEF EmbryoOK
  <2>1. CASE q = n
    BY <1>3, <2>1, Zenon
  <2>2. CASE q # n
    <3>1. PICK r \in Slots : pc[r] \in Creating /\ np[r] = q
      BY <1>0, <1>2, <2>2, Zenon DEF EmbryoOK
    <3> QED
      BY <1>3, <2>2, <3>1, Zenon
  <2> QED
    BY <2>1, <2>2, Zenon
<1>5. ParentOK'
  <2>1. ASSUME NEW q \in Slots, state'[q] = "UNUSED" PROVE parent'[q] = 0
    BY <1>0, <1>2, <2>1, ZenonT(60) DEF ParentOK
  <2>2. ASSUME NEW q \in Slots, pc'[q] \in {"fork2", "fork3", "clone2", "clone3"}
        PROVE  parent'[np'[q]] = 0
    <3>1. pc'[q] \in Creating
      BY <2>2, Zenon DEF Creating
    <3>2. CASE q = p
      BY <1>3, <2>2, <3>1, <3>2, Zenon
    <3>3. CASE q # p
      <4>1. pc[q] = pc'[q] /\ np'[q] = np[q] /\ np[q] \in Slots \ {n}
        BY <1>1, <1>3, <3>1, <3>3, Zenon
      <4>2. parent[np[q]] = 0
        BY <1>0, <2>2, <4>1, Zenon DEF ParentOK
      <4> QED
        BY <1>2, <4>1, <4>2, Zenon
    <3> QED
      BY <3>2, <3>3, Zenon
  <2>3. ASSUME NEW q \in Slots, pc'[q] = "fork4" PROVE parent'[np'[q]] = process'[q]
    <3>1. pc'[q] \in Creating
      BY <2>3, Zenon DEF Creating
    <3>2. CASE q = p
      BY <1>1, <1>2, <1>3, <2>3, <3>1, <3>2, Zenon
    <3>3. CASE q # p
      <4>1. pc[q] = "fork4" /\ np'[q] = np[q] /\ np[q] \in Slots \ {n} /\ q # n
        BY <1>1, <1>3, <2>3, <3>1, <3>3, Zenon
      <4>2. parent[np[q]] = process[q]
        BY <1>0, <4>1, Zenon DEF ParentOK
      <4> QED
        BY <1>2, <4>1, <4>2, Zenon
    <3> QED
      BY <3>2, <3>3, Zenon
  <2>4. ASSUME NEW q \in Slots \ {initproc}, Exists(q)', process'[q] = q
        PROVE  parent'[q] \in Slots /\ Alive(parent[q])' /\ process'[parent'[q]] = parent'[q]
    <3>1. Exists(q) /\ q # n /\ process[q] = q /\ parent'[q] = parent[q]
      BY <1>1, <1>2, <2>4, Zenon
    <3>2. parent[q] \in Slots /\ Alive(parent[q]) /\ process[parent[q]] = parent[q]
      BY <1>0, <3>1, Zenon DEF ParentOK
    <3>3. Alive(parent[q])' /\ parent[q] # n
      BY <1>1, <3>1, <3>2, Zenon DEF Alive
    <3> QED
      BY <1>2, <3>1, <3>2, <3>3, Zenon
  <2> QED
    BY <2>1, <2>2, <2>3, <2>4, Zenon DEF ParentOK
<1>6. TgidOK'
  <2>1. ASSUME NEW q \in Slots, Exists(q)'
        PROVE  /\ tgid'[q] # 0 /\ process'[q] \in Slots
               /\ Exists(process[q])' /\ process'[process'[q]] = process'[q]
    <3>1. /\ tgid[q] # 0 /\ process[q] \in Slots /\ Exists(process[q])
          /\ process[process[q]] = process[q] /\ q # n /\ process[q] # n
      BY <1>0, <1>1, <2>1, Zenon DEF TgidOK
    <3>2. process'[q] = process[q] /\ tgid'[q] = tgid[q] /\ state'[process[q]] = state[process[q]]
          /\ process'[process[q]] = process[process[q]]
      BY <1>2, <3>1, Zenon
    <3> QED
      BY <3>1, <3>2, Zenon DEF Exists
  <2>2. ASSUME NEW q \in Slots, NEW r \in Slots, Exists(q)', Exists(r)'
        PROVE  tgid'[q] = tgid'[r] <=> process'[q] = process'[r]
    <3>1. Exists(q) /\ Exists(r) /\ q # n /\ r # n
      BY <1>1, <2>2, Zenon
    <3> QED
      BY <1>0, <1>2, <3>1 DEF TgidOK
  <2>3. ASSUME NEW q \in Slots, NEW r \in Slots, q # r, Raw(q)', tgid'[q] # 0 PROVE tgid'[r] # tgid'[q]
    <3>1. CASE q = n
      BY <1>2, <2>3, <3>1, Zenon
    <3>2. CASE r = n
      BY <1>1, <1>2, <2>3, <3>2, ZenonT(60)
    <3>3. CASE q # n /\ r # n
      BY <1>0, <1>1, <1>2, <2>3, <3>3, SMTT(30) DEF TgidOK
    <3> QED
      BY <3>1, <3>2, <3>3, Zenon
  <2> QED
    BY <2>1, <2>2, <2>3, ZenonT(60) DEF TgidOK
<1> QED
  BY <1>4, <1>5, <1>6, Zenon

(* The memory stays in order, if the slot takes a new page directory, or   *)
(* none, or the one of its leader.                                         *)
LEMMA BuildMem ==
  ASSUME FInv, NEW p \in Slots, NEW n, Builds(p, n),
         n \in Owners' => pid'[n] = tgid'[n] /\ pgdir'[n] # 0,
         Raw(n)' => pgdir'[n] = 0,
         pc'[p] \in {"clone3", "clone4"} => pgdir'[n] = pgdir[p],
         n \in Owners => n \in Owners' /\ pgdir'[n] = pgdir[n],
         n \in Owners' /\ n \notin Owners => pgdir'[n] \notin pgs,
         n \in Owners' => pgs' = pgs \cup {pgdir'[n]},
         n \notin Owners' => pgs' = pgs,
         Raw(n)' \/ process'[n] # n => ~cwd'[n]
  PROVE  MemOK'
<1>0. IInv /\ n \in Slots
  BY Zenon DEF FInv, XInv, Builds
<1>1. /\ Alive(p) /\ p # n
      /\ \A q \in Slots : Alive(q)' <=> Alive(q)
      /\ \A q \in Slots : Alive(q) => q # n /\ process[q] \in Slots \ {n}
      /\ \A q \in Slots \ {p} : pc[q] \in Creating => q # n /\ np[q] \in Slots \ {n}
      /\ \A q \in Slots \ {n} : Raw(q)' <=> Raw(q)
      /\ Owners' \ {n} = Owners \ {n}
  BY BuildKinds, Zenon
<1>2. \A q \in Slots \ {n} :
         /\ state'[q] = state[q] /\ pid'[q] = pid[q] /\ tgid'[q] = tgid[q]
         /\ process'[q] = process[q] /\ pgdir'[q] = pgdir[q] /\ cwd'[q] = cwd[q]
  BY Zenon DEF Builds
<1>3. /\ \A q \in Slots \ {p} : pc'[q] = pc[q] /\ np'[q] = np[q]
      /\ pc'[p] \in Creating => np'[p] = n
      /\ state'[n] # "ZOMBIE"
  BY Zenon DEF Builds
<1>4. /\ \A q \in Owners : pid[q] = tgid[q] /\ pgdir[q] # 0
      /\ \A q \in Slots : Raw(q) => pgdir[q] = 0
      /\ \A q \in Slots : Alive(q) => pgdir[q] = pgdir[process[q]]
      /\ \A q \in Slots : pc[q] \in {"clone3", "clone4"} => pgdir[np[q]] = pgdir[q]
      /\ pgs = {pgdir[q] : q \in Owners}
      /\ \A q, r \in Owners : pgdir[q] = pgdir[r] => q = r
      /\ \A q \in Slots : Raw(q) \/ process[q] # q \/ state[q] = "ZOMBIE" => ~cwd[q]
  BY Zenon DEF FInv, MemOK
<1>5. /\ Owners \subseteq Slots /\ Owners' \subseteq Slots
      /\ \A q \in Owners' \ {n} : q \in Owners
      /\ \A q \in Owners \ {n} : q \in Owners'
  <2>1. Owners \subseteq Slots /\ Owners' \subseteq Slots
    BY Zenon DEF Owners
  <2> QED
    BY <1>1, <2>1, Zenon
<1>6. ASSUME NEW q \in Owners' PROVE pid'[q] = tgid'[q] /\ pgdir'[q] # 0
  <2>1. CASE q # n
    <3>1. q \in Owners /\ q \in Slots \ {n}
      BY <1>5, <1>6, <2>1, Zenon
    <3> QED
      BY <1>2, <1>4, <3>1, ZenonT(60)
  <2> QED
    BY <1>6, <2>1, Zenon
<1>7. ASSUME NEW q \in Slots, Raw(q)' PROVE pgdir'[q] = 0
  BY <1>1, <1>2, <1>4, <1>7, ZenonT(60)
<1>8. ASSUME NEW q \in Slots, Alive(q)' PROVE pgdir'[q] = pgdir'[process'[q]]
  <2>1. Alive(q) /\ q # n /\ process[q] \in Slots \ {n}
    BY <1>1, <1>8, Zenon
  <2>2. process'[q] = process[q] /\ pgdir'[q] = pgdir[q] /\ pgdir'[process[q]] = pgdir[process[q]]
    BY <1>2, <2>1, Zenon
  <2> QED
    BY <1>4, <2>1, <2>2, Zenon
<1>9. ASSUME NEW q \in Slots, pc'[q] \in {"clone3", "clone4"} PROVE pgdir'[np'[q]] = pgdir'[q]
  <2>1. pc'[q] \in Creating
    BY <1>9, Zenon DEF Creating
  <2>2. CASE q = p
    BY <1>1, <1>2, <1>3, <1>9, <2>1, <2>2, ZenonT(60)
  <2>3. CASE q # p
    <3>1. pc[q] = pc'[q] /\ np'[q] = np[q] /\ np[q] \in Slots \ {n} /\ q # n
      BY <1>1, <1>3, <2>1, <2>3, Zenon
    <3>2. pgdir[np[q]] = pgdir[q]
      BY <1>4, <1>9, <3>1, Zenon
    <3> QED
      BY <1>2, <3>1, <3>2, ZenonT(60)
  <2> QED
    BY <2>2, <2>3, Zenon
<1>10. pgs' = {pgdir'[q] : q \in Owners'}
  <2>1. ASSUME NEW q \in Owners' PROVE pgdir'[q] \in pgs'
    <3>1. CASE q = n
      BY <2>1, <3>1, Zenon
    <3>2. CASE q # n
      <4>1. q \in Owners /\ pgdir'[q] = pgdir[q]
        BY <1>2, <1>5, <2>1, <3>2, Zenon
      <4>2. pgdir[q] \in pgs
        BY <1>4, <4>1, Zenon
      <4> QED
        BY <4>1, <4>2
    <3> QED
      BY <3>1, <3>2, Zenon
  <2>2. ASSUME NEW g \in pgs' PROVE \E q \in Owners' : g = pgdir'[q]
    <3>1. CASE g \in pgs
      <4>1. PICK q \in Owners : g = pgdir[q]
        BY <1>4, <3>1, Zenon
      <4>2. q \in Owners' /\ pgdir'[q] = pgdir[q]
        BY <1>2, <1>5, <4>1, Zenon
      <4> QED
        BY <4>1, <4>2, Zenon
    <3>2. CASE g \notin pgs
      BY <2>2, <3>2, Zenon
    <3> QED
      BY <3>1, <3>2, Zenon
  <2> QED
    BY <2>1, <2>2, Zenon
<1>11. ASSUME NEW q \in Owners', NEW r \in Owners', pgdir'[q] = pgdir'[r] PROVE q = r
  <2>1. ASSUME NEW s \in Owners', s # n PROVE s \in Owners /\ pgdir'[s] = pgdir[s] /\ pgdir[s] \in pgs
    <3>1. s \in Owners /\ s \in Slots \ {n}
      BY <1>5, <2>1, Zenon
    <3> QED
      BY <1>2, <1>4, <3>1, ZenonT(60)
  <2>2. n \in Owners' => (n \in Owners /\ pgdir'[n] = pgdir[n]) \/ pgdir'[n] \notin pgs
    BY Zenon
  <2>3. \A s, t \in Owners : pgdir[s] = pgdir[t] => s = t
    BY <1>4, Zenon
  <2> QED
    BY <1>11, <2>1, <2>2, <2>3, SMTT(30)
<1>12. ASSUME NEW q \in Slots, Raw(q)' \/ process'[q] # q \/ state'[q] = "ZOMBIE" PROVE ~cwd'[q]
  <2>1. CASE q = n
    BY <1>3, <1>12, <2>1, Zenon
  <2>2. CASE q # n
    <3>1. /\ Raw(q)' <=> Raw(q)
          /\ state'[q] = state[q] /\ process'[q] = process[q] /\ cwd'[q] = cwd[q]
      BY <1>1, <1>2, <2>2, Zenon
    <3> QED
      BY <1>4, <1>12, <3>1, Zenon
  <2> QED
    BY <2>1, <2>2, Zenon
<1> QED
  BY <1>6, <1>7, <1>8, <1>9, <1>10, <1>11, <1>12, ZenonT(60) DEF MemOK

(* allocproc takes a slot and hands out an id. *)
LEMMA AllocF ==
  ASSUME Firsts, FInv, XInv', NEW p \in Slots,
         \/ At(p, "fork") /\ Allocproc(p, "fork2")
         \/ At(p, "clone") /\ Allocproc(p, "clone2")
  PROVE  FInv'
<1>0. /\ IInv /\ IdOK /\ MemOK /\ ParentOK /\ TgidOK /\ RawOK
      /\ state \in [Slots -> States] /\ pc \in [Slots -> Pcs] /\ np \in [Slots -> Ptr]
      /\ pid \in [Slots -> Nat]
  BY Zenon DEF FInv, XInv, IInv, TypeOK
<1>1. PICK n \in Slots : n = First(Unused) /\ state[n] = "UNUSED"
  <2>1. Unused \in SUBSET Nat
    BY NPROCAssumption DEF Unused, Slots
  <2>2. Unused # {}
    BY Zenon DEF Allocproc
  <2>3. First(Unused) \in Unused
    BY <2>1, <2>2, Zenon DEF Firsts
  <2> QED
    BY <2>3, Zenon DEF Unused
<1>2. /\ state' = [state EXCEPT ![n] = "EMBRYO"] /\ pid' = [pid EXCEPT ![n] = nextpid]
      /\ np' = [np EXCEPT ![p] = n]
      /\ UNCHANGED <<tgid, process, parent, killed, pgdir, pgs, cwd, panicked>>
      /\ \/ pc[p] = "fork" /\ pc' = [pc EXCEPT ![p] = "fork2"]
         \/ pc[p] = "clone" /\ pc' = [pc EXCEPT ![p] = "clone2"]
  BY <1>1, Zenon DEF Allocproc, At, GoTo, mem
<1>3. /\ state'[n] = "EMBRYO" /\ np'[p] = n
      /\ \A q \in Slots \ {n} : state'[q] = state[q] /\ pid'[q] = pid[q]
      /\ \A q \in Slots \ {p} : pc'[q] = pc[q] /\ np'[q] = np[q]
      /\ \/ pc[p] = "fork" /\ pc'[p] = "fork2"
         \/ pc[p] = "clone" /\ pc'[p] = "clone2"
  BY <1>0, <1>1, <1>2, Zenon
<1>4. Builds(p, n)
  BY <1>1, <1>2, <1>3, Zenon DEF Builds, Exists, Creating, Forking
<1>5. Raw(n) /\ Raw(n)'
  BY <1>1, <1>3, Zenon DEF Raw
<1>6. n \notin Owners /\ n \notin Owners'
  BY <1>5, Zenon DEF Owners
<1>7. EmbryoOK' /\ ParentOK' /\ TgidOK'
  <2>1. parent'[n] = 0 /\ pc'[p] # "fork4" /\ pc'[p] \in Creating
    BY <1>0, <1>1, <1>2, <1>3, Zenon DEF ParentOK, Creating
  <2>2. /\ tgid'[n] # 0 => \A q \in Slots \ {n} : tgid[q] # tgid'[n]
        /\ \A q \in Slots \ {n} : Raw(q) /\ tgid[q] # 0 => tgid'[n] # tgid[q]
    BY <1>0, <1>1, <1>2, <1>5, ZenonT(60) DEF TgidOK
  <2> QED
    BY <1>4, <2>1, <2>2, BuildFamily, Zenon
<1>8. MemOK'
  <2>1. pgdir'[n] = 0 /\ ~cwd'[n] /\ pc'[p] \notin {"clone3", "clone4"}
    BY <1>0, <1>1, <1>2, <1>3, <1>5, ZenonT(60) DEF MemOK
  <2> QED
    BY <1>2, <1>4, <1>6, <2>1, BuildMem, Zenon
<1> QED
  BY <1>4, <1>7, <1>8, BuildProper, ZenonT(60) DEF FInv

(* A thread and the slot it fills in. *)
LEMMA Filling ==
  ASSUME FInv, NEW p \in Slots, pc[p] \in Creating
  PROVE  /\ np[p] \in Slots /\ state[np[p]] = "EMBRYO" /\ np[p] # p
         /\ Alive(p) /\ process[p] \in Slots /\ process[p] # np[p] /\ ~Raw(p)
         /\ Raw(np[p]) <=> pc[p] \in {"fork2", "clone2"}
<1>0. IInv /\ TgidOK
  BY Zenon DEF FInv, XInv
<1>1. Alive(p) /\ Exists(p)
  BY <1>0, Zenon DEF IInv, PcOK, Creating, Alive, Exists
<1>2. \A q \in Slots : pc[q] \in Creating => np[q] \in Slots /\ state[np[q]] = "EMBRYO"
  BY <1>0, Zenon DEF IInv, CreateOK
<1>3. np[p] # p
  BY <1>1, <1>2, Zenon DEF Alive
<1>4. process[p] \in Slots /\ process[p] # np[p]
  BY <1>0, <1>1, <1>2 DEF TgidOK, Exists
<1>5. {"fork2", "clone2"} \subseteq Creating
  BY Zenon DEF Creating
<1>6. ~Raw(p)
  BY <1>1, <1>2, <1>5, Zenon DEF Raw, Alive
<1>7. Raw(np[p]) <=> pc[p] \in {"fork2", "clone2"}
  <2>1. \A q \in Slots : pc[q] \in Creating /\ np[q] = np[p] => q = p
    BY <1>0, Zenon DEF IInv, CreateOK
  <2>2. state[np[p]] # "UNUSED"
    BY <1>2, Zenon
  <2> QED
    BY <1>5, <2>1, <2>2, Zenon DEF Raw
<1> QED
  BY <1>1, <1>2, <1>3, <1>4, <1>6, <1>7, ZenonT(60)

(* A slot that has its group is no longer raw. *)
LEMMA BuildGrouped ==
  ASSUME FInv, NEW p \in Slots, NEW n, Builds(p, n), state'[n] = "EMBRYO",
         pc'[p] \notin {"fork2", "clone2"}
  PROVE  ~Raw(n)'
<1>1. \A q \in Slots \ {p} : pc[q] \in Creating => np[q] \in Slots \ {n}
  BY BuildKinds, Zenon
<1>2. \A q \in Slots \ {p} : pc'[q] = pc[q] /\ np'[q] = np[q]
  BY Zenon DEF Builds
<1>3. {"fork2", "clone2"} \subseteq Creating
  BY Zenon DEF Creating
<1> QED
  BY <1>1, <1>2, <1>3, Zenon DEF Raw

(* There is no page for the kernel stack: the slot goes back. *)
LEMMA NoStackF ==
  ASSUME FInv, XInv', NEW p \in Slots, NoStack(p)
  PROVE  FInv'
<1>0. /\ IInv /\ IdOK /\ InitOK /\ MemOK /\ ParentOK /\ TgidOK
      /\ state \in [Slots -> States] /\ pc \in [Slots -> Pcs] /\ np \in [Slots -> Ptr]
  BY Zenon DEF FInv, XInv, IInv, TypeOK
<1>1. pc[p] \in {"fork2", "clone2"}
  BY Zenon DEF NoStack, At
<1>2. PICK n \in Slots : n = np[p] /\ state[n] = "EMBRYO" /\ Raw(n)
  BY <1>1, Filling, Zenon DEF Creating
<1>3. /\ state' = [state EXCEPT ![n] = "UNUSED"] /\ np' = [np EXCEPT ![p] = 0]
      /\ UNCHANGED <<pid, tgid, process, parent, killed, pgdir, pgs, cwd, panicked>>
      /\ \/ pc' = [pc EXCEPT ![p] = "user"]
         \/ pc' = [pc EXCEPT ![p] = "exit"] /\ p = initproc
  BY <1>2, Zenon DEF NoStack, Abandon, Return, GoTo, ids, mem
<1>4. /\ state'[n] = "UNUSED"
      /\ \A q \in Slots \ {n} : state'[q] = state[q]
      /\ \A q \in Slots \ {p} : pc'[q] = pc[q] /\ np'[q] = np[q]
      /\ pc'[p] = "user" \/ (pc'[p] = "exit" /\ p = initproc)
  BY <1>0, <1>2, <1>3, Zenon
<1>5. Builds(p, n)
  BY <1>1, <1>2, <1>3, <1>4, Zenon DEF Builds, Exists, Creating, Forking
<1>6. Raw(n)' /\ n \notin Owners /\ n \notin Owners'
  BY <1>2, <1>4, Zenon DEF Raw, Owners
<1>7. EmbryoOK' /\ ParentOK' /\ TgidOK'
  <2>1. parent'[n] = 0 /\ state'[n] # "EMBRYO"
    BY <1>0, <1>1, <1>2, <1>3, <1>4, Zenon DEF ParentOK
  <2>2. pc'[p] \notin {"fork2", "fork3", "clone2", "clone3"} /\ pc'[p] # "fork4"
    BY <1>4, Zenon
  <2>3. /\ tgid'[n] # 0 => \A q \in Slots \ {n} : tgid[q] # tgid'[n]
        /\ \A q \in Slots \ {n} : Raw(q) /\ tgid[q] # 0 => tgid'[n] # tgid[q]
    BY <1>0, <1>2, <1>3, Zenon DEF TgidOK
  <2> QED
    BY <1>5, <2>1, <2>2, <2>3, BuildFamily, Zenon
<1>8. MemOK'
  <2>1. pgdir'[n] = 0 /\ ~cwd'[n] /\ pc'[p] \notin {"clone3", "clone4"}
    BY <1>0, <1>2, <1>3, <1>4, ZenonT(60) DEF MemOK
  <2> QED
    BY <1>3, <1>5, <1>6, <2>1, BuildMem, ZenonT(60)
<1> QED
  BY <1>5, <1>7, <1>8, BuildProper, ZenonT(60) DEF FInv

(* fork makes the slot a leader and copies the address space, or gives the *)
(* slot back.                                                              *)
LEMMA ForkGroupF ==
  ASSUME Firsts, FInv, XInv', NEW p \in Slots, ForkGroup(p)
  PROVE  FInv'
<1>0. /\ IInv /\ IdOK /\ InitOK /\ MemOK /\ ParentOK /\ TgidOK
      /\ state \in [Slots -> States] /\ pc \in [Slots -> Pcs] /\ np \in [Slots -> Ptr]
      /\ tgid \in [Slots -> Nat] /\ process \in [Slots -> Ptr] /\ pgdir \in [Slots -> {0} \cup PgIds]
  BY Zenon DEF FInv, XInv, IInv, TypeOK
<1>1. pc[p] = "fork2"
  BY Zenon DEF ForkGroup, At
<1>2. PICK n \in Slots : n = np[p] /\ state[n] = "EMBRYO" /\ Raw(n)
  BY <1>1, Filling, Zenon DEF Creating
<1>3. /\ tgid' = [tgid EXCEPT ![n] = pid[n]] /\ process' = [process EXCEPT ![n] = n]
      /\ UNCHANGED <<pid, parent, killed, cwd, panicked>>
  BY <1>2, Zenon DEF ForkGroup
<1>4. /\ tgid'[n] = pid[n] /\ process'[n] = n
      /\ \A q \in Slots \ {n} : tgid'[q] = tgid[q] /\ process'[q] = process[q]
  BY <1>0, <1>2, <1>3, Zenon
<1>5. /\ n \notin Owners /\ parent'[n] = 0 /\ ~cwd'[n]
      /\ \A q \in Slots \ {n} : tgid[q] # tgid'[n]
  <2>1. parent[n] = 0
    BY <1>0, <1>1, <1>2, Zenon DEF ParentOK
  <2>2. ~cwd[n]
    BY <1>0, <1>2, Zenon DEF MemOK
  <2>3. \A q \in Slots \ {n} : tgid[q] # pid[n]
    BY <1>0, <1>2, ZenonT(60) DEF IdOK
  <2> QED
    BY <1>2, <1>3, <1>4, <2>1, <2>2, <2>3, ZenonT(60) DEF Owners
<1>6. CASE pc' = [pc EXCEPT ![p] = "fork3"]
  <2>1. PICK a \in PgIds : /\ a \notin pgs /\ a # 0 /\ pgdir' = [pgdir EXCEPT ![n] = a]
                           /\ pgs' = pgs \cup {a} /\ state' = state /\ np' = np
    <3>1. pc'[p] = "fork3"
      BY <1>0, <1>6, Zenon
    <3>2. ~Abandon(p)
      BY <1>0, <3>1, ZenonT(60) DEF Abandon, Return, GoTo
    <3>3. /\ PgIds \ pgs # {} /\ pgdir' = [pgdir EXCEPT ![n] = First(PgIds \ pgs)]
          /\ pgs' = pgs \cup {First(PgIds \ pgs)} /\ state' = state /\ np' = np
      BY <1>2, <3>2, Zenon DEF ForkGroup, locals
    <3>4. PgIds \ pgs \in SUBSET Nat /\ 0 \notin PgIds
      BY NPROCAssumption DEF PgIds
    <3>5. First(PgIds \ pgs) \in PgIds \ pgs
      BY <3>3, <3>4, Zenon DEF Firsts
    <3> QED
      BY <3>3, <3>4, <3>5, Zenon
  <2>2. /\ pgdir'[n] = a /\ \A q \in Slots \ {n} : pgdir'[q] = pgdir[q]
        /\ pc'[p] = "fork3" /\ \A q \in Slots \ {p} : pc'[q] = pc[q]
    BY <1>0, <1>2, <1>6, <2>1, Zenon
  <2>3. Builds(p, n)
    BY <1>1, <1>2, <1>3, <1>4, <2>1, <2>2, ZenonT(60) DEF Builds, Exists, Creating, Forking
  <2>4. ~Raw(n)' /\ state'[n] = "EMBRYO"
    BY <1>2, <2>1, <2>2, <2>3, BuildGrouped, ZenonT(60)
  <2>5. n \in Owners'
    BY <1>4, <2>4, Zenon DEF Owners
  <2>6. EmbryoOK' /\ ParentOK' /\ TgidOK'
    <3>1. state'[n] # "UNUSED" /\ pc'[p] \in Creating /\ pc'[p] # "fork4"
      BY <2>2, <2>4, Zenon DEF Creating
    <3>2. \A q \in Slots \ {n} : Raw(q) /\ tgid[q] # 0 => tgid'[n] # tgid[q]
      BY <1>5, Zenon
    <3> QED
      BY <1>5, <2>3, <2>4, <3>1, <3>2, BuildFamily, ZenonT(60)
  <2>7. MemOK'
    <3>1. pid'[n] = tgid'[n] /\ pc'[p] \notin {"clone3", "clone4"}
      BY <1>3, <1>4, <2>2, Zenon
    <3> QED
      BY <1>4, <1>5, <2>1, <2>2, <2>3, <2>4, <2>5, <3>1, BuildMem, ZenonT(60)
  <2> QED
    BY <2>3, <2>6, <2>7, BuildProper, Zenon DEF FInv
<1>7. CASE pc' # [pc EXCEPT ![p] = "fork3"]
  <2>1. /\ state' = [state EXCEPT ![n] = "UNUSED"] /\ np' = [np EXCEPT ![p] = 0]
        /\ pgdir' = [pgdir EXCEPT ![n] = 0] /\ pgs' = pgs
        /\ \/ pc' = [pc EXCEPT ![p] = "user"]
           \/ pc' = [pc EXCEPT ![p] = "exit"] /\ p = initproc
    BY <1>2, <1>7, Zenon DEF ForkGroup, Abandon, Return, GoTo
  <2>2. /\ state'[n] = "UNUSED" /\ pgdir'[n] = 0
        /\ \A q \in Slots \ {n} : state'[q] = state[q] /\ pgdir'[q] = pgdir[q]
        /\ \A q \in Slots \ {p} : pc'[q] = pc[q] /\ np'[q] = np[q]
        /\ pc'[p] = "user" \/ (pc'[p] = "exit" /\ p = initproc)
    BY <1>0, <1>2, <2>1, ZenonT(60)
  <2>3. Builds(p, n)
    BY <1>1, <1>2, <1>3, <1>4, <2>2, ZenonT(60) DEF Builds, Exists, Creating, Forking
  <2>4. Raw(n)' /\ n \notin Owners'
    BY <2>2, Zenon DEF Raw, Owners
  <2>5. EmbryoOK' /\ ParentOK' /\ TgidOK'
    <3>1. state'[n] # "EMBRYO"
      BY <2>2, Zenon
    <3>2. pc'[p] \notin {"fork2", "fork3", "clone2", "clone3"} /\ pc'[p] # "fork4"
      BY <2>2, Zenon
    <3>3. \A q \in Slots \ {n} : Raw(q) /\ tgid[q] # 0 => tgid'[n] # tgid[q]
      BY <1>5, Zenon
    <3> QED
      BY <1>5, <2>3, <3>1, <3>2, <3>3, BuildFamily, ZenonT(60)
  <2>6. MemOK'
    <3>1. pc'[p] \notin {"clone3", "clone4"}
      BY <2>2, Zenon
    <3> QED
      BY <1>5, <2>1, <2>2, <2>3, <2>4, <3>1, BuildMem, ZenonT(60)
  <2> QED
    BY <2>3, <2>5, <2>6, BuildProper, ZenonT(60) DEF FInv
<1> QED
  BY <1>6, <1>7, Zenon

(* fork gives the new process a parent and a working directory. *)
LEMMA ForkParentF ==
  ASSUME FInv, XInv', NEW p \in Slots, ForkParent(p)
  PROVE  FInv'
<1>0. /\ IInv /\ MemOK /\ TgidOK /\ pc \in [Slots -> Pcs]
      /\ parent \in [Slots -> Ptr] /\ cwd \in [Slots -> BOOLEAN]
  BY Zenon DEF FInv, XInv, IInv, TypeOK
<1>1. pc[p] = "fork3"
  BY Zenon DEF ForkParent, At
<1>2. PICK n \in Slots : n = np[p] /\ state[n] = "EMBRYO" /\ ~Raw(n) /\ process[n] = n
  BY <1>0, <1>1, Filling, ZenonT(60) DEF Creating, IInv, NewOK
<1>3. /\ parent' = [parent EXCEPT ![n] = process[p]] /\ cwd' = [cwd EXCEPT ![n] = TRUE]
      /\ UNCHANGED <<state, pid, tgid, process, killed, pgdir, pgs, np, panicked>>
      /\ pc' = [pc EXCEPT ![p] = "fork4"]
  BY <1>2, Zenon DEF ForkParent, GoTo, locals
<1>4. /\ parent'[n] = process[p] /\ pc'[p] = "fork4"
      /\ \A q \in Slots \ {n} : parent'[q] = parent[q] /\ cwd'[q] = cwd[q]
      /\ \A q \in Slots \ {p} : pc'[q] = pc[q]
  BY <1>0, <1>2, <1>3, Zenon
<1>5. Builds(p, n)
  BY <1>1, <1>2, <1>3, <1>4, ZenonT(60) DEF Builds, Exists, Creating, Forking
<1>6. ~Raw(n)'
  BY <1>2, <1>3, <1>4, <1>5, BuildGrouped, ZenonT(60)
<1>7. n \in Owners /\ n \in Owners'
  BY <1>2, <1>3, <1>6, Zenon DEF Owners
<1>8. EmbryoOK' /\ ParentOK' /\ TgidOK'
  <2>1. state'[n] # "UNUSED" /\ pc'[p] \in Creating /\ pc'[p] \notin {"fork2", "fork3", "clone2", "clone3"}
    BY <1>2, <1>3, <1>4, ZenonT(60) DEF Creating
  <2>2. \A q \in Slots \ {n} : Raw(q) /\ tgid[q] # 0 => tgid'[n] # tgid[q]
    BY <1>0, <1>2, <1>3, Zenon DEF TgidOK
  <2> QED
    BY <1>4, <1>5, <1>6, <2>1, <2>2, BuildFamily, ZenonT(60)
<1>9. MemOK'
  <2>1. pid[n] = tgid[n] /\ pgdir[n] # 0 /\ pgdir[n] \in pgs /\ pc'[p] \notin {"clone3", "clone4"}
    BY <1>0, <1>4, <1>7, Zenon DEF MemOK
  <2>2. pgs' = pgs \cup {pgdir'[n]}
    BY <1>3, <2>1, Zenon
  <2> QED
    BY <1>2, <1>3, <1>5, <1>6, <1>7, <2>1, <2>2, BuildMem, ZenonT(60)
<1> QED
  BY <1>5, <1>8, <1>9, BuildProper, ZenonT(60) DEF FInv

(* clone puts the slot into the group of the caller. *)
LEMMA CloneGroupF ==
  ASSUME FInv, XInv', NEW p \in Slots, CloneGroup(p)
  PROVE  FInv'
<1>0. /\ IInv /\ MemOK /\ ParentOK /\ TgidOK /\ pc \in [Slots -> Pcs]
      /\ tgid \in [Slots -> Nat] /\ process \in [Slots -> Ptr] /\ pgdir \in [Slots -> {0} \cup PgIds]
  BY Zenon DEF FInv, XInv, IInv, TypeOK
<1>1. pc[p] = "clone2"
  BY Zenon DEF CloneGroup, At
<1>2. PICK n \in Slots : n = np[p] /\ state[n] = "EMBRYO" /\ Raw(n) /\ n # p /\ process[p] # n /\ ~Raw(p)
  BY <1>1, Filling, Zenon DEF Creating
<1>3. /\ tgid' = [tgid EXCEPT ![n] = tgid[p]] /\ process' = [process EXCEPT ![n] = process[p]]
      /\ pgdir' = [pgdir EXCEPT ![n] = pgdir[p]]
      /\ UNCHANGED <<state, pid, parent, killed, cwd, pgs, np, panicked>>
      /\ pc' = [pc EXCEPT ![p] = "clone3"]
  BY <1>2, Zenon DEF CloneGroup, GoTo
<1>4. /\ tgid'[n] = tgid[p] /\ process'[n] = process[p] /\ pgdir'[n] = pgdir[p] /\ pc'[p] = "clone3"
      /\ \A q \in Slots \ {n} : tgid'[q] = tgid[q] /\ process'[q] = process[q] /\ pgdir'[q] = pgdir[q]
      /\ \A q \in Slots \ {p} : pc'[q] = pc[q]
  BY <1>0, <1>2, <1>3, Zenon
<1>5. Builds(p, n)
  BY <1>1, <1>2, <1>3, <1>4, ZenonT(60) DEF Builds, Exists, Creating, Forking
<1>6. ~Raw(n)'
  BY <1>2, <1>3, <1>4, <1>5, BuildGrouped, ZenonT(60)
<1>7. n \notin Owners /\ n \notin Owners'
  BY <1>2, <1>4, Zenon DEF Owners
<1>8. EmbryoOK' /\ ParentOK' /\ TgidOK'
  <2>1. state'[n] # "UNUSED" /\ pc'[p] \in Creating /\ pc'[p] # "fork4" /\ parent'[n] = 0
    BY <1>0, <1>1, <1>2, <1>3, <1>4, ZenonT(60) DEF Creating, ParentOK
  <2>2. \A q \in Slots \ {n} : Raw(q) /\ tgid[q] # 0 => tgid'[n] # tgid[q]
    <3>1. \A q \in Slots : Raw(q) => q # p
      BY <1>2, Zenon
    <3>2. \A q \in Slots : q # p /\ Raw(q) /\ tgid[q] # 0 => tgid[p] # tgid[q]
      BY <1>0, Zenon DEF TgidOK
    <3> QED
      BY <1>4, <3>1, <3>2, Zenon
  <2> QED
    BY <1>5, <1>6, <2>1, <2>2, BuildFamily, Zenon
<1>9. MemOK'
  <2>1. ~cwd'[n]
    BY <1>0, <1>2, <1>3, Zenon DEF MemOK
  <2> QED
    BY <1>3, <1>4, <1>5, <1>6, <1>7, <2>1, BuildMem, ZenonT(60)
<1> QED
  BY <1>5, <1>8, <1>9, BuildProper, ZenonT(60) DEF FInv

(* clone gives the slot the parent that the caller had. *)
LEMMA CloneParentF ==
  ASSUME FInv, XInv', NEW p \in Slots, CloneParent(p)
  PROVE  FInv'
<1>0. /\ IInv /\ MemOK /\ TgidOK /\ pc \in [Slots -> Pcs] /\ parent \in [Slots -> Ptr]
  BY Zenon DEF FInv, XInv, IInv, TypeOK
<1>1. pc[p] = "clone3"
  BY Zenon DEF CloneParent, At
<1>2. PICK n \in Slots : n = np[p] /\ state[n] = "EMBRYO" /\ ~Raw(n) /\ process[n] # n
  BY <1>0, <1>1, Filling, SMTT(30) DEF Creating, IInv, NewOK
<1>3. /\ parent' = [parent EXCEPT ![n] = tmp[p]]
      /\ UNCHANGED <<state, pid, tgid, process, killed, pgdir, pgs, cwd, np, panicked>>
      /\ pc' = [pc EXCEPT ![p] = "clone4"]
  BY <1>2, Zenon DEF CloneParent, GoTo, locals, mem
<1>4. /\ pc'[p] = "clone4"
      /\ \A q \in Slots \ {n} : parent'[q] = parent[q]
      /\ \A q \in Slots \ {p} : pc'[q] = pc[q]
  BY <1>0, <1>2, <1>3, Zenon
<1>5. Builds(p, n)
  BY <1>1, <1>2, <1>3, <1>4, Zenon DEF Builds, Exists, Creating, Forking
<1>6. ~Raw(n)'
  BY <1>2, <1>3, <1>4, <1>5, BuildGrouped, Zenon
<1>7. n \notin Owners /\ n \notin Owners'
  BY <1>2, <1>3, Zenon DEF Owners
<1>8. EmbryoOK' /\ ParentOK' /\ TgidOK'
  <2>1. /\ state'[n] # "UNUSED" /\ pc'[p] \in Creating /\ pc'[p] # "fork4"
        /\ pc'[p] \notin {"fork2", "fork3", "clone2", "clone3"}
    BY <1>2, <1>3, <1>4, Zenon DEF Creating
  <2>2. \A q \in Slots \ {n} : Raw(q) /\ tgid[q] # 0 => tgid'[n] # tgid[q]
    BY <1>0, <1>2, <1>3, Zenon DEF TgidOK
  <2> QED
    BY <1>5, <1>6, <2>1, <2>2, BuildFamily, Zenon
<1>9. MemOK'
  <2>1. ~cwd'[n]
    BY <1>0, <1>2, <1>3, Zenon DEF MemOK
  <2>2. pgdir'[n] = pgdir[p]
    BY <1>0, <1>1, <1>2, <1>3, Zenon DEF MemOK
  <2> QED
    BY <1>3, <1>5, <1>6, <1>7, <2>1, <2>2, BuildMem, ZenonT(60)
<1> QED
  BY <1>5, <1>8, <1>9, BuildProper, ZenonT(60) DEF FInv

-----------------------------------------------------------------------------
(* fork and clone start what they have built.  A clone whose caller has    *)
(* been killed makes a ZOMBIE instead.                                     *)
Commits(p, n) ==
  /\ pc[p] \in {"fork4", "clone4"} /\ n \in Slots /\ np[p] = n
  /\ UNCHANGED <<pid, tgid, process, parent, killed, pgdir, pgs, cwd, panicked>>
  /\ state'[n] \in {"RUNNABLE", "ZOMBIE"}
  /\ state'[n] = "ZOMBIE" => pc[p] = "clone4"
  /\ state'[n] = "RUNNABLE" /\ pc[p] = "clone4" => ~killed[p]
  /\ \A q \in Slots \ {n} : state'[q] = state[q]
  /\ pc'[p] = "user" /\ pc'[n] \in {"none", "user"}
  /\ \A q \in Slots \ {p, n} : pc'[q] = pc[q]
  /\ \A q \in Slots \ {p} : np'[q] = np[q]

(* What the new slot is before it starts, and who keeps out of it. *)
LEMMA StartKinds ==
  ASSUME FInv, NEW p \in Slots, NEW n, Commits(p, n)
  PROVE  /\ state[n] = "EMBRYO" /\ ~Exists(n) /\ Exists(n)' /\ n # p /\ Alive(p)
         /\ \A q \in Slots \ {n} : (Alive(q)' <=> Alive(q)) /\ (Exists(q)' <=> Exists(q))
         /\ \A q \in Slots : Alive(q) => Exists(q)
         /\ \A q \in Slots : Exists(q) => q # n /\ process[q] \in Slots \ {n}
         /\ \A q \in Slots : pc'[q] \in Creating =>
              q \notin {p, n} /\ pc[q] = pc'[q] /\ np'[q] = np[q] /\ np[q] \in Slots \ {n}
         /\ \A q \in Slots : Raw(q)' <=> Raw(q)
         /\ Owners' = Owners
         /\ pc[p] = "fork4" => process[n] = n /\ tgid[n] = pid[n] /\ parent[n] = process[p]
         /\ pc[p] = "clone4" => process[n] = process[p] /\ tgid[n] = tgid[p] /\ pgdir[n] = pgdir[p]
         /\ \A q \in Slots \ {n} : tgid[q] # pid[n]
         /\ pid[n] # 0
<1>0. IInv /\ IdOK /\ TgidOK /\ ParentOK /\ MemOK /\ n \in Slots /\ n = np[p]
  BY Zenon DEF FInv, XInv, Commits
<1>1. pc[p] \in Creating /\ pc[p] \notin {"fork2", "clone2"}
  BY Zenon DEF Commits, Creating
<1>2. state[n] = "EMBRYO" /\ n # p /\ Alive(p) /\ ~Raw(n)
  BY <1>0, <1>1, Filling, Zenon
<1>3. ~Exists(n) /\ Exists(n)' /\ \A q \in Slots : Alive(q) => Exists(q)
  BY <1>2, Zenon DEF Commits, Exists, Alive
<1>4. \A q \in Slots \ {n} : (Alive(q)' <=> Alive(q)) /\ (Exists(q)' <=> Exists(q))
  BY Zenon DEF Commits, Exists, Alive
<1>5. \A q \in Slots : Exists(q) => q # n /\ process[q] \in Slots \ {n}
  BY <1>0, <1>3, Zenon DEF TgidOK
<1>6. ASSUME NEW q \in Slots, pc'[q] \in Creating
      PROVE  q \notin {p, n} /\ pc[q] = pc'[q] /\ np'[q] = np[q] /\ np[q] \in Slots \ {n}
  <2>1. q # p /\ q # n
    BY <1>6, Zenon DEF Commits, Creating
  <2>2. pc[q] = pc'[q] /\ np'[q] = np[q]
    BY <2>1, Zenon DEF Commits
  <2>3. np[q] \in Slots /\ np[q] # np[p]
    BY <1>0, <1>1, <1>6, <2>1, <2>2, ZenonT(60) DEF IInv, CreateOK
  <2> QED
    BY <1>0, <2>1, <2>2, <2>3, Zenon
<1>7. ASSUME NEW q \in Slots PROVE Raw(q)' <=> Raw(q)
  <2>1. {"fork2", "clone2"} \subseteq Creating
    BY Zenon DEF Creating
  <2>2. state'[q] = "UNUSED" <=> state[q] = "UNUSED"
    BY <1>2, Zenon DEF Commits
  <2>3. ASSUME NEW r \in Slots, pc[r] \in {"fork2", "clone2"}
        PROVE  pc'[r] = pc[r] /\ np'[r] = np[r]
    <3>1. r # p /\ Alive(r)
      BY <1>0, <1>1, <2>3, ZenonT(60) DEF IInv, PcOK
    <3>2. r # n
      BY <1>3, <3>1, Zenon
    <3> QED
      BY <3>1, <3>2, Zenon DEF Commits
  <2> QED
    BY <1>6, <2>1, <2>2, <2>3, ZenonT(60) DEF Raw
<1>8. Owners' = Owners
  <2>1. \A q \in Slots : state'[q] = "UNUSED" <=> state[q] = "UNUSED"
    BY <1>2, Zenon DEF Commits
  <2>2. process' = process
    BY Zenon DEF Commits
  <2> QED
    BY <1>7, <2>1, <2>2, Zenon DEF Owners
<1>9. pc[p] = "fork4" => process[n] = n /\ tgid[n] = pid[n] /\ parent[n] = process[p]
  BY <1>0, Zenon DEF IInv, NewOK, IdOK, ParentOK
<1>10. pc[p] = "clone4" => process[n] = process[p] /\ tgid[n] = tgid[p] /\ pgdir[n] = pgdir[p]
  BY <1>0, Zenon DEF IInv, NewOK, MemOK
<1>11. pid[n] # 0 /\ \A q \in Slots \ {n} : tgid[q] # pid[n]
  BY <1>0, <1>2, Zenon DEF IdOK
<1> QED
  BY <1>2, <1>3, <1>4, <1>5, <1>6, <1>7, <1>8, <1>9, <1>10, <1>11, ZenonT(60)

(* The promises of the programs: the new thread is in user space, and the  *)
(* leader of a new thread is neither marked nor on its way out.            *)
LEMMA StartProper ==
  ASSUME FInv, NEW p \in Slots, NEW n, Commits(p, n)
  PROVE  InitOK' /\ LeaderOK' /\ WaitOK' /\ LastOK' /\ NoUndead'
<1>0. IInv /\ InitOK /\ LeaderOK /\ WaitOK /\ LastOK /\ NoUndead /\ n \in Slots
  BY Zenon DEF FInv, XInv, Commits
<1>1. /\ ~Exists(n) /\ n # p /\ Alive(p)
      /\ \A q \in Slots \ {n} : Alive(q)' <=> Alive(q)
      /\ \A q \in Slots : Alive(q) => q # n /\ process[q] \in Slots \ {n}
      /\ pc[p] = "fork4" => process[n] = n
      /\ pc[p] = "clone4" => process[n] = process[p]
  <2>1. /\ \A q \in Slots : Alive(q) => Exists(q)
        /\ \A q \in Slots : Exists(q) => q # n /\ process[q] \in Slots \ {n}
    BY StartKinds, Zenon
  <2>2. /\ ~Exists(n) /\ n # p /\ Alive(p)
        /\ \A q \in Slots \ {n} : Alive(q)' <=> Alive(q)
    BY StartKinds
  <2>3. /\ pc[p] = "fork4" => process[n] = n
        /\ pc[p] = "clone4" => process[n] = process[p]
    BY StartKinds
  <2> QED
    BY <2>1, <2>2, <2>3, Zenon
<1>2. process' = process /\ killed' = killed /\ cwd' = cwd
  BY Zenon DEF Commits
<1>3. \A q \in Slots : pc'[q] \notin {"user", "none"} => q \notin {p, n} /\ pc[q] = pc'[q]
  BY Zenon DEF Commits
<1>4. initproc \in Slots
  BY NPROCAssumption DEF initproc, Slots
<1>5. InitOK'
  <2>1. initproc # n /\ Alive(initproc)' /\ process'[initproc] = initproc
    BY <1>0, <1>1, <1>2, <1>4, ZenonT(60) DEF InitOK
  <2>2. pc'[initproc] \in Forking \cup {"user", "wait", "exit"}
    BY <1>0, <1>4, <2>1, Zenon DEF InitOK, Commits
  <2>3. ASSUME NEW q \in Slots, Alive(q)', process'[q] = initproc PROVE q = initproc
    <3>1. CASE q # n
      BY <1>0, <1>1, <1>2, <2>3, <3>1, ZenonT(60) DEF InitOK
    <3>2. CASE q = n
      <4>1. pc[p] = "clone4" /\ process[p] = initproc
        BY <1>1, <1>2, <2>1, <2>3, <3>2, ZenonT(60) DEF Commits
      <4>2. p = initproc
        BY <1>0, <1>1, <4>1, Zenon DEF InitOK
      <4> QED
        BY <1>0, <4>1, <4>2, Zenon DEF InitOK, Forking
    <3> QED
      BY <3>1, <3>2, Zenon
  <2> QED
    BY <2>1, <2>2, <2>3, Zenon DEF InitOK
<1>6. WaitOK'
  <2>1. {"user", "none"} \cap Forking = {}
    BY Zenon DEF Forking
  <2> QED
    BY <1>0, <1>2, <1>3, <2>1, Zenon DEF WaitOK
<1>7. LeaderOK'
  <2>1. ASSUME NEW q \in Slots, Alive(q)' PROVE Alive(process[q])'
    <3>1. CASE q # n
      <4>1. Alive(process[q]) /\ process[q] \in Slots \ {n}
        BY <1>0, <1>1, <2>1, <3>1, ZenonT(60) DEF LeaderOK
      <4> QED
        BY <1>1, <1>2, <4>1, Zenon DEF Alive
    <3>2. CASE q = n /\ pc[p] = "fork4"
      BY <1>1, <1>2, <2>1, <3>2, Zenon DEF Alive
    <3>3. CASE q = n /\ pc[p] = "clone4"
      <4>1. Alive(process[p]) /\ process[p] \in Slots \ {n}
        BY <1>0, <1>1, Zenon DEF LeaderOK
      <4> QED
        BY <1>1, <1>2, <3>3, <4>1, ZenonT(60) DEF Alive
    <3> QED
      BY <3>1, <3>2, <3>3, Zenon DEF Commits
  <2>2. ASSUME NEW q \in Slots, NEW r \in Slots, Alive(q)', process'[q] = q,
               killed'[q] \/ pc'[q] \in Exiting, Alive(r)', process'[r] = q
        PROVE  r = q
    <3>1. CASE q = n
      BY <1>1, <1>2, <2>2, <3>1, Zenon
    <3>2. CASE q # n
      <4>1. Alive(q) /\ (killed[q] \/ (pc[q] \in Exiting /\ q # p))
        BY <1>1, <1>2, <1>3, <2>2, <3>2, ZenonT(60) DEF Exiting
      <4>2. CASE r # n
        BY <1>0, <1>1, <1>2, <2>2, <4>1, <4>2, ZenonT(60) DEF LeaderOK
      <4>3. CASE r = n
        <5>1. pc[p] = "clone4" /\ process[p] = q
          BY <1>1, <1>2, <2>2, <3>2, <4>3, ZenonT(60) DEF Commits
        <5>2. p = q
          BY <1>0, <1>1, <1>2, <2>2, <4>1, <5>1, ZenonT(60) DEF LeaderOK
        <5>3. ~killed[p]
          BY <2>2, <4>3, <5>1, Zenon DEF Commits, Alive
        <5> QED
          BY <4>1, <5>2, <5>3, Zenon
      <4> QED
        BY <4>2, <4>3, Zenon
    <3> QED
      BY <3>1, <3>2, Zenon
  <2>3. ASSUME NEW q \in Slots, pc'[q] \in Execing PROVE process'[q] = q
    BY <1>0, <1>2, <1>3, <2>3, ZenonT(60) DEF LeaderOK, Execing
  <2> QED
    BY <2>1, <2>2, <2>3, Zenon DEF LeaderOK
<1>8. LastOK' /\ NoUndead'
  BY <1>0, <1>2, <1>3, SMTT(30) DEF LastOK, NoUndead, Commits
<1> QED
  BY <1>5, <1>6, <1>7, <1>8, Zenon

(* A new process is the child of the process that forked it, under an id   *)
(* that nobody has; a new thread is in the group of its leader.            *)
LEMMA CommitF ==
  ASSUME FInv, XInv', NEW p \in Slots, NEW n, Commits(p, n)
  PROVE  FInv'
<1>0. IInv /\ LeaderOK /\ EmbryoOK /\ ParentOK /\ TgidOK /\ MemOK /\ n \in Slots
  BY Zenon DEF FInv, XInv, Commits
<1>1. /\ state[n] = "EMBRYO" /\ ~Exists(n) /\ n # p /\ Alive(p)
      /\ \A q \in Slots \ {n} : (Alive(q)' <=> Alive(q)) /\ (Exists(q)' <=> Exists(q))
      /\ \A q \in Slots : Alive(q) => Exists(q)
      /\ \A q \in Slots : Exists(q) => q # n /\ process[q] \in Slots \ {n}
  BY StartKinds
<1>2. /\ \A q \in Slots : pc'[q] \in Creating =>
              q \notin {p, n} /\ pc[q] = pc'[q] /\ np'[q] = np[q] /\ np[q] \in Slots \ {n}
      /\ \A q \in Slots : Raw(q)' <=> Raw(q)
      /\ Owners' = Owners
  BY StartKinds, Zenon
<1>3. /\ pc[p] = "fork4" => process[n] = n /\ tgid[n] = pid[n] /\ parent[n] = process[p]
      /\ pc[p] = "clone4" => process[n] = process[p] /\ tgid[n] = tgid[p] /\ pgdir[n] = pgdir[p]
      /\ \A q \in Slots \ {n} : tgid[q] # pid[n]
      /\ pid[n] # 0
      /\ pc[p] \in {"fork4", "clone4"}
  <2>1. pc[p] \in {"fork4", "clone4"}
    BY Zenon DEF Commits
  <2> QED
    BY <2>1, StartKinds
<1>4. UNCHANGED <<pid, tgid, process, parent, pgdir, pgs, cwd>>
  BY Zenon DEF Commits
<1>5. \A q \in Slots \ {n} : state'[q] = state[q]
  BY Zenon DEF Commits
<1>6. Exists(p) /\ process[p] \in Slots \ {n} /\ tgid[p] # 0
      /\ Exists(process[p]) /\ process[process[p]] = process[p]
  BY <1>0, <1>1, Zenon DEF TgidOK
<1>7. EmbryoOK'
  <2> SUFFICES ASSUME NEW q \in Slots, state'[q] = "EMBRYO"
               PROVE  \E r \in Slots : pc'[r] \in Creating /\ np'[r] = q
    BY Zenon DEF EmbryoOK
  <2>1. q # n
    BY Zenon DEF Commits
  <2>2. PICK r \in Slots : pc[r] \in Creating /\ np[r] = q
    BY <1>0, <1>5, <2>1, Zenon DEF EmbryoOK
  <2>3. r # p /\ r # n
    <3>1. Alive(r)
      BY <1>0, <2>2, Zenon DEF IInv, PcOK, Creating
    <3> QED
      BY <1>1, <2>1, <2>2, <3>1, Zenon DEF Commits
  <2> QED
    BY <2>2, <2>3, Zenon DEF Commits
<1>8. ParentOK'
  <2>1. ASSUME NEW q \in Slots, state'[q] = "UNUSED" PROVE parent'[q] = 0
    BY <1>0, <1>1, <1>4, <1>5, <2>1, ZenonT(60) DEF ParentOK, Commits
  <2>2. ASSUME NEW q \in Slots, pc'[q] \in {"fork2", "fork3", "clone2", "clone3"}
        PROVE  parent'[np'[q]] = 0
    <3>1. pc[q] = pc'[q] /\ np'[q] = np[q]
      BY <1>2, <2>2, Zenon DEF Creating
    <3>2. parent[np[q]] = 0
      BY <1>0, <2>2, <3>1, Zenon DEF ParentOK
    <3> QED
      BY <1>4, <3>1, <3>2, Zenon
  <2>3. ASSUME NEW q \in Slots, pc'[q] = "fork4" PROVE parent'[np'[q]] = process'[q]
    <3>1. pc[q] = "fork4" /\ np'[q] = np[q]
      BY <1>2, <2>3, Zenon DEF Creating
    <3> QED
      BY <1>0, <1>4, <3>1, Zenon DEF ParentOK
  <2>4. ASSUME NEW q \in Slots \ {initproc}, Exists(q)', process'[q] = q
        PROVE  parent'[q] \in Slots /\ Alive(parent[q])' /\ process'[parent'[q]] = parent'[q]
    <3>1. parent[q] \in Slots /\ Alive(parent[q]) /\ process[parent[q]] = parent[q]
      <4>1. CASE q # n
        BY <1>0, <1>1, <1>4, <2>4, <4>1, ZenonT(60) DEF ParentOK
      <4>2. CASE q = n
        <5>1. pc[p] = "fork4"
          BY <1>3, <1>4, <1>6, <2>4, <4>2, ZenonT(60)
        <5>2. Alive(process[p])
          BY <1>0, <1>1, Zenon DEF LeaderOK
        <5> QED
          BY <1>3, <1>6, <4>2, <5>1, <5>2, ZenonT(60)
      <4> QED
        BY <4>1, <4>2, Zenon
    <3>2. Alive(parent[q])'
      BY <1>1, <1>4, <1>5, <3>1, ZenonT(60) DEF Alive
    <3> QED
      BY <1>4, <3>1, <3>2, Zenon
  <2> QED
    BY <2>1, <2>2, <2>3, <2>4, Zenon DEF ParentOK
<1>9. TgidOK'
  <2>1. ASSUME NEW q \in Slots, Exists(q)'
        PROVE  /\ tgid'[q] # 0 /\ process'[q] \in Slots
               /\ Exists(process[q])' /\ process'[process'[q]] = process'[q]
    <3>1. CASE q # n
      <4>1. /\ tgid[q] # 0 /\ process[q] \in Slots \ {n} /\ Exists(process[q])
            /\ process[process[q]] = process[q]
        BY <1>0, <1>1, <2>1, <3>1, ZenonT(60) DEF TgidOK
      <4>2. Exists(process[q])'
        BY <1>4, <1>5, <4>1, Zenon DEF Exists
      <4> QED
        BY <1>4, <4>1, <4>2, Zenon
    <3>2. CASE q = n /\ pc[p] = "fork4"
      BY <1>0, <1>3, <1>4, <2>1, <3>2, ZenonT(60) DEF Exists
    <3>3. CASE q = n /\ pc[p] = "clone4"
      <4>1. Exists(process[q])'
        BY <1>3, <1>4, <1>5, <1>6, <3>3, ZenonT(60) DEF Exists
      <4> QED
        BY <1>3, <1>4, <1>6, <3>3, <4>1, ZenonT(60)
    <3> QED
      BY <1>3, <3>1, <3>2, <3>3, Zenon
  <2>2. ASSUME NEW q \in Slots, NEW r \in Slots, Exists(q)', Exists(r)'
        PROVE  tgid[q] = tgid[r] <=> process[q] = process[r]
    <3>1. ASSUME NEW s \in Slots, Exists(s) PROVE tgid[n] = tgid[s] <=> process[n] = process[s]
      <4>1. CASE pc[p] = "fork4"
        BY <1>1, <1>3, <3>1, <4>1, Zenon
      <4>2. CASE pc[p] = "clone4"
        <5>1. tgid[p] = tgid[s] <=> process[p] = process[s]
          BY <1>0, <1>6, <3>1, Zenon DEF TgidOK
        <5> QED
          BY <1>3, <4>2, <5>1, Zenon
      <4> QED
        BY <1>3, <4>1, <4>2, Zenon
    <3>2. CASE q # n /\ r # n
      <4>1. Exists(q) /\ Exists(r)
        BY <1>1, <2>2, <3>2, Zenon
      <4> QED
        BY <1>0, <4>1, Zenon DEF TgidOK
    <3>3. CASE q = n /\ r # n
      BY <1>1, <2>2, <3>1, <3>3, Zenon
    <3>4. CASE q # n /\ r = n
      BY <1>1, <2>2, <3>1, <3>4, Zenon
    <3>5. CASE q = n /\ r = n
      BY <3>5, Zenon
    <3> QED
      BY <3>2, <3>3, <3>4, <3>5, ZenonT(60)
  <2>3. ASSUME NEW q \in Slots, NEW r \in Slots, q # r, Raw(q)', tgid[q] # 0 PROVE tgid[r] # tgid[q]
    BY <1>0, <1>2, <2>3, ZenonT(60) DEF TgidOK
  <2> QED
    BY <1>4, <2>1, <2>2, <2>3, ZenonT(60) DEF TgidOK
<1>10. MemOK'
  <2>1. /\ \A q \in Owners : pid[q] = tgid[q] /\ pgdir[q] # 0
        /\ \A q \in Slots : Raw(q) => pgdir[q] = 0
        /\ \A q \in Slots : Alive(q) => pgdir[q] = pgdir[process[q]]
        /\ \A q \in Slots : pc[q] \in {"clone3", "clone4"} => pgdir[np[q]] = pgdir[q]
        /\ pgs = {pgdir[q] : q \in Owners}
        /\ \A q, r \in Owners : pgdir[q] = pgdir[r] => q = r
        /\ \A q \in Slots : Raw(q) \/ process[q] # q \/ state[q] = "ZOMBIE" => ~cwd[q]
    BY <1>0, Zenon DEF MemOK
  <2>2. ASSUME NEW q \in Slots, Alive(q)' PROVE pgdir[q] = pgdir[process[q]]
    <3>1. CASE q # n
      BY <1>1, <2>1, <2>2, <3>1, ZenonT(60)
    <3>2. CASE q = n
      BY <1>1, <1>3, <2>1, <3>2, SMTT(30)
    <3> QED
      BY <3>1, <3>2, Zenon
  <2>3. ASSUME NEW q \in Slots, pc'[q] \in {"clone3", "clone4"} PROVE pgdir[np'[q]] = pgdir[q]
    <3>1. pc[q] = pc'[q] /\ np'[q] = np[q]
      BY <1>2, <2>3, Zenon DEF Creating
    <3> QED
      BY <2>1, <2>3, <3>1, Zenon
  <2>4. ASSUME NEW q \in Slots, Raw(q)' \/ process[q] # q \/ state'[q] = "ZOMBIE" PROVE ~cwd[q]
    <3>1. CASE q = n /\ state'[q] = "ZOMBIE"
      BY <1>3, <1>6, <2>1, <3>1, ZenonT(60) DEF Commits
    <3>2. CASE q # n \/ state'[q] # "ZOMBIE"
      BY <1>2, <1>5, <2>1, <2>4, <3>2, ZenonT(60)
    <3> QED
      BY <3>1, <3>2, Zenon
  <2> QED
    BY <1>2, <1>4, <2>1, <2>2, <2>3, <2>4, SMTT(30) DEF MemOK
<1> QED
  BY <1>7, <1>8, <1>9, <1>10, StartProper, ZenonT(60) DEF FInv

(* The last step of fork. *)
LEMMA ForkCommitF ==
  ASSUME FInv, XInv', NEW p \in Slots, ForkCommit(p)
  PROVE  FInv'
<1>0. state \in [Slots -> States] /\ pc \in [Slots -> Pcs] /\ np \in [Slots -> Ptr]
  BY Zenon DEF FInv, XInv, IInv, TypeOK
<1>1. pc[p] = "fork4"
  BY Zenon DEF ForkCommit, At
<1>2. PICK n \in Slots : n = np[p] /\ n # p
  BY <1>1, Filling, Zenon DEF Creating
<1>3. /\ state' = [state EXCEPT ![n] = "RUNNABLE"]
      /\ pc' = [pc EXCEPT ![p] = "user", ![n] = "user"]
      /\ np' = [np EXCEPT ![p] = 0]
      /\ UNCHANGED <<pid, tgid, process, parent, killed, pgdir, pgs, cwd, panicked>>
  BY <1>2, Zenon DEF ForkCommit, ids, mem
<1>4. Commits(p, n)
  BY <1>0, <1>1, <1>2, <1>3, Zenon DEF Commits
<1> QED
  BY <1>4, CommitF, ZenonT(60)

(* The last step of clone. *)
LEMMA CloneCommitF ==
  ASSUME FInv, XInv', NEW p \in Slots, CloneCommit(p)
  PROVE  FInv'
<1>0. /\ state \in [Slots -> States] /\ pc \in [Slots -> Pcs] /\ np \in [Slots -> Ptr]
      /\ IInv /\ killed \in [Slots -> BOOLEAN]
  BY Zenon DEF FInv, XInv, IInv, TypeOK
<1>1. pc[p] = "clone4"
  BY Zenon DEF CloneCommit, At
<1>2. PICK n \in Slots : n = np[p] /\ n # p /\ state[n] = "EMBRYO"
  BY <1>1, Filling, Zenon DEF Creating
<1>3. pc[n] = "none"
  BY <1>0, <1>2, Zenon DEF IInv, PcOK, Alive
<1>4. /\ \/ /\ ~killed[p] /\ state' = [state EXCEPT ![n] = "RUNNABLE"]
            /\ pc' = [pc EXCEPT ![p] = "user", ![n] = "user"]
         \/ /\ killed[p] /\ state' = [state EXCEPT ![n] = "ZOMBIE"]
            /\ pc' = [pc EXCEPT ![p] = "user"]
      /\ np' = [np EXCEPT ![p] = 0]
      /\ UNCHANGED <<pid, tgid, process, parent, killed, pgdir, pgs, cwd, panicked>>
  BY <1>2, Zenon DEF CloneCommit, GoTo, ids, mem
<1>5. Commits(p, n)
  BY <1>0, <1>1, <1>2, <1>3, <1>4, ZenonT(60) DEF Commits
<1> QED
  BY <1>5, CommitF, ZenonT(60)

-----------------------------------------------------------------------------
(* The last step of exit: the leader is the last of its process, and the   *)
(* children of the process go to init.                                     *)
LEMMA ExitFinalF ==
  ASSUME FInv, XInv', NEW p \in Slots, ExitFinal(p)
  PROVE  FInv'
<1>0. /\ IInv /\ InitOK /\ LeaderOK /\ WaitOK /\ EmbryoOK /\ ParentOK /\ TgidOK /\ MemOK /\ LastOK
      /\ NoUndead
      /\ state \in [Slots -> States] /\ pc \in [Slots -> Pcs] /\ parent \in [Slots -> Ptr]
  BY Zenon DEF FInv, XInv, IInv, TypeOK
<1>1. /\ pc[p] = "exit2" /\ pc' = [pc EXCEPT ![p] = "none"]
      /\ state' = [Wakeup1(ExitWakes(p)) EXCEPT ![p] = "ZOMBIE"]
      /\ parent' = [q \in Slots |-> IF q \in Orphans(p) THEN initproc ELSE parent[q]]
      /\ UNCHANGED <<pid, tgid, process, killed, pgdir, pgs, cwd, np, panicked>>
  BY Zenon DEF ExitFinal, At, mem, locals
<1>2. /\ state'[p] = "ZOMBIE"
      /\ \A q \in Slots \ {p} : \/ state'[q] = state[q]
                                \/ state[q] = "SLEEPING" /\ state'[q] = "RUNNABLE"
      /\ pc'[p] = "none" /\ \A q \in Slots \ {p} : pc'[q] = pc[q]
      /\ \A q \in Slots : parent'[q] = IF parent[q] = p THEN initproc ELSE parent[q]
  BY <1>0, <1>1, Zenon DEF Wakeup1, Orphans
<1>3. Alive(p) /\ p # initproc /\ initproc \in Slots
  <2>1. Alive(p)
    BY <1>0, <1>1, Zenon DEF IInv, PcOK
  <2>2. p # initproc
    BY <1>0, <1>1, Zenon DEF InitOK, Forking
  <2>3. initproc \in Slots
    BY NPROCAssumption DEF initproc, Slots
  <2> QED
    BY <2>1, <2>2, <2>3, Zenon
<1>4. /\ \A q \in Slots : Alive(q)' <=> Alive(q) /\ q # p
      /\ \A q \in Slots : Exists(q)' <=> Exists(q)
      /\ \A q \in Slots : (state'[q] = "UNUSED" <=> state[q] = "UNUSED")
                          /\ (state'[q] = "EMBRYO" <=> state[q] = "EMBRYO")
  BY <1>2, <1>3, Zenon DEF Alive, Exists
<1>5. /\ \A q \in Slots : Raw(q)' <=> Raw(q)
      /\ \A q \in Slots : (pc'[q] \in Creating <=> pc[q] \in Creating)
      /\ \A q \in Slots : pc[q] \in Creating => pc'[q] = pc[q] /\ q # p
  <2>1. /\ \A q \in Slots : (pc'[q] \in Creating <=> pc[q] \in Creating)
        /\ \A q \in Slots : pc[q] \in Creating => pc'[q] = pc[q] /\ q # p
    BY <1>1, <1>2, Zenon DEF Creating
  <2>2. {"fork2", "clone2"} \subseteq Creating
    BY Zenon DEF Creating
  <2>3. \A q \in Slots : pc'[q] \in {"fork2", "clone2"} <=> pc[q] \in {"fork2", "clone2"}
    BY <2>1, <2>2, Zenon
  <2> QED
    BY <1>1, <1>4, <2>1, <2>3, Zenon DEF Raw
<1>6. Owners' = Owners
  BY <1>1, <1>4, <1>5, Zenon DEF Owners
<1>7. ASSUME NEW q \in Slots, Alive(q), process[q] = p PROVE q = p
  <2>1. process[p] = p
    BY <1>0, <1>7, Zenon DEF IInv, GroupOK
  <2> QED
    BY <1>0, <1>1, <1>3, <1>7, <2>1, ZenonT(60) DEF LeaderOK, Exiting
<1>8. InitOK'
  <2>1. Alive(initproc)' /\ process'[initproc] = initproc
    BY <1>0, <1>1, <1>3, <1>4, ZenonT(60) DEF InitOK
  <2>2. \A q \in Slots : Alive(q)' => Alive(q) /\ process'[q] = process[q]
    BY <1>1, <1>4, Zenon
  <2>3. pc'[initproc] \in Forking \cup {"user", "wait", "exit"}
    BY <1>0, <1>2, <1>3, Zenon DEF InitOK
  <2> QED
    BY <1>0, <2>1, <2>2, <2>3, InitFrame, ZenonT(60)
<1>9. WaitOK'
  <2>1. pc'[p] # "wait" /\ pc'[p] \notin Forking
    BY <1>2, Zenon DEF Forking
  <2> QED
    BY <1>0, <1>1, <1>2, <2>1, WaitFrame, ZenonT(60)
<1>10. LeaderOK'
  <2>1. ASSUME NEW q \in Slots, Alive(q)'
        PROVE  /\ Alive(q) /\ process'[q] = process[q] /\ Alive(process[q])'
               /\ killed'[q] => killed[q] \/ process[q] # q \/ Siblings(q) = {}
    <3>1. Alive(q) /\ q # p /\ process'[q] = process[q] /\ Alive(process[q]) /\ process[q] \in Slots
      BY <1>0, <1>1, <1>4, <2>1, ZenonT(60) DEF LeaderOK, IInv, GroupOK
    <3>2. process[q] # p
      BY <1>7, <3>1, Zenon
    <3>3. Alive(process[q])'
      BY <1>2, <3>1, <3>2, Zenon DEF Alive
    <3> QED
      BY <1>1, <3>1, <3>3, Zenon
  <2>2. pc'[p] \notin Exiting \cup Execing
    BY <1>2, Zenon DEF Exiting, Execing
  <2> QED
    BY <1>0, <1>1, <1>2, <2>1, <2>2, LeaderFrame, ZenonT(60)
<1>11. EmbryoOK'
  BY <1>0, <1>1, <1>4, <1>5, ZenonT(60) DEF EmbryoOK
<1>12. ParentOK'
  <2>0. p # 0
    BY NPROCAssumption DEF Slots
  <2>1. ASSUME NEW q \in Slots, state'[q] = "UNUSED" PROVE parent'[q] = 0
    BY <1>0, <1>2, <1>4, <2>0, <2>1, ZenonT(60) DEF ParentOK
  <2>2. ASSUME NEW q \in Slots, pc'[q] \in {"fork2", "fork3", "clone2", "clone3"}
        PROVE  parent'[np'[q]] = 0
    <3>1. pc[q] = pc'[q] /\ np'[q] = np[q] /\ np[q] \in Slots
      BY <1>0, <1>1, <1>2, <2>2, ZenonT(60) DEF IInv, CreateOK, Creating
    <3>2. parent[np[q]] = 0
      BY <1>0, <2>2, <3>1, Zenon DEF ParentOK
    <3> QED
      BY <1>2, <2>0, <3>1, <3>2, ZenonT(60)
  <2>3. ASSUME NEW q \in Slots, pc'[q] = "fork4" PROVE parent'[np'[q]] = process'[q]
    <3>1. pc[q] = "fork4" /\ np'[q] = np[q] /\ np[q] \in Slots /\ Alive(q) /\ q # p
      BY <1>0, <1>1, <1>2, <2>3, ZenonT(60) DEF IInv, CreateOK, Creating, PcOK
    <3>2. parent[np[q]] = process[q] /\ process[q] # p
      BY <1>0, <1>7, <3>1, Zenon DEF ParentOK
    <3> QED
      BY <1>1, <1>2, <3>1, <3>2, ZenonT(60)
  <2>4. ASSUME NEW q \in Slots \ {initproc}, Exists(q)', process'[q] = q
        PROVE  parent'[q] \in Slots /\ Alive(parent[q])' /\ process'[parent'[q]] = parent'[q]
    <3>1. parent[q] \in Slots /\ Alive(parent[q]) /\ process[parent[q]] = parent[q]
      BY <1>0, <1>1, <1>4, <2>4, ZenonT(60) DEF ParentOK
    <3>2. CASE parent[q] = p
      <4>1. parent'[q] = initproc /\ state'[initproc] \in {"SLEEPING", "RUNNABLE"}
        BY <1>0, <1>2, <1>3, <3>2, ZenonT(60) DEF InitOK, Alive
      <4> QED
        BY <1>0, <1>1, <1>3, <4>1, ZenonT(60) DEF InitOK, Alive
    <3>3. CASE parent[q] # p
      <4>1. parent'[q] = parent[q] /\ state'[parent[q]] \in {"SLEEPING", "RUNNABLE"}
        BY <1>2, <3>1, <3>3, ZenonT(60) DEF Alive
      <4> QED
        BY <1>1, <3>1, <4>1, ZenonT(60) DEF Alive
    <3> QED
      BY <3>2, <3>3, Zenon
  <2> QED
    BY <2>1, <2>2, <2>3, <2>4, ZenonT(60) DEF ParentOK
<1>13. TgidOK'
  <2>1. ASSUME NEW q \in Slots, Exists(q)'
        PROVE  /\ tgid[q] # 0 /\ process[q] \in Slots
               /\ Exists(process[q])' /\ process[process[q]] = process[q]
    <3>1. /\ tgid[q] # 0 /\ process[q] \in Slots /\ Exists(process[q])
          /\ process[process[q]] = process[q]
      BY <1>0, <1>4, <2>1, ZenonT(60) DEF TgidOK
    <3>2. Exists(process[q])'
      BY <1>1, <1>2, <3>1, SMTT(30) DEF Exists
    <3> QED
      BY <3>1, <3>2, Zenon
  <2>2. \A q, r \in Slots : Exists(q)' /\ Exists(r)' => (tgid[q] = tgid[r] <=> process[q] = process[r])
    BY <1>0, <1>4, ZenonT(60) DEF TgidOK
  <2>3. \A q, r \in Slots : q # r /\ Raw(q)' /\ tgid[q] # 0 => tgid[r] # tgid[q]
    BY <1>0, <1>5, Zenon DEF TgidOK
  <2> QED
    BY <1>1, <2>1, <2>2, <2>3, ZenonT(60) DEF TgidOK
<1>14. MemOK'
  <2>1. /\ \A q \in Owners : pid[q] = tgid[q] /\ pgdir[q] # 0
        /\ \A q \in Slots : Raw(q) => pgdir[q] = 0
        /\ \A q \in Slots : Alive(q) => pgdir[q] = pgdir[process[q]]
        /\ \A q \in Slots : pc[q] \in {"clone3", "clone4"} => pgdir[np[q]] = pgdir[q]
        /\ pgs = {pgdir[q] : q \in Owners}
        /\ \A q, r \in Owners : pgdir[q] = pgdir[r] => q = r
        /\ \A q \in Slots : Raw(q) \/ process[q] # q \/ state[q] = "ZOMBIE" => ~cwd[q]
    BY <1>0, Zenon DEF MemOK
  <2>2. \A q \in Slots : pc'[q] \in {"clone3", "clone4"} => pgdir[np[q]] = pgdir[q]
    BY <1>2, <2>1, Zenon
  <2>3. ~cwd[p]
    BY <1>0, <1>1, <2>1, Zenon DEF LastOK
  <2>4. ASSUME NEW q \in Slots, Raw(q)' \/ process[q] # q \/ state'[q] = "ZOMBIE" PROVE ~cwd[q]
    <3>1. CASE q # p
      <4>1. state'[q] = "ZOMBIE" => state[q] = "ZOMBIE"
        BY <1>2, <3>1, Zenon
      <4> QED
        BY <1>5, <2>1, <2>4, <4>1, ZenonT(60)
    <3> QED
      BY <2>3, <3>1, Zenon
  <2>5. \A q \in Slots : Alive(q)' => pgdir[q] = pgdir[process[q]]
    BY <1>4, <2>1, Zenon
  <2>6. \A q \in Slots : Raw(q)' => pgdir[q] = 0
    BY <1>5, <2>1, Zenon
  <2> QED
    BY <1>1, <1>6, <2>1, <2>2, <2>4, <2>5, <2>6, SMTT(30) DEF MemOK
<1>15. LastOK' /\ NoUndead'
  BY <1>0, <1>1, <1>2, ZenonT(60) DEF LastOK, NoUndead
<1> QED
  BY <1>8, <1>9, <1>10, <1>11, <1>12, <1>13, <1>14, <1>15, ZenonT(60) DEF FInv

-----------------------------------------------------------------------------
(* wait and join reap the dead slots in G, which no other thread is in the *)
(* group of, and free the page directories of the leaders among them.      *)
Reaps(p, G) ==
  /\ G \subseteq Slots /\ \A q \in G : state[q] = "ZOMBIE"
  /\ \A q \in Slots \ G : Exists(q) => process[q] \notin G
  /\ \A q \in G : /\ state'[q] = "UNUSED" /\ tgid'[q] = 0 /\ process'[q] = 0
                  /\ parent'[q] = 0 /\ pgdir'[q] = 0
  /\ \A q \in Slots \ G :
       /\ state'[q] = state[q] /\ pid'[q] = pid[q] /\ tgid'[q] = tgid[q]
       /\ process'[q] = process[q] /\ parent'[q] = parent[q]
       /\ pgdir'[q] = pgdir[q] /\ killed'[q] = killed[q]
  /\ pgs' = pgs \ {pgdir[q] : q \in Owners \cap G}
  /\ cwd' = cwd /\ panicked' = panicked
  /\ pc[p] \in {"wait", "join"} /\ pc'[p] = "user"
  /\ \A q \in Slots \ {p} : pc'[q] = pc[q] /\ np'[q] = np[q]

(* What is left of the table. *)
LEMMA ReapKinds ==
  ASSUME FInv, NEW p \in Slots, NEW G, Reaps(p, G)
  PROVE  /\ \A q \in Slots : Alive(q) => q \notin G /\ Exists(q) /\ process[q] \in Slots \ G
         /\ \A q \in Slots : Alive(q)' <=> Alive(q)
         /\ \A q \in Slots : Exists(q)' <=> Exists(q) /\ q \notin G
         /\ \A q \in Slots : Raw(q)' <=> Raw(q) \/ q \in G
         /\ \A q \in Slots : pc[q] \in Creating =>
              q \notin G /\ pc'[q] = pc[q] /\ np'[q] = np[q] /\ np[q] \in Slots \ G
         /\ \A q \in Slots : pc'[q] \in Creating => pc[q] \in Creating
         /\ Owners' = Owners \ G
<1>0. IInv /\ LeaderOK /\ TgidOK
  BY Zenon DEF FInv, XInv
<1>1. \A q \in Slots : Alive(q) => q \notin G /\ Exists(q)
  BY Zenon DEF Reaps, Alive, Exists
<1>2. \A q \in Slots : Alive(q) => process[q] \in Slots \ G
  BY <1>0, <1>1, Zenon DEF LeaderOK, IInv, GroupOK
<1>3. \A q \in Slots : (Alive(q)' <=> Alive(q)) /\ (Exists(q)' <=> Exists(q) /\ q \notin G)
  <2>1. ASSUME NEW q \in Slots, q \in G PROVE ~Alive(q) /\ ~Alive(q)' /\ ~Exists(q)'
    BY <2>1, Zenon DEF Reaps, Alive, Exists
  <2>2. ASSUME NEW q \in Slots, q \notin G PROVE (Alive(q)' <=> Alive(q)) /\ (Exists(q)' <=> Exists(q))
    BY <2>2, Zenon DEF Reaps, Alive, Exists
  <2> QED
    BY <2>1, <2>2, Zenon
<1>4. ASSUME NEW q \in Slots, pc[q] \in Creating
      PROVE  q \notin G /\ pc'[q] = pc[q] /\ np'[q] = np[q] /\ np[q] \in Slots \ G
  <2>1. q # p
    BY <1>4, Zenon DEF Reaps, Creating
  <2>2. Alive(q) /\ np[q] \in Slots /\ state[np[q]] = "EMBRYO"
    BY <1>0, <1>4, ZenonT(60) DEF IInv, PcOK, CreateOK, Creating
  <2>3. np[q] \notin G
    BY <2>2, Zenon DEF Reaps
  <2> QED
    BY <1>1, <2>1, <2>2, <2>3, ZenonT(60) DEF Reaps
<1>5. ASSUME NEW q \in Slots, pc'[q] \in Creating PROVE pc[q] \in Creating
  BY <1>5, Zenon DEF Reaps, Creating
<1>6. ASSUME NEW q \in Slots PROVE Raw(q)' <=> Raw(q) \/ q \in G
  <2>1. {"fork2", "clone2"} \subseteq Creating
    BY Zenon DEF Creating
  <2>2. \A r \in Slots : pc'[r] \in {"fork2", "clone2"} /\ np'[r] = q <=> pc[r] \in {"fork2", "clone2"} /\ np[r] = q
    BY <1>4, <1>5, <2>1, Zenon
  <2>3. state'[q] = "UNUSED" <=> state[q] = "UNUSED" \/ q \in G
    BY Zenon DEF Reaps
  <2> QED
    BY <2>2, <2>3, Zenon DEF Raw
<1>7. ASSUME NEW q \in Slots PROVE q \in Owners' <=> q \in Owners /\ q \notin G
  <2>1. CASE q \in G
    BY <1>6, <2>1, Zenon DEF Owners
  <2>2. CASE q \notin G
    <3>1. state'[q] = state[q] /\ process'[q] = process[q]
      BY <2>2, Zenon DEF Reaps
    <3> QED
      BY <1>6, <2>2, <3>1, Zenon DEF Owners
  <2> QED
    BY <2>1, <2>2, Zenon
<1>8. Owners' = Owners \ G
  <2>1. Owners \subseteq Slots /\ Owners' \subseteq Slots
    BY Zenon DEF Owners
  <2> QED
    BY <1>7, <2>1, Zenon
<1> QED
  BY <1>1, <1>2, <1>3, <1>4, <1>5, <1>6, <1>8, ZenonT(60)

(* Reaping keeps the families and the memory in order. *)
LEMMA ReapF ==
  ASSUME FInv, XInv', NEW p \in Slots, NEW G, Reaps(p, G)
  PROVE  FInv'
<1>0. /\ IInv /\ InitOK /\ LeaderOK /\ WaitOK /\ EmbryoOK /\ ParentOK /\ TgidOK /\ MemOK /\ LastOK
      /\ NoUndead
  BY Zenon DEF FInv, XInv
<1>1. /\ \A q \in Slots : Alive(q) => q \notin G /\ Exists(q) /\ process[q] \in Slots \ G
      /\ \A q \in Slots : Alive(q)' <=> Alive(q)
      /\ \A q \in Slots : Exists(q)' <=> Exists(q) /\ q \notin G
      /\ \A q \in Slots : Raw(q)' <=> Raw(q) \/ q \in G
  BY ReapKinds, Zenon
<1>2. /\ \A q \in Slots : pc[q] \in Creating =>
              q \notin G /\ pc'[q] = pc[q] /\ np'[q] = np[q] /\ np[q] \in Slots \ G
      /\ \A q \in Slots : pc'[q] \in Creating => pc[q] \in Creating
      /\ Owners' = Owners \ G
  BY ReapKinds, Zenon
<1>3. \A q \in Slots \ G :
         /\ state'[q] = state[q] /\ pid'[q] = pid[q] /\ tgid'[q] = tgid[q]
         /\ process'[q] = process[q] /\ parent'[q] = parent[q]
         /\ pgdir'[q] = pgdir[q] /\ killed'[q] = killed[q]
  BY Zenon DEF Reaps
<1>4. \A q \in G : /\ state[q] = "ZOMBIE" /\ state'[q] = "UNUSED" /\ tgid'[q] = 0
                   /\ parent'[q] = 0 /\ pgdir'[q] = 0
  BY Zenon DEF Reaps
<1>5. /\ pc'[p] = "user" /\ \A q \in Slots \ {p} : pc'[q] = pc[q]
      /\ \A q \in Slots : pc'[q] # "none" => Alive(q)
  <2>1. pc'[p] = "user" /\ pc[p] # "none" /\ \A q \in Slots \ {p} : pc'[q] = pc[q]
    BY Zenon DEF Reaps
  <2> QED
    BY <1>0, <2>1, Zenon DEF IInv, PcOK
<1>6. initproc \in Slots
  BY NPROCAssumption DEF initproc, Slots
<1>7. InitOK'
  <2>1. Alive(initproc)' /\ process'[initproc] = initproc
    BY <1>0, <1>1, <1>3, <1>6, ZenonT(60) DEF InitOK
  <2>2. \A q \in Slots : Alive(q)' => Alive(q) /\ process'[q] = process[q]
    BY <1>1, <1>3, Zenon
  <2>3. pc'[initproc] \in Forking \cup {"user", "wait", "exit"}
    BY <1>0, <1>5, <1>6, ZenonT(60) DEF InitOK
  <2> QED
    BY <1>0, <2>1, <2>2, <2>3, InitFrame, ZenonT(60)
<1>8. WaitOK'
  <2>1. \A q \in Slots : pc'[q] \in Forking \cup {"wait"} =>
            process'[q] = process[q] /\ (q # p => pc'[q] = pc[q])
    <3>1. "none" \notin Forking \cup {"wait"}
      BY Zenon DEF Forking
    <3> QED
      BY <1>1, <1>3, <1>5, <3>1, ZenonT(60)
  <2>2. pc'[p] # "wait" /\ pc'[p] \notin Forking
    BY <1>5, Zenon DEF Forking
  <2> QED
    BY <1>0, <2>1, <2>2, WaitFrame, ZenonT(60)
<1>9. LeaderOK'
  <2>1. ASSUME NEW q \in Slots, Alive(q)'
        PROVE  /\ Alive(q) /\ process'[q] = process[q] /\ Alive(process[q])'
               /\ killed'[q] => killed[q] \/ process[q] # q \/ Siblings(q) = {}
    <3>1. /\ Alive(q) /\ process'[q] = process[q] /\ process[q] \in Slots \ G
          /\ killed'[q] = killed[q]
      BY <1>1, <1>3, <2>1, ZenonT(60)
    <3>2. Alive(process[q])
      BY <1>0, <3>1, Zenon DEF LeaderOK
    <3>3. Alive(process[q])'
      BY <1>3, <3>1, <3>2, ZenonT(60) DEF Alive
    <3> QED
      BY <3>1, <3>3, ZenonT(60)
  <2>2. pc'[p] \notin Exiting \cup Execing
    BY <1>5, Zenon DEF Exiting, Execing
  <2>3. \A q \in Slots : pc'[q] \in Execing => process'[q] = process[q]
    <3>1. "none" \notin Execing
      BY Zenon DEF Execing
    <3> QED
      BY <1>1, <1>3, <1>5, <3>1, ZenonT(60)
  <2> QED
    BY <1>0, <1>5, <2>1, <2>2, <2>3, LeaderFrame, ZenonT(60)
<1>10. EmbryoOK'
  <2> SUFFICES ASSUME NEW q \in Slots, state'[q] = "EMBRYO"
               PROVE  \E r \in Slots : pc'[r] \in Creating /\ np'[r] = q
    BY Zenon DEF EmbryoOK
  <2>1. state[q] = "EMBRYO"
    BY <1>3, <1>4, ZenonT(60)
  <2> QED
    BY <1>0, <1>2, <2>1, ZenonT(60) DEF EmbryoOK
<1>11. ParentOK'
  <2>1. ASSUME NEW q \in Slots, state'[q] = "UNUSED" PROVE parent'[q] = 0
    BY <1>0, <1>3, <1>4, <2>1, ZenonT(60) DEF ParentOK
  <2>2. ASSUME NEW q \in Slots, pc'[q] \in {"fork2", "fork3", "clone2", "clone3"}
        PROVE  parent'[np'[q]] = 0
    <3>1. pc[q] = pc'[q] /\ np'[q] = np[q] /\ np[q] \in Slots \ G
      BY <1>2, <2>2, Zenon DEF Creating
    <3>2. parent[np[q]] = 0
      BY <1>0, <2>2, <3>1, ZenonT(60) DEF ParentOK
    <3> QED
      BY <1>3, <3>1, <3>2, SMTT(30)
  <2>3. ASSUME NEW q \in Slots, pc'[q] = "fork4" PROVE parent'[np'[q]] = process'[q]
    <3>1. pc[q] = "fork4" /\ np'[q] = np[q] /\ np[q] \in Slots \ G /\ q \notin G
      BY <1>2, <2>3, Zenon DEF Creating
    <3>2. parent[np[q]] = process[q]
      BY <1>0, <3>1, ZenonT(60) DEF ParentOK
    <3> QED
      BY <1>3, <3>1, <3>2, ZenonT(60)
  <2>4. ASSUME NEW q \in Slots \ {initproc}, Exists(q)', process'[q] = q
        PROVE  parent'[q] \in Slots /\ Alive(parent[q])' /\ process'[parent'[q]] = parent'[q]
    <3>1. Exists(q) /\ q \notin G /\ process[q] = q /\ parent'[q] = parent[q]
      BY <1>1, <1>3, <2>4, ZenonT(60)
    <3>2. parent[q] \in Slots /\ Alive(parent[q]) /\ process[parent[q]] = parent[q]
      BY <1>0, <3>1, ZenonT(60) DEF ParentOK
    <3>3. parent[q] \notin G
      BY <1>1, <3>2, Zenon
    <3>4. Alive(parent[q])'
      BY <1>3, <3>1, <3>2, <3>3, ZenonT(60) DEF Alive
    <3> QED
      BY <1>3, <3>1, <3>2, <3>3, <3>4, ZenonT(60)
  <2> QED
    BY <2>1, <2>2, <2>3, <2>4, ZenonT(60) DEF ParentOK
<1>12. TgidOK'
  <2>1. ASSUME NEW q \in Slots, Exists(q)'
        PROVE  /\ tgid'[q] # 0 /\ process'[q] \in Slots
               /\ Exists(process[q])' /\ process'[process'[q]] = process'[q]
    <3>1. /\ tgid[q] # 0 /\ process[q] \in Slots /\ Exists(process[q])
          /\ process[process[q]] = process[q] /\ q \notin G
      BY <1>0, <1>1, <2>1, ZenonT(60) DEF TgidOK
    <3>2. process[q] \notin G
      BY <1>1, <2>1, <3>1, ZenonT(60) DEF Reaps
    <3>3. /\ process'[q] = process[q] /\ tgid'[q] = tgid[q] /\ state'[process[q]] = state[process[q]]
          /\ process'[process[q]] = process[process[q]]
      BY <1>3, <3>1, <3>2, Zenon
    <3> QED
      BY <3>1, <3>3, Zenon DEF Exists
  <2>2. ASSUME NEW q \in Slots, NEW r \in Slots, Exists(q)', Exists(r)'
        PROVE  tgid'[q] = tgid'[r] <=> process'[q] = process'[r]
    <3>1. Exists(q) /\ Exists(r) /\ q \notin G /\ r \notin G
      BY <1>1, <2>2, Zenon
    <3>2. tgid[q] = tgid[r] <=> process[q] = process[r]
      BY <1>0, <3>1, Zenon DEF TgidOK
    <3> QED
      BY <1>3, <3>1, <3>2, ZenonT(60)
  <2>3. ASSUME NEW q \in Slots, NEW r \in Slots, q # r, Raw(q)', tgid'[q] # 0 PROVE tgid'[r] # tgid'[q]
    <3>1. q \notin G /\ Raw(q) /\ tgid'[q] = tgid[q]
      BY <1>1, <1>3, <1>4, <2>3, ZenonT(60)
    <3>2. tgid[r] # tgid[q]
      BY <1>0, <2>3, <3>1, ZenonT(60) DEF TgidOK
    <3> QED
      BY <1>3, <1>4, <2>3, <3>1, <3>2, ZenonT(60)
  <2> QED
    BY <2>1, <2>2, <2>3, ZenonT(60) DEF TgidOK
<1>13. MemOK'
  <2>1. /\ \A q \in Owners : pid[q] = tgid[q] /\ pgdir[q] # 0
        /\ \A q \in Slots : Raw(q) => pgdir[q] = 0
        /\ \A q \in Slots : Alive(q) => pgdir[q] = pgdir[process[q]]
        /\ \A q \in Slots : pc[q] \in {"clone3", "clone4"} => pgdir[np[q]] = pgdir[q]
        /\ pgs = {pgdir[q] : q \in Owners}
        /\ \A q, r \in Owners : pgdir[q] = pgdir[r] => q = r
        /\ \A q \in Slots : Raw(q) \/ process[q] # q \/ state[q] = "ZOMBIE" => ~cwd[q]
    BY <1>0, Zenon DEF MemOK
  <2>2. \A q \in Owners' : q \in Owners /\ q \in Slots \ G
    BY <1>2, ZenonT(60) DEF Owners
  <2>3. \A q \in Owners' : pid'[q] = tgid'[q] /\ pgdir'[q] # 0
    BY <1>3, <2>1, <2>2, ZenonT(60)
  <2>4. \A q \in Slots : Raw(q)' => pgdir'[q] = 0
    BY <1>1, <1>3, <1>4, <2>1, SMTT(30)
  <2>5. ASSUME NEW q \in Slots, Alive(q)' PROVE pgdir'[q] = pgdir'[process'[q]]
    <3>1. Alive(q) /\ q \notin G /\ process[q] \in Slots \ G
      BY <1>1, <2>5, Zenon
    <3> QED
      BY <1>3, <2>1, <3>1, SMTT(30)
  <2>6. ASSUME NEW q \in Slots, pc'[q] \in {"clone3", "clone4"} PROVE pgdir'[np'[q]] = pgdir'[q]
    <3>1. pc[q] = pc'[q] /\ np'[q] = np[q] /\ np[q] \in Slots \ G /\ q \notin G
      BY <1>2, <2>6, Zenon DEF Creating
    <3>2. pgdir[np[q]] = pgdir[q]
      BY <2>1, <2>6, <3>1, ZenonT(60)
    <3> QED
      BY <1>3, <3>1, <3>2, ZenonT(60)
  <2>7. pgs' = {pgdir'[q] : q \in Owners'}
    <3>0. pgs' = pgs \ {pgdir[q] : q \in Owners \cap G}
      BY Zenon DEF Reaps
    <3>1. ASSUME NEW q \in Owners' PROVE pgdir'[q] \in pgs'
      <4>1. q \in Owners /\ q \notin G /\ pgdir'[q] = pgdir[q]
        BY <1>3, <2>2, <3>1, ZenonT(60)
      <4>2. pgdir[q] \in pgs
        BY <2>1, <4>1, Zenon
      <4>3. \A r \in Owners \cap G : pgdir[r] # pgdir[q]
        BY <2>1, <4>1, Zenon
      <4> QED
        BY <3>0, <4>1, <4>2, <4>3, ZenonT(60)
    <3>2. ASSUME NEW g \in pgs' PROVE \E q \in Owners' : g = pgdir'[q]
      <4>1. PICK q \in Owners : g = pgdir[q]
        BY <2>1, <3>0, <3>2, ZenonT(60)
      <4>2. q \notin G
        BY <3>0, <3>2, <4>1, ZenonT(60)
      <4>3. q \in Owners' /\ pgdir'[q] = pgdir[q]
        BY <1>2, <1>3, <4>2, ZenonT(60) DEF Owners
      <4> QED
        BY <4>1, <4>3, Zenon
    <3> QED
      BY <3>1, <3>2, Zenon
  <2>8. ASSUME NEW q \in Owners', NEW r \in Owners', pgdir'[q] = pgdir'[r] PROVE q = r
    <3>1. q \in Owners /\ r \in Owners /\ pgdir'[q] = pgdir[q] /\ pgdir'[r] = pgdir[r]
      BY <1>3, <2>2, <2>8, ZenonT(60)
    <3> QED
      BY <2>1, <2>8, <3>1, ZenonT(60)
  <2>9. ASSUME NEW q \in Slots, Raw(q)' \/ process'[q] # q \/ state'[q] = "ZOMBIE" PROVE ~cwd[q]
    <3>1. CASE q \in G
      BY <1>4, <2>1, <3>1, ZenonT(60)
    <3>2. CASE q \notin G
      <4>1. (Raw(q)' <=> Raw(q)) /\ process'[q] = process[q] /\ state'[q] = state[q]
        BY <1>1, <1>3, <3>2, ZenonT(60)
      <4> QED
        BY <2>1, <2>9, <4>1, ZenonT(60)
    <3> QED
      BY <3>1, <3>2, Zenon
  <2>10. cwd' = cwd
    BY Zenon DEF Reaps
  <2> QED
    BY <2>3, <2>4, <2>5, <2>6, <2>7, <2>8, <2>9, <2>10, ZenonT(60) DEF MemOK
<1>14. LastOK' /\ NoUndead'
  <2>1. ASSUME NEW q \in Slots, pc'[q] = "exit2", process'[q] = q PROVE ~cwd[q]
    <3>1. pc[q] = "exit2" /\ Alive(q)
      BY <1>5, <2>1, Zenon
    <3>2. process[q] = q
      BY <1>1, <1>3, <2>1, <3>1, ZenonT(60)
    <3> QED
      BY <1>0, <3>1, <3>2, ZenonT(60) DEF LastOK
  <2>2. cwd' = cwd /\ panicked' = panicked
    BY Zenon DEF Reaps
  <2> QED
    BY <1>0, <2>1, <2>2, ZenonT(60) DEF LastOK, NoUndead
<1> QED
  BY <1>7, <1>8, <1>9, <1>10, <1>11, <1>12, <1>13, <1>14, ZenonT(60) DEF FInv

(* join reaps one thread, never a leader. *)
LEMMA JoinReapF ==
  ASSUME Firsts, FInv, XInv', NEW p \in Slots, JoinReap(p)
  PROVE  FInv'
<1>0. /\ TgidOK /\ pc \in [Slots -> Pcs] /\ np \in [Slots -> Ptr]
  BY Zenon DEF FInv, XInv, IInv, TypeOK
<1>1. JoinTarget(p) \in Slots
  <2>1. CASE np[p] = 0
    <3>1. WithPid(tmp[p]) # {}
      BY <2>1, Zenon DEF JoinReap, Joinable
    <3>2. First(WithPid(tmp[p])) \in WithPid(tmp[p])
      BY <3>1, NPROCAssumption DEF Firsts, WithPid, Slots
    <3> QED
      BY <2>1, <3>2, Zenon DEF JoinTarget, WithPid
  <2>2. CASE np[p] # 0
    <3>1. np[p] \in Slots
      BY <1>0, <2>2, NPROCAssumption, SMTT(30) DEF Ptr, Slots
    <3> QED
      BY <2>2, <3>1, Zenon DEF JoinTarget
  <2> QED
    BY <2>1, <2>2, ZenonT(60)
<1>2. PICK t \in Slots : t = JoinTarget(p)
  BY <1>1, Zenon
<1>3. /\ state[t] = "ZOMBIE" /\ pc[p] = "join"
      /\ pc' = [pc EXCEPT ![p] = "user"] /\ np' = [np EXCEPT ![p] = 0]
      /\ pgs' = pgs /\ cwd' = cwd /\ panicked' = panicked
      /\ IF tgid[t] # pid[t] /\ process[t] # t THEN Reap({t})
         ELSE UNCHANGED <<state, pid, tgid, process, parent, killed, threadcount, pgdir>>
  BY <1>2, Zenon DEF JoinReap, At, Return, GoTo
<1>4. /\ pc[p] \in {"wait", "join"} /\ pc'[p] = "user"
      /\ \A q \in Slots \ {p} : pc'[q] = pc[q] /\ np'[q] = np[q]
  BY <1>0, <1>3, Zenon
<1>5. CASE tgid[t] # pid[t] /\ process[t] # t
  <2>1. Reap({t})
    BY <1>3, <1>5, Zenon
  <2>2. \A q \in Slots : Exists(q) => process[q] # t
    <3> SUFFICES ASSUME NEW q \in Slots, Exists(q), process[q] = t PROVE FALSE
      BY Zenon
    <3>1. process[process[q]] = process[q]
      BY <1>0, ZenonT(60) DEF TgidOK
    <3> QED
      BY <1>5, <3>1, Zenon
  <2>3. /\ state'[t] = "UNUSED" /\ tgid'[t] = 0 /\ process'[t] = 0 /\ parent'[t] = 0 /\ pgdir'[t] = 0
        /\ \A q \in Slots \ {t} :
             /\ state'[q] = state[q] /\ pid'[q] = pid[q] /\ tgid'[q] = tgid[q]
             /\ process'[q] = process[q] /\ parent'[q] = parent[q]
             /\ pgdir'[q] = pgdir[q] /\ killed'[q] = killed[q]
    BY <2>1, Zenon DEF Reap
  <2>4. Owners \cap {t} = {}
    BY <1>5, Zenon DEF Owners
  <2>5. pgs' = pgs \ {pgdir[q] : q \in Owners \cap {t}}
    BY <1>3, <2>4, Zenon
  <2>6. Reaps(p, {t})
    BY <1>3, <1>4, <2>2, <2>3, <2>5, ZenonT(60) DEF Reaps
  <2> QED
    BY <2>6, ReapF, ZenonT(60)
<1>6. CASE ~(tgid[t] # pid[t] /\ process[t] # t)
  <2>1. UNCHANGED <<state, pid, tgid, process, parent, killed, threadcount, pgdir>>
    BY <1>3, <1>6, Zenon
  <2>2. pgs' = pgs \ {pgdir[q] : q \in Owners \cap {}}
    BY <1>3, Zenon
  <2>3. Reaps(p, {})
    BY <1>3, <1>4, <2>1, <2>2, ZenonT(60) DEF Reaps
  <2> QED
    BY <2>3, ReapF, Zenon
<1> QED
  BY <1>5, <1>6, ZenonT(60)

(* The dead child that wait finds is dead, and so is all of its group:     *)
(* nobody of it is alive, in the making, or given back half made.          *)
LEMMA DeadGroup ==
  ASSUME Counts, FInv, NEW p \in Slots, pc[p] = "wait", NEW c \in DeadChildren(p)
  PROVE  /\ tgid[c] # 0
         /\ \A q \in Slots : tgid[q] = tgid[c] => state[q] = "ZOMBIE"
<1>0. /\ IInv /\ IdOK /\ WaitOK /\ EmbryoOK /\ ParentOK /\ TgidOK
      /\ state \in [Slots -> States]
  BY Zenon DEF FInv, XInv, IInv, TypeOK
<1>1. c \in Slots /\ parent[c] = process[p] /\ threadcount[process[c]] = 0
  BY Zenon DEF DeadChildren, Children
<1>2. Alive(p) /\ process[p] \in Slots /\ process[p] # 0
  <2>1. Alive(p)
    BY <1>0, Zenon DEF IInv, PcOK
  <2>2. process[p] \in Slots
    BY <1>0, <2>1, ZenonT(60) DEF IInv, GroupOK
  <2> QED
    BY <2>1, <2>2, NPROCAssumption, SMTT(30) DEF Slots
<1>3. \A l \in Slots : threadcount[l] = 0 => \A q \in Slots : process[q] = l => ~Alive(q)
  <2> SUFFICES ASSUME NEW l \in Slots, threadcount[l] = 0, NEW q \in Slots, process[q] = l, Alive(q)
               PROVE  FALSE
    BY Zenon
  <2>1. Cardinality(LiveThreads(l)) = 0
    BY <1>0, Zenon DEF IInv, ThreadCountOK
  <2>2. LiveThreads(l) \in SUBSET Slots
    BY Zenon DEF LiveThreads
  <2>3. LiveThreads(l) = {}
    BY <2>1, <2>2, Zenon DEF Counts
  <2> QED
    BY <2>3, Zenon DEF LiveThreads
<1>4. state[c] = "ZOMBIE"
  <2>1. state[c] # "UNUSED"
    BY <1>0, <1>1, <1>2, ZenonT(60) DEF ParentOK
  <2>2. ASSUME Alive(c) PROVE FALSE
    <3>1. process[c] \in Slots
      BY <1>0, <1>1, <2>2, ZenonT(60) DEF IInv, GroupOK
    <3> QED
      BY <1>1, <1>3, <2>2, <3>1, ZenonT(60)
  <2>3. ASSUME state[c] = "EMBRYO" PROVE FALSE
    <3>1. PICK r \in Slots : pc[r] \in Creating /\ np[r] = c
      BY <1>0, <1>1, <2>3, ZenonT(60) DEF EmbryoOK
    <3>2. Alive(r) /\ process[r] \in Slots
      <4>1. pc[r] # "none"
        BY <3>1, Zenon DEF Creating
      <4>2. Alive(r)
        BY <1>0, <4>1, Zenon DEF IInv, PcOK
      <4> QED
        BY <1>0, <4>2, ZenonT(60) DEF IInv, GroupOK
    <3>3. pc[r] \notin {"fork2", "fork3", "clone2", "clone3"}
      BY <1>0, <1>1, <1>2, <3>1, ZenonT(60) DEF ParentOK
    <3>4. pc[r] # "fork4"
      <4> SUFFICES ASSUME pc[r] = "fork4" PROVE FALSE
        BY Zenon
      <4>1. process[r] = process[p]
        BY <1>0, <1>1, <3>1, ZenonT(60) DEF ParentOK
      <4>2. r # p /\ "fork4" \in Forking
        BY Zenon DEF Forking
      <4> QED
        BY <1>0, <4>1, <4>2, ZenonT(60) DEF WaitOK
    <3>5. pc[r] = "clone4"
      BY <3>1, <3>3, <3>4, ZenonT(60) DEF Creating
    <3>6. process[c] = process[r]
      BY <1>0, <3>1, <3>5, ZenonT(60) DEF IInv, NewOK
    <3> QED
      BY <1>1, <1>3, <3>2, <3>6, ZenonT(60)
  <2> QED
    BY <1>0, <1>1, <2>1, <2>2, <2>3, ZenonT(60) DEF States, Alive
<1>5. Exists(c) /\ ~Raw(c)
  <2>1. Exists(c)
    BY <1>4, ZenonT(60) DEF Exists
  <2>2. ASSUME NEW r \in Slots, pc[r] \in {"fork2", "clone2"} PROVE np[r] # c
    BY <1>0, <1>4, <2>2, ZenonT(60) DEF IInv, CreateOK, Creating
  <2> QED
    BY <1>4, <2>1, <2>2, ZenonT(60) DEF Raw
<1>6. tgid[c] # 0 /\ process[c] \in Slots
  BY <1>0, <1>1, <1>5, ZenonT(60) DEF TgidOK
<1>7. \A q \in Slots : process[q] = process[c] => ~Alive(q)
  BY <1>1, <1>3, <1>6, ZenonT(60)
<1>8. ASSUME NEW q \in Slots, tgid[q] = tgid[c] PROVE state[q] = "ZOMBIE"
  <2>1. ~Raw(q)
    <3>1. Raw(q) => q # c
      BY <1>5, Zenon
    <3> QED
      BY <1>0, <1>1, <1>6, <1>8, <3>1, SMTT(30) DEF TgidOK
  <2>2. ASSUME Alive(q) PROVE FALSE
    <3>1. Exists(q)
      BY <2>2, ZenonT(60) DEF Alive, Exists
    <3>2. process[q] = process[c]
      BY <1>0, <1>1, <1>5, <1>8, <3>1, ZenonT(60) DEF TgidOK
    <3> QED
      BY <1>7, <2>2, <3>2, ZenonT(60)
  <2>3. ASSUME state[q] = "EMBRYO" PROVE FALSE
    <3>1. PICK r \in Slots : pc[r] \in Creating /\ np[r] = q
      BY <1>0, <2>3, Zenon DEF EmbryoOK
    <3>2. Alive(r) /\ Exists(r)
      <4>1. pc[r] # "none"
        BY <3>1, Zenon DEF Creating
      <4>2. Alive(r)
        BY <1>0, <4>1, ZenonT(60) DEF IInv, PcOK
      <4> QED
        BY <4>2, Zenon DEF Alive, Exists
    <3>3. pc[r] \notin {"fork2", "clone2"}
      BY <2>1, <3>1, ZenonT(60) DEF Raw
    <3>4. pc[r] \notin {"fork3", "fork4"}
      <4> SUFFICES ASSUME pc[r] \in {"fork3", "fork4"} PROVE FALSE
        BY Zenon
      <4>1. tgid[q] = pid[q]
        BY <1>0, <3>1, ZenonT(60) DEF IdOK
      <4>2. q # c
        BY <1>4, <2>3, ZenonT(60)
      <4>3. tgid[c] # pid[q]
        BY <1>0, <1>1, <2>3, <4>2, ZenonT(60) DEF IdOK
      <4> QED
        BY <1>8, <4>1, <4>3, ZenonT(60)
    <3>5. pc[r] \in {"clone3", "clone4"}
      BY <3>1, <3>3, <3>4, ZenonT(60) DEF Creating
    <3>6. tgid[r] = tgid[c]
      BY <1>0, <1>8, <3>1, <3>5, ZenonT(60) DEF IInv, NewOK
    <3>7. process[r] = process[c]
      BY <1>0, <1>1, <1>5, <3>2, <3>6, ZenonT(60) DEF TgidOK
    <3> QED
      BY <1>7, <3>2, <3>7, ZenonT(60)
  <2> QED
    BY <1>0, <2>1, <2>2, <2>3, ZenonT(60) DEF States, Alive, Raw
<1> QED
  BY <1>6, <1>8, ZenonT(60)

(* wait reaps a whole group and frees its page directory; it never panics. *)
LEMMA WaitReapF ==
  ASSUME Firsts, Counts, FInv, XInv', NEW p \in Slots, WaitReap(p)
  PROVE  FInv'
<1>0. /\ TgidOK /\ MemOK /\ CreateOK /\ pc \in [Slots -> Pcs]
  BY ZenonT(60) DEF FInv, XInv, IInv, TypeOK
<1>1. pc[p] = "wait" /\ DeadChildren(p) # {}
  BY Zenon DEF WaitReap, At
<1>2. First(DeadChildren(p)) \in DeadChildren(p)
  <2>1. DeadChildren(p) \in SUBSET Nat
    BY NPROCAssumption DEF DeadChildren, Children, Slots
  <2> QED
    BY <1>1, <2>1, ZenonT(60) DEF Firsts
<1>3. PICK c \in DeadChildren(p) : c = First(DeadChildren(p))
  BY <1>2, Zenon
<1>4. PICK id : id = tgid[c]
  BY Zenon
<1>5. PICK G : G = {q \in Slots : tgid[q] = id}
  BY Zenon
<1>6. id # 0 /\ G \subseteq Slots /\ \A q \in G : state[q] = "ZOMBIE" /\ tgid[q] = id
  BY <1>1, <1>4, <1>5, DeadGroup, ZenonT(60)
<1>7. /\ Reap(G)
      /\ pgs' = pgs \ {pgdir[q] : q \in {r \in G : pid[r] = id /\ process[r] = r}}
      /\ pc' = [pc EXCEPT ![p] = "user"] /\ np' = np /\ cwd' = cwd /\ panicked' = panicked
  <2>1. ~\E q \in G : state[q] # "ZOMBIE"
    BY <1>6, Zenon
  <2> QED
    BY <1>3, <1>4, <1>5, <2>1, ZenonT(60) DEF WaitReap, WaitReturns, GoTo
<1>8. /\ pc'[p] = "user" /\ \A q \in Slots \ {p} : pc'[q] = pc[q] /\ np'[q] = np[q]
  BY <1>0, <1>7, ZenonT(60)
<1>9. {r \in G : pid[r] = id /\ process[r] = r} = Owners \cap G
  <2>1. ASSUME NEW r \in G PROVE ~Raw(r) /\ r \in Slots /\ state[r] = "ZOMBIE" /\ tgid[r] = id
    <3>1. ASSUME NEW q \in Slots, pc[q] \in {"fork2", "clone2"} PROVE np[q] # r
      BY <1>0, <1>6, <3>1, ZenonT(60) DEF CreateOK, Creating
    <3> QED
      BY <1>6, <3>1, ZenonT(60) DEF Raw
  <2>2. \A r \in Owners : pid[r] = tgid[r]
    BY <1>0, Zenon DEF MemOK
  <2> QED
    BY <2>1, <2>2, Zenon DEF Owners
<1>10. ASSUME NEW q \in Slots \ G, Exists(q) PROVE process[q] \notin G
  <2>1. process[q] \in Slots /\ Exists(process[q]) /\ process[process[q]] = process[q]
    BY <1>0, <1>10, Zenon DEF TgidOK
  <2>2. tgid[process[q]] = tgid[q]
    BY <1>0, <1>10, <2>1, ZenonT(60) DEF TgidOK
  <2> QED
    BY <1>5, <1>10, <2>2, ZenonT(60)
<1>11. /\ \A q \in G : /\ state'[q] = "UNUSED" /\ tgid'[q] = 0 /\ process'[q] = 0
                       /\ parent'[q] = 0 /\ pgdir'[q] = 0
       /\ \A q \in Slots \ G :
            /\ state'[q] = state[q] /\ pid'[q] = pid[q] /\ tgid'[q] = tgid[q]
            /\ process'[q] = process[q] /\ parent'[q] = parent[q]
            /\ pgdir'[q] = pgdir[q] /\ killed'[q] = killed[q]
  BY <1>6, <1>7, Zenon DEF Reap
<1>12. Reaps(p, G)
  <2>1. pc[p] \in {"wait", "join"}
    BY <1>1, Zenon
  <2>2. pgs' = pgs \ {pgdir[q] : q \in Owners \cap G}
    BY <1>7, <1>9, Zenon
  <2> QED
    BY <1>6, <1>7, <1>8, <1>10, <1>11, <2>1, <2>2, ZenonT(60) DEF Reaps
<1> QED
  BY <1>12, ReapF, ZenonT(60)

-----------------------------------------------------------------------------
(* After userinit there is init, alone, with its memory. *)
LEMMA InitFInv ==
  ASSUME Init, XInv
  PROVE  FInv
<1>1. /\ \A q \in Slots : /\ pid[q] = IF q = initproc THEN 1 ELSE 0
                          /\ tgid[q] = IF q = initproc THEN 1 ELSE 0
                          /\ process[q] = IF q = initproc THEN initproc ELSE 0
                          /\ state[q] = IF q = initproc THEN "RUNNABLE" ELSE "UNUSED"
                          /\ pc[q] = IF q = initproc THEN "user" ELSE "none"
                          /\ pgdir[q] = IF q = initproc THEN 1 ELSE 0
                          /\ cwd[q] = IF q = initproc THEN TRUE ELSE FALSE
                          /\ parent[q] = 0 /\ killed[q] = FALSE
      /\ pgs = {1} /\ panicked = "no"
  BY Zenon DEF Init
<1>2. initproc \in Slots /\ initproc # 0
  BY NPROCAssumption DEF initproc, Slots
<1>3. \A q \in Slots : (Alive(q) <=> q = initproc) /\ (Exists(q) <=> q = initproc)
  BY <1>1, Zenon DEF Alive, Exists
<1>4. \A q \in Slots : Raw(q) <=> q # initproc
  BY <1>1, Zenon DEF Raw
<1>5. /\ pid[initproc] = 1 /\ tgid[initproc] = 1 /\ process[initproc] = initproc
      /\ state[initproc] = "RUNNABLE" /\ pgdir[initproc] = 1
  BY <1>1, <1>2, Zenon
<1>6. InitOK /\ LeaderOK
  BY <1>1, <1>2, <1>3, ZenonT(60) DEF InitOK, LeaderOK, Forking, Exiting, Execing
<1>7. WaitOK /\ EmbryoOK /\ LastOK /\ NoUndead
  BY <1>1, Zenon DEF WaitOK, EmbryoOK, LastOK, NoUndead
<1>8. ParentOK
  BY <1>1, <1>3, Zenon DEF ParentOK
<1>9. TgidOK
  <2>1. \A q \in Slots : Exists(q) => q = initproc
    BY <1>3, Zenon
  <2>2. tgid[initproc] # 0 /\ process[initproc] = initproc /\ Exists(initproc)
    BY <1>5 DEF Exists
  <2>3. \A q \in Slots : Raw(q) => tgid[q] = 0
    BY <1>1, <1>4, Zenon
  <2> QED
    BY <1>2, <2>1, <2>2, <2>3, ZenonT(60) DEF TgidOK
<1>10. MemOK
  <2>1. Owners = {initproc}
    BY <1>1, <1>2, <1>4, ZenonT(60) DEF Owners
  <2>2. pgs = {pgdir[q] : q \in Owners}
    BY <1>1, <1>2, <2>1, ZenonT(60)
  <2>3. /\ pid[initproc] = tgid[initproc] /\ pgdir[initproc] # 0
        /\ process[initproc] = initproc /\ state[initproc] # "ZOMBIE" /\ ~Raw(initproc)
    <3>1. ~Raw(initproc)
      BY <1>2, <1>4, Zenon
    <3> QED
      BY <1>5, <3>1
  <2>4. \A q \in Slots : Raw(q) => pgdir[q] = 0
    BY <1>1, <1>4, Zenon
  <2>5. \A q \in Slots : Alive(q) => q = initproc
    BY <1>3, Zenon
  <2>6. \A q \in Slots : pc[q] \notin {"clone3", "clone4"}
    BY <1>1, Zenon
  <2>7. \A q \in Slots : q # initproc => ~cwd[q]
    BY <1>1, Zenon
  <2> QED
    BY <2>1, <2>2, <2>3, <2>4, <2>5, <2>6, <2>7, ZenonT(60) DEF MemOK
<1> QED
  BY <1>6, <1>7, <1>8, <1>9, <1>10, ZenonT(60) DEF FInv

=============================================================================
