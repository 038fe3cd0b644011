----------------------------- MODULE LogProofs ------------------------------
(***************************************************************************)
(* Proofs about the log, for every number of threads, blocks and values    *)
(* and every size of the log: that it implements AtomicFS (operations are  *)
(* atomic in spite of crashes), that the header never overflows, and that  *)
(* no thread sleeps in begin_op without somebody to wake it.  The steps    *)
(* take what they need of finite sets as a hypothesis, Counting, which is  *)
(* proved from the library before the theorems.                            *)
(***************************************************************************)
EXTENDS Log, TLAPS

(* more time for each step than the provers take by default *)
USE SMTT(30), ZenonT(30)

-----------------------------------------------------------------------------
(* The inductive invariant. *)

Active == {p \in Ops : pc[p] \in {"op", "append"}}
Committers == {p \in Ops : pc[p] \in {"write_log", "install", "committed"}}
Installing == \E p \in Ops : pc[p] = "install"

TypeOK ==
  /\ disk \in [Blocks -> Vals] /\ logblk \in [1..LOGSIZE -> Vals] /\ head \in Seq(Blocks)
  /\ cache \in [Blocks -> Vals] /\ dirty \subseteq Blocks
  /\ lh \in Seq(Blocks) /\ outstanding \in Nat /\ committing \in BOOLEAN
  /\ boot \in {"up", "install"} /\ tail \in Nat
  /\ pc \in [Ops -> {"idle", "op", "append", "write_log", "install", "committed"}]
  /\ state \in [Ops -> {"RUNNABLE", "SLEEPING"}]
  /\ blk \in [Ops -> Blocks \cup {First}] /\ wrote \in [Ops -> SUBSET Blocks]
  /\ panicked \in BOOLEAN

(* who counts as active, who commits: one thread, when no operation is active *)
CountOK ==
  /\ outstanding = Cardinality(Active)
  /\ \A p, q \in Committers : p = q
  /\ committing <=> Committers # {}
  /\ committing => Active = {}

(* the header in memory and on disk *)
HeadOK ==
  /\ \A i, j \in 1..Len(lh) : lh[i] = lh[j] => i = j
  /\ tail <= Len(lh)
  /\ boot = "up" => head = IF Installing THEN lh ELSE << >>
  /\ boot = "up" /\ Active = {} /\ ~committing => lh = << >>
  /\ \A p \in Ops : pc[p] = "committed" => lh = << >>
  /\ boot = "up" /\ tail > 0 => \E p \in Ops : pc[p] \in {"write_log", "install"}

(* recovery: nothing runs, and the buffers are as the disk *)
BootOK ==
  boot = "install" =>
    /\ \A p \in Ops : pc[p] = "idle" /\ state[p] = "RUNNABLE"
    /\ lh = head /\ dirty = {} /\ cache = disk
    /\ \A i \in 1..tail : disk[lh[i]] = logblk[i]

(* what the log blocks hold during a commit *)
LogOK ==
  \A p \in Ops :
    /\ pc[p] = "write_log" => \A i \in 1..tail : logblk[i] = cache[lh[i]]
    /\ pc[p] = "install" =>
         /\ \A i \in 1..Len(lh) : logblk[i] = cache[lh[i]]
         /\ \A i \in 1..tail : disk[lh[i]] = logblk[i]

(* B_DIRTY marks the blocks of the header that are not home yet; a buffer  *)
(* that is neither dirty nor held is as the disk                           *)
DirtyOK ==
  boot = "up" =>
    /\ \A b \in dirty : Logged(b)
    /\ \A i \in 1..Len(lh) : lh[i] \in dirty <=> ~(Installing /\ i <= tail)
    /\ \A b \in Blocks : b \notin dirty /\ ~Held(b) => cache[b] = disk[b]

(* the blocks an operation has in the header, and what it may still add *)
Done(p) == {b \in wrote[p] : Logged(b)}
Room == {x \in Ops \X (1..MAXOPBLOCKS) :
           x[1] \in Active /\ x[2] + Cardinality(Done(x[1])) <= MAXOPBLOCKS}

(* the space that begin_op has reserved is there *)
RoomOK ==
  /\ \A p \in Ops :
       /\ IsFiniteSet(wrote[p]) /\ Cardinality(wrote[p]) <= MAXOPBLOCKS
       /\ p \notin Active => wrote[p] = {}
       /\ pc[p] = "op" => \A b \in wrote[p] : Logged(b)
       /\ pc[p] = "append" => blk[p] \in wrote[p] /\ \A b \in wrote[p] \ {blk[p]} : Logged(b)
  /\ Len(lh) + Cardinality(Room) <= LOGSIZE

IInv == TypeOK /\ CountOK /\ HeadOK /\ BootOK /\ LogOK /\ DirtyOK /\ RoomOK /\ SleepersWillWake

-----------------------------------------------------------------------------
(* Lemmas about headers and about the sets that the invariant counts. *)

(* The empty header is one. *)
LEMMA EmptyHeader == << >> \in Seq(Blocks) /\ Len(<< >>) = 0
  OBVIOUS

(* A header with one more block. *)
LEMMA LongerHeader ==
  ASSUME NEW s \in Seq(Blocks), NEW b \in Blocks
  PROVE  /\ Append(s, b) \in Seq(Blocks) /\ Len(Append(s, b)) = Len(s) + 1
         /\ \A i \in 1..Len(s) : Append(s, b)[i] = s[i]
         /\ Append(s, b)[Len(s) + 1] = b
  OBVIOUS

(* What the steps need to know of counting. *)
Added(S, x) ==
  /\ IsFiniteSet(S \cup {x})
  /\ Cardinality(S \cup {x}) = IF x \in S THEN Cardinality(S) ELSE Cardinality(S) + 1

Removed(S, x) ==
  /\ IsFiniteSet(S \ {x})
  /\ Cardinality(S \ {x}) = IF x \in S THEN Cardinality(S) - 1 ELSE Cardinality(S)

Counting ==
  /\ IsFiniteSet({}) /\ Cardinality({}) = 0
  /\ \A S : IsFiniteSet(S) => Cardinality(S) \in Nat /\ (Cardinality(S) = 0 <=> S = {})
  /\ \A S : IsFiniteSet(S) => \A x : Added(S, x) /\ Removed(S, x)
  /\ \A S : IsFiniteSet(S) =>
       \A T \in SUBSET S : /\ IsFiniteSet(T)
                           /\ Cardinality(T) <= Cardinality(S)
                           /\ Cardinality(S) = Cardinality(T) => S = T
  /\ \A S : IsFiniteSet(S) =>
       /\ IsFiniteSet(S \X (1..MAXOPBLOCKS))
       /\ Cardinality(S \X (1..MAXOPBLOCKS)) = Cardinality(S) * MAXOPBLOCKS

(* The parts of it, by name: nothing, *)
LEMMA CountEmpty ==
  ASSUME Counting
  PROVE  /\ IsFiniteSet({}) /\ Cardinality({}) = 0
         /\ \A S : IsFiniteSet(S) => (Cardinality(S) = 0 <=> S = {})
BY Zenon DEF Counting

(* ... some things, *)
LEMMA CountType ==
  ASSUME Counting, NEW S, IsFiniteSet(S)
  PROVE  Cardinality(S) \in Nat
BY Zenon DEF Counting

(* ... one more, *)
LEMMA CountAdd ==
  ASSUME Counting, NEW S, NEW x, IsFiniteSet(S)
  PROVE  /\ IsFiniteSet(S \cup {x})
         /\ Cardinality(S \cup {x}) = IF x \in S THEN Cardinality(S) ELSE Cardinality(S) + 1
<1>1. Added(S, x)
  BY Zenon DEF Counting
<1> QED
  BY <1>1, Zenon DEF Added

(* ... one less, *)
LEMMA CountRemove ==
  ASSUME Counting, NEW S, NEW x, IsFiniteSet(S)
  PROVE  /\ IsFiniteSet(S \ {x})
         /\ Cardinality(S \ {x}) = IF x \in S THEN Cardinality(S) - 1 ELSE Cardinality(S)
<1>1. Removed(S, x)
  BY Zenon DEF Counting
<1> QED
  BY <1>1, Zenon DEF Removed

(* ... some of them, *)
LEMMA CountSubset ==
  ASSUME Counting, NEW S, IsFiniteSet(S), NEW T \in SUBSET S
  PROVE  /\ IsFiniteSet(T)
         /\ Cardinality(T) <= Cardinality(S)
         /\ Cardinality(S) = Cardinality(T) => S = T
BY Zenon DEF Counting

(* ... and MAXOPBLOCKS for each. *)
LEMMA PerOperation ==
  ASSUME Counting, NEW S, IsFiniteSet(S)
  PROVE  /\ IsFiniteSet(S \X (1..MAXOPBLOCKS))
         /\ Cardinality(S \X (1..MAXOPBLOCKS)) = Cardinality(S) * MAXOPBLOCKS
BY Zenon DEF Counting

(* What the operations may still add is a finite set. *)
LEMMA RoomFinite ==
  ASSUME Counting
  PROVE  /\ IsFiniteSet(Room) /\ Cardinality(Room) \in Nat
         /\ \A T \in SUBSET Room : Cardinality(T) <= Cardinality(Room) /\ Cardinality(T) \in Nat
<1>1. Room \in SUBSET (Ops \X (1..MAXOPBLOCKS))
  BY Zenon DEF Room
<1>2. IsFiniteSet(Ops \X (1..MAXOPBLOCKS))
  BY OpsAssumption, PerOperation, Zenon
<1>3. IsFiniteSet(Room)
  BY <1>1, <1>2, CountSubset, Zenon
<1> QED
  BY <1>3, CountSubset, CountType, Zenon

(* A step that takes room from the operations and nothing from the log     *)
(* keeps what is reserved.                                                 *)
LEMMA RoomFrame ==
  ASSUME Counting, TypeOK, RoomOK, Room' \subseteq Room, Len(lh)' \in Nat, Len(lh)' <= Len(lh)
  PROVE  Len(lh)' + Cardinality(Room)' <= LOGSIZE
<1>1. /\ Cardinality(Room) \in Nat
      /\ Cardinality(Room') <= Cardinality(Room) /\ Cardinality(Room') \in Nat
  BY RoomFinite, Zenon
<1>2. Len(lh) \in Nat
  BY DEF TypeOK
<1>3. Len(lh) + Cardinality(Room) <= LOGSIZE
  BY Zenon DEF RoomOK
<1> QED
  BY <1>1, <1>2, <1>3, SizeAssumption

-----------------------------------------------------------------------------
(* What each step does to the invariant that counts nothing. *)

(* A step that changes nothing keeps the invariant. *)
LEMMA Stutter ==
  ASSUME IInv, UNCHANGED vars
  PROVE  IInv'
<1>1. /\ UNCHANGED <<disk, logblk, head, cache, dirty, lh, outstanding, committing, boot>>
      /\ UNCHANGED <<pc, state, blk, wrote, tail, panicked>>
  BY Zenon DEF vars, diskv, logv, procv
<1>2. TypeOK' /\ SleepersWillWake'
  BY <1>1, Zenon DEF IInv, TypeOK, SleepersWillWake
<1>3. /\ Active' = Active /\ Committers' = Committers /\ (Installing' <=> Installing)
      /\ \A b : (Logged(b)' <=> Logged(b)) /\ (Held(b)' <=> Held(b))
  BY <1>1, Zenon DEF Active, Committers, Installing, Logged, Held
<1>4. CountOK' /\ HeadOK' /\ BootOK' /\ LogOK'
  BY <1>1, <1>3, ZenonT(60) DEF IInv, CountOK, HeadOK, BootOK, LogOK
<1>5. DirtyOK'
  BY <1>1, <1>3, Zenon DEF IInv, DirtyOK
<1>6. Room' = Room
  BY <1>1, <1>3, ZenonT(30) DEF Room, Done, Logged
<1>7. RoomOK'
  BY <1>1, <1>3, <1>6, Zenon DEF IInv, RoomOK
<1> QED
  BY <1>2, <1>4, <1>5, <1>7, Zenon DEF IInv

(* A buffer that is read again is as it was. *)
LEMMA RecycleStep ==
  ASSUME IInv, NEW b \in Blocks, Recycle(b)
  PROVE  IInv' /\ cache' = cache
<1>1. cache' = cache
  BY Zenon DEF IInv, TypeOK, DirtyOK, Recycle
<1>2. UNCHANGED vars
  BY <1>1, Zenon DEF Recycle, vars
<1> QED
  BY <1>1, <1>2, Stutter, Zenon

(* The steps of a commit, until its end: nobody else has anything to do with the log. *)
LEMMA CommitSteps ==
  ASSUME Counting, IInv, NEW p \in Ops,
         write_log(p) \/ write_head(p) \/ install_trans(p) \/ clear_head(p)
  PROVE  IInv'
<1> USE DEF write_log, write_head, install_trans, clear_head, At, GoTo
<1>1. /\ p \in Committers /\ committing /\ Active = {} /\ boot = "up"
      /\ \A q \in Ops : q # p => pc[q] = "idle"
  BY DEF IInv, TypeOK, CountOK, Committers, Active
<1>2. Active' = {} /\ Committers' = {p} /\ Room' = {} /\ \A b : ~Held(b) /\ ~Held(b)'
  <2>1. pc'[p] \in {"write_log", "install", "committed"} /\ \A q \in Ops : q # p => pc'[q] = "idle"
    BY <1>1, Zenon DEF IInv, TypeOK, procv
  <2>2. Active' = {} /\ Committers' = {p}
    BY <2>1, Zenon DEF Active, Committers
  <2> QED
    BY <1>1, <2>1, <2>2, Zenon DEF Room, Held, Active
<1>3. Len(lh) <= LOGSIZE /\ Len(lh) \in Nat
  BY RoomFinite, SizeAssumption DEF IInv, TypeOK, RoomOK
<1>4. \A i \in 1..Len(lh) : lh[i] \in Blocks
  BY DEF IInv, TypeOK
<1>5. CountOK' /\ SleepersWillWake'
  BY <1>1, <1>2, Zenon DEF IInv, TypeOK, CountOK, Committers, SleepersWillWake, logv, procv
<1>6. lh' \in Seq(Blocks) /\ Len(lh') <= LOGSIZE /\ Len(lh') \in Nat
  <2>1. lh' = lh \/ lh' = << >>
    BY Zenon DEF logv
  <2>2. CASE lh' = lh
    BY <1>3, <2>2, Zenon DEF IInv, TypeOK
  <2>3. CASE lh' = << >>
    BY <2>3, SizeAssumption
  <2> QED
    BY <2>1, <2>2, <2>3, Zenon
<1>7. RoomOK'
  <2>1. Cardinality(Room') = 0
    BY <1>2, Zenon DEF Counting
  <2>2. wrote' = wrote /\ \A q \in Ops : wrote[q] = {} /\ pc'[q] \notin {"op", "append"}
    BY <1>1, <1>2, Zenon DEF IInv, RoomOK, Active, procv
  <2>3. Len(lh') + Cardinality(Room') <= LOGSIZE
    BY <1>6, <2>1
  <2>4. \A q \in Ops : IsFiniteSet(wrote'[q]) /\ Cardinality(wrote'[q]) <= MAXOPBLOCKS
    BY <2>2, Zenon DEF IInv, RoomOK
  <2> QED
    BY <2>2, <2>3, <2>4, Zenon DEF RoomOK
<1>8. CASE write_log(p)
  <2>1. TypeOK'
    <3>1. tail + 1 \in 1..LOGSIZE /\ tail + 1 \in 1..Len(lh)
      BY <1>3, <1>8, SizeAssumption DEF IInv, TypeOK
    <3>2. cache[lh[tail + 1]] \in Vals
      BY <1>4, <3>1, Zenon DEF IInv, TypeOK
    <3> QED
      BY <1>8, <3>1, <3>2 DEF IInv, TypeOK, procv, logv
  <2>2. HeadOK' /\ BootOK' /\ DirtyOK'
    <3>1. /\ lh' = lh /\ head' = head /\ boot' = boot /\ pc' = pc /\ dirty' = dirty
          /\ cache' = cache /\ disk' = disk /\ tail' = tail + 1 /\ committing' = committing
          /\ tail < Len(lh) /\ (Installing' <=> Installing) /\ pc[p] = "write_log"
      BY <1>8, Zenon DEF procv, logv, Installing
    <3>2. HeadOK'
      BY <1>1, <1>2, <1>3, <3>1 DEF IInv, TypeOK, HeadOK
    <3>3. BootOK'
      BY <1>1, <3>1, Zenon DEF BootOK
    <3>4. ~Installing
      BY <1>1, <3>1, Zenon DEF IInv, CountOK, Committers, Installing
    <3>5. DirtyOK'
      BY <1>1, <1>2, <3>1, <3>4, Zenon DEF IInv, DirtyOK, Logged
    <3> QED
      BY <3>2, <3>3, <3>5, Zenon
  <2>3. LogOK'
    <3>1. \A i \in 1..tail' : i \in 1..LOGSIZE /\ (i \in 1..tail \/ i = tail + 1)
      BY <1>3, <1>8, SizeAssumption DEF IInv, TypeOK, HeadOK
    <3>2. \A i \in 1..tail' : logblk'[i] = cache[lh[i]]
      BY <1>8, <3>1, Zenon DEF IInv, TypeOK, LogOK
    <3> QED
      BY <1>1, <1>8, <3>2, ZenonT(60) DEF IInv, TypeOK, LogOK, procv, logv
  <2> QED
    BY <1>5, <1>7, <2>1, <2>2, <2>3, Zenon DEF IInv
<1>9. CASE write_head(p)
  <2>1. TypeOK'
    BY <1>9, Zenon DEF IInv, TypeOK, logv
  <2>2. ~Installing /\ Installing' /\ pc' = [pc EXCEPT ![p] = "install"]
    BY <1>1, <1>9, Zenon DEF IInv, TypeOK, Installing
  <2>3. HeadOK'
    BY <1>1, <1>2, <1>3, <1>9, <2>2 DEF IInv, TypeOK, HeadOK, logv
  <2>4. BootOK' /\ DirtyOK'
    BY <1>1, <1>2, <1>9, <2>2 DEF IInv, TypeOK, BootOK, DirtyOK, Logged, logv
  <2>5. LogOK'
    BY <1>1, <1>3, <1>9, <2>2 DEF IInv, TypeOK, LogOK, logv
  <2> QED
    BY <1>5, <1>7, <2>1, <2>3, <2>4, <2>5, Zenon DEF IInv
<1>10. CASE install_trans(p)
  <2>1. tail + 1 \in 1..Len(lh) /\ tail + 1 \in 1..LOGSIZE
    BY <1>3, <1>10, SizeAssumption DEF IInv, TypeOK
  <2>2. lh[tail + 1] \in Blocks /\ logblk[tail + 1] \in Vals /\ logblk[tail + 1] = cache[lh[tail + 1]]
    BY <1>4, <1>10, <2>1, Zenon DEF IInv, TypeOK, LogOK
  <2>3. TypeOK' /\ cache' = cache
    BY <1>10, <2>1, <2>2 DEF IInv, TypeOK, Install, procv, logv
  <2>4. Installing /\ Installing'
    BY <1>10, Zenon DEF Installing, procv
  <2>5. HeadOK'
    BY <1>1, <1>10, <2>1, <2>4 DEF IInv, TypeOK, HeadOK, Install, procv, logv, Active
  <2>6. BootOK' /\ LogOK'
    <3>1. \A i \in 1..Len(lh) : lh[i] = lh[tail + 1] => i = tail + 1
      BY <2>1, Zenon DEF IInv, HeadOK
    <3>2. \A i \in 1..tail' : disk'[lh[i]] = logblk[i]
      <4>1. \A i \in 1..tail' : i \in 1..Len(lh) /\ (i \in 1..tail \/ i = tail + 1)
        BY <1>3, <1>10, <2>1 DEF IInv, TypeOK, Install
      <4>2. \A i \in 1..tail : disk[lh[i]] = logblk[i]
        BY <1>10, Zenon DEF IInv, LogOK
      <4> QED
        BY <1>4, <1>10, <2>2, <3>1, <4>1, <4>2, Zenon DEF IInv, TypeOK, Install
    <3>3. \A i \in 1..Len(lh) : logblk[i] = cache[lh[i]]
      BY <1>10, Zenon DEF IInv, LogOK
    <3> QED
      BY <1>1, <1>10, <2>3, <3>2, <3>3, Zenon DEF BootOK, LogOK, procv, logv
  <2>7. DirtyOK'
    <3>1. /\ lh' = lh /\ tail' = tail + 1 /\ dirty' = dirty \ {lh[tail + 1]}
          /\ disk' = [disk EXCEPT ![lh[tail + 1]] = cache[lh[tail + 1]]]
      BY <1>10, <2>2, Zenon DEF Install, logv
    <3>2. \A b \in dirty' : Logged(b)'
      BY <1>1, <3>1, Zenon DEF IInv, DirtyOK, Logged
    <3>3. \A i \in 1..Len(lh) : lh[i] \in dirty' <=> ~(i <= tail')
      BY <1>1, <1>3, <2>1, <2>4, <3>1 DEF IInv, TypeOK, HeadOK, DirtyOK
    <3>4. \A b \in Blocks : b \notin dirty' => cache'[b] = disk'[b]
      BY <1>1, <1>2, <2>3, <3>1, Zenon DEF IInv, TypeOK, DirtyOK
    <3> QED
      BY <2>4, <3>1, <3>2, <3>3, <3>4, Zenon DEF DirtyOK
  <2> QED
    BY <1>5, <1>7, <2>3, <2>5, <2>6, <2>7, Zenon DEF IInv
<1>11. CASE clear_head(p)
  <2>1. TypeOK'
    BY <1>11 DEF IInv, TypeOK
  <2>2. Installing /\ ~Installing'
    BY <1>1, <1>11, Zenon DEF IInv, TypeOK, Installing
  <2>3. HeadOK' /\ BootOK' /\ LogOK'
    BY <1>1, <1>11, <2>2, SMTT(30) DEF IInv, TypeOK, HeadOK, BootOK, LogOK
  <2>4. dirty = {}
    <3>1. DOMAIN lh = 1..Len(lh)
      BY DEF IInv, TypeOK
    <3>2. \A i \in 1..Len(lh) : lh[i] \notin dirty
      BY <1>1, <1>11, <2>2 DEF IInv, DirtyOK
    <3>3. \A b \in dirty : \E i \in 1..Len(lh) : lh[i] = b
      BY <1>1, <3>1, Zenon DEF IInv, DirtyOK, Logged
    <3> QED
      BY <3>2, <3>3
  <2>5. DirtyOK'
    BY <1>1, <1>2, <1>11, <2>2, <2>4 DEF IInv, TypeOK, DirtyOK
  <2> QED
    BY <1>5, <1>7, <2>1, <2>3, <2>5, Zenon DEF IInv
<1> QED
  BY <1>8, <1>9, <1>10, <1>11, Zenon

(* The end of a commit wakes the sleepers; the next group finds an empty log. *)
LEMMA CommittedStep ==
  ASSUME Counting, IInv, NEW p \in Ops, committed(p)
  PROVE  IInv'
<1> USE DEF committed, At, GoTo, Wakeup
<1>1. /\ p \in Committers /\ committing /\ Active = {} /\ boot = "up" /\ lh = << >>
      /\ \A q \in Ops : q # p => pc[q] = "idle"
  BY DEF IInv, TypeOK, CountOK, HeadOK, Committers, Active
<1>2. /\ Active' = {} /\ Committers' = {} /\ ~Installing /\ ~Installing'
      /\ \A q \in Ops : pc'[q] = "idle"
  BY <1>1, Zenon DEF IInv, TypeOK, Active, Committers, Installing
<1>3. TypeOK'
  BY Zenon DEF IInv, TypeOK, diskv
<1>4. CountOK' /\ SleepersWillWake'
  BY <1>1, <1>2, Zenon DEF IInv, CountOK, SleepersWillWake
<1>5. HeadOK'
  BY <1>1, <1>2 DEF IInv, TypeOK, HeadOK, diskv
<1>6. BootOK' /\ LogOK'
  BY <1>1, <1>2, Zenon DEF BootOK, LogOK
<1>7. DirtyOK'
  BY <1>1, <1>2 DEF IInv, TypeOK, DirtyOK, Logged, Held, Active, diskv
<1>8. Room' \subseteq Room
  BY <1>2, Zenon DEF Room
<1>9. RoomOK'
  <2>1. Len(lh)' + Cardinality(Room)' <= LOGSIZE
    BY <1>8, RoomFrame DEF IInv, TypeOK
  <2> QED
    BY <1>1, <1>2, <2>1, Zenon DEF IInv, RoomOK
<1> QED
  BY <1>3, <1>4, <1>5, <1>6, <1>7, <1>9, Zenon DEF IInv

(* A crash empties the memory and reads the header back. *)
LEMMA CrashStep ==
  ASSUME Counting, IInv, Crash
  PROVE  IInv'
<1>1. Active' = {} /\ Committers' = {} /\ ~Installing' /\ Room' = {}
  BY Zenon DEF Crash, Active, Committers, Installing, Room
<1>2. TypeOK'
  BY Zenon DEF IInv, TypeOK, Crash, diskv
<1>3. CountOK' /\ SleepersWillWake'
  BY <1>1, Zenon DEF Counting, Crash, CountOK, SleepersWillWake
<1>4. head = << >> \/ head = lh
  BY Zenon DEF IInv, HeadOK, BootOK, TypeOK
<1>5. HeadOK'
  BY <1>1, <1>4 DEF IInv, TypeOK, HeadOK, Crash, diskv
<1>6. BootOK' /\ LogOK' /\ DirtyOK'
  BY DEF Crash, BootOK, LogOK, DirtyOK, diskv
<1>7. RoomOK'
  <2>1. Room' \subseteq Room /\ Len(lh)' \in Nat /\ Len(lh)' <= Len(lh)
    <3>1. CASE head = lh
      BY <1>1, <3>1 DEF IInv, TypeOK, Crash
    <3>2. CASE head = << >>
      BY <1>1, <3>2 DEF IInv, TypeOK, Crash
    <3> QED
      BY <1>4, <3>1, <3>2, Zenon
  <2>2. Len(lh)' + Cardinality(Room)' <= LOGSIZE
    BY <2>1, RoomFrame, Zenon DEF IInv
  <2>3. IsFiniteSet({}) /\ Cardinality({}) = 0
    BY Zenon DEF Counting
  <2>4. \A p \in Ops : wrote'[p] = {} /\ pc'[p] = "idle"
    BY Zenon DEF Crash
  <2>5. \A p \in Ops : IsFiniteSet(wrote'[p]) /\ Cardinality(wrote'[p]) <= MAXOPBLOCKS
    BY <2>3, <2>4, SizeAssumption
  <2> QED
    BY <2>2, <2>4, <2>5, Zenon DEF RoomOK
<1> QED
  BY <1>2, <1>3, <1>5, <1>6, <1>7, Zenon DEF IInv

(* The steps of recovery write home what the log holds. *)
LEMMA RecoverSteps ==
  ASSUME Counting, IInv, RecoverInstall \/ RecoverClear
  PROVE  IInv'
<1> USE DEF RecoverInstall, RecoverClear
<1>1. /\ boot = "install" /\ lh = head /\ dirty = {} /\ cache = disk /\ Active = {} /\ ~committing
      /\ \A p \in Ops : pc[p] = "idle" /\ state[p] = "RUNNABLE"
      /\ \A i \in 1..tail : disk[lh[i]] = logblk[i]
  BY Zenon DEF IInv, TypeOK, CountOK, BootOK, Active, Committers
<1>2. /\ procv' = procv /\ Active' = Active /\ Committers' = Committers
      /\ ~Installing' /\ Room' \subseteq Room
  BY <1>1, Zenon DEF Active, Committers, Installing, Room, procv
<1>3. CountOK' /\ SleepersWillWake'
  BY <1>1, <1>2 DEF IInv, CountOK, SleepersWillWake, procv, logv
<1>4. LogOK'
  BY <1>1, <1>2, Zenon DEF LogOK, procv
<1>5. Len(lh) <= LOGSIZE /\ Len(lh) \in Nat
  BY RoomFinite, SizeAssumption DEF IInv, TypeOK, RoomOK
<1>6. \A i \in 1..Len(lh) : lh[i] \in Blocks
  BY DEF IInv, TypeOK
<1>7. RoomOK'
  <2>1. Len(lh)' \in Nat /\ Len(lh)' <= Len(lh)
    <3>1. CASE RecoverInstall
      BY <1>5, <3>1 DEF logv
    <3>2. CASE RecoverClear
      BY <1>5, <3>2
    <3> QED
      BY <3>1, <3>2, Zenon
  <2>2. Len(lh)' + Cardinality(Room)' <= LOGSIZE
    BY <1>2, <2>1, RoomFrame, Zenon DEF IInv
  <2> QED
    BY <1>1, <1>2, <2>2, Zenon DEF IInv, RoomOK, procv
<1>8. CASE RecoverInstall
  <2>1. tail + 1 \in 1..Len(lh) /\ tail + 1 \in 1..LOGSIZE
    BY <1>5, <1>8, SizeAssumption DEF IInv, TypeOK
  <2>2. lh[tail + 1] \in Blocks /\ logblk[tail + 1] \in Vals
    BY <1>6, <2>1, Zenon DEF IInv, TypeOK
  <2>3. TypeOK'
    BY <1>8, <2>1, <2>2 DEF IInv, TypeOK, Install, procv, logv
  <2>4. HeadOK'
    BY <1>1, <1>2, <1>8, <2>1 DEF IInv, TypeOK, HeadOK, Install, procv, logv
  <2>5. BootOK'
    <3>1. \A i \in 1..tail' : i \in 1..Len(lh) /\ (i \in 1..tail \/ i = tail + 1)
      BY <1>5, <1>8, <2>1 DEF IInv, TypeOK, Install
    <3>2. \A i \in 1..tail' : disk'[lh[i]] = logblk[i]
      BY <1>1, <1>6, <1>8, <2>1, <2>2, <3>1, Zenon DEF IInv, TypeOK, HeadOK, Install
    <3> QED
      BY <1>1, <1>2, <1>8, <3>2, Zenon DEF BootOK, Install, procv, logv
  <2>6. DirtyOK'
    BY <1>8, <1>1, Zenon DEF DirtyOK
  <2> QED
    BY <1>3, <1>4, <1>7, <2>3, <2>4, <2>5, <2>6, Zenon DEF IInv
<1>9. CASE RecoverClear
  <2>1. TypeOK'
    BY <1>9 DEF IInv, TypeOK, procv
  <2>2. HeadOK' /\ BootOK' /\ DirtyOK'
    BY <1>1, <1>2, <1>9 DEF IInv, TypeOK, HeadOK, BootOK, DirtyOK, procv
  <2> QED
    BY <1>3, <1>4, <1>7, <2>1, <2>2, Zenon DEF IInv
<1> QED
  BY <1>8, <1>9, Zenon

-----------------------------------------------------------------------------
(* The log implements AtomicFS. *)

(* What recovery makes of the disk: the blocks of the header come from the *)
(* log, the others from their home.                                        *)
LEMMA RecoveredIs ==
  ASSUME TypeOK, \A i, j \in 1..Len(head) : head[i] = head[j] => i = j
  PROVE  /\ \A i \in 1..Len(head) : head[i] \in Blocks /\ Recovered[head[i]] = logblk[i]
         /\ \A b \in Blocks : (\A i \in 1..Len(head) : head[i] # b) => Recovered[b] = disk[b]
<1>1. DOMAIN head = 1..Len(head) /\ \A i \in 1..Len(head) : head[i] \in Blocks
  BY DEF TypeOK
<1>2. ASSUME NEW i \in 1..Len(head)
      PROVE  Recovered[head[i]] = logblk[i]
  <2>1. (CHOOSE j \in DOMAIN head : head[j] = head[i]) = i
    BY <1>1, Zenon
  <2> QED
    BY <1>1, <2>1, Zenon DEF Recovered
<1>3. ASSUME NEW b \in Blocks, \A i \in 1..Len(head) : head[i] # b
      PROVE  Recovered[b] = disk[b]
  BY <1>1, <1>3, Zenon DEF Recovered
<1> QED
  BY <1>1, <1>2, <1>3, Zenon

(* With an empty header recovery changes nothing. *)
LEMMA RecoveredClean ==
  ASSUME TypeOK, head = << >>
  PROVE  Recovered = disk
  BY DEF TypeOK, Recovered

(* The header on disk names a block once. *)
LEMMA HeadDistinct ==
  ASSUME IInv
  PROVE  \A i, j \in 1..Len(head) : head[i] = head[j] => i = j
<1>1. head = << >> \/ head = lh
  BY Zenon DEF IInv, HeadOK, BootOK, TypeOK
<1>2. CASE head = lh
  BY <1>2 DEF IInv, HeadOK
<1>3. CASE head = << >>
  BY <1>3
<1> QED
  BY <1>1, <1>2, <1>3, Zenon

(* Writing home what the header names does not change what recovery makes of the disk. *)
LEMMA InstallKeeps ==
  ASSUME IInv, NEW i \in 1..Len(head), disk' = [disk EXCEPT ![head[i]] = logblk[i]],
         UNCHANGED <<logblk, head>>
  PROVE  Recovered' = Recovered
<1>1. DOMAIN head = 1..Len(head)
  BY DEF IInv, TypeOK
<1>2. ASSUME NEW b \in Blocks, ~\E j \in DOMAIN head : head[j] = b
      PROVE  disk'[b] = disk[b]
  BY <1>1, <1>2, Zenon DEF IInv, TypeOK
<1> QED
  BY <1>2, Zenon DEF Recovered

(* The states at boot are states of AtomicFS. *)
LEMMA FSInit == Init => FS!Init
<1> SUFFICES ASSUME Init PROVE FS!Init
  BY Zenon
<1>1. Recovered = [b \in Blocks |-> InitVal]
  BY DEF Init, Recovered
<1>2. {p \in Ops : pc[p] \in {"op", "append"}} = {}
  BY Zenon DEF Init
<1> QED
  BY <1>1, <1>2, Zenon DEF Init, FS!Init

(* A step that changes neither what is durable, nor the buffers, nor who   *)
(* is active, is none for AtomicFS.                                        *)
LEMMA FSStutter ==
  ASSUME Recovered' = Recovered, cache' = cache, boot' = boot, Active' = Active
  PROVE  UNCHANGED FS!vars
  BY Zenon DEF FS!vars, Active

(* Every step of the log is one of AtomicFS or none: write_head is its     *)
(* Commit, and what goes before and after it in the commit is invisible.   *)
LEMMA FSNext ==
  ASSUME Counting, IInv, [Next]_vars
  PROVE  [FS!Next]_FS!vars
<1> SUFFICES FS!Next \/ UNCHANGED FS!vars
  BY Zenon DEF FS!vars
<1>1. ASSUME NEW p \in Ops, begin_op(p)
      PROVE  FS!Begin(p) \/ UNCHANGED FS!vars
  <2>1. Recovered' = Recovered
    BY <1>1, Zenon DEF begin_op, diskv, Recovered
  <2>2. CASE ~committing /\ HasSpace
    <3>1. Active' = Active \cup {p} /\ p \notin Active
      BY <1>1, <2>2, Zenon DEF IInv, TypeOK, Active, begin_op, At, GoTo
    <3>2. Active = {} => cache = Recovered
      <4> SUFFICES ASSUME Active = {} PROVE cache = Recovered
        BY Zenon
      <4>1. lh = << >> /\ head = << >> /\ boot = "up"
        BY <1>1, <2>2, Zenon DEF IInv, CountOK, HeadOK, begin_op, At, Installing, Committers
      <4>2. cache = disk
        BY <4>1 DEF IInv, TypeOK, DirtyOK, Logged, Held, Active
      <4> QED
        BY <4>1, <4>2, RecoveredClean, Zenon DEF IInv
    <3> QED
      BY <1>1, <2>1, <3>1, <3>2, Zenon DEF FS!Begin, Active, begin_op, At
  <2>3. CASE ~(~committing /\ HasSpace)
    BY <1>1, <2>1, <2>3, FSStutter, Zenon DEF begin_op, Active
  <2> QED
    BY <2>2, <2>3, Zenon
<1>2. ASSUME NEW p \in Ops, NEW b \in Blocks, NEW v \in Vals, log_write(p, b, v)
      PROVE  FS!Write(p, b, v)
  <2>1. Recovered' = Recovered
    BY <1>2, Zenon DEF log_write, diskv, Recovered
  <2>2. Active' = Active /\ p \in Active
    BY <1>2, Zenon DEF IInv, TypeOK, Active, log_write, At, GoTo
  <2> QED
    BY <1>2, <2>1, <2>2, Zenon DEF FS!Write, Active, log_write, At
<1>3. ASSUME NEW p \in Ops, log_append(p)
      PROVE  UNCHANGED FS!vars
  <2>1. Recovered' = Recovered
    BY <1>3, Zenon DEF log_append, diskv, Recovered
  <2>2. Active' = Active
    BY <1>3, Zenon DEF IInv, TypeOK, Active, log_append, At, GoTo
  <2> QED
    BY <1>3, <2>1, <2>2, FSStutter, Zenon DEF log_append
<1>4. ASSUME NEW p \in Ops, end_op(p)
      PROVE  FS!End(p)
  <2>1. Recovered' = Recovered
    BY <1>4, Zenon DEF end_op, diskv, Recovered
  <2>2. ~committing
    BY <1>4, Zenon DEF IInv, CountOK, end_op, At, Active
  <2>3. Active' = Active \ {p}
    BY <1>4, <2>2, Zenon DEF IInv, TypeOK, Active, end_op, At, GoTo
  <2> QED
    BY <1>4, <2>1, <2>3, Zenon DEF FS!End, Active, end_op
<1>5. ASSUME NEW b \in Blocks, Recycle(b)
      PROVE  UNCHANGED FS!vars
  BY <1>5, RecycleStep, FSStutter, Zenon DEF Recycle, diskv, procv, Recovered, Active
<1>6. ASSUME NEW p \in Ops, write_log(p)
      PROVE  UNCHANGED FS!vars
  <2>1. head = << >> /\ head' = head
    BY <1>6, ZenonT(60) DEF IInv, CountOK, HeadOK, write_log, At, Installing, Committers
  <2>2. Recovered' = Recovered
    BY <1>6, <2>1 DEF write_log, Recovered
  <2> QED
    BY <1>6, <2>2, FSStutter, Zenon DEF write_log, procv, Active
<1>7. ASSUME NEW p \in Ops, write_head(p)
      PROVE  FS!Commit
  <2>1. committing /\ Active = {} /\ ~Installing /\ boot = "up" /\ IInv'
    BY <1>7, CommitSteps, ZenonT(60) DEF IInv, CountOK, write_head, At, Installing, Committers
  <2>2. Active' = {}
    BY <1>7, <2>1, Zenon DEF IInv, TypeOK, Active, write_head, GoTo
  <2>3. DOMAIN lh = 1..Len(lh) /\ head' = lh
    BY <1>7 DEF IInv, TypeOK, write_head
  <2>4. ASSUME NEW b \in Blocks, \E i \in DOMAIN lh : lh[i] = b
        PROVE  logblk[CHOOSE i \in DOMAIN lh : lh[i] = b] = cache[b]
    <3> DEFINE i == CHOOSE i \in DOMAIN lh : lh[i] = b
    <3>1. i \in 1..Len(lh) /\ lh[i] = b
      BY <2>3, <2>4, Zenon
    <3> HIDE DEF i
    <3>2. logblk[i] = cache[lh[i]]
      BY <1>7, <3>1, Zenon DEF IInv, LogOK, write_head, At
    <3> QED
      BY <3>1, <3>2, Zenon DEF i
  <2>5. ASSUME NEW b \in Blocks, ~\E i \in DOMAIN lh : lh[i] = b
        PROVE  disk[b] = cache[b]
    BY <2>1, <2>5, Zenon DEF IInv, DirtyOK, Logged, Held, Active
  <2>6. Recovered' = cache
    BY <1>7, <2>3, <2>4, <2>5 DEF Recovered, write_head, IInv, TypeOK
  <2> QED
    BY <1>7, <2>1, <2>2, <2>6, Zenon DEF FS!Commit, Active, write_head
<1>8. ASSUME NEW p \in Ops, install_trans(p)
      PROVE  UNCHANGED FS!vars
  <2>1. head = lh /\ tail + 1 \in 1..Len(lh) /\ UNCHANGED <<logblk, head>>
    BY <1>8 DEF IInv, TypeOK, HeadOK, install_trans, At, Installing
  <2>2. Recovered' = Recovered
    BY <1>8, <2>1, InstallKeeps, Zenon DEF install_trans, Install
  <2>3. cache' = cache
    BY <1>8, <2>1, Zenon DEF IInv, TypeOK, LogOK, install_trans, At, Install
  <2> QED
    BY <1>8, <2>2, <2>3, FSStutter, Zenon DEF install_trans, procv, Active
<1>9. ASSUME NEW p \in Ops, clear_head(p)
      PROVE  UNCHANGED FS!vars
  <2>1. /\ head = lh /\ head' = << >> /\ disk' = disk /\ tail = Len(lh) /\ TypeOK'
        /\ \A i \in 1..Len(lh) : disk[lh[i]] = logblk[i]
    BY <1>9, CommitSteps, ZenonT(30) DEF IInv, HeadOK, LogOK, clear_head, At, Installing
  <2>2. \A b \in Blocks : Recovered[b] = disk[b]
    <3>1. /\ \A i \in 1..Len(head) : Recovered[head[i]] = logblk[i]
          /\ \A b \in Blocks : (\A i \in 1..Len(head) : head[i] # b) => Recovered[b] = disk[b]
      BY RecoveredIs, HeadDistinct, Zenon DEF IInv
    <3> QED
      BY <2>1, <3>1, SMTT(20)
  <2>3. Recovered' = disk /\ Recovered = disk
    BY <2>1, <2>2, RecoveredClean DEF IInv, TypeOK, Recovered
  <2>4. Active' = Active
    BY <1>9, Zenon DEF IInv, TypeOK, Active, clear_head, At, GoTo
  <2> QED
    BY <1>9, <2>3, <2>4, FSStutter, Zenon DEF clear_head
<1>10. ASSUME NEW p \in Ops, committed(p)
       PROVE  UNCHANGED FS!vars
  <2>1. Recovered' = Recovered
    BY <1>10, Zenon DEF committed, diskv, Recovered
  <2>2. Active' = Active
    BY <1>10, Zenon DEF IInv, TypeOK, Active, committed, At, GoTo
  <2> QED
    BY <1>10, <2>1, <2>2, FSStutter, Zenon DEF committed
<1>11. ASSUME Crash
       PROVE  FS!Crash
  <2>1. Recovered' = Recovered
    BY <1>11, Zenon DEF Crash, diskv, Recovered
  <2> QED
    BY <1>11, <2>1, Zenon DEF Crash, FS!Crash
<1>12. ASSUME RecoverInstall
       PROVE  UNCHANGED FS!vars
  <2>1. head = lh /\ tail + 1 \in 1..Len(lh) /\ UNCHANGED <<logblk, head>>
    BY <1>12 DEF IInv, TypeOK, BootOK, RecoverInstall
  <2>2. Recovered' = Recovered
    BY <1>12, <2>1, InstallKeeps, Zenon DEF RecoverInstall, Install
  <2> QED
    BY <1>12, <2>2, Zenon DEF RecoverInstall, procv, FS!vars
<1>13. ASSUME RecoverClear
       PROVE  UNCHANGED FS!vars
  <2>1. /\ head = lh /\ head' = << >> /\ disk' = disk /\ cache' = disk /\ tail = Len(lh) /\ TypeOK'
        /\ \A i \in 1..Len(lh) : disk[lh[i]] = logblk[i]
    BY <1>13, RecoverSteps, Zenon DEF IInv, BootOK, RecoverClear
  <2>2. \A b \in Blocks : Recovered[b] = disk[b]
    <3>1. /\ \A i \in 1..Len(head) : Recovered[head[i]] = logblk[i]
          /\ \A b \in Blocks : (\A i \in 1..Len(head) : head[i] # b) => Recovered[b] = disk[b]
      BY RecoveredIs, HeadDistinct, Zenon DEF IInv
    <3> QED
      BY <2>1, <3>1, SMTT(20)
  <2>3. Recovered' = disk /\ Recovered = disk
    BY <2>1, <2>2, RecoveredClean DEF IInv, TypeOK, Recovered
  <2> QED
    BY <1>13, <2>1, <2>3, Zenon DEF RecoverClear, procv, FS!vars
<1>14. CASE UNCHANGED vars
  BY <1>14, Zenon DEF vars, diskv, procv, FS!vars, Recovered
<1> QED
  BY <1>1, <1>2, <1>3, <1>4, <1>5, <1>6, <1>7, <1>8, <1>9, <1>10, <1>11, <1>12, <1>13, <1>14, Zenon
  DEF Next, FS!Next

-----------------------------------------------------------------------------
(* The active operations are finitely many, and none are when the count is 0. *)
LEMMA ActiveFinite ==
  ASSUME Counting, TypeOK
  PROVE  /\ IsFiniteSet(Active) /\ Cardinality(Active) \in Nat
         /\ Cardinality(Active) = 0 <=> Active = {}
<1>1. Active \subseteq Ops
  BY Zenon DEF Active
<1> QED
  BY <1>1, OpsAssumption, CountSubset, CountType, CountEmpty, Zenon

(* The number of blocks that an operation has in the header is a number. *)
LEMMA DoneFinite ==
  ASSUME Counting, RoomOK, NEW p \in Ops
  PROVE  /\ IsFiniteSet(Done(p)) /\ Cardinality(Done(p)) \in Nat
<1>1. Done(p) \subseteq wrote[p] /\ IsFiniteSet(wrote[p])
  BY Zenon DEF Done, RoomOK
<1> QED
  BY <1>1, CountSubset, CountType, Zenon

-----------------------------------------------------------------------------
(* The invariant holds at boot. *)
LEMMA InitIInv ==
  ASSUME Counting, Init
  PROVE  IInv
<1>1. TypeOK
  BY ValAssumption, SizeAssumption, EmptyHeader, Zenon DEF Init, TypeOK
<1>2. Active = {} /\ Committers = {} /\ ~Installing /\ Room = {}
  BY Zenon DEF Init, Active, Committers, Installing, Room
<1>3. CountOK
  BY <1>2, CountEmpty, Zenon DEF Init, CountOK
<1>4. HeadOK /\ BootOK /\ LogOK /\ SleepersWillWake
  BY <1>2 DEF Init, HeadOK, BootOK, LogOK, SleepersWillWake
<1>5. DirtyOK
  BY <1>2 DEF Init, DirtyOK
<1>6. RoomOK
  BY <1>2, SizeAssumption, CountEmpty DEF Init, RoomOK
<1> QED
  BY <1>1, <1>3, <1>4, <1>5, <1>6, Zenon DEF IInv

(* An operation that begins counts itself and reserves its space; the      *)
(* thread that finds no space, or a commit, sleeps.                        *)
LEMMA BeginStep ==
  ASSUME Counting, IInv, NEW p \in Ops, begin_op(p)
  PROVE  IInv'
<1> USE DEF begin_op, At, GoTo
<1>1. TypeOK'
  <2>1. outstanding' \in Nat
    BY DEF IInv, TypeOK
  <2>2. pc' \in [Ops -> {"idle", "op", "append", "write_log", "install", "committed"}]
    BY Zenon DEF IInv, TypeOK
  <2>3. state' \in [Ops -> {"RUNNABLE", "SLEEPING"}]
    BY Zenon DEF IInv, TypeOK
  <2> QED
    BY <2>1, <2>2, <2>3, Zenon DEF IInv, TypeOK, diskv
<1>2. CASE ~committing /\ HasSpace
  <2>1. /\ Active' = Active \cup {p} /\ p \notin Active
        /\ Committers' = Committers /\ (Installing' <=> Installing)
    BY <1>2, ZenonT(60) DEF IInv, TypeOK, Active, Committers, Installing
  <2>2. CountOK'
    BY <1>2, <2>1, ActiveFinite, CountAdd, Zenon DEF IInv, CountOK, TypeOK
  <2>3. HeadOK' /\ BootOK' /\ LogOK'
    BY <1>2, <2>1 DEF IInv, TypeOK, HeadOK, BootOK, LogOK, diskv
  <2>4. DirtyOK'
    BY <1>2, <2>1 DEF IInv, TypeOK, DirtyOK, diskv, Logged, Held
  <2>5. Cardinality(Room)' <= outstanding' * MAXOPBLOCKS /\ Cardinality(Room)' \in Nat
    <3>1. Room' \subseteq Active' \X (1..MAXOPBLOCKS)
      BY Zenon DEF Room
    <3>2. IsFiniteSet(Active') /\ Cardinality(Active') = outstanding'
      BY <2>1, <2>2, ActiveFinite, CountAdd, Zenon DEF IInv, CountOK
    <3> DEFINE A == Active'
    <3>3. /\ IsFiniteSet(A \X (1..MAXOPBLOCKS))
          /\ Cardinality(A \X (1..MAXOPBLOCKS)) = Cardinality(A) * MAXOPBLOCKS
      <4>1. IsFiniteSet(A)
        BY <3>2, Zenon
      <4> HIDE DEF A
      <4> QED
        BY <4>1, PerOperation, Zenon
    <3>4. /\ IsFiniteSet(Active' \X (1..MAXOPBLOCKS))
          /\ Cardinality(Active' \X (1..MAXOPBLOCKS)) = outstanding' * MAXOPBLOCKS
      BY <3>2, <3>3, Zenon
    <3>5. IsFiniteSet(Room') /\ Cardinality(Room') <= Cardinality(Active' \X (1..MAXOPBLOCKS))
      BY <3>1, <3>4, CountSubset, Zenon
    <3> QED
      BY <3>4, <3>5, CountType, Zenon
  <2>6. RoomOK'
    <3>1. Len(lh)' + Cardinality(Room)' <= LOGSIZE
      BY <1>2, <2>5, SizeAssumption DEF IInv, TypeOK, HasSpace
    <3> QED
      BY <1>2, <2>1, <3>1 DEF IInv, TypeOK, RoomOK, Active, Logged
  <2>7. SleepersWillWake'
    BY <1>2 DEF IInv, TypeOK, SleepersWillWake
  <2> QED
    BY <1>1, <2>2, <2>3, <2>4, <2>6, <2>7, Zenon DEF IInv
<1>3. CASE ~(~committing /\ HasSpace)
  <2>1. /\ Active' = Active /\ Committers' = Committers /\ (Installing' <=> Installing)
        /\ Room' = Room
    BY <1>3 DEF IInv, TypeOK, Active, Committers, Installing, Room, Done, Logged
  <2>2. CountOK'
    BY <1>3, <2>1, Zenon DEF IInv, CountOK
  <2>3. HeadOK' /\ BootOK' /\ LogOK'
    BY <1>3, <2>1 DEF IInv, TypeOK, HeadOK, BootOK, LogOK, diskv
  <2>4. DirtyOK'
    BY <1>3, <2>1 DEF IInv, TypeOK, DirtyOK, diskv, Logged, Held
  <2>5. RoomOK'
    BY <1>3, <2>1, Zenon DEF IInv, TypeOK, RoomOK, Logged
  <2>6. committing \/ outstanding > 0
    <3> SUFFICES ASSUME ~committing, outstanding = 0 PROVE FALSE
      BY DEF IInv, TypeOK
    <3>1. lh = << >>
      BY ActiveFinite, Zenon DEF IInv, CountOK, HeadOK
    <3> QED
      BY <1>3, <3>1, SizeAssumption DEF HasSpace
  <2>7. SleepersWillWake'
    BY <1>3, <2>6, Zenon DEF IInv, TypeOK, SleepersWillWake
  <2> QED
    BY <1>1, <2>2, <2>3, <2>4, <2>5, <2>7, ZenonT(60) DEF IInv
<1> QED
  BY <1>2, <1>3, Zenon

(* An operation that modifies a block holds its buffer until it has logged *)
(* it; if the block is in the header, the room of the operation shrinks.   *)
LEMMA WriteStep ==
  ASSUME Counting, IInv, NEW p \in Ops, NEW b \in Blocks, NEW v \in Vals, log_write(p, b, v)
  PROVE  IInv'
<1> USE DEF log_write, At, GoTo
<1>1. TypeOK'
  BY Zenon DEF IInv, TypeOK, diskv, logv
<1>2. /\ Active' = Active /\ p \in Active
      /\ Committers' = Committers /\ (Installing' <=> Installing)
  BY Zenon DEF IInv, TypeOK, Active, Committers, Installing
<1>3. CountOK'
  BY <1>2, Zenon DEF IInv, CountOK, logv
<1>4. Committers = {} /\ ~Installing /\ boot = "up" /\ ~committing
  BY <1>2, Zenon DEF IInv, CountOK, Committers, Installing
<1>5. HeadOK' /\ BootOK' /\ LogOK'
  BY <1>2, <1>4 DEF IInv, TypeOK, HeadOK, BootOK, LogOK, diskv, logv, Committers
<1>6. DirtyOK'
  BY <1>2, Zenon DEF IInv, TypeOK, DirtyOK, diskv, logv, Logged, Held
<1>7. Room' \subseteq Room
  <2>1. ASSUME NEW q \in Ops
        PROVE  Cardinality(Done(q)) <= Cardinality(Done(q)')
    <3>1. Done(q) \subseteq Done(q)'
      BY Zenon DEF IInv, TypeOK, Done, Logged, logv
    <3>2. IsFiniteSet(Done(q)')
      <4>1. Done(q)' \subseteq Done(q) \cup {b}
        BY Zenon DEF IInv, TypeOK, Done, Logged, logv
      <4> QED
        BY <4>1, DoneFinite, CountAdd, CountSubset, Zenon DEF IInv
    <3> QED
      BY <3>1, <3>2, CountSubset, Zenon
  <2>2. \A q \in Ops : Cardinality(Done(q)) \in Nat /\ Cardinality(Done(q)') \in Nat
    <3>1. \A q \in Ops : Done(q)' \subseteq Done(q) \cup {b}
      BY Zenon DEF IInv, TypeOK, Done, Logged, logv
    <3> QED
      BY <3>1, DoneFinite, CountAdd, CountSubset, CountType, Zenon DEF IInv
  <2> QED
    BY <1>2, <2>1, <2>2, SizeAssumption DEF Room
<1>8. RoomOK'
  <2>1. Len(lh)' + Cardinality(Room)' <= LOGSIZE
    BY <1>7, RoomFrame DEF IInv, TypeOK, logv
  <2>2. IsFiniteSet(wrote[p] \cup {b})
    BY CountAdd, Zenon DEF IInv, RoomOK
  <2> QED
    BY <1>2, <2>1, <2>2, ZenonT(30) DEF IInv, TypeOK, RoomOK, Logged, logv, Active
<1>9. SleepersWillWake'
  BY Zenon DEF IInv, SleepersWillWake, logv
<1> QED
  BY <1>1, <1>3, <1>5, <1>6, <1>8, <1>9, Zenon DEF IInv

(* A block that is new in the header takes one of the entries reserved for *)
(* its operation: the header does not outgrow the space.                   *)
LEMMA AppendStep ==
  ASSUME Counting, IInv, NEW p \in Ops, log_append(p)
  PROVE  IInv'
<1> USE DEF log_append, At, GoTo
<1>1. /\ Active' = Active /\ p \in Active
      /\ Committers' = Committers /\ (Installing' <=> Installing)
  BY Zenon DEF IInv, TypeOK, Active, Committers, Installing
<1>2. Committers = {} /\ ~Installing /\ boot = "up" /\ ~committing
  BY <1>1, Zenon DEF IInv, CountOK, Committers, Installing
<1>3. blk[p] \in Blocks /\ blk[p] \in wrote[p]
  BY Zenon DEF IInv, TypeOK, RoomOK
<1>4. /\ lh' \in Seq(Blocks)
      /\ \A i \in 1..Len(lh) : i \in 1..Len(lh)' /\ lh'[i] = lh[i]
      /\ \A i \in 1..Len(lh)' : i \in 1..Len(lh) \/ (~Logged(blk[p]) /\ i = Len(lh) + 1 /\ lh'[i] = blk[p])
      /\ Logged(blk[p])'
      /\ Len(lh)' = IF Logged(blk[p]) THEN Len(lh) ELSE Len(lh) + 1
  <2>1. CASE Logged(blk[p])
    BY <2>1, ZenonT(30) DEF IInv, TypeOK, Logged
  <2>2. CASE ~Logged(blk[p])
    <3>1. lh' = Append(lh, blk[p])
      BY <2>2, Zenon
    <3>2. lh \in Seq(Blocks) /\ DOMAIN lh' = 1..Len(lh')
      BY <1>3, <3>1 DEF IInv, TypeOK
    <3>3. /\ lh' \in Seq(Blocks) /\ Len(lh') = Len(lh) + 1
          /\ \A i \in 1..Len(lh) : lh'[i] = lh[i]
          /\ lh'[Len(lh) + 1] = blk[p]
      BY <1>3, <3>1, <3>2, LongerHeader
    <3>4. Logged(blk[p])'
      BY <3>2, <3>3 DEF Logged
    <3> QED
      <4> HIDE DEF log_append, At, GoTo
      <4> QED BY <2>2, <3>2, <3>3, <3>4
  <2> QED
    BY <2>1, <2>2, Zenon
<1>5. TypeOK'
  BY <1>3, <1>4, SMTT(20) DEF IInv, TypeOK, diskv
<1>6. CountOK'
  BY <1>1, Zenon DEF IInv, CountOK
<1>7. HeadOK'
  <2>1. \A i, j \in 1..Len(lh)' : lh'[i] = lh'[j] => i = j
    BY <1>4 DEF IInv, TypeOK, HeadOK, Logged
  <2> QED
    BY <1>1, <1>2, <1>4, <2>1 DEF IInv, TypeOK, HeadOK, diskv, Committers
<1>8. BootOK' /\ LogOK'
  BY <1>1, <1>2, Zenon DEF IInv, BootOK, LogOK, TypeOK, Committers
<1>9. \A b \in Blocks : Logged(b)' <=> Logged(b) \/ b = blk[p]
  <2>1. DOMAIN lh = 1..Len(lh) /\ DOMAIN lh' = 1..Len(lh)'
    BY <1>4 DEF IInv, TypeOK
  <2>2. ASSUME NEW b \in Blocks, Logged(b)' PROVE Logged(b) \/ b = blk[p]
    BY <1>4, <2>1, <2>2, Zenon DEF Logged
  <2>3. ASSUME NEW b \in Blocks, Logged(b) PROVE Logged(b)'
    BY <1>4, <2>1, <2>3, Zenon DEF Logged
  <2>4. Logged(blk[p])'
    BY <1>4, Zenon
  <2> QED
    BY <2>2, <2>3, <2>4, Zenon
<1>10. DirtyOK'
  <2>1. \A b \in dirty' : Logged(b)'
    BY <1>2, <1>3, <1>9, SMTT(20) DEF IInv, TypeOK, DirtyOK
  <2>2. \A i \in 1..Len(lh)' : lh'[i] \in dirty'
    BY <1>2, <1>4, Zenon DEF IInv, DirtyOK
  <2>3. \A b \in Blocks : b \notin dirty' /\ ~Held(b)' => cache'[b] = disk'[b]
    BY <1>2, SMTT(20) DEF IInv, TypeOK, DirtyOK, Held, diskv
  <2> QED
    BY <1>1, <1>2, <2>1, <2>2, <2>3, Zenon DEF DirtyOK
<1>11. Len(lh)' + Cardinality(Room)' <= LOGSIZE
  <2>1. ASSUME NEW q \in Ops
        PROVE  /\ Cardinality(Done(q)) <= Cardinality(Done(q)')
               /\ Cardinality(Done(q)) \in Nat /\ Cardinality(Done(q)') \in Nat
    <3>1. Done(q) \subseteq Done(q)' /\ Done(q)' \subseteq Done(q) \cup {blk[p]}
      BY <1>9, Zenon DEF IInv, TypeOK, Done
    <3>2. IsFiniteSet(Done(q)')
      BY <3>1, DoneFinite, CountAdd, CountSubset, Zenon DEF IInv
    <3> QED
      BY <3>1, <3>2, DoneFinite, CountSubset, CountType, Zenon DEF IInv
  <2>2. Room' \subseteq Room
    BY <1>1, <2>1, SizeAssumption DEF Room
  <2>3. CASE Logged(blk[p])
    <3>1. Len(lh)' = Len(lh) /\ IInv
      BY <1>4, <2>3, Zenon
    <3> HIDE DEF log_append, At, GoTo
    <3> QED BY <2>2, <3>1, RoomFrame DEF IInv, TypeOK
  <2>4. CASE ~Logged(blk[p])
    <3> DEFINE k == Cardinality(Done(p)')
               x == <<p, MAXOPBLOCKS + 1 - k>>
    <3>1. /\ Done(p)' = Done(p) \cup {blk[p]} /\ blk[p] \notin Done(p)
          /\ Done(p)' = wrote[p]
      BY <1>3, <1>9, <2>4, Zenon DEF IInv, TypeOK, RoomOK, Done
    <3>2. k = Cardinality(Done(p)) + 1 /\ k <= MAXOPBLOCKS /\ k \in Nat
      BY <2>1, <3>1, DoneFinite, CountAdd, ZenonT(60) DEF IInv, RoomOK
    <3>3. x \in Room /\ x \notin Room'
      <4>1. x[1] = p /\ x[2] = MAXOPBLOCKS + 1 - k /\ x \in Ops \X (1..MAXOPBLOCKS)
        BY <2>1, <3>2, SizeAssumption
      <4>2. x[2] + Cardinality(Done(p)) = MAXOPBLOCKS /\ x[2] + k = MAXOPBLOCKS + 1
        BY <2>1, <3>2, <4>1, SizeAssumption
      <4>3. ~(x[2] + k <= MAXOPBLOCKS)
        BY <4>2, SizeAssumption
      <4> HIDE DEF x
      <4> QED
        BY <1>1, <4>1, <4>2, <4>3, SizeAssumption DEF Room
    <3>4. Cardinality(Room) \in Nat /\ Cardinality(Room') \in Nat
      BY <2>2, RoomFinite, CountSubset, CountType, Zenon
    <3>5. Cardinality(Room') < Cardinality(Room)
      <4>1. Cardinality(Room') <= Cardinality(Room) /\ Cardinality(Room') # Cardinality(Room)
        BY <2>2, <3>3, RoomFinite, CountSubset, Zenon
      <4> QED
        BY <3>4, <4>1
    <3> QED
      BY <1>4, <2>4, <3>4, <3>5, SizeAssumption DEF IInv, TypeOK, RoomOK
  <2> QED
    BY <2>3, <2>4, Zenon
<1>12. RoomOK'
  <2>1. ASSUME NEW q \in Ops
        PROVE  /\ IsFiniteSet(wrote'[q]) /\ Cardinality(wrote'[q]) <= MAXOPBLOCKS
               /\ q \notin Active' => wrote'[q] = {}
               /\ pc'[q] = "op" => \A b \in wrote'[q] : Logged(b)'
               /\ pc'[q] = "append" => blk'[q] \in wrote'[q] /\ \A b \in wrote'[q] \ {blk'[q]} : Logged(b)'
    BY <1>1, <1>9, Zenon DEF IInv, TypeOK, RoomOK
  <2> QED
    BY <1>11, <2>1, Zenon DEF RoomOK
<1>13. SleepersWillWake'
  BY Zenon DEF IInv, SleepersWillWake
<1> QED
  BY <1>5, <1>6, <1>7, <1>8, <1>10, <1>12, <1>13, Zenon DEF IInv

(* The last operation of a group becomes its committer; any other one      *)
(* gives its room back and wakes the sleepers.                             *)
LEMMA EndStep ==
  ASSUME Counting, IInv, NEW p \in Ops, end_op(p)
  PROVE  IInv'
<1> USE DEF end_op, At, GoTo, Wakeup
<1>1. p \in Active /\ Committers = {} /\ ~Installing /\ boot = "up" /\ ~committing
  BY Zenon DEF IInv, CountOK, Committers, Installing, Active
<1>2. /\ Active' = Active \ {p}
      /\ Committers' = IF outstanding' = 0 THEN {p} ELSE {}
      /\ ~Installing'
  BY <1>1 DEF IInv, TypeOK, Active, Committers, Installing
<1>3. outstanding' \in Nat /\ outstanding' = Cardinality(Active')
  <2>1. IsFiniteSet(Active) /\ IsFiniteSet(Active')
    BY <1>2, ActiveFinite, CountRemove, Zenon DEF IInv
  <2>2. Cardinality(Active') = Cardinality(Active) - 1
    BY <1>1, <1>2, <2>1, CountRemove, Zenon
  <2> QED
    BY <2>1, <2>2, CountType, Zenon DEF IInv, CountOK
<1>4. TypeOK'
  BY <1>1, <1>3, ZenonT(60) DEF IInv, TypeOK, diskv
<1>5. outstanding' = 0 => Active' = {}
  BY <1>3, <1>4, ActiveFinite, CountSubset, CountEmpty, <1>2, Zenon DEF IInv
<1>6. outstanding' # 0 => Active' # {}
  BY <1>3, CountEmpty, Zenon
<1>7. CountOK'
  BY <1>1, <1>2, <1>3, <1>5, <1>6, Zenon DEF CountOK
<1>8. tail = 0
  <2>1. ~(tail > 0) /\ tail \in Nat
    BY <1>1, Zenon DEF IInv, TypeOK, HeadOK, Committers
  <2> QED
    BY <2>1
<1>9. HeadOK' /\ BootOK' /\ LogOK'
  BY <1>1, <1>2, <1>4, <1>5, <1>6, <1>8, SMTT(20)
  DEF IInv, TypeOK, HeadOK, BootOK, LogOK, diskv, Committers
<1>10. DirtyOK'
  BY <1>1, <1>2, Zenon DEF IInv, TypeOK, DirtyOK, diskv, Logged, Held
<1>11. Room' \subseteq Room
  <2>1. \A q \in Active' : q \in Active /\ Done(q)' = Done(q)
    BY <1>2, ZenonT(30) DEF IInv, TypeOK, Done, Logged, Active
  <2> QED
    BY <2>1, Zenon DEF Room
<1>12. RoomOK'
  <2>1. Len(lh)' + Cardinality(Room)' <= LOGSIZE
    BY <1>11, RoomFrame DEF IInv, TypeOK
  <2>2. 0 <= MAXOPBLOCKS
    BY SizeAssumption
  <2>3. ASSUME NEW q \in Ops
        PROVE  /\ IsFiniteSet(wrote'[q]) /\ Cardinality(wrote'[q]) <= MAXOPBLOCKS
               /\ q \notin Active' => wrote'[q] = {}
               /\ pc'[q] = "op" => \A b \in wrote'[q] : Logged(b)'
               /\ pc'[q] = "append" => blk'[q] \in wrote'[q] /\ \A b \in wrote'[q] \ {blk'[q]} : Logged(b)'
    <3>1. CASE q = p
      BY <1>1, <1>2, <2>2, <3>1, CountEmpty, ZenonT(60) DEF IInv, TypeOK
    <3>2. CASE q # p
      BY <1>1, <1>2, <3>2, ZenonT(60) DEF IInv, TypeOK, RoomOK, Logged
    <3> QED BY <3>1, <3>2, Zenon
  <2> QED
    BY <2>1, <2>3, Zenon DEF RoomOK
<1>13. SleepersWillWake'
  BY <1>1, <1>3, Zenon DEF IInv, TypeOK, SleepersWillWake
<1> QED
  BY <1>4, <1>7, <1>9, <1>10, <1>12, <1>13, Zenon DEF IInv

(* Every step keeps the invariant. *)
LEMMA NextIInv ==
  ASSUME Counting, IInv, [Next]_vars
  PROVE  IInv'
<1>1. CASE Next
  BY <1>1, BeginStep, WriteStep, AppendStep, EndStep, RecycleStep, CommitSteps,
     CommittedStep, CrashStep, RecoverSteps, Zenon DEF Next
<1>2. CASE UNCHANGED vars
  BY <1>2, Stutter, Zenon
<1> QED
  BY <1>1, <1>2, Zenon

-----------------------------------------------------------------------------
(* What is known of finite sets. *)
INSTANCE FiniteSetTheorems

(* Counting is as the steps suppose. *)
LEMMA CountingHolds == Counting
<1>1. IsFiniteSet({}) /\ Cardinality({}) = 0
  BY FS_EmptySet, Zenon
<1>2. ASSUME NEW S, IsFiniteSet(S)
      PROVE  /\ Cardinality(S) \in Nat /\ (Cardinality(S) = 0 <=> S = {})
             /\ \A T \in SUBSET S : /\ IsFiniteSet(T)
                                    /\ Cardinality(T) <= Cardinality(S)
                                    /\ Cardinality(S) = Cardinality(T) => S = T
  BY <1>2, FS_EmptySet, FS_CardinalityType, FS_Subset, Zenon
<1>3. ASSUME NEW S, IsFiniteSet(S), NEW x
      PROVE  Added(S, x) /\ Removed(S, x)
  <2>1. Added(S, x)
    BY <1>3, FS_AddElement, Zenon DEF Added
  <2>2. Removed(S, x)
    BY <1>3, FS_RemoveElement, Zenon DEF Removed
  <2> QED
    BY <2>1, <2>2, Zenon
<1>4. ASSUME NEW S, IsFiniteSet(S)
      PROVE  /\ IsFiniteSet(S \X (1..MAXOPBLOCKS))
             /\ Cardinality(S \X (1..MAXOPBLOCKS)) = Cardinality(S) * MAXOPBLOCKS
  <2>1. IsFiniteSet(1..MAXOPBLOCKS) /\ Cardinality(1..MAXOPBLOCKS) = MAXOPBLOCKS
    BY FS_Interval, SizeAssumption
  <2>2. /\ IsFiniteSet(S \X (1..MAXOPBLOCKS))
        /\ Cardinality(S \X (1..MAXOPBLOCKS)) = Cardinality(S) * Cardinality(1..MAXOPBLOCKS)
    BY <1>4, <2>1, FS_Product, Zenon
  <2> QED
    BY <2>1, <2>2, Zenon
<1> QED
  BY <1>1, <1>2, <1>3, <1>4, Zenon DEF Counting

(* The invariant of the log. *)
THEOREM Invariance == Spec => []IInv
<1>1. Init => IInv
  BY CountingHolds, InitIInv, Zenon
<1>2. IInv /\ [Next]_vars => IInv'
  BY CountingHolds, NextIInv, Zenon
<1> QED
  BY <1>1, <1>2, PTL DEF Spec

(* Whoever sleeps in begin_op has an active operation or a commit to wait  *)
(* for, however many threads there are and however large the log is.       *)
THEOREM SleepersCorrect == Spec => []SleepersWillWake
<1>1. IInv => SleepersWillWake
  BY Zenon DEF IInv
<1> QED
  BY <1>1, Invariance, PTL

(* What begin_op reserves is enough for the array of the header: it never  *)
(* holds more than LOGSIZE blocks, though log_write checks the length      *)
(* before it takes the lock.                                               *)
LogFits == Len(lh) <= LOGSIZE

(* The header never overflows. *)
THEOREM LogFitsCorrect == Spec => []LogFits
<1>1. IInv => LogFits
  BY CountingHolds, RoomFinite, SizeAssumption DEF IInv, TypeOK, RoomOK, LogFits
<1> QED
  BY <1>1, Invariance, PTL

-----------------------------------------------------------------------------
(* Operations of the file system are atomic with respect to crashes, for   *)
(* every number of threads and blocks: the log implements AtomicFS.        *)
THEOREM Refinement == Spec => LogImplements
<1>1. IInv /\ [Next]_vars => [FS!Next]_FS!vars
  BY CountingHolds, FSNext, Zenon
<1> QED
  BY <1>1, Invariance, FSInit, PTL DEF Spec, LogImplements, FS!Spec

=============================================================================
