----------------------------- MODULE PipeProofs -----------------------------
(***************************************************************************)
(* Proofs about pipes, for every number of writers and readers and every   *)
(* size of the buffer and of the counters: that nobody sleeps for nothing, *)
(* that the pipe is freed when nobody can use it any more, and that the    *)
(* ring buffer implements Channel, a first-in-first-out queue.             *)
(***************************************************************************)
EXTENDS Pipe, TLAPS

-----------------------------------------------------------------------------
(* The inductive invariant. *)

Value == (Writers \cup {0}) \X Nat

TypeOK ==
  /\ data \in [0..PIPESIZE - 1 -> Value]
  /\ nread \in 0..M - 1 /\ nwrite \in 0..M - 1 /\ Used <= PIPESIZE
  /\ readopen \in BOOLEAN /\ writeopen \in BOOLEAN /\ freed \in BOOLEAN
  /\ lock \in Threads \cup {0}
  /\ state \in [Threads -> {"RUNNABLE", "SLEEPING"}]
  /\ killed \in [Threads -> BOOLEAN]
  /\ pc \in [Threads -> {"user", "write", "read", "sleep", "return", "close", "closed"}]
  /\ i \in [Threads -> Nat] /\ n \in [Threads -> Nat]
  /\ addr \in [Readers -> Seq(Value)]

(* the calls that the threads are in, and how far they have come *)
CallOK ==
  \A t \in Threads :
    /\ pc[t] = "write" => t \in Writers
    /\ pc[t] \in {"read", "return"} => t \in Readers
    /\ pc[t] \in {"write", "read", "sleep", "return"} => n[t] \in Lens /\ i[t] < n[t]
    /\ t \in Readers \/ pc[t] \notin {"write", "sleep"} => i[t] = 0
    /\ state[t] = "SLEEPING" => pc[t] \in {"write", "read"}

(* p->lock is held across two steps only by a thread that goes to sleep,   *)
(* and what it has seen stays so until it sleeps                           *)
LockOK ==
  \A t \in Threads :
    /\ pc[t] = "sleep" <=> lock = t
    /\ pc[t] = "sleep" =>
         IF t \in Writers THEN Used = PIPESIZE /\ readopen ELSE nread = nwrite /\ writeopen

(* the last thread of an end is the one that closes it, and the last of all frees *)
EndsOK ==
  /\ \A t \in Threads : pc[t] = "close" => \A u \in Others(t) : pc[u] = "closed"
  /\ ~writeopen => \A w \in Writers : pc[w] = "closed"
  /\ ~readopen => \A r \in Readers : pc[r] = "closed"
  /\ freed => ~readopen /\ ~writeopen

IInv == TypeOK /\ CallOK /\ LockOK /\ EndsOK /\ SleepersHaveReason

-----------------------------------------------------------------------------
(* Arithmetic: remainders, the counters and the places of the buffer. *)

(* A remainder is unique. *)
LEMMA ModUnique ==
  ASSUME NEW m \in Nat \ {0}, NEW k \in Int, NEW r \in 0..m - 1
  PROVE  (k * m + r) % m = r
  OBVIOUS

(* A remainder is in range, and the rest is a multiple. *)
LEMMA ModDiv ==
  ASSUME NEW m \in Nat \ {0}, NEW a \in Int
  PROVE  /\ a % m \in 0..m - 1 /\ a \div m \in Int
         /\ a = (a \div m) * m + (a % m)
  OBVIOUS

(* What wraps around once. *)
LEMMA Wrap ==
  ASSUME NEW m \in Nat \ {0}, NEW a \in Int, -m <= a, a < 2 * m
  PROVE  a % m = IF a < 0 THEN a + m ELSE IF a < m THEN a ELSE a - m
<1>1. CASE a < 0
  <2>1. a = (-1) * m + (a + m) /\ a + m \in 0..m - 1
    BY <1>1
  <2> QED
    BY <1>1, <2>1, ModUnique
<1>2. CASE 0 <= a /\ a < m
  BY <1>2
<1>3. CASE m <= a
  <2>1. a = 1 * m + (a - m) /\ a - m \in 0..m - 1
    BY <1>3
  <2> QED
    BY <1>3, <2>1, ModUnique
<1> QED
  BY <1>1, <1>2, <1>3

(* The counters wrap around at a multiple of the size of the buffer: a     *)
(* place does not depend on how often they have.                           *)
LEMMA WrapKeepsPlace ==
  ASSUME NEW a \in Int
  PROVE  (a - M) % PIPESIZE = a % PIPESIZE
<1> DEFINE q == M \div PIPESIZE
           k == a \div PIPESIZE
           r == a % PIPESIZE
<1>1. PIPESIZE \in Nat \ {0} /\ M \in Int
  BY SizeAssumption
<1>2. M = q * PIPESIZE /\ q \in Int
  BY <1>1, ModDiv, SizeAssumption
<1>3. a = k * PIPESIZE + r /\ k \in Int /\ r \in 0..PIPESIZE - 1
  BY <1>1, ModDiv, Zenon
<1> HIDE DEF q, k, r
<1>4. a - M = (k - q) * PIPESIZE + r
  BY <1>1, <1>2, <1>3
<1>5. ((k - q) * PIPESIZE + r) % PIPESIZE = r
  BY <1>1, <1>2, <1>3, ModUnique
<1> QED
  BY <1>4, <1>5, Zenon DEF r

(* The place of the byte d positions after position a. *)
LEMMA Place ==
  ASSUME NEW a \in Int, NEW d \in 0..PIPESIZE
  PROVE  /\ a % PIPESIZE \in 0..PIPESIZE - 1
         /\ (a + d) % PIPESIZE = IF (a % PIPESIZE) + d < PIPESIZE THEN (a % PIPESIZE) + d
                                 ELSE (a % PIPESIZE) + d - PIPESIZE
<1> DEFINE k == a \div PIPESIZE
           r == a % PIPESIZE
<1>1. PIPESIZE \in Nat \ {0}
  BY SizeAssumption, Zenon
<1>2. a = k * PIPESIZE + r /\ k \in Int /\ r \in 0..PIPESIZE - 1
  BY <1>1, ModDiv, Zenon
<1> HIDE DEF k, r
<1>3. CASE r + d < PIPESIZE
  <2>1. a + d = k * PIPESIZE + (r + d) /\ r + d \in 0..PIPESIZE - 1
    BY <1>1, <1>2, <1>3
  <2> QED
    BY <1>1, <1>2, <1>3, <2>1, ModUnique, Zenon DEF r
<1>4. CASE ~(r + d < PIPESIZE)
  <2>1. a + d = (k + 1) * PIPESIZE + (r + d - PIPESIZE) /\ r + d - PIPESIZE \in 0..PIPESIZE - 1
    BY <1>1, <1>2, <1>4
  <2>2. (a + d) % PIPESIZE = r + d - PIPESIZE
    BY <1>1, <1>2, <2>1, ModUnique
  <2> QED
    BY <1>2, <1>4, <2>2, Zenon DEF r
<1> QED
  BY <1>3, <1>4, Zenon

(* How many bytes are in the pipe. *)
LEMMA UsedIs ==
  ASSUME NEW a \in 0..M - 1, NEW b \in 0..M - 1
  PROVE  Sub(a, b) = IF a < b THEN a - b + M ELSE a - b
<1> DEFINE x == a - b
<1>1. x \in Int /\ -M <= x /\ x < 2 * M /\ M \in Nat \ {0}
  BY SizeAssumption
<1>2. Sub(a, b) = x % M
  BY Zenon DEF Sub
<1>3. x < M /\ (x < 0 <=> a < b)
  BY SizeAssumption
<1> HIDE DEF x
<1>4. x % M = IF x < 0 THEN x + M ELSE IF x < M THEN x ELSE x - M
  BY <1>1, Wrap, Zenon
<1> QED
  BY <1>2, <1>3, <1>4, Zenon DEF x

(* The room is what is left. *)
LEMMA FreeIs ==
  ASSUME TypeOK
  PROVE  Used \in 0..PIPESIZE /\ Free = PIPESIZE - Used
<1>1. Used = IF nwrite < nread THEN nwrite - nread + M ELSE nwrite - nread
  BY UsedIs, Zenon DEF TypeOK, Used
<1>2. nread \in 0..M - 1 /\ nwrite \in 0..M - 1 /\ Used <= PIPESIZE
  BY Zenon DEF TypeOK
<1>3. M \in Nat \ {0} /\ PIPESIZE \in Nat \ {0} /\ M >= 2 * PIPESIZE
  BY SizeAssumption
<1> DEFINE x == (nread + PIPESIZE) - nwrite
<1>4. x \in Int /\ -M <= x /\ x < 2 * M
  BY <1>2, <1>3
<1>5. Free = x % M
  BY Zenon DEF Free, Sub
<1> HIDE DEF x
<1>6. x % M = IF x < 0 THEN x + M ELSE IF x < M THEN x ELSE x - M
  BY <1>3, <1>4, Wrap, Zenon
<1>7. Used \in 0..PIPESIZE
  BY <1>1, <1>2, <1>3
<1>8. CASE nwrite < nread
  <2>1. Used = nwrite - nread + M
    BY <1>1, <1>8, Zenon
  <2>2. ~(x < 0) /\ ~(x < M)
    BY <1>2, <1>3, <1>8, <2>1 DEF x
  <2> QED
    BY <1>2, <1>3, <1>5, <1>6, <1>7, <2>1, <2>2 DEF x
<1>9. CASE ~(nwrite < nread)
  <2>1. Used = nwrite - nread
    BY <1>1, <1>9, Zenon
  <2>2. ~(x < 0) /\ x < M
    BY <1>2, <1>3, <1>9, <2>1 DEF x
  <2> QED
    BY <1>2, <1>3, <1>5, <1>6, <1>7, <2>1, <2>2 DEF x
<1> QED
  BY <1>8, <1>9, Zenon

(* Bytes that fit are added. *)
LEMMA UsedGrows ==
  ASSUME TypeOK, NEW k \in 0..PIPESIZE - Used, nwrite' = (nwrite + k) % M, nread' = nread
  PROVE  nwrite' \in 0..M - 1 /\ Used' = Used + k
<1>1. Used = IF nwrite < nread THEN nwrite - nread + M ELSE nwrite - nread
  BY UsedIs, Zenon DEF TypeOK, Used
<1>2. nread \in 0..M - 1 /\ nwrite \in 0..M - 1 /\ Used \in 0..PIPESIZE
  BY FreeIs, Zenon DEF TypeOK
<1>3. M \in Nat \ {0} /\ PIPESIZE \in Nat \ {0} /\ M >= 2 * PIPESIZE
  BY SizeAssumption
<1> DEFINE x == nwrite + k
<1>4. nwrite' = IF x < M THEN x ELSE x - M
  <2>1. x \in Int /\ -M <= x /\ x < 2 * M /\ ~(x < 0) /\ nwrite' = x % M
    BY <1>2, <1>3
  <2> HIDE DEF x
  <2>2. x % M = IF x < 0 THEN x + M ELSE IF x < M THEN x ELSE x - M
    BY <1>3, <2>1, Wrap, Zenon
  <2> QED
    BY <2>1, <2>2, Zenon
<1>5. nwrite' \in 0..M - 1
  BY <1>2, <1>3, <1>4
<1>6. Used' = IF nwrite' < nread THEN nwrite' - nread + M ELSE nwrite' - nread
  BY <1>2, <1>5, UsedIs, Zenon DEF Used
<1> QED
  BY <1>1, <1>2, <1>3, <1>4, <1>5, <1>6

(* Bytes that are there are taken. *)
LEMMA UsedShrinks ==
  ASSUME TypeOK, NEW k \in 0..Used, nread' = (nread + k) % M, nwrite' = nwrite
  PROVE  nread' \in 0..M - 1 /\ Used' = Used - k
<1>1. Used = IF nwrite < nread THEN nwrite - nread + M ELSE nwrite - nread
  BY UsedIs, Zenon DEF TypeOK, Used
<1>2. nread \in 0..M - 1 /\ nwrite \in 0..M - 1 /\ Used \in 0..PIPESIZE
  BY FreeIs, Zenon DEF TypeOK
<1>3. M \in Nat \ {0} /\ PIPESIZE \in Nat \ {0} /\ M >= 2 * PIPESIZE
  BY SizeAssumption
<1> DEFINE x == nread + k
<1>4. nread' = IF x < M THEN x ELSE x - M
  <2>1. x \in Int /\ -M <= x /\ x < 2 * M /\ ~(x < 0) /\ nread' = x % M
    BY <1>2, <1>3
  <2> HIDE DEF x
  <2>2. x % M = IF x < 0 THEN x + M ELSE IF x < M THEN x ELSE x - M
    BY <1>3, <2>1, Wrap, Zenon
  <2> QED
    BY <2>1, <2>2, Zenon
<1>5. nread' \in 0..M - 1
  BY <1>2, <1>3, <1>4
<1>6. Used' = IF nwrite < nread' THEN nwrite - nread' + M ELSE nwrite - nread'
  BY <1>2, <1>5, UsedIs, Zenon DEF Used
<1> QED
  BY <1>1, <1>2, <1>3, <1>4, <1>5, <1>6

-----------------------------------------------------------------------------
(* The invariant holds when the pipe is new. *)
LEMMA InitIInv == Init => IInv
<1> SUFFICES ASSUME Init PROVE IInv
  BY Zenon
<1>1. M \in Nat \ {0} /\ PIPESIZE \in Nat \ {0} /\ Used = 0
  BY UsedIs, SizeAssumption DEF Init, Used
<1>2. /\ Garbage \in Value /\ << >> \in Seq(Value)
      /\ 0 \in 0..M - 1 /\ 0 <= PIPESIZE /\ 0 \in Nat
  BY <1>1 DEF Value, Garbage
<1>3. TypeOK
  BY <1>1, <1>2, Zenon DEF Init, TypeOK
<1>4. CallOK /\ LockOK /\ EndsOK /\ SleepersHaveReason
  BY <1>1, ThreadsAssumption, Zenon DEF Init, CallOK, LockOK, EndsOK, SleepersHaveReason, Threads
<1> QED
  BY <1>3, <1>4, Zenon DEF IInv

(* A system call starts. *)
LEMMA CallStep ==
  ASSUME IInv, NEW t \in Threads, NEW k \in Lens, Call(t, k)
  PROVE  IInv'
<1> USE DEF Call, At, GoTo
<1>1. UNCHANGED <<data, nread, nwrite, readopen, writeopen, freed>> /\ Used' = Used
  BY Zenon DEF pipev, Used
<1>2. TypeOK'
  BY <1>1, SizeAssumption, Zenon DEF IInv, TypeOK, bufv
<1>3. CallOK'
  BY <1>1, SizeAssumption DEF IInv, TypeOK, CallOK, bufv, Threads
<1>4. LockOK'
  BY <1>1, ThreadsAssumption, Zenon DEF IInv, TypeOK, CallOK, LockOK, Threads
<1>5. EndsOK'
  BY <1>1, ThreadsAssumption, Zenon DEF IInv, TypeOK, EndsOK, Others, Threads
<1>6. SleepersHaveReason'
  BY <1>1, ThreadsAssumption, Zenon DEF IInv, TypeOK, SleepersHaveReason, Threads
<1> QED
  BY <1>2, <1>3, <1>4, <1>5, <1>6, Zenon DEF IInv

(* A thread that goes to sleep has a reason to, since it has held p->lock since it looked. *)
LEMMA SleepStep ==
  ASSUME IInv, NEW t \in Threads, Sleep(t)
  PROVE  IInv'
<1> USE DEF Sleep, At, GoTo
<1>1. UNCHANGED <<data, nread, nwrite, readopen, writeopen, freed>> /\ Used' = Used
  BY Zenon DEF pipev, Used
<1>2. TypeOK'
  BY <1>1, SizeAssumption, Zenon DEF IInv, TypeOK, bufv
<1>3. CallOK'
  BY <1>1, SizeAssumption DEF IInv, TypeOK, CallOK, bufv, Threads
<1>4. LockOK'
  BY <1>1, ThreadsAssumption DEF IInv, TypeOK, CallOK, LockOK, Threads
<1>5. EndsOK'
  BY <1>1, ThreadsAssumption, Zenon DEF IInv, TypeOK, EndsOK, Others, Threads
<1>6. SleepersHaveReason'
  BY <1>1, ThreadsAssumption, Zenon DEF IInv, TypeOK, LockOK, SleepersHaveReason, Threads
<1> QED
  BY <1>2, <1>3, <1>4, <1>5, <1>6, Zenon DEF IInv

(* The last thread of an end goes on to pipeclose. *)
LEMMA FileCloseStep ==
  ASSUME IInv, NEW t \in Threads, FileClose(t)
  PROVE  IInv'
<1> USE DEF FileClose, At, GoTo
<1>1. UNCHANGED <<data, nread, nwrite, readopen, writeopen, freed>> /\ Used' = Used
  BY Zenon DEF pipev, Used
<1>2. TypeOK'
  BY <1>1, SizeAssumption, Zenon DEF IInv, TypeOK, bufv
<1>3. CallOK'
  BY <1>1, SizeAssumption, Zenon DEF IInv, TypeOK, CallOK, bufv, Threads
<1>4. LockOK'
  BY <1>1, ThreadsAssumption, Zenon DEF IInv, TypeOK, CallOK, LockOK, Threads
<1>5. EndsOK'
  BY <1>1, ThreadsAssumption, SMTT(30) DEF IInv, TypeOK, EndsOK, Others, Threads
<1>6. SleepersHaveReason'
  BY <1>1, ThreadsAssumption, Zenon DEF IInv, TypeOK, SleepersHaveReason, Threads
<1> QED
  BY <1>2, <1>3, <1>4, <1>5, <1>6, Zenon DEF IInv

(* A thread that is killed wakes up. *)
LEMMA KillStep ==
  ASSUME IInv, NEW t \in Threads, Kill(t)
  PROVE  IInv'
<1> USE DEF Kill, At, GoTo
<1>1. UNCHANGED <<data, nread, nwrite, readopen, writeopen, freed>> /\ Used' = Used
  BY Zenon DEF pipev, Used
<1>2. TypeOK'
  BY <1>1, SizeAssumption, Zenon DEF IInv, TypeOK, bufv
<1>3. CallOK'
  BY <1>1, SizeAssumption, Zenon DEF IInv, TypeOK, CallOK, bufv, Threads
<1>4. LockOK'
  BY <1>1, ThreadsAssumption, Zenon DEF IInv, TypeOK, CallOK, LockOK, Threads
<1>5. EndsOK'
  BY <1>1, ThreadsAssumption, Zenon DEF IInv, TypeOK, EndsOK, Others, Threads
<1>6. SleepersHaveReason'
  BY <1>1, ThreadsAssumption, Zenon DEF IInv, TypeOK, SleepersHaveReason, Threads
<1> QED
  BY <1>2, <1>3, <1>4, <1>5, <1>6, Zenon DEF IInv

(* The end of a read. *)
LEMMA ReadReturnStep ==
  ASSUME IInv, NEW t \in Threads, t \in Readers, ReadReturn(t)
  PROVE  IInv'
<1> USE DEF ReadReturn, Return, At, GoTo
<1>1. UNCHANGED <<data, nread, nwrite, readopen, writeopen, freed>> /\ Used' = Used
  BY Zenon DEF pipev, Used
<1>2. TypeOK'
  BY <1>1, SizeAssumption DEF IInv, TypeOK, bufv
<1>3. CallOK'
  BY <1>1, SizeAssumption, Zenon DEF IInv, TypeOK, CallOK, bufv, Threads
<1>4. LockOK'
  BY <1>1, ThreadsAssumption, Zenon DEF IInv, TypeOK, CallOK, LockOK, Threads
<1>5. EndsOK'
  BY <1>1, ThreadsAssumption, Zenon DEF IInv, TypeOK, EndsOK, Others, Threads
<1>6. SleepersHaveReason'
  BY <1>1, ThreadsAssumption, Zenon DEF IInv, TypeOK, SleepersHaveReason, Threads
<1> QED
  BY <1>2, <1>3, <1>4, <1>5, <1>6, Zenon DEF IInv

(* A read that fails. *)
LEMMA ReadFaultStep ==
  ASSUME IInv, NEW t \in Threads, t \in Readers, ReadFault(t)
  PROVE  IInv'
<1> USE DEF ReadFault, Return, At, GoTo
<1>1. UNCHANGED <<data, nread, nwrite, readopen, writeopen, freed>> /\ Used' = Used
  BY Zenon DEF pipev, Used
<1>2. TypeOK'
  BY <1>1, SizeAssumption, Zenon DEF IInv, TypeOK, bufv
<1>3. CallOK'
  BY <1>1, SizeAssumption, Zenon DEF IInv, TypeOK, CallOK, bufv, Threads
<1>4. LockOK'
  BY <1>1, ThreadsAssumption, Zenon DEF IInv, TypeOK, CallOK, LockOK, Threads
<1>5. EndsOK'
  BY <1>1, ThreadsAssumption, Zenon DEF IInv, TypeOK, EndsOK, Others, Threads
<1>6. SleepersHaveReason'
  BY <1>1, ThreadsAssumption, Zenon DEF IInv, TypeOK, SleepersHaveReason, Threads
<1> QED
  BY <1>2, <1>3, <1>4, <1>5, <1>6, Zenon DEF IInv

(* A step of a thread whose end stays open does not touch the ends. *)
LEMMA EndsFrame ==
  ASSUME IInv, NEW t \in Threads, UNCHANGED <<readopen, writeopen, freed>>,
         pc[t] \notin {"close", "closed"},
         \E l \in {"user", "write", "read", "sleep", "return"} : pc' = [pc EXCEPT ![t] = l]
  PROVE  EndsOK'
  BY ThreadsAssumption, Zenon DEF IInv, TypeOK, EndsOK, Others, Threads

(* A write to a full pipe returns, or goes to sleep with the lock. *)
LEMMA WriteFullStep ==
  ASSUME IInv, NEW t \in Threads, t \in Writers, WriteFull(t)
  PROVE  IInv'
<1> USE DEF WriteFull, At, GoTo, Return, Wakeup
<1>1. UNCHANGED <<data, nread, nwrite, readopen, writeopen, freed>> /\ Used' = Used
  BY Zenon DEF pipev, Used
<1>2. TypeOK'
  BY <1>1, SizeAssumption, SMTT(30) DEF IInv, TypeOK
<1>3. CallOK'
  BY <1>1, SizeAssumption, SMTT(30) DEF IInv, TypeOK, CallOK, Threads
<1>4. LockOK'
  <2>1. CASE ~readopen \/ killed[t]
    BY <1>1, <2>1, ThreadsAssumption, Zenon DEF IInv, TypeOK, LockOK, Threads
  <2>2. CASE ~(~readopen \/ killed[t])
    BY <1>1, <2>2, ThreadsAssumption DEF IInv, TypeOK, LockOK, Threads
  <2> QED
    BY <2>1, <2>2, Zenon
<1>5. EndsOK'
  BY <1>1, EndsFrame, Zenon
<1>6. SleepersHaveReason'
  BY <1>1, ThreadsAssumption, Zenon DEF IInv, TypeOK, SleepersHaveReason, Threads
<1> QED
  BY <1>2, <1>3, <1>4, <1>5, <1>6, Zenon DEF IInv

(* A read from an empty pipe returns, or goes to sleep with the lock. *)
LEMMA ReadEmptyStep ==
  ASSUME IInv, NEW t \in Threads, t \in Readers, ReadEmpty(t)
  PROVE  IInv'
<1> USE DEF ReadEmpty, At, GoTo, Return
<1>1. UNCHANGED <<data, nread, nwrite, readopen, writeopen, freed>> /\ Used' = Used
  BY Zenon DEF pipev, Used
<1>2. TypeOK'
  <2> DEFINE Label == {"user", "write", "read", "sleep", "return", "close", "closed"}
  <2>1. /\ lock \in Threads \cup {0} /\ i \in [Threads -> Nat] /\ n \in [Threads -> Nat]
        /\ pc \in [Threads -> Label]
    BY Zenon DEF IInv, TypeOK
  <2>2. /\ lock' \in Threads \cup {0} /\ i' \in [Threads -> Nat] /\ n' \in [Threads -> Nat]
        /\ pc' \in [Threads -> Label]
    BY <2>1
  <2> QED
    BY <1>1, <2>2, Zenon DEF IInv, TypeOK
<1>3. CallOK'
  <2>1. CASE killed[t]
    BY <1>1, <2>1, SizeAssumption DEF IInv, TypeOK, CallOK, Threads
  <2>2. CASE ~killed[t]
    BY <1>1, <2>2, SizeAssumption DEF IInv, TypeOK, CallOK, Threads
  <2> QED
    BY <2>1, <2>2, Zenon
<1>4. LockOK'
  BY <1>1, ThreadsAssumption DEF IInv, TypeOK, CallOK, LockOK, Threads
<1>5. EndsOK'
  BY <1>1, EndsFrame, Zenon
<1>6. SleepersHaveReason'
  BY <1>1, ThreadsAssumption, Zenon DEF IInv, TypeOK, SleepersHaveReason, Threads
<1> QED
  BY <1>2, <1>3, <1>4, <1>5, <1>6, Zenon DEF IInv

(* The copies of a write store bytes of its message. *)
LEMMA StoreType ==
  ASSUME NEW d \in [0..PIPESIZE - 1 -> Value], NEW w \in Writers,
         NEW p \in Nat, NEW m \in Nat, NEW k \in Nat
  PROVE  Store(d, p, w, m, k) \in [0..PIPESIZE - 1 -> Value]
<1>1. ASSUME NEW x \in 0..PIPESIZE - 1, x \in p..p + k - 1
      PROVE  Byte(w, m + 1 + x - p) \in Value
  <2>1. x - p \in Nat /\ m + 1 + (x - p) \in Nat
    BY <1>1, SizeAssumption
  <2> QED
    BY <2>1, Zenon DEF Byte, Value
<1> QED
  BY <1>1, Zenon DEF Store

(* How many bytes a write copies, and how many of them to the end of the array. *)
LEMMA WriteSizes ==
  ASSUME IInv, NEW t \in Threads, pc[t] = "write",
         NEW bytes, bytes = MIN(Free, n[t] - i[t]), NEW chunk1, chunk1 = Chunk1(bytes, nwrite)
  PROVE  /\ Used \in 0..PIPESIZE /\ Free = PIPESIZE - Used
         /\ i[t] \in Nat /\ n[t] \in Lens /\ n[t] \in Nat /\ i[t] < n[t]
         /\ bytes \in 0..PIPESIZE - Used /\ i[t] + bytes <= n[t]
         /\ i[t] + bytes < n[t] => bytes = PIPESIZE - Used
         /\ Used # PIPESIZE => bytes # 0
         /\ nwrite % PIPESIZE \in 0..PIPESIZE - 1
         /\ chunk1 \in 0..bytes /\ bytes - chunk1 \in Nat
         /\ chunk1 = IF bytes > PIPESIZE - (nwrite % PIPESIZE) THEN PIPESIZE - (nwrite % PIPESIZE) ELSE bytes
<1>1. /\ PIPESIZE \in Nat \ {0} /\ M \in Nat /\ Used \in 0..PIPESIZE /\ Free = PIPESIZE - Used
      /\ i[t] \in Nat /\ n[t] \in Nat /\ n[t] \in Lens /\ i[t] < n[t]
      /\ nwrite \in 0..M - 1
  BY FreeIs, SizeAssumption, Zenon DEF IInv, TypeOK, CallOK
<1>2. /\ bytes \in 0..PIPESIZE - Used /\ i[t] + bytes <= n[t]
      /\ i[t] + bytes < n[t] => bytes = PIPESIZE - Used
      /\ Used # PIPESIZE => bytes # 0
  BY <1>1, SMTT(30) DEF MIN
<1>3. nwrite % PIPESIZE \in 0..PIPESIZE - 1
  BY <1>1, ModDiv, SMTT(30)
<1>4. chunk1 = IF bytes > PIPESIZE - (nwrite % PIPESIZE) THEN PIPESIZE - (nwrite % PIPESIZE) ELSE bytes
  BY Zenon DEF Chunk1
<1>5. chunk1 \in 0..bytes /\ bytes - chunk1 \in Nat
  BY <1>1, <1>2, <1>3, <1>4
<1> QED
  BY <1>1, <1>2, <1>3, <1>4, <1>5, Zenon

(* A write that stores bytes.  If it has more to write the pipe is full. *)
LEMMA WriteBytesStep ==
  ASSUME IInv, NEW t \in Threads, t \in Writers, WriteBytes(t)
  PROVE  IInv'
<1> DEFINE bytes  == MIN(Free, n[t] - i[t])
           chunk1 == Chunk1(bytes, nwrite)
<1>1. /\ pc[t] = "write" /\ state[t] = "RUNNABLE" /\ lock = 0
      /\ UNCHANGED <<nread, readopen, writeopen, freed, killed, addr>>
      /\ nwrite' = (nwrite + bytes) % M
      /\ data' = Store(Store(data, nwrite % PIPESIZE, t, i[t], chunk1), 0, t, i[t] + chunk1, bytes - chunk1)
  BY Zenon DEF WriteBytes, At
<1> DEFINE Stops  == /\ i[t] + bytes < n[t] /\ (~readopen \/ killed[t])
                     /\ pc' = [pc EXCEPT ![t] = "user"]
                     /\ n' = [n EXCEPT ![t] = 0] /\ i' = [i EXCEPT ![t] = 0]
                     /\ lock' = lock /\ state' = state
           Sleeps == /\ i[t] + bytes < n[t] /\ readopen
                     /\ pc' = [pc EXCEPT ![t] = "sleep"]
                     /\ n' = n /\ i' = [i EXCEPT ![t] = @ + bytes]
                     /\ lock' = t
                     /\ state' = [u \in Threads |-> IF u \in Readers THEN "RUNNABLE" ELSE state[u]]
           Done   == /\ pc' = [pc EXCEPT ![t] = "user"]
                     /\ n' = [n EXCEPT ![t] = 0] /\ i' = [i EXCEPT ![t] = 0]
                     /\ lock' = lock
                     /\ state' = [u \in Threads |-> IF u \in Readers THEN "RUNNABLE" ELSE state[u]]
<1>2. Stops \/ Sleeps \/ Done
  BY Zenon DEF WriteBytes, Return, GoTo, Wakeup
<1>3. /\ PIPESIZE \in Nat \ {0} /\ Used \in 0..PIPESIZE
      /\ i[t] \in Nat /\ n[t] \in Nat /\ i[t] < n[t]
  BY <1>1, WriteSizes, SizeAssumption
<1>4. /\ bytes \in 0..PIPESIZE - Used
      /\ i[t] + bytes < n[t] => bytes = PIPESIZE - Used
  BY <1>1, WriteSizes
<1>5. /\ nwrite % PIPESIZE \in 0..PIPESIZE - 1
      /\ chunk1 \in Nat /\ bytes - chunk1 \in Nat
  BY <1>1, <1>3, WriteSizes
<1> HIDE DEF bytes, chunk1
<1>6. nwrite' \in 0..M - 1 /\ Used' = Used + bytes
  BY <1>1, <1>4, UsedGrows, Zenon DEF IInv
<1>7. data' \in [0..PIPESIZE - 1 -> Value]
  <2>1. Store(data, nwrite % PIPESIZE, t, i[t], chunk1) \in [0..PIPESIZE - 1 -> Value]
    <3>1. data \in [0..PIPESIZE - 1 -> Value]
      BY Zenon DEF IInv, TypeOK
    <3>2. nwrite % PIPESIZE \in Nat
      BY <1>3, <1>5
    <3> QED
      BY <1>3, <1>5, <3>1, <3>2, StoreType, Zenon
  <2>2. 0 \in Nat /\ i[t] + chunk1 \in Nat
    BY <1>3, <1>5
  <2> HIDE DEF Store
  <2> QED
    BY <1>1, <1>5, <2>1, <2>2, StoreType, Zenon
<1> DEFINE Label == {"user", "write", "read", "sleep", "return", "close", "closed"}
<1>8. /\ lock \in Threads \cup {0} /\ state \in [Threads -> {"RUNNABLE", "SLEEPING"}]
      /\ pc \in [Threads -> Label] /\ i \in [Threads -> Nat] /\ n \in [Threads -> Nat]
  BY Zenon DEF IInv, TypeOK
<1>9. TypeOK'
  <2>1. Used' <= PIPESIZE
    BY <1>3, <1>4, <1>6
  <2>2. i[t] + bytes \in Nat
    BY <1>3, <1>4
  <2>3. /\ lock' \in Threads \cup {0} /\ state' \in [Threads -> {"RUNNABLE", "SLEEPING"}]
        /\ pc' \in [Threads -> Label] /\ i' \in [Threads -> Nat] /\ n' \in [Threads -> Nat]
    <3>1. CASE Stops
      BY <1>8, <3>1, Zenon
    <3>2. CASE Sleeps
      BY <1>8, <2>2, <3>2, Zenon
    <3>3. CASE Done
      BY <1>8, <3>3, Zenon
    <3> QED
      BY <1>2, <3>1, <3>2, <3>3, Zenon
  <2> QED
    BY <1>1, <1>6, <1>7, <2>1, <2>3, Zenon DEF IInv, TypeOK
<1>10. CallOK'
  <2>1. CASE Stops
    BY <1>1, <1>8, <2>1, ThreadsAssumption, Zenon DEF IInv, CallOK, Threads
  <2>2. CASE Sleeps
    BY <1>1, <1>3, <1>4, <1>8, <2>2, ThreadsAssumption, Zenon DEF IInv, CallOK, Threads
  <2>3. CASE Done
    BY <1>1, <1>8, <2>3, ThreadsAssumption, Zenon DEF IInv, CallOK, Threads
  <2> QED
    BY <1>2, <2>1, <2>2, <2>3, Zenon
<1>11. LockOK'
  <2>0. \A u \in Threads : pc[u] # "sleep"
    BY <1>1, ThreadsAssumption, Zenon DEF IInv, LockOK, Threads
  <2>1. CASE Stops \/ Done
    BY <1>1, <1>8, <2>0, <2>1, ThreadsAssumption, Zenon DEF LockOK, Threads
  <2>2. CASE Sleeps
    BY <1>1, <1>3, <1>4, <1>6, <1>8, <2>0, <2>2, ThreadsAssumption DEF LockOK, Threads
  <2> QED
    BY <1>2, <2>1, <2>2, Zenon
<1>12. EndsOK'
  BY <1>1, <1>2, EndsFrame, Zenon
<1>13. SleepersHaveReason'
  <2>1. \A w \in Writers : state'[w] = "SLEEPING" => state[w] = "SLEEPING"
    BY <1>2, <1>8, ThreadsAssumption, Zenon DEF Threads
  <2>2. \A w \in Writers : state[w] = "SLEEPING" => Used' = PIPESIZE /\ readopen
    BY <1>3, <1>4, <1>6 DEF IInv, SleepersHaveReason
  <2>3. ASSUME NEW r \in Readers, state'[r] = "SLEEPING"
        PROVE  state[r] = "SLEEPING" /\ \E w \in Writers : killed[w]
    <3>1. Stops
      BY <1>2, <2>3, Zenon DEF Threads
    <3>2. state[r] = "SLEEPING"
      BY <2>3, <3>1, Zenon
    <3>3. readopen
      <4>1. pc[r] # "closed" /\ r \in Threads
        BY <3>2, Zenon DEF IInv, CallOK, Threads
      <4> QED
        BY <4>1, Zenon DEF IInv, EndsOK
    <3> QED
      BY <3>1, <3>2, <3>3, Zenon
  <2> QED
    BY <1>1, <2>1, <2>2, <2>3, Zenon DEF IInv, SleepersHaveReason
<1> QED
  BY <1>9, <1>10, <1>11, <1>12, <1>13, Zenon DEF IInv

(* A write whose buffer is not mapped. *)
LEMMA WriteFaultStep ==
  ASSUME IInv, NEW t \in Threads, t \in Writers, WriteFault(t)
  PROVE  IInv'
<1> DEFINE bytes  == MIN(Free, n[t] - i[t])
           chunk1 == Chunk1(bytes, nwrite)
           Label  == {"user", "write", "read", "sleep", "return", "close", "closed"}
<1>1. /\ pc[t] = "write" /\ state[t] = "RUNNABLE" /\ lock = 0
      /\ UNCHANGED <<nread, nwrite, readopen, writeopen, freed, lock, state, killed, addr>>
      /\ pc' = [pc EXCEPT ![t] = "user"] /\ n' = [n EXCEPT ![t] = 0] /\ i' = [i EXCEPT ![t] = 0]
      /\ \/ data' = data
         \/ data' = Store(data, nwrite % PIPESIZE, t, i[t], chunk1)
  BY Zenon DEF WriteFault, Return, GoTo, At
<1>2. Used' = Used
  BY <1>1, Zenon DEF Used
<1>3. i[t] \in Nat /\ chunk1 \in Nat /\ nwrite % PIPESIZE \in Nat
  <2>1. /\ PIPESIZE \in Nat \ {0} /\ i[t] \in Nat /\ Used \in 0..PIPESIZE /\ bytes \in 0..PIPESIZE - Used
        /\ nwrite % PIPESIZE \in 0..PIPESIZE - 1 /\ chunk1 \in 0..bytes
    BY <1>1, WriteSizes, SizeAssumption
  <2> HIDE DEF bytes, chunk1
  <2> QED
    BY <2>1
<1> HIDE DEF bytes, chunk1
<1>4. /\ pc \in [Threads -> Label] /\ i \in [Threads -> Nat] /\ n \in [Threads -> Nat]
      /\ data \in [0..PIPESIZE - 1 -> Value]
  BY Zenon DEF IInv, TypeOK
<1>5. TypeOK'
  <2>1. data' \in [0..PIPESIZE - 1 -> Value]
    <3>1. Store(data, nwrite % PIPESIZE, t, i[t], chunk1) \in [0..PIPESIZE - 1 -> Value]
      BY <1>3, <1>4, StoreType, Zenon
    <3> QED
      BY <1>1, <1>4, <3>1, Zenon
  <2>2. pc' \in [Threads -> Label] /\ i' \in [Threads -> Nat] /\ n' \in [Threads -> Nat]
    BY <1>1, <1>4, Zenon
  <2> QED
    BY <1>1, <1>2, <2>1, <2>2, Zenon DEF IInv, TypeOK
<1>6. CallOK'
  BY <1>1, <1>4, ThreadsAssumption, Zenon DEF IInv, CallOK, Threads
<1>7. LockOK'
  BY <1>1, <1>2, <1>4, ThreadsAssumption, Zenon DEF IInv, LockOK, Threads
<1>8. EndsOK'
  BY <1>1, EndsFrame, Zenon
<1>9. SleepersHaveReason'
  BY <1>1, <1>2, Zenon DEF IInv, SleepersHaveReason
<1> QED
  BY <1>5, <1>6, <1>7, <1>8, <1>9, Zenon DEF IInv

(* How many bytes a read copies, and how many of them from the end of the array. *)
LEMMA ReadSizes ==
  ASSUME IInv, NEW t \in Threads, pc[t] = "read",
         NEW bytes, bytes = MIN(Used, n[t]), NEW chunk1, chunk1 = Chunk1(bytes, nread)
  PROVE  /\ Used \in 0..PIPESIZE /\ n[t] \in Nat /\ n[t] \in Lens /\ 0 < n[t]
         /\ bytes \in 0..Used /\ bytes = (IF n[t] <= Used THEN n[t] ELSE Used)
         /\ nread % PIPESIZE \in 0..PIPESIZE - 1
         /\ chunk1 \in 0..bytes
         /\ chunk1 = IF bytes > PIPESIZE - (nread % PIPESIZE) THEN PIPESIZE - (nread % PIPESIZE) ELSE bytes
<1>1. /\ PIPESIZE \in Nat \ {0} /\ M \in Nat /\ Used \in 0..PIPESIZE
      /\ i[t] \in Nat /\ n[t] \in Nat /\ n[t] \in Lens /\ i[t] < n[t]
      /\ nread \in 0..M - 1
  BY FreeIs, SizeAssumption, Zenon DEF IInv, TypeOK, CallOK
<1>2. bytes \in 0..Used /\ bytes = IF n[t] <= Used THEN n[t] ELSE Used
  BY <1>1 DEF MIN
<1>3. nread % PIPESIZE \in 0..PIPESIZE - 1
  BY <1>1, ModDiv
<1>4. chunk1 = IF bytes > PIPESIZE - (nread % PIPESIZE) THEN PIPESIZE - (nread % PIPESIZE) ELSE bytes
  BY Zenon DEF Chunk1
<1>5. chunk1 \in 0..bytes
  BY <1>1, <1>2, <1>3, <1>4
<1> QED
  BY <1>1, <1>2, <1>3, <1>4, <1>5

(* A read that takes bytes, or meets the end of the file, wakes the writers. *)
LEMMA ReadBytesStep ==
  ASSUME IInv, NEW t \in Threads, t \in Readers, ReadBytes(t)
  PROVE  IInv'
<1> DEFINE bytes  == MIN(Used, n[t])
           chunk1 == Chunk1(bytes, nread)
           Label  == {"user", "write", "read", "sleep", "return", "close", "closed"}
           got    == [k \in 1..bytes |-> IF k <= chunk1 THEN data[(nread % PIPESIZE) + k - 1]
                                         ELSE data[k - chunk1 - 1]]
<1>1. /\ pc[t] = "read" /\ state[t] = "RUNNABLE" /\ lock = 0
      /\ nread # nwrite \/ ~writeopen
      /\ UNCHANGED <<data, nwrite, readopen, writeopen, freed, lock, killed, i, n>>
      /\ pc' = [pc EXCEPT ![t] = "return"]
      /\ nread' = (nread + bytes) % M
      /\ addr' = [addr EXCEPT ![t] = got]
      /\ state' = [u \in Threads |-> IF u \in Writers THEN "RUNNABLE" ELSE state[u]]
  BY Zenon DEF ReadBytes, Wakeup, GoTo, At
<1>2. /\ PIPESIZE \in Nat \ {0} /\ Used \in 0..PIPESIZE /\ bytes \in 0..Used
      /\ nread % PIPESIZE \in 0..PIPESIZE - 1 /\ chunk1 \in 0..bytes
      /\ chunk1 = IF bytes > PIPESIZE - (nread % PIPESIZE) THEN PIPESIZE - (nread % PIPESIZE) ELSE bytes
  BY <1>1, ReadSizes, SizeAssumption
<1> HIDE DEF bytes, chunk1
<1>3. nread' \in 0..M - 1 /\ Used' = Used - bytes
  BY <1>1, <1>2, UsedShrinks, Zenon DEF IInv
<1>4. /\ pc \in [Threads -> Label] /\ state \in [Threads -> {"RUNNABLE", "SLEEPING"}]
      /\ data \in [0..PIPESIZE - 1 -> Value] /\ addr \in [Readers -> Seq(Value)]
  BY Zenon DEF IInv, TypeOK
<1>5. got \in Seq(Value)
  <2>1. ASSUME NEW k \in 1..bytes
        PROVE  (IF k <= chunk1 THEN data[(nread % PIPESIZE) + k - 1] ELSE data[k - chunk1 - 1]) \in Value
    <3>1. CASE k <= chunk1
      <4>1. (nread % PIPESIZE) + k - 1 \in 0..PIPESIZE - 1
        BY <1>2, <2>1, <3>1
      <4> QED
        BY <1>4, <3>1, <4>1, Zenon
    <3>2. CASE ~(k <= chunk1)
      <4>1. k - chunk1 - 1 \in 0..PIPESIZE - 1
        BY <1>2, <2>1, <3>2
      <4> QED
        BY <1>4, <3>2, <4>1, Zenon
    <3> QED
      BY <3>1, <3>2, Zenon
  <2>2. bytes \in Nat
    BY <1>2
  <2>3. got \in [1..bytes -> Value]
    BY <2>1, Zenon
  <2> HIDE DEF got
  <2> QED
    BY <2>2, <2>3
<1> HIDE DEF got
<1>6. TypeOK'
  <2>1. Used' <= PIPESIZE
    BY <1>2, <1>3
  <2>2. /\ pc' \in [Threads -> Label] /\ state' \in [Threads -> {"RUNNABLE", "SLEEPING"}]
        /\ addr' \in [Readers -> Seq(Value)]
    BY <1>1, <1>4, <1>5, Zenon
  <2> QED
    BY <1>1, <1>3, <2>1, <2>2, Zenon DEF IInv, TypeOK
<1>7. CallOK'
  BY <1>1, <1>4, ThreadsAssumption, Zenon DEF IInv, CallOK, Threads
<1>8. LockOK'
  <2>1. \A u \in Threads : pc[u] # "sleep"
    BY <1>1, ThreadsAssumption, Zenon DEF IInv, LockOK, Threads
  <2> QED
    BY <1>1, <1>4, <2>1, ThreadsAssumption, Zenon DEF LockOK, Threads
<1>9. EndsOK'
  BY <1>1, EndsFrame, Zenon
<1>10. SleepersHaveReason'
  <2>1. \A w \in Writers : state'[w] # "SLEEPING"
    BY <1>1, Zenon DEF Threads
  <2>2. ASSUME NEW r \in Readers, state'[r] = "SLEEPING"
        PROVE  writeopen /\ \E w \in Writers : killed[w]
    <3>1. state[r] = "SLEEPING"
      BY <1>1, <2>2, Zenon DEF Threads
    <3> QED
      BY <1>1, <3>1, Zenon DEF IInv, SleepersHaveReason
  <2> QED
    BY <1>1, <2>1, <2>2, Zenon DEF SleepersHaveReason
<1> QED
  BY <1>6, <1>7, <1>8, <1>9, <1>10, Zenon DEF IInv

(* The end that closes wakes the other one, and frees the pipe if it is the second. *)
LEMMA PipeCloseStep ==
  ASSUME IInv, NEW t \in Threads, PipeClose(t)
  PROVE  IInv'
<1> DEFINE Label == {"user", "write", "read", "sleep", "return", "close", "closed"}
           Other == IF t \in Writers THEN Readers ELSE Writers
<1>1. /\ pc[t] = "close" /\ state[t] = "RUNNABLE" /\ lock = 0
      /\ UNCHANGED <<data, nread, nwrite, lock, killed, i, n, addr>>
      /\ pc' = [pc EXCEPT ![t] = "closed"]
      /\ writeopen' = (writeopen /\ t \notin Writers) /\ readopen' = (readopen /\ t \in Writers)
      /\ freed' = (~readopen' /\ ~writeopen')
      /\ state' = [u \in Threads |-> IF u \in Other THEN "RUNNABLE" ELSE state[u]]
  BY Zenon DEF PipeClose, Wakeup, GoTo, At, bufv, IInv, TypeOK
<1>2. Used' = Used
  BY <1>1, Zenon DEF Used
<1>3. /\ pc \in [Threads -> Label] /\ state \in [Threads -> {"RUNNABLE", "SLEEPING"}]
      /\ readopen \in BOOLEAN /\ writeopen \in BOOLEAN
  BY Zenon DEF IInv, TypeOK
<1>4. TypeOK'
  <2>1. /\ pc' \in [Threads -> Label] /\ state' \in [Threads -> {"RUNNABLE", "SLEEPING"}]
        /\ readopen' \in BOOLEAN /\ writeopen' \in BOOLEAN /\ freed' \in BOOLEAN
    BY <1>1, <1>3, Zenon
  <2> QED
    BY <1>1, <1>2, <2>1, Zenon DEF IInv, TypeOK
<1>5. CallOK'
  BY <1>1, <1>3, Zenon DEF IInv, CallOK
<1>6. LockOK'
  <2>1. \A u \in Threads : pc[u] # "sleep"
    BY <1>1, ThreadsAssumption, Zenon DEF IInv, LockOK, Threads
  <2> QED
    BY <1>1, <1>3, <2>1, ThreadsAssumption, Zenon DEF LockOK, Threads
<1>7. EndsOK'
  <2>1. \A u \in Others(t) : pc[u] = "closed"
    BY <1>1, Zenon DEF IInv, EndsOK
  <2>2. \A u \in Others(t) \cup {t} : pc'[u] = "closed"
    BY <1>1, <1>3, <2>1, Zenon DEF Others, Threads
  <2>3. \A u \in Threads : pc'[u] = "close" => \A v \in Others(u) : pc'[v] = "closed"
    BY <1>1, <1>3, Zenon DEF IInv, EndsOK, Others, Threads
  <2>4. /\ ~writeopen' => \A w \in Writers : pc'[w] = "closed"
        /\ ~readopen' => \A r \in Readers : pc'[r] = "closed"
    <3>1. CASE t \in Writers
      BY <1>1, <1>3, <2>2, <3>1, ThreadsAssumption, Zenon DEF IInv, EndsOK, Others, Threads
    <3>2. CASE t \notin Writers
      BY <1>1, <1>3, <2>2, <3>2, ThreadsAssumption, Zenon DEF IInv, EndsOK, Others, Threads
    <3> QED
      BY <3>1, <3>2, Zenon
  <2> QED
    BY <1>1, <2>3, <2>4, Zenon DEF EndsOK
<1>8. SleepersHaveReason'
  <2>1. CASE t \in Writers
    BY <1>1, <1>2, <1>3, <2>1, ThreadsAssumption, Zenon DEF IInv, SleepersHaveReason, Threads
  <2>2. CASE t \notin Writers
    BY <1>1, <1>2, <1>3, <2>2, ThreadsAssumption, Zenon DEF IInv, SleepersHaveReason, Threads
  <2> QED
    BY <2>1, <2>2, Zenon
<1> QED
  BY <1>4, <1>5, <1>6, <1>7, <1>8, Zenon DEF IInv

(* A stuttering step. *)
LEMMA StutterIInv ==
  ASSUME IInv, UNCHANGED vars
  PROVE  IInv'
<1>1. UNCHANGED <<data, nread, nwrite, readopen, writeopen, freed, lock, state, killed, pc, i, n, addr>>
      /\ Used' = Used
  BY Zenon DEF vars, pipev, bufv, Used
<1>2. TypeOK' /\ CallOK'
  BY <1>1, Zenon DEF IInv, TypeOK, CallOK
<1>3. LockOK' /\ EndsOK' /\ SleepersHaveReason'
  BY <1>1, Zenon DEF IInv, LockOK, EndsOK, SleepersHaveReason
<1> QED
  BY <1>2, <1>3, Zenon DEF IInv

(* Every step keeps the invariant. *)
LEMMA NextIInv == IInv /\ [Next]_vars => IInv'
<1> SUFFICES ASSUME IInv, [Next]_vars PROVE IInv'
  BY Zenon
<1>1. ASSUME NEW t \in Threads, Step(t) PROVE IInv'
  BY <1>1, WriteFullStep, WriteBytesStep, WriteFaultStep, ReadEmptyStep, ReadBytesStep,
     ReadFaultStep, ReadReturnStep, SleepStep, PipeCloseStep, Zenon DEF Step
<1> QED
  BY <1>1, FileCloseStep, KillStep, CallStep, StutterIInv, Zenon DEF Next

-----------------------------------------------------------------------------
(* The inductive invariant holds in every state. *)
THEOREM Invariance == Spec => []IInv
  BY InitIInv, NextIInv, PTL DEF Spec

(* pipewrite and piperead sleep only on a pipe that is full or empty and   *)
(* whose other end is open, and are woken by whoever changes that, except  *)
(* for the readers whom a killed writer leaves asleep.                     *)
THEOREM SleepersCorrect == Spec => []SleepersHaveReason
<1>1. IInv => SleepersHaveReason
  BY Zenon DEF IInv
<1> QED
  BY <1>1, Invariance, PTL

(* pipeclose frees the pipe when no thread is in piperead or pipewrite or  *)
(* on its way to pipeclose.                                                *)
THEOREM FreedCorrect == Spec => []FreedUnused
<1>1. IInv => FreedUnused
  BY Zenon DEF IInv, EndsOK, FreedUnused, Threads
<1> QED
  BY <1>1, Invariance, PTL

-----------------------------------------------------------------------------
(* The pipe implements the channel. *)

(* the queue of the channel, what the writes have delivered, the threads whose end is open *)
Queue == [j \in 1..Used |-> data[(nread + j - 1) % PIPESIZE]]
Sent  == [w \in Writers |-> i[w]]
Open  == {t \in Threads : pc[t] \notin {"close", "closed"}}

(* the place d bytes after a place r *)
Slot(r, d) == IF r + d < PIPESIZE THEN r + d ELSE r + d - PIPESIZE

(* One place after another. *)
LEMMA SlotSlot ==
  ASSUME NEW r \in 0..PIPESIZE - 1, NEW k \in Nat, NEW j \in Nat \ {0}, k + j <= PIPESIZE
  PROVE  Slot(Slot(r, k), j - 1) = Slot(r, (k + j) - 1)
BY SizeAssumption, SMTT(30) DEF Slot

(* the bytes of a copy of b bytes, from place w on, that fit before the end of the array *)
Part(b, w) == IF b > PIPESIZE - w THEN PIPESIZE - w ELSE b

(* A function on an initial segment is a sequence. *)
LEMMA SegmentIsSeq ==
  ASSUME NEW S, NEW k \in Nat, NEW q \in [1..k -> S]
  PROVE  q \in Seq(S) /\ Len(q) = k
  OBVIOUS

(* When a sequence is the concatenation of two. *)
LEMMA CatIs ==
  ASSUME NEW S, NEW s \in Seq(S), NEW u \in Seq(S), NEW q \in Seq(S),
         Len(q) = Len(s) + Len(u),
         \A j \in 1..Len(s) : q[j] = s[j],
         \A j \in 1..Len(u) : q[Len(s) + j] = u[j]
  PROVE  q = s \o u
<1> DEFINE c == s \o u
<1>1. c \in Seq(S) /\ Len(c) = Len(s) + Len(u)
  OBVIOUS
<1>2. \A j \in 1..Len(c) : c[j] = IF j <= Len(s) THEN s[j] ELSE u[j - Len(s)]
  OBVIOUS
<1> HIDE DEF c
<1>3. ASSUME NEW j \in 1..Len(q) PROVE q[j] = c[j]
  <2>1. CASE j <= Len(s)
    BY <1>1, <1>2, <2>1
  <2>2. CASE ~(j <= Len(s))
    <3>1. j - Len(s) \in 1..Len(u) /\ Len(s) + (j - Len(s)) = j
      BY <2>2
    <3>2. q[j] = u[j - Len(s)]
      BY <3>1, Zenon
    <3> QED
      BY <1>1, <1>2, <2>2, <3>2, Zenon
  <2> QED
    BY <2>1, <2>2, Zenon
<1>4. q = c
  <2>1. q \in [1..Len(q) -> S] /\ c \in [1..Len(q) -> S]
    BY <1>1
  <2> QED
    BY <1>3, <2>1
<1> QED
  BY <1>4, Zenon DEF c

(* The elements of a part of a sequence. *)
LEMMA PartIs ==
  ASSUME NEW S, NEW s \in Seq(S), NEW a \in 1..Len(s) + 1, NEW b \in 0..Len(s), a <= b + 1,
         NEW q \in Seq(S), Len(q) = b - a + 1,
         \A j \in 1..Len(q) : q[j] = s[a + j - 1]
  PROVE  q = SubSeq(s, a, b)
  OBVIOUS

(* where the bytes of the queue are *)
QueueOK ==
  /\ Used \in 0..PIPESIZE /\ nread % PIPESIZE \in 0..PIPESIZE - 1
  /\ Queue \in Seq(Value) /\ Len(Queue) = Used
  /\ \A j \in 1..Used : /\ Slot(nread % PIPESIZE, j - 1) \in 0..PIPESIZE - 1
                        /\ Queue[j] = data[Slot(nread % PIPESIZE, j - 1)]

(* The bytes of the queue are in the buffer, one after the other. *)
LEMMA QueueIs == IInv => QueueOK
<1> SUFFICES ASSUME IInv PROVE QueueOK
  BY Zenon
<1>1. /\ Used \in 0..PIPESIZE /\ nread \in Int /\ PIPESIZE \in Nat \ {0}
      /\ data \in [0..PIPESIZE - 1 -> Value]
  BY FreeIs, SizeAssumption DEF IInv, TypeOK
<1>2. nread % PIPESIZE \in 0..PIPESIZE - 1
  BY <1>1, ModDiv, Zenon
<1>3. ASSUME NEW j \in 1..Used
      PROVE  /\ (nread + j - 1) % PIPESIZE = Slot(nread % PIPESIZE, j - 1)
             /\ Slot(nread % PIPESIZE, j - 1) \in 0..PIPESIZE - 1
  <2>1. j - 1 \in 0..PIPESIZE
    BY <1>1
  <2>2. (nread + (j - 1)) % PIPESIZE = Slot(nread % PIPESIZE, j - 1)
    BY <1>1, <2>1, Place, Zenon DEF Slot
  <2>3. Slot(nread % PIPESIZE, j - 1) \in 0..PIPESIZE - 1
    BY <1>1, <1>2, <2>1 DEF Slot
  <2> QED
    BY <2>2, <2>3, Zenon
<1>4. \A j \in 1..Used : Queue[j] = data[Slot(nread % PIPESIZE, j - 1)]
  BY <1>3, Zenon DEF Queue
<1>5. Queue \in [1..Used -> Value]
  <2>1. \A j \in 1..Used : data[(nread + j - 1) % PIPESIZE] \in Value
    BY <1>1, <1>3, Zenon
  <2> QED
    BY <2>1, Zenon DEF Queue
<1>6. Used \in Nat
  BY <1>1
<1>7. Queue \in Seq(Value) /\ Len(Queue) = Used
  BY <1>5, <1>6, SegmentIsSeq, Zenon
<1> QED
  BY <1>1, <1>2, <1>3, <1>4, <1>7, Zenon DEF QueueOK

(* The same after a step. *)
LEMMA QueueIsNext == IInv' => QueueOK'
  BY QueueIs, PTL

(* The next byte goes to the place after the last one of the queue. *)
LEMMA EndIs ==
  ASSUME IInv
  PROVE  nwrite % PIPESIZE = Slot(nread % PIPESIZE, Used)
<1>1. /\ Used \in 0..PIPESIZE /\ nread \in 0..M - 1 /\ nwrite \in 0..M - 1 /\ PIPESIZE \in Nat \ {0}
      /\ M \in Nat
  BY FreeIs, SizeAssumption, Zenon DEF IInv, TypeOK
<1>2. Used = IF nwrite < nread THEN nwrite - nread + M ELSE nwrite - nread
  BY <1>1, UsedIs, Zenon DEF Used
<1>3. (nread + Used) % PIPESIZE = Slot(nread % PIPESIZE, Used)
  <2>1. nread \in Int
    BY <1>1
  <2> QED
    BY <1>1, <2>1, Place, Zenon DEF Slot
<1> DEFINE x == nread + Used
<1>4. x \in Int /\ (nwrite = x \/ nwrite = x - M)
  BY <1>1, <1>2
<1> HIDE DEF x
<1>5. nwrite % PIPESIZE = x % PIPESIZE
  BY <1>4, WrapKeepsPlace, Zenon
<1> QED
  BY <1>3, <1>5, Zenon DEF x

(* Where the bytes of a write go: not over bytes of the queue, and each to *)
(* its place after them.                                                   *)
LEMMA WriteSlots ==
  ASSUME NEW r \in 0..PIPESIZE - 1, NEW u \in 0..PIPESIZE, NEW b \in 0..PIPESIZE - u,
         NEW w, w = Slot(r, u), NEW c, c = Part(b, w),
         NEW j \in 1..u + b, NEW x, x = Slot(r, j - 1)
  PROVE  /\ x \in 0..PIPESIZE - 1 /\ w \in 0..PIPESIZE - 1 /\ c \in 0..b
         /\ j <= u => x \notin 0..b - c - 1 /\ x \notin w..w + c - 1
         /\ j > u /\ x \in 0..b - c - 1 => c + 1 + x = j - u
         /\ j > u /\ x \notin 0..b - c - 1 => x \in w..w + c - 1 /\ 1 + (x - w) = j - u
<1>1. PIPESIZE \in Nat \ {0}
  BY SizeAssumption, Zenon
<1>2. CASE r + u < PIPESIZE
  BY <1>1, <1>2 DEF Slot, Part
<1>3. CASE ~(r + u < PIPESIZE)
  BY <1>1, <1>3 DEF Slot, Part
<1> QED
  BY <1>2, <1>3, Zenon

(* The first part of a write, alone, does not change the queue. *)
LEMMA FaultQueue ==
  ASSUME IInv, NEW t \in Threads, t \in Writers, WriteFault(t)
  PROVE  Queue' = Queue
<1> DEFINE bytes  == MIN(Free, n[t] - i[t])
           chunk1 == Chunk1(bytes, nwrite)
           r      == nread % PIPESIZE
           w      == nwrite % PIPESIZE
<1>1. /\ pc[t] = "write" /\ nread' = nread /\ Used' = Used
      /\ data' = data \/ data' = Store(data, w, t, i[t], chunk1)
  BY Zenon DEF WriteFault, At, Used
<1>2. /\ bytes \in 0..PIPESIZE - Used
      /\ chunk1 = Part(bytes, w)
  BY <1>1, WriteSizes DEF Part
<1>3. /\ Used \in 0..PIPESIZE /\ r \in 0..PIPESIZE - 1 /\ PIPESIZE \in Nat \ {0}
      /\ \A j \in 1..Used : Slot(r, j - 1) \in 0..PIPESIZE - 1
  BY QueueIs, SizeAssumption, Zenon DEF QueueOK
<1>4. w = Slot(r, Used)
  BY EndIs, Zenon
<1> HIDE DEF bytes, chunk1, r, w
<1>5. ASSUME NEW j \in 1..Used PROVE data'[Slot(r, j - 1)] = data[Slot(r, j - 1)]
  <2>1. j \in 1..Used + bytes /\ j <= Used
    BY <1>2, <1>3
  <2>2. Slot(r, j - 1) \notin w..w + chunk1 - 1 /\ Slot(r, j - 1) \in 0..PIPESIZE - 1
    BY <1>2, <1>3, <1>4, <2>1, WriteSlots
  <2> QED
    BY <1>1, <2>2, Zenon DEF Store
<1>6. ASSUME NEW j \in 1..Used PROVE (nread + j - 1) % PIPESIZE = Slot(r, j - 1)
  <2>1. j - 1 \in 0..PIPESIZE /\ nread \in Int
    BY <1>3, SizeAssumption DEF IInv, TypeOK
  <2> QED
    BY <2>1, Place, Zenon DEF Slot, r
<1> QED
  BY <1>1, <1>5, <1>6, Zenon DEF Queue

(* A write appends its bytes to the queue. *)
LEMMA WriteQueue ==
  ASSUME IInv, NEW t \in Threads, t \in Writers, WriteBytes(t),
         NEW bytes, bytes = MIN(Free, n[t] - i[t])
  PROVE  Queue' = Queue \o [j \in 1..bytes |-> Byte(t, i[t] + j)]
<1> DEFINE chunk1 == Chunk1(bytes, nwrite)
           r      == nread % PIPESIZE
           w      == nwrite % PIPESIZE
           new    == [j \in 1..bytes |-> Byte(t, i[t] + j)]
<1>1. /\ pc[t] = "write" /\ nread' = nread /\ nwrite' = (nwrite + bytes) % M
      /\ data' = Store(Store(data, w, t, i[t], chunk1), 0, t, i[t] + chunk1, bytes - chunk1)
  BY Zenon DEF WriteBytes, At
<1>2. /\ bytes \in 0..PIPESIZE - Used /\ i[t] \in Nat /\ chunk1 \in 0..bytes /\ w \in 0..PIPESIZE - 1
      /\ chunk1 = Part(bytes, w)
  BY <1>1, WriteSizes DEF Part
<1>3. Used \in 0..PIPESIZE /\ r \in 0..PIPESIZE - 1 /\ PIPESIZE \in Nat \ {0}
  BY QueueIs, SizeAssumption, Zenon DEF QueueOK
<1>4. /\ Queue \in Seq(Value) /\ Len(Queue) = Used
      /\ \A j \in 1..Used : Queue[j] = data[Slot(r, j - 1)]
  BY QueueIs, Zenon DEF QueueOK
<1>5. w = Slot(r, Used)
  BY EndIs, Zenon
<1>6. Used' = Used + bytes
  BY <1>1, <1>2, UsedGrows, Zenon DEF IInv
<1>7. /\ Queue' \in Seq(Value) /\ Len(Queue') = Used + bytes
      /\ \A j \in 1..Used + bytes : Queue'[j] = data'[Slot(r, j - 1)]
  BY <1>1, <1>6, WriteBytesStep, QueueIsNext, Zenon DEF QueueOK, Value
<1>8. new \in Seq(Value) /\ Len(new) = bytes
  <2>1. new \in [1..bytes -> Value] /\ bytes \in Nat
    BY <1>2, <1>3 DEF Byte, Value
  <2> HIDE DEF new
  <2> QED
    BY <2>1, SegmentIsSeq, Zenon
<1> HIDE DEF chunk1, r, w
<1>9. ASSUME NEW x \in 0..PIPESIZE - 1
      PROVE  data'[x] = IF x \in 0..bytes - chunk1 - 1 THEN Byte(t, i[t] + (chunk1 + 1 + x))
                        ELSE IF x \in w..w + chunk1 - 1 THEN Byte(t, i[t] + (1 + (x - w)))
                        ELSE data[x]
  <2>1. /\ i[t] + chunk1 + 1 + x - 0 = i[t] + (chunk1 + 1 + x)
        /\ x \in 0..0 + (bytes - chunk1) - 1 <=> x \in 0..bytes - chunk1 - 1
    BY <1>2, <1>3
  <2>2. x \in w..w + chunk1 - 1 => i[t] + 1 + x - w = i[t] + (1 + (x - w))
    BY <1>2, <1>3
  <2> QED
    BY <1>1, <2>1, <2>2, Zenon DEF Store
<1>10. ASSUME NEW j \in 1..Used + bytes, NEW x, x = Slot(r, j - 1)
       PROVE  /\ x \in 0..PIPESIZE - 1
              /\ j <= Used => x \notin 0..bytes - chunk1 - 1 /\ x \notin w..w + chunk1 - 1
              /\ j > Used /\ x \in 0..bytes - chunk1 - 1 => chunk1 + 1 + x = j - Used
              /\ j > Used /\ x \notin 0..bytes - chunk1 - 1 => x \in w..w + chunk1 - 1 /\ 1 + (x - w) = j - Used
  <2> HIDE DEF Used
  <2>1. CASE r + Used < PIPESIZE
    BY <1>2, <1>3, <1>5, <1>10, <2>1, SMTT(30) DEF Slot, Part
  <2>2. CASE ~(r + Used < PIPESIZE)
    BY <1>2, <1>3, <1>5, <1>10, <2>2 DEF Slot, Part
  <2> QED
    BY <2>1, <2>2, Zenon
<1>11. ASSUME NEW j \in 1..Used PROVE Queue'[j] = Queue[j]
  <2>1. j \in 1..Used + bytes /\ j <= Used
    BY <1>2, <1>3
  <2>2. /\ Slot(r, j - 1) \notin 0..bytes - chunk1 - 1 /\ Slot(r, j - 1) \notin w..w + chunk1 - 1
        /\ Slot(r, j - 1) \in 0..PIPESIZE - 1
    BY <1>10, <2>1, Zenon
  <2> QED
    BY <1>4, <1>7, <1>9, <2>1, <2>2, Zenon
<1>12. ASSUME NEW k \in 1..bytes PROVE Queue'[Used + k] = new[k]
  <2> DEFINE j == Used + k
             x == Slot(r, j - 1)
  <2>1. j \in 1..Used + bytes /\ j > Used /\ j - Used = k
    BY <1>2, <1>3
  <2>2. /\ x \in 0..PIPESIZE - 1
        /\ x \in 0..bytes - chunk1 - 1 => chunk1 + 1 + x = k
        /\ x \notin 0..bytes - chunk1 - 1 => x \in w..w + chunk1 - 1 /\ 1 + (x - w) = k
    BY <1>10, <2>1, Zenon
  <2>3. Queue'[j] = data'[x]
    BY <1>7, <2>1, Zenon
  <2> HIDE DEF j, x
  <2>4. data'[x] = Byte(t, i[t] + k)
    BY <1>9, <2>2, Zenon
  <2> QED
    BY <2>3, <2>4, Zenon DEF j
<1> HIDE DEF new
<1> QED
  <2>1. /\ Len(Queue') = Len(Queue) + Len(new)
        /\ \A j \in 1..Len(Queue) : Queue'[j] = Queue[j]
        /\ \A j \in 1..Len(new) : Queue'[Len(Queue) + j] = new[j]
    BY <1>4, <1>7, <1>8, <1>11, <1>12, Zenon
  <2>2. Queue' = Queue \o new
    BY <1>4, <1>7, <1>8, <2>1, CatIs, Zenon
  <2> QED
    BY <2>2, Zenon DEF new

(* A read takes the first bytes of the queue. *)
LEMMA ReadQueue ==
  ASSUME IInv, NEW t \in Threads, t \in Readers, ReadBytes(t),
         NEW bytes, bytes = MIN(Used, n[t])
  PROVE  /\ addr' = [addr EXCEPT ![t] = SubSeq(Queue, 1, bytes)]
         /\ Queue' = SubSeq(Queue, bytes + 1, Len(Queue))
<1> DEFINE chunk1 == Chunk1(bytes, nread)
           r      == nread % PIPESIZE
           got    == [k \in 1..bytes |-> IF k <= chunk1 THEN data[r + k - 1] ELSE data[k - chunk1 - 1]]
<1>1. /\ pc[t] = "read" /\ data' = data /\ nwrite' = nwrite /\ nread' = (nread + bytes) % M
      /\ addr' = [addr EXCEPT ![t] = got]
  BY Zenon DEF ReadBytes, At
<1>2. bytes \in 0..Used /\ chunk1 \in 0..bytes /\ chunk1 = Part(bytes, r)
  BY <1>1, ReadSizes DEF Part
<1>3. Used \in 0..PIPESIZE /\ r \in 0..PIPESIZE - 1 /\ PIPESIZE \in Nat \ {0}
  BY QueueIs, SizeAssumption, Zenon DEF QueueOK
<1>4. /\ Queue \in Seq(Value) /\ Len(Queue) = Used
      /\ \A j \in 1..Used : Queue[j] = data[Slot(r, j - 1)]
  BY QueueIs, Zenon DEF QueueOK
<1>5. nread' \in 0..M - 1 /\ Used' = Used - bytes
  BY <1>1, <1>2, UsedShrinks, Zenon DEF IInv
<1>6. /\ Queue' \in Seq(Value) /\ Len(Queue') = Used - bytes
      /\ \A j \in 1..Used - bytes : Queue'[j] = data[Slot(nread' % PIPESIZE, j - 1)]
  BY <1>1, <1>5, ReadBytesStep, QueueIsNext, Zenon DEF QueueOK, Value
<1>7. nread' % PIPESIZE = Slot(r, bytes)
  <2>1. nread \in 0..M - 1 /\ M \in Nat \ {0} /\ M >= 2 * PIPESIZE
    BY SizeAssumption DEF IInv, TypeOK
  <2> DEFINE x == nread + bytes
  <2>2. /\ x \in Int /\ -M <= x /\ x < 2 * M /\ ~(x < 0)
        /\ nread \in Int /\ bytes \in 0..PIPESIZE
    BY <1>2, <1>3, <2>1
  <2>3. x % PIPESIZE = Slot(r, bytes)
    BY <2>2, Place, Zenon DEF Slot
  <2> HIDE DEF x
  <2>4. nread' = IF x < 0 THEN x + M ELSE IF x < M THEN x ELSE x - M
    BY <1>1, <2>1, <2>2, Wrap, Zenon DEF x
  <2>5. nread' = x \/ nread' = x - M
    BY <2>2, <2>4, Zenon
  <2> QED
    BY <2>2, <2>3, <2>5, WrapKeepsPlace, Zenon
<1> HIDE DEF chunk1, r
<1>8. ASSUME NEW j \in 1..bytes PROVE got[j] = Queue[j]
  <2>1. j \in 1..Used
    BY <1>2, <1>3
  <2>2. CASE j <= chunk1
    <3>1. Slot(r, j - 1) = r + j - 1
      BY <1>2, <1>3, <2>2 DEF Slot, Part
    <3> QED
      BY <1>4, <2>1, <2>2, <3>1, Zenon
  <2>3. CASE ~(j <= chunk1)
    <3>1. Slot(r, j - 1) = j - chunk1 - 1
      BY <1>2, <1>3, <2>3 DEF Slot, Part
    <3> QED
      BY <1>4, <2>1, <2>3, <3>1, Zenon
  <2> QED
    BY <2>2, <2>3, Zenon
<1>9. got \in Seq(Value) /\ Len(got) = bytes
  <2>1. \A j \in 1..bytes : got[j] \in Value
    <3>1. \A j \in 1..bytes : j \in 1..Len(Queue)
      BY <1>2, <1>3, <1>4
    <3> HIDE DEF got
    <3> QED
      BY <1>4, <1>8, <3>1
  <2>2. got \in [1..bytes -> Value] /\ bytes \in Nat
    BY <1>2, <1>3, <2>1
  <2> HIDE DEF got
  <2> QED
    BY <2>2, SegmentIsSeq, Zenon
<1> HIDE DEF got
<1>10. got = SubSeq(Queue, 1, bytes)
  <2>1. /\ 1 \in 1..Len(Queue) + 1 /\ bytes \in 0..Len(Queue) /\ 1 <= bytes + 1
        /\ Len(got) = bytes - 1 + 1
    BY <1>2, <1>3, <1>4, <1>9
  <2>2. \A j \in 1..Len(got) : got[j] = Queue[1 + j - 1]
    BY <1>8, <1>9
  <2> QED
    BY <1>4, <1>9, <2>1, <2>2, PartIs, Zenon
<1>11. Queue' = SubSeq(Queue, bytes + 1, Len(Queue))
  <2>1. /\ bytes + 1 \in 1..Len(Queue) + 1 /\ Len(Queue) \in 0..Len(Queue) /\ bytes + 1 <= Len(Queue) + 1
        /\ Len(Queue') = Len(Queue) - (bytes + 1) + 1
    BY <1>2, <1>3, <1>4, <1>6, SMTT(30)
  <2>2. ASSUME NEW j \in 1..Len(Queue') PROVE Queue'[j] = Queue[(bytes + 1) + j - 1]
    <3>1. j \in 1..Used - bytes /\ bytes + j \in 1..Used /\ (bytes + 1) + j - 1 = bytes + j
      BY <1>2, <1>3, <1>6, SMTT(30)
    <3>2. Slot(Slot(r, bytes), j - 1) = Slot(r, (bytes + j) - 1)
      <4>1. r \in 0..PIPESIZE - 1 /\ bytes \in Nat /\ j \in Nat \ {0}
        BY <1>2, <1>3, <3>1, SMTT(30)
      <4>2. bytes + j <= PIPESIZE
        BY <1>2, <1>3, <3>1, SMTT(30)
      <4> QED
        BY <4>1, <4>2, SlotSlot, Zenon
    <3>3. Queue'[j] = data[Slot(Slot(r, bytes), j - 1)]
      BY <1>6, <1>7, <3>1, Zenon
    <3>4. Queue[bytes + j] = data[Slot(r, (bytes + j) - 1)]
      BY <1>4, <3>1, Zenon
    <3> QED
      BY <3>1, <3>2, <3>3, <3>4, Zenon
  <2> QED
    BY <1>4, <1>6, <2>1, <2>2, PartIs, Zenon
<1> QED
  BY <1>1, <1>10, <1>11, Zenon

(* No call is larger than MaxLen. *)
LEMMA MaxLenIs == MaxLen \in Nat /\ \A l \in Lens : l <= MaxLen
<1>1. MaxLen \in Lens /\ \A l \in Lens : l <= MaxLen
  BY LensAssumption, Zenon DEF MaxLen
<1> QED
  BY <1>1, SizeAssumption, Zenon

(* A step that a user of the channel does not see. *)
LEMMA ChanStutter ==
  ASSUME Queue' = Queue, Sent' = Sent, addr' = addr, Open' = Open
  PROVE  UNCHANGED Chan!vars
  BY Zenon DEF Chan!vars, Queue, Sent, Open

(* A step that delivers bytes of a write. *)
LEMMA ChanPut ==
  ASSUME NEW t \in Writers, NEW k \in 1..PIPESIZE, t \in Open,
         Len(Queue) + k <= PIPESIZE, Sent[t] + k <= MaxLen,
         Queue' = Queue \o [j \in 1..k |-> Byte(t, Sent[t] + j)],
         NEW m \in {Sent[t] + k, 0}, Sent' = [Sent EXCEPT ![t] = m],
         addr' = addr, Open' = Open
  PROVE  Chan!Next
<1>1. Chan!Put(t, k)
  BY Zenon DEF Chan!Put, Queue, Sent, Open
<1> QED
  BY <1>1, Zenon DEF Chan!Next

(* A step in which a write fails, or returns before it has delivered everything. *)
LEMMA ChanFails ==
  ASSUME NEW t \in Writers, Sent' = [Sent EXCEPT ![t] = 0],
         Queue' = Queue, addr' = addr, Open' = Open
  PROVE  Chan!Next
<1>1. Chan!WriteFails(t)
  BY Zenon DEF Chan!WriteFails, Queue, Sent, Open
<1> QED
  BY <1>1, Zenon DEF Chan!Next

(* A step in which a read takes bytes. *)
LEMMA ChanGet ==
  ASSUME NEW t \in Readers, NEW m \in 1..MaxLen, t \in Open,
         NEW k, k = (IF m <= Len(Queue) THEN m ELSE Len(Queue)),
         Queue = << >> => Open \cap Writers = {},
         addr' = [addr EXCEPT ![t] = SubSeq(Queue, 1, k)],
         Queue' = SubSeq(Queue, k + 1, Len(Queue)),
         Sent' = Sent, Open' = Open
  PROVE  Chan!Next
<1>1. Chan!Get(t, m)
  BY Zenon DEF Chan!Get, Queue, Sent, Open
<1> QED
  BY <1>1, Zenon DEF Chan!Next

(* A step that closes the end of a thread. *)
LEMMA ChanClose ==
  ASSUME NEW t \in Threads, Open' = Open \ {t}, Queue' = Queue, Sent' = Sent, addr' = addr
  PROVE  Chan!Next
<1>1. Chan!Close(t)
  BY Zenon DEF Chan!Close, Queue, Sent, Open
<1> QED
  BY <1>1, Zenon DEF Chan!Next, Threads

(* The ends, when a thread goes from one place in its call to another. *)
LEMMA OpenFrame ==
  ASSUME IInv, NEW t \in Threads, pc[t] \notin {"close", "closed"},
         NEW l, l \notin {"close", "closed"}, pc' = [pc EXCEPT ![t] = l]
  PROVE  Open' = Open /\ t \in Open
  BY Zenon DEF IInv, TypeOK, Open

(* A pipe that is new is an empty channel. *)
LEMMA ChanInit == Init => Chan!Init
<1> SUFFICES ASSUME Init PROVE Chan!Init
  BY Zenon
<1>1. Used = 0
  BY InitIInv, UsedIs, SizeAssumption DEF Init, Used, IInv, TypeOK
<1>2. Queue = << >>
  BY <1>1 DEF Queue
<1>3. Sent = [w \in Writers |-> 0] /\ Open = Writers \cup Readers
  BY Zenon DEF Init, Sent, Open, Threads
<1> QED
  BY <1>2, <1>3, Zenon DEF Init, Chan!Init, Queue, Sent, Open

(* What the writes have delivered, when a write returns, and otherwise. *)
LEMMA SentFrame ==
  ASSUME IInv, NEW t \in Threads, NEW m, i' = [i EXCEPT ![t] = m]
  PROVE  /\ t \in Writers => Sent' = [Sent EXCEPT ![t] = m] /\ Sent[t] = i[t]
         /\ t \in Readers => Sent' = Sent
  BY ThreadsAssumption, Zenon DEF IInv, TypeOK, Sent, Threads

(* pipewrite: the bytes of a step go to the channel together. *)
LEMMA WriteImplements ==
  ASSUME IInv, NEW t \in Threads, t \in Writers, WriteFull(t) \/ WriteBytes(t) \/ WriteFault(t)
  PROVE  Chan!Next \/ UNCHANGED Chan!vars
<1>1. CASE WriteFull(t)
  <2>1. Queue' = Queue /\ addr' = addr /\ pc[t] = "write"
    BY <1>1, Zenon DEF WriteFull, pipev, At, Queue, Used
  <2>2. CASE ~readopen \/ killed[t]
    <3>1. pc' = [pc EXCEPT ![t] = "user"] /\ i' = [i EXCEPT ![t] = 0]
      BY <1>1, <2>2, Zenon DEF WriteFull, Return, GoTo
    <3> QED
      BY <2>1, <3>1, OpenFrame, SentFrame, ChanFails, Zenon
  <2>3. CASE ~(~readopen \/ killed[t])
    <3>1. pc' = [pc EXCEPT ![t] = "sleep"] /\ i' = i
      BY <1>1, <2>3, Zenon DEF WriteFull, GoTo
    <3>2. Sent' = Sent
      BY <3>1, Zenon DEF Sent
    <3> QED
      BY <2>1, <3>1, <3>2, OpenFrame, ChanStutter, Zenon
  <2> QED
    BY <2>2, <2>3, Zenon
<1>2. CASE WriteBytes(t)
  <2> DEFINE bytes == MIN(Free, n[t] - i[t])
  <2>1. /\ pc[t] = "write" /\ addr' = addr /\ Used # PIPESIZE
        /\ \E l \in {"user", "sleep"} : pc' = [pc EXCEPT ![t] = l]
        /\ \E m \in {i[t] + bytes, 0} : i' = [i EXCEPT ![t] = m]
    BY <1>2, Zenon DEF WriteBytes, At, Return, GoTo
  <2>2. /\ Used \in 0..PIPESIZE /\ bytes \in 0..PIPESIZE - Used /\ bytes # 0
        /\ i[t] \in Nat /\ n[t] \in Nat /\ n[t] \in Lens /\ i[t] + bytes <= n[t]
    BY <2>1, WriteSizes
  <2>3. Queue' = Queue \o [j \in 1..bytes |-> Byte(t, i[t] + j)]
    BY <1>2, WriteQueue, Zenon
  <2>4. Len(Queue) = Used
    BY QueueIs, Zenon DEF QueueOK
  <2> HIDE DEF bytes
  <2>5. /\ bytes \in 1..PIPESIZE /\ Len(Queue) + bytes <= PIPESIZE
        /\ i[t] + bytes <= MaxLen
    BY <2>2, <2>4, MaxLenIs, SizeAssumption, SMTT(30)
  <2>6. Open' = Open /\ t \in Open
    BY <2>1, OpenFrame, Zenon
  <2>7. PICK m \in {i[t] + bytes, 0} : i' = [i EXCEPT ![t] = m]
    BY <2>1, Zenon
  <2>8. Sent' = [Sent EXCEPT ![t] = m] /\ Sent[t] = i[t]
    BY <1>2, <2>7, SentFrame, Zenon
  <2> QED
    BY <2>1, <2>3, <2>5, <2>6, <2>8, ChanPut, Zenon
<1>3. CASE WriteFault(t)
  <2>1. /\ pc[t] = "write" /\ addr' = addr
        /\ pc' = [pc EXCEPT ![t] = "user"] /\ i' = [i EXCEPT ![t] = 0]
    BY <1>3, Zenon DEF WriteFault, At, Return, GoTo
  <2>2. Queue' = Queue
    BY <1>3, FaultQueue, Zenon
  <2> QED
    BY <2>1, <2>2, OpenFrame, SentFrame, ChanFails, Zenon
<1> QED
  BY <1>1, <1>2, <1>3, Zenon

(* piperead, and its return *)
LEMMA ReadImplements ==
  ASSUME IInv, NEW t \in Threads, t \in Readers,
         ReadEmpty(t) \/ ReadBytes(t) \/ ReadFault(t) \/ ReadReturn(t)
  PROVE  Chan!Next \/ UNCHANGED Chan!vars
<1>1. CASE ReadEmpty(t) \/ ReadFault(t)
  <2>1. /\ Queue' = Queue /\ addr' = addr /\ pc[t] = "read"
        /\ \E l \in {"user", "sleep"} : pc' = [pc EXCEPT ![t] = l]
        /\ i' = i \/ i' = [i EXCEPT ![t] = 0]
    BY <1>1, Zenon DEF ReadEmpty, ReadFault, pipev, At, Return, GoTo, Queue, Used
  <2>2. Sent' = Sent
    <3>1. CASE i' = i
      BY <3>1, Zenon DEF Sent
    <3> QED
      BY <2>1, <3>1, SentFrame, Zenon
  <2> QED
    BY <2>1, <2>2, OpenFrame, ChanStutter, Zenon
<1>2. CASE ReadReturn(t)
  <2>1. /\ Queue' = Queue /\ addr' = [addr EXCEPT ![t] = << >>] /\ pc[t] = "return"
        /\ pc' = [pc EXCEPT ![t] = "user"] /\ i' = [i EXCEPT ![t] = 0]
    BY <1>2, Zenon DEF ReadReturn, pipev, At, Return, GoTo, Queue, Used
  <2>2. Sent' = Sent /\ Open' = Open
    BY <2>1, OpenFrame, SentFrame, Zenon
  <2>3. Chan!Use(t)
    BY <2>1, <2>2, Zenon DEF Chan!Use, Queue, Sent, Open
  <2> QED
    BY <2>3, Zenon DEF Chan!Next
<1>3. CASE ReadBytes(t)
  <2> DEFINE bytes == MIN(Used, n[t])
  <2>1. /\ pc[t] = "read" /\ pc' = [pc EXCEPT ![t] = "return"] /\ i' = i
        /\ nread # nwrite \/ ~writeopen
    BY <1>3, Zenon DEF ReadBytes, At, GoTo
  <2>2. /\ Used \in 0..PIPESIZE /\ n[t] \in Nat /\ n[t] \in Lens /\ 0 < n[t]
        /\ bytes = IF n[t] <= Used THEN n[t] ELSE Used
    BY <2>1, ReadSizes
  <2>3. /\ addr' = [addr EXCEPT ![t] = SubSeq(Queue, 1, bytes)]
        /\ Queue' = SubSeq(Queue, bytes + 1, Len(Queue))
    BY <1>3, ReadQueue, Zenon
  <2>4. Len(Queue) = Used
    BY QueueIs, Zenon DEF QueueOK
  <2> HIDE DEF bytes
  <2>5. n[t] \in 1..MaxLen
    BY <2>2, MaxLenIs
  <2>6. Open' = Open /\ t \in Open
    BY <2>1, OpenFrame, Zenon
  <2>7. Sent' = Sent
    BY <2>1, Zenon DEF Sent
  <2>8. ASSUME Queue = << >> PROVE Open \cap Writers = {}
    <3>1. Used = 0
      BY <2>4, <2>8, Zenon
    <3>2. nread = nwrite
      <4>1. nread \in 0..M - 1 /\ nwrite \in 0..M - 1 /\ M \in Nat
        BY SizeAssumption, Zenon DEF IInv, TypeOK
      <4>2. Used = IF nwrite < nread THEN nwrite - nread + M ELSE nwrite - nread
        BY <4>1, UsedIs, Zenon DEF Used
      <4> QED
        BY <3>1, <4>1, <4>2
    <3>3. \A w \in Writers : pc[w] = "closed"
      BY <2>1, <3>2, Zenon DEF IInv, EndsOK
    <3> QED
      BY <3>3, Zenon DEF Open
  <2> QED
    BY <2>2, <2>3, <2>4, <2>5, <2>6, <2>7, <2>8, ChanGet, Zenon
<1> QED
  BY <1>1, <1>2, <1>3, Zenon

(* Every step of the pipe is one of the channel or none. *)
LEMMA ChanNext == IInv /\ [Next]_vars => [Chan!Next]_Chan!vars
<1> SUFFICES ASSUME IInv, [Next]_vars PROVE Chan!Next \/ UNCHANGED Chan!vars
  BY Zenon DEF Chan!vars
<1>1. ASSUME NEW t \in Threads, FileClose(t)
      PROVE  Chan!Next
  <2>1. Queue' = Queue /\ Sent' = Sent /\ addr' = addr
    BY <1>1, Zenon DEF FileClose, pipev, bufv, Queue, Used, Sent
  <2>2. Open' = Open \ {t}
    BY <1>1, Zenon DEF FileClose, At, GoTo, IInv, TypeOK, Open
  <2> QED
    BY <2>1, <2>2, ChanClose, Zenon
<1>2. ASSUME NEW t \in Threads, Sleep(t) \/ PipeClose(t) \/ Kill(t) \/ \E k \in Lens : Call(t, k)
      PROVE  UNCHANGED Chan!vars
  <2>1. Queue' = Queue /\ Sent' = Sent /\ addr' = addr
    BY <1>2, Zenon DEF Sleep, PipeClose, Kill, Call, pipev, bufv, Queue, Used, Sent
  <2>2. Open' = Open
    BY <1>2, Zenon DEF Sleep, PipeClose, Kill, Call, At, GoTo, IInv, TypeOK, Open
  <2> QED
    BY <2>1, <2>2, ChanStutter, Zenon
<1>3. CASE UNCHANGED vars
  BY <1>3, ChanStutter, Zenon DEF vars, pipev, bufv, Queue, Used, Sent, Open
<1> QED
  BY <1>1, <1>2, <1>3, WriteImplements, ReadImplements, Zenon DEF Next, Step

(* The ring buffer of pipe.c, with counters that wrap around and copies in *)
(* two parts, is a first-in-first-out channel: bytes come out in the order *)
(* in which they went in, none is lost, repeated or made up, a read gets   *)
(* nothing only at end of file, and a part of a write that is not          *)
(* finished is not seen.                                                   *)
THEOREM Refinement == Spec => PipeImplements
  BY Invariance, ChanInit, ChanNext, PTL DEF Spec, PipeImplements, Chan!Spec
=============================================================================
