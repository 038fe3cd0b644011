-------------------------- MODULE SemaphoreProofs ---------------------------
(***************************************************************************)
(* Proofs about the semaphore, for any number of semaphores and of threads *)
(* up to the size of the ring: a wakeup is neither lost nor spent twice,   *)
(* and units are handed out in the order in which threads began to wait.   *)
(* The steps take what they need of counting as a hypothesis, Fits, which  *)
(* is proved at the end, where the library of finite sets comes in.        *)
(***************************************************************************)
EXTENDS Semaphore, TLAPS

Slots == 0..QMAX - 1

RingType ==
  /\ arr \in [Sems -> [Slots -> Threads \cup {0}]]
  /\ start \in [Sems -> Slots] /\ end \in [Sems -> Slots] /\ len \in [Sems -> 0..QMAX]

TypeOK ==
  /\ RingType
  /\ guard \in [Sems -> BOOLEAN] /\ count \in [Sems -> Int]
  /\ state \in [Threads -> {"RUNNABLE", "SLEEPING"}]
  /\ chan \in [Threads -> Sems \cup {0}] /\ lostwakeup \in [Threads -> Sems \cup {0}]
  /\ pc \in [Threads -> {"idle", "release", "wait", "unpark", "park", "parked"}]
  /\ sem \in [Threads -> Sems \cup {0}] /\ pid \in [Threads -> Threads \cup {0}]

(* a thread that holds the guard of its semaphore: there is one at most *)
Inside(t) == pc[t] \in {"release", "wait", "unpark"}

GuardOK ==
  /\ \A t \in Threads : pc[t] # "idle" => sem[t] \in Sems
  /\ \A t \in Threads : Inside(t) => guard[sem[t]]
  /\ \A t, u \in Threads : Inside(t) /\ Inside(u) /\ sem[t] = sem[u] => t = u

(* the place of the i-th in a ring that begins at b *)
Place(b, i) == IF b + i - 1 < QMAX THEN b + i - 1 ELSE b + i - 1 - QMAX

(* the threads in the ring of s wait for s, and each is there once *)
Members(s) ==
  /\ \A i \in 1..len[s] : \E w \in Threads : Waiters(s)[i] = w /\ InCall(w) /\ sem[w] = s
  /\ \A i, j \in 1..len[s] : Waiters(s)[i] = Waiters(s)[j] => i = j

(* a negative count is the number of threads in the ring *)
CountOK(s) == len[s] = IF count[s] < 0 THEN -count[s] ELSE 0

EndOK(s) == end[s] = Place(start[s], len[s] + 1)

RingOK == \A s \in Sems : EndOK(s) /\ CountOK(s) /\ Members(s)

(* a thread that nobody has woken *)
Unwoken(t) == lostwakeup[t] = 0 /\ (pc[t] = "parked" => state[t] = "SLEEPING")

(* the thread x that t is about to wake *)
Handed(t, x) == pid[t] = x /\ InCall(x) /\ sem[x] = sem[t] /\ ~Queued(x) /\ Unwoken(x)

(* who is asleep, and whose wakeup is where *)
WaitOf(t) ==
  /\ Queued(t) => Unwoken(t)
  /\ pc[t] = "wait" => Queued(t)
  /\ lostwakeup[t] # 0 => pc[t] = "park" /\ ~Queued(t) /\ lostwakeup[t] = sem[t]
  /\ state[t] = "SLEEPING" => pc[t] = "parked" /\ chan[t] = sem[t]
  /\ pc[t] = "unpark" => \E x \in Threads : Handed(t, x)

WaitOK == \A t \in Threads : WaitOf(t)

(* NO WAKEUP LOST (sem_up, park, unpark).  A thread that sem_up has taken  *)
(* from the ring has been woken, or has its wakeup remembered, or the      *)
(* thread in sem_up is about to unpark it.                                 *)
NoWakeupLost ==
  \A t \in Threads : InCall(t) /\ ~Queued(t) /\ Unwoken(t) =>
    \E u \in Threads : pc[u] = "unpark" /\ pid[u] = t /\ sem[u] = sem[t]

IInv == TypeOK /\ GuardOK /\ RingOK /\ WaitOK /\ NoWakeupLost

-----------------------------------------------------------------------------
(* The ring. *)

(* An index that has gone round the ring once. *)
LEMMA ModIs ==
  ASSUME NEW q \in Nat \ {0}, NEW a \in 0..q + q - 1
  PROVE  a % q = IF a < q THEN a ELSE a - q
<1>1. CASE a < q
  BY <1>1
<1>2. CASE a >= q
  BY <1>2
<1> QED BY <1>1, <1>2

(* Places follow one another, *)
LEMMA PlaceNext ==
  ASSUME QMAX \in Nat \ {0}, NEW b \in Slots, NEW n \in 0..QMAX - 1
  PROVE  Place(Place(b, n + 1), 2) = Place(b, n + 2)
BY DEF Place, Slots

(* ... the first is the beginning, *)
LEMMA PlaceFirst ==
  ASSUME QMAX \in Nat \ {0}, NEW b \in Slots
  PROVE  Place(b, 1) = b
BY DEF Place, Slots

(* ... they differ, *)
LEMMA PlaceDiffers ==
  ASSUME QMAX \in Nat \ {0}, NEW b \in Slots, NEW n \in 0..QMAX - 1, NEW i \in 1..n
  PROVE  Place(b, i) # Place(b, n + 1) /\ Place(b, i) \in Slots
BY DEF Place, Slots

(* ... and count from the second as from the first. *)
LEMMA PlaceSecond ==
  ASSUME QMAX \in Nat \ {0}, NEW b \in Slots, NEW i \in 1..QMAX
  PROVE  Place(Place(b, 2), i) = Place(b, i + 1)
BY DEF Place, Slots

(* What % computes for the places of a ring. *)
LEMMA PlaceIs ==
  ASSUME Assumptions, NEW b \in Slots, NEW i \in 1..QMAX + 1
  PROVE  (b + i - 1) % QMAX = Place(b, i) /\ Place(b, i) \in Slots
<1>1. QMAX \in Nat \ {0} /\ b \in 0..QMAX - 1
  BY DEF Assumptions, Slots
<1>2. b + i - 1 \in 0..QMAX + QMAX - 1
  BY <1>1
<1>3. PICK a \in 0..QMAX + QMAX - 1 : a = b + i - 1
  BY <1>2, Zenon
<1>4. a % QMAX = IF a < QMAX THEN a ELSE a - QMAX
  BY <1>1, ModIs, Zenon
<1>5. Place(b, i) = (IF a < QMAX THEN a ELSE a - QMAX) /\ Place(b, i) \in Slots
  BY <1>1, <1>2, <1>3 DEF Place, Slots
<1>6. (b + i - 1) % QMAX = a % QMAX
  BY <1>3, Zenon
<1> QED BY <1>4, <1>5, <1>6, Zenon

(* The threads in the ring, without %. *)
WaitersAre ==
  \A s \in Sems : /\ DOMAIN Waiters(s) = 1..len[s]
                  /\ \A i \in 1..len[s] : Waiters(s)[i] = arr[s][Place(start[s], i)]

(* What % computes for the whole ring. *)
LEMMA WaiterIs == Assumptions /\ RingType => WaitersAre
<1> SUFFICES ASSUME Assumptions, RingType, NEW s \in Sems
             PROVE  /\ DOMAIN Waiters(s) = 1..len[s]
                    /\ \A i \in 1..len[s] : Waiters(s)[i] = arr[s][Place(start[s], i)]
  BY Zenon DEF WaitersAre
<1>1. start[s] \in Slots /\ len[s] \in 0..QMAX /\ QMAX \in Nat
  BY DEF RingType, Assumptions
<1>2. ASSUME NEW i \in 1..len[s] PROVE Waiters(s)[i] = arr[s][Place(start[s], i)]
  <2>1. i \in 1..QMAX + 1
    BY <1>1
  <2>2. (start[s] + i - 1) % QMAX = Place(start[s], i)
    BY <1>1, <2>1, PlaceIs
  <2>3. Waiters(s)[i] = arr[s][(start[s] + i - 1) % QMAX]
    BY Zenon DEF Waiters
  <2> QED BY <2>2, <2>3, Zenon
<1> QED BY <1>1, <1>2, Zenon DEF Waiters

(* The next place, as enq and deq compute it. *)
LEMMA NextPlace ==
  ASSUME Assumptions, NEW b \in Slots
  PROVE  (b + 1) % QMAX = Place(b, 2) /\ Place(b, 2) \in Slots
<1>1. 2 \in 1..QMAX + 1 /\ b + 2 - 1 = b + 1
  BY DEF Assumptions, Slots
<1> QED BY <1>1, PlaceIs, Zenon

(* A ring that nobody touches stays as it is. *)
LEMMA RingStays ==
  ASSUME NEW s \in Sems, arr'[s] = arr[s], start'[s] = start[s], len'[s] = len[s]
  PROVE  Waiters(s)' = Waiters(s)
BY Zenon DEF Waiters

(* What enq does, without %. *)
LEMMA EnqIs ==
  ASSUME Assumptions, RingType, NEW s \in Sems, NEW x \in Threads, len[s] < QMAX, enq(s, x)
  PROVE  /\ RingType' /\ start' = start
         /\ end'[s] = Place(end[s], 2) /\ len'[s] = len[s] + 1
         /\ arr'[s] = [arr[s] EXCEPT ![end[s]] = x]
         /\ \A r \in Sems \ {s} : arr'[r] = arr[r] /\ end'[r] = end[r] /\ len'[r] = len[r]
<1>1. PICK e : e = Place(end[s], 2)
  OBVIOUS
<1>2. end[s] \in Slots
  BY DEF RingType
<1>3. e \in Slots /\ e = (end[s] + 1) % QMAX
  BY <1>1, <1>2, NextPlace, Zenon
<1>4. /\ arr' = [arr EXCEPT ![s] = [arr[s] EXCEPT ![end[s]] = x]]
      /\ end' = [end EXCEPT ![s] = e] /\ len' = [len EXCEPT ![s] = len[s] + 1] /\ start' = start
  BY <1>3, Zenon DEF enq
<1>5. e \in Slots
  BY <1>3, Zenon
<1>6. QMAX \in Nat
  BY DEF Assumptions
<1>7. RingType'
  BY <1>2, <1>4, <1>5, <1>6 DEF RingType
<1>8. arr'[s] = [arr[s] EXCEPT ![end[s]] = x] /\ end'[s] = e /\ len'[s] = len[s] + 1
  BY <1>4, Zenon DEF RingType
<1>9. \A r \in Sems \ {s} : arr'[r] = arr[r] /\ end'[r] = end[r] /\ len'[r] = len[r]
  BY <1>4, Zenon DEF RingType
<1> QED BY <1>1, <1>4, <1>7, <1>8, <1>9, Zenon

(* enq puts a thread at the end of the ring. *)
LEMMA Enqueued ==
  ASSUME Assumptions, RingType, NEW s \in Sems, NEW x \in Threads, len[s] < QMAX, EndOK(s), enq(s, x)
  PROVE  /\ RingType' /\ EndOK(s)'
         /\ \A r \in Sems \ {s} : /\ start'[r] = start[r] /\ end'[r] = end[r] /\ len'[r] = len[r]
                                  /\ Waiters(r)' = Waiters(r)
         /\ len'[s] = len[s] + 1
         /\ \A i \in 1..len[s] : Waiters(s)'[i] = Waiters(s)[i]
         /\ Waiters(s)'[len[s] + 1] = x
<1>1. /\ start[s] \in Slots /\ end[s] \in Slots /\ QMAX \in Nat \ {0}
      /\ arr[s] \in [Slots -> Threads \cup {0}] /\ len[s] \in 0..QMAX - 1
  BY DEF RingType, Assumptions
<1>2. /\ RingType' /\ start' = start
      /\ end'[s] = Place(end[s], 2) /\ len'[s] = len[s] + 1
      /\ arr'[s] = [arr[s] EXCEPT ![end[s]] = x]
      /\ \A r \in Sems \ {s} : arr'[r] = arr[r] /\ end'[r] = end[r] /\ len'[r] = len[r]
  BY EnqIs, Zenon
<1>3. /\ len[s] + 1 \in 1..len[s] + 1 /\ (len[s] + 1) + 1 = len[s] + 2
      /\ \A i \in 1..len[s] : i \in 1..len[s] + 1
  BY <1>1
<1>4. end[s] = Place(start[s], len[s] + 1)
  BY Zenon DEF EndOK
<1>5. EndOK(s)'
  <2>1. Place(Place(start[s], len[s] + 1), 2) = Place(start[s], len[s] + 2)
    BY <1>1, PlaceNext, Zenon
  <2>2. end'[s] = Place(start'[s], len'[s] + 1)
    BY <1>2, <1>3, <1>4, <2>1, Zenon
  <2> QED BY <2>2, Zenon DEF EndOK, Place
<1>6. WaitersAre /\ WaitersAre'
  BY <1>2, WaiterIs, PTL
<1>7. ASSUME NEW i \in 1..len[s] PROVE Waiters(s)'[i] = Waiters(s)[i]
  <2>1. i \in 1..len'[s]
    BY <1>2, <1>3, Zenon
  <2>2. Waiters(s)'[i] = arr'[s][Place(start[s], i)]
    BY <1>2, <1>6, <2>1, Zenon DEF WaitersAre, Place
  <2>3. Waiters(s)[i] = arr[s][Place(start[s], i)]
    BY <1>6, Zenon DEF WaitersAre
  <2>4. Place(start[s], i) # Place(start[s], len[s] + 1) /\ Place(start[s], i) \in Slots
    BY <1>1, PlaceDiffers, Zenon
  <2> QED BY <1>1, <1>2, <1>4, <2>2, <2>3, <2>4, Zenon
<1>8. Waiters(s)'[len[s] + 1] = x
  <2>1. Waiters(s)'[len[s] + 1] = arr'[s][Place(start[s], len[s] + 1)]
    BY <1>2, <1>3, <1>6, ZenonT(60) DEF WaitersAre, Place
  <2> QED BY <1>1, <1>2, <1>4, <2>1, ZenonT(60)
<1>9. \A r \in Sems \ {s} : Waiters(r)' = Waiters(r)
  BY <1>2, RingStays, Zenon
<1> QED BY <1>2, <1>5, <1>7, <1>8, <1>9, Zenon

(* What deq does, without %. *)
LEMMA DeqIs ==
  ASSUME Assumptions, RingType, NEW s \in Sems, len[s] > 0, deq(s)
  PROVE  /\ RingType' /\ arr' = arr /\ end' = end
         /\ start'[s] = Place(start[s], 2) /\ len'[s] = len[s] - 1
         /\ \A r \in Sems \ {s} : start'[r] = start[r] /\ len'[r] = len[r]
<1>1. PICK e : e = Place(start[s], 2)
  OBVIOUS
<1>2. start[s] \in Slots
  BY DEF RingType
<1>3. e \in Slots /\ e = (start[s] + 1) % QMAX
  BY <1>1, <1>2, NextPlace, Zenon
<1>4. /\ start' = [start EXCEPT ![s] = e] /\ len' = [len EXCEPT ![s] = len[s] - 1]
      /\ arr' = arr /\ end' = end
  BY <1>3, Zenon DEF deq
<1>5. e \in Slots
  BY <1>3, Zenon
<1>6. QMAX \in Nat
  BY DEF Assumptions
<1>7. RingType'
  BY <1>4, <1>5, <1>6 DEF RingType
<1>8. start'[s] = e /\ len'[s] = len[s] - 1
  BY <1>4, Zenon DEF RingType
<1>9. \A r \in Sems \ {s} : start'[r] = start[r] /\ len'[r] = len[r]
  BY <1>4, Zenon DEF RingType
<1> QED BY <1>1, <1>4, <1>7, <1>8, <1>9, Zenon

(* deq takes the first thread out of the ring. *)
LEMMA Dequeued ==
  ASSUME Assumptions, RingType, NEW s \in Sems, len[s] > 0, EndOK(s), deq(s)
  PROVE  /\ RingType' /\ EndOK(s)'
         /\ \A r \in Sems \ {s} : /\ start'[r] = start[r] /\ end'[r] = end[r] /\ len'[r] = len[r]
                                  /\ Waiters(r)' = Waiters(r)
         /\ len'[s] = len[s] - 1
         /\ \A i \in 1..len[s] - 1 : Waiters(s)'[i] = Waiters(s)[i + 1]
         /\ Waiters(s)[1] = arr[s][start[s]]
<1>1. start[s] \in Slots /\ QMAX \in Nat \ {0} /\ len[s] \in 1..QMAX
  BY DEF RingType, Assumptions
<1>2. /\ RingType' /\ arr' = arr /\ end' = end
      /\ start'[s] = Place(start[s], 2) /\ len'[s] = len[s] - 1
      /\ \A r \in Sems \ {s} : start'[r] = start[r] /\ len'[r] = len[r]
  BY DeqIs, Zenon
<1>3. /\ 1 \in 1..len[s] /\ (len[s] - 1) + 1 = len[s]
      /\ \A i \in 1..len[s] - 1 : i + 1 \in 1..len[s] /\ i \in 1..QMAX
  BY <1>1
<1>4. EndOK(s)'
  <2>1. Place(Place(start[s], 2), len[s]) = Place(start[s], len[s] + 1)
    BY <1>1, PlaceSecond, Zenon
  <2>2. end'[s] = Place(start'[s], len'[s] + 1)
    BY <1>2, <1>3, <2>1, Zenon DEF EndOK
  <2> QED BY <2>2, Zenon DEF EndOK, Place
<1>5. WaitersAre /\ WaitersAre'
  BY <1>2, WaiterIs, PTL
<1>6. ASSUME NEW i \in 1..len[s] - 1 PROVE Waiters(s)'[i] = Waiters(s)[i + 1]
  <2>1. Waiters(s)'[i] = arr[s][Place(start'[s], i)]
    BY <1>2, <1>5, ZenonT(60) DEF WaitersAre, Place
  <2>2. Waiters(s)[i + 1] = arr[s][Place(start[s], i + 1)]
    BY <1>3, <1>5, Zenon DEF WaitersAre
  <2>3. Place(Place(start[s], 2), i) = Place(start[s], i + 1)
    BY <1>1, <1>3, PlaceSecond, Zenon
  <2> QED BY <1>2, <2>1, <2>2, <2>3, Zenon
<1>7. Waiters(s)[1] = arr[s][start[s]]
  <2>1. Place(start[s], 1) = start[s]
    BY <1>1, PlaceFirst, Zenon
  <2> QED BY <1>3, <1>5, <2>1, Zenon DEF WaitersAre
<1>8. \A r \in Sems \ {s} : Waiters(r)' = Waiters(r)
  BY <1>2, RingStays, Zenon
<1> QED BY <1>2, <1>4, <1>6, <1>7, <1>8, Zenon

-----------------------------------------------------------------------------
(* What the steps have in common. *)

(* Every place in the ring of s has a thread that waits for s, *)
LEMMA MemberIs ==
  ASSUME RingOK, NEW s \in Sems, NEW i \in 1..len[s]
  PROVE  \E w \in Threads : Waiters(s)[i] = w /\ InCall(w) /\ sem[w] = s
BY Zenon DEF RingOK, Members

(* ... and another one than the other places. *)
LEMMA MemberOnce ==
  ASSUME RingOK, NEW s \in Sems, NEW i \in 1..len[s], NEW j \in 1..len[s],
         Waiters(s)[i] = Waiters(s)[j]
  PROVE  i = j
BY ZenonT(60) DEF RingOK, Members

(* Whoever is in a ring is waiting. *)
LEMMA QueuedIn ==
  ASSUME RingOK, NEW t \in Threads, Queued(t)
  PROVE  InCall(t) /\ sem[t] \in Sems
<1>1. PICK s \in Sems : \E i \in 1..len[s] : Waiters(s)[i] = t
  BY Zenon DEF Queued
<1>2. PICK i \in 1..len[s] : Waiters(s)[i] = t
  BY <1>1, Zenon
<1>3. PICK w \in Threads : Waiters(s)[i] = w /\ InCall(w) /\ sem[w] = s
  BY MemberIs, Zenon
<1> QED BY <1>2, <1>3, Zenon

(* A ring that stays, with its threads. *)
LEMMA MembersKept ==
  ASSUME NEW s \in Sems, Members(s), Waiters(s)' = Waiters(s), len'[s] = len[s],
         \A i \in 1..len[s] : \E w \in Threads : Waiters(s)[i] = w /\ InCall(w)' /\ sem'[w] = s
  PROVE  Members(s)'
<1>1. ASSUME NEW i \in 1..len'[s]
      PROVE  \E w \in Threads : Waiters(s)'[i] = w /\ InCall(w)' /\ sem'[w] = s
  <2>1. i \in 1..len[s]
    BY Zenon
  <2>2. PICK w \in Threads : Waiters(s)[i] = w /\ InCall(w)' /\ sem'[w] = s
    BY <2>1, Zenon
  <2> QED BY <2>2, Zenon
<1>2. ASSUME NEW i \in 1..len'[s], NEW j \in 1..len'[s], Waiters(s)'[i] = Waiters(s)'[j]
      PROVE  i = j
  <2>1. i \in 1..len[s] /\ j \in 1..len[s] /\ Waiters(s)[i] = Waiters(s)[j]
    BY <1>2, Zenon
  <2> QED BY <2>1, Zenon DEF Members
<1> QED BY <1>1, <1>2, Zenon DEF Members

(* The thread that another is about to wake. *)
LEMMA TargetIs ==
  ASSUME WaitOK, NEW u \in Threads, pc[u] = "unpark"
  PROVE  /\ pid[u] \in Threads /\ InCall(pid[u]) /\ Unwoken(pid[u])
         /\ ~Queued(pid[u]) /\ sem[pid[u]] = sem[u]
<1>1. WaitOf(u)
  BY Zenon DEF WaitOK
<1>2. PICK x \in Threads : Handed(u, x)
  BY <1>1, Zenon DEF WaitOf
<1> QED BY <1>2, Zenon DEF Handed

(* As many different threads as there are places, and one thread more: the *)
(* ring would be too small for them.                                       *)
Fits ==
  \A n \in 0..QMAX : \A t \in Threads : \A q \in [1..n -> Threads \ {t}] :
    (\A i, j \in 1..n : q[i] = q[j] => i = j) => n < QMAX

(* There is room in the ring for a thread that does not wait yet. *)
LEMMA RoomLeft ==
  ASSUME Fits, RingType, RingOK, NEW t \in Threads, ~InCall(t), NEW s \in Sems
  PROVE  len[s] < QMAX
<1>1. len[s] \in 0..QMAX
  BY Zenon DEF RingType
<1>2. ASSUME NEW i \in 1..len[s] PROVE Waiters(s)[i] \in Threads \ {t}
  <2>1. PICK w \in Threads : Waiters(s)[i] = w /\ InCall(w) /\ sem[w] = s
    BY MemberIs, Zenon
  <2>2. w # t
    BY <2>1, Zenon
  <2> QED BY <2>1, <2>2, Zenon
<1>3. Waiters(s) \in [1..len[s] -> Threads \ {t}]
  BY <1>2, Zenon DEF Waiters
<1>4. \A i, j \in 1..len[s] : Waiters(s)[i] = Waiters(s)[j] => i = j
  BY MemberOnce, Zenon
<1> QED BY <1>1, <1>3, <1>4, Zenon DEF Fits

(* A step of t that leaves the rings alone. *)
Outside(t) ==
  /\ queuev' = queuev
  /\ \A u \in Threads \ {t} : pc'[u] = pc[u] /\ sem'[u] = sem[u] /\ pid'[u] = pid[u]

(* The rings after such a step. *)
LEMMA RingKept ==
  ASSUME RingOK, NEW t \in Threads, Outside(t),
         \A s \in Sems : CountOK(s)',
         Queued(t) => InCall(t)' /\ sem'[t] = sem[t]
  PROVE  /\ RingOK' /\ RingType' = RingType
         /\ \A s \in Sems : Waiters(s)' = Waiters(s) /\ len'[s] = len[s]
         /\ \A u \in Threads : Queued(u)' <=> Queued(u)
<1>1. arr' = arr /\ start' = start /\ end' = end /\ len' = len
  BY Zenon DEF Outside, queuev
<1>2. \A s \in Sems : Waiters(s)' = Waiters(s) /\ len'[s] = len[s]
  BY <1>1, Zenon DEF Waiters
<1>3. \A u \in Threads : Queued(u)' <=> Queued(u)
  BY <1>2, Zenon DEF Queued
<1>4. ASSUME NEW s \in Sems PROVE EndOK(s)'
  BY <1>1, Zenon DEF RingOK, EndOK, Place
<1>5. ASSUME NEW s \in Sems, NEW i \in 1..len[s]
      PROVE  \E w \in Threads : Waiters(s)[i] = w /\ InCall(w)' /\ sem'[w] = s
  <2>1. PICK w \in Threads : Waiters(s)[i] = w /\ InCall(w) /\ sem[w] = s
    BY Zenon DEF RingOK, Members
  <2>2. Queued(w)
    BY <2>1, Zenon DEF Queued
  <2>3. InCall(w)' /\ sem'[w] = s
    BY <2>1, <2>2, Zenon DEF Outside, InCall
  <2> QED BY <2>1, <2>3, Zenon
<1>6. ASSUME NEW s \in Sems PROVE Members(s)'
  <2>1. Members(s) /\ Waiters(s)' = Waiters(s) /\ len'[s] = len[s]
    BY <1>2, Zenon DEF RingOK
  <2>2. \A i \in 1..len[s] : \E w \in Threads : Waiters(s)[i] = w /\ InCall(w)' /\ sem'[w] = s
    BY <1>5, Zenon
  <2> QED BY <2>1, <2>2, MembersKept, Zenon
<1>7. RingOK'
  BY <1>4, <1>6, Zenon DEF RingOK
<1>8. RingType' = RingType
  BY <1>1, Zenon DEF RingType
<1> QED BY <1>2, <1>3, <1>7, <1>8, Zenon

(* Counts and rings that stay keep in step. *)
LEMMA CountKept ==
  ASSUME RingOK, count' = count, queuev' = queuev
  PROVE  \A s \in Sems : CountOK(s)'
BY Zenon DEF RingOK, CountOK, queuev

(* A thread that gives the guard back. *)
LEMMA GuardLeft ==
  ASSUME TypeOK, GuardOK, NEW t \in Threads, Outside(t), Inside(t), ~Inside(t)', Leave(t),
         pc'[t] # "idle" => sem'[t] \in Sems
  PROVE  GuardOK'
<1>1. \A u \in Threads \ {t} : (Inside(u)' <=> Inside(u)) /\ sem'[u] = sem[u] /\ pc'[u] = pc[u]
  BY Zenon DEF Outside, Inside
<1>2. \A u \in Threads : pc'[u] # "idle" => sem'[u] \in Sems
  BY <1>1, Zenon DEF GuardOK
<1>3. ASSUME NEW u \in Threads, Inside(u)' PROVE guard'[sem'[u]]
  <2>1. u # t /\ Inside(u)
    BY <1>1, <1>3, Zenon
  <2>2. sem'[u] = sem[u] /\ sem[u] # sem[t] /\ sem[u] \in Sems /\ guard[sem[u]]
    BY <1>1, <2>1, Zenon DEF GuardOK, Inside
  <2> QED BY <2>2, Zenon DEF Leave, TypeOK
<1>4. ASSUME NEW u \in Threads, NEW v \in Threads, Inside(u)', Inside(v)', sem'[u] = sem'[v]
      PROVE  u = v
  BY <1>1, <1>4, ZenonT(60) DEF GuardOK
<1> QED BY <1>2, <1>3, <1>4, Zenon DEF GuardOK

(* A step that does not touch the guard. *)
LEMMA GuardKept ==
  ASSUME GuardOK, NEW t \in Threads, Outside(t), guard' = guard,
         Inside(t)' => Inside(t) /\ sem'[t] = sem[t],
         pc'[t] # "idle" => sem'[t] \in Sems
  PROVE  GuardOK'
<1>1. \A u \in Threads \ {t} : (Inside(u)' <=> Inside(u)) /\ sem'[u] = sem[u] /\ pc'[u] = pc[u]
  BY Zenon DEF Outside, Inside
<1>2. \A u \in Threads : pc'[u] # "idle" => sem'[u] \in Sems
  BY <1>1, Zenon DEF GuardOK
<1>3. \A u \in Threads : Inside(u)' => Inside(u) /\ sem'[u] = sem[u]
  BY <1>1, Zenon
<1>4. ASSUME NEW u \in Threads, Inside(u)' PROVE guard'[sem'[u]]
  BY <1>3, <1>4, Zenon DEF GuardOK
<1>5. ASSUME NEW u \in Threads, NEW v \in Threads, Inside(u)', Inside(v)', sem'[u] = sem'[v]
      PROVE  u = v
  BY <1>3, <1>5, Zenon DEF GuardOK
<1> QED BY <1>2, <1>4, <1>5, Zenon DEF GuardOK

(* A thread that takes the guard of s. *)
LEMMA GuardTaken ==
  ASSUME TypeOK, GuardOK, NEW t \in Threads, NEW s \in Sems, Enter(t, s), Inside(t)',
         \A u \in Threads \ {t} : pc'[u] = pc[u]
  PROVE  /\ GuardOK' /\ sem'[t] = s /\ pc[t] = "idle" /\ state[t] = "RUNNABLE"
         /\ \A u \in Threads \ {t} : sem'[u] = sem[u]
         /\ \A u \in Threads : Inside(u) => sem[u] # s
<1>1. /\ sem'[t] = s /\ pc[t] = "idle" /\ state[t] = "RUNNABLE" /\ ~guard[s]
      /\ \A u \in Threads \ {t} : sem'[u] = sem[u]
      /\ guard'[s] /\ \A r \in Sems : guard[r] => guard'[r]
  BY Zenon DEF Enter, At, TypeOK
<1>2. \A u \in Threads : Inside(u) => sem[u] # s /\ sem[u] \in Sems /\ guard[sem[u]]
  BY <1>1, Zenon DEF GuardOK, Inside
<1>3. \A u \in Threads \ {t} : Inside(u)' <=> Inside(u)
  BY Zenon DEF Inside
<1>4. \A u \in Threads : pc'[u] # "idle" => sem'[u] \in Sems
  BY <1>1, Zenon DEF GuardOK
<1>5. ASSUME NEW u \in Threads, Inside(u)' PROVE guard'[sem'[u]]
  BY <1>1, <1>2, <1>3, <1>5, Zenon
<1>6. ASSUME NEW u \in Threads, NEW v \in Threads, Inside(u)', Inside(v)', sem'[u] = sem'[v]
      PROVE  u = v
  <2>1. ASSUME NEW w \in Threads \ {t}, Inside(w)' PROVE sem'[w] # s
    BY <1>1, <1>2, <1>3, <2>1, ZenonT(60)
  <2>2. CASE u = t \/ v = t
    BY <1>1, <1>6, <2>1, <2>2, Zenon
  <2>3. CASE u # t /\ v # t
    <3>1. Inside(u) /\ Inside(v) /\ sem[u] = sem[v]
      BY <1>1, <1>3, <1>6, <2>3, Zenon
    <3> QED BY <3>1, Zenon DEF GuardOK
  <2> QED BY <2>2, <2>3, Zenon
<1> QED BY <1>1, <1>2, <1>4, <1>5, <1>6, Zenon DEF GuardOK

-----------------------------------------------------------------------------
(* The steps. *)

(* The state that sem_init makes. *)
LEMMA InitIInv ==
  ASSUME Assumptions, Init
  PROVE  IInv
<1>1. QMAX \in Nat \ {0} /\ InitCount \in Nat /\ 0 \in Slots /\ 0 \in 0..QMAX
  BY DEF Assumptions, Slots
<1>2. /\ \A s \in Sems : start[s] = 0 /\ end[s] = 0 /\ len[s] = 0 /\ count[s] = InitCount
      /\ \A t \in Threads : /\ pc[t] = "idle" /\ state[t] = "RUNNABLE" /\ lostwakeup[t] = 0
  BY Zenon DEF Init
<1>3. TypeOK
  <2>1. RingType
    BY <1>1, Zenon DEF Init, RingType, Slots
  <2>2. count \in [Sems -> Int]
    BY <1>1 DEF Init
  <2> QED BY <2>1, <2>2, Zenon DEF Init, TypeOK
<1>4. GuardOK
  BY <1>2, Zenon DEF GuardOK, Inside
<1>5. \A s \in Sems : 1..len[s] = {} /\ EndOK(s) /\ CountOK(s)
  BY <1>1, <1>2 DEF EndOK, CountOK, Place
<1>6. RingOK
  BY <1>5, Zenon DEF RingOK, Members
<1>7. \A t \in Threads : ~Queued(t)
  BY <1>5, Zenon DEF Queued
<1>8. WaitOK
  BY <1>2, <1>7, Zenon DEF WaitOK, WaitOf
<1>9. NoWakeupLost
  BY <1>2, Zenon DEF NoWakeupLost, InCall
<1> QED BY <1>3, <1>4, <1>6, <1>8, <1>9, Zenon DEF IInv

(* A thread that is not waiting after a step, when no wakeup for it is on its way. *)
LEMMA Returned ==
  ASSUME WaitOK, NoWakeupLost, NEW t \in Threads, Outside(t),
         ~Queued(t), \A u \in Threads : Queued(u)' <=> Queued(u),
         pc'[t] \in {"idle", "release"}, state'[t] = "RUNNABLE", lostwakeup'[t] = 0, pc[t] # "unpark",
         \A u \in Threads : pc[u] = "unpark" => pid[u] # t,
         \A u \in Threads \ {t} : state'[u] = state[u] /\ chan'[u] = chan[u] /\ lostwakeup'[u] = lostwakeup[u]
  PROVE  WaitOK' /\ NoWakeupLost'
<1>1. \A u \in Threads \ {t} : /\ pc'[u] = pc[u] /\ sem'[u] = sem[u] /\ pid'[u] = pid[u]
                               /\ (Unwoken(u)' <=> Unwoken(u)) /\ (InCall(u)' <=> InCall(u))
  BY Zenon DEF Outside, Unwoken, InCall
<1>2. WaitOf(t)'
  BY Zenon DEF WaitOf
<1>3. ASSUME NEW u \in Threads \ {t} PROVE WaitOf(u)'
  <2>1. WaitOf(u)
    BY Zenon DEF WaitOK
  <2>2. ASSUME pc[u] = "unpark" PROVE \E x \in Threads : Handed(u, x)'
    <3>1. PICK x \in Threads : Handed(u, x)
      BY <2>1, <2>2, Zenon DEF WaitOf
    <3>2. x # t
      BY <2>2, <3>1, Zenon DEF Handed
    <3> QED BY <1>1, <3>1, <3>2, Zenon DEF Handed
  <2> QED BY <1>1, <2>1, <2>2, Zenon DEF WaitOf
<1>4. ASSUME NEW u \in Threads, InCall(u)', ~Queued(u)', Unwoken(u)'
      PROVE  \E v \in Threads : pc'[v] = "unpark" /\ pid'[v] = u /\ sem'[v] = sem'[u]
  <2>1. u # t
    BY <1>4, Zenon DEF InCall
  <2>2. PICK v \in Threads : pc[v] = "unpark" /\ pid[v] = u /\ sem[v] = sem[u]
    BY <1>1, <1>4, <2>1, Zenon DEF NoWakeupLost
  <2> QED BY <1>1, <2>1, <2>2, Zenon
<1> QED BY <1>2, <1>3, <1>4, ZenonT(60) DEF WaitOK, NoWakeupLost

(* The end of sem_up, and of a sem_down that did not block. *)
LEMMA ReleaseStep ==
  ASSUME Assumptions, IInv, NEW t \in Threads, Release(t)
  PROVE  IInv'
<1>1. /\ pc[t] = "release" /\ state[t] = "RUNNABLE" /\ Leave(t)
      /\ pc' = [pc EXCEPT ![t] = "idle"] /\ sem' = [sem EXCEPT ![t] = 0]
      /\ pid' = [pid EXCEPT ![t] = 0]
      /\ count' = count /\ queuev' = queuev
      /\ state' = state /\ chan' = chan /\ lostwakeup' = lostwakeup
  BY Zenon DEF Release, At, Return, GoTo, kernelv
<1>2. TypeOK /\ GuardOK /\ RingOK /\ WaitOK /\ NoWakeupLost
  BY Zenon DEF IInv
<1>3. Outside(t) /\ pc'[t] \in {"idle", "release"} /\ pc'[t] = "idle"
  BY <1>1, <1>2, Zenon DEF Outside, TypeOK
<1>4. ~Queued(t)
  BY <1>1, <1>2, QueuedIn, Zenon DEF InCall
<1>5. /\ RingOK' /\ RingType' = RingType
      /\ \A u \in Threads : Queued(u)' <=> Queued(u)
  BY <1>1, <1>2, <1>3, <1>4, CountKept, RingKept, Zenon
<1>6. TypeOK'
  BY <1>1, <1>2, <1>5, Zenon DEF TypeOK, Leave
<1>7. GuardOK'
  BY <1>1, <1>2, <1>3, GuardLeft, Zenon DEF Inside
<1>8. WaitOf(t) /\ \A u \in Threads : pc[u] = "unpark" => pid[u] # t
  <2>1. WaitOf(t)
    BY <1>2, Zenon DEF WaitOK
  <2>2. ~InCall(t)
    BY <1>1, Zenon DEF InCall
  <2> QED BY <1>2, <2>1, <2>2, TargetIs, Zenon
<1>9. lostwakeup'[t] = 0
  BY <1>1, <1>8, Zenon DEF WaitOf
<1>10. WaitOK' /\ NoWakeupLost'
  BY <1>1, <1>2, <1>3, <1>4, <1>5, <1>8, <1>9, Returned, Zenon
<1> QED BY <1>5, <1>6, <1>7, <1>10, Zenon DEF IInv

(* The return of a park that has slept. *)
LEMMA ParkReturnStep ==
  ASSUME Assumptions, IInv, NEW t \in Threads, ParkReturn(t)
  PROVE  IInv'
<1>1. /\ pc[t] = "parked" /\ state[t] = "RUNNABLE"
      /\ pc' = [pc EXCEPT ![t] = "idle"] /\ sem' = [sem EXCEPT ![t] = 0]
      /\ pid' = [pid EXCEPT ![t] = 0] /\ chan' = [chan EXCEPT ![t] = 0]
      /\ count' = count /\ queuev' = queuev /\ guard' = guard
      /\ state' = state /\ lostwakeup' = lostwakeup
  BY Zenon DEF ParkReturn, At, Return, GoTo
<1>2. TypeOK /\ GuardOK /\ RingOK /\ WaitOK /\ NoWakeupLost
  BY Zenon DEF IInv
<1>3. Outside(t) /\ pc'[t] \in {"idle", "release"} /\ pc'[t] = "idle" /\ \A u \in Threads \ {t} : chan'[u] = chan[u]
  BY <1>1, <1>2, Zenon DEF Outside, TypeOK
<1>4. ~Unwoken(t) /\ WaitOf(t)
  BY <1>1, <1>2, Zenon DEF Unwoken, WaitOK
<1>5. ~Queued(t) /\ lostwakeup'[t] = 0
  BY <1>1, <1>4, Zenon DEF WaitOf
<1>6. /\ RingOK' /\ RingType' = RingType
      /\ \A u \in Threads : Queued(u)' <=> Queued(u)
  BY <1>1, <1>2, <1>3, <1>5, CountKept, RingKept, Zenon
<1>7. TypeOK'
  BY <1>1, <1>2, <1>6, Zenon DEF TypeOK
<1>8. GuardOK'
  BY <1>1, <1>2, <1>3, GuardKept, Zenon DEF Inside
<1>9. \A u \in Threads : pc[u] = "unpark" => pid[u] # t
  BY <1>2, <1>4, TargetIs, Zenon
<1>10. WaitOK' /\ NoWakeupLost'
  BY <1>1, <1>2, <1>3, <1>5, <1>6, <1>9, Returned, Zenon
<1> QED BY <1>6, <1>7, <1>8, <1>10, Zenon DEF IInv

(* sem_down lets go of the guard before it calls park. *)
LEMMA WaitReleaseStep ==
  ASSUME Assumptions, IInv, NEW t \in Threads, WaitRelease(t)
  PROVE  IInv'
<1>1. /\ pc[t] = "wait" /\ state[t] = "RUNNABLE" /\ Leave(t)
      /\ pc' = [pc EXCEPT ![t] = "park"] /\ sem' = sem /\ pid' = pid
      /\ count' = count /\ queuev' = queuev
      /\ state' = state /\ chan' = chan /\ lostwakeup' = lostwakeup
  BY Zenon DEF WaitRelease, At, GoTo, kernelv
<1>2. TypeOK /\ GuardOK /\ RingOK /\ WaitOK /\ NoWakeupLost
  BY Zenon DEF IInv
<1>3. Outside(t) /\ pc'[t] = "park" /\ sem[t] \in Sems
  BY <1>1, <1>2, Zenon DEF Outside, TypeOK, GuardOK
<1>4. Queued(t) /\ Unwoken(t) /\ lostwakeup[t] = 0
  BY <1>1, <1>2, Zenon DEF WaitOK, WaitOf, Unwoken
<1>5. /\ RingOK' /\ RingType' = RingType
      /\ \A u \in Threads : Queued(u)' <=> Queued(u)
  BY <1>1, <1>2, <1>3, CountKept, RingKept, Zenon DEF InCall
<1>6. TypeOK'
  BY <1>1, <1>2, <1>5, Zenon DEF TypeOK, Leave
<1>7. GuardOK'
  BY <1>1, <1>2, <1>3, GuardLeft, Zenon DEF Inside
<1>8. \A u \in Threads : (Unwoken(u)' <=> Unwoken(u)) /\ (InCall(u)' <=> InCall(u))
  <2>1. \A u \in Threads \ {t} : pc'[u] = pc[u]
    BY <1>3, Zenon DEF Outside
  <2>2. Unwoken(t)' /\ InCall(t)' /\ InCall(t)
    BY <1>1, <1>3, <1>4, Zenon DEF Unwoken, InCall
  <2> QED BY <1>1, <1>4, <2>1, <2>2, Zenon DEF Unwoken, InCall
<1>9. \A u \in Threads, x \in Threads : Handed(u, x)' <=> Handed(u, x)
  BY <1>1, <1>5, <1>8, Zenon DEF Handed
<1>10. ASSUME NEW u \in Threads PROVE WaitOf(u)'
  <2>1. CASE u = t
    BY <1>1, <1>3, <1>4, <1>5, <1>8, <2>1, Zenon DEF WaitOf
  <2>2. CASE u # t
    <3>1. pc'[u] = pc[u] /\ WaitOf(u)
      BY <1>2, <1>3, <2>2, Zenon DEF Outside, WaitOK
    <3> QED BY <1>1, <1>5, <1>8, <1>9, <3>1, Zenon DEF WaitOf
  <2> QED BY <2>1, <2>2, Zenon
<1>11. ASSUME NEW u \in Threads, InCall(u)', ~Queued(u)', Unwoken(u)'
       PROVE  \E v \in Threads : pc'[v] = "unpark" /\ pid'[v] = u /\ sem'[v] = sem'[u]
  <2>1. PICK v \in Threads : pc[v] = "unpark" /\ pid[v] = u /\ sem[v] = sem[u]
    BY <1>2, <1>5, <1>8, <1>11, Zenon DEF NoWakeupLost
  <2>2. pc'[v] = pc[v]
    BY <1>1, <1>3, <2>1, Zenon DEF Outside
  <2> QED BY <1>1, <2>1, <2>2, Zenon
<1> QED BY <1>5, <1>6, <1>7, <1>10, <1>11, Zenon DEF IInv, WaitOK, NoWakeupLost

(* unpark wakes the thread or remembers the wakeup. *)
LEMMA UnparkStep ==
  ASSUME Assumptions, IInv, NEW t \in Threads, Unpark(t)
  PROVE  IInv'
<1>1. /\ pc[t] = "unpark" /\ state[t] = "RUNNABLE"
      /\ pc' = [pc EXCEPT ![t] = "release"] /\ sem' = sem /\ pid' = pid
      /\ count' = count /\ queuev' = queuev /\ guard' = guard
  BY Zenon DEF Unpark, At, GoTo
<1>2. TypeOK /\ GuardOK /\ RingOK /\ WaitOK /\ NoWakeupLost
  BY Zenon DEF IInv
<1>3. Outside(t) /\ pc'[t] = "release" /\ sem[t] \in Sems /\ sem[t] # 0
  <2>1. Outside(t) /\ pc'[t] = "release"
    BY <1>1, <1>2, Zenon DEF Outside, TypeOK
  <2>2. sem[t] \in Sems
    BY <1>1, <1>2, Zenon DEF GuardOK
  <2> QED BY <2>1, <2>2, Zenon DEF Assumptions
<1>4. PICK x \in Threads : Handed(t, x)
  BY <1>1, <1>2, Zenon DEF WaitOK, WaitOf
<1>5. /\ pid[t] = x /\ x # t /\ sem[x] = sem[t] /\ ~Queued(x) /\ Unwoken(x) /\ lostwakeup[x] = 0
      /\ pc[x] \in {"park", "parked"} /\ WaitOf(x) /\ ~Queued(t)
  <2>1. pid[t] = x /\ sem[x] = sem[t] /\ ~Queued(x) /\ Unwoken(x) /\ InCall(x)
    BY <1>4, Zenon DEF Handed
  <2>2. x # t /\ lostwakeup[x] = 0 /\ ~InCall(t)
    BY <1>1, <2>1, Zenon DEF Unwoken, InCall
  <2>3. WaitOf(x) /\ ~Queued(t)
    BY <1>2, <2>2, QueuedIn, Zenon DEF WaitOK
  <2>4. pc[x] # "wait"
    BY <2>1, <2>3, Zenon DEF WaitOf
  <2> QED BY <2>1, <2>2, <2>3, <2>4, Zenon DEF InCall
<1>6. /\ RingOK' /\ RingType' = RingType
      /\ \A u \in Threads : Queued(u)' <=> Queued(u)
  BY <1>1, <1>2, <1>3, <1>5, CountKept, RingKept, Zenon
<1>7. \/ /\ state[x] = "SLEEPING" /\ pc[x] = "parked"
         /\ state' = [state EXCEPT ![x] = "RUNNABLE"] /\ chan' = [chan EXCEPT ![x] = 0]
         /\ lostwakeup' = lostwakeup
      \/ /\ state[x] = "RUNNABLE" /\ pc[x] = "park"
         /\ lostwakeup' = [lostwakeup EXCEPT ![x] = sem[t]] /\ state' = state /\ chan' = chan
  <2>1. state[x] \in {"RUNNABLE", "SLEEPING"}
    BY <1>2, Zenon DEF TypeOK
  <2>2. CASE state[x] = "SLEEPING"
    <3>1. chan[x] = sem[t] /\ pc[x] = "parked"
      BY <1>5, <2>2, Zenon DEF WaitOf
    <3> QED BY <1>5, <2>2, <3>1, Zenon DEF Unpark
  <2>3. CASE state[x] = "RUNNABLE"
    <3>1. pc[x] = "park" /\ state[x] # "SLEEPING"
      BY <1>5, <2>3, Zenon DEF Unwoken
    <3> QED BY <1>5, <2>3, <3>1, Zenon DEF Unpark
  <2> QED BY <2>1, <2>2, <2>3, Zenon
<1>8. /\ \A u \in Threads \ {x} : state'[u] = state[u] /\ chan'[u] = chan[u] /\ lostwakeup'[u] = lostwakeup[u]
      /\ state'[x] = "RUNNABLE"
      /\ (lostwakeup'[x] = 0 /\ pc[x] = "parked") \/ (lostwakeup'[x] = sem[t] /\ pc[x] = "park")
  BY <1>2, <1>5, <1>7, ZenonT(60) DEF TypeOK
<1>9. TypeOK'
  <2>1. state' \in [Threads -> {"RUNNABLE", "SLEEPING"}]
    BY <1>2, <1>7, Zenon DEF TypeOK
  <2>2. chan' \in [Threads -> Sems \cup {0}] /\ lostwakeup' \in [Threads -> Sems \cup {0}]
    BY <1>2, <1>3, <1>7, Zenon DEF TypeOK
  <2> QED BY <1>1, <1>2, <1>6, <2>1, <2>2, Zenon DEF TypeOK
<1>10. GuardOK'
  BY <1>1, <1>2, <1>3, GuardKept, Zenon DEF Inside
<1>11. /\ \A u \in Threads \ {t} : pc'[u] = pc[u]
       /\ \A u \in Threads : InCall(u)' <=> InCall(u)
       /\ \A u \in Threads \ {x} : Unwoken(u)' => Unwoken(u) \/ u = t
       /\ \A u \in Threads \ {t, x} : Unwoken(u)' <=> Unwoken(u)
       /\ ~Unwoken(x)'
  <2>1. \A u \in Threads \ {t} : pc'[u] = pc[u]
    BY <1>3, Zenon DEF Outside
  <2>2. \A u \in Threads : InCall(u)' <=> InCall(u)
    BY <1>1, <1>3, <2>1, Zenon DEF InCall
  <2>3. \A u \in Threads \ {t, x} : Unwoken(u)' <=> Unwoken(u)
    BY <1>8, <2>1, Zenon DEF Unwoken
  <2>4. ~Unwoken(x)'
    BY <1>3, <1>5, <1>8, <2>1, Zenon DEF Unwoken
  <2> QED BY <2>1, <2>2, <2>3, <2>4, Zenon
<1>12. ASSUME NEW u \in Threads, u # t, pc[u] = "unpark" PROVE \E y \in Threads : Handed(u, y)'
  <2>1. PICK y \in Threads : Handed(u, y)
    BY <1>2, <1>12, Zenon DEF WaitOK, WaitOf
  <2>2. y # x
    <3>1. sem[u] # sem[t]
      BY <1>1, <1>2, <1>12, Zenon DEF GuardOK, Inside
    <3> QED BY <1>5, <2>1, <3>1, Zenon DEF Handed
  <2>3. y # t
    BY <1>1, <2>1, Zenon DEF Handed, InCall
  <2> QED BY <1>1, <1>6, <1>11, <2>1, <2>2, <2>3, Zenon DEF Handed
<1>13. ASSUME NEW u \in Threads PROVE WaitOf(u)'
  <2>0. WaitOf(u)
    BY <1>2, Zenon DEF WaitOK
  <2>1. CASE u = t
    <3>1. state'[t] = state[t] /\ lostwakeup'[t] = lostwakeup[t]
      BY <1>5, <1>8, Zenon
    <3>2. lostwakeup[t] = 0
      BY <1>1, <2>0, <2>1, Zenon DEF WaitOf
    <3> QED BY <1>1, <1>3, <1>5, <1>6, <2>1, <3>1, <3>2, Zenon DEF WaitOf
  <2>2. CASE u = x
    <3>1. pc'[x] = pc[x] /\ ~Queued(x)' /\ pc[x] \in {"park", "parked"}
      BY <1>5, <1>6, <1>11, Zenon
    <3> QED BY <1>1, <1>5, <1>8, <2>2, <3>1, Zenon DEF WaitOf
  <2>3. CASE u # t /\ u # x
    <3>1. /\ pc'[u] = pc[u] /\ state'[u] = state[u] /\ chan'[u] = chan[u] /\ lostwakeup'[u] = lostwakeup[u]
          /\ (Unwoken(u)' <=> Unwoken(u)) /\ sem'[u] = sem[u] /\ (Queued(u)' <=> Queued(u))
      BY <1>1, <1>6, <1>8, <1>11, <2>3, Zenon
    <3> QED BY <1>12, <2>0, <2>3, <3>1, Zenon DEF WaitOf
  <2> QED BY <2>1, <2>2, <2>3, Zenon
<1>14. ASSUME NEW u \in Threads, InCall(u)', ~Queued(u)', Unwoken(u)'
       PROVE  \E v \in Threads : pc'[v] = "unpark" /\ pid'[v] = u /\ sem'[v] = sem'[u]
  <2>1. u # x /\ u # t
    BY <1>1, <1>11, <1>14, Zenon DEF InCall
  <2>2. PICK v \in Threads : pc[v] = "unpark" /\ pid[v] = u /\ sem[v] = sem[u]
    BY <1>2, <1>6, <1>11, <1>14, <2>1, Zenon DEF NoWakeupLost
  <2>3. v # t
    BY <1>5, <2>1, <2>2, Zenon
  <2> QED BY <1>1, <1>11, <2>2, <2>3, Zenon
<1> QED BY <1>6, <1>9, <1>10, <1>13, <1>14, Zenon DEF IInv, WaitOK, NoWakeupLost

(* park uses a remembered wakeup up, or sleeps. *)
LEMMA ParkStep ==
  ASSUME Assumptions, IInv, NEW t \in Threads, Park(t)
  PROVE  IInv'
<1>1. /\ pc[t] = "park" /\ state[t] = "RUNNABLE"
      /\ lostwakeup' = [lostwakeup EXCEPT ![t] = 0]
      /\ count' = count /\ queuev' = queuev /\ guard' = guard
  BY Zenon DEF Park, At
<1>2. TypeOK /\ GuardOK /\ RingOK /\ WaitOK /\ NoWakeupLost
  BY Zenon DEF IInv
<1>3. sem[t] \in Sems /\ sem[t] # 0 /\ WaitOf(t)
  BY <1>1, <1>2, Zenon DEF GuardOK, WaitOK, Assumptions
<1>4. lostwakeup'[t] = 0 /\ \A u \in Threads \ {t} : lostwakeup'[u] = lostwakeup[u]
  BY <1>1, <1>2, Zenon DEF TypeOK
<1>5. CASE lostwakeup[t] = sem[t]
  <2>1. /\ pc' = [pc EXCEPT ![t] = "idle"] /\ sem' = [sem EXCEPT ![t] = 0]
        /\ pid' = [pid EXCEPT ![t] = 0] /\ state' = state /\ chan' = chan
    BY <1>5, Zenon DEF Park, Return, GoTo
  <2>2. Outside(t) /\ pc'[t] \in {"idle", "release"} /\ pc'[t] = "idle"
    BY <1>1, <1>2, <2>1, Zenon DEF Outside, TypeOK
  <2>3. ~Queued(t) /\ ~Unwoken(t)
    BY <1>3, <1>5, Zenon DEF WaitOf, Unwoken
  <2>4. /\ RingOK' /\ RingType' = RingType
        /\ \A u \in Threads : Queued(u)' <=> Queued(u)
    BY <1>1, <1>2, <2>2, <2>3, CountKept, RingKept, Zenon
  <2>5. TypeOK'
    BY <1>1, <1>2, <2>1, <2>4, Zenon DEF TypeOK
  <2>6. GuardOK'
    BY <1>1, <1>2, <2>2, GuardKept, Zenon DEF Inside
  <2>7. \A u \in Threads : pc[u] = "unpark" => pid[u] # t
    BY <1>2, <2>3, TargetIs, Zenon
  <2>8. WaitOK' /\ NoWakeupLost'
    BY <1>1, <1>2, <1>4, <2>1, <2>2, <2>3, <2>4, <2>7, Returned, Zenon
  <2> QED BY <2>4, <2>5, <2>6, <2>8, Zenon DEF IInv
<1>6. CASE lostwakeup[t] # sem[t]
  <2>1. /\ pc' = [pc EXCEPT ![t] = "parked"] /\ sem' = sem /\ pid' = pid
        /\ state' = [state EXCEPT ![t] = "SLEEPING"] /\ chan' = [chan EXCEPT ![t] = sem[t]]
    BY <1>6, Zenon DEF Park, GoTo
  <2>2. /\ Outside(t) /\ pc'[t] = "parked" /\ state'[t] = "SLEEPING" /\ chan'[t] = sem[t]
        /\ \A u \in Threads \ {t} : pc'[u] = pc[u] /\ state'[u] = state[u] /\ chan'[u] = chan[u]
    BY <1>1, <1>2, <2>1, Zenon DEF Outside, TypeOK
  <2>3. lostwakeup[t] = 0 /\ lostwakeup' = lostwakeup
    <3>1. lostwakeup[t] = 0
      BY <1>3, <1>6, Zenon DEF WaitOf
    <3> QED BY <1>1, <1>2, <3>1, Zenon DEF TypeOK
  <2>4. /\ RingOK' /\ RingType' = RingType
        /\ \A u \in Threads : Queued(u)' <=> Queued(u)
    BY <1>1, <1>2, <2>1, <2>2, CountKept, RingKept, Zenon DEF InCall
  <2>5. TypeOK'
    BY <1>1, <1>2, <1>3, <2>1, <2>3, <2>4, Zenon DEF TypeOK
  <2>6. GuardOK'
    BY <1>1, <1>2, <1>3, <2>1, <2>2, GuardKept, Zenon DEF Inside
  <2>7. \A u \in Threads : (Unwoken(u)' <=> Unwoken(u)) /\ (InCall(u)' <=> InCall(u))
    <3>1. Unwoken(t) /\ Unwoken(t)' /\ InCall(t) /\ InCall(t)'
      BY <1>1, <2>2, <2>3, Zenon DEF Unwoken, InCall
    <3> QED BY <2>2, <2>3, <3>1, Zenon DEF Unwoken, InCall
  <2>8. \A u \in Threads, x \in Threads : Handed(u, x)' <=> Handed(u, x)
    BY <2>1, <2>4, <2>7, Zenon DEF Handed
  <2>9. ASSUME NEW u \in Threads PROVE WaitOf(u)'
    <3>1. CASE u = t
      BY <1>3, <2>1, <2>2, <2>3, <2>4, <2>7, <3>1, Zenon DEF WaitOf, Unwoken
    <3>2. CASE u # t
      <4>1. pc'[u] = pc[u] /\ state'[u] = state[u] /\ chan'[u] = chan[u] /\ WaitOf(u)
        BY <1>2, <2>2, <3>2, Zenon DEF WaitOK
      <4> QED BY <2>1, <2>3, <2>4, <2>7, <2>8, <4>1, Zenon DEF WaitOf
    <3> QED BY <3>1, <3>2, Zenon
  <2>10. ASSUME NEW u \in Threads, InCall(u)', ~Queued(u)', Unwoken(u)'
         PROVE  \E v \in Threads : pc'[v] = "unpark" /\ pid'[v] = u /\ sem'[v] = sem'[u]
    <3>1. PICK v \in Threads : pc[v] = "unpark" /\ pid[v] = u /\ sem[v] = sem[u]
      BY <1>2, <2>4, <2>7, <2>10, Zenon DEF NoWakeupLost
    <3>2. pc'[v] = pc[v]
      BY <1>1, <2>2, <3>1, Zenon
    <3> QED BY <2>1, <3>1, <3>2, Zenon
  <2> QED BY <2>4, <2>5, <2>6, <2>9, <2>10, Zenon DEF IInv, WaitOK, NoWakeupLost
<1> QED BY <1>5, <1>6, Zenon

(* The rings when the first thread is taken from one. *)
LEMMA RingShorter ==
  ASSUME Assumptions, TypeOK, RingOK, NEW s \in Sems, len[s] > 0, deq(s),
         count' = [count EXCEPT ![s] = count[s] + 1],
         NEW h \in Threads, h = Waiters(s)[1],
         \A u \in Threads : InCall(u) => InCall(u)' /\ sem'[u] = sem[u]
  PROVE  /\ RingType' /\ RingOK'
         /\ \A u \in Threads : Queued(u)' <=> Queued(u) /\ u # h
<1>1. RingType /\ EndOK(s) /\ CountOK(s)
  BY Zenon DEF TypeOK, RingOK
<1>2. /\ RingType' /\ EndOK(s)'
      /\ \A r \in Sems \ {s} : /\ start'[r] = start[r] /\ end'[r] = end[r] /\ len'[r] = len[r]
                               /\ Waiters(r)' = Waiters(r)
      /\ len'[s] = len[s] - 1
      /\ \A i \in 1..len[s] - 1 : Waiters(s)'[i] = Waiters(s)[i + 1]
  BY <1>1, Dequeued, Zenon
<1>3. /\ 1 \in 1..len[s]
      /\ \A i \in 1..len[s] - 1 : i + 1 \in 1..len[s] /\ i + 1 # 1
      /\ \A i \in 1..len[s] : i # 1 => i - 1 \in 1..len[s] - 1 /\ (i - 1) + 1 = i
      /\ \A i, j \in 1..len[s] - 1 : i + 1 = j + 1 => i = j
  <2>1. len[s] \in Nat
    BY <1>1 DEF RingType, Assumptions
  <2> QED BY <2>1
<1>4. \A r \in Sems : CountOK(r)'
  <2>1. CountOK(s)'
    <3>1. count[s] \in Int /\ count'[s] = count[s] + 1
      BY Zenon DEF TypeOK
    <3> QED BY <1>1, <1>2, <3>1 DEF CountOK
  <2>2. \A r \in Sems \ {s} : CountOK(r)'
    <3>1. \A r \in Sems \ {s} : count'[r] = count[r]
      BY Zenon DEF TypeOK
    <3> QED BY <1>2, <3>1, Zenon DEF CountOK, RingOK
  <2> QED BY <2>1, <2>2, Zenon
<1>5. \A r \in Sems : EndOK(r)'
  BY <1>2, Zenon DEF EndOK, RingOK, Place
<1>6. Members(s)'
  <2>1. ASSUME NEW i \in 1..len'[s]
        PROVE  \E w \in Threads : Waiters(s)'[i] = w /\ InCall(w)' /\ sem'[w] = s
    <3>1. i + 1 \in 1..len[s] /\ Waiters(s)'[i] = Waiters(s)[i + 1]
      BY <1>2, <1>3, Zenon
    <3>2. PICK w \in Threads : Waiters(s)[i + 1] = w /\ InCall(w) /\ sem[w] = s
      BY <3>1, Zenon DEF RingOK, Members
    <3> QED BY <3>1, <3>2, Zenon
  <2>2. ASSUME NEW i \in 1..len'[s], NEW j \in 1..len'[s], Waiters(s)'[i] = Waiters(s)'[j]
        PROVE  i = j
    <3>1. i + 1 \in 1..len[s] /\ j + 1 \in 1..len[s] /\ Waiters(s)[i + 1] = Waiters(s)[j + 1]
      BY <1>2, <1>3, <2>2, Zenon
    <3>2. i + 1 = j + 1
      BY <3>1, Zenon DEF RingOK, Members
    <3> QED BY <1>2, <1>3, <3>2, Zenon
  <2> QED BY <2>1, <2>2, Zenon DEF Members
<1>7. ASSUME NEW r \in Sems \ {s} PROVE Members(r)'
  <2>1. Members(r)
    BY Zenon DEF RingOK
  <2>2. \A i \in 1..len[r] : \E w \in Threads : Waiters(r)[i] = w /\ InCall(w)' /\ sem'[w] = r
    BY <2>1, ZenonT(60) DEF Members
  <2> QED BY <1>2, <2>1, <2>2, MembersKept, Zenon
<1>8. RingOK'
  BY <1>4, <1>5, <1>6, <1>7, Zenon DEF RingOK
<1>9. ASSUME NEW u \in Threads, Queued(u)' PROVE Queued(u) /\ u # h
  <2>1. PICK r \in Sems : \E i \in 1..len'[r] : Waiters(r)'[i] = u
    BY <1>9, Zenon DEF Queued
  <2>2. PICK i \in 1..len'[r] : Waiters(r)'[i] = u
    BY <2>1, Zenon
  <2>3. CASE r = s
    <3>1. i + 1 \in 1..len[s] /\ i + 1 # 1 /\ Waiters(s)[i + 1] = u
      BY <1>2, <1>3, <2>2, <2>3, Zenon
    <3> QED BY <1>3, <3>1, Zenon DEF Queued, RingOK, Members
  <2>4. CASE r # s
    <3>1. i \in 1..len[r] /\ Waiters(r)[i] = u
      BY <1>2, <2>2, <2>4, Zenon
    <3>2. sem[u] = r
      <4>1. PICK w \in Threads : Waiters(r)[i] = w /\ InCall(w) /\ sem[w] = r
        BY <3>1, MemberIs, Zenon
      <4> QED BY <3>1, <4>1, Zenon
    <3>3. sem[h] = s
      <4>1. PICK w \in Threads : Waiters(s)[1] = w /\ InCall(w) /\ sem[w] = s
        BY <1>3, MemberIs, Zenon
      <4> QED BY <1>3, <4>1, Zenon
    <3> QED BY <2>4, <3>1, <3>2, <3>3, Zenon DEF Queued
  <2> QED BY <2>3, <2>4, Zenon
<1>10. ASSUME NEW u \in Threads, Queued(u), u # h PROVE Queued(u)'
  <2>1. PICK r \in Sems : \E i \in 1..len[r] : Waiters(r)[i] = u
    BY <1>10, Zenon DEF Queued
  <2>2. PICK i \in 1..len[r] : Waiters(r)[i] = u
    BY <2>1, Zenon
  <2>3. CASE r = s
    <3>1. i - 1 \in 1..len[s] - 1 /\ (i - 1) + 1 = i
      BY <1>3, <1>10, <2>2, <2>3, Zenon
    <3>2. Waiters(s)'[i - 1] = u /\ i - 1 \in 1..len'[s]
      BY <1>2, <2>2, <2>3, <3>1, Zenon
    <3> QED BY <3>2, Zenon DEF Queued
  <2>4. CASE r # s
    BY <1>2, <2>2, <2>4, Zenon DEF Queued
  <2> QED BY <2>3, <2>4, Zenon
<1> QED BY <1>2, <1>8, <1>9, <1>10, Zenon

(* The rings when a thread joins one at its end. *)
LEMMA RingLonger ==
  ASSUME Assumptions, Fits, TypeOK, RingOK, NEW s \in Sems, NEW t \in Threads, ~InCall(t), enq(s, t),
         count[s] <= 0, count' = [count EXCEPT ![s] = count[s] - 1],
         InCall(t)', sem'[t] = s,
         \A u \in Threads : InCall(u) => InCall(u)' /\ sem'[u] = sem[u]
  PROVE  /\ RingType' /\ RingOK'
         /\ \A u \in Threads : Queued(u)' <=> Queued(u) \/ u = t
<1>1. RingType /\ EndOK(s) /\ CountOK(s) /\ len[s] < QMAX /\ ~Queued(t)
  BY RoomLeft, QueuedIn, Zenon DEF TypeOK, RingOK
<1>2. /\ RingType' /\ EndOK(s)'
      /\ \A r \in Sems \ {s} : /\ start'[r] = start[r] /\ end'[r] = end[r] /\ len'[r] = len[r]
                               /\ Waiters(r)' = Waiters(r)
      /\ len'[s] = len[s] + 1
      /\ \A i \in 1..len[s] : Waiters(s)'[i] = Waiters(s)[i]
      /\ Waiters(s)'[len[s] + 1] = t
  BY <1>1, Enqueued, Zenon
<1>3. /\ len[s] + 1 \in 1..len[s] + 1
      /\ \A i \in 1..len[s] + 1 : i = len[s] + 1 \/ i \in 1..len[s]
      /\ \A i \in 1..len[s] : i \in 1..len[s] + 1
  <2>1. len[s] \in Nat
    BY <1>1 DEF RingType, Assumptions
  <2> QED BY <2>1
<1>4. \A r \in Sems : CountOK(r)'
  <2>1. CountOK(s)'
    <3>1. count[s] \in Int /\ count'[s] = count[s] - 1
      BY Zenon DEF TypeOK
    <3> QED BY <1>1, <1>2, <3>1 DEF CountOK
  <2>2. \A r \in Sems \ {s} : CountOK(r)'
    <3>1. \A r \in Sems \ {s} : count'[r] = count[r]
      BY Zenon DEF TypeOK
    <3> QED BY <1>2, <3>1, ZenonT(60) DEF CountOK, RingOK
  <2> QED BY <2>1, <2>2, Zenon
<1>5. \A r \in Sems : EndOK(r)'
  BY <1>2, ZenonT(60) DEF EndOK, RingOK, Place
<1>6. \A i \in 1..len[s] : Waiters(s)[i] # t
  BY <1>1, Zenon DEF Queued
<1>7. Members(s)'
  <2>1. ASSUME NEW i \in 1..len[s]
        PROVE  \E w \in Threads : Waiters(s)'[i] = w /\ InCall(w)' /\ sem'[w] = s
    <3>1. PICK w \in Threads : Waiters(s)[i] = w /\ InCall(w) /\ sem[w] = s
      BY ZenonT(60) DEF RingOK, Members
    <3> QED BY <1>2, <3>1, ZenonT(60)
  <2>2. ASSUME NEW i \in 1..len'[s]
        PROVE  \E w \in Threads : Waiters(s)'[i] = w /\ InCall(w)' /\ sem'[w] = s
    <3>1. i = len[s] + 1 \/ i \in 1..len[s]
      BY <1>2, <1>3, Zenon
    <3>2. CASE i = len[s] + 1
      BY <1>2, <3>2, Zenon
    <3> QED BY <2>1, <3>1, <3>2, Zenon
  <2>3. ASSUME NEW i \in 1..len'[s], NEW j \in 1..len'[s], Waiters(s)'[i] = Waiters(s)'[j]
        PROVE  i = j
    <3>0. (i = len[s] + 1 \/ i \in 1..len[s]) /\ (j = len[s] + 1 \/ j \in 1..len[s])
      BY <1>2, <1>3, Zenon
    <3>1. CASE i \in 1..len[s] /\ j \in 1..len[s]
      <4>1. Waiters(s)[i] = Waiters(s)[j]
        BY <1>2, <2>3, <3>1, Zenon
      <4> QED BY <3>1, <4>1, MemberOnce, Zenon
    <3>2. CASE i \in 1..len[s] /\ j = len[s] + 1
      BY <1>2, <1>6, <2>3, <3>2, Zenon
    <3>3. CASE i = len[s] + 1 /\ j \in 1..len[s]
      BY <1>2, <1>6, <2>3, <3>3, Zenon
    <3> QED BY <3>0, <3>1, <3>2, <3>3, Zenon
  <2> QED BY <2>2, <2>3, Zenon DEF Members
<1>8. ASSUME NEW r \in Sems \ {s} PROVE Members(r)'
  <2>1. Members(r)
    BY Zenon DEF RingOK
  <2>2. \A i \in 1..len[r] : \E w \in Threads : Waiters(r)[i] = w /\ InCall(w)' /\ sem'[w] = r
    BY <2>1, Zenon DEF Members
  <2> QED BY <1>2, <2>1, <2>2, MembersKept, Zenon
<1>9. RingOK'
  BY <1>4, <1>5, <1>7, <1>8, Zenon DEF RingOK
<1>10. ASSUME NEW u \in Threads, Queued(u)' PROVE Queued(u) \/ u = t
  <2>1. PICK r \in Sems : \E i \in 1..len'[r] : Waiters(r)'[i] = u
    BY <1>10, Zenon DEF Queued
  <2>2. PICK i \in 1..len'[r] : Waiters(r)'[i] = u
    BY <2>1, Zenon
  <2>3. CASE r = s
    BY <1>2, <1>3, <2>2, <2>3, Zenon DEF Queued
  <2>4. CASE r # s
    <3>1. i \in 1..len[r] /\ Waiters(r)[i] = u
      BY <1>2, <2>2, <2>4, Zenon
    <3> QED BY <3>1, Zenon DEF Queued
  <2> QED BY <2>3, <2>4, Zenon
<1>11. ASSUME NEW u \in Threads, Queued(u) PROVE Queued(u)'
  <2>1. PICK r \in Sems : \E i \in 1..len[r] : Waiters(r)[i] = u
    BY <1>11, Zenon DEF Queued
  <2>2. PICK i \in 1..len[r] : Waiters(r)[i] = u
    BY <2>1, Zenon
  <2>3. CASE r = s
    <3>1. i \in 1..len'[s] /\ Waiters(s)'[i] = u
      BY <1>2, <1>3, <2>2, <2>3, Zenon
    <3> QED BY <3>1, Zenon DEF Queued
  <2>4. CASE r # s
    BY <1>2, <2>2, <2>4, Zenon DEF Queued
  <2> QED BY <2>3, <2>4, Zenon
<1>12. Queued(t)'
  <2>1. len[s] + 1 \in 1..len'[s] /\ Waiters(s)'[len[s] + 1] = t
    BY <1>2, <1>3, Zenon
  <2> QED BY <2>1, Zenon DEF Queued
<1> QED BY <1>2, <1>9, <1>10, <1>11, <1>12, Zenon

(* What sem_up does once it has the guard, *)
LEMMA UpIs ==
  ASSUME TypeOK, NEW t \in Threads, NEW s \in Sems, Up(t, s)
  PROVE  /\ Enter(t, s) /\ count' = [count EXCEPT ![s] = count[s] + 1]
         /\ state' = state /\ chan' = chan /\ lostwakeup' = lostwakeup
         /\ count[s] < 0 => /\ pid' = [pid EXCEPT ![t] = arr[s][start[s]]]
                            /\ deq(s) /\ GoTo(t, "unpark")
         /\ ~(count[s] < 0) => GoTo(t, "release") /\ queuev' = queuev /\ pid' = pid
<1>1. count[s] \in Int /\ count'[s] = count[s] + 1
  BY Zenon DEF Up, TypeOK
<1>2. count'[s] <= 0 <=> count[s] < 0
  BY <1>1
<1> QED BY <1>2, Zenon DEF Up, kernelv

(* ... and what sem_down does. *)
LEMMA DownIs ==
  ASSUME TypeOK, NEW t \in Threads, NEW s \in Sems, Down(t, s)
  PROVE  /\ Enter(t, s) /\ count' = [count EXCEPT ![s] = count[s] - 1]
         /\ state' = state /\ chan' = chan /\ lostwakeup' = lostwakeup /\ pid' = pid
         /\ count[s] <= 0 => enq(s, t) /\ GoTo(t, "wait")
         /\ ~(count[s] <= 0) => GoTo(t, "release") /\ queuev' = queuev
<1>1. count[s] \in Int /\ count'[s] = count[s] - 1
  BY Zenon DEF Down, TypeOK
<1>2. count'[s] < 0 <=> count[s] <= 0
  BY <1>1
<1> QED BY <1>2, Zenon DEF Down, kernelv

(* What is so when a thread has entered a call on s. *)
Entered(t, s) ==
  /\ pc[t] = "idle" /\ state[t] = "RUNNABLE" /\ lostwakeup[t] = 0 /\ ~Queued(t) /\ ~InCall(t)
  /\ sem'[t] = s /\ s # 0
  /\ \A u \in Threads \ {t} : pc'[u] = pc[u] /\ sem'[u] = sem[u]
  /\ \A u \in Threads : Inside(u) => sem[u] # s
  /\ \A u \in Threads : pc[u] = "unpark" => pid[u] # t
  /\ \A u \in Threads : InCall(u) => InCall(u)' /\ sem'[u] = sem[u]
  /\ \A u \in Threads \ {t} : (InCall(u)' <=> InCall(u)) /\ (Unwoken(u)' <=> Unwoken(u))

(* Every call begins so. *)
LEMMA EnterIs ==
  ASSUME Assumptions, IInv, NEW t \in Threads, NEW s \in Sems, Enter(t, s),
         NEW l \in {"release", "wait", "unpark"}, GoTo(t, l),
         state' = state, lostwakeup' = lostwakeup
  PROVE  GuardOK' /\ Entered(t, s) /\ pc'[t] = l
<1>1. TypeOK /\ GuardOK /\ RingOK /\ WaitOK
  BY Zenon DEF IInv
<1>2. pc'[t] = l /\ \A u \in Threads \ {t} : pc'[u] = pc[u]
  BY <1>1, Zenon DEF GoTo, TypeOK
<1>3. Inside(t)'
  BY <1>2, Zenon DEF Inside
<1>4. /\ GuardOK' /\ sem'[t] = s /\ pc[t] = "idle" /\ state[t] = "RUNNABLE"
      /\ \A u \in Threads \ {t} : sem'[u] = sem[u]
      /\ \A u \in Threads : Inside(u) => sem[u] # s
  BY <1>1, <1>2, <1>3, GuardTaken, Zenon
<1>5. ~InCall(t)
  BY <1>4, Zenon DEF InCall
<1>6. ~Queued(t) /\ lostwakeup[t] = 0
  BY <1>1, <1>4, <1>5, QueuedIn, Zenon DEF WaitOK, WaitOf
<1>7. \A u \in Threads : pc[u] = "unpark" => pid[u] # t
  BY <1>1, <1>5, TargetIs, Zenon
<1>8. \A u \in Threads \ {t} : (InCall(u)' <=> InCall(u)) /\ (Unwoken(u)' <=> Unwoken(u))
  BY <1>2, Zenon DEF InCall, Unwoken
<1>9. \A u \in Threads : InCall(u) => InCall(u)' /\ sem'[u] = sem[u]
  BY <1>4, <1>5, <1>8, Zenon
<1>10. s # 0
  BY Zenon DEF Assumptions
<1> QED BY <1>2, <1>4, <1>5, <1>6, <1>7, <1>8, <1>9, <1>10, Zenon DEF Entered

(* A call that finds nobody to wait for. *)
LEMMA EnterFree ==
  ASSUME Assumptions, IInv, NEW t \in Threads, NEW s \in Sems, Enter(t, s), GoTo(t, "release"),
         state' = state, chan' = chan, lostwakeup' = lostwakeup, pid' = pid, queuev' = queuev,
         count' \in [Sems -> Int], \A r \in Sems : CountOK(r)'
  PROVE  /\ IInv' /\ \A u \in Threads : InCall(u)' <=> InCall(u)
         /\ \A u \in Threads : Queued(u)' <=> Queued(u)
         /\ \A r \in Sems : Waiters(r)' = Waiters(r)
<1>1. TypeOK /\ GuardOK /\ RingOK /\ WaitOK /\ NoWakeupLost
  BY Zenon DEF IInv
<1>2. GuardOK' /\ Entered(t, s) /\ pc'[t] = "release"
  BY EnterIs, Zenon
<1>3. Outside(t) /\ pc'[t] \in {"idle", "release"}
  BY <1>2, Zenon DEF Entered, Outside
<1>4. /\ RingOK' /\ RingType' = RingType
      /\ \A r \in Sems : Waiters(r)' = Waiters(r)
      /\ \A u \in Threads : Queued(u)' <=> Queued(u)
  BY <1>1, <1>2, <1>3, RingKept, Zenon DEF Entered
<1>5. TypeOK'
  BY <1>1, <1>4, Zenon DEF TypeOK, Enter, GoTo
<1>6. WaitOK' /\ NoWakeupLost'
  BY <1>1, <1>2, <1>3, <1>4, Returned, Zenon DEF Entered
<1>7. \A u \in Threads : InCall(u)' <=> InCall(u)
  BY <1>2, Zenon DEF Entered, InCall
<1> QED BY <1>2, <1>4, <1>5, <1>6, <1>7, Zenon DEF IInv

(* sem_up that takes the first thread from the ring. *)
LEMMA UpWakes ==
  ASSUME Assumptions, IInv, NEW t \in Threads, NEW s \in Sems, Up(t, s), count[s] < 0
  PROVE  /\ IInv' /\ len[s] > 0 /\ deq(s)
         /\ \A u \in Threads : InCall(u)' <=> InCall(u)
         /\ \E h \in Threads : /\ h = Waiters(s)[1] /\ InCall(h) /\ Queued(h)
                               /\ \A u \in Threads : Queued(u)' <=> Queued(u) /\ u # h
<1>1. TypeOK /\ GuardOK /\ RingOK /\ WaitOK /\ NoWakeupLost
  BY Zenon DEF IInv
<1>2. /\ Enter(t, s) /\ count' = [count EXCEPT ![s] = count[s] + 1]
      /\ state' = state /\ chan' = chan /\ lostwakeup' = lostwakeup
      /\ pid' = [pid EXCEPT ![t] = arr[s][start[s]]]
      /\ deq(s) /\ GoTo(t, "unpark")
  BY <1>1, UpIs, Zenon
<1>3. GuardOK' /\ Entered(t, s) /\ pc'[t] = "unpark"
  BY <1>2, EnterIs, Zenon
<1>4. len[s] > 0 /\ 1 \in 1..len[s]
  <2>1. count[s] \in Int /\ CountOK(s)
    BY <1>1, Zenon DEF TypeOK, RingOK
  <2> QED BY <2>1 DEF CountOK
<1>5. PICK h \in Threads : Waiters(s)[1] = h /\ InCall(h) /\ sem[h] = s
  BY <1>1, <1>4, Zenon DEF RingOK, Members
<1>6. Queued(h) /\ h # t /\ pc[h] # "wait" /\ Unwoken(h)
  <2>1. Queued(h) /\ h # t
    BY <1>3, <1>4, <1>5, Zenon DEF Queued, Entered
  <2> QED BY <1>1, <1>3, <1>5, <2>1, Zenon DEF Entered, Inside, WaitOK, WaitOf
<1>7. arr[s][start[s]] = h
  BY <1>1, <1>2, <1>4, <1>5, Dequeued, Zenon DEF TypeOK, RingOK
<1>8. pid'[t] = h /\ \A u \in Threads \ {t} : pid'[u] = pid[u]
  BY <1>1, <1>2, <1>7, Zenon DEF TypeOK
<1>9. /\ RingType' /\ RingOK'
      /\ \A u \in Threads : Queued(u)' <=> Queued(u) /\ u # h
  BY <1>1, <1>2, <1>3, <1>4, <1>5, RingShorter, Zenon DEF Entered
<1>10. TypeOK'
  <2>1. count' \in [Sems -> Int]
    BY <1>1, <1>2 DEF TypeOK
  <2>2. pid' \in [Threads -> Threads \cup {0}]
    BY <1>1, <1>2, <1>7, Zenon DEF TypeOK
  <2> QED BY <1>1, <1>2, <1>9, <2>1, <2>2, Zenon DEF TypeOK, Enter, GoTo
<1>11. ASSUME NEW u \in Threads \ {t}, NEW x \in Threads, pc[u] = "unpark", Handed(u, x)
       PROVE  Handed(u, x)'
  <2>1. x # t /\ x # h
    BY <1>3, <1>6, <1>11, Zenon DEF Entered, Handed
  <2> QED BY <1>3, <1>8, <1>9, <1>11, <2>1, Zenon DEF Entered, Handed
<1>12. Handed(t, h)'
  BY <1>3, <1>5, <1>6, <1>8, <1>9, Zenon DEF Entered, Handed
<1>13. ASSUME NEW u \in Threads PROVE WaitOf(u)'
  <2>1. CASE u = t
    BY <1>2, <1>3, <1>9, <1>12, <2>1, Zenon DEF WaitOf, Entered
  <2>2. CASE u # t
    <3>1. WaitOf(u) /\ pc'[u] = pc[u] /\ sem'[u] = sem[u] /\ (Unwoken(u)' <=> Unwoken(u))
      BY <1>1, <1>3, <2>2, Zenon DEF WaitOK, Entered
    <3>2. pc'[u] = "wait" => Queued(u)'
      BY <1>6, <1>9, <3>1, Zenon DEF WaitOf
    <3>3. pc'[u] = "unpark" => \E x \in Threads : Handed(u, x)'
      BY <1>11, <2>2, <3>1, Zenon DEF WaitOf
    <3> QED BY <1>2, <1>9, <3>1, <3>2, <3>3, Zenon DEF WaitOf
  <2> QED BY <2>1, <2>2, Zenon
<1>14. ASSUME NEW u \in Threads, InCall(u)', ~Queued(u)', Unwoken(u)'
       PROVE  \E v \in Threads : pc'[v] = "unpark" /\ pid'[v] = u /\ sem'[v] = sem'[u]
  <2>1. CASE u = h
    BY <1>3, <1>5, <1>6, <1>8, <2>1, Zenon DEF Entered
  <2>2. CASE u # h
    <3>1. u # t
      BY <1>3, <1>14, Zenon DEF InCall
    <3>2. PICK v \in Threads : pc[v] = "unpark" /\ pid[v] = u /\ sem[v] = sem[u]
      BY <1>1, <1>3, <1>9, <1>14, <2>2, <3>1, Zenon DEF NoWakeupLost, Entered
    <3>3. v # t
      BY <1>3, <3>2, Zenon DEF Entered
    <3> QED BY <1>3, <1>8, <3>1, <3>2, <3>3, Zenon DEF Entered
  <2> QED BY <2>1, <2>2, Zenon
<1>15. IInv'
  BY <1>3, <1>9, <1>10, <1>13, <1>14, Zenon DEF IInv, WaitOK, NoWakeupLost
<1>16. \A u \in Threads : InCall(u)' <=> InCall(u)
  BY <1>3, Zenon DEF Entered, InCall
<1> QED BY <1>2, <1>4, <1>5, <1>6, <1>9, <1>15, <1>16, Zenon

(* sem_up when nobody waits. *)
LEMMA UpFree ==
  ASSUME Assumptions, IInv, NEW t \in Threads, NEW s \in Sems, Up(t, s), ~(count[s] < 0)
  PROVE  /\ IInv' /\ len[s] = 0 /\ \A u \in Threads : InCall(u)' <=> InCall(u)
         /\ \A u \in Threads : Queued(u)' <=> Queued(u)
         /\ \A r \in Sems : Waiters(r)' = Waiters(r)
<1>1. TypeOK /\ RingOK
  BY Zenon DEF IInv
<1>2. /\ Enter(t, s) /\ count' = [count EXCEPT ![s] = count[s] + 1]
      /\ state' = state /\ chan' = chan /\ lostwakeup' = lostwakeup
      /\ GoTo(t, "release") /\ queuev' = queuev /\ pid' = pid
  BY <1>1, UpIs, Zenon
<1>3. count' \in [Sems -> Int]
  BY <1>1, <1>2 DEF TypeOK
<1>4. len[s] = 0
  BY <1>1, Zenon DEF RingOK, CountOK
<1>5. ASSUME NEW r \in Sems PROVE CountOK(r)'
  <2>1. len'[r] = len[r] /\ CountOK(r) /\ count[r] \in Int
    BY <1>1, <1>2, Zenon DEF queuev, RingOK, TypeOK
  <2>2. count'[r] = IF r = s THEN count[r] + 1 ELSE count[r]
    BY <1>1, <1>2, Zenon DEF TypeOK
  <2>3. CASE r = s
    BY <2>1, <2>2, <2>3 DEF CountOK
  <2>4. CASE r # s
    BY <2>1, <2>2, <2>4, Zenon DEF CountOK
  <2> QED BY <2>3, <2>4, Zenon
<1> QED BY <1>2, <1>3, <1>4, <1>5, EnterFree, Zenon

(* sem_down that has to wait. *)
LEMMA DownWaits ==
  ASSUME Assumptions, IInv, NEW t \in Threads, NEW s \in Sems, Down(t, s), count[s] <= 0, Fits
  PROVE  /\ IInv' /\ enq(s, t) /\ len[s] < QMAX
         /\ ~Queued(t) /\ ~InCall(t) /\ InCall(t)'
         /\ \A u \in Threads \ {t} : InCall(u)' <=> InCall(u)
         /\ \A u \in Threads : Queued(u)' <=> Queued(u) \/ u = t
<1>1. TypeOK /\ GuardOK /\ RingOK /\ WaitOK /\ NoWakeupLost
  BY Zenon DEF IInv
<1>2. /\ Enter(t, s) /\ count' = [count EXCEPT ![s] = count[s] - 1]
      /\ state' = state /\ chan' = chan /\ lostwakeup' = lostwakeup /\ pid' = pid
      /\ enq(s, t) /\ GoTo(t, "wait")
  BY <1>1, DownIs, Zenon
<1>3. GuardOK' /\ Entered(t, s) /\ pc'[t] = "wait"
  BY <1>2, EnterIs, Zenon
<1>4. InCall(t)' /\ Unwoken(t)' /\ ~InCall(t)
  BY <1>2, <1>3, Zenon DEF InCall, Unwoken, Entered
<1>5. /\ RingType' /\ RingOK'
      /\ \A u \in Threads : Queued(u)' <=> Queued(u) \/ u = t
  BY <1>1, <1>2, <1>3, <1>4, RingLonger, Zenon DEF Entered
<1>6. len[s] < QMAX
  BY <1>1, <1>4, RoomLeft, Zenon DEF TypeOK
<1>7. TypeOK'
  <2>1. count' \in [Sems -> Int]
    BY <1>1, <1>2 DEF TypeOK
  <2> QED BY <1>1, <1>2, <1>5, <2>1, Zenon DEF TypeOK, Enter, GoTo
<1>8. ASSUME NEW u \in Threads \ {t}, NEW x \in Threads, pc[u] = "unpark", Handed(u, x)
      PROVE  Handed(u, x)'
  <2>1. x # t
    BY <1>3, <1>8, Zenon DEF Entered, Handed
  <2> QED BY <1>2, <1>3, <1>5, <1>8, <2>1, Zenon DEF Entered, Handed
<1>9. ASSUME NEW u \in Threads PROVE WaitOf(u)'
  <2>1. CASE u = t
    BY <1>2, <1>3, <1>4, <1>5, <2>1, Zenon DEF WaitOf, Entered
  <2>2. CASE u # t
    <3>1. WaitOf(u) /\ pc'[u] = pc[u] /\ sem'[u] = sem[u] /\ (Unwoken(u)' <=> Unwoken(u))
      BY <1>1, <1>3, <2>2, Zenon DEF WaitOK, Entered
    <3>2. pc'[u] = "unpark" => \E x \in Threads : Handed(u, x)'
      BY <1>8, <2>2, <3>1, Zenon DEF WaitOf
    <3> QED BY <1>2, <1>5, <2>2, <3>1, <3>2, Zenon DEF WaitOf
  <2> QED BY <2>1, <2>2, Zenon
<1>10. ASSUME NEW u \in Threads, InCall(u)', ~Queued(u)', Unwoken(u)'
       PROVE  \E v \in Threads : pc'[v] = "unpark" /\ pid'[v] = u /\ sem'[v] = sem'[u]
  <2>1. u # t /\ ~Queued(u)
    BY <1>5, <1>10, Zenon
  <2>2. PICK v \in Threads : pc[v] = "unpark" /\ pid[v] = u /\ sem[v] = sem[u]
    BY <1>1, <1>3, <1>10, <2>1, Zenon DEF NoWakeupLost, Entered
  <2>3. v # t
    BY <1>3, <2>2, Zenon DEF Entered
  <2> QED BY <1>2, <1>3, <2>1, <2>2, <2>3, Zenon DEF Entered
<1>11. IInv'
  BY <1>3, <1>5, <1>7, <1>9, <1>10, Zenon DEF IInv, WaitOK, NoWakeupLost
<1> QED BY <1>2, <1>3, <1>4, <1>5, <1>6, <1>11, Zenon DEF Entered

(* sem_down that gets a unit at once. *)
LEMMA DownFree ==
  ASSUME Assumptions, IInv, NEW t \in Threads, NEW s \in Sems, Down(t, s), ~(count[s] <= 0)
  PROVE  /\ IInv' /\ ~InCall(t) /\ ~Queued(t)
         /\ \A u \in Threads : InCall(u)' <=> InCall(u)
         /\ \A u \in Threads : Queued(u)' <=> Queued(u)
         /\ \A r \in Sems : Waiters(r)' = Waiters(r)
<1>1. TypeOK /\ RingOK
  BY Zenon DEF IInv
<1>2. /\ Enter(t, s) /\ count' = [count EXCEPT ![s] = count[s] - 1]
      /\ state' = state /\ chan' = chan /\ lostwakeup' = lostwakeup /\ pid' = pid
      /\ GoTo(t, "release") /\ queuev' = queuev
  BY <1>1, DownIs, Zenon
<1>3. count' \in [Sems -> Int]
  BY <1>1, <1>2 DEF TypeOK
<1>4. ASSUME NEW r \in Sems PROVE CountOK(r)'
  <2>1. len'[r] = len[r] /\ CountOK(r) /\ count[r] \in Int
    BY <1>1, <1>2, Zenon DEF queuev, RingOK, TypeOK
  <2>2. count'[r] = IF r = s THEN count[r] - 1 ELSE count[r]
    BY <1>1, <1>2, Zenon DEF TypeOK
  <2>3. CASE r = s
    BY <2>1, <2>2, <2>3 DEF CountOK
  <2>4. CASE r # s
    BY <2>1, <2>2, <2>4, Zenon DEF CountOK
  <2> QED BY <2>3, <2>4, Zenon
<1>5. Entered(t, s)
  BY <1>2, EnterIs, Zenon
<1> QED BY <1>2, <1>3, <1>4, <1>5, EnterFree, Zenon DEF Entered

(* A step that changes nothing. *)
LEMMA StutterIInv == IInv /\ UNCHANGED vars => IInv'
<1> SUFFICES ASSUME IInv, UNCHANGED vars PROVE IInv'
  BY Zenon
<1>1. /\ guard' = guard /\ count' = count /\ arr' = arr /\ start' = start /\ end' = end /\ len' = len
      /\ state' = state /\ chan' = chan /\ lostwakeup' = lostwakeup
      /\ pc' = pc /\ sem' = sem /\ pid' = pid
  BY Zenon DEF vars, queuev, kernelv
<1>2. /\ \A s : Waiters(s)' = Waiters(s)
      /\ \A t : (InCall(t)' <=> InCall(t)) /\ (Unwoken(t)' <=> Unwoken(t)) /\ (Inside(t)' <=> Inside(t))
  BY <1>1, Zenon DEF Waiters, InCall, Unwoken, Inside
<1>3. \A t : Queued(t)' <=> Queued(t)
  BY <1>1, <1>2, Zenon DEF Queued
<1>4. \A t, x : Handed(t, x)' <=> Handed(t, x)
  BY <1>1, <1>2, <1>3, Zenon DEF Handed
<1>5. TypeOK' /\ GuardOK'
  BY <1>1, <1>2, Zenon DEF IInv, TypeOK, RingType, GuardOK
<1>6. \A s : (EndOK(s)' <=> EndOK(s)) /\ (CountOK(s)' <=> CountOK(s))
  BY <1>1, Zenon DEF EndOK, CountOK, Place
<1>7. \A s : Members(s)' <=> Members(s)
  BY <1>1, <1>2, Zenon DEF Members
<1>8. RingOK'
  BY <1>6, <1>7, Zenon DEF IInv, RingOK
<1>9. WaitOK' /\ NoWakeupLost'
  BY <1>1, <1>2, <1>3, <1>4, Zenon DEF IInv, WaitOK, WaitOf, NoWakeupLost
<1> QED BY <1>5, <1>8, <1>9, Zenon DEF IInv

(* Every step preserves the invariant. *)
LEMMA NextIInv ==
  ASSUME Assumptions, Fits, IInv, [Next]_vars
  PROVE  IInv'
<1>1. ASSUME NEW t \in Threads, Step(t) PROVE IInv'
  BY <1>1, ReleaseStep, WaitReleaseStep, UnparkStep, ParkStep, ParkReturnStep, Zenon DEF Step
<1>2. ASSUME NEW t \in Threads, NEW s \in Sems, Up(t, s) PROVE IInv'
  BY <1>2, UpWakes, UpFree, Zenon
<1>3. ASSUME NEW t \in Threads, NEW s \in Sems, Down(t, s) PROVE IInv'
  BY <1>3, DownWaits, DownFree, Zenon
<1> QED BY <1>1, <1>2, <1>3, StutterIInv, Zenon DEF Next

-----------------------------------------------------------------------------
(* The semaphore implements FifoSemaphore. *)

(* A function that differs from another at one argument. *)
LEMMA ExceptIs ==
  ASSUME NEW S, NEW f, NEW g, NEW s \in S, f = [x \in S |-> f[x]], g = [x \in S |-> g[x]],
         \A x \in S \ {s} : g[x] = f[x]
  PROVE  g = [f EXCEPT ![s] = g[s]]
OBVIOUS

(* A sequence with one element more, *)
LEMMA AppendIs ==
  ASSUME NEW S, NEW n \in Nat, NEW q \in [1..n -> S], NEW x \in S, NEW r \in [1..n + 1 -> S],
         \A i \in 1..n : r[i] = q[i], r[n + 1] = x
  PROVE  r = Append(q, x)
OBVIOUS

(* ... and without its first. *)
LEMMA TailIs ==
  ASSUME NEW n \in Nat, n > 0, NEW q \in [1..n -> Threads], NEW r \in [1..n - 1 -> Threads],
         \A i \in 1..n - 1 : r[i] = q[i + 1]
  PROVE  r = Tail(q) /\ Head(q) = q[1] /\ q # << >>
OBVIOUS

(* the rings as sequences *)
RingSeq == \A s \in Sems : /\ len[s] \in Nat /\ Waiters(s) \in [1..len[s] -> Threads]
                           /\ Len(Waiters(s)) = len[s] /\ (len[s] = 0 => Waiters(s) = << >>)

(* They are sequences of threads. *)
LEMMA RingIsSeq == Assumptions /\ IInv => RingSeq
<1> SUFFICES ASSUME Assumptions, IInv, NEW s \in Sems
             PROVE  /\ len[s] \in Nat /\ Waiters(s) \in [1..len[s] -> Threads]
                    /\ Len(Waiters(s)) = len[s] /\ (len[s] = 0 => Waiters(s) = << >>)
  BY Zenon DEF RingSeq
<1>1. len[s] \in Nat
  BY DEF IInv, TypeOK, RingType, Assumptions
<1>2. ASSUME NEW i \in 1..len[s] PROVE Waiters(s)[i] \in Threads
  BY MemberIs, Zenon DEF IInv
<1>3. Waiters(s) \in [1..len[s] -> Threads]
  BY <1>2, Zenon DEF Waiters
<1>4. Len(Waiters(s)) = len[s] /\ (len[s] = 0 => Waiters(s) = << >>)
  BY <1>1, <1>3
<1> QED BY <1>1, <1>3, <1>4, Zenon

(* Who waits, in the words of FifoSemaphore. *)
LEMMA WaitingIs ==
  ASSUME RingSeq, NEW t \in Threads, ~Queued(t)
  PROVE  ~Fifo!Waiting(t)
BY Zenon DEF RingSeq, Queued, Fifo!Waiting, Queue

(* The state that sem_init makes. *)
LEMMA FifoInit ==
  ASSUME Assumptions, Init
  PROVE  Fifo!Init
<1>1. IInv
  BY InitIInv, Zenon
<1>2. RingSeq
  BY <1>1, RingIsSeq, Zenon
<1>3. \A s \in Sems : len[s] = 0 /\ count[s] = InitCount
  BY Zenon DEF Init
<1>4. Queue = [s \in Sems |-> << >>]
  BY <1>2, <1>3, Zenon DEF Queue, RingSeq
<1>5. Value = [s \in Sems |-> InitCount]
  BY <1>3 DEF Value, Assumptions
<1>6. Granted = {}
  BY Zenon DEF Granted, InCall, Init
<1> QED BY <1>4, <1>5, <1>6, Zenon DEF Fifo!Init

(* Steps that FifoSemaphore does not see, or sees as a return. *)
LEMMA FifoStep ==
  ASSUME Assumptions, IInv, NEW t \in Threads, Step(t)
  PROVE  UNCHANGED Fifo!vars \/ Fifo!Return(t)
<1>1. count' = count /\ queuev' = queuev /\ \A u \in Threads \ {t} : pc'[u] = pc[u]
  BY ZenonT(60) DEF Step, Release, WaitRelease, Unpark, Park, ParkReturn, Return, GoTo, IInv, TypeOK
<1>2. /\ \A s \in Sems : Waiters(s)' = Waiters(s) /\ len'[s] = len[s]
      /\ Queue' = Queue /\ Value' = Value
  BY <1>1, Zenon DEF queuev, Waiters, Queue, Value
<1>3. \A u \in Threads : Queued(u)' <=> Queued(u)
  BY <1>2, Zenon DEF Queued
<1>4. \A u \in Threads \ {t} : InCall(u)' <=> InCall(u)
  BY <1>1, Zenon DEF InCall
<1>5. CASE InCall(t)' <=> InCall(t)
  <2>1. Granted' = Granted
    BY <1>3, <1>4, <1>5, Zenon DEF Granted
  <2> QED BY <1>2, <2>1, Zenon DEF Fifo!vars
<1>6. CASE ~(InCall(t)' <=> InCall(t))
  <2>1. InCall(t) /\ ~InCall(t)' /\ ~Queued(t)
    <3>1. WaitOf(t) /\ pc \in [Threads -> {"idle", "release", "wait", "unpark", "park", "parked"}]
      BY Zenon DEF IInv, WaitOK, TypeOK
    <3>2. Release(t) \/ WaitRelease(t) \/ Unpark(t) => (InCall(t)' <=> InCall(t))
      BY <3>1, Zenon DEF Release, WaitRelease, Unpark, At, Return, GoTo, InCall
    <3>3. ASSUME Park(t) PROVE InCall(t) /\ ~InCall(t)' /\ ~Queued(t)
      <4>1. pc[t] = "park" /\ InCall(t) /\ ~InCall(t)'
        BY <1>6, <3>3, Zenon DEF Park, At, InCall
      <4>2. sem[t] # 0
        BY <4>1, Zenon DEF IInv, GuardOK, Assumptions
      <4>3. lostwakeup[t] = sem[t]
        BY <3>1, <3>3, <4>1, Zenon DEF Park, GoTo, InCall
      <4> QED BY <3>1, <4>1, <4>2, <4>3, Zenon DEF WaitOf
    <3>4. ASSUME ParkReturn(t) PROVE InCall(t) /\ ~InCall(t)' /\ ~Queued(t)
      BY <1>6, <3>1, <3>4, Zenon DEF ParkReturn, At, InCall, WaitOf, Unwoken
    <3> QED BY <1>6, <3>2, <3>3, <3>4, Zenon DEF Step
  <2>2. t \in Granted /\ Granted' = Granted \ {t}
    BY <1>3, <1>4, <2>1, Zenon DEF Granted
  <2> QED BY <1>2, <2>2, Zenon DEF Fifo!Return
<1> QED BY <1>5, <1>6, Zenon

(* sem_up is Up. *)
LEMMA FifoUp ==
  ASSUME Assumptions, IInv, NEW t \in Threads, NEW s \in Sems, Up(t, s)
  PROVE  Fifo!Up(s)
<1>1. TypeOK /\ RingOK /\ RingSeq
  BY RingIsSeq, Zenon DEF IInv
<1>2. count' = [count EXCEPT ![s] = count[s] + 1] /\ count \in [Sems -> Int]
  BY <1>1, UpIs, Zenon DEF TypeOK
<1>3. IInv'
  BY UpWakes, UpFree, Zenon
<1>4. RingSeq'
  BY <1>3, RingIsSeq, PTL
<1>5. CASE count[s] < 0
  <2>1. /\ len[s] > 0 /\ deq(s) /\ \A u \in Threads : InCall(u)' <=> InCall(u)
    BY <1>5, UpWakes, Zenon
  <2>2. PICK h \in Threads : /\ h = Waiters(s)[1] /\ InCall(h) /\ Queued(h)
                             /\ \A u \in Threads : Queued(u)' <=> Queued(u) /\ u # h
    BY <1>5, UpWakes, Zenon
  <2>3. /\ \A r \in Sems \ {s} : Waiters(r)' = Waiters(r)
        /\ len'[s] = len[s] - 1
        /\ \A i \in 1..len[s] - 1 : Waiters(s)'[i] = Waiters(s)[i + 1]
    BY <1>1, <2>1, Dequeued, Zenon DEF TypeOK, RingOK
  <2>4. Waiters(s)' = Tail(Waiters(s)) /\ Head(Waiters(s)) = h /\ Waiters(s) # << >>
    <3>1. len[s] \in Nat /\ Waiters(s) \in [1..len[s] -> Threads] /\ Waiters(s)' \in [1..len[s] - 1 -> Threads]
      BY <1>1, <1>4, <2>3, Zenon DEF RingSeq
    <3>a. PICK n \in Nat : n = len[s]
      BY <3>1, Zenon
    <3>b. PICK q \in [1..n -> Threads] : q = Waiters(s)
      BY <3>1, <3>a, Zenon
    <3>c. PICK r \in [1..n - 1 -> Threads] : r = Waiters(s)'
      BY <3>1, <3>a, Zenon
    <3>2. n = len[s] /\ q = Waiters(s) /\ r = Waiters(s)'
      BY <3>a, <3>b, <3>c, Zenon
    <3>3. n > 0 /\ \A i \in 1..n - 1 : r[i] = q[i + 1]
      <4>1. n > 0
        BY <2>1, <3>2, Zenon
      <4>2. ASSUME NEW i \in 1..n - 1 PROVE r[i] = q[i + 1]
        <5>1. i \in 1..len[s] - 1
          BY <3>2, Zenon
        <5>2. Waiters(s)'[i] = Waiters(s)[i + 1]
          BY <2>3, <5>1, Zenon
        <5> QED BY <3>2, <5>2, Zenon
      <4> QED BY <4>1, <4>2, Zenon
    <3>4. r = Tail(q) /\ Head(q) = q[1] /\ q # << >>
      BY <3>3, TailIs, Zenon
    <3> QED BY <2>2, <3>2, <3>4, Zenon
  <2>5. Queue' = [Queue EXCEPT ![s] = Tail(Queue[s])]
    BY <2>3, <2>4, ExceptIs, Zenon DEF Queue
  <2>6. Granted' = Granted \cup {Head(Queue[s])} /\ Queue[s] # << >>
    <3>1. Granted' = Granted \cup {h}
      BY <2>1, <2>2, Zenon DEF Granted
    <3> QED BY <2>4, <3>1, Zenon DEF Queue
  <2>7. Value' = Value
    BY <1>2, <1>5 DEF Value
  <2> QED BY <2>5, <2>6, <2>7, Zenon DEF Fifo!Up
<1>6. CASE ~(count[s] < 0)
  <2>1. /\ len[s] = 0 /\ \A u \in Threads : InCall(u)' <=> InCall(u)
        /\ \A u \in Threads : Queued(u)' <=> Queued(u)
        /\ \A r \in Sems : Waiters(r)' = Waiters(r)
    BY <1>6, UpFree, Zenon
  <2>2. Queue' = Queue /\ Queue[s] = << >> /\ Granted' = Granted
    BY <1>1, <2>1, Zenon DEF Queue, Granted, RingSeq
  <2>3. Value' = [Value EXCEPT ![s] = Value[s] + 1]
    <3>1. \A r \in Sems \ {s} : count'[r] = count[r]
      BY <1>2, Zenon
    <3>2. count'[s] = count[s] + 1 /\ count[s] \in Int
      BY <1>2, Zenon
    <3>3. \A r \in Sems \ {s} : Value'[r] = Value[r]
      BY <3>1, Zenon DEF Value
    <3>4. Value'[s] = Value[s] + 1
      BY <1>6, <3>2 DEF Value
    <3> QED BY <3>3, <3>4, ExceptIs, Zenon DEF Value
  <2> QED BY <2>2, <2>3, Zenon DEF Fifo!Up
<1> QED BY <1>5, <1>6, Zenon

(* sem_down is Down. *)
LEMMA FifoDown ==
  ASSUME Assumptions, Fits, IInv, NEW t \in Threads, NEW s \in Sems, Down(t, s)
  PROVE  Fifo!Down(t, s)
<1>1. TypeOK /\ RingOK /\ RingSeq
  BY RingIsSeq, Zenon DEF IInv
<1>2. count' = [count EXCEPT ![s] = count[s] - 1] /\ count \in [Sems -> Int]
  BY <1>1, DownIs, Zenon DEF TypeOK
<1>3. IInv' /\ ~Queued(t) /\ ~InCall(t)
  BY DownWaits, DownFree, Zenon
<1>4. RingSeq'
  BY <1>3, RingIsSeq, PTL
<1>5. ~Fifo!Waiting(t) /\ t \notin Granted
  BY <1>1, <1>3, WaitingIs, Zenon DEF Granted
<1>6. CASE count[s] <= 0
  <2>1. /\ enq(s, t) /\ len[s] < QMAX
        /\ \A u \in Threads \ {t} : InCall(u)' <=> InCall(u)
        /\ \A u \in Threads : Queued(u)' <=> Queued(u) \/ u = t
    BY <1>6, DownWaits, Zenon
  <2>2. /\ \A r \in Sems \ {s} : Waiters(r)' = Waiters(r)
        /\ len'[s] = len[s] + 1
        /\ \A i \in 1..len[s] : Waiters(s)'[i] = Waiters(s)[i]
        /\ Waiters(s)'[len[s] + 1] = t
    BY <1>1, <2>1, Enqueued, Zenon DEF TypeOK, RingOK
  <2>3. Waiters(s)' = Append(Waiters(s), t)
    <3>1. len[s] \in Nat /\ Waiters(s) \in [1..len[s] -> Threads] /\ Waiters(s)' \in [1..len[s] + 1 -> Threads]
      BY <1>1, <1>4, <2>2, Zenon DEF RingSeq
    <3>a. PICK n \in Nat : n = len[s]
      BY <3>1, Zenon
    <3>b. PICK q \in [1..n -> Threads] : q = Waiters(s)
      BY <3>1, <3>a, Zenon
    <3>c. PICK r \in [1..n + 1 -> Threads] : r = Waiters(s)'
      BY <3>1, <3>a, Zenon
    <3>2. n = len[s] /\ q = Waiters(s) /\ r = Waiters(s)'
      BY <3>a, <3>b, <3>c, Zenon
    <3>3. r[n + 1] = t /\ \A i \in 1..n : r[i] = q[i]
      BY <2>2, <3>2, Zenon
    <3>4. r = Append(q, t)
      BY <3>3, AppendIs, Zenon
    <3> QED BY <3>2, <3>4, Zenon
  <2>4. Queue' = [Queue EXCEPT ![s] = Append(Queue[s], t)]
    BY <2>2, <2>3, ExceptIs, Zenon DEF Queue
  <2>5. Granted' = Granted
    BY <1>3, <2>1, Zenon DEF Granted
  <2>6. Value' = Value /\ ~(Value[s] > 0)
    BY <1>2, <1>6 DEF Value
  <2> QED BY <1>5, <2>4, <2>5, <2>6, Zenon DEF Fifo!Down
<1>7. CASE ~(count[s] <= 0)
  <2>1. /\ \A u \in Threads : InCall(u)' <=> InCall(u)
        /\ \A u \in Threads : Queued(u)' <=> Queued(u)
        /\ \A r \in Sems : Waiters(r)' = Waiters(r)
    BY <1>7, DownFree, Zenon
  <2>2. Queue' = Queue /\ Granted' = Granted
    BY <2>1, Zenon DEF Queue, Granted
  <2>3. Value' = [Value EXCEPT ![s] = Value[s] - 1] /\ Value[s] > 0
    <3>1. \A r \in Sems \ {s} : count'[r] = count[r]
      BY <1>2, Zenon
    <3>2. count'[s] = count[s] - 1 /\ count[s] \in Int
      BY <1>2, Zenon
    <3>3. \A r \in Sems \ {s} : Value'[r] = Value[r]
      BY <3>1, Zenon DEF Value
    <3>4. Value'[s] = Value[s] - 1 /\ Value[s] > 0
      BY <1>7, <3>2 DEF Value
    <3> QED BY <3>3, <3>4, ExceptIs, Zenon DEF Value
  <2> QED BY <1>5, <2>2, <2>3, Zenon DEF Fifo!Down
<1> QED BY <1>6, <1>7, Zenon

(* Every step is one of FifoSemaphore, or none. *)
LEMMA FifoNext ==
  ASSUME Assumptions, Fits, IInv, [Next]_vars
  PROVE  [Fifo!Next]_(Fifo!vars)
<1>1. ASSUME UNCHANGED vars PROVE UNCHANGED Fifo!vars
  BY <1>1, Zenon DEF vars, queuev, kernelv, Fifo!vars, Value, Queue, Granted, Waiters, InCall, Queued
<1>2. ASSUME NEW t \in Threads, Step(t) PROVE [Fifo!Next]_(Fifo!vars)
  BY <1>2, FifoStep, Zenon DEF Fifo!Next
<1>3. ASSUME NEW t \in Threads, NEW s \in Sems, Up(t, s) PROVE [Fifo!Next]_(Fifo!vars)
  BY <1>3, FifoUp, Zenon DEF Fifo!Next
<1>4. ASSUME NEW t \in Threads, NEW s \in Sems, Down(t, s) PROVE [Fifo!Next]_(Fifo!vars)
  BY <1>4, FifoDown, Zenon DEF Fifo!Next
<1> QED BY <1>1, <1>2, <1>3, <1>4, Zenon DEF Next

-----------------------------------------------------------------------------
(* The theorems. *)
INSTANCE FiniteSetTheorems

(* Counting is as the steps suppose. *)
LEMMA ThreadsFit ==
  ASSUME Assumptions
  PROVE  Fits
<1> SUFFICES ASSUME NEW n \in 0..QMAX, NEW t \in Threads, NEW q \in [1..n -> Threads \ {t}],
                    \A i, j \in 1..n : q[i] = q[j] => i = j
             PROVE  n < QMAX
  BY Zenon DEF Fits
<1>1. IsFiniteSet(Threads) /\ Cardinality(Threads) <= QMAX /\ QMAX \in Nat
  BY DEF Assumptions
<1>2. /\ IsFiniteSet(Threads \ {t}) /\ Cardinality(Threads) \in Nat
      /\ Cardinality(Threads \ {t}) = Cardinality(Threads) - 1
  BY <1>1, FS_RemoveElement, FS_CardinalityType, ZenonT(60)
<1>3. IsFiniteSet(1..n) /\ Cardinality(1..n) = n
  BY <1>1, FS_Interval, SMTT(30)
<1>4. ~(Cardinality(Threads \ {t}) < Cardinality(1..n))
  <2>1. SUFFICES ASSUME Cardinality(Threads \ {t}) < Cardinality(1..n) PROVE FALSE
    BY Zenon
  <2>2. \E i, j \in 1..n : i # j /\ q[i] = q[j]
    <3> DEFINE S == 1..n
               T == Threads \ {t}
    <3>1. IsFiniteSet(S) /\ IsFiniteSet(T) /\ Cardinality(T) < Cardinality(S) /\ q \in [S -> T]
      BY <1>2, <1>3, <2>1, ZenonT(60)
    <3> HIDE DEF S, T
    <3>2. \E i, j \in S : i # j /\ q[i] = q[j]
      BY <3>1, FS_PigeonHole, SMTT(30)
    <3> QED BY <3>2, Zenon DEF S
  <2> QED BY <2>2, Zenon
<1> QED BY <1>1, <1>2, <1>3, <1>4, SMTT(30)

(* The inductive invariant holds in every state. *)
THEOREM Invariance ==
  ASSUME Assumptions
  PROVE  Spec => []IInv
<1>1. Init => IInv
  BY InitIInv, Zenon
<1>2. IInv /\ [Next]_vars => IInv'
  BY ThreadsFit, NextIInv, Zenon
<1> QED BY <1>1, <1>2, PTL DEF Spec

(* A wakeup is spent once (park and unpark in proc.c, sem_up and sem_down  *)
(* in ucthreads.c): a thread outside sem_down has no remembered wakeup,    *)
(* and a thread in the ring has not been woken.                            *)
THEOREM SpentOnce ==
  ASSUME Assumptions
  PROVE  Spec => []WakeupSpentOnce
<1>1. IInv => WakeupSpentOnce
  BY Zenon DEF IInv, WaitOK, WaitOf, Unwoken, InCall, WakeupSpentOnce
<1> QED BY <1>1, Invariance, PTL

(* No wakeup is lost, though sem_down lets go of the guard before it calls *)
(* park: whoever has been taken from the ring is awake, or finds its       *)
(* wakeup remembered, or is about to be unparked.                          *)
THEOREM NotLost ==
  ASSUME Assumptions
  PROVE  Spec => []NoWakeupLost
<1>1. IInv => NoWakeupLost
  BY Zenon DEF IInv
<1> QED BY <1>1, Invariance, PTL

(* sem_up hands its unit to the thread that has waited longest, and only a *)
(* thread that was handed one returns from a sem_down that blocked, for    *)
(* every number of semaphores and of threads that fit the ring             *)
(* (ucthreads.c).                                                          *)
THEOREM FirstComeFirstServed ==
  ASSUME Assumptions
  PROVE  Spec => Fifo!Safety
<1>1. Init => Fifo!Init
  BY FifoInit, Zenon
<1>2. IInv /\ [Next]_vars => [Fifo!Next]_(Fifo!vars)
  BY ThreadsFit, FifoNext, Zenon
<1> QED BY <1>1, <1>2, Invariance, PTL DEF Spec, Fifo!Safety

=============================================================================
