-------------------------- MODULE TicketLockProofs --------------------------
(***************************************************************************)
(* Mutual exclusion of the ticket lock, for any number of threads up to    *)
(* the number of values of a uint.  The inductive invariant says which     *)
(* tickets are in use: the ones from turn up to ticket, modulo M, one for  *)
(* each thread that has asked for the lock.                                *)
(***************************************************************************)
EXTENDS TicketLock, FiniteSetTheorems, TLAPS

HolderOK == \A t \in Threads : pc[t] = "locked" => mine[t] = turn

IInv == TypeOK /\ TicketsInUse /\ HolderOK

-----------------------------------------------------------------------------
(* The threads that have asked are a finite set, no larger than M.         *)
LEMMA AskedFinite ==
  IsFiniteSet(Asked) /\ Cardinality(Asked) \in Nat /\ Cardinality(Asked) <= M
<1>1. Asked \subseteq Threads
  BY DEF Asked
<1>2. IsFiniteSet(Asked) /\ Cardinality(Asked) <= Cardinality(Threads)
  BY <1>1, ThreadsAssumption, FS_Subset
<1>3. Cardinality(Asked) \in Nat /\ Cardinality(Threads) \in Nat
  BY <1>2, ThreadsAssumption, FS_CardinalityType
<1> QED BY <1>2, <1>3, MAssumption

(* Initially nobody has asked.                                             *)
LEMMA InitIInv == Init => IInv
<1> SUFFICES ASSUME Init PROVE IInv
  OBVIOUS
<1>1. Asked = {}
  BY DEF Init, Asked
<1>2. Cardinality(Asked) = 0
  BY <1>1, FS_EmptySet
<1>3. TypeOK
  BY MAssumption DEF Init, TypeOK
<1>4. TicketsInUse
  BY <1>1, <1>2, MAssumption DEF Init, TicketsInUse
<1>5. HolderOK
  BY DEF Init, HolderOK
<1> QED BY <1>3, <1>4, <1>5 DEF IInv

(* A new ticket comes last: it is none of those in use, as there are fewer *)
(* than M.                                                                 *)
LEMMA DrawPlace ==
  ASSUME IInv, NEW t \in Threads, Draw(t)
  PROVE  /\ t \notin Asked /\ Asked' = Asked \cup {t}
         /\ Cardinality(Asked)' = Cardinality(Asked) + 1 /\ Cardinality(Asked) + 1 <= M
         /\ Wait(ticket) = Cardinality(Asked)
         /\ turn' = turn /\ mine'[t] = ticket /\ pc'[t] = "spin"
         /\ \A u \in Threads \ {t} : mine'[u] = mine[u] /\ pc'[u] = pc[u]
<1> DEFINE n == Cardinality(Asked)
<1>1. t \notin Asked /\ Asked' = Asked \cup {t}
  BY DEF Asked, Draw, IInv, TypeOK
<1>2. n \in Nat /\ Cardinality(Asked)' = n + 1 /\ n + 1 <= M
  <2>1. Cardinality(Asked \cup {t}) = n + 1
    BY <1>1, AskedFinite, FS_AddElement
  <2>2. /\ Asked \cup {t} \subseteq Threads
    BY DEF Asked
  <2>3. Cardinality(Asked \cup {t}) <= Cardinality(Threads)
    BY <2>2, ThreadsAssumption, FS_Subset
  <2>4. Cardinality(Threads) \in Nat
    BY ThreadsAssumption, FS_CardinalityType
  <2> QED BY <1>1, <2>1, <2>3, <2>4, AskedFinite, MAssumption
<1>3. Wait(ticket) = n
  BY <1>2, MAssumption DEF IInv, TypeOK, TicketsInUse, Wait
<1>4. /\ turn' = turn /\ mine'[t] = ticket /\ pc'[t] = "spin"
      /\ \A u \in Threads \ {t} : mine'[u] = mine[u] /\ pc'[u] = pc[u]
  BY DEF Draw, IInv, TypeOK
<1> QED BY <1>1, <1>2, <1>3, <1>4, Zenon

(* A thread that asks keeps the tickets in order.                          *)
LEMMA DrawIInv == ASSUME IInv, NEW t \in Threads, Draw(t) PROVE IInv'
<1> DEFINE n == Cardinality(Asked)
<1>1. t \notin Asked /\ Asked' = Asked \cup {t}
  BY DrawPlace, Zenon
<1>2. n \in Nat /\ Cardinality(Asked)' = n + 1 /\ n + 1 <= M
  BY DrawPlace, AskedFinite, Zenon
<1>3. TypeOK'
  BY MAssumption DEF IInv, TypeOK, Draw, Succ
<1>4. Wait(ticket) = n
  BY DrawPlace, Zenon
<1>5. /\ turn' = turn /\ mine'[t] = ticket /\ pc'[t] = "spin"
      /\ \A u \in Threads \ {t} : mine'[u] = mine[u] /\ pc'[u] = pc[u]
  BY DrawPlace, Zenon
<1>6. \A u \in Asked : /\ u # t /\ u \in Threads /\ mine'[u] = mine[u]
                       /\ Wait(mine[u]) < n /\ mine[u] # ticket
  BY <1>1, <1>2, <1>4, <1>5 DEF IInv, TicketsInUse, Asked
<1>7. TicketsInUse'
  <2>1. ASSUME NEW u \in Asked', NEW v \in Asked', mine'[u] = mine'[v] PROVE u = v
    BY <1>1, <1>5, <1>6, <2>1 DEF IInv, TicketsInUse
  <2>2. ASSUME NEW u \in Asked' PROVE Wait(mine[u])' < n + 1
    <3>1. CASE u = t
      BY <3>1, <1>2, <1>4, <1>5 DEF Wait
    <3>2. CASE u \in Asked
      <4>1. Wait(mine[u])' = Wait(mine[u])
        BY <3>2, <1>5, <1>6 DEF Wait
      <4>2. Wait(mine[u]) \in Int
        BY <1>6, <3>2, MAssumption DEF IInv, TypeOK, Wait
      <4> QED BY <4>1, <4>2, <3>2, <1>2, <1>6
    <3> QED BY <1>1, <3>1, <3>2
  <2>3. ticket' = IF turn' + (n + 1) >= M THEN turn' + (n + 1) - M ELSE turn' + (n + 1)
    BY <1>2, <1>5, MAssumption DEF IInv, TypeOK, TicketsInUse, Draw, Succ
  <2> QED BY <1>2, <2>1, <2>2, <2>3 DEF TicketsInUse
<1>8. HolderOK'
  BY <1>5 DEF IInv, HolderOK
<1> QED BY <1>3, <1>7, <1>8 DEF IInv

(* A thread that takes the lock changes no ticket.                         *)
LEMMA TakeIInv == ASSUME IInv, NEW t \in Threads, Take(t) PROVE IInv'
<1>1. Asked' = Asked /\ ticket' = ticket /\ turn' = turn /\ mine' = mine
  BY DEF Asked, Take, IInv, TypeOK
<1>2. TypeOK'
  BY DEF IInv, TypeOK, Take
<1>3. TicketsInUse'
  BY <1>1 DEF IInv, TicketsInUse, Wait
<1>4. HolderOK'
  BY DEF IInv, HolderOK, Take, TypeOK
<1> QED BY <1>2, <1>3, <1>4 DEF IInv

(* When the holder leaves, every other ticket is one closer to its turn.   *)
LEMMA ReleasePlace ==
  ASSUME IInv, NEW t \in Threads, Release(t)
  PROVE  /\ t \in Asked /\ Asked' = Asked \ {t}
         /\ Cardinality(Asked)' = Cardinality(Asked) - 1 /\ Cardinality(Asked) >= 1
         /\ turn' = Succ(turn) /\ ticket' = ticket /\ mine[t] = turn
         /\ \A u \in Threads \ {t} : mine'[u] = mine[u] /\ pc'[u] = pc[u]
         /\ \A u \in Asked \ {t} : /\ mine'[u] = mine[u] /\ mine[u] # turn
                                   /\ Wait(mine[u])' = Wait(mine[u]) - 1
                                   /\ Wait(mine[u])' < Cardinality(Asked) - 1
<1> DEFINE n == Cardinality(Asked)
<1>1. t \in Asked /\ Asked' = Asked \ {t}
  BY DEF Asked, Release, IInv, TypeOK
<1>2. n \in Nat /\ n <= M /\ Cardinality(Asked)' = n - 1 /\ n >= 1
  <2>1. Cardinality(Asked \ {t}) = n - 1 /\ IsFiniteSet(Asked \ {t})
    BY <1>1, AskedFinite, FS_RemoveElement
  <2>2. Cardinality(Asked \ {t}) \in Nat
    BY <2>1, FS_CardinalityType
  <2> QED BY <1>1, <2>1, <2>2, AskedFinite
<1>3. /\ turn' = Succ(turn) /\ ticket' = ticket /\ mine[t] = turn
      /\ \A u \in Threads \ {t} : mine'[u] = mine[u] /\ pc'[u] = pc[u]
  BY DEF Release, IInv, TypeOK, HolderOK
<1>4. ASSUME NEW u \in Asked \ {t}
      PROVE  /\ mine'[u] = mine[u] /\ mine[u] # turn
             /\ Wait(mine[u])' = Wait(mine[u]) - 1
             /\ Wait(mine[u])' < n - 1
  <2>1. u \in Threads /\ mine'[u] = mine[u]
    BY <1>3 DEF Asked
  <2>2. mine[u] # turn
    BY <1>1, <1>3 DEF IInv, TicketsInUse
  <2>3. mine[u] \in 0..M - 1 /\ turn \in 0..M - 1 /\ M \in Nat \ {0}
    BY <2>1, MAssumption DEF IInv, TypeOK
  <2>4. Wait(mine[u])' = Wait(mine[u]) - 1
    BY <2>1, <2>2, <2>3, <1>3 DEF Wait, Succ
  <2>5. Wait(mine[u]) < n /\ Wait(mine[u]) \in Int
    BY <2>3 DEF IInv, TicketsInUse, Wait
  <2> QED BY <2>1, <2>2, <2>4, <2>5, <1>2
<1> QED BY <1>1, <1>2, <1>3, <1>4, Zenon

(* The holder that leaves keeps the tickets in order.                      *)
LEMMA ReleaseIInv == ASSUME IInv, NEW t \in Threads, Release(t) PROVE IInv'
<1> DEFINE n == Cardinality(Asked)
<1>1. t \in Asked /\ Asked' = Asked \ {t}
  BY ReleasePlace, Zenon
<1>2. n \in Nat /\ n <= M /\ Cardinality(Asked)' = n - 1 /\ n >= 1
  BY ReleasePlace, AskedFinite, Zenon
<1>3. TypeOK'
  BY MAssumption DEF IInv, TypeOK, Release, Succ
<1>4. /\ turn' = Succ(turn) /\ ticket' = ticket /\ mine[t] = turn
      /\ \A u \in Threads \ {t} : mine'[u] = mine[u] /\ pc'[u] = pc[u]
  BY ReleasePlace, Zenon
<1>5. \A u \in Asked \ {t} : /\ mine'[u] = mine[u] /\ mine[u] # turn
                            /\ Wait(mine[u])' = Wait(mine[u]) - 1
                            /\ Wait(mine[u])' < n - 1
  BY ReleasePlace, Zenon
<1>6. TicketsInUse'
  <2>1. ASSUME NEW u \in Asked', NEW v \in Asked', mine'[u] = mine'[v] PROVE u = v
    BY <1>1, <1>5, <2>1 DEF IInv, TicketsInUse
  <2>2. ASSUME NEW u \in Asked' PROVE Wait(mine[u])' < n - 1
    BY <1>1, <1>5
  <2>3. ticket' = IF turn' + (n - 1) >= M THEN turn' + (n - 1) - M ELSE turn' + (n - 1)
    BY <1>2, <1>4, MAssumption DEF IInv, TypeOK, TicketsInUse, Succ
  <2> QED BY <1>2, <2>1, <2>2, <2>3 DEF TicketsInUse
<1>7. HolderOK'
  <2>1. ASSUME NEW u \in Threads, pc'[u] = "locked" PROVE FALSE
    <3>1. u # t /\ pc[u] = "locked"
      BY <2>1, <1>4 DEF Release, IInv, TypeOK
    <3>2. mine[u] = turn /\ u \in Asked \ {t}
      BY <3>1 DEF IInv, HolderOK, Asked
    <3> QED BY <3>2, <1>5
  <2> QED BY <2>1 DEF HolderOK
<1> QED BY <1>3, <1>6, <1>7 DEF IInv

(* The invariant is inductive.                                             *)
LEMMA NextIInv == IInv /\ [Next]_vars => IInv'
<1> SUFFICES ASSUME IInv, [Next]_vars PROVE IInv'
  OBVIOUS
<1>1. CASE UNCHANGED vars
  BY <1>1 DEF vars, IInv, TypeOK, TicketsInUse, HolderOK, Asked, Wait
<1>2. ASSUME NEW t \in Threads, Draw(t) \/ Take(t) \/ Release(t) PROVE IInv'
  BY <1>2, DrawIInv, TakeIInv, ReleaseIInv
<1> QED BY <1>1, <1>2 DEF Next

(* The tickets in use stay distinct and consecutive, whatever the width of *)
(* the counters and however often they wrap around.                        *)
THEOREM TicketsCorrect == Spec => []TicketsInUse
<1>1. IInv => TicketsInUse
  BY DEF IInv
<1> QED BY <1>1, InitIInv, NextIInv, PTL DEF Spec

(* tlock_acquire and tlock_release exclude: no two threads are between     *)
(* them, for every number of threads that a uint can count.                *)
THEOREM LockExcludes == Spec => []MutualExclusion
<1>1. IInv => MutualExclusion
  BY DEF IInv, HolderOK, TicketsInUse, Asked, MutualExclusion
<1> QED BY <1>1, InitIInv, NextIInv, PTL DEF Spec

(* The counters and the tickets stay uints.                                *)
THEOREM TicketTypes == Spec => []TypeOK
<1>1. IInv => TypeOK
  BY DEF IInv
<1> QED BY <1>1, InitIInv, NextIInv, PTL DEF Spec

-----------------------------------------------------------------------------
(* The order in which the lock is granted. *)

(* Each of the next turns is some thread's.                                *)
TurnsTaken == \A i \in 0..Cardinality(Asked) - 1 : \E t \in Asked : Wait(mine[t]) = i

(* The place of a thread in the queue is its own.                          *)
LEMMA PlaceUnique ==
  ASSUME IInv, NEW t \in Asked, NEW u \in Asked, Wait(mine[t]) = Wait(mine[u])
  PROVE  t = u
<1>1. mine[t] \in 0..M - 1 /\ mine[u] \in 0..M - 1 /\ turn \in 0..M - 1 /\ M \in Nat
  BY MAssumption DEF IInv, TypeOK, Asked
<1>2. mine[t] = mine[u]
  BY <1>1 DEF Wait
<1> QED BY <1>2 DEF IInv, TicketsInUse

(* The queue lists the threads that have asked in the order of their turns. *)
Placed ==
  /\ Queue \in [1..Cardinality(Asked) -> Asked]
  /\ \A i \in 1..Cardinality(Asked) : Wait(mine[Queue[i]]) = i - 1
  /\ \A t \in Asked, i \in 1..Cardinality(Asked) : Wait(mine[t]) = i - 1 => Queue[i] = t

(* It does when every turn is taken.                                       *)
LEMMA QueuePlaced == IInv /\ TurnsTaken => Placed
<1> SUFFICES ASSUME IInv, TurnsTaken PROVE Placed
  OBVIOUS
<1>1. ASSUME NEW i \in 1..Cardinality(Asked)
      PROVE  Queue[i] \in Asked /\ Wait(mine[Queue[i]]) = i - 1
  <2>1. i - 1 \in 0..Cardinality(Asked) - 1
    BY AskedFinite
  <2>2. \E t \in Asked : Wait(mine[t]) = i - 1
    BY <2>1, Zenon DEF TurnsTaken
  <2>3. Queue[i] = CHOOSE t \in Asked : Wait(mine[t]) = i - 1
    BY Zenon DEF Queue
  <2> QED BY <2>2, <2>3, Zenon
<1>2. ASSUME NEW t \in Asked, NEW i \in 1..Cardinality(Asked), Wait(mine[t]) = i - 1
      PROVE  Queue[i] = t
  BY <1>1, <1>2, PlaceUnique, Zenon
<1>3. Queue \in [1..Cardinality(Asked) -> Asked]
  BY <1>1 DEF Queue
<1> QED BY <1>1, <1>2, <1>3, Zenon DEF Placed

(* Initially the queue is empty, and nobody holds the lock.                *)
LEMMA InitQueue == Init => TurnsTaken /\ Fifo!Init
<1> SUFFICES ASSUME Init PROVE TurnsTaken /\ Fifo!Init
  OBVIOUS
<1>1. Asked = {} /\ Holders = {}
  BY DEF Init, Asked, Holders
<1>2. Cardinality(Asked) = 0
  BY <1>1, FS_EmptySet
<1>3. TurnsTaken
  BY <1>2 DEF TurnsTaken
<1>4. Queue = << >>
  BY <1>2 DEF Queue
<1> QED BY <1>1, <1>3, <1>4 DEF Fifo!Init

(* A thread that draws a ticket goes to the end of the queue.              *)
LEMMA DrawQueue ==
  ASSUME IInv, TurnsTaken, NEW t \in Threads, Draw(t)
  PROVE  TurnsTaken' /\ Fifo!Ask(t)
<1> DEFINE n == Cardinality(Asked)
<1>1. /\ t \notin Asked /\ Asked' = Asked \cup {t} /\ Cardinality(Asked)' = n + 1
      /\ n \in Nat /\ Wait(mine[t])' = n
      /\ \A u \in Asked : Wait(mine[u])' = Wait(mine[u])
  <2>1. Wait(mine[t])' = n
    BY DrawPlace DEF Wait
  <2>2. \A u \in Asked : u \in Threads \ {t}
    BY DrawPlace, Zenon DEF Asked
  <2>3. \A u \in Asked : Wait(mine[u])' = Wait(mine[u])
    BY DrawPlace, <2>2 DEF Wait
  <2> QED BY DrawPlace, AskedFinite, <2>1, <2>3, Zenon
<1>2. TurnsTaken'
  <2> SUFFICES ASSUME NEW i \in 0..n PROVE \E u \in Asked' : Wait(mine[u])' = i
    BY <1>1 DEF TurnsTaken
  <2>1. CASE i = n
    BY <1>1, <2>1, Zenon
  <2>2. CASE i # n
    <3>1. i \in 0..n - 1
      BY <1>1, <2>2
    <3> QED BY <1>1, <3>1, Zenon DEF TurnsTaken
  <2> QED BY <2>1, <2>2, Zenon
<1>3. Placed
  BY QueuePlaced, Zenon
<1>4. Placed'
  BY <1>2, DrawIInv, QueuePlaced, PTL
<1>5. Queue' = Append(Queue, t)
  <2>1. Queue \in [1..n -> Asked] /\ Queue' \in [1..n + 1 -> Asked']
    BY <1>1, <1>3, <1>4, Zenon DEF Placed
  <2>2. ASSUME NEW i \in 1..n PROVE Queue'[i] = Queue[i]
    <3>1. Queue[i] \in Asked /\ Wait(mine[Queue[i]]) = i - 1
      BY <1>3, <2>1, Zenon DEF Placed
    <3>2. Queue[i] \in Asked' /\ i \in 1..Cardinality(Asked)'
      BY <1>1, <3>1
    <3> DEFINE q == Queue[i]
    <3>3. PICK u \in Asked : u = q
      BY <3>1, Zenon
    <3>4. Wait(mine[u])' = i - 1
      BY <1>1, <3>1, <3>3, Zenon
    <3> QED BY <1>4, <3>2, <3>3, <3>4, Zenon DEF Placed
  <2>3. Queue'[n + 1] = t
    <3>1. t \in Asked' /\ n + 1 \in 1..Cardinality(Asked)' /\ Wait(mine[t])' = (n + 1) - 1
      BY <1>1
    <3> QED BY <1>4, <3>1, Zenon DEF Placed
  <2> QED BY <1>1, <2>1, <2>2, <2>3
<1>6. ASSUME NEW i \in DOMAIN Queue PROVE Queue[i] # t
  <2>1. Queue \in [1..n -> Asked]
    BY <1>3, Zenon DEF Placed
  <2>2. t \notin Asked
    BY <1>1, Zenon
  <2>3. Queue[i] \in Asked
    <3> HIDE DEF n
    <3> QED BY <1>6, <2>1, Zenon
  <2> QED BY <2>2, <2>3, Zenon
<1>7. Holders' = Holders
  BY DEF Holders, Draw, IInv, TypeOK
<1> QED BY <1>2, <1>5, <1>6, <1>7, Zenon DEF Fifo!Ask

(* Only the first in the queue takes the lock, when nobody holds it.       *)
LEMMA TakeQueue ==
  ASSUME IInv, TurnsTaken, NEW t \in Threads, Take(t)
  PROVE  TurnsTaken' /\ Fifo!Take(t)
<1>1. /\ Asked' = Asked /\ turn' = turn /\ mine' = mine
      /\ t \in Asked /\ mine[t] = turn /\ turn \in 0..M - 1
  BY DEF Asked, Take, IInv, TypeOK
<1>2. TurnsTaken' /\ Queue' = Queue
  <2>1. \A u \in Asked : Wait(mine[u])' = Wait(mine[u])
    BY <1>1 DEF Wait
  <2>2. TurnsTaken'
    BY <1>1, <2>1, Zenon DEF TurnsTaken
  <2>3. Queue' = Queue
    BY <1>1 DEF Queue, Wait
  <2> QED BY <2>2, <2>3, Zenon
<1>3. Queue # << >> /\ Head(Queue) = t
  <2>1. Placed
    BY QueuePlaced, Zenon
  <2>2. Wait(mine[t]) = 0
    BY <1>1 DEF Wait
  <2>3. 1 \in 1..Cardinality(Asked)
    <3>1. Cardinality(Asked) # 0
      BY <1>1, AskedFinite, FS_EmptySet, Zenon
    <3> QED BY <3>1, AskedFinite
  <2>4. Queue[1] = t
    <3>1. Wait(mine[t]) = 1 - 1
      BY <2>2
    <3> QED BY <1>1, <2>1, <2>3, <3>1, Zenon DEF Placed
  <2>5. Queue \in [1..Cardinality(Asked) -> Asked] /\ Cardinality(Asked) \in Nat
    BY <2>1, AskedFinite, Zenon DEF Placed
  <2> QED BY <2>3, <2>4, <2>5
<1>4. Holders = {}
  <2> SUFFICES ASSUME NEW u \in Threads, pc[u] = "locked" PROVE FALSE
    BY Zenon DEF Holders
  <2>1. u \in Asked /\ mine[u] = turn
    BY DEF IInv, HolderOK, Asked
  <2>2. u = t
    BY <1>1, <2>1, Zenon DEF IInv, TicketsInUse
  <2> QED BY <2>2 DEF Take
<1>5. Holders' = {t}
  <2>1. \A u \in Threads : pc'[u] = "locked" <=> pc[u] = "locked" \/ u = t
    BY DEF Take, IInv, TypeOK
  <2> QED BY <1>4, <2>1, Zenon DEF Holders
<1> QED BY <1>2, <1>3, <1>4, <1>5, Zenon DEF Fifo!Take

(* The holder that leaves was the first, and the others move up.           *)
LEMMA ReleaseQueue ==
  ASSUME IInv, TurnsTaken, NEW t \in Threads, Release(t)
  PROVE  TurnsTaken' /\ Fifo!Release(t)
<1> DEFINE n == Cardinality(Asked)
<1>1. /\ t \in Asked /\ Asked' = Asked \ {t} /\ mine[t] = turn
      /\ n \in Nat /\ n >= 1 /\ Cardinality(Asked)' = n - 1
      /\ \A u \in Asked \ {t} : Wait(mine[u])' = Wait(mine[u]) - 1
  BY ReleasePlace, AskedFinite, Zenon
<1>2. Wait(mine[t]) = 0
  BY <1>1 DEF Wait, IInv, TypeOK
<1>3. Placed
  BY QueuePlaced, Zenon
<1>4. ASSUME NEW i \in 1..n - 1, NEW u, u = Queue[i + 1]
      PROVE  u \in Asked' /\ Wait(mine[u])' = i - 1
  <2>1. i + 1 \in 1..n
    BY <1>1
  <2>2. u \in Asked /\ Wait(mine[u]) = (i + 1) - 1
    BY <1>3, <1>4, <2>1, Zenon DEF Placed
  <2>3. u # t
    BY <1>2, <2>2
  <2> QED BY <1>1, <2>2, <2>3
<1>5. TurnsTaken'
  <2> SUFFICES ASSUME NEW i \in 0..n - 2 PROVE \E u \in Asked' : Wait(mine[u])' = i
    BY <1>1 DEF TurnsTaken
  <2>1. i + 1 \in 1..n - 1 /\ (i + 1) - 1 = i
    BY <1>1
  <2>2. PICK u : u = Queue[(i + 1) + 1]
    OBVIOUS
  <2> QED BY <1>4, <2>1, <2>2
<1>6. Placed'
  BY <1>5, ReleaseIInv, QueuePlaced, PTL
<1>7. Queue' = Tail(Queue)
  <2>1. Queue \in [1..n -> Asked] /\ Queue' \in [1..n - 1 -> Asked']
    BY <1>1, <1>3, <1>6, Zenon DEF Placed
  <2>2. ASSUME NEW i \in 1..n - 1 PROVE Queue'[i] = Queue[i + 1]
    <3>1. PICK u : u = Queue[i + 1]
      OBVIOUS
    <3>2. u \in Asked' /\ Wait(mine[u])' = i - 1 /\ i \in 1..Cardinality(Asked)'
      BY <1>1, <1>4, <3>1, Zenon
    <3>3. Queue'[i] = u
      BY <1>6, <3>2, Zenon DEF Placed
    <3> QED BY <3>1, <3>3, Zenon
  <2> QED BY <1>1, <2>1, <2>2
<1>8. Holders = {t} /\ Holders' = {}
  <2>1. ASSUME NEW u \in Threads, pc[u] = "locked" PROVE u = t
    <3>1. u \in Asked /\ mine[u] = turn
      BY <2>1 DEF IInv, HolderOK, Asked
    <3> QED BY <1>1, <3>1, Zenon DEF IInv, TicketsInUse
  <2>2. pc[t] = "locked" /\ \A u \in Threads : pc'[u] = IF u = t THEN "idle" ELSE pc[u]
    BY DEF Release, IInv, TypeOK
  <2> QED BY <2>1, <2>2 DEF Holders
<1> QED BY <1>5, <1>7, <1>8, Zenon DEF Fifo!Release

(* Every step of the lock is one of the queue, or none.                    *)
LEMMA NextQueue == IInv /\ TurnsTaken /\ [Next]_vars => TurnsTaken' /\ [Fifo!Next]_(Fifo!vars)
<1> SUFFICES ASSUME IInv, TurnsTaken, [Next]_vars PROVE TurnsTaken' /\ [Fifo!Next]_(Fifo!vars)
  OBVIOUS
<1>1. CASE UNCHANGED vars
  <2>1. TurnsTaken'
    BY <1>1, Zenon DEF vars, TurnsTaken, Asked, Wait
  <2>2. Queue' = Queue /\ Holders' = Holders
    BY <1>1 DEF vars, Queue, Holders, Asked, Wait
  <2> QED BY <2>1, <2>2, Zenon DEF Fifo!vars
<1>2. ASSUME NEW t \in Threads, Draw(t) \/ Take(t) \/ Release(t)
      PROVE  TurnsTaken' /\ Fifo!Next
  BY <1>2, DrawQueue, TakeQueue, ReleaseQueue, Zenon DEF Fifo!Next
<1> QED BY <1>1, <1>2, Zenon DEF Next

(* The ticket lock implements the safety of a lock that is granted in the  *)
(* order in which it was asked for (ucthreads.c), for every number of      *)
(* threads that a uint can count, however often the counters wrap around.  *)
THEOREM FirstComeFirstServed == Spec => Fifo!Safety
  BY InitIInv, NextIInv, InitQueue, NextQueue, PTL DEF Spec, Fifo!Safety

=============================================================================
