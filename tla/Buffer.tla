------------------------------- MODULE Buffer -------------------------------
(***************************************************************************)
(* The buffer cache (bio.c) over the disk driver (ide.c, or memide.c for a *)
(* disk in memory), with a sleep lock (sleeplock.c) for each buffer.       *)
(* Threads read blocks, change and write them, or leave them dirty for the *)
(* log; buffers are recycled, in LRU order, while others wait for them.    *)
(* A critical section under a spinlock (bcache.lock, lk->lk, idelock) is a *)
(* step; sleep gives the spinlock up and stops the thread in one step.     *)
(***************************************************************************)
EXTENDS Integers, Sequences, FiniteSets, SequencesExt

CONSTANTS
  Threads, NBUF, Blocks, Vals, InitVal,
  Written      \* the blocks that threads change; they read all of them

Bufs == 1..NBUF
None == 0     \* no thread, no block

VARIABLES
  memfs,     \* the disk is memide.c's
  disk,
  buf,       \* of a buffer: blockno, refcnt, B_VALID, B_DIRTY, data, the owner of its lock
  lru,       \* the list of buffers, from head.next
  idequeue,  \* requests to the disk
  busy,      \* the buffer that idestart has started, or None
  pc, b, blk,  \* of a thread: where it is, its buffer and the block it wants
  chan,      \* of a thread: what it sleeps on, or None
  panicked

vars == <<memfs, disk, buf, lru, idequeue, busy, pc, b, blk, chan, panicked>>

NoBuf == [blockno |-> None, refcnt |-> 0, valid |-> FALSE, dirty |-> FALSE,
          data |-> InitVal, lock |-> None]

(* binit puts every buffer at the head of the list *)
Init ==
  /\ memfs \in BOOLEAN
  /\ disk = [k \in Blocks |-> InitVal]
  /\ buf = [i \in Bufs |-> NoBuf]
  /\ lru = [i \in Bufs |-> NBUF + 1 - i]
  /\ idequeue = << >> /\ busy = None
  /\ pc = [t \in Threads |-> "idle"]
  /\ b = [t \in Threads |-> None] /\ blk = [t \in Threads |-> None]
  /\ chan = [t \in Threads |-> <<"none", None>>]
  /\ panicked = FALSE

Awake == <<"none", None>>
At(t, l) == pc[t] = l /\ chan[t] = Awake /\ ~panicked
GoTo(t, l) == pc' = [pc EXCEPT ![t] = l]
Sleep(t, c) == chan' = [chan EXCEPT ![t] = c]
Wakeup(c) == chan' = [t \in Threads |-> IF chan[t] = c THEN Awake ELSE chan[t]]

-----------------------------------------------------------------------------
Cached(k) == {i \in Bufs : buf[i].blockno = k}

(* Mutation of Unused: B_DIRTY does not keep a buffer. *)
UnusedAlsoDirty(i) == buf[i].refcnt = 0

Unused(i) == buf[i].refcnt = 0 /\ ~buf[i].dirty

(* bget under bcache.lock: the buffer of the block, or else the least      *)
(* recently used one that is unused, whose data counts for nothing now     *)
bget(t, k) ==
  LET free == {n \in DOMAIN lru : Unused(lru[n])}
      last == lru[CHOOSE n \in free : \A m \in free : m <= n]
      i == IF Cached(k) # {} THEN CHOOSE j \in Cached(k) : TRUE ELSE last
  IN
  /\ At(t, "idle")
  /\ IF Cached(k) = {} /\ free = {}
     THEN panicked' = TRUE /\ UNCHANGED <<buf, b, blk, pc>>
     ELSE /\ buf' = [buf EXCEPT ![i] =
                       IF Cached(k) # {} THEN [@ EXCEPT !.refcnt = @ + 1]
                       ELSE [NoBuf EXCEPT !.blockno = k, !.refcnt = 1, !.lock = buf[i].lock]]
          /\ b' = [b EXCEPT ![t] = i] /\ blk' = [blk EXCEPT ![t] = k]
          /\ GoTo(t, "lock")
          /\ UNCHANGED panicked
  /\ UNCHANGED <<memfs, disk, lru, idequeue, busy, chan>>

(* acquiresleep, and in bread the test of B_VALID *)
acquiresleep(t) ==
  LET i == b[t] IN
  /\ At(t, "lock")
  /\ IF buf[i].lock # None
     THEN Sleep(t, <<"lock", i>>) /\ UNCHANGED <<buf, pc>>
     ELSE /\ buf' = [buf EXCEPT ![i].lock = t]
          /\ GoTo(t, IF buf[i].valid THEN "held" ELSE "read")
          /\ UNCHANGED chan
  /\ UNCHANGED <<memfs, disk, lru, idequeue, busy, b, blk, panicked>>

Waits == [read |-> "reading", write |-> "writing"]

(* Mutation of iderw: the disk is started only for a queue that was not empty. *)
iderwNoStart(t, l) ==
  /\ At(t, l) /\ ~memfs
  /\ idequeue' = Append(idequeue, b[t])
  /\ busy' = IF busy = None /\ idequeue # << >> THEN b[t] ELSE busy
  /\ Sleep(t, <<"buf", b[t]>>) /\ GoTo(t, Waits[l])
  /\ UNCHANGED <<memfs, disk, buf, lru, b, blk, panicked>>

(* iderw under idelock: the request is queued, the disk started if nothing *)
(* was queued before it, and the thread sleeps                             *)
iderw(t, l) ==
  /\ At(t, l) /\ ~memfs
  /\ idequeue' = Append(idequeue, b[t])
  /\ busy' = IF idequeue = << >> THEN b[t] ELSE busy
  /\ Sleep(t, <<"buf", b[t]>>) /\ GoTo(t, Waits[l])
  /\ UNCHANGED <<memfs, disk, buf, lru, b, blk, panicked>>

(* iderw after a wakeup: done, or to sleep again *)
iderw_wait(t, l) ==
  /\ At(t, Waits[l])
  /\ IF buf[b[t]].valid /\ ~buf[b[t]].dirty
     THEN GoTo(t, IF l = "read" THEN "held" ELSE "brelse") /\ UNCHANGED chan
     ELSE Sleep(t, <<"buf", b[t]>>) /\ UNCHANGED pc
  /\ UNCHANGED <<memfs, disk, buf, lru, idequeue, busy, b, blk, panicked>>

(* a buffer after its request, and the disk *)
Done(i) == [buf EXCEPT ![i].valid = TRUE, ![i].dirty = FALSE,
                       ![i].data = IF buf[i].dirty THEN @ ELSE disk[buf[i].blockno]]
Stored(i) == IF buf[i].dirty THEN [disk EXCEPT ![buf[i].blockno] = buf[i].data] ELSE disk

(* memide.c: the request is served in iderw *)
iderw_mem(t, l) ==
  /\ At(t, l) /\ memfs
  /\ buf' = Done(b[t]) /\ disk' = Stored(b[t])
  /\ GoTo(t, IF l = "read" THEN "held" ELSE "brelse")
  /\ UNCHANGED <<memfs, lru, idequeue, busy, b, blk, chan, panicked>>

(* The disk has served the request that it was started for. *)
ideintr ==
  LET i == Head(idequeue) IN
  /\ busy # None /\ ~panicked
  /\ buf' = Done(i) /\ disk' = Stored(i)
  /\ idequeue' = Tail(idequeue)
  /\ Wakeup(<<"buf", i>>)
  /\ busy' = IF Tail(idequeue) = << >> THEN None ELSE Head(Tail(idequeue))
  /\ UNCHANGED <<memfs, lru, pc, b, blk, panicked>>

-----------------------------------------------------------------------------
(* What a thread does with the buffer that bread returned: it only reads   *)
(* it; it changes it and calls bwrite; or it changes it and calls          *)
(* log_write, which sets B_DIRTY and leaves the writing to the log.        *)
Use(t) ==
  /\ At(t, "held")
  /\ \/ GoTo(t, "brelse") /\ UNCHANGED buf
     \/ \E v \in Vals, l \in {"write", "brelse"} :
          /\ blk[t] \in Written
          /\ buf' = [buf EXCEPT ![b[t]].data = v, ![b[t]].dirty = TRUE]
          /\ GoTo(t, l)
  /\ UNCHANGED <<memfs, disk, lru, idequeue, busy, b, blk, chan, panicked>>

(* brelse: the lock *)
releasesleep(t) ==
  /\ At(t, "brelse")
  /\ buf' = [buf EXCEPT ![b[t]].lock = None]
  /\ Wakeup(<<"lock", b[t]>>)
  /\ GoTo(t, "drop")
  /\ UNCHANGED <<memfs, disk, lru, idequeue, busy, b, blk, panicked>>

(* brelse under bcache.lock: the reference; an unused buffer goes to the   *)
(* head of the list                                                        *)
brelse(t) ==
  LET i == b[t] IN
  /\ At(t, "drop")
  /\ buf' = [buf EXCEPT ![i].refcnt = @ - 1]
  /\ lru' = IF buf[i].refcnt = 1 THEN <<i>> \o SelectSeq(lru, LAMBDA j : j # i) ELSE lru
  /\ b' = [b EXCEPT ![t] = None] /\ blk' = [blk EXCEPT ![t] = None]
  /\ GoTo(t, "idle")
  /\ UNCHANGED <<memfs, disk, idequeue, busy, chan, panicked>>

Next ==
  \/ ideintr
  \/ \E t \in Threads :
       \/ \E k \in Blocks : bget(t, k)
       \/ \E l \in {"read", "write"} : iderw(t, l) \/ iderw_wait(t, l) \/ iderw_mem(t, l)
       \/ acquiresleep(t) \/ Use(t) \/ releasesleep(t) \/ brelse(t)

Spec == Init /\ [][Next]_vars

-----------------------------------------------------------------------------
(* A thread that sleeps is going to be woken: who sleeps in iderw has its  *)
(* buffer in the queue, once, and the disk works on the first of the queue *)
(* whenever there is one (ideintr, iderw); who sleeps on a buffer's lock   *)
(* finds it taken by another thread (releasesleep).                        *)
SleepersAreServed ==
  /\ \A t \in Threads :
       /\ chan[t][1] = "buf" =>
            Cardinality({n \in DOMAIN idequeue : idequeue[n] = b[t]}) = 1
       /\ chan[t][1] = "lock" => buf[b[t]].lock \notin {None, t}
  /\ busy = IF idequeue = << >> THEN None ELSE Head(idequeue)

Owns(t) == pc[t] \in {"held", "write", "writing", "brelse"}

(* what BlockStore calls the content and the holders of a block *)
Copies(k) == {i \in Cached(k) : buf[i].valid}
Content == [k \in Blocks |-> IF Copies(k) = {} THEN disk[k]
                             ELSE buf[CHOOSE i \in Copies(k) : TRUE].data]
Holder == [k \in Blocks |-> {t \in Threads : Owns(t) /\ blk[t] = k}]
Store == INSTANCE BlockStore WITH content <- Content, holder <- Holder

(* The cache keeps the promise of BlockStore.  A block's content is that   *)
(* of its valid buffer, else that of the disk: there is never a second     *)
(* buffer for a block, one that is dirty or in use is not recycled, and a  *)
(* buffer that is recycled and read again has what was last written.       *)
Implements == Store!Spec
=============================================================================
