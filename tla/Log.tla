-------------------------------- MODULE Log --------------------------------
(***************************************************************************)
(* The write-ahead log (log.c): operations of the file system that run at  *)
(* the same time, the group commit, crashes at any moment and recovery,    *)
(* which may crash too.  A disk block is written at once or not at all     *)
(* (BSIZE is the size of a sector).                                        *)
(*                                                                         *)
(* cache is the buffer cache (bio.c) as the operations see it: a buffer    *)
(* that is not B_DIRTY may be recycled at any time and is then read from   *)
(* the disk again.                                                         *)
(***************************************************************************)
EXTENDS Integers, Sequences, FiniteSets

CONSTANTS
  Ops,          \* the threads that run operations of the file system
  Blocks, Vals, InitVal,
  MAXOPBLOCKS,  \* blocks that begin_op reserves for an operation
  LOGSIZE,      \* entries of the log header
  logsize       \* log.size: blocks of the log on disk, the header included

(* param.h: LOGSIZE is three times MAXOPBLOCKS *)
ASSUME SizeAssumption ==
  /\ MAXOPBLOCKS \in Nat \ {0} /\ LOGSIZE \in Nat \ {0} /\ logsize \in Nat \ {0}
  /\ MAXOPBLOCKS <= LOGSIZE
ASSUME ValAssumption == InitVal \in Vals
ASSUME OpsAssumption == IsFiniteSet(Ops)

VARIABLES
  disk, logblk, head,       \* on disk: home blocks, log blocks, log header
  cache, dirty,             \* the buffer cache and B_DIRTY
  lh, outstanding, committing,  \* struct log
  boot,                     \* "up", or where initlog is in recover_from_log
  pc, state, tail,          \* of a thread; tail is the local of write_log and install_trans
  blk, wrote,               \* the block that a thread holds, those its operation has written
  panicked

diskv == <<disk, logblk, head>>
logv  == <<lh, outstanding, committing>>
procv == <<pc, state, blk, wrote>>
vars  == <<diskv, cache, dirty, logv, boot, procv, tail, panicked>>

-----------------------------------------------------------------------------
First == CHOOSE b \in Blocks : TRUE

Init ==
  /\ disk = [b \in Blocks |-> InitVal]
  /\ logblk = [i \in 1..LOGSIZE |-> InitVal] /\ head = << >>
  /\ cache = disk /\ dirty = {}
  /\ lh = << >> /\ outstanding = 0 /\ committing = FALSE
  /\ boot = "up" /\ tail = 0
  /\ pc = [p \in Ops |-> "idle"] /\ state = [p \in Ops |-> "RUNNABLE"]
  /\ blk = [p \in Ops |-> First] /\ wrote = [p \in Ops |-> {}]
  /\ panicked = FALSE

At(p, l) == boot = "up" /\ ~panicked /\ state[p] = "RUNNABLE" /\ pc[p] = l
GoTo(p, l) == pc' = [pc EXCEPT ![p] = l]
Wakeup == state' = [p \in Ops |-> "RUNNABLE"]

HasSpace == Len(lh) + (outstanding + 1) * MAXOPBLOCKS <= LOGSIZE

begin_op(p) ==
  /\ At(p, "idle")
  /\ IF ~committing /\ HasSpace
     THEN outstanding' = outstanding + 1 /\ GoTo(p, "op") /\ UNCHANGED state
     ELSE state' = [state EXCEPT ![p] = "SLEEPING"] /\ UNCHANGED <<pc, outstanding>>
  /\ UNCHANGED <<diskv, cache, dirty, lh, committing, boot, blk, wrote, tail, panicked>>

(* The buffer of block b is held by a thread between bread and brelse. *)
Held(b) == \E p \in Ops : pc[p] = "append" /\ blk[p] = b

(* An operation reads a block, modifies its buffer and calls log_write,    *)
(* which looks at log.lh.n before it has taken log.lock.  An operation     *)
(* writes at most MAXOPBLOCKS different blocks (param.h).                  *)
log_write(p, b, v) ==
  /\ At(p, "op") /\ ~Held(b)
  /\ Cardinality(wrote[p] \cup {b}) <= MAXOPBLOCKS
  /\ cache' = [cache EXCEPT ![b] = v]
  /\ blk' = [blk EXCEPT ![p] = b]
  /\ wrote' = [wrote EXCEPT ![p] = @ \cup {b}]
  /\ GoTo(p, "append")
  /\ panicked' = (Len(lh) >= LOGSIZE \/ Len(lh) >= logsize - 1 \/ outstanding < 1)
  /\ UNCHANGED <<diskv, dirty, logv, boot, state, tail>>

Logged(b) == \E i \in DOMAIN lh : lh[i] = b

(* log_write with log.lock held, and brelse *)
log_append(p) ==
  /\ At(p, "append")
  /\ lh' = IF Logged(blk[p]) THEN lh ELSE Append(lh, blk[p])
  /\ dirty' = dirty \cup {blk[p]}
  /\ GoTo(p, "op")
  /\ UNCHANGED <<diskv, cache, outstanding, committing, boot, state, blk, wrote, tail, panicked>>

end_op(p) ==
  /\ At(p, "op")
  /\ outstanding' = outstanding - 1
  /\ blk' = [blk EXCEPT ![p] = First] /\ wrote' = [wrote EXCEPT ![p] = {}]
  /\ IF committing
     THEN panicked' = TRUE /\ UNCHANGED <<committing, pc, state>>
     ELSE /\ IF outstanding' = 0
             THEN committing' = TRUE /\ GoTo(p, "write_log") /\ UNCHANGED state
             ELSE Wakeup /\ GoTo(p, "idle") /\ UNCHANGED committing
          /\ UNCHANGED panicked
  /\ UNCHANGED <<diskv, cache, dirty, lh, boot, tail>>

(* bget takes a buffer that is not dirty for another block; the next bread *)
(* of this one goes to the disk.                                           *)
Recycle(b) ==
  /\ b \notin dirty /\ ~Held(b) /\ boot = "up"
  /\ cache' = [cache EXCEPT ![b] = disk[b]]
  /\ UNCHANGED <<diskv, dirty, logv, boot, procv, tail, panicked>>

-----------------------------------------------------------------------------
(* commit, one disk write at a time *)
write_log(p) ==
  /\ At(p, "write_log") /\ tail < Len(lh)
  /\ logblk' = [logblk EXCEPT ![tail + 1] = cache[lh[tail + 1]]]
  /\ tail' = tail + 1
  /\ UNCHANGED <<disk, head, cache, dirty, logv, boot, procv, panicked>>

(* Mutation of write_head: the header is written before the last log block. *)
write_headEarly(p) ==
  /\ At(p, "write_log") /\ tail + 1 >= Len(lh) /\ lh # << >>
  /\ head' = lh
  /\ tail' = 0
  /\ GoTo(p, "install")
  /\ UNCHANGED <<disk, logblk, cache, dirty, logv, boot, state, blk, wrote, panicked>>

write_head(p) ==
  /\ At(p, "write_log") /\ tail = Len(lh) /\ lh # << >>
  /\ head' = lh
  /\ tail' = 0
  /\ GoTo(p, "install")
  /\ UNCHANGED <<disk, logblk, cache, dirty, logv, boot, state, blk, wrote, panicked>>

(* install_trans: one block, home on disk and in its buffer *)
Install(b, v) ==
  /\ disk' = [disk EXCEPT ![b] = v]
  /\ cache' = [cache EXCEPT ![b] = v]
  /\ dirty' = dirty \ {b}
  /\ tail' = tail + 1

install_trans(p) ==
  /\ At(p, "install") /\ tail < Len(lh)
  /\ Install(lh[tail + 1], logblk[tail + 1])
  /\ UNCHANGED <<logblk, head, logv, boot, procv, panicked>>

(* write_head with log.lh.n = 0 *)
clear_head(p) ==
  /\ At(p, "install") /\ tail = Len(lh)
  /\ lh' = << >> /\ head' = << >>
  /\ tail' = 0
  /\ GoTo(p, "committed")
  /\ UNCHANGED <<disk, logblk, cache, dirty, outstanding, committing, boot, state, blk, wrote,
                 panicked>>

(* Mutation of committed: commits without the wakeup of begin_op. *)
committedNoWakeup(p) ==
  /\ At(p, "committed") \/ (At(p, "write_log") /\ lh = << >>)
  /\ committing' = FALSE
  /\ GoTo(p, "idle")
  /\ UNCHANGED <<diskv, cache, dirty, lh, outstanding, boot, state, blk, wrote, tail, panicked>>

(* the end of end_op, also when there was nothing to commit *)
committed(p) ==
  /\ At(p, "committed") \/ (At(p, "write_log") /\ lh = << >>)
  /\ committing' = FALSE
  /\ Wakeup
  /\ GoTo(p, "idle")
  /\ UNCHANGED <<diskv, cache, dirty, lh, outstanding, boot, blk, wrote, tail, panicked>>

-----------------------------------------------------------------------------
(* Power fails, or the kernel has panicked and is started again.  initlog  *)
(* reads the header; the home blocks are read from the disk when needed.   *)
Crash ==
  /\ cache' = disk /\ dirty' = {}
  /\ lh' = head /\ outstanding' = 0 /\ committing' = FALSE
  /\ boot' = "install" /\ tail' = 0
  /\ pc' = [p \in Ops |-> "idle"] /\ state' = [p \in Ops |-> "RUNNABLE"]
  /\ blk' = [p \in Ops |-> First] /\ wrote' = [p \in Ops |-> {}]
  /\ panicked' = FALSE
  /\ UNCHANGED diskv

RecoverInstall ==
  /\ boot = "install" /\ tail < Len(lh)
  /\ Install(lh[tail + 1], logblk[tail + 1])
  /\ UNCHANGED <<logblk, head, logv, boot, procv, panicked>>

RecoverClear ==
  /\ boot = "install" /\ tail = Len(lh)
  /\ lh' = << >> /\ head' = << >>
  /\ boot' = "up" /\ tail' = 0
  /\ UNCHANGED <<disk, logblk, cache, dirty, outstanding, committing, procv, panicked>>

Next ==
  \/ \E p \in Ops :
        \/ begin_op(p) \/ log_append(p) \/ end_op(p)
        \/ \E b \in Blocks, v \in Vals : log_write(p, b, v)
        \/ write_log(p) \/ write_head(p) \/ install_trans(p) \/ clear_head(p) \/ committed(p)
  \/ \E b \in Blocks : Recycle(b)
  \/ Crash \/ RecoverInstall \/ RecoverClear

Spec == Init /\ [][Next]_vars

-----------------------------------------------------------------------------
(* A thread that sleeps in begin_op will be woken: an operation is active, *)
(* whose end_op wakes it, or a commit is under way, which wakes it when it *)
(* is done.                                                                *)
SleepersWillWake ==
  \A p \in Ops : state[p] = "SLEEPING" => committing \/ outstanding > 0

(* What begin_op reserves is enough, as its comment says: log_write does   *)
(* not panic and the log fits in its blocks on disk, as long as no         *)
(* operation writes more than MAXOPBLOCKS blocks.                          *)
ReservationSuffices == ~panicked /\ Len(lh) <= logsize - 1

(* what recovery would make of the disk *)
Recovered ==
  [b \in Blocks |-> IF \E i \in DOMAIN head : head[i] = b
                    THEN logblk[CHOOSE i \in DOMAIN head : head[i] = b] ELSE disk[b]]

(* Operations are atomic with respect to crashes: they take effect on disk *)
(* in groups, each group as a whole and at one moment (write_head), none   *)
(* of them while it is still running, and a new group starts only when the *)
(* one before it is durable.                                               *)
FS ==
  INSTANCE AtomicFS WITH
    stable  <- Recovered,
    pending <- IF boot = "up" THEN cache ELSE Recovered,
    active  <- {p \in Ops : pc[p] \in {"op", "append"}}

LogImplements == FS!Spec

=============================================================================
