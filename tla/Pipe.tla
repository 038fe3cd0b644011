-------------------------------- MODULE Pipe --------------------------------
(***************************************************************************)
(* A pipe (pipe.c) with its writers and readers, each of which is a thread *)
(* that holds a reference of its own to one end (file.c): in this system   *)
(* even the threads of one process have their own descriptors.             *)
(*                                                                         *)
(* p->lock is held from the entry of pipewrite and piperead to their       *)
(* return, except inside sleep, so what they do in between is one step.    *)
(* The test of killed and the call of sleep are two steps, with the lock   *)
(* held, since kill takes ptable.lock only.                                *)
(***************************************************************************)
EXTENDS Integers, Sequences, FiniteSets

CONSTANTS
  Writers, Readers,  \* threads
  PIPESIZE,
  M,                 \* the number of values of a uint
  Lens,              \* the sizes of the buffers of reads and writes
  Killable           \* the threads that may be killed

ASSUME ThreadsAssumption ==
  Writers \cap Readers = {} /\ 0 \notin Writers \cup Readers /\ Killable \subseteq Writers \cup Readers
(* The counters wrap around at a multiple of the size of the buffer. *)
ASSUME SizeAssumption ==
  /\ PIPESIZE \in Nat \ {0} /\ M \in Nat /\ Lens \subseteq Nat \ {0}
  /\ M >= 2 * PIPESIZE /\ M % PIPESIZE = 0
(* The size of a call is an int: there is a largest one. *)
ASSUME LensAssumption == \E k \in Lens : \A l \in Lens : l <= k

MaxLen == CHOOSE k \in Lens : \A l \in Lens : l <= k

Threads == Writers \cup Readers

VARIABLES
  data, nread, nwrite, readopen, writeopen,  \* struct pipe
  lock,    \* the thread that holds p->lock between two steps, or 0
  freed,   \* kfree has been called
  state, killed, pc,
  i, n,    \* locals of pipewrite and piperead: bytes done, bytes asked for
  addr     \* of a reader: what piperead has put into its buffer

pipev == <<data, nread, nwrite, readopen, writeopen, freed>>
bufv  == <<i, n, addr>>
vars  == <<pipev, lock, state, killed, pc, bufv>>

-----------------------------------------------------------------------------
(* byte j of a message of writer w *)
Byte(w, j) == <<w, j>>
Garbage == <<0, 0>>

(* what pipealloc and the dups and clones after it leave *)
Init ==
  /\ data = [k \in 0..PIPESIZE - 1 |-> Garbage]
  /\ nread = 0 /\ nwrite = 0 /\ readopen = TRUE /\ writeopen = TRUE
  /\ lock = 0 /\ freed = FALSE
  /\ state = [t \in Threads |-> "RUNNABLE"]
  /\ killed = [t \in Threads |-> FALSE]
  /\ pc = [t \in Threads |-> "user"]
  /\ i = [t \in Threads |-> 0] /\ n = [t \in Threads |-> 0]
  /\ addr = [r \in Readers |-> << >>]

MIN(a, b) == IF a < b THEN a ELSE b
Sub(a, b) == (a - b) % M
Used == Sub(nwrite, nread)

(* room in the buffer *)
Free == Sub(nread + PIPESIZE, nwrite)

(* with p->lock, which the step acquires, or held since the last step *)
At(t, l) == state[t] = "RUNNABLE" /\ pc[t] = l
GoTo(t, l) == pc' = [pc EXCEPT ![t] = l]

(* wakeup: writers sleep on nwrite and readers on nread, and on nothing else *)
Wakeup(S) == state' = [t \in Threads |-> IF t \in S THEN "RUNNABLE" ELSE state[t]]

(* sys_read and sys_write: a killed thread does not get this far (trap) *)
Call(t, k) ==
  /\ At(t, "user") /\ ~killed[t]
  /\ n' = [n EXCEPT ![t] = k]
  /\ GoTo(t, IF t \in Writers THEN "write" ELSE "read")
  /\ UNCHANGED <<pipev, lock, state, killed, i, addr>>

(* back to user space; the locals of the call are gone *)
Return(t) ==
  /\ GoTo(t, "user")
  /\ n' = [n EXCEPT ![t] = 0]
  /\ i' = [i EXCEPT ![t] = 0]

-----------------------------------------------------------------------------
(* Mutation of Chunk1: the first part may run past the end of the array. *)
Chunk1Whole(bytes, position) ==
  IF bytes > PIPESIZE THEN PIPESIZE - (position % PIPESIZE) ELSE bytes

(* How many bytes of a copy of that size fit before the end of the array. *)
Chunk1(bytes, position) ==
  IF bytes > PIPESIZE - (position % PIPESIZE) THEN PIPESIZE - (position % PIPESIZE)
  ELSE bytes

(* data after the copy of k bytes of w's message, from byte m + 1 on *)
Store(d, position, w, m, k) ==
  [x \in 0..PIPESIZE - 1 |->
     IF x \in position..position + k - 1 THEN Byte(w, m + 1 + x - position) ELSE d[x]]

(* pipewrite on a pipe that is full *)
WriteFull(w) ==
  /\ At(w, "write") /\ lock = 0 /\ i[w] < n[w]
  /\ Used = PIPESIZE
  /\ IF ~readopen \/ killed[w]
     THEN Return(w) /\ UNCHANGED <<lock, state>>
     ELSE Wakeup(Readers) /\ GoTo(w, "sleep") /\ lock' = w /\ UNCHANGED <<i, n>>
  /\ UNCHANGED <<pipev, killed, addr>>

(* The bytes that fit are copied, in one part or two.  When more remain    *)
(* the pipe is full now, and the loop goes on as in WriteFull.             *)
WriteBytes(w) ==
  LET bytes == MIN(Free, n[w] - i[w])
      chunk1 == Chunk1(bytes, nwrite)
      chunk2 == bytes - chunk1
  IN
  /\ At(w, "write") /\ lock = 0 /\ Used # PIPESIZE
  /\ data' = Store(Store(data, nwrite % PIPESIZE, w, i[w], chunk1), 0, w, i[w] + chunk1, chunk2)
  /\ nwrite' = (nwrite + bytes) % M
  /\ IF i[w] + bytes < n[w]
     THEN IF ~readopen \/ killed[w]
          THEN Return(w) /\ UNCHANGED <<lock, state>>
          ELSE /\ Wakeup(Readers)
               /\ GoTo(w, "sleep") /\ lock' = w
               /\ i' = [i EXCEPT ![w] = @ + bytes] /\ UNCHANGED n
     ELSE Wakeup(Readers) /\ Return(w) /\ UNCHANGED lock
  /\ UNCHANGED <<nread, readopen, writeopen, freed, killed, addr>>

(* The buffer is not mapped (another thread of the process has given the   *)
(* memory back): the first or only the second part is not copied.          *)
WriteFault(w) ==
  LET bytes == MIN(Free, n[w] - i[w])
      chunk1 == Chunk1(bytes, nwrite)
  IN
  /\ At(w, "write") /\ lock = 0 /\ Used # PIPESIZE
  /\ \/ UNCHANGED data
     \/ chunk1 < bytes /\ data' = Store(data, nwrite % PIPESIZE, w, i[w], chunk1)
  /\ Return(w)
  /\ UNCHANGED <<nread, nwrite, readopen, writeopen, freed, lock, state, killed, addr>>

(* piperead on an empty pipe *)
ReadEmpty(r) ==
  /\ At(r, "read") /\ lock = 0
  /\ nread = nwrite /\ writeopen
  /\ IF killed[r] THEN Return(r) /\ UNCHANGED lock
     ELSE GoTo(r, "sleep") /\ lock' = r /\ UNCHANGED <<i, n>>
  /\ UNCHANGED <<pipev, state, killed, addr>>

ReadBytes(r) ==
  LET bytes == MIN(Used, n[r])
      chunk1 == Chunk1(bytes, nread)
  IN
  /\ At(r, "read") /\ lock = 0
  /\ nread # nwrite \/ ~writeopen
  /\ addr' = [addr EXCEPT ![r] =
                [k \in 1..bytes |-> IF k <= chunk1 THEN data[(nread % PIPESIZE) + k - 1]
                                    ELSE data[k - chunk1 - 1]]]
  /\ nread' = (nread + bytes) % M
  /\ Wakeup(Writers)
  /\ GoTo(r, "return")
  /\ UNCHANGED <<data, nwrite, readopen, writeopen, freed, lock, killed, i, n>>

(* The program takes what is in its buffer. *)
ReadReturn(r) ==
  /\ At(r, "return")
  /\ Return(r)
  /\ addr' = [addr EXCEPT ![r] = << >>]
  /\ UNCHANGED <<pipev, lock, state, killed>>

ReadFault(r) ==
  /\ At(r, "read") /\ lock = 0
  /\ nread # nwrite
  /\ Return(r)
  /\ UNCHANGED <<pipev, lock, state, killed, addr>>

(* sleep(&p->nwrite, &p->lock) and sleep(&p->nread, &p->lock) *)
Sleep(t) ==
  /\ At(t, "sleep")
  /\ state' = [state EXCEPT ![t] = "SLEEPING"]
  /\ lock' = 0
  /\ GoTo(t, IF t \in Writers THEN "write" ELSE "read")
  /\ UNCHANGED <<pipev, killed, bufv>>

-----------------------------------------------------------------------------
Others(t) == (IF t \in Writers THEN Writers ELSE Readers) \ {t}

(* fileclose, in close or in exit: the last reference to this end takes    *)
(* the thread to pipeclose.                                                *)
FileClose(t) ==
  /\ At(t, "user")
  /\ GoTo(t, IF \A u \in Others(t) : pc[u] \in {"closed", "close"} THEN "close" ELSE "closed")
  /\ UNCHANGED <<pipev, lock, state, killed, bufv>>

(* Mutation of PipeClose: the other end is not woken. *)
PipeCloseNoWakeup(t) ==
  /\ At(t, "close") /\ lock = 0
  /\ IF t \in Writers
     THEN writeopen' = FALSE /\ UNCHANGED readopen
     ELSE readopen' = FALSE /\ UNCHANGED writeopen
  /\ freed' = (~readopen' /\ ~writeopen')
  /\ GoTo(t, "closed")
  /\ UNCHANGED <<data, nread, nwrite, lock, state, killed, bufv>>

(* Mutation of PipeClose: freed with one end still open. *)
PipeCloseFrees(t) ==
  /\ At(t, "close") /\ lock = 0
  /\ IF t \in Writers
     THEN writeopen' = FALSE /\ Wakeup(Readers) /\ UNCHANGED readopen
     ELSE readopen' = FALSE /\ Wakeup(Writers) /\ UNCHANGED writeopen
  /\ freed' = (~readopen' \/ ~writeopen')
  /\ GoTo(t, "closed")
  /\ UNCHANGED <<data, nread, nwrite, lock, killed, bufv>>

PipeClose(t) ==
  /\ At(t, "close") /\ lock = 0
  /\ IF t \in Writers
     THEN writeopen' = FALSE /\ Wakeup(Readers) /\ UNCHANGED readopen
     ELSE readopen' = FALSE /\ Wakeup(Writers) /\ UNCHANGED writeopen
  /\ freed' = (~readopen' /\ ~writeopen')
  /\ GoTo(t, "closed")
  /\ UNCHANGED <<data, nread, nwrite, lock, killed, bufv>>

(* kill, by some other thread *)
Kill(t) ==
  /\ t \in Killable /\ ~killed[t] /\ pc[t] # "closed"
  /\ killed' = [killed EXCEPT ![t] = TRUE]
  /\ state' = [state EXCEPT ![t] = "RUNNABLE"]
  /\ UNCHANGED <<pipev, lock, pc, bufv>>

Step(t) ==
  \/ t \in Writers /\ (WriteFull(t) \/ WriteBytes(t) \/ WriteFault(t))
  \/ t \in Readers /\ (ReadEmpty(t) \/ ReadBytes(t) \/ ReadFault(t) \/ ReadReturn(t))
  \/ Sleep(t) \/ PipeClose(t)

Next ==
  \E t \in Threads : Step(t) \/ FileClose(t) \/ Kill(t) \/ \E k \in Lens : Call(t, k)

Spec == Init /\ [][Next]_vars

-----------------------------------------------------------------------------
(* Nobody sleeps for nothing: a sleeping writer has a full pipe that       *)
(* somebody may still read, a sleeping reader an empty pipe that somebody  *)
(* may still write.  The one exception is pipewrite's: a writer that fills *)
(* the pipe and then finds itself killed returns without waking a reader.  *)
SleepersHaveReason ==
  /\ \A w \in Writers : state[w] = "SLEEPING" => Used = PIPESIZE /\ readopen
  /\ \A r \in Readers : state[r] = "SLEEPING" =>
        /\ writeopen
        /\ nread = nwrite \/ \E w \in Writers : killed[w]

(* The pipe is freed when nobody can use it any more: no thread is in      *)
(* piperead, in pipewrite or on its way to pipeclose.                      *)
FreedUnused == freed => \A t \in Threads : pc[t] \notin {"write", "read", "sleep", "close"}

(* The ring buffer, with copies in two parts and counters that wrap        *)
(* around, implements a first-in-first-out channel of at most PIPESIZE     *)
(* bytes.                                                                  *)
Chan ==
  INSTANCE Channel WITH
    Capacity <- PIPESIZE,
    queue <- [j \in 1..Used |-> data[(nread + j - 1) % PIPESIZE]],
    sent  <- [w \in Writers |-> i[w]],
    got   <- addr,
    open  <- {t \in Threads : pc[t] \notin {"close", "closed"}}

PipeImplements == Chan!Spec

=============================================================================
