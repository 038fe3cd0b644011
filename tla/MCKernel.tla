------------------------------ MODULE MCKernel ------------------------------
(***************************************************************************)
(* Parts of the kernel, for TLC: pipes, the scheduler with its spinlocks,  *)
(* address spaces, the console, and open files with their blocks.  As they *)
(* are modelled they share no state, so a behaviour is one of one of them, *)
(* chosen at the start.                                                    *)
(***************************************************************************)
EXTENDS Pipe

CONSTANTS c1, c2, t1, t2

VARIABLES
  which,
  slock, cur, proc, ncli, intena, FL_IF, code, sstate, chan, saved,
    ticks, ticks0, panicked,                                          \* Sched
  free, dir, sz, vlock, new, vpc, call, stop,                         \* Vm
  buf, r, w, e, holder, cpc, left, target, ckilled, typed, line,      \* Console
  ofile, ftable, inode, dinode, ind, bitmap, fio, covered, lost, fstop  \* File

schedv == <<slock, cur, proc, ncli, intena, FL_IF, code, sstate, chan, saved, ticks, ticks0, panicked>>
vmv == <<free, dir, sz, vlock, new, vpc, call, stop>>
consv == <<buf, r, w, e, holder, cpc, left, target, ckilled, typed, line>>
filev == <<ofile, ftable, inode, dinode, ind, bitmap, fio, covered, lost, fstop>>
kvars == <<which, vars, schedv, vmv, consv, filev>>

(* two threads that sleep for a tick, on two CPUs *)
S == INSTANCE Sched WITH Cpus <- {c1, c2}, cpu0 <- c1, Threads <- {t1, t2}, N <- 1, W <- 2,
       lock <- slock, state <- sstate

(* two threads of a process and one of its child *)
sbrk(k) == [op |-> "sbrk", a |-> 0, n |-> k]
copy(a, k) == [op |-> "copy", a |-> a, n |-> k]
do(o) == [op |-> o, a |-> 0, n |-> 0]
calls == <<{sbrk(3), copy(3, 2)}, {sbrk(-3), do("fork")}, {do("exec"), sbrk(2)}>>
V == INSTANCE Vm WITH Threads <- {1, 2, 3}, Procs <- {1, 2}, process <- <<1, 1, 2>>, first <- 1,
       NPAGES <- 10, PGSIZE <- 2, NPTENTRIES <- 2, KERNBASE <- 10, MaxUint <- 16, ExecSz <- 4,
       Calls <- calls, pc <- vpc

(* two readers of a ring of two characters *)
C == INSTANCE Console WITH Threads <- {t1, t2}, INPUT_BUF <- 2, MaxUint <- 4, Chars <- {"x"},
       Counts <- {1, 3}, pc <- cpc, n <- left, killed <- ckilled

(* two threads and two files with a direct and two indirect blocks *)
F == INSTANCE File WITH Threads <- {1, 2}, NOFILE <- 2, NFILE <- 2, Inums <- {1, 2}, NBLOCKS <- 3,
       BSIZE <- 2, NDIRECT <- 1, NINDIRECT <- 2, MaxRefs <- 2, MaxLost <- 1, MaxChunk <- 2,
       Counts <- [read |-> {2}, write |-> {3}], io <- fio, stop <- fstop

-----------------------------------------------------------------------------
KInit == /\ which \in {"pipe", "sched", "vm", "console", "file"}
         /\ Init /\ S!Init /\ V!Init /\ C!Init /\ F!Init

KNext ==
  /\ UNCHANGED which
  /\ \/ which = "pipe" /\ Next /\ UNCHANGED <<schedv, vmv, consv, filev>>
     \/ which = "sched" /\ S!Next /\ UNCHANGED <<vars, vmv, consv, filev>>
     \/ which = "vm" /\ V!Next /\ UNCHANGED <<vars, schedv, consv, filev>>
     \/ which = "console" /\ C!Next /\ UNCHANGED <<vars, schedv, vmv, filev>>
     \/ which = "file" /\ F!Next /\ UNCHANGED <<vars, schedv, vmv, consv>>

KSpec == KInit /\ [][KNext]_kvars

-----------------------------------------------------------------------------
(* No assertion of acquire, release, pushcli, popcli and sched fails, with *)
(* a timer interrupt wherever it may come.                                 *)
SchedNoPanic == which = "sched" => S!NoPanic

(* A thread is on one CPU at most, and is not to be picked by another      *)
(* before it has left its stack (scheduler, sched, yield, sleep).          *)
OnOneCpu == which = "sched" => S!OnOneCpu

(* No tick comes between the test of a sleeper and its sleep (sleep,       *)
(* wakeup, sys_sleep).                                                     *)
NoLostWakeup == which = "sched" => S!NoLostWakeup

(* Every physical page is free once or mapped once, and a process has the  *)
(* pages below sz (kalloc, allocuvm, copyuvm, exec, freevm).               *)
PagesOwned == which = "vm" => V!PagesOwned

(* The kernel meets no page that is not there (copy_to_user, copyuvm). *)
NoFault == which = "vm" => V!NoFault

(* Readers get what was typed, as it was edited, and nobody sleeps while   *)
(* there is something to read (consoleintr, consoleread).                  *)
InputIntact == which = "console" => C!InputIntact

(* Every byte is moved once by those who share an open file (fileread,     *)
(* filewrite).                                                             *)
EveryByteOnce == which = "file" => F!EveryByteOnce

(* A block belongs to one inode or is free (balloc, bfree, bmap, itrunc,   *)
(* writei).                                                                *)
BlocksOwned == which = "file" => F!BlocksOwned
=============================================================================
