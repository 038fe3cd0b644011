------------------------------- MODULE MCUser -------------------------------
(***************************************************************************)
(* The user programs and libraries, for TLC: ticket lock, semaphore, shell *)
(* and allocator.  They share no state, so a behaviour is one of one of    *)
(* them, chosen at the start.                                              *)
(***************************************************************************)
EXTENDS TicketLock

CONSTANTS s1

VARIABLES
  which,
  guard, count, arr, start, end, len, state, chan, lostwakeup, spc, sem, pid,   \* Semaphore
  shpc, cmd, fd, parent, p, line, loose,                                       \* Shell
  ptr, size, freep, brk, used                                                  \* Umalloc

semv == <<guard, count, arr, start, end, len, state, chan, lostwakeup, spc, sem, pid>>
shv == <<shpc, cmd, fd, parent, p, line, loose>>
heapv == <<ptr, size, freep, brk, used>>
uvars == <<which, vars, semv, shv, heapv>>

(* three threads that call sem_up and sem_down on one semaphore *)
S == INSTANCE Semaphore WITH Threads <- {1, 2, 3}, Sems <- {s1}, QMAX <- 3,
       InitCount <- 1, MaxCount <- 1, pc <- spc

ASSUME SemAssumption == S!Assumptions

(* lines with each construct, with one after the other and with mistakes *)
lines == {<<"a", "|", "a", "|", "a">>, <<"a", "<", "a", "|", "a", ">", "a">>,
          <<"<", "a", "a", "a", ";", "a", "|", "a">>, <<"a", "&", ";", "a", ">", "a">>,
          <<"(", "a", ";", "a", ")", "|", "a">>, <<"a", "|", "(", "a">>, <<"a", "a", "a">>,
          <<"a", ">", "|">>, <<"a", "&", "a">>}
Sh == INSTANCE Shell WITH Lines <- lines, NPROC <- 5, MAXARGS <- 3, MaxLeft <- 1, pc <- shpc

H == INSTANCE Umalloc WITH Units <- {1, 2, 3, 5}, More <- 4, MaxBrk <- 11

-----------------------------------------------------------------------------
UInit == /\ which \in {"ticketlock", "semaphore", "shell", "umalloc"}
         /\ Init /\ S!Init /\ Sh!Init /\ H!Init

UNext ==
  /\ UNCHANGED which
  /\ \/ which = "ticketlock" /\ Next /\ UNCHANGED <<semv, shv, heapv>>
     \/ which = "semaphore" /\ S!Next /\ UNCHANGED <<vars, shv, heapv>>
     \/ which = "shell" /\ Sh!Next /\ UNCHANGED <<vars, semv, heapv>>
     \/ which = "umalloc" /\ H!Next /\ UNCHANGED <<vars, semv, shv>>

(* the fairness of TicketLock and of Semaphore; in the behaviours of the   *)
(* others none of their actions is enabled                                 *)
USpec == /\ UInit /\ [][UNext]_uvars
         /\ Fairness /\ \A t \in {1, 2, 3} : WF_semv(S!Step(t))

-----------------------------------------------------------------------------
(* A wakeup is spent exactly once (sem_up, sem_down, park and unpark). *)
WakeupSpentOnce == S!WakeupSpentOnce

(* sem_up and sem_down implement a first-come-first-served semaphore. *)
SemImplements == S!Implements

(* The programs of a line have the descriptors that the line gives them,   *)
(* and no others (parsecmd, runcmd).                                       *)
WiredAsTyped == Sh!WiredAsTyped

(* No processes of a line wait for each other forever (runcmd). *)
NoneStuck == Sh!NoneStuck

(* At the prompt only background commands are left, and a command after    *)
(* ";" starts when the one before it is over (main, runcmd).               *)
PromptComesLast == Sh!PromptComesLast

(* Free and used blocks tile the heap, and the free ones are joined        *)
(* (malloc, free, morecore).                                               *)
HeapTiled == H!HeapTiled
=============================================================================
