------------------------------ MODULE Console -------------------------------
(***************************************************************************)
(* The console (console.c): interrupts of the keyboard or the serial line  *)
(* edit a line in a ring of INPUT_BUF characters, and threads read from    *)
(* it.  What a thread does under cons.lock is several steps, in which no   *)
(* other thread and no interrupt handler has the lock.                     *)
(* Whether a thread's buffer is in its address space, which module Vm is   *)
(* about, can change whenever vlock is free.                               *)
(*                                                                         *)
(* typed and line are what the user at the keyboard goes by: the           *)
(* characters that were entered and not read, and the line being edited.   *)
(***************************************************************************)
EXTENDS Integers, Sequences, SequencesExt

CONSTANTS
  Threads,
  INPUT_BUF,
  MaxUint,     \* the indices wrap at it; a multiple of INPUT_BUF
  Chars,       \* ordinary characters
  Counts       \* the n of a read

NL == "nl"
EOF == "^D"
None == "none"

VARIABLES
  buf, r, w, e,     \* input
  holder,           \* the thread that has cons.lock and vlock, or None
  pc, n, target,    \* of a thread in consoleread
  killed,
  typed, line

inputv == <<buf, r, w, e>>
vars == <<inputv, holder, pc, n, target, killed, typed, line>>

Init ==
  /\ buf = [i \in 0..INPUT_BUF - 1 |-> NL]
  /\ r = 0 /\ w = 0 /\ e = 0
  /\ holder = None
  /\ pc = [t \in Threads |-> "idle"]
  /\ n = [t \in Threads |-> 0] /\ target = [t \in Threads |-> 0]
  /\ killed = {}
  /\ typed = << >> /\ line = << >>

Plus(i, k) == (i + k) % MaxUint
Slot(i) == i % INPUT_BUF

-----------------------------------------------------------------------------
Wakeup == pc' = [t \in Threads |-> IF pc[t] = "sleeping" THEN "woken" ELSE pc[t]]

(* consoleintr, for one character: control-U, which stops at a newline *)
killline ==
  LET count == (e - w) % MaxUint
      S == {k \in 0..count : \A j \in k + 1..count : buf[Slot(Plus(w, j - 1))] # NL}
      kept == CHOOSE k \in S : \A j \in S : k <= j
  IN
  /\ holder = None
  /\ e' = Plus(w, kept)
  /\ line' = SubSeq(line, 1, kept)
  /\ UNCHANGED <<buf, r, w, holder, pc, n, target, killed, typed>>

(* Mutation of erase: w is not looked at. *)
eraseAny ==
  /\ holder = None /\ e # r
  /\ e' = Plus(e, -1)
  /\ line' = IF line = << >> THEN line ELSE Front(line)
  /\ UNCHANGED <<buf, r, w, holder, pc, n, target, killed, typed>>

(* backspace *)
erase ==
  /\ holder = None /\ e # w
  /\ e' = Plus(e, -1)
  /\ line' = Front(line)
  /\ UNCHANGED <<buf, r, w, holder, pc, n, target, killed, typed>>

(* a character of the line; a newline, control-D and a full ring enter it *)
insert(c) ==
  LET full == (e + 1 - r) % MaxUint = INPUT_BUF IN
  /\ holder = None /\ (e - r) % MaxUint < INPUT_BUF
  /\ buf' = [buf EXCEPT ![Slot(e)] = c]
  /\ e' = Plus(e, 1)
  /\ IF c \in {NL, EOF} \/ full
     THEN /\ w' = Plus(e, 1) /\ Wakeup
          /\ typed' = typed \o Append(line, c) /\ line' = << >>
     ELSE line' = Append(line, c) /\ UNCHANGED <<w, pc, typed>>
  /\ UNCHANGED <<r, holder, n, target, killed>>

-----------------------------------------------------------------------------
Return(t) ==
  /\ holder' = None
  /\ pc' = [pc EXCEPT ![t] = "idle"]
  /\ n' = [n EXCEPT ![t] = 0] /\ target' = [target EXCEPT ![t] = 0]

(* consoleread takes the locks and checks the buffer, at first and when it *)
(* has slept                                                               *)
consoleread(t) ==
  /\ holder = None
  /\ \/ /\ pc[t] = "idle" /\ t \notin killed
        /\ \E k \in Counts : n' = [n EXCEPT ![t] = k] /\ target' = [target EXCEPT ![t] = k]
        /\ holder' = t /\ pc' = [pc EXCEPT ![t] = "reading"]
     \/ /\ pc[t] = "woken"
        /\ holder' = t /\ pc' = [pc EXCEPT ![t] = "reading"]
        /\ UNCHANGED <<n, target>>
     \/ pc[t] = "woken" /\ Return(t)
  /\ UNCHANGED <<inputv, killed, typed, line>>

(* nothing to read: return if killed, else call sleep *)
consoleread_wait(t) ==
  /\ pc[t] = "reading" /\ n[t] > 0 /\ r = w
  /\ IF t \in killed THEN Return(t)
     ELSE pc' = [pc EXCEPT ![t] = "sleep"] /\ UNCHANGED <<holder, n, target>>
  /\ UNCHANGED <<inputv, killed, typed, line>>

(* sleep(&input.r, &cons.lock), which gives up vlock as well *)
consoleread_sleep(t) ==
  /\ pc[t] = "sleep"
  /\ holder' = None /\ pc' = [pc EXCEPT ![t] = "sleeping"]
  /\ UNCHANGED <<inputv, n, target, killed, typed, line>>

(* a character, or the end of a line or of the file; control-D stays for   *)
(* the next read when this one returns characters                          *)
consoleread_char(t) ==
  LET c == buf[Slot(r)]
      keep == c = EOF /\ n[t] < target[t]
  IN
  /\ pc[t] = "reading" /\ n[t] > 0 /\ r # w
  /\ r' = IF keep THEN r ELSE Plus(r, 1)
  /\ typed' = IF keep \/ typed = << >> THEN typed ELSE Tail(typed)
  /\ IF c \in {NL, EOF} THEN Return(t)
     ELSE n' = [n EXCEPT ![t] = @ - 1] /\ UNCHANGED <<holder, pc, target>>
  /\ UNCHANGED <<buf, w, e, killed, line>>

consoleread_done(t) ==
  /\ pc[t] = "reading" /\ n[t] = 0
  /\ Return(t)
  /\ UNCHANGED <<inputv, killed, typed, line>>

(* kill takes ptable.lock alone, so it may come between the test and the   *)
(* sleep *)
kill(t) ==
  /\ t \notin killed
  /\ killed' = killed \cup {t}
  /\ pc' = [pc EXCEPT ![t] = IF @ = "sleeping" THEN "woken" ELSE @]
  /\ UNCHANGED <<inputv, holder, n, target, typed, line>>

Next ==
  \/ killline \/ erase \/ \E c \in Chars \cup {NL, EOF} : insert(c)
  \/ \E t \in Threads :
       \/ consoleread(t) \/ consoleread_wait(t) \/ consoleread_sleep(t)
       \/ consoleread_char(t) \/ consoleread_done(t) \/ kill(t)

Spec == Init /\ [][Next]_vars

-----------------------------------------------------------------------------
(* The characters of the ring from index i on *)
Content(i, k) == [j \in 1..k |-> buf[Slot(Plus(i, j - 1))]]

(* Readers get what was typed, in order: between r and w the ring has what *)
(* was entered and not read, and between w and e the line as it was        *)
(* edited, when the indices wrap, when the ring is full and when erasing   *)
(* meets what was entered already; and nobody sleeps while there is        *)
(* something to read.                                                      *)
InputIntact ==
  /\ typed = Content(r, (w - r) % MaxUint)
  /\ line = Content(w, (e - w) % MaxUint)
  /\ Len(typed) + Len(line) <= INPUT_BUF
  /\ \A t \in Threads : pc[t] = "sleeping" => typed = << >>
=============================================================================
