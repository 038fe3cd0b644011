------------------------------ MODULE Channel ------------------------------
(***************************************************************************)
(* What a pipe is for its users: a first-in-first-out queue of bytes of    *)
(* bounded length.  A write delivers the bytes of its message in order,    *)
(* perhaps in several parts, and fails only when nobody reads, when the    *)
(* writer is killed or when its buffer is not mapped.  A read takes a      *)
(* prefix of the queue; it takes nothing only at end of file.              *)
(***************************************************************************)
EXTENDS Integers, Sequences

CONSTANTS Writers, Readers, Capacity, MaxLen, Byte(_, _)

VARIABLES
  queue,  \* the bytes in the pipe
  sent,   \* of a writer: how many bytes its write has delivered so far
  got,    \* of a reader: what its read returns
  open    \* the threads whose end is open

vars == <<queue, sent, got, open>>

Init ==
  /\ queue = << >>
  /\ sent = [w \in Writers |-> 0]
  /\ got = [r \in Readers |-> << >>]
  /\ open = Writers \cup Readers

(* The write goes on after these bytes, or returns. *)
Put(w, k) ==
  /\ w \in open
  /\ Len(queue) + k <= Capacity /\ sent[w] + k <= MaxLen
  /\ queue' = queue \o [j \in 1..k |-> Byte(w, sent[w] + j)]
  /\ \E m \in {sent[w] + k, 0} : sent' = [sent EXCEPT ![w] = m]
  /\ UNCHANGED <<got, open>>

WriteFails(w) == sent' = [sent EXCEPT ![w] = 0] /\ UNCHANGED <<queue, got, open>>

Get(r, n) ==
  LET k == IF n <= Len(queue) THEN n ELSE Len(queue) IN
  /\ r \in open
  /\ queue = << >> => open \cap Writers = {}
  /\ got' = [got EXCEPT ![r] = SubSeq(queue, 1, k)]
  /\ queue' = SubSeq(queue, k + 1, Len(queue))
  /\ UNCHANGED <<sent, open>>

(* The program has what it read. *)
Use(r) == got' = [got EXCEPT ![r] = << >>] /\ UNCHANGED <<queue, sent, open>>

Close(t) == open' = open \ {t} /\ UNCHANGED <<queue, sent, got>>

Next ==
  \/ \E w \in Writers : WriteFails(w) \/ \E k \in 1..Capacity : Put(w, k)
  \/ \E r \in Readers : Use(r) \/ \E n \in 1..MaxLen : Get(r, n)
  \/ \E t \in Writers \cup Readers : Close(t)

Spec == Init /\ [][Next]_vars

=============================================================================
