------------------------------ MODULE Umalloc -------------------------------
(***************************************************************************)
(* The allocator of user programs (umalloc.c), used by one thread: a       *)
(* circular list of free blocks, kept in the order of their addresses.     *)
(* The unit is that of Header, which heads each block and counts in its    *)
(* size.                                                                   *)
(***************************************************************************)
EXTENDS Integers, TLC

CONSTANTS
  Units,     \* the sizes that are asked for, with the header
  More,      \* the least that morecore asks for
  MaxBrk     \* where sbrk fails

base == 0            \* the static header, below the heap
Start == 2           \* the first address of the heap
Addrs == 0..MaxBrk
None == -1

VARIABLES
  ptr, size,    \* of a header
  freep,        \* where the next search starts
  brk,
  used          \* what the program holds

vars == <<ptr, size, freep, brk, used>>

Init ==
  /\ ptr = [a \in Addrs |-> None] /\ size = [a \in Addrs |-> 0]
  /\ freep = None /\ brk = Start /\ used = {}

(* A list is its headers and its rover.  What lies between headers does    *)
(* not count, and is forgotten.                                            *)
Heap == [ptr |-> ptr, size |-> size, freep |-> freep]
Forget(h, a) == [h EXCEPT !.ptr[a] = None, !.size[a] = 0]

(* free: the block after which bp belongs *)
RECURSIVE Before(_, _, _)
Before(h, p, bp) ==
  IF bp > p /\ bp < h.ptr[p] THEN p
  ELSE IF p >= h.ptr[p] /\ (bp > p \/ bp < h.ptr[p]) THEN p
  ELSE Before(h, h.ptr[p], bp)

(* Mutation of JoinUp: the block above is linked and not joined. *)
JoinUpNot(h, p, bp) == [h EXCEPT !.ptr[bp] = h.ptr[p]]

JoinUp(h, p, bp) ==
  LET q == h.ptr[p] IN
  IF bp + h.size[bp] = q
  THEN Forget([h EXCEPT !.size[bp] = @ + h.size[q], !.ptr[bp] = h.ptr[q]], q)
  ELSE [h EXCEPT !.ptr[bp] = q]

JoinDown(h, p, bp) ==
  IF p + h.size[p] = bp
  THEN Forget([h EXCEPT !.size[p] = @ + h.size[bp], !.ptr[p] = h.ptr[bp]], bp)
  ELSE [h EXCEPT !.ptr[p] = bp]

Freed(h, bp) ==
  LET p == Before(h, h.freep, bp)
      u == JoinUp(h, p, bp)
  IN [JoinDown(u, p, bp) EXCEPT !.freep = p]

(* morecore *)
Core(nu) == IF nu < More THEN More ELSE nu

(* malloc: the block p, whole or its tail, is taken from the list *)
Take(h, prevp, p, nu) ==
  IF h.size[p] = nu
  THEN [heap |-> [h EXCEPT !.ptr[prevp] = h.ptr[p], !.freep = prevp, !.ptr[p] = None], at |-> p]
  ELSE LET t == p + h.size[p] - nu IN
       [heap |-> [h EXCEPT !.size[p] = @ - nu, !.size[t] = nu, !.freep = prevp], at |-> t]

(* its loop, from prevp on: b is the break *)
RECURSIVE Search(_, _, _, _)
Search(h, prevp, nu, b) ==
  LET p == h.ptr[prevp] IN
  IF h.size[p] >= nu THEN Take(h, prevp, p, nu) @@ [brk |-> b]
  ELSE IF p # h.freep THEN Search(h, p, nu, b)
  ELSE IF b + Core(nu) > MaxBrk THEN [heap |-> h, at |-> None, brk |-> b]
  ELSE LET g == Freed([h EXCEPT !.size[b] = Core(nu)], b)
       IN Search(g, g.freep, nu, b + Core(nu))

malloc(nu) ==
  LET h == IF freep = None THEN [Heap EXCEPT !.ptr[base] = base, !.freep = base] ELSE Heap
      r == Search(h, h.freep, nu, brk)
  IN /\ ptr' = r.heap.ptr /\ size' = r.heap.size /\ freep' = r.heap.freep
     /\ brk' = r.brk
     /\ used' = IF r.at = None THEN used ELSE used \cup {r.at}

free(bp) ==
  LET h == Freed(Heap, bp) IN
  /\ ptr' = h.ptr /\ size' = h.size /\ freep' = h.freep
  /\ used' = used \ {bp} /\ UNCHANGED brk

Next == (\E nu \in Units : malloc(nu)) \/ \E bp \in used : free(bp)

Spec == Init /\ [][Next]_vars

-----------------------------------------------------------------------------
Free == {a \in Addrs : ptr[a] # None} \ {base}
Block(a) == a..a + size[a] - 1

(* HEAP TILED (malloc, free, morecore).  Each unit of the heap belongs to  *)
(* one block: no two callers share memory and none is lost.  The list goes *)
(* round the free blocks in the order of their addresses, and no two of    *)
(* them touch: what can be joined has been, whatever was freed in whatever *)
(* order.                                                                  *)
HeapTiled ==
  /\ \A u \in Start..brk - 1 : \E a \in Free \cup used :
       u \in Block(a) /\ \A b \in (Free \cup used) \ {a} : u \notin Block(b)
  /\ \A a \in Free \cup used : size[a] > 0 /\ Block(a) \subseteq Start..brk - 1
  /\ Free \cap used = {}
  /\ freep # None => freep \in Free \cup {base}
  /\ \A a \in Free : /\ \A b \in Free : a + size[a] # b
                     /\ ptr[a] = base \/ ptr[a] > a
                     /\ \A b \in Free : a < b => ptr[a] \in a + 1..b
=============================================================================
