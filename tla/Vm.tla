--------------------------------- MODULE Vm ---------------------------------
(***************************************************************************)
(* Address spaces (vm.c) and the pages under them (kalloc.c): sbrk and     *)
(* growproc, the copy that fork makes, the new image of exec, freevm, and  *)
(* the accesses of the kernel to the memory of the thread that called it   *)
(* (syscall.c, copy_to_user).  The threads of a process share one page     *)
(* directory and one size, under vlock.                                    *)
(*                                                                         *)
(* A loop over pages that calls kalloc is a step for each page, so that    *)
(* the threads compete for the last ones.  The free list is a bag: which   *)
(* page it gives is not told apart.  The kernel's part of a page directory *)
(* is left out.                                                            *)
(***************************************************************************)
EXTENDS Integers, FiniteSets

CONSTANTS
  Threads, Procs, process,
  first,       \* the process that userinit makes; it does not exit
  NPAGES,      \* physical pages
  PGSIZE, NPTENTRIES,
  KERNBASE,    \* the end of user addresses
  MaxUint,     \* addresses are below it
  ExecSz,      \* the size of an image that exec makes
  Calls        \* of a thread: what it calls, records of op, a (an address) and n;
               \* sbrk never gives back all of the memory

None == 0
Pages == 1..NPAGES
VPages == 0..(KERNBASE \div PGSIZE) - 1
PDX(v) == v \div NPTENTRIES
PDEs == {PDX(v) : v \in VPages}
PGROUNDUP(a) == (a + PGSIZE - 1) \div PGSIZE      \* in pages
Below(a) == {v \in VPages : v < PGROUNDUP(a)}

VARIABLES
  free,      \* how often a page is on kmem.freelist
  dir,       \* of a process: its page directory
  sz, vlock, \* of a process
  new,       \* of a thread: the page directory that fork or exec makes
  pc, call,  \* of a thread
  stop       \* "no", or why the kernel has stopped

vars == <<free, dir, sz, vlock, new, pc, call, stop>>

NoDir == [self |-> None, pde |-> [x \in PDEs |-> None], pte |-> [v \in VPages |-> None]]
NoCall == [op |-> "none", a |-> 0, n |-> 0]

(* userinit: a directory, a table and a page *)
Init ==
  /\ free = [g \in Pages |-> IF g <= 3 THEN 0 ELSE 1]
  /\ dir = [p \in Procs |-> IF p = first
                THEN [NoDir EXCEPT !.self = 1, !.pde[0] = 2, !.pte[0] = 3] ELSE NoDir]
  /\ sz = [p \in Procs |-> IF p = first THEN PGSIZE ELSE 0]
  /\ vlock = [p \in Procs |-> None]
  /\ new = [t \in Threads |-> NoDir]
  /\ pc = [t \in Threads |-> "idle"] /\ call = [t \in Threads |-> NoCall]
  /\ stop = "no"

-----------------------------------------------------------------------------
Mine(t) == process[t]
At(t, l) == pc[t] = l /\ stop = "no" /\ dir[Mine(t)].self # None
Return(t) == pc' = [pc EXCEPT ![t] = "idle"] /\ call' = [call EXCEPT ![t] = NoCall]
GoTo(t, l) == pc' = [pc EXCEPT ![t] = l] /\ UNCHANGED call
Lock(t) == vlock' = [vlock EXCEPT ![Mine(t)] = t]
Unlock(t) == vlock' = [vlock EXCEPT ![Mine(t)] = None]
Unlocked(t) == vlock[Mine(t)] = None

kalloc(f) == CHOOSE g \in Pages : f[g] > 0 /\ \A h \in 1..g - 1 : f[h] = 0
Take(f) == [f EXCEPT ![kalloc(f)] = 0]
NumFree == Cardinality({g \in Pages : free[g] > 0})
kfree(f, S) == [g \in Pages |-> f[g] + (IF g \in S THEN 1 ELSE 0)]

(* kalloc, and mappages of the page at v, whose table walkpgdir may have   *)
(* to allocate                                                             *)
NewTable(d, v) == d.pde[PDX(v)] = None
CanMap(d, v) == NumFree >= (IF NewTable(d, v) THEN 2 ELSE 1)
mappages(d, v) ==
  LET e == [d EXCEPT !.pte[v] = kalloc(free)] IN
  IF NewTable(d, v) THEN [e EXCEPT !.pde[PDX(v)] = kalloc(Take(free))] ELSE e
FreeAfterMap(d, v) == IF NewTable(d, v) THEN Take(Take(free)) ELSE Take(free)

Mapped(d) == {v \in VPages : d.pte[v] # None}
PagesAt(d, V) == {d.pte[v] : v \in V} \ {None}
PagesOf(d) == (PagesAt(d, VPages) \cup {d.pde[x] : x \in PDEs} \cup {d.self}) \ {None}

deallocuvm(d, V) == [d EXCEPT !.pte = [v \in VPages |-> IF v \in V THEN None ELSE d.pte[v]]]
freevm(f, d) == kfree(f, PagesOf(d))

(* the next page of a loop that maps the pages of V in d *)
NextPage(d, V) == CHOOSE v \in V \ Mapped(d) : \A u \in V \ Mapped(d) : v <= u

-----------------------------------------------------------------------------
(* sys_sbrk; the address that it returns is left out *)
sys_sbrk(t) ==
  /\ At(t, "idle")
  /\ \E c \in Calls[t] :
       /\ c.op = "sbrk"
       /\ call' = [call EXCEPT ![t] = c]
  /\ pc' = [pc EXCEPT ![t] = "growproc"]
  /\ UNCHANGED <<free, dir, sz, vlock, new, stop>>

NewSz(t) == (sz[Mine(t)] + call[t].n) % MaxUint

(* growproc of more memory: vlock, and the first test of allocuvm *)
growproc_more(t) ==
  /\ At(t, "growproc") /\ Unlocked(t) /\ call[t].n > 0
  /\ IF NewSz(t) >= KERNBASE THEN Return(t) /\ UNCHANGED vlock
     ELSE GoTo(t, "allocuvm") /\ Lock(t)
  /\ UNCHANGED <<free, dir, sz, new, stop>>

(* allocuvm: a page, or its failure, which takes the new pages back; the   *)
(* end of growproc                                                         *)
allocuvm(t) ==
  LET p == Mine(t)
      more == Below(NewSz(t)) \ Mapped(dir[p])
      v == NextPage(dir[p], Below(NewSz(t)))
      newv == Below(NewSz(t)) \ Below(sz[p])
  IN
  /\ At(t, "allocuvm")
  /\ \/ /\ more # {} /\ CanMap(dir[p], v)
        /\ dir' = [dir EXCEPT ![p] = mappages(@, v)] /\ free' = FreeAfterMap(dir[p], v)
        /\ UNCHANGED <<sz, vlock, pc, call>>
     \/ /\ more # {} /\ ~CanMap(dir[p], v)
        /\ free' = kfree(free, PagesAt(dir[p], newv))
        /\ dir' = [dir EXCEPT ![p] = deallocuvm(@, newv)]
        /\ Unlock(t) /\ Return(t) /\ UNCHANGED sz
     \/ /\ more = {}
        /\ sz' = [sz EXCEPT ![p] = NewSz(t)]
        /\ Unlock(t) /\ Return(t) /\ UNCHANGED <<free, dir>>
  /\ UNCHANGED <<new, stop>>

(* growproc of less memory, all of it under vlock: deallocuvm does nothing *)
(* when sz + n has wrapped, and growproc fails on a new size of 0, after   *)
(* the pages are gone                                                      *)
growproc_less(t) ==
  LET p == Mine(t)
      old == IF NewSz(t) >= sz[p] THEN {} ELSE Below(sz[p]) \ Below(NewSz(t))
  IN
  /\ At(t, "growproc") /\ Unlocked(t) /\ call[t].n < 0
  /\ free' = kfree(free, PagesAt(dir[p], old))
  /\ dir' = [dir EXCEPT ![p] = deallocuvm(@, old)]
  /\ sz' = [sz EXCEPT ![p] = IF NewSz(t) >= @ \/ NewSz(t) = 0 THEN @ ELSE NewSz(t)]
  /\ Return(t)
  /\ UNCHANGED <<vlock, new, stop>>

-----------------------------------------------------------------------------
(* fork and exec: setupkvm.  fork has its slot of the table beforehand, so *)
(* here one fork at a time looks for a process; exec is alone in its own   *)
(* process by then.                                                        *)
setupkvm(t) ==
  /\ At(t, "idle") /\ NumFree > 0
  /\ \E c \in Calls[t] :
       /\ \/ c.op = "fork" /\ Unlocked(t) /\ (\E p \in Procs : dir[p].self = None) /\ Lock(t)
             /\ \A u \in Threads : pc[u] # "fork"
          \/ c.op = "exec" /\ UNCHANGED vlock
             /\ \A u \in Threads \ {t} : Mine(u) # Mine(t)
       /\ call' = [call EXCEPT ![t] = c]
       /\ pc' = [pc EXCEPT ![t] = c.op]
  /\ new' = [new EXCEPT ![t].self = kalloc(free)] /\ free' = Take(free)
  /\ UNCHANGED <<dir, sz, stop>>

Target(t) == Below(IF call[t].op = "fork" THEN sz[Mine(t)] ELSE ExecSz)

(* Mutation of failed: what the new directory maps is not freed. *)
failedLeaks(t) ==
  /\ At(t, call[t].op) /\ call[t].op \in {"fork", "exec"}
  /\ Target(t) \ Mapped(new[t]) # {} /\ ~CanMap(new[t], NextPage(new[t], Target(t)))
  /\ free' = kfree(free, {new[t].self})
  /\ new' = [new EXCEPT ![t] = NoDir]
  /\ IF call[t].op = "fork" THEN Unlock(t) ELSE UNCHANGED vlock
  /\ Return(t)
  /\ UNCHANGED <<dir, sz, stop>>

(* no page for copyuvm or for exec's allocuvm: freevm of the new directory *)
failed(t) ==
  /\ At(t, call[t].op) /\ call[t].op \in {"fork", "exec"}
  /\ Target(t) \ Mapped(new[t]) # {} /\ ~CanMap(new[t], NextPage(new[t], Target(t)))
  /\ free' = freevm(free, new[t])
  /\ new' = [new EXCEPT ![t] = NoDir]
  /\ IF call[t].op = "fork" THEN Unlock(t) ELSE UNCHANGED vlock
  /\ Return(t)
  /\ UNCHANGED <<dir, sz, stop>>

(* a page of copyuvm, which panics when the parent lacks it, or of exec *)
build(t) ==
  LET v == NextPage(new[t], Target(t)) IN
  /\ At(t, call[t].op) /\ call[t].op \in {"fork", "exec"}
  /\ Target(t) \ Mapped(new[t]) # {} /\ CanMap(new[t], v)
  /\ new' = [new EXCEPT ![t] = mappages(@, v)] /\ free' = FreeAfterMap(new[t], v)
  /\ stop' = IF call[t].op = "fork" /\ v \notin Mapped(dir[Mine(t)]) THEN "panic" ELSE stop
  /\ UNCHANGED <<dir, sz, vlock, pc, call>>

fork_done(t) ==
  LET c == CHOOSE p \in Procs : dir[p].self = None IN
  /\ At(t, "fork") /\ Target(t) \subseteq Mapped(new[t])
  /\ dir' = [dir EXCEPT ![c] = new[t]] /\ sz' = [sz EXCEPT ![c] = sz[Mine(t)]]
  /\ new' = [new EXCEPT ![t] = NoDir]
  /\ Unlock(t) /\ Return(t)
  /\ UNCHANGED <<free, stop>>

(* exec commits to the image, and frees the old one *)
exec_done(t) ==
  /\ At(t, "exec") /\ Target(t) \subseteq Mapped(new[t])
  /\ dir' = [dir EXCEPT ![Mine(t)] = new[t]] /\ sz' = [sz EXCEPT ![Mine(t)] = ExecSz]
  /\ new' = [new EXCEPT ![t] = NoDir]
  /\ free' = freevm(free, dir[Mine(t)])
  /\ Return(t)
  /\ UNCHANGED <<vlock, stop>>

exit(t) ==
  /\ At(t, "idle") /\ Mine(t) # first
  /\ GoTo(t, "zombie")
  /\ UNCHANGED <<free, dir, sz, vlock, new, stop>>

(* wait: the pages of a process that has exited *)
wait(t) ==
  /\ At(t, "idle") /\ Mine(t) = first
  /\ \E u \in Threads :
       /\ pc[u] = "zombie"
       /\ free' = freevm(free, dir[Mine(u)])
       /\ dir' = [dir EXCEPT ![Mine(u)] = NoDir] /\ sz' = [sz EXCEPT ![Mine(u)] = 0]
       /\ pc' = [pc EXCEPT ![u] = "idle"]
  /\ UNCHANGED <<vlock, new, call, stop>>

-----------------------------------------------------------------------------
(* the test of argptr, fetchint, copy_to_user and copy_from_user *)
InSpace(t, c) == c.a < sz[Mine(t)] /\ (c.a + c.n) % MaxUint <= sz[Mine(t)]
Touches(c) == {(c.a + k) \div PGSIZE : k \in 0..c.n - 1}
Access(t, c) == stop' = IF Touches(c) \subseteq Mapped(dir[Mine(t)]) THEN stop ELSE "fault"

(* argptr: the pointer is good when it is checked *)
argptr(t) ==
  /\ At(t, "idle") /\ Unlocked(t)
  /\ \E c \in Calls[t] :
       /\ c.op = "copy" /\ InSpace(t, c)
       /\ call' = [call EXCEPT ![t] = c]
       /\ pc' = [pc EXCEPT ![t] = "copy"]
  /\ UNCHANGED <<free, dir, sz, vlock, new, stop>>

(* Mutation of copy_to_user: the check of argptr is relied on. *)
copy_unchecked(t) ==
  /\ At(t, "copy") /\ Unlocked(t)
  /\ Access(t, call[t])
  /\ Return(t)
  /\ UNCHANGED <<free, dir, sz, vlock, new>>

(* copy_to_user, copy_from_user: the check again, and the copy, under vlock *)
copy_to_user(t) ==
  /\ At(t, "copy") /\ Unlocked(t)
  /\ IF InSpace(t, call[t]) THEN Access(t, call[t]) ELSE UNCHANGED stop
  /\ Return(t)
  /\ UNCHANGED <<free, dir, sz, vlock, new>>

Next ==
  \E t \in Threads :
    \/ sys_sbrk(t) \/ growproc_more(t) \/ allocuvm(t) \/ growproc_less(t)
    \/ setupkvm(t) \/ failed(t) \/ build(t) \/ fork_done(t) \/ exec_done(t)
    \/ exit(t) \/ wait(t) \/ argptr(t) \/ copy_to_user(t)

Spec == Init /\ [][Next]_vars

-----------------------------------------------------------------------------
(* how often the page directory d has page g *)
Uses(d, g) ==
  Cardinality({v \in VPages : d.pte[v] = g}) + Cardinality({x \in PDEs : d.pde[x] = g})
  + (IF d.self = g THEN 1 ELSE 0)
Dirs == {<<"proc", p, dir[p]>> : p \in Procs} \cup {<<"new", t, new[t]>> : t \in Threads}

(* Every physical page is in one place: once on the free list, or once in  *)
(* one page directory, of a process or one that fork or exec is making.    *)
(* No page is lost on a failure for want of memory, freed twice or shared. *)
(* And while nobody has its vlock, a process has the pages below sz, all   *)
(* of them and no others.                                                  *)
PagesOwned ==
  /\ \A g \in Pages :
       LET users == {d \in Dirs : Uses(d[3], g) > 0} IN
       \/ free[g] = 1 /\ users = {}
       \/ free[g] = 0 /\ Cardinality(users) = 1 /\ \A d \in users : Uses(d[3], g) = 1
  /\ \A p \in Procs :
       dir[p].self # None /\ vlock[p] = None => Mapped(dir[p]) = Below(sz[p])

(* The kernel meets no page that is not there: not when it copies to or    *)
(* from a user pointer that was good when it was checked, and not in       *)
(* copyuvm, whatever the other threads of the process do with sbrk.        *)
NoFault == stop = "no"
=============================================================================
