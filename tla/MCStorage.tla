----------------------------- MODULE MCStorage ------------------------------
(***************************************************************************)
(* The layers of the file system, for TLC: the log, the buffer cache with  *)
(* its disk, and directories with the inode cache.  Each is modelled on    *)
(* its own, on what the layer below promises, so a behaviour is one of one *)
(* of them, chosen at the start.                                           *)
(***************************************************************************)
EXTENDS Log, TLC

VARIABLES
  which,
  memfs, bdisk, buf, lru, idequeue, busy, bpc, b, bblk, chan, bpanicked,        \* Buffer
  dinode, ents, inode, cwd, ofile, todo, loc, fpanicked                         \* Fs

bufv == <<memfs, bdisk, buf, lru, idequeue, busy, bpc, b, bblk, chan, bpanicked>>
fsv == <<dinode, ents, inode, cwd, ofile, todo, loc, fpanicked>>
svars == <<which, vars, bufv, fsv>>

(* two threads and two buffers for three blocks *)
B == INSTANCE Buffer WITH Threads <- {1, 2}, NBUF <- 2, Blocks <- {1, 2, 3}, Vals <- {0, 1},
       InitVal <- 0, Written <- {1, 2}, disk <- bdisk, pc <- bpc, blk <- bblk,
       panicked <- bpanicked

(* two processes that make, link, enter and remove a file and a directory, *)
(* with room for three inodes                                              *)
Rel(x) == [abs |-> FALSE, elems |-> x]
Abs(x) == [abs |-> TRUE, elems |-> x]
On(o, x) == [op |-> o, path |-> x]
create(type, x) == [op |-> "create", path |-> x, type |-> type]
open(x) == [op |-> "open", path |-> x, rdonly |-> TRUE]
link(x, y) == [op |-> "link", path |-> x, new |-> y]
calls == <<{create("FILE", Rel(<<"a">>)), create("DIR", Abs(<<"d">>)), On("chdir", Abs(<<"d">>)),
            open(Rel(<<"d">>))},
           {link(Rel(<<"a">>), Abs(<<"d", "a">>)), On("unlink", Abs(<<"d", "a">>)),
            On("unlink", Rel(<<"d">>))}>>
D == INSTANCE Fs WITH Threads <- {1, 2}, Procs <- {1, 2}, process <- <<1, 2>>, ninodes <- 3,
       NINODE <- 3, Names <- {"a", "d"}, Calls <- calls, panicked <- fpanicked

-----------------------------------------------------------------------------
SInit == /\ which \in {"log", "buffer", "fs"}
         /\ Init /\ B!Init /\ D!Init
         /\ which = "buffer" \/ ~memfs

SNext ==
  /\ UNCHANGED which
  /\ \/ which = "log" /\ Next /\ UNCHANGED <<bufv, fsv>>
     \/ which = "buffer" /\ B!Next /\ UNCHANGED <<vars, fsv>>
     \/ which = "fs" /\ D!Next /\ UNCHANGED <<vars, bufv>>

SSpec == SInit /\ [][SNext]_svars

(* the threads of the log are alike *)
Symmetry == Permutations(Ops)

-----------------------------------------------------------------------------
(* A thread that sleeps on a buffer or on the disk will be woken (iderw,   *)
(* ideintr, acquiresleep, releasesleep).                                   *)
SleepersAreServed == which = "buffer" => B!SleepersAreServed

(* The buffer cache is a store of blocks with a lock on each, whatever is  *)
(* evicted and whenever the disk answers (bget, bread, bwrite, brelse).    *)
BufImplements == B!Store!Init /\ [][which = "buffer" => B!Store!Next]_B!Store!vars

(* No thread panics in the file system other than for want of room (ilock, *)
(* dirlookup, sys_unlink, create).                                         *)
FsNoPanic == which = "fs" => D!NoPanic

(* ref counts the pointers to an entry of the inode cache (iget, idup,     *)
(* iput, and the error paths of the system calls).                         *)
RefsCounted == which = "fs" => D!RefsCounted

(* Names are covered by links, in every state of the disk between two      *)
(* steps (sys_link, sys_unlink, create).                                   *)
LinksCovered == which = "fs" => D!LinksCovered
=============================================================================
