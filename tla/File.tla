-------------------------------- MODULE File --------------------------------
(***************************************************************************)
(* Open files (file.c, the descriptor part of sysfile.c) and the contents  *)
(* of inodes (balloc, bfree, bmap, itrunc, readi and writei of fs.c).      *)
(* Every thread has descriptors of its own, for files that it shares with  *)
(* others after fork or clone; reads and writes through a shared file move *)
(* one offset.  An inode's block numbers are changed in its cached copy    *)
(* and reach the disk in iupdate.                                          *)
(*                                                                         *)
(* A read or write is a step to lock the inode, one for each block, and    *)
(* one to unlock it.  The bytes themselves are left out.  Names are in     *)
(* module Fs; here an inode has a link or none.                            *)
(***************************************************************************)
EXTENDS Integers, FiniteSets, FiniteSetsExt

CONSTANTS
  Threads, NOFILE, NFILE,
  Inums,
  NBLOCKS, BSIZE, NDIRECT, NINDIRECT,
  MaxRefs,     \* bound on the descriptors in use
  MaxLost,     \* bound on the blocks that recycled inodes lose
  MaxChunk,    \* bytes that filewrite writes in one transaction
  Counts       \* of read and of write: the n they are called with

None == 0
Fds == 0..NOFILE - 1
Files == 1..NFILE
Blocks == 1..NBLOCKS
MAXFILE == NDIRECT + NINDIRECT

VARIABLES
  ofile,     \* of a thread: its descriptors
  ftable,    \* of a file: ref, ip, off
  inode,     \* the cached copy: ref, nlink, size, addrs and the owner of its lock
  dinode,    \* on disk: size and addrs
  ind,       \* of a block: the block numbers in it, if it is an indirect block
  bitmap,    \* the set of blocks marked in use
  io,        \* of a thread: its read or write
  covered,   \* of a file: the positions that reads and writes through it have moved
  lost,      \* the blocks in use that a recycled inode no longer names
  stop       \* whether the kernel has panicked

vars == <<ofile, ftable, inode, dinode, ind, bitmap, io, covered, lost, stop>>

NoAddrs == [k \in 0..NDIRECT |-> None]
NoInd == [k \in 0..NINDIRECT - 1 |-> None]
NoFile == [ref |-> 0, ip |-> None, off |-> 0]
NoInode == [ref |-> 0, nlink |-> 0, size |-> 0, addrs |-> NoAddrs, lock |-> None]
NoIo == [op |-> "none", f |-> None, n |-> 0, locked |-> FALSE, off |-> 0, n1 |-> 0, tot |-> 0]

Init ==
  /\ ofile = [t \in Threads |-> [d \in Fds |-> None]]
  /\ ftable = [f \in Files |-> NoFile]
  /\ inode = [i \in Inums |-> NoInode]
  /\ dinode = [i \in Inums |-> [size |-> 0, addrs |-> NoAddrs]]
  /\ ind = [k \in Blocks |-> NoInd]
  /\ bitmap = {}
  /\ io = [t \in Threads |-> NoIo]
  /\ covered = [f \in Files |-> {}]
  /\ lost = {}
  /\ stop = FALSE

Idle(t) == io[t].op = "none" /\ ~stop
FreeFds(t) == {d \in Fds : ofile[t][d] = None}
fdalloc(t) == Min(FreeFds(t))
FreeFiles == {f \in Files : ftable[f].ref = 0}
iupdate(i, ip) == [dinode EXCEPT ![i] = [size |-> ip.size, addrs |-> ip.addrs]]

(* argfd: d is a descriptor of t, whose call it begins *)
argfd(t, d) == Idle(t) /\ ofile[t][d] # None

InUse(t) == {d \in Fds : ofile[t][d] # None}
Room(n) == MapThenSumSet(LAMBDA t : Cardinality(InUse(t)), Threads) + n <= MaxRefs

-----------------------------------------------------------------------------
(* sys_open of an inode, which it creates when it has no links and nobody  *)
(* has it: filealloc and fdalloc.  It changes nothing when one of them     *)
(* fails.                                                                  *)
sys_open(t, i) ==
  LET f == Min(FreeFiles) IN
  /\ Idle(t) /\ FreeFiles # {} /\ FreeFds(t) # {} /\ Room(1)
  /\ inode[i].nlink > 0 \/ inode[i].ref = 0
  /\ ftable' = [ftable EXCEPT ![f] = [ref |-> 1, ip |-> i, off |-> 0]]
  /\ covered' = [covered EXCEPT ![f] = {}]
  /\ ofile' = [ofile EXCEPT ![t][fdalloc(t)] = f]
  /\ inode' = [inode EXCEPT ![i].ref = @ + 1, ![i].nlink = 1]
  /\ UNCHANGED <<dinode, ind, bitmap, io, lost, stop>>

sys_unlink(t, i) ==
  /\ Idle(t) /\ inode[i].nlink = 1 /\ inode[i].ref > 0
  /\ inode' = [inode EXCEPT ![i].nlink = 0]
  /\ UNCHANGED <<ofile, ftable, dinode, ind, bitmap, io, covered, lost, stop>>

(* sys_dup: fdalloc, then filedup *)
sys_dup(t, d) ==
  LET f == ofile[t][d] IN
  /\ argfd(t, d) /\ FreeFds(t) # {} /\ Room(1)
  /\ ofile' = [ofile EXCEPT ![t][fdalloc(t)] = f]
  /\ ftable' = [ftable EXCEPT ![f].ref = @ + 1]
  /\ UNCHANGED <<inode, dinode, ind, bitmap, io, covered, lost, stop>>

(* fork and clone: the child u, a thread without files, gets those of t *)
fork(t, u) ==
  LET Of(v, f) == Cardinality({d \in Fds : ofile[v][d] = f}) IN
  /\ Idle(t) /\ Idle(u) /\ FreeFds(u) = Fds /\ Room(Cardinality(InUse(t)))
  /\ ofile' = [ofile EXCEPT ![u] = ofile[t]]
  /\ ftable' = [f \in Files |-> [ftable[f] EXCEPT !.ref = @ + Of(t, f)]]
  /\ UNCHANGED <<inode, dinode, ind, bitmap, io, covered, lost, stop>>

(* the blocks of an inode *)
IndOf(ip) == IF ip.addrs[NDIRECT] = None THEN {} ELSE {ip.addrs[NDIRECT]}
DataOf(ip) ==
  ({ip.addrs[k] : k \in 0..NDIRECT - 1}
   \cup UNION {{ind[x][k] : k \in 0..NINDIRECT - 1} : x \in IndOf(ip)}) \ {None}
BlocksOf(ip) == IndOf(ip) \cup DataOf(ip)

(* Mutation of itrunc: the blocks behind the indirect block are kept. *)
itruncDirect(ip) == {ip.addrs[k] : k \in 0..NDIRECT} \ {None}

(* itrunc: the blocks that it frees *)
itrunc(ip) == BlocksOf(ip)

(* sys_close, and exit for each descriptor: fileclose; the last reference  *)
(* puts the inode, and iput frees one that has no links                    *)
fileclose(t, d) ==
  LET f == ofile[t][d]
      i == ftable[f].ip
      last == ftable[f].ref = 1
      freed == last /\ inode[i].ref = 1 /\ inode[i].nlink = 0
  IN
  /\ argfd(t, d)
  /\ last => inode[i].lock = None
  /\ ofile' = [ofile EXCEPT ![t][d] = None]
  /\ ftable' = [ftable EXCEPT ![f] = IF last THEN NoFile ELSE [@ EXCEPT !.ref = @ - 1]]
  /\ covered' = IF last THEN [covered EXCEPT ![f] = {}] ELSE covered
  /\ inode' = IF freed THEN [inode EXCEPT ![i] = NoInode]
              ELSE IF last THEN [inode EXCEPT ![i].ref = @ - 1] ELSE inode
  /\ dinode' = IF freed THEN iupdate(i, NoInode) ELSE dinode
  /\ bitmap' = IF freed THEN bitmap \ itrunc(inode[i]) ELSE bitmap
  /\ ind' = IF freed THEN [k \in Blocks |-> IF k \in itrunc(inode[i]) THEN NoInd ELSE ind[k]] ELSE ind
  /\ stop' = (stop \/ (freed /\ ~(itrunc(inode[i]) \subseteq bitmap)))
  /\ UNCHANGED <<io, lost>>

(* An inode that nobody has leaves the cache; the next iget reads it from  *)
(* the disk.                                                               *)
recycle(i) ==
  /\ inode[i].ref = 0 /\ inode[i].nlink = 1 /\ ~stop
  /\ inode' = [inode EXCEPT ![i].size = dinode[i].size, ![i].addrs = dinode[i].addrs]
  /\ lost' = lost \cup (BlocksOf(inode[i]) \ BlocksOf(dinode[i])) /\ Cardinality(lost') <= MaxLost
  /\ UNCHANGED <<ofile, ftable, dinode, ind, bitmap, io, covered, stop>>

-----------------------------------------------------------------------------
Ip(t) == ftable[io[t].f].ip
Return(t) == io' = [io EXCEPT ![t] = NoIo]
Locked(t) == io[t].locked /\ ~stop

(* ilock, and the tests at the start of readi and writei: t is to move n   *)
(* bytes, a write no more than MaxChunk of them in this transaction, a     *)
(* read no more than there are.                                            *)
Start(t, f, op, n, mayLock) ==
  LET i == ftable[f].ip  off == ftable[f].off
      n1 == IF op = "write" THEN Min({n, MaxChunk}) ELSE Min({n, inode[i].size - off})
  IN
  /\ ~stop /\ mayLock
  /\ IF off > inode[i].size \/ (op = "write" /\ off + n1 > MAXFILE * BSIZE)
     THEN Return(t) /\ UNCHANGED inode
     ELSE /\ inode' = [inode EXCEPT ![i].lock = t]
          /\ io' = [io EXCEPT ![t] = [op |-> op, f |-> f, n |-> n, locked |-> TRUE,
                                      off |-> off, n1 |-> n1, tot |-> 0]]
  /\ UNCHANGED <<ofile, ftable, dinode, ind, bitmap, covered, lost, stop>>

(* Mutation of ilock: a locked inode does not make the caller wait. *)
ilockBusy(i) == i \in Inums

(* whether ilock gets the lock *)
ilock(i) == inode[i].lock = None

(* sys_read and sys_write: argfd, fileread and filewrite *)
sys_rw(t, d, op, n) ==
  LET f == ofile[t][d] IN
  /\ argfd(t, d)
  /\ Start(t, f, op, n, ilock(ftable[f].ip))

(* filewrite: the next transaction *)
filewrite(t) ==
  LET x == io[t] IN
  /\ x.op = "write" /\ ~x.locked
  /\ Start(t, x.f, "write", x.n, ilock(Ip(t)))

balloc(used) == Min(Blocks \ used)

(* bmap of block bn of ip: the inode, the indirect blocks and the bitmap   *)
(* afterwards.                                                             *)
bmap(ip, bn) ==
  LET direct == bn < NDIRECT
      x == IF ip.addrs[NDIRECT] = None THEN balloc(bitmap) ELSE ip.addrs[NDIRECT]
      used == bitmap \cup {x}
      k == bn - NDIRECT
  IN
  IF direct
  THEN LET b == IF ip.addrs[bn] = None THEN balloc(bitmap) ELSE ip.addrs[bn] IN
       [ip |-> [ip EXCEPT !.addrs[bn] = b], ind |-> ind, used |-> bitmap \cup {b}]
  ELSE LET b == IF ind[x][k] = None THEN balloc(used) ELSE ind[x][k] IN
       [ip |-> [ip EXCEPT !.addrs[NDIRECT] = x], ind |-> [ind EXCEPT ![x][k] = b],
        used |-> used \cup {b}]

(* the blocks bmap has to allocate *)
Needed(ip, bn) ==
  IF bn < NDIRECT THEN IF ip.addrs[bn] = None THEN 1 ELSE 0
  ELSE IF ip.addrs[NDIRECT] = None THEN 2
  ELSE IF ind[ip.addrs[NDIRECT]][bn - NDIRECT] = None THEN 1 ELSE 0

(* One round of the loop of readi or writei.  The copy from or to the      *)
(* user's memory may fail: both then return -1 and the caller unlocks the  *)
(* inode, but what bmap did stays in the cached copy.  balloc panics when  *)
(* there is no free block.                                                 *)
block(t) ==
  LET x == io[t]  i == Ip(t)  pos == x.off + x.tot
      bn == pos \div BSIZE
      m == Min({x.n1 - x.tot, BSIZE - (pos % BSIZE)})
      b == bmap(inode[i], bn)
  IN
  /\ Locked(t) /\ x.tot < x.n1
  /\ UNCHANGED <<ofile, ftable, dinode, covered, lost>>
  /\ \/ /\ Needed(inode[i], bn) > Cardinality(Blocks \ bitmap)
        /\ stop' = TRUE /\ UNCHANGED <<inode, ind, bitmap, io>>
     \/ /\ Needed(inode[i], bn) <= Cardinality(Blocks \ bitmap)
        /\ ind' = b.ind /\ bitmap' = b.used /\ stop' = stop
        /\ \/ /\ inode' = [inode EXCEPT ![i] = b.ip]
              /\ io' = [io EXCEPT ![t].tot = @ + m]
           \/ /\ inode' = [inode EXCEPT ![i] = [b.ip EXCEPT !.lock = None]]
              /\ Return(t)

(* The end of readi or writei: the new size and the block numbers reach    *)
(* the disk if the file has grown, the offset moves, the inode is          *)
(* unlocked.  filewrite goes on with the next transaction.                 *)
finish(t) ==
  LET x == io[t]  i == Ip(t)  end == x.off + x.n1
      grown == x.op = "write" /\ x.n1 > 0 /\ end > inode[i].size
      ip == [inode[i] EXCEPT !.lock = None, !.size = IF grown THEN end ELSE @]
  IN
  /\ Locked(t) /\ x.tot = x.n1
  /\ inode' = [inode EXCEPT ![i] = ip]
  /\ dinode' = IF grown THEN iupdate(i, ip) ELSE dinode
  /\ ftable' = [ftable EXCEPT ![x.f].off = @ + x.n1]
  /\ covered' = [covered EXCEPT ![x.f] = @ \cup x.off..end - 1]
  /\ IF x.op = "write" /\ x.n > x.n1
     THEN io' = [io EXCEPT ![t] = [@ EXCEPT !.locked = FALSE, !.n = @ - x.n1]]
     ELSE Return(t)
  /\ UNCHANGED <<ofile, ind, bitmap, lost, stop>>

Next ==
  \/ \E t \in Threads, i \in Inums : sys_open(t, i) \/ sys_unlink(t, i)
  \/ \E t \in Threads, d \in Fds :
       sys_dup(t, d) \/ fileclose(t, d)
       \/ \E op \in {"read", "write"} : \E n \in Counts[op] : sys_rw(t, d, op, n)
  \/ \E t, u \in Threads : fork(t, u)
  \/ \E i \in Inums : recycle(i)
  \/ \E t \in Threads : filewrite(t) \/ block(t) \/ finish(t)

Spec == Init /\ [][Next]_vars

-----------------------------------------------------------------------------
(* Every byte of a file that several threads read and write through one    *)
(* open file is moved once: what their reads and writes have moved are the *)
(* positions before its offset.  (The offset is used and advanced under    *)
(* the lock of the inode.)                                                 *)
EveryByteOnce ==
  \A f \in Files : ftable[f].ref > 0 => covered[f] = 0..ftable[f].off - 1

(* A block belongs to one inode, once, and is marked in the bitmap, in     *)
(* the cached copy as well as on disk; the first size bytes of an inode    *)
(* have their blocks; and every marked block belongs to an inode, except   *)
(* the ones that a write allocated before it failed and that the disk copy *)
(* of its inode does not name.                                             *)
BlocksOwned ==
  /\ \A i \in Inums :
       LET ip == inode[i]
           slots == {<<"addr", k>> : k \in {j \in 0..NDIRECT : ip.addrs[j] # None}}
             \cup {<<"ind", k>> : k \in {j \in 0..NINDIRECT - 1 :
                                            \E x \in IndOf(ip) : ind[x][j] # None}}
       IN /\ Cardinality(BlocksOf(ip)) = Cardinality(slots)
          /\ BlocksOf(ip) \subseteq bitmap /\ BlocksOf(dinode[i]) \subseteq BlocksOf(ip)
          /\ dinode[i].size <= BSIZE * Cardinality(DataOf(dinode[i]))
  /\ \A i, j \in Inums : i # j => BlocksOf(inode[i]) \cap BlocksOf(inode[j]) = {}
  /\ bitmap = lost \cup UNION {BlocksOf(inode[i]) : i \in Inums}
=============================================================================
