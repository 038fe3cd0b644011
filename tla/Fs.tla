--------------------------------- MODULE Fs ---------------------------------
(***************************************************************************)
(* Inodes, directories and path names (fs.c) under the system calls that   *)
(* use them (sysfile.c), by several threads.  The inode cache keeps copies *)
(* of disk inodes, counts the pointers to them and holds a sleep lock for  *)
(* each; a directory maps names to inodes.  The contents of regular files  *)
(* are in module File, transactions in module Log, descriptors in File.    *)
(*                                                                         *)
(* A step runs from one acquisition of an inode lock, or of the lock of    *)
(* the cache or of cwdlock, to the next one.  What a thread still has to   *)
(* do in its system call is a sequence of such steps, todo; steps that     *)
(* lock an inode wait for it.                                              *)
(***************************************************************************)
EXTENDS Integers, Sequences, FiniteSets, SequencesExt

CONSTANTS
  Threads, Procs,
  process,     \* the process of a thread
  ninodes,     \* inodes on disk, from 1
  NINODE,      \* entries of the inode cache
  Names,       \* names of files, other than "." and ".."
  Calls        \* of a thread: the system calls that it makes

Inums == 1..ninodes
Slots == 1..NINODE
ROOTINO == 1
Dots == {".", ".."}

VARIABLES
  dinode,    \* on disk: type and nlink of an inode, type "none" when it is free
  ents,      \* on disk: the entries of a directory, 0 for none
  inode,     \* icache.inode: inum, ref, lock, valid, and copies of type and nlink
  cwd,       \* of a process: a slot of the cache
  ofile,     \* of a thread: the slot of its open file, or 0
  todo,      \* of a thread: the steps left of its call
  loc,       \* of a thread: its call; r, what namex returned; ip and dp
  panicked   \* the panic that stopped the system, or "none"

vars == <<dinode, ents, inode, cwd, ofile, todo, loc, panicked>>

NoEnts == [n \in Names \cup Dots |-> 0]
NoCall == [op |-> "none"]
Empty == [inum |-> 0, ref |-> 0, lock |-> 0, valid |-> FALSE, type |-> "none", nlink |-> 0]
NoLoc == [call |-> NoCall, r |-> 0, ip |-> 0, dp |-> 0]

(* The image that mkfs makes, and the cache after userinit, with the root  *)
(* as the working directory of every process.                              *)
Init ==
  /\ dinode = [i \in Inums |-> IF i = ROOTINO THEN [type |-> "DIR", nlink |-> 1]
                               ELSE [type |-> "none", nlink |-> 0]]
  /\ ents = [i \in Inums |-> [n \in Names \cup Dots |->
                IF i = ROOTINO /\ n \in Dots THEN ROOTINO ELSE 0]]
  /\ inode = [s \in Slots |-> IF s = 1 THEN [Empty EXCEPT !.inum = ROOTINO, !.ref = Cardinality(Procs)]
                              ELSE Empty]
  /\ cwd = [p \in Procs |-> 1]
  /\ ofile = [t \in Threads |-> 0]
  /\ todo = [t \in Threads |-> << >>]
  /\ loc = [t \in Threads |-> NoLoc]
  /\ panicked = "none"

-----------------------------------------------------------------------------
(* The steps of the calls that lock an inode, and the inode. *)
Wants(t) ==
  LET d == Head(todo[t]) IN
  CASE todo[t] = << >> -> 0
    [] d.i \in {"walk", "iput"} -> d.s
    [] d.i \in {"link1", "link2", "unlink1", "create1", "open1", "chdir1"} -> loc[t].r
    [] d.i \in {"link_bad", "unlink2", "create2"} -> loc[t].ip
    [] OTHER -> 0

(* the copy of an inode after ilock, which reads it from disk when it is not valid *)
Read(s) ==
  IF inode[s].valid THEN inode[s]
  ELSE [inode[s] EXCEPT !.valid = TRUE, !.type = dinode[inode[s].inum].type,
                        !.nlink = dinode[inode[s].inum].nlink]

At(t, l) == todo[t] # << >> /\ Head(todo[t]).i = l /\ panicked = "none"

(* ilock panics *)
BadLock(s) == inode[s].ref < 1 \/ (~inode[s].valid /\ Read(s).type = "none")
ilock(s) == inode[s].lock = 0 /\ ~BadLock(s)

Do(i) == <<[i |-> i]>>
iput(s) == <<[i |-> "iput", s |-> s]>>
Then(t, steps, l) ==
  /\ todo' = [todo EXCEPT ![t] = steps]
  /\ loc' = [loc EXCEPT ![t] = IF steps = << >> THEN NoLoc ELSE l]
Rest(t) == Tail(todo[t])
Loc(t, r, ip, dp) == [loc[t] EXCEPT !.r = r, !.ip = ip, !.dp = dp]

(* iget: the entry that has the inode, or else the first that is free *)
Holds(s, i) == inode[s].ref > 0 /\ inode[s].inum = i
CanGet(i) == \E s \in Slots : Holds(s, i) \/ inode[s].ref = 0
SlotOf(i) ==
  IF \E s \in Slots : Holds(s, i) THEN CHOOSE s \in Slots : Holds(s, i)
  ELSE CHOOSE s \in Slots : inode[s].ref = 0 /\ \A q \in 1..s - 1 : inode[q].ref > 0
iget(ic, i) ==
  LET s == SlotOf(i) IN
  IF ic[s].ref > 0 THEN [ic EXCEPT ![s].ref = @ + 1]
  ELSE [ic EXCEPT ![s].inum = i, ![s].ref = 1, ![s].valid = FALSE]

(* a change of nlink, written through by iupdate *)
AddLink(s, k) == [Read(s) EXCEPT !.nlink = @ + k]
iupdate(d, ip) == [d EXCEPT ![ip.inum] = [type |-> ip.type, nlink |-> ip.nlink]]

-----------------------------------------------------------------------------
(* namex *)
Start(path, parent) ==
  <<[i |-> IF path.abs THEN "root" ELSE "cwd", path |-> path.elems, parent |-> parent]>>

(* the loop of namex, with s referenced: the next element, or the result *)
Walk(t, s, path, parent) ==
  IF path # << >>
  THEN Then(t, <<[i |-> "walk", s |-> s, path |-> path, parent |-> parent]>> \o Rest(t), loc[t])
  ELSE IF parent THEN Then(t, iput(s) \o Rest(t), loc[t])
  ELSE Then(t, Rest(t), [loc[t] EXCEPT !.r = s])

namex_root(t) ==
  LET d == Head(todo[t]) IN
  /\ At(t, "root") /\ CanGet(ROOTINO)
  /\ inode' = iget(inode, ROOTINO)
  /\ Walk(t, SlotOf(ROOTINO), d.path, d.parent)
  /\ UNCHANGED <<dinode, ents, cwd, ofile, panicked>>

(* cwd is read under cwdlock, and idup is called after its release *)
namex_cwd(t) ==
  LET d == Head(todo[t]) IN
  /\ At(t, "cwd")
  /\ Then(t, <<[i |-> "idup", s |-> cwd[process[t]], path |-> d.path, parent |-> d.parent]>>
             \o Rest(t), loc[t])
  /\ UNCHANGED <<dinode, ents, inode, cwd, ofile, panicked>>

idup(t) ==
  LET d == Head(todo[t]) IN
  /\ At(t, "idup")
  /\ inode' = [inode EXCEPT ![d.s].ref = @ + 1]
  /\ Walk(t, d.s, d.path, d.parent)
  /\ UNCHANGED <<dinode, ents, cwd, ofile, panicked>>

(* one element: lock the directory, look it up, unlock and put the directory *)
namex_walk(t) ==
  LET d == Head(todo[t])
      ip == Read(d.s)
      e == ents[ip.inum][Head(d.path)]
      ic == [inode EXCEPT ![d.s] = ip]
  IN
  /\ At(t, "walk") /\ ilock(d.s)
  /\ \/ /\ ip.type # "DIR"
        /\ inode' = ic /\ Then(t, iput(d.s) \o Rest(t), loc[t])
     \/ /\ ip.type = "DIR" /\ d.parent /\ Len(d.path) = 1
        /\ inode' = ic /\ Then(t, Rest(t), [loc[t] EXCEPT !.r = d.s])
     \/ /\ ip.type = "DIR" /\ ~(d.parent /\ Len(d.path) = 1) /\ e = 0
        /\ inode' = ic /\ Then(t, iput(d.s) \o Rest(t), loc[t])
     \/ /\ ip.type = "DIR" /\ ~(d.parent /\ Len(d.path) = 1) /\ e # 0 /\ CanGet(e)
        /\ inode' = iget(ic, e)
        /\ IF Len(d.path) = 1
           THEN Then(t, iput(d.s) \o Rest(t), [loc[t] EXCEPT !.r = SlotOf(e)])
           ELSE Then(t, iput(d.s) \o <<[i |-> "walk", s |-> SlotOf(e), path |-> Tail(d.path),
                                       parent |-> d.parent]>> \o Rest(t), loc[t])
  /\ UNCHANGED <<dinode, ents, cwd, ofile, panicked>>

(* Mutation of iput_free: the references are not looked at. *)
iput_freeAnyway(t) ==
  LET s == Head(todo[t]).s
      free == inode[s].valid /\ inode[s].nlink = 0
  IN
  /\ At(t, "iput") /\ inode[s].lock = 0
  /\ IF free
     THEN /\ inode' = [inode EXCEPT ![s].valid = FALSE, ![s].type = "none"]
          /\ dinode' = [dinode EXCEPT ![inode[s].inum].type = "none"]
          /\ ents' = [ents EXCEPT ![inode[s].inum] = NoEnts]
     ELSE UNCHANGED <<inode, dinode, ents>>
  /\ Then(t, <<[i |-> "iput_drop", s |-> s]>> \o Rest(t), loc[t])
  /\ UNCHANGED <<cwd, ofile, panicked>>

(* iput with ip->lock: the last reference to an inode without links        *)
(* truncates it (itrunc) and frees it.                                     *)
iput_free(t) ==
  LET s == Head(todo[t]).s
      free == inode[s].valid /\ inode[s].nlink = 0 /\ inode[s].ref = 1
  IN
  /\ At(t, "iput") /\ inode[s].lock = 0
  /\ IF free
     THEN /\ inode' = [inode EXCEPT ![s].valid = FALSE, ![s].type = "none"]
          /\ dinode' = [dinode EXCEPT ![inode[s].inum].type = "none"]
          /\ ents' = [ents EXCEPT ![inode[s].inum] = NoEnts]
     ELSE UNCHANGED <<inode, dinode, ents>>
  /\ Then(t, <<[i |-> "iput_drop", s |-> s]>> \o Rest(t), loc[t])
  /\ UNCHANGED <<cwd, ofile, panicked>>

(* iput with icache.lock.  What an entry without references keeps is read  *)
(* by nobody before iget recycles it, and is forgotten here.               *)
iput_drop(t) ==
  LET s == Head(todo[t]).s IN
  /\ At(t, "iput_drop")
  /\ inode' = [inode EXCEPT ![s] = IF @.ref = 1 THEN Empty ELSE [@ EXCEPT !.ref = @ - 1]]
  /\ Then(t, Rest(t), loc[t])
  /\ UNCHANGED <<dinode, ents, cwd, ofile, panicked>>

(* iunlockput of an inode that was locked in an earlier step *)
iunlockput(t) ==
  LET s == Head(todo[t]).s IN
  /\ At(t, "iunlockput")
  /\ inode' = [inode EXCEPT ![s].lock = 0]
  /\ Then(t, iput(s) \o Rest(t), loc[t])
  /\ UNCHANGED <<dinode, ents, cwd, ofile, panicked>>

(* The panics of a step that locks an inode: of ilock; of dirlookup, on    *)
(* what is not a directory; of sys_unlink, for a link count that is zero.  *)
Panics(t) ==
  LET s == Wants(t) IN
  /\ s # 0 /\ ~At(t, "iput") /\ inode[s].lock = 0
  /\ \/ BadLock(s)
     \/ (At(t, "link2") \/ At(t, "unlink1") \/ At(t, "create1")) /\ Read(s).type # "DIR"
     \/ At(t, "unlink2") /\ Read(s).nlink < 1

panic(t) ==
  /\ panicked = "none" /\ Panics(t)
  /\ panicked' = Head(todo[t]).i
  /\ UNCHANGED <<dinode, ents, inode, cwd, ofile, todo, loc>>

(* a step of a call that locks the inode it wants *)
Locks(t, l) == At(t, l) /\ Wants(t) # 0 /\ inode[Wants(t)].lock = 0 /\ ~Panics(t)

(* namex has found nothing, and the call ends *)
NotFound(t) ==
  /\ \E l \in {"link1", "unlink1", "create1", "open1", "chdir1"} : At(t, l)
  /\ loc[t].r = 0
  /\ Then(t, << >>, NoLoc)
  /\ UNCHANGED <<dinode, ents, inode, cwd, ofile, panicked>>

-----------------------------------------------------------------------------
(* The last element of the path that nameiparent gets. *)
name(t) == Last(IF loc[t].call.op = "link" THEN loc[t].call.new.elems ELSE loc[t].call.path.elems)

(* Mutation of link1: no iupdate. *)
link1NoUpdate(t) ==
  LET s == loc[t].r  ip == AddLink(s, 1) IN
  /\ Locks(t, "link1")
  /\ IF ip.type = "DIR"
     THEN inode' = [inode EXCEPT ![s] = Read(s)] /\ Then(t, iput(s), Loc(t, 0, 0, 0))
     ELSE /\ inode' = [inode EXCEPT ![s] = ip]
          /\ Then(t, Start(loc[t].call.new, TRUE) \o Do("link2"), Loc(t, 0, s, 0))
  /\ UNCHANGED <<dinode, ents, cwd, ofile, panicked>>

(* sys_link: the count of the old inode, before its new name *)
link1(t) ==
  LET s == loc[t].r  ip == AddLink(s, 1) IN
  /\ Locks(t, "link1")
  /\ IF ip.type = "DIR"
     THEN /\ inode' = [inode EXCEPT ![s] = Read(s)]
          /\ Then(t, iput(s), Loc(t, 0, 0, 0)) /\ UNCHANGED dinode
     ELSE /\ inode' = [inode EXCEPT ![s] = ip] /\ dinode' = iupdate(dinode, ip)
          /\ Then(t, Start(loc[t].call.new, TRUE) \o Do("link2"), Loc(t, 0, s, 0))
  /\ UNCHANGED <<ents, cwd, ofile, panicked>>

(* sys_link: dirlink, which puts the inode it finds under the name while   *)
(* the directory is locked                                                 *)
link2(t) ==
  LET s == loc[t].r
      ip == loc[t].ip
      ic == [inode EXCEPT ![s] = Read(s)]
      e == ents[inode[s].inum][name(t)]
  IN
  /\ Locks(t, "link2")
  /\ \/ /\ e = 0
        /\ ents' = [ents EXCEPT ![inode[s].inum][name(t)] = inode[ip].inum]
        /\ inode' = ic
        /\ Then(t, iput(s) \o iput(ip), Loc(t, 0, 0, 0))
     \/ /\ e # 0 /\ CanGet(e)
        /\ inode' = iget([ic EXCEPT ![s].lock = t], e)
        /\ Then(t, iput(SlotOf(e)) \o <<[i |-> "iunlockput", s |-> s]>> \o Do("link_bad"),
                Loc(t, 0, ip, 0))
        /\ UNCHANGED ents
  /\ UNCHANGED <<dinode, cwd, ofile, panicked>>

link2_none(t) ==
  /\ At(t, "link2") /\ loc[t].r = 0
  /\ Then(t, Do("link_bad"), loc[t])
  /\ UNCHANGED <<dinode, ents, inode, cwd, ofile, panicked>>

(* Mutation of link_bad: ip is unlocked and not put. *)
link_badNoPut(t) ==
  LET s == loc[t].ip  ip == AddLink(s, -1) IN
  /\ Locks(t, "link_bad")
  /\ inode' = [inode EXCEPT ![s] = ip] /\ dinode' = iupdate(dinode, ip)
  /\ Then(t, << >>, NoLoc)
  /\ UNCHANGED <<ents, cwd, ofile, panicked>>

link_bad(t) ==
  LET s == loc[t].ip  ip == AddLink(s, -1) IN
  /\ Locks(t, "link_bad")
  /\ inode' = [inode EXCEPT ![s] = ip] /\ dinode' = iupdate(dinode, ip)
  /\ Then(t, iput(s), Loc(t, 0, 0, 0))
  /\ UNCHANGED <<ents, cwd, ofile, panicked>>

(* sys_unlink with dp locked *)
unlink1(t) ==
  LET s == loc[t].r
      ic == [inode EXCEPT ![s] = Read(s)]
      e == ents[inode[s].inum][name(t)]
  IN
  /\ Locks(t, "unlink1")
  /\ \/ /\ name(t) \in Dots \/ e = 0
        /\ inode' = ic
        /\ Then(t, iput(s), Loc(t, 0, 0, 0))
     \/ /\ name(t) \notin Dots /\ e # 0 /\ CanGet(e)
        /\ inode' = iget([ic EXCEPT ![s].lock = t], e)
        /\ Then(t, Do("unlink2"), Loc(t, 0, SlotOf(e), s))
  /\ UNCHANGED <<dinode, ents, cwd, ofile, panicked>>

isdirempty(i) == \A n \in Names : ents[i][n] = 0

(* sys_unlink with ip locked too: the entry goes, and the link of ".." *)
unlink2(t) ==
  LET s == loc[t].ip  d == loc[t].dp
      ip == Read(s)
      dp == IF ip.type = "DIR" THEN AddLink(d, -1) ELSE Read(d)
  IN
  /\ Locks(t, "unlink2")
  /\ IF ip.type = "DIR" /\ ~isdirempty(ip.inum)
     THEN /\ inode' = [inode EXCEPT ![s] = ip]
          /\ Then(t, iput(s) \o <<[i |-> "iunlockput", s |-> d]>>, Loc(t, 0, 0, 0))
          /\ UNCHANGED <<dinode, ents>>
     ELSE /\ ents' = [ents EXCEPT ![inode[d].inum][name(t)] = 0]
          /\ inode' = [inode EXCEPT ![s] = [ip EXCEPT !.lock = t], ![d] = [dp EXCEPT !.lock = 0]]
          /\ dinode' = iupdate(dinode, dp)
          /\ Then(t, iput(d) \o Do("unlink3"), Loc(t, 0, s, 0))
  /\ UNCHANGED <<cwd, ofile, panicked>>

(* sys_unlink: the count, after the entry *)
unlink3(t) ==
  LET s == loc[t].ip  ip == [AddLink(s, -1) EXCEPT !.lock = 0] IN
  /\ At(t, "unlink3")
  /\ inode' = [inode EXCEPT ![s] = ip] /\ dinode' = iupdate(dinode, ip)
  /\ Then(t, iput(s), Loc(t, 0, 0, 0))
  /\ UNCHANGED <<ents, cwd, ofile, panicked>>

-----------------------------------------------------------------------------
(* create with dp locked, when the name exists *)
create1_exists(t) ==
  LET s == loc[t].r  e == ents[inode[s].inum][name(t)] IN
  /\ Locks(t, "create1") /\ e # 0 /\ CanGet(e)
  /\ inode' = iget([inode EXCEPT ![s] = Read(s)], e)
  /\ Then(t, iput(s) \o Do("create2"), Loc(t, 0, SlotOf(e), 0))
  /\ UNCHANGED <<dinode, ents, cwd, ofile, panicked>>

(* what the call does with the inode that create returns locked *)
Created(t, s) ==
  IF loc[t].call.type = "FILE" THEN Do("open2") ELSE <<[i |-> "iunlockput", s |-> s]>>

(* ialloc: the first free inode *)
IsFree(i) == dinode[i].type = "none"
ialloc == CHOOSE i \in Inums : IsFree(i) /\ \A j \in 1..i - 1 : ~IsFree(j)

(* create with dp locked, when it does not: the new inode stays locked *)
create1_new(t) ==
  LET s == loc[t].r
      type == loc[t].call.type
      dp == IF type = "DIR" THEN AddLink(s, 1) ELSE Read(s)
      i == ialloc
      n == SlotOf(i)
  IN
  /\ Locks(t, "create1") /\ ents[inode[s].inum][name(t)] = 0
  /\ (\E k \in Inums : IsFree(k)) /\ CanGet(i) /\ inode[n].lock = 0
  /\ dinode' = iupdate(iupdate(dinode, [inum |-> i, type |-> type, nlink |-> 1]), dp)
  /\ ents' = [ents EXCEPT ![dp.inum][name(t)] = i,
                ![i] = IF type = "DIR" THEN [NoEnts EXCEPT !["."] = i, ![".."] = dp.inum] ELSE NoEnts]
  /\ inode' = [iget([inode EXCEPT ![s] = dp], i) EXCEPT
                ![n].lock = t, ![n].valid = TRUE, ![n].type = type, ![n].nlink = 1]
  /\ Then(t, iput(s) \o Created(t, n), Loc(t, 0, IF type = "FILE" THEN n ELSE 0, 0))
  /\ UNCHANGED <<cwd, ofile, panicked>>

(* create, when the name exists: only a file, and only for open *)
create2(t) ==
  LET s == loc[t].ip  ip == Read(s) IN
  /\ Locks(t, "create2")
  /\ IF loc[t].call.type = "FILE" /\ ip.type = "FILE"
     THEN /\ inode' = [inode EXCEPT ![s] = [ip EXCEPT !.lock = t]]
          /\ Then(t, Do("open2"), loc[t])
     ELSE inode' = [inode EXCEPT ![s] = ip] /\ Then(t, iput(s), Loc(t, 0, 0, 0))
  /\ UNCHANGED <<dinode, ents, cwd, ofile, panicked>>

(* sys_open without O_CREATE: a directory may only be read *)
open1(t) ==
  LET s == loc[t].r  ip == Read(s) IN
  /\ Locks(t, "open1")
  /\ IF ip.type = "DIR" /\ ~loc[t].call.rdonly
     THEN inode' = [inode EXCEPT ![s] = ip] /\ Then(t, iput(s), Loc(t, 0, 0, 0))
     ELSE inode' = [inode EXCEPT ![s] = [ip EXCEPT !.lock = t]] /\ Then(t, Do("open2"), Loc(t, 0, s, 0))
  /\ UNCHANGED <<dinode, ents, cwd, ofile, panicked>>

(* sys_open: a file and a descriptor, or no room in one of the tables *)
open2(t) ==
  LET s == loc[t].ip IN
  /\ At(t, "open2")
  /\ inode' = [inode EXCEPT ![s].lock = 0]
  /\ \/ ofile[t] = 0 /\ ofile' = [ofile EXCEPT ![t] = s] /\ Then(t, << >>, NoLoc)
     \/ Then(t, iput(s), Loc(t, 0, 0, 0)) /\ UNCHANGED ofile
  /\ UNCHANGED <<dinode, ents, cwd, panicked>>

(* iget and ialloc panic when no entry, or no inode, is left. *)
exhausted(t) ==
  LET d == Head(todo[t])
      s == Wants(t)
      e == IF At(t, "root") THEN ROOTINO
           ELSE IF At(t, "walk") /\ ~(d.parent /\ Len(d.path) = 1) THEN ents[inode[s].inum][Head(d.path)]
           ELSE IF At(t, "link2") \/ At(t, "unlink1") \/ At(t, "create1")
           THEN ents[inode[s].inum][name(t)] ELSE 0
  IN
  /\ At(t, "root") \/ (s # 0 /\ inode[s].lock = 0 /\ ~Panics(t))
  /\ \/ e # 0 /\ ~CanGet(e)
     \/ /\ At(t, "create1") /\ e = 0
        /\ ~ \E k \in Inums : IsFree(k) /\ CanGet(ialloc)
  /\ panicked' = "no inodes"
  /\ UNCHANGED <<dinode, ents, inode, cwd, ofile, todo, loc>>

(* sys_close, fileclose *)
close(t) ==
  /\ todo[t] = << >> /\ ofile[t] # 0 /\ panicked = "none"
  /\ ofile' = [ofile EXCEPT ![t] = 0]
  /\ Then(t, iput(ofile[t]), NoLoc)
  /\ UNCHANGED <<dinode, ents, inode, cwd, panicked>>

(* sys_chdir: the new directory *)
chdir1(t) ==
  LET s == loc[t].r  ip == Read(s) IN
  /\ Locks(t, "chdir1")
  /\ inode' = [inode EXCEPT ![s] = ip]
  /\ IF ip.type = "DIR" THEN Then(t, Do("chdir2"), Loc(t, 0, s, 0))
     ELSE Then(t, iput(s), Loc(t, 0, 0, 0))
  /\ UNCHANGED <<dinode, ents, cwd, ofile, panicked>>

(* sys_chdir: the old one is read under cwdlock, and put *)
chdir2(t) ==
  /\ At(t, "chdir2")
  /\ Then(t, iput(cwd[process[t]]) \o Do("chdir3"), loc[t])
  /\ UNCHANGED <<dinode, ents, inode, cwd, ofile, panicked>>

(* sys_chdir: cwd is set, under cwdlock *)
chdir3(t) ==
  /\ At(t, "chdir3")
  /\ cwd' = [cwd EXCEPT ![process[t]] = loc[t].ip]
  /\ Then(t, << >>, NoLoc)
  /\ UNCHANGED <<dinode, ents, inode, ofile, panicked>>

(* A thread enters a system call: sys_link, sys_unlink, sys_open, sys_mkdir, *)
(* sys_mknod, sys_chdir.                                                   *)
Call(t) ==
  \E c \in Calls[t] :
    /\ todo[t] = << >> /\ panicked = "none"
    /\ Then(t, CASE c.op = "link"   -> Start(c.path, FALSE) \o Do("link1")
                 [] c.op = "unlink" -> Start(c.path, TRUE) \o Do("unlink1")
                 [] c.op = "create" -> Start(c.path, TRUE) \o Do("create1")
                 [] c.op = "open"   -> Start(c.path, FALSE) \o Do("open1")
                 [] c.op = "chdir"  -> Start(c.path, FALSE) \o Do("chdir1"),
            [NoLoc EXCEPT !.call = c])
    /\ UNCHANGED <<dinode, ents, inode, cwd, ofile, panicked>>

Step(t) ==
  \/ namex_root(t) \/ namex_cwd(t) \/ idup(t) \/ namex_walk(t) \/ NotFound(t)
  \/ iput_free(t) \/ iput_drop(t) \/ iunlockput(t) \/ panic(t) \/ exhausted(t)
  \/ link1(t) \/ link2(t) \/ link2_none(t) \/ link_bad(t)
  \/ unlink1(t) \/ unlink2(t) \/ unlink3(t)
  \/ create1_exists(t) \/ create1_new(t) \/ create2(t) \/ open1(t) \/ open2(t)
  \/ chdir1(t) \/ chdir2(t) \/ chdir3(t)

Next == \E t \in Threads : Call(t) \/ close(t) \/ Step(t)

Spec == Init /\ [][Next]_vars

-----------------------------------------------------------------------------
(* No thread reaches a panic other than for want of room: an inode that is *)
(* referenced is never freed (ilock), what namex returns as the directory  *)
(* of a name is one when it is locked (dirlookup), and what has a name has *)
(* a link (sys_unlink).                                                    *)
NoPanic == panicked \in {"none", "no inodes"}

(* How many pointers a thread has to an entry of the cache, on which iput  *)
(* is still to be called or which its call will keep.                      *)
Pointers(t, s) ==
  Cardinality({k \in DOMAIN todo[t] :
     todo[t][k].i \in {"walk", "iput", "iput_drop", "iunlockput"} /\ todo[t][k].s = s})
  + Cardinality({f \in {"r", "ip", "dp"} : loc[t][f] = s})
  + (IF ofile[t] = s THEN 1 ELSE 0)

(* a chdir has taken over the reference of cwd *)
InChdir(p) ==
  \E t \in Threads : process[t] = p /\ todo[t] # << >> /\ Last(todo[t]).i = "chdir3"

(* ref counts the pointers to an entry of the inode cache: open files,     *)
(* working directories and the locals of the calls that are under way, so  *)
(* that an entry is recycled exactly when nobody has it any more.          *)
RefsCounted ==
  \A s \in Slots :
    inode[s].ref = MapThenSumSet(LAMBDA t : Pointers(t, s), Threads)
                   + Cardinality({p \in Procs : cwd[p] = s /\ ~InChdir(p)})

(* the entries that name an inode, and the directories that it names *)
NamesOf(i) == {e \in Inums \X Names : ents[e[1]][e[2]] = i}
SubdirsOf(i) == {d \in Inums \ {i} : ents[d][".."] = i /\ NamesOf(d) # {}}

(* Every name in a directory, and the ".." of every directory that has a   *)
(* name, is covered by a link of the inode it leads to, in every state of  *)
(* the disk between two steps of link, unlink and create; a directory has  *)
(* one name, in the directory that its ".." leads to.                      *)
LinksCovered ==
  \A i \in Inums :
    /\ dinode[i].nlink >= Cardinality(NamesOf(i)) + Cardinality(SubdirsOf(i))
    /\ NamesOf(i) # {} => dinode[i].type # "none"
    /\ dinode[i].type = "DIR" => NamesOf(i) \subseteq {ents[i][".."]} \X Names
                                 /\ Cardinality(NamesOf(i)) <= 1

(* the threads that a thread waits for, to lock an inode *)
WaitsFor(t) == IF Wants(t) = 0 THEN {} ELSE {inode[Wants(t)].lock} \ {0}

(* Inode locks are taken in one order, from a directory to what it names,  *)
(* so that no thread waits for itself or for one that waits for it.        *)
NoLockCycle ==
  \A t \in Threads : \A u \in WaitsFor(t) : u # t /\ t \notin WaitsFor(u)

=============================================================================
