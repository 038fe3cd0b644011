------------------------------- MODULE Shell --------------------------------
(***************************************************************************)
(* The shell (sh.c): it parses a line into a tree of commands and runs the *)
(* tree in processes that it forks, wires with pipes and redirections and  *)
(* waits for.  A line is a sequence of tokens, as gettoken gives them; a   *)
(* word is known by its place in the line.  Descriptors are the lowest     *)
(* free ones, as fdalloc gives them.  What the programs do is external:    *)
(* they read their standard input to its end, and exit.                    *)
(***************************************************************************)
EXTENDS Integers, Sequences, FiniteSets

CONSTANTS
  Lines,     \* what is typed
  NPROC,     \* processes, the first of which is the shell
  MAXARGS,
  MaxLeft    \* bound: processes that run behind a new line

Word == "a"

-----------------------------------------------------------------------------
(* The parser.  A result is the tree and the tokens that are left, each    *)
(* with its place; Failed stands for panic, which exits.                   *)
Tokens(l) == [i \in DOMAIN l |-> [tok |-> l[i], at |-> i]]
peek(s, toks) == s # << >> /\ s[1].tok \in toks
Failed == [cmd |-> [type |-> "none"], rest |-> << >>, ok |-> FALSE]
Result(c, s) == [cmd |-> c, rest |-> s, ok |-> TRUE]
redircmd(c, tok) == [type |-> "REDIR", cmd |-> c, fd |-> IF tok = "<" THEN 0 ELSE 1]

RECURSIVE parseline(_), parsepipe(_), parseredirs(_, _), parseargs(_, _, _)

parseredirs(c, s) ==
  IF ~peek(s, {"<", ">", ">>"}) THEN Result(c, s)
  ELSE IF Len(s) < 2 \/ s[2].tok # Word THEN Failed
  ELSE parseredirs(redircmd(c, s[1].tok), SubSeq(s, 3, Len(s)))

(* the tree that parseexec builds: its words go to the command inside the  *)
(* redirections that it has met                                            *)
RECURSIVE AddWord(_, _)
AddWord(c, w) == IF c.type = "REDIR" THEN [c EXCEPT !.cmd = AddWord(@, w)]
                 ELSE [c EXCEPT !.argv = Append(@, w)]

(* parseexec, its loop, which has seen argc words *)
parseargs(c, s, argc) ==
  IF s = << >> \/ peek(s, {"|", ")", "&", ";"}) THEN Result(c, s)
  ELSE IF s[1].tok # Word \/ argc + 1 >= MAXARGS THEN Failed
  ELSE LET r == parseredirs(AddWord(c, s[1].at), Tail(s)) IN
       IF r.ok THEN parseargs(r.cmd, r.rest, argc + 1) ELSE Failed

parseblock(s) ==
  LET r == parseline(Tail(s)) IN
  IF r.ok /\ peek(r.rest, {")"}) THEN parseredirs(r.cmd, Tail(r.rest)) ELSE Failed

parseexec(s) ==
  IF peek(s, {"("}) THEN parseblock(s)
  ELSE LET r == parseredirs([type |-> "EXEC", argv |-> << >>], s) IN
       IF r.ok THEN parseargs(r.cmd, r.rest, 0) ELSE Failed

(* Mutation of pipecmd: the two sides change places. *)
pipecmdSwapped(l, r) == [type |-> "PIPE", left |-> r, right |-> l]

pipecmd(l, r) == [type |-> "PIPE", left |-> l, right |-> r]

parsepipe(s) ==
  LET l == parseexec(s) IN
  IF ~l.ok \/ ~peek(l.rest, {"|"}) THEN l
  ELSE LET r == parsepipe(Tail(l.rest)) IN
       IF r.ok THEN Result(pipecmd(l.cmd, r.cmd), r.rest) ELSE Failed

RECURSIVE backcmds(_)
backcmds(r) ==
  IF r.ok /\ peek(r.rest, {"&"})
  THEN backcmds(Result([type |-> "BACK", cmd |-> r.cmd], Tail(r.rest))) ELSE r

parseline(s) ==
  LET l == backcmds(parsepipe(s)) IN
  IF ~l.ok \/ ~peek(l.rest, {";"}) THEN l
  ELSE LET r == parseline(Tail(l.rest)) IN
       IF r.ok THEN Result([type |-> "LIST", left |-> l.cmd, right |-> r.cmd], r.rest)
       ELSE Failed

parsecmd(l) == LET r == parseline(Tokens(l)) IN IF r.rest = << >> THEN r ELSE Failed

-----------------------------------------------------------------------------
Procs == 1..NPROC
Fds == 0..5
(* what a descriptor is: the console, a file, or an end of a pipe, which has a number *)
End(mode, n) == [mode |-> mode, pipe |-> n]
Tty == End("tty", 0)
File == End("file", 0)
None == End("none", 0)

VARIABLES
  pc,       \* of a process; "unused" for none
  cmd,      \* of a process: what it runs
  fd,       \* of a process: its descriptors
  parent,   \* of a process; 0 for init
  p,        \* of a process: the descriptors of the pipe that it made
  line,     \* of a process: the line that it runs a part of
  loose     \* of a process: nobody is to wait for it

vars == <<pc, cmd, fd, parent, p, line, loose>>

NoCmd == [type |-> "none"]
Closed == [d \in Fds |-> None]
(* main sees to it that the three first descriptors are open *)
Console == [d \in Fds |-> IF d < 3 THEN Tty ELSE None]
NoPipe == <<0, 0>>

Init ==
  /\ pc = [x \in Procs |-> IF x = 1 THEN "prompt" ELSE "unused"]
  /\ cmd = [x \in Procs |-> NoCmd]
  /\ fd = [x \in Procs |-> IF x = 1 THEN Console ELSE Closed]
  /\ parent = [x \in Procs |-> 0]
  /\ p = [x \in Procs |-> NoPipe]
  /\ line = [x \in Procs |-> << >>]
  /\ loose = [x \in Procs |-> FALSE]

-----------------------------------------------------------------------------
(* The system calls, external to the shell. *)
FreeFds(f) == {d \in Fds : f[d] = None}
Lowest(f) == CHOOSE d \in FreeFds(f) : \A k \in FreeFds(f) : d <= k
Opened(f, x) == [f EXCEPT ![Lowest(f)] = x]
close(f, d) == [f EXCEPT ![d] = None]

IsEnd(f) == f.mode \in {"r", "w"}
Writers(n) == {x \in Procs : \E d \in Fds : fd[x][d] = End("w", n)}
NewPipe == CHOOSE n \in Procs : \A x \in Procs, d \in Fds : fd[x][d] \notin {End("r", n), End("w", n)}

Unused == {x \in Procs : pc[x] = "unused"}
Kids(x) == {y \in Procs : parent[y] = x /\ pc[y] # "unused"}

(* a child that starts at c, its parent at k *)
Forked(x, y, c, k, l) ==
  /\ pc' = [pc EXCEPT ![x] = k, ![y] = c]
  /\ fd' = [fd EXCEPT ![y] = fd[x]]
  /\ p' = [p EXCEPT ![y] = p[x]]
  /\ parent' = [parent EXCEPT ![y] = x]
  /\ line' = [line EXCEPT ![y] = l]

(* exit: the children go to init, which waits for them *)
Gone(x, y) == \/ y = x /\ parent[x] = 0
              \/ y \in Kids(x) /\ pc[y] = "zombie"
exit(x) ==
  /\ pc' = [y \in Procs |-> IF Gone(x, y) THEN "unused" ELSE IF y = x THEN "zombie" ELSE pc[y]]
  /\ cmd' = [cmd EXCEPT ![x] = NoCmd]
  /\ fd' = [fd EXCEPT ![x] = Closed]
  /\ p' = [p EXCEPT ![x] = NoPipe]
  /\ line' = [line EXCEPT ![x] = << >>]
  /\ parent' = [y \in Procs |-> IF y \in Kids(x) \/ Gone(x, y) THEN 0 ELSE parent[y]]

(* wait: one child that has exited is let go *)
wait(x, k) ==
  \/ \E y \in Kids(x) : /\ pc[y] = "zombie"
                        /\ pc' = [pc EXCEPT ![x] = k, ![y] = "unused"]
                        /\ parent' = [parent EXCEPT ![y] = 0]
  \/ Kids(x) = {} /\ pc' = [pc EXCEPT ![x] = k] /\ UNCHANGED parent

-----------------------------------------------------------------------------
(* fork1 panics when there is no process to be had.  What runs then is no  *)
(* longer waited for.                                                      *)
Panic(x) == exit(x) /\ loose' = [y \in Procs |-> y # 1 /\ pc[y] # "unused"]
fork1(x, c, sub, k, l, lo) ==
  IF Unused = {} THEN Panic(x)
  ELSE LET y == CHOOSE y \in Unused : TRUE IN
       /\ Forked(x, y, c, k, l)
       /\ cmd' = [cmd EXCEPT ![y] = sub]
       /\ loose' = [loose EXCEPT ![y] = lo]

(* main reads a line and runs it in a child.  When it cannot fork, or its  *)
(* input ends, it exits and init's next shell is at the prompt; after a    *)
(* "cd" it is there too.                                                   *)
getcmd(l) ==
  /\ pc[1] = "prompt" /\ Unused # {} /\ NPROC - 1 - Cardinality(Unused) <= MaxLeft
  /\ LET r == parsecmd(l) IN
     fork1(1, IF r.ok THEN "run" ELSE "done", r.cmd, "wait", l, FALSE)

(* main waits for that child *)
mainwait == /\ pc[1] = "wait" /\ wait(1, "prompt") /\ UNCHANGED <<cmd, fd, p, line, loose>>

run(x, t) == pc[x] = "run" /\ cmd[x].type = t

(* there may be no such program *)
runcmd_exec(x) ==
  /\ run(x, "EXEC")
  /\ \E to \in {"program", "done"} :
       /\ cmd[x].argv = << >> => to = "done"
       /\ pc' = [pc EXCEPT ![x] = to]
  /\ UNCHANGED <<cmd, fd, parent, p, line, loose>>

(* the file cannot always be opened *)
runcmd_redir(x) ==
  /\ run(x, "REDIR")
  /\ \/ /\ fd' = [fd EXCEPT ![x] = Opened(close(@, cmd[x].fd), File)]
        /\ cmd' = [cmd EXCEPT ![x] = @.cmd]
        /\ UNCHANGED <<pc, parent, p, line, loose>>
     \/ exit(x) /\ UNCHANGED loose

runcmd_list(x) == run(x, "LIST") /\ fork1(x, "run", cmd[x].left, "list", line[x], loose[x])

runcmd_listwait(x) ==
  /\ pc[x] = "list" /\ wait(x, "run")
  /\ cmd' = [cmd EXCEPT ![x] = @.right]
  /\ UNCHANGED <<fd, p, line, loose>>

runcmd_back(x) == run(x, "BACK") /\ fork1(x, "run", cmd[x].cmd, "done", line[x], TRUE)

(* pipe can fail, for want of files or of a page *)
runcmd_pipe(x) ==
  /\ run(x, "PIPE")
  /\ \/ LET n == NewPipe
            r == Lowest(fd[x])
            f == Opened(fd[x], End("r", n)) IN
        /\ fd' = [fd EXCEPT ![x] = Opened(f, End("w", n))]
        /\ p' = [p EXCEPT ![x] = <<r, Lowest(f)>>]
        /\ pc' = [pc EXCEPT ![x] = "left"]
        /\ UNCHANGED <<cmd, parent, line, loose>>
     \/ exit(x) /\ UNCHANGED loose

runcmd_left(x) == pc[x] = "left" /\ fork1(x, "writer", cmd[x].left, "right", line[x], loose[x])

runcmd_right(x) == pc[x] = "right" /\ fork1(x, "reader", cmd[x].right, "close", line[x], loose[x])

(* Mutation of CloseBoth: the write end stays open. *)
CloseBothNot(f, q) == close(f, q[1])

CloseBoth(f, q) == close(close(f, q[1]), q[2])

(* a side of a pipe: its end becomes standard output or standard input *)
runcmd_child(x) ==
  /\ pc[x] \in {"writer", "reader"}
  /\ LET d == IF pc[x] = "writer" THEN 1 ELSE 0
         e == fd[x][p[x][IF d = 1 THEN 2 ELSE 1]] IN
     fd' = [fd EXCEPT ![x] = CloseBoth(Opened(close(@, d), e), p[x])]
  /\ pc' = [pc EXCEPT ![x] = "run"]
  /\ p' = [p EXCEPT ![x] = NoPipe]
  /\ UNCHANGED <<cmd, parent, line, loose>>

runcmd_close(x) ==
  /\ pc[x] = "close"
  /\ fd' = [fd EXCEPT ![x] = CloseBoth(@, p[x])]
  /\ p' = [p EXCEPT ![x] = NoPipe]
  /\ pc' = [pc EXCEPT ![x] = "wait2"]
  /\ UNCHANGED <<cmd, parent, line, loose>>

(* Mutation of runcmd_wait: the pipe's maker waits for one of the two. *)
runcmd_waitOnce(x) ==
  /\ pc[x] \in {"wait2", "wait1"}
  /\ wait(x, "done")
  /\ UNCHANGED <<cmd, fd, p, line, loose>>

runcmd_wait(x) ==
  /\ pc[x] \in {"wait2", "wait1"}
  /\ wait(x, IF pc[x] = "wait2" THEN "wait1" ELSE "done")
  /\ UNCHANGED <<cmd, fd, p, line, loose>>

(* A program, external: it reads its standard input to the end. *)
AtEnd(x) == IsEnd(fd[x][0]) => Writers(fd[x][0].pipe) = {}
program(x) == pc[x] = "program" /\ AtEnd(x) /\ exit(x) /\ UNCHANGED loose

done(x) == pc[x] = "done" /\ exit(x) /\ UNCHANGED loose

Next ==
  \/ \E l \in Lines : getcmd(l)
  \/ mainwait
  \/ \E x \in Procs : \/ runcmd_exec(x) \/ runcmd_redir(x) \/ runcmd_list(x)
                      \/ runcmd_listwait(x) \/ runcmd_back(x) \/ runcmd_pipe(x)
                      \/ runcmd_left(x) \/ runcmd_right(x) \/ runcmd_child(x)
                      \/ runcmd_close(x) \/ runcmd_wait(x) \/ program(x) \/ done(x)

Spec == Init /\ [][Next]_vars

-----------------------------------------------------------------------------
(* What a line means, told from its tokens alone.  The simple command that *)
(* holds the i-th token lies between two operators.                        *)
Operators == {"|", "&", ";"}
Start(l, i) == CHOOSE k \in 0..i : (k = 0 \/ l[k] \in Operators) /\ \A j \in k + 1..i : l[j] \notin Operators
Stop(l, i) == CHOOSE k \in i..Len(l) + 1 : /\ k = Len(l) + 1 \/ l[k] \in Operators
                                           /\ \A j \in i..k - 1 : l[j] \notin Operators
Has(l, i, toks) == \E k \in Start(l, i) + 1..Stop(l, i) - 1 : l[k] \in toks
PipedFrom(l, i) == Start(l, i) # 0 /\ l[Start(l, i)] = "|"
PipedTo(l, i) == Stop(l, i) <= Len(l) /\ l[Stop(l, i)] = "|"

ProgramsOf(l) == {x \in Procs : pc[x] = "program" /\ line[x] = l}
At(x) == cmd[x].argv[1]
Flat(l) == \A i \in DOMAIN l : l[i] \notin {"(", ")"}

(* WIRED AS TYPED (parsecmd and runcmd).  The programs of a line, typed    *)
(* without parentheses, have the descriptors that the line gives them and  *)
(* no other: a redirection wins over a pipe and a pipe over the console,   *)
(* the console stays on 2, and no program has an end of a pipe beyond its  *)
(* standard input and output (an end too many and a reader waits forever). *)
(* In a line with parentheses too, no program has a descriptor above 2.    *)
WiredAsTyped ==
  \A l \in Lines : \A x \in ProgramsOf(l) :
    /\ fd[x][2] = Tty /\ \A d \in Fds : d > 2 => fd[x][d] = None
    /\ Flat(l) =>
         /\ fd[x][0].mode = IF Has(l, At(x), {"<"}) THEN "file"
                            ELSE IF PipedFrom(l, At(x)) THEN "r" ELSE "tty"
         /\ fd[x][1].mode = IF Has(l, At(x), {">", ">>"}) THEN "file"
                            ELSE IF PipedTo(l, At(x)) THEN "w" ELSE "tty"

Reading(x) == pc[x] = "program" /\ IsEnd(fd[x][0])
Waiting(x) == pc[x] \in {"wait", "list", "wait2", "wait1"}
NoneGone(x) == Kids(x) # {} /\ \A y \in Kids(x) : pc[y] # "zombie"

(* NO ONE STUCK (runcmd, PIPE and LIST).  There is no set of processes of  *)
(* which each waits, forever, for others of the set: a reader for the      *)
(* write ends of its pipe to close, a waiter for a child to exit.          *)
NoneStuck ==
  \A S \in SUBSET {x \in Procs : pc[x] # "unused"} \ {{}} :
    \E x \in S : \/ Reading(x) /\ Writers(fd[x][0].pipe) \cap S = {}
                 \/ Waiting(x) /\ (NoneGone(x) => ~(Kids(x) \subseteq S))
                 \/ ~Reading(x) /\ ~Waiting(x)

(* THE PROMPT COMES LAST (main, runcmd).  When the shell is at its prompt  *)
(* again, all that still runs was put in the background, or was left by a  *)
(* fork that failed; and a command after ";" starts when the one before it *)
(* is over.                                                                *)
PromptComesLast ==
  /\ pc[1] = "prompt" => \A x \in Procs \ {1} : pc[x] # "unused" => loose[x]
  /\ \A l \in Lines : \A x, y \in ProgramsOf(l) :
       Flat(l) /\ ~loose[x] /\ ~loose[y] =>
         \A k \in At(x)..At(y) : l[k] # ";"
=============================================================================
