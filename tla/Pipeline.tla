------------------------------ MODULE Pipeline ------------------------------
(***************************************************************************)
(* sh_executor_run_pipeline_stages and the children it forks.              *)
(*                                                                         *)
(* The shell (process 0) walks the stages of one pipeline: pipe(), fork(), *)
(* close the ends it no longer needs, go on; then it waits for every child *)
(* it started.  Each child (process i) plumbs its descriptors, applies its *)
(* redirections and runs a program.  Every process has a descriptor table  *)
(* of its own, a fork copies the table of the shell, and a pipe delivers   *)
(* end-of-file, or kills a writer, according to who still holds its ends.  *)
(***************************************************************************)
EXTENDS Integers, Sequences, FiniteSets

CONSTANTS
  N,       \* number of stages of the pipeline
  MaxFd,   \* the largest descriptor number a process may use
  Bases,   \* the sets of descriptors the shell may have open before it
  Cap,     \* how much a pipe holds
  Burst,   \* how much a "source" program writes
  Lines    \* the pipelines considered, see LineType

ASSUME SizesAssumption == /\ N \in Nat /\ N >= 2
                          /\ MaxFd \in Nat \ {0}
                          /\ Cap \in Nat \ {0}
                          /\ Burst \in Nat

(* A shell started without descriptor 0 reads no line; without 1 or 2 it   *)
(* does, and pipe() and open() then return these numbers.                  *)
ASSUME BaseAssumption == \A b \in Bases : 0 \in b /\ b \subseteq 0..MaxFd

Stages == 1..N
Shell == 0
Procs == 0..N
Fd == 0..MaxFd

(* What a descriptor refers to.                                            *)
Closed == <<"closed", 0>>
Inherited == <<"inherited", 0>>
File == <<"file", 0>>
R(k) == <<"read", k>>          \* the read end of the pipe after stage k
W(k) == <<"write", k>>         \* its write end
Objects == ({"closed", "inherited", "file"} \X {0})
             \cup ({"read", "write"} \X Stages)

(* How a program behaves.  "source" writes Burst items, "tidy" does so     *)
(* after closing what it inherited above 2, "forever" never stops writing, *)
(* "filter" copies its input until end-of-file, "head" copies one item,    *)
(* "idle" ends at once (true, an empty command, a command not found).      *)
Programs == {"source", "tidy", "forever", "filter", "head", "idle"}

(* A redirection that succeeds on standard input or output, or one whose   *)
(* open fails.                                                             *)
Redirections == {"in", "out", "bad"}

LineType == [Stages -> [prog : Programs, redirs : Seq(Redirections)]]

ASSUME LinesAssumption == Lines \subseteq LineType

(* waitpid's wait_status and the status the shell makes of it.             *)
SIGPIPE == 13
ErrorStatus == {1, 126, 127}
Exited(s) == <<"exited", s>>
Signaled(s) == <<"signaled", s>>
NoResult == <<"none", 0>>
(* Mutant: WEXITSTATUS forgotten.                                          *)
RawWaitStatus(r) == IF r[1] = "exited" THEN 256 * r[2] ELSE r[2]
StatusFromWaitpid(r) == IF r[1] = "exited" THEN r[2] ELSE 128 + r[2]

VARIABLES
  base,     \* the descriptors the shell has open when the pipeline starts
  line,     \* the parsed pipeline
  pc,       \* where the shell is in sh_executor_run_pipeline_stages
  index,    \* its index, counted from 1; N + 1 when node is NULL
  inFd,     \* its input_fd
  pipeR,    \* its pipefd[0]
  pipeW,    \* its pipefd[1]
  broke,    \* the loop was left with node # NULL
  reap,     \* index of sh_executor_wait_pipeline_children
  status,   \* last_status of the wait, then the value returned
  fds,      \* descriptor table of every process
  st,       \* where each child is
  args,     \* input_fd and output_fd a child was forked with
  redirs,   \* redirections a child has still to apply
  reading,  \* the program of a stage still wants input
  todo,     \* items the program of a stage has still to write
  result,   \* wait_status of a child that ended
  buf       \* items in each pipe

shellVars == <<base, line, pc, index, inFd, pipeR, pipeW, broke, reap,
               status>>
stageVars == <<args, redirs, reading, todo, result, buf>>
vars == <<base, line, pc, index, inFd, pipeR, pipeW, broke, reap, status,
          fds, st, args, redirs, reading, todo, result, buf>>

-----------------------------------------------------------------------------
(* Descriptor tables.                                                      *)

BaseTable == [f \in Fd |-> IF f \in base THEN Inherited ELSE Closed]
EmptyTable == [f \in Fd |-> Closed]

Free(t) == {f \in Fd : t[f] = Closed}
Dup2(t, s, d) == [t EXCEPT ![d] = t[s]]
CloseFd(t, f) == IF f \in Fd THEN [t EXCEPT ![f] = Closed] ELSE t

Holders(o) == {p \in Procs : \E f \in Fd : fds[p][f] = o}

(* The two lowest free descriptors, as pipe() hands them out.              *)
LowestTwo(t, a, b) == /\ a < b
                      /\ \A f \in Free(t) \ {a} : a < f /\ b <= f

Init ==
  /\ base \in Bases /\ line \in Lines
  /\ pc = "pipe" /\ index = 1
  /\ inFd = 0 /\ pipeR = -1 /\ pipeW = -1
  /\ broke = FALSE /\ reap = 1 /\ status = 0
  /\ fds = [p \in Procs |-> IF p = Shell THEN BaseTable ELSE EmptyTable]
  /\ st = [i \in Stages |-> "none"]
  /\ args = [i \in Stages |-> <<0, 1>>]
  /\ redirs = [i \in Stages |-> <<>>]
  /\ reading = [i \in Stages |-> FALSE]
  /\ todo = [i \in Stages |-> 0]
  /\ result = [i \in Stages |-> NoResult]
  /\ buf = [i \in Stages |-> 0]

-----------------------------------------------------------------------------
(* The loop of the shell.                                                  *)

(* No pipe is made after the last stage.                                   *)
LastStage ==
  /\ pc = "pipe" /\ index = N
  /\ pipeR' = -1 /\ pipeW' = -1
  /\ pc' = "fork"
  /\ UNCHANGED <<base, line, index, inFd, broke, reap, status, fds, st,
                 stageVars>>

MakePipe ==
  /\ pc = "pipe" /\ index < N
  /\ \E a, b \in Free(fds[Shell]) :
       /\ LowestTwo(fds[Shell], a, b)
       /\ pipeR' = a /\ pipeW' = b
       /\ fds' = [fds EXCEPT ![Shell][a] = R(index), ![Shell][b] = W(index)]
  /\ pc' = "fork"
  /\ UNCHANGED <<base, line, index, inFd, broke, reap, status, st,
                 stageVars>>

(* EMFILE when the table is full, ENFILE or ENOMEM at any time.            *)
PipeFails ==
  /\ pc = "pipe" /\ index < N
  /\ pipeR' = -1 /\ pipeW' = -1
  /\ broke' = TRUE /\ pc' = "after"
  /\ UNCHANGED <<base, line, index, inFd, reap, status, fds, st, stageVars>>

(* The child starts with a copy of the shell's whole table, the read end   *)
(* of its own output pipe included.                                        *)
Fork ==
  /\ pc = "fork" /\ pc' = "closeIn"
  /\ fds' = [fds EXCEPT ![index] = fds[Shell]]
  /\ st' = [st EXCEPT ![index] = "forked"]
  /\ args' = [args EXCEPT ![index] =
                <<inFd, IF index < N THEN pipeW ELSE 1>>]
  /\ redirs' = [redirs EXCEPT ![index] = line[index].redirs]
  /\ reading' = [reading EXCEPT ![index] =
                   line[index].prog \in {"filter", "head"}]
  /\ todo' = [todo EXCEPT ![index] =
                CASE line[index].prog \in {"source", "tidy"} -> Burst
                  [] line[index].prog = "forever" -> 1
                  [] OTHER -> 0]
  /\ UNCHANGED <<base, line, index, inFd, pipeR, pipeW, broke, reap, status,
                 result, buf>>

ForkFails ==
  /\ pc = "fork" /\ pc' = "closeIn"
  /\ UNCHANGED <<base, line, index, inFd, pipeR, pipeW, broke, reap, status,
                 fds, st, stageVars>>

(* Mutant: the shell keeps the previous pipe open.                         *)
KeepInput ==
  /\ pc = "closeIn" /\ pc' = "closeOut"
  /\ UNCHANGED <<base, line, index, inFd, pipeR, pipeW, broke, reap, status,
                 fds, st, stageVars>>

CloseInput ==
  /\ pc = "closeIn" /\ pc' = "closeOut"
  /\ fds' = IF inFd # 0
            THEN [fds EXCEPT ![Shell] = CloseFd(fds[Shell], inFd)] ELSE fds
  /\ UNCHANGED <<base, line, index, inFd, pipeR, pipeW, broke, reap, status,
                 st, stageVars>>

(* Mutant: the shell keeps the write end open.                             *)
KeepOutput ==
  /\ pc = "closeOut" /\ pc' = "advance"
  /\ UNCHANGED <<base, line, index, inFd, pipeR, pipeW, broke, reap, status,
                 fds, st, stageVars>>

CloseOutput ==
  /\ pc = "closeOut" /\ pc' = "advance"
  /\ fds' = [fds EXCEPT ![Shell] = CloseFd(fds[Shell], pipeW)]
  /\ UNCHANGED <<base, line, index, inFd, pipeR, pipeW, broke, reap, status,
                 st, stageVars>>

(* Mutant: the read end leaks when the fork fails.                         *)
GiveUpLeaking ==
  /\ pc = "advance" /\ st[index] = "none"
  /\ broke' = TRUE /\ pc' = "after"
  /\ UNCHANGED <<base, line, index, inFd, pipeR, pipeW, reap, status, fds,
                 st, stageVars>>

(* The fork failed: the read end nobody will use is closed.  input_fd      *)
(* keeps the number that CloseInput closed.                                *)
GiveUp ==
  /\ pc = "advance" /\ st[index] = "none"
  /\ fds' = [fds EXCEPT ![Shell] = CloseFd(fds[Shell], pipeR)]
  /\ broke' = TRUE /\ pc' = "after"
  /\ UNCHANGED <<base, line, index, inFd, pipeR, pipeW, reap, status, st,
                 stageVars>>

Advance ==
  /\ pc = "advance" /\ st[index] # "none"
  /\ inFd' = pipeR
  /\ index' = index + 1
  /\ pc' = IF index < N THEN "pipe" ELSE "after"
  /\ UNCHANGED <<base, line, pipeR, pipeW, broke, reap, status, fds, st,
                 stageVars>>

(* Both exits of the loop close input_fd.  After the last stage it is -1,  *)
(* after a failed fork it is already closed: close() then answers EBADF.   *)
AfterLoop ==
  /\ pc = "after"
  /\ fds' = IF inFd # 0
            THEN [fds EXCEPT ![Shell] = CloseFd(fds[Shell], inFd)] ELSE fds
  /\ pc' = IF index = 1 THEN "return" ELSE "wait"
  /\ UNCHANGED <<base, line, index, inFd, pipeR, pipeW, broke, reap, status,
                 st, stageVars>>

(* Mutant: the status of the first stage is kept.                          *)
WaitChildFirst ==
  /\ pc = "wait"
  /\ st[reap] = "zombie"
  /\ st' = [st EXCEPT ![reap] = "reaped"]
  /\ status' = IF reap = 1 THEN StatusFromWaitpid(result[reap]) ELSE status
  /\ reap' = reap + 1
  /\ pc' = IF reap = index - 1 THEN "return" ELSE "wait"
  /\ UNCHANGED <<base, line, index, inFd, pipeR, pipeW, broke, fds,
                 stageVars>>

(* waitpid for the children in the order they were started.                *)
WaitChild ==
  /\ pc = "wait"
  /\ st[reap] = "zombie"
  /\ st' = [st EXCEPT ![reap] = "reaped"]
  /\ status' = IF reap = index - 1 THEN StatusFromWaitpid(result[reap])
               ELSE status
  /\ reap' = reap + 1
  /\ pc' = IF reap = index - 1 THEN "return" ELSE "wait"
  /\ UNCHANGED <<base, line, index, inFd, pipeR, pipeW, broke, fds,
                 stageVars>>

(* errno of the failed pipe() or fork(), or EBADF of the close after it:   *)
(* each of them is status 1.                                               *)
Return ==
  /\ pc = "return" /\ pc' = "done"
  /\ status' = IF broke THEN 1 ELSE status
  /\ UNCHANGED <<base, line, index, inFd, pipeR, pipeW, broke, reap, fds, st,
                 stageVars>>

ShellStep ==
  \/ LastStage \/ MakePipe \/ PipeFails \/ Fork \/ ForkFails
  \/ CloseInput \/ CloseOutput \/ GiveUp \/ Advance \/ AfterLoop
  \/ WaitChild \/ Return

-----------------------------------------------------------------------------
(* A child.                                                                *)

(* sh_executor_child_run_stage up to the redirections.  Its four steps     *)
(* touch only the child's own table, and none but the last can make it let *)
(* go of a pipe end, so that no other process can tell them apart.         *)
(* Mutants: the child keeps its second copy of the write end, or closes it *)
(* without a dup2 onto 1.                                                  *)
WiredKeepingOutput(t, in, out) ==
  LET a == IF in # 0 THEN CloseFd(Dup2(t, in, 0), in) ELSE t
  IN  IF out # 1 THEN Dup2(a, out, 1) ELSE a
WiredWithoutOutput(t, in, out) ==
  LET a == IF in # 0 THEN CloseFd(Dup2(t, in, 0), in) ELSE t
  IN  IF out # 1 THEN CloseFd(a, out) ELSE a

WiredTable(t, in, out) ==
  LET a == IF in # 0 THEN Dup2(t, in, 0) ELSE t
      b == IF out # 1 THEN Dup2(a, out, 1) ELSE a
      c == IF in # 0 THEN CloseFd(b, in) ELSE b
  IN  IF out # 1 THEN CloseFd(c, out) ELSE c

Plumb(i) ==
  /\ st[i] = "forked"
  /\ fds' = [fds EXCEPT ![i] = WiredTable(fds[i], args[i][1], args[i][2])]
  /\ st' = [st EXCEPT ![i] = "wired"]
  /\ UNCHANGED <<shellVars, stageVars>>

(* The kernel closes the descriptors of a process that ends.               *)
Ends(i, r) ==
  /\ fds' = [fds EXCEPT ![i] = EmptyTable]
  /\ st' = [st EXCEPT ![i] = "zombie"]
  /\ result' = [result EXCEPT ![i] = r]

(* open() returns f, the lowest free descriptor; dup2() onto 0 or 1 and    *)
(* close() of f.  When 1 itself is free, f is 1: dup2() does nothing and   *)
(* the close() undoes the open().                                          *)
RedirectedTable(t, f, kind) ==
  LET target == IF kind = "in" THEN 0 ELSE 1
  IN  CloseFd(Dup2([t EXCEPT ![f] = File], f, target), f)

Redirect(i) ==
  /\ st[i] = "wired" /\ redirs[i] # <<>> /\ Head(redirs[i]) # "bad"
  /\ \E f \in Free(fds[i]) :
       /\ \A g \in Free(fds[i]) : f <= g
       /\ fds' = [fds EXCEPT ![i] =
                    RedirectedTable(fds[i], f, Head(redirs[i]))]
  /\ redirs' = [redirs EXCEPT ![i] = Tail(redirs[i])]
  /\ UNCHANGED <<shellVars, st, args, reading, todo, result, buf>>

RedirectFails(i) ==
  /\ st[i] = "wired" /\ redirs[i] # <<>>
  /\ Head(redirs[i]) = "bad" \/ Free(fds[i]) = {}
  /\ \E s \in ErrorStatus : Ends(i, Exited(s))
  /\ UNCHANGED <<shellVars, args, redirs, reading, todo, buf>>

(* execve, or the builtin run in the child.  A tidy program closes what it *)
(* was not meant to have.                                                  *)
StandardOnly(t) == [f \in Fd |-> IF f \in {0, 1, 2} THEN t[f] ELSE Closed]
Exec(i) ==
  /\ st[i] = "wired" /\ redirs[i] = <<>>
  /\ fds' = IF line[i].prog = "tidy"
            THEN [fds EXCEPT ![i] = StandardOnly(fds[i])] ELSE fds
  /\ st' = [st EXCEPT ![i] = "run"]
  /\ UNCHANGED <<shellVars, stageVars>>

-----------------------------------------------------------------------------
(* The program of a stage and the kernel's pipes.                          *)

PipeOf(o) == o[2]
IsRead(o) == o[1] = "read"
IsWrite(o) == o[1] = "write"

WritesNext(i) == IF line[i].prog = "forever" THEN todo[i] ELSE todo[i] - 1

Write(i) ==
  /\ st[i] = "run" /\ todo[i] > 0
  /\ LET o == fds[i][1] IN
       \/ /\ ~IsWrite(o)
          /\ UNCHANGED buf
       \/ /\ IsWrite(o) /\ buf[PipeOf(o)] < Cap
          /\ Holders(R(PipeOf(o))) # {}
          /\ buf' = [buf EXCEPT ![PipeOf(o)] = @ + 1]
  /\ todo' = [todo EXCEPT ![i] = WritesNext(i)]
  /\ UNCHANGED <<shellVars, fds, st, args, redirs, reading, result>>

(* EBADF: a program that was started without descriptor 1 may give up, or  *)
(* go on without what it wrote.                                            *)
WriteFails(i) ==
  /\ st[i] = "run" /\ todo[i] > 0 /\ fds[i][1] = Closed
  /\ Ends(i, Exited(1))
  /\ UNCHANGED <<shellVars, args, redirs, reading, todo, buf>>

BrokenPipe(i) ==
  /\ st[i] = "run" /\ todo[i] > 0
  /\ IsWrite(fds[i][1]) /\ Holders(R(PipeOf(fds[i][1]))) = {}
  /\ Ends(i, Signaled(SIGPIPE))
  /\ UNCHANGED <<shellVars, args, redirs, reading, todo, buf>>

Read(i) ==
  /\ st[i] = "run" /\ todo[i] = 0 /\ reading[i]
  /\ LET o == fds[i][0] IN
       /\ IsRead(o) /\ buf[PipeOf(o)] > 0
       /\ buf' = [buf EXCEPT ![PipeOf(o)] = @ - 1]
  /\ todo' = [todo EXCEPT ![i] = 1]
  /\ reading' = [reading EXCEPT ![i] = line[i].prog = "filter"]
  /\ UNCHANGED <<shellVars, fds, st, args, redirs, result>>

(* A file, or the shell's own standard input, ends; a pipe ends when it is *)
(* empty and nobody holds its write end.                                   *)
EndOfFile(i) ==
  /\ st[i] = "run" /\ todo[i] = 0 /\ reading[i]
  /\ LET o == fds[i][0] IN
       IsRead(o) => buf[PipeOf(o)] = 0 /\ Holders(W(PipeOf(o))) = {}
  /\ reading' = [reading EXCEPT ![i] = FALSE]
  /\ UNCHANGED <<shellVars, fds, st, args, redirs, todo, result, buf>>

Exit(i) ==
  /\ st[i] = "run" /\ todo[i] = 0 /\ ~reading[i]
  /\ \E s \in {0, 1} : Ends(i, Exited(s))
  /\ UNCHANGED <<shellVars, args, redirs, reading, todo, buf>>

StageStep(i) ==
  \/ Plumb(i) \/ Redirect(i) \/ RedirectFails(i) \/ Exec(i)
  \/ Write(i) \/ WriteFails(i) \/ BrokenPipe(i) \/ Read(i)
  \/ EndOfFile(i) \/ Exit(i)

Next == ShellStep \/ \E i \in Stages : StageStep(i)

(* The kernel schedules every process that can run.                        *)
Fairness == /\ WF_vars(ShellStep)
            /\ \A i \in Stages : WF_vars(StageStep(i))

Spec == Init /\ [][Next]_vars /\ Fairness
-----------------------------------------------------------------------------
(* Properties.                                                             *)

StageStates == {"none", "forked", "wired", "run", "zombie", "reaped"}
Over(i) == st[i] \in {"zombie", "reaped"}
Results == ({"exited"} \X (0..255)) \cup ({"signaled"} \X {SIGPIPE})

(* Every variable of sh_executor_run_pipeline_stages and of its children   *)
(* stays in its type: descriptors are -1 or in range, no pipe holds more   *)
(* than Cap.                                                               *)
TypeOK ==
  /\ base \subseteq Fd /\ line \in LineType
  /\ pc \in {"pipe", "fork", "closeIn", "closeOut", "advance", "after",
             "wait", "return", "done"}
  /\ index \in 1..(N + 1)
  /\ inFd \in Fd \cup {-1} /\ pipeR \in Fd \cup {-1}
  /\ pipeW \in Fd \cup {-1}
  /\ broke \in BOOLEAN
  /\ reap \in 1..(N + 1)
  /\ status \in 0..255
  /\ fds \in [Procs -> [Fd -> Objects]]
  /\ st \in [Stages -> StageStates]
  /\ args \in [Stages -> (Fd \cup {-1}) \X (Fd \cup {-1})]
  /\ redirs \in [Stages -> Seq(Redirections)]
  /\ reading \in [Stages -> BOOLEAN]
  /\ todo \in [Stages -> 0..(Burst + 1)]
  /\ result \in [Stages -> Results \cup {NoResult}]
  /\ buf \in [Stages -> 0..Cap]

(* The write end of a pipe is held by the stage that writes to it, and by  *)
(* the shell only until it closes it after the fork: end-of-file reaches   *)
(* the next stage as soon as the writer is over.                           *)
WriteEndPrivate ==
  \A k \in Stages : \A p \in Holders(W(k)) :
    \/ p = k
    \/ p = Shell /\ k = index /\ pc \in {"fork", "closeIn", "closeOut"}

(* A read end is held by its reader, by the writer of the same pipe (which *)
(* inherits it and never closes it) and by the shell until the reader is   *)
(* forked or the loop is left; no later stage ever holds it.               *)
ReadEndConfined ==
  \A k \in Stages : \A p \in Holders(R(k)) :
    \/ p \in {k, k + 1}
    \/ /\ p = Shell /\ k = index
       /\ pc \in {"fork", "closeIn", "closeOut", "advance"}
    \/ /\ p = Shell /\ k = index - 1
       /\ pc \in {"pipe", "fork", "closeIn", "after"}

(* On every path out of the loop, a failed pipe() or fork() at any stage   *)
(* included, the shell has the descriptors it had before, no more and no   *)
(* fewer, when it starts to wait; and no close() of the loop ever hits a   *)
(* descriptor the shell had before.                                        *)
ShellKeepsNoPipe ==
  /\ pc \in {"wait", "return", "done"} => fds[Shell] = BaseTable
  /\ \A f \in base : fds[Shell][f] = Inherited

(* When the shell was started without descriptor 1, every other pipe gets  *)
(* 1 for its read end, and the stage that reads from there closes 1 after  *)
(* it has put its output on it; the last stage never had a 1.  These have  *)
(* no output, and a redirection gives them none.                           *)
Mute(i) == 1 \notin base /\ (i = N \/ i % 2 = 0)

(* A program runs with the previous pipe on 0 and the next on 1 unless a   *)
(* redirection came after, and with no other pipe end than the read end of *)
(* its own output pipe: whatever numbers pipe() and open() returned,       *)
(* except that a mute stage runs with 1 closed.                            *)
Redirected(i, kind) == \E n \in 1..Len(line[i].redirs) : line[i].redirs[n] = kind
StagesWired ==
  \A i \in Stages : st[i] = "run" =>
    /\ fds[i][0] = IF Redirected(i, "in") THEN File
                   ELSE IF i = 1 THEN Inherited ELSE R(i - 1)
    /\ fds[i][1] = IF Mute(i) THEN Closed
                   ELSE IF Redirected(i, "out") THEN File
                   ELSE IF i = N THEN Inherited ELSE W(i)
    /\ \A f \in Fd \ {0, 1} : fds[i][f] \in {Closed, Inherited, R(i)}

(* A stage that copies its input stops only when the stage before it can   *)
(* write no more and everything that was written has been read.            *)
SawEverything ==
  \A i \in Stages \ {1} :
    (st[i] = "run" /\ line[i].prog = "filter" /\ ~reading[i]
       /\ fds[i][0] = R(i - 1))
    => /\ buf[i - 1] = 0
       /\ Over(i - 1) \/ Redirected(i - 1, "out") \/ Mute(i - 1)

(* A stage that can do nothing: it reads an empty pipe that can still be   *)
(* written, or writes a full one that can still be read.                   *)
BlockedReading(i) ==
  /\ st[i] = "run" /\ todo[i] = 0 /\ reading[i] /\ IsRead(fds[i][0])
  /\ buf[PipeOf(fds[i][0])] = 0 /\ Holders(W(PipeOf(fds[i][0]))) # {}
BlockedWriting(i) ==
  /\ st[i] = "run" /\ todo[i] > 0 /\ IsWrite(fds[i][1])
  /\ buf[PipeOf(fds[i][1])] = Cap /\ Holders(R(PipeOf(fds[i][1]))) # {}
Stuck ==
  /\ pc = "wait" /\ st[reap] # "zombie"
  /\ \A i \in Stages : \/ st[i] \in {"none", "zombie", "reaped"}
                        \/ BlockedReading(i) \/ BlockedWriting(i)

(* When the shell waits for ever, some stage is blocked writing a pipe     *)
(* that nobody but itself could read: the read end it inherited is the     *)
(* only cause of a pipeline that hangs.                                    *)
StuckOnlyOnOwnReadEnd ==
  Stuck => \E i \in Stages : BlockedWriting(i) /\ Holders(R(i)) = {i}

(* A pipeline whose every writer has a reader that reads to the end, or    *)
(* writes no more than a pipe holds.                                       *)
Drained ==
  \A i \in Stages :
    /\ line[i].prog # "forever"
    /\ \/ i = N
       \/ Redirected(i, "out")
       \/ line[i].prog \in {"idle", "head"}
       \/ /\ line[i + 1].prog = "filter"
          /\ ~Redirected(i + 1, "in") /\ ~Redirected(i + 1, "bad")

(* Such a pipeline returns to its caller, unless a pipe() or a fork()      *)
(* failed on the way.                                                      *)
DrainedReturns == Drained ~> (pc = "done" \/ broke)

(* What a default SIGPIPE gives a writer whose reader is gone: it does not *)
(* run for ever.                                                           *)
OrphanedWriterEnds ==
  \A i \in 1..(N - 1) :
    (st[i] = "run" /\ fds[i][1] = W(i) /\ Over(i + 1)) ~> (st[i] # "run")

(* The refinement mapping: a stage counts as started from its fork on.     *)
Started == IF pc \in {"closeIn", "closeOut", "advance"} /\ st[index] # "none"
           THEN index ELSE index - 1
StatusOfStage(i) ==
  IF result[i] = NoResult THEN -1 ELSE StatusFromWaitpid(result[i])
Abs == INSTANCE PipelineAbs WITH
  started <- Started,
  ended <- [i \in Stages |-> StatusOfStage(i)],
  failed <- broke,
  returned <- IF pc = "done" THEN status ELSE -1

(* Stages start in order, everything started is waited for, the status is  *)
(* the last stage's or 1.                                                  *)
AbsSpec == Abs!Spec
=============================================================================
