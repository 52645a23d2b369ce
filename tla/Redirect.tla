------------------------------ MODULE Redirect ------------------------------
(***************************************************************************)
(* Redirections, in executor.c: a builtin or an empty command that runs in *)
(* the shell itself saves descriptors 0 and 1, applies its redirections    *)
(* one by one, runs, and puts 0 and 1 back; an external command and a      *)
(* pipeline stage apply theirs in the child and never put anything back.   *)
(*                                                                         *)
(* The place of a command says who runs it: a builtin in the shell, nobody *)
(* (redirections alone), a program in a child, or a builtin in the child   *)
(* that is the last stage of a pipeline, whose input is a pipe.            *)
(*                                                                         *)
(* A line is a sequence of commands.  Its heredocs are opened before its   *)
(* first command runs (prepare.c) and closed with its tree (ast.c).  What  *)
(* is printed by a builtin stays in stdio's buffer until fflush(NULL).     *)
(***************************************************************************)
EXTENDS Integers, Sequences, FiniteSets

CONSTANTS
  MaxFd,      \* the largest descriptor: RLIMIT_NOFILE - 1
  Bases,      \* the sets of descriptors the shell may be started with
  Lines,      \* the lines considered
  MaxLines    \* how many are read

Kinds == {"input", "output", "append", "heredoc"}
Places == {"parent", "empty", "external", "stage"}
Files == {"f", "g"}
Redirections == [kind : Kinds, file : Files]
Commands == [place : Places, redirections : Seq(Redirections)]

Fd == 0..MaxFd
NoFd == -1
Std == {"terminal0", "terminal1", "terminal2", "other"}
Objects == Std \cup Files \cup {"heredoc", "pipe", "none"}

ASSUME FdAssumption == MaxFd \in Nat /\ MaxFd > 1
(* A shell started without descriptor 0 reads no command at all.           *)
ASSUME BaseAssumption == \A b \in Bases : b \subseteq Fd /\ 0 \in b
ASSUME LineAssumption == Lines \subseteq Seq(Commands) /\ MaxLines \in Nat

VARIABLES
  base,       \* the descriptors the shell was started with
  pc,
  line,       \* the line being run
  cur,        \* its command being run
  idx,        \* the redirection of that command to be applied next
  table,      \* the descriptors of the shell
  child,      \* those of the child, after fork
  docs,       \* heredoc.fd of each prepared heredoc: a function of <<cmd, idx>>
  saved,      \* t_executor_saved_fds: stdin_copy at 0, stdout_copy at 1
  buf,        \* what stdio holds unwritten: the commands that printed it
  status,
  delivered,  \* history: what was written where, as <<command, object>>
  lines       \* number of lines read

vars == <<base, pc, line, cur, idx, table, child, docs, saved, buf, status,
          delivered, lines>>

BaseObject(b, f) ==
  IF f \notin b THEN "none"
  ELSE CASE f = 0 -> "terminal0" [] f = 1 -> "terminal1"
         [] f = 2 -> "terminal2" [] OTHER -> "other"
BaseTable(b) == [f \in Fd |-> BaseObject(b, f)]

NothingSaved == [f \in {0, 1} |-> NoFd]
NoDocs == [p \in {} |-> NoFd]

Init ==
  /\ base \in Bases
  /\ pc = "idle" /\ line = <<>> /\ cur = 0 /\ idx = 0
  /\ table = BaseTable(base) /\ child = BaseTable(base)
  /\ docs = NoDocs /\ saved = NothingSaved
  /\ buf = <<>> /\ status = 0 /\ delivered = {} /\ lines = 0

-----------------------------------------------------------------------------
(* Descriptors.                                                            *)

Free(t) == {f \in Fd : t[f] = "none"}
Lowest(t) == CHOOSE f \in Free(t) : \A g \in Free(t) : f <= g

(* Mutant: the number of the error itself.                                 *)
RawErrno(errno) ==
  CASE errno = "ENOENT" -> 2 [] errno = "EACCES" -> 13 [] OTHER -> 24
StatusFromError(errno) ==
  CASE errno = "ENOENT" -> 127 [] errno = "EACCES" -> 126 [] OTHER -> 1

Target(r) == IF r.kind \in {"input", "heredoc"} THEN 0 ELSE 1

(* sh_executor_save_target_fd, on a table t with the copies s.             *)
CanSave(t, s, f) == s[f] # NoFd \/ (t[f] # "none" /\ Free(t) # {})
SaveTarget(t, s, f) ==
  IF s[f] # NoFd THEN t ELSE [t EXCEPT ![Lowest(t)] = t[f]]
(* Mutant: a second redirection of a descriptor saves it again.            *)
CopiesAgain(t, s, f) == [s EXCEPT ![f] = Lowest(t)]
Copies(t, s, f) == IF s[f] # NoFd THEN s ELSE [s EXCEPT ![f] = Lowest(t)]

(* open (or take the heredoc's descriptor), dup2 and close.                *)
CanOpen(t, r) == r.kind = "heredoc" \/ Free(t) # {}
(* Mutant: the descriptor of the file stays open.                          *)
MoveToTargetKeeping(t, r, doc) ==
  IF r.kind = "heredoc" THEN [t EXCEPT ![Target(r)] = t[doc]]
  ELSE [t EXCEPT ![Target(r)] = r.file, ![Lowest(t)] = r.file]
MoveToTarget(t, r, doc) ==
  IF r.kind = "heredoc" THEN [t EXCEPT ![Target(r)] = t[doc]]
  ELSE [t EXCEPT ![Target(r)] = r.file, ![Lowest(t)] = "none"]

(* sh_executor_restore_saved_fds and sh_executor_saved_fds_close.          *)
Restored(t, s) ==
  [f \in Fd |-> IF f \in {s[0], s[1]} THEN "none"
                ELSE IF f \in {0, 1} /\ s[f] # NoFd THEN t[s[f]]
                ELSE t[f]]

(* fflush(NULL) of the buffer b with table t: what reaches a closed        *)
(* descriptor is lost.                                                     *)
Flushed(b, t) ==
  IF t[1] = "none" THEN {} ELSE {<<b[i], t[1]>> : i \in DOMAIN b}

Command == line[cur]
Redirection == Command.redirections[idx]
Doc == IF Redirection.kind = "heredoc" THEN docs[<<cur, idx>>] ELSE NoFd
AllApplied == idx > Len(Command.redirections)
InShell == Command.place \in {"parent", "empty"}

-----------------------------------------------------------------------------
(* A line and its heredocs.                                                *)

ReadLine ==
  /\ pc = "idle" /\ lines < MaxLines
  /\ \E l \in Lines : line' = l
  /\ lines' = lines + 1 /\ pc' = "prepare" /\ cur' = 1 /\ idx' = 0
  /\ docs' = NoDocs /\ delivered' = {}
  /\ UNCHANGED <<base, table, child, saved, buf, status>>

Positions ==
  UNION {{<<c, r>> : r \in DOMAIN line[c].redirections}
           : c \in DOMAIN line}
Heredocs ==
  {p \in Positions : line[p[1]].redirections[p[2]].kind = "heredoc"}
Unprepared == Heredocs \ DOMAIN docs
IsNext(p) ==
  \A q \in Unprepared : p[1] < q[1] \/ (p[1] = q[1] /\ p[2] <= q[2])

(* sh_prepare_collect_heredoc: mkstemp gives the lowest descriptor.        *)
PrepareHeredoc ==
  /\ pc = "prepare" /\ Free(table) # {}
  /\ \E p \in Unprepared :
       /\ IsNext(p)
       /\ docs' = [q \in DOMAIN docs \cup {p} |->
                     IF q = p THEN Lowest(table) ELSE docs[q]]
  /\ table' = [table EXCEPT ![Lowest(table)] = "heredoc"]
  /\ UNCHANGED <<base, pc, line, cur, idx, child, saved, buf, status,
                 delivered, lines>>

(* Without a descriptor, or a file, the line is given up.                  *)
PrepareFails ==
  /\ pc = "prepare" /\ Unprepared # {}
  /\ status' = 1 /\ pc' = "destroy"
  /\ UNCHANGED <<base, line, cur, idx, table, child, docs, saved, buf,
                 delivered, lines>>

Prepared ==
  /\ pc = "prepare" /\ Unprepared = {}
  /\ pc' = "next"
  /\ UNCHANGED <<base, line, cur, idx, table, child, docs, saved, buf, status,
                 delivered, lines>>

(* sh_ast_sequence_list_destroy closes the heredocs.                       *)
DestroyLine ==
  /\ pc = "destroy"
  /\ table' = [f \in Fd |-> IF \E p \in DOMAIN docs : docs[p] = f
                            THEN "none" ELSE table[f]]
  /\ docs' = NoDocs /\ pc' = "idle"
  /\ UNCHANGED <<base, line, cur, idx, child, saved, buf, status, delivered,
                 lines>>

-----------------------------------------------------------------------------
(* A command that runs in the shell.                                       *)

StartInShell ==
  /\ pc = "next" /\ cur <= Len(line) /\ InShell
  /\ delivered' = delivered \cup Flushed(buf, table) /\ buf' = <<>>
  /\ saved' = NothingSaved /\ idx' = 1 /\ pc' = "apply"
  /\ UNCHANGED <<base, line, cur, table, child, docs, status, lines>>

ApplyInShell ==
  /\ pc = "apply" /\ ~AllApplied
  /\ LET f == Target(Redirection)
         t == SaveTarget(table, saved, f)
     IN /\ CanSave(table, saved, f) /\ CanOpen(t, Redirection)
        /\ table' = MoveToTarget(t, Redirection, Doc)
        /\ saved' = Copies(table, saved, f)
  /\ idx' = idx + 1
  /\ UNCHANGED <<base, pc, line, cur, child, docs, buf, status, delivered,
                 lines>>

SaveFails ==
  /\ pc = "apply" /\ ~AllApplied
  /\ ~CanSave(table, saved, Target(Redirection))
  /\ status' = StatusFromError(IF Free(table) = {} THEN "EMFILE" ELSE "EBADF")
  /\ pc' = "finish"
  /\ UNCHANGED <<base, line, cur, idx, table, child, docs, saved, buf,
                 delivered, lines>>

(* Why an open() fails when there is a free descriptor is the file         *)
(* system's business; creating a file does not fail with a missing file    *)
(* only, its directory may be missing.                                     *)
OpenErrors(t, r) ==
  IF r.kind = "heredoc" THEN {}
  ELSE IF Free(t) = {} THEN {"EMFILE"} ELSE {"ENOENT", "EACCES"}

OpenFails ==
  /\ pc = "apply" /\ ~AllApplied
  /\ LET f == Target(Redirection)
         t == SaveTarget(table, saved, f)
     IN /\ CanSave(table, saved, f)
        /\ \E e \in OpenErrors(t, Redirection) : status' = StatusFromError(e)
        /\ table' = t /\ saved' = Copies(table, saved, f)
  /\ pc' = "finish"
  /\ UNCHANGED <<base, line, cur, idx, child, docs, buf, delivered, lines>>

(* The builtin, which may print something and may fail; an empty command   *)
(* does nothing.                                                           *)
RunInShell ==
  /\ pc = "apply" /\ AllApplied
  /\ IF Command.place = "parent"
     THEN buf' \in {buf, Append(buf, cur)} /\ status' \in {0, 1}
     ELSE buf' = buf /\ status' = 0
  /\ pc' = "finish"
  /\ UNCHANGED <<base, line, cur, idx, table, child, docs, saved, delivered,
                 lines>>

(* Mutant: the buffer is written after descriptor 1 was put back.          *)
FinishUnflushed ==
  /\ pc = "finish"
  /\ table' = Restored(table, saved) /\ saved' = NothingSaved
  /\ delivered' = delivered \cup Flushed(buf, table') /\ buf' = <<>>
  /\ cur' = cur + 1 /\ pc' = "next"
  /\ UNCHANGED <<base, line, idx, child, docs, status, lines>>

Finish ==
  /\ pc = "finish"
  /\ delivered' = delivered \cup Flushed(buf, table) /\ buf' = <<>>
  /\ table' = Restored(table, saved) /\ saved' = NothingSaved
  /\ cur' = cur + 1 /\ pc' = "next"
  /\ UNCHANGED <<base, line, idx, child, docs, status, lines>>

-----------------------------------------------------------------------------
(* A command that runs in a child.                                         *)

(* A stage has its input_fd moved to 0 before its redirections apply.      *)
Fork ==
  /\ pc = "next" /\ cur <= Len(line) /\ ~InShell
  /\ child' = IF Command.place = "stage" THEN [table EXCEPT ![0] = "pipe"]
              ELSE table
  /\ idx' = 1 /\ pc' = "childApply"
  /\ UNCHANGED <<base, line, cur, table, docs, saved, buf, status, delivered,
                 lines>>

ApplyInChild ==
  /\ pc = "childApply" /\ ~AllApplied
  /\ CanOpen(child, Redirection)
  /\ child' = MoveToTarget(child, Redirection, Doc)
  /\ idx' = idx + 1
  /\ UNCHANGED <<base, pc, line, cur, table, docs, saved, buf, status,
                 delivered, lines>>

ChildOpenFails ==
  /\ pc = "childApply" /\ ~AllApplied
  /\ \E e \in OpenErrors(child, Redirection) : status' = StatusFromError(e)
  /\ cur' = cur + 1 /\ pc' = "next"
  /\ UNCHANGED <<base, line, idx, table, child, docs, saved, buf, delivered,
                 lines>>

(* A program writes what it prints itself; a builtin in a stage prints     *)
(* into the buffer it inherited and flushes all of it.                     *)
RunInChild ==
  /\ pc = "childApply" /\ AllApplied
  /\ pc' = "childRan"
  /\ LET inherited == IF Command.place = "stage" THEN buf ELSE <<>>
     IN \E printed \in {inherited, Append(inherited, cur)} :
          delivered' = delivered \cup Flushed(printed, child)
  /\ status' \in {0, 1}
  /\ UNCHANGED <<base, line, cur, idx, table, child, docs, saved, buf, lines>>

Wait ==
  /\ pc = "childRan"
  /\ cur' = cur + 1 /\ pc' = "next"
  /\ UNCHANGED <<base, line, idx, table, child, docs, saved, buf, status,
                 delivered, lines>>

(* && and || may leave out what is left, as exit does.                     *)
EndLine ==
  /\ pc = "next"
  /\ pc' = "destroy"
  /\ UNCHANGED <<base, line, cur, idx, table, child, docs, saved, buf, status,
                 delivered, lines>>

Next ==
  \/ ReadLine \/ PrepareHeredoc \/ PrepareFails \/ Prepared \/ DestroyLine
  \/ StartInShell \/ ApplyInShell \/ SaveFails \/ OpenFails \/ RunInShell
  \/ Finish
  \/ Fork \/ ApplyInChild \/ ChildOpenFails \/ RunInChild \/ Wait \/ EndLine

Spec == Init /\ [][Next]_vars
-----------------------------------------------------------------------------
(* Properties.                                                             *)

Points == {"idle", "prepare", "next", "apply", "finish", "childApply",
           "childRan", "destroy"}

(* Descriptors, copies, buffer and statuses are in their types; a status   *)
(* is what status_from_system_error makes of an error, never the error.    *)
TypeOK ==
  /\ base \in Bases
  /\ pc \in Points
  /\ line \in Seq(Commands)
  /\ cur \in Nat /\ idx \in Nat
  /\ table \in [Fd -> Objects] /\ child \in [Fd -> Objects]
  /\ \A p \in DOMAIN docs : docs[p] \in Fd
  /\ saved \in [{0, 1} -> Fd \cup {NoFd}]
  /\ buf \in Seq(Nat)
  /\ status \in {0, 1, 126, 127}
  /\ delivered \subseteq Nat \X Objects
  /\ lines \in 0..MaxLines

(* The table the shell should have between two commands: the one it was    *)
(* started with and the heredocs of the line.                              *)
Between ==
  [f \in Fd |-> IF \E p \in DOMAIN docs : docs[p] = f THEN "heredoc"
                ELSE BaseObject(base, f)]

(* However many redirections of a command succeed before one fails, and    *)
(* however often they redirect the same descriptor, the shell has between  *)
(* two commands the descriptors it was started with, and nothing else.     *)
TableRestored ==
  pc \in {"idle", "prepare", "next", "destroy", "childApply", "childRan"}
    => table = Between

(* Where the redirections of command c send descriptor f: the last one     *)
(* wins.                                                                   *)
Redirected(c, f) ==
  LET rs == line[c].redirections
      to == {i \in DOMAIN rs : Target(rs[i]) = f}
      last == CHOOSE i \in to : \A j \in to : j <= i
  IN IF to = {}
     THEN IF f = 0 /\ line[c].place = "stage" THEN "pipe" ELSE BaseObject(base, f)
     ELSE IF rs[last].kind = "heredoc" THEN "heredoc" ELSE rs[last].file

(* What a command prints is found where its own redirections send it,      *)
(* never where the command before it or after it sent its output, nor in   *)
(* the terminal, nor in a heredoc.                                         *)
OutputGoesWhereRedirected ==
  \A d \in delivered : d[2] = Redirected(d[1], 1)

(* A program starts with 0 and 1 where its redirections send them and      *)
(* with nothing opened for a redirection left over.                        *)
ChildSeesRedirections ==
  pc = "childRan" =>
    \A f \in Fd : child[f] = IF f \in {0, 1} THEN Redirected(cur, f)
                             ELSE Between[f]

(* README: the shell saves stdin and stdout and restores them after the    *)
(* command.                                                                *)
StdRestored == pc = "idle" => \A f \in {0, 1} : table[f] = BaseObject(base, f)
=============================================================================
