------------------------------- MODULE Control -------------------------------
(***************************************************************************)
(* How a line is run: sequence lists, and-or lists and the exit builtin,   *)
(* in executor.c, between the preparation of the whole line (prepare.c)    *)
(* and the loop of main.c.  A pipeline is a step here: what happens inside *)
(* one is the business of Pipeline and Redirect.                           *)
(*                                                                         *)
(* A program is a sequence of and-or lists.  Of a pipeline only its kind   *)
(* matters: exit and export, run alone, change the shell; others only have *)
(* a status.                                                               *)
(***************************************************************************)
EXTENDS Integers, Sequences

CONSTANTS
  Programs,   \* the parsed lines considered
  Statuses,   \* the exit statuses a command may have
  ExitArgs,   \* the numbers exit may be given
  MaxLines    \* how many lines are read

Kinds == {"command", "export", "exit"}
Operators == {"&&", "||"}
AndOrLists == [pipelines : Seq(Kinds), operators : Seq(Operators)]

ASSUME StatusAssumption == Statuses \subseteq 0..255 /\ ExitArgs \subseteq Int
ASSUME ProgramAssumption ==
  /\ MaxLines \in Nat
  /\ \A p \in Programs :
       /\ p \in Seq(AndOrLists)
       /\ \A i \in DOMAIN p : /\ Len(p[i].pipelines) >= 1
                              /\ Len(p[i].operators) = Len(p[i].pipelines) - 1

VARIABLES
  pc,
  program,     \* what was parsed
  list,        \* the and-or list being run
  node,        \* the node of it that was looked at last
  status,      \* the local status of sequence and and-or lists
  lastStatus,  \* shell->last_status
  shouldExit,  \* shell->should_exit
  env,         \* the environment: how often it was changed, modulo 2
  seen,        \* what the words of the line were expanded with
  result,      \* history: the status of each pipeline of the line that ran
  latest,      \* history: the one that ran last, if any
  exitCode,    \* what main() returns
  lines        \* number of lines read

shell == <<lastStatus, shouldExit, env>>
position == <<program, list, node>>
history == <<result, latest>>
vars == <<pc, program, list, node, status, lastStatus, shouldExit, env, seen,
          result, latest, exitCode, lines>>

Nothing == <<0, 0>>
NotSeen == [status |-> 0, env |-> 0]
NoResult == [p \in {} |-> 0]

Init ==
  /\ pc = "read" /\ program = <<>> /\ list = 0 /\ node = 0 /\ status = 0
  /\ lastStatus = 0 /\ shouldExit = FALSE /\ env = 0
  /\ seen = NotSeen
  /\ result = NoResult /\ latest = Nothing /\ exitCode = 0 /\ lines = 0

-----------------------------------------------------------------------------
(* main.c                                                                  *)

ReadLine ==
  /\ pc = "read" /\ lines < MaxLines
  /\ \E p \in Programs : program' = p
  /\ lines' = lines + 1 /\ pc' = "parsed"
  /\ UNCHANGED <<list, node, status, shell, seen, history, exitCode>>

SyntaxError ==
  /\ pc = "read" /\ lines < MaxLines
  /\ lastStatus' = 2 /\ lines' = lines + 1
  /\ UNCHANGED <<pc, position, status, shouldExit, env, seen, history, exitCode>>

EndOfInput ==
  /\ pc = "read"
  /\ shouldExit' = TRUE /\ exitCode' = lastStatus /\ pc' = "exited"
  /\ UNCHANGED <<position, status, lastStatus, env, seen, history, lines>>

(* sh_main_handle_line has destroyed the tree and its locals are gone.     *)
Handled ==
  /\ pc = "handled"
  /\ IF shouldExit
     THEN /\ pc' = "exited" /\ exitCode' = lastStatus
          /\ UNCHANGED <<position, status, seen, history>>
     ELSE /\ pc' = "read"
          /\ program' = <<>> /\ list' = 0 /\ node' = 0 /\ status' = 0
          /\ seen' = NotSeen /\ result' = NoResult /\ latest' = Nothing
          /\ UNCHANGED exitCode
  /\ UNCHANGED <<shell, lines>>

-----------------------------------------------------------------------------
(* sh_executor_run                                                         *)

EmptyProgram ==
  /\ pc = "parsed" /\ program = <<>>
  /\ pc' = "handled"
  /\ UNCHANGED <<position, status, shell, seen, history, exitCode, lines>>

(* Every word of the line is expanded before any of it runs.               *)
PrepareWords ==
  /\ pc = "parsed" /\ program # <<>>
  /\ seen' = [status |-> lastStatus, env |-> env]
  /\ pc' = "heredocs"
  /\ UNCHANGED <<position, status, shell, history, exitCode, lines>>

PrepareHeredocs ==
  /\ pc = "heredocs"
  /\ list' = 1 /\ node' = 1 /\ status' = 0 /\ pc' = "head"
  /\ UNCHANGED <<program, shell, seen, history, exitCode, lines>>

(* A heredoc that cannot be written, or that SIGINT cancels.               *)
HeredocFails ==
  /\ pc = "heredocs"
  /\ lastStatus' \in {1, 130} /\ pc' = "handled"
  /\ UNCHANGED <<position, status, shouldExit, env, seen, history, exitCode,
                 lines>>

-----------------------------------------------------------------------------
(* sh_executor_run_pipeline, of the kinds that matter.                     *)

(* sh_builtin_exit_status keeps the low byte.  Mutant: all of it.          *)
WholeExitStatus(n) == n
ExitStatus(n) == n % 256

(* sh_builtin_exit without an argument, with one that is no number, with a *)
(* number.  Too many arguments are status 1 and the shell goes on.         *)
ExitStatuses == {lastStatus, 2} \cup {ExitStatus(n) : n \in ExitArgs}

Run(i, n) ==
  /\ CASE program[i].pipelines[n] = "command" ->
            status' \in Statuses /\ UNCHANGED <<shouldExit, env>>
       [] program[i].pipelines[n] = "export" ->
            /\ status' \in {0, 1} /\ env' \in {env, 1 - env}
            /\ UNCHANGED shouldExit
       [] program[i].pipelines[n] = "exit" ->
            /\ \/ status' \in ExitStatuses /\ shouldExit' = TRUE
               \/ status' = 1 /\ UNCHANGED shouldExit
            /\ UNCHANGED env
  /\ result' = [p \in DOMAIN result \cup {<<i, n>>} |->
                  IF p = <<i, n>> THEN status' ELSE result[p]]
  /\ latest' = <<i, n>>

(* Mutant: || takes the status for the one of &&.                          *)
ShouldRunSwapped(operator, s) ==
  IF operator = "||" THEN s = 0 ELSE s # 0
(* sh_executor_should_run_and_or                                           *)
ShouldRun(operator, s) ==
  IF operator = "&&" THEN s = 0 ELSE s # 0

List == program[list]

RunHead ==
  /\ pc = "head"
  /\ Run(list, 1)
  /\ node' = 1
  /\ pc' = IF shouldExit' THEN "finish" ELSE "more"
  /\ UNCHANGED <<program, list, lastStatus, seen, exitCode, lines>>

Skip ==
  /\ pc = "more" /\ node < Len(List.pipelines)
  /\ ~ShouldRun(List.operators[node], status)
  /\ node' = node + 1
  /\ UNCHANGED <<pc, program, list, status, shell, seen, history, exitCode,
                 lines>>

(* Mutant: should_exit is looked at only when the list is over.            *)
RunNextRegardless ==
  /\ pc = "more" /\ node < Len(List.pipelines)
  /\ ShouldRun(List.operators[node], status)
  /\ Run(list, node + 1)
  /\ node' = node + 1
  /\ UNCHANGED <<pc, program, list, lastStatus, seen, exitCode, lines>>

RunNext ==
  /\ pc = "more" /\ node < Len(List.pipelines)
  /\ ShouldRun(List.operators[node], status)
  /\ Run(list, node + 1)
  /\ node' = node + 1
  /\ pc' = IF shouldExit' THEN "finish" ELSE "more"
  /\ UNCHANGED <<program, list, lastStatus, seen, exitCode, lines>>

(* The next and-or list of the sequence.                                   *)
NextList ==
  /\ pc = "more" /\ node = Len(List.pipelines)
  /\ IF list < Len(program) THEN list' = list + 1 /\ pc' = "head"
     ELSE list' = list /\ pc' = "finish"
  /\ UNCHANGED <<program, node, status, shell, seen, history, exitCode, lines>>

(* Mutant: a run that exits does not record its status.                    *)
FinishUnlessExit ==
  /\ pc = "finish"
  /\ lastStatus' = IF shouldExit THEN lastStatus ELSE status
  /\ pc' = "handled"
  /\ UNCHANGED <<position, status, shouldExit, env, seen, history, exitCode,
                 lines>>

Finish ==
  /\ pc = "finish"
  /\ lastStatus' = status /\ pc' = "handled"
  /\ UNCHANGED <<position, status, shouldExit, env, seen, history, exitCode,
                 lines>>

Next ==
  \/ ReadLine \/ SyntaxError \/ EndOfInput \/ Handled
  \/ EmptyProgram \/ PrepareWords \/ PrepareHeredocs \/ HeredocFails
  \/ RunHead \/ Skip \/ RunNext \/ NextList \/ Finish

Spec == Init /\ [][Next]_vars
-----------------------------------------------------------------------------
(* Properties.                                                             *)

Points == {"read", "parsed", "heredocs", "head", "more", "finish", "handled",
           "exited"}

(* Every status is one the operating system can report: 0 to 255, whatever *)
(* number exit was given.                                                  *)
TypeOK ==
  /\ pc \in Points
  /\ program \in Seq(AndOrLists)
  /\ list \in Nat /\ node \in Nat
  /\ status \in 0..255 /\ lastStatus \in 0..255 /\ exitCode \in 0..255
  /\ shouldExit \in BOOLEAN /\ env \in {0, 1}
  /\ seen \in [status : 0..255, env : {0, 1}]
  /\ \A p \in DOMAIN result : result[p] \in 0..255
  /\ latest \in Nat \X Nat
  /\ lines \in 0..MaxLines

Running == pc \in {"head", "more", "finish"}
Ran(i, n) == <<i, n>> \in DOMAIN result

(* The nodes of list i that have been looked at.                           *)
Visited(i) ==
  IF i < list THEN 1..Len(program[i].pipelines)
  ELSE IF i = list /\ pc # "head" THEN 1..node ELSE {}

(* The node of list i that ran last before node n.                         *)
IsLastBefore(i, m, n) ==
  m < n /\ Ran(i, m) /\ \A k \in m+1..n-1 : ~Ran(i, k)

(* && goes on after success, || after failure.                             *)
Accepts(operator, s) == (operator = "&&") <=> (s = 0)

(* Node n of list i ran if and only if the operator before it accepts the  *)
(* status of the last node that did run.                                   *)
Decided(i, n) ==
  IF n = 1 THEN Ran(i, 1)
  ELSE \A m \in 1..n-1 : IsLastBefore(i, m, n) =>
         (Ran(i, n) <=> Accepts(program[i].operators[n - 1], result[<<i, m>>]))

(* && and || associate to the left with equal precedence and a skipped     *)
(* pipeline keeps the status: what decides over a node is the last one     *)
(* that ran, however many were skipped in between; and no list is left     *)
(* out.                                                                    *)
ShortCircuit ==
  Running => \A i \in DOMAIN program : \A n \in Visited(i) : Decided(i, n)

(* Once a line has run, the shell's status is the one of the pipeline that *)
(* ran last, also when pipelines after it were skipped or exit cut the     *)
(* line short.                                                             *)
StatusOfLatest ==
  (pc \in {"handled", "exited"} /\ latest # Nothing)
    => lastStatus = result[latest]

(* After exit has taken effect nothing of the line, nor of another line,   *)
(* runs.                                                                   *)
NothingAfterExit == [][shouldExit => UNCHANGED <<history, lines>>]_vars

(* README: $? and the environment are looked up where the runtime state is *)
(* known.  What the words of a pipeline were expanded with is the state it *)
(* runs in.                                                                *)
ExpansionIsCurrent ==
  (pc = "more" /\ node < Len(List.pipelines) /\ latest # Nothing)
    => seen = [status |-> result[latest], env |-> env]
=============================================================================
