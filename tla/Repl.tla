-------------------------------- MODULE Repl --------------------------------
(***************************************************************************)
(* The read-eval loop of main.c with the signal dispositions of signal.c,  *)
(* the readline session of input_adapter.c, the heredoc collection of      *)
(* prepare.c and the fork and wait of executor.c, as seen by somebody who  *)
(* may press Ctrl-C or Ctrl-\ between any two of their steps.              *)
(*                                                                         *)
(* A command is one child here (Pipeline has the many), a parent builtin,  *)
(* exit, or a line the parser refuses.  A step between two values of pc is *)
(* atomic where a signal in its middle has the effect it would have before *)
(* it or after it: the two sigaction() calls of one enter or leave, for    *)
(* instance, concern different signals.                                    *)
(***************************************************************************)
EXTENDS Integers, Sequences

CONSTANTS
  MaxKeys,      \* how much is typed
  MaxAhead,     \* how much of it may be waiting unread
  MaxSignals,   \* how often Ctrl-C or Ctrl-\ is pressed
  Interactive,  \* the values of is_interactive considered
  Inherited     \* the dispositions main() may be started with

Signals == {"INT", "QUIT"}
Dispositions == {"default", "ignore", "input"}

ASSUME BoundsAssumption ==
  MaxKeys \in Nat /\ MaxAhead \in Nat \ {0} /\ MaxSignals \in Nat
ASSUME StartAssumption ==
  Interactive \subseteq BOOLEAN /\ Inherited \subseteq {"default", "ignore"}

(* What can be typed: a key of a line, Ctrl-D, or the end of a line, which *)
(* tells what the whole line is.                                           *)
LineKinds == {"blank", "builtin", "exit", "external", "heredoc", "delimiter",
              "syntax"}
Keys == {"key", "eof"} \cup LineKinds

Phases == {"init", "prompt", "execute", "heredoc", "wait"}

(* SIGINT and SIGQUIT as wait statuses, and 128 + SIGINT at a prompt.      *)
(* Mutant: the number of the signal alone.                                 *)
RawSigStatus(s) == IF s = "INT" THEN 2 ELSE 3
SigStatus(s) == IF s = "INT" THEN 130 ELSE 131

VARIABLES
  interactive,  \* shell->is_interactive
  inherited,    \* the dispositions main() was started with
  pc,           \* where the shell is
  ended,        \* "no", "exit" or "killed" by a signal
  phase,        \* shell->signal_phase
  runPrev,      \* previous_phase of sh_executor_run
  hdPrev,       \* previous_phase of sh_prepare_collect_heredoc
  waitPrev,     \* previous_phase of the wait
  lastStatus,   \* shell->last_status
  shouldExit,   \* shell->should_exit
  disp,         \* disposition of each signal in the shell
  inPrev,       \* g_input_prev_sigint and g_input_prev_sigquit
  inInstalled,  \* g_input_handlers_installed
  waitPrevDisp, \* g_wait_prev_sigint and g_wait_prev_sigquit
  waitInstalled,\* g_wait_handlers_installed
  flag,         \* g_input_sigint
  reader,       \* who called the input adapter, "prompt" or "heredoc"
  line,         \* the line it returns: NULL is "none"
  done,         \* readline_context->done
  partial,      \* readline holds keys of an unfinished line
  command,      \* what the line being handled is
  storage,      \* a heredoc's temporary file and descriptor exist
  tty,          \* keys typed and not yet read
  typed,        \* number of keys typed
  sent,         \* number of signals sent
  child,        \* "none", "fresh" after fork, "exec", "zombie", "reaped"
  childDisp,    \* its dispositions
  childStatus,  \* its exit status as the shell will see it
  hit           \* history: the handler ran since the current input_enter

control == <<pc, phase>>
signalVars == <<disp, inPrev, inInstalled, waitPrevDisp, waitInstalled>>
lineVars == <<reader, line, done, partial, tty>>
childVars == <<child, childDisp, childStatus>>
prevVars == <<runPrev, hdPrev, waitPrev>>
given == <<interactive, inherited>>
env == <<typed, sent>>
vars == <<interactive, inherited, pc, ended, phase, runPrev, hdPrev, waitPrev,
          lastStatus, shouldExit, disp, inPrev, inInstalled, waitPrevDisp,
          waitInstalled, flag, reader, line, done, partial, command, storage,
          tty, typed, sent, child, childDisp, childStatus, hit>>

Both(d) == [s \in Signals |-> d]

Init ==
  /\ interactive \in Interactive
  /\ \E d \in Inherited : inherited = Both(d)
  /\ pc = "top" /\ ended = "no" /\ phase = "init"
  /\ runPrev = "init" /\ hdPrev = "init" /\ waitPrev = "init"
  /\ lastStatus = 0 /\ shouldExit = FALSE
  /\ disp = inherited /\ inPrev = Both("default")
  /\ inInstalled = FALSE
  /\ waitPrevDisp = Both("default") /\ waitInstalled = FALSE
  /\ flag = FALSE
  /\ reader = "prompt" /\ line = "none" /\ done = FALSE /\ partial = FALSE
  /\ command = "none" /\ storage = FALSE
  /\ tty = <<>> /\ typed = 0 /\ sent = 0
  /\ child = "none" /\ childDisp = inherited /\ childStatus = 0
  /\ hit = FALSE

-----------------------------------------------------------------------------
(* signal.c                                                                *)

InputDisp == [s \in Signals |-> IF s = "INT" THEN "input" ELSE "ignore"]

(* Mutant: a flag left over from the last input is kept.                   *)
InputEnterKeepingFlag ==
  IF interactive
  THEN /\ inPrev' = disp /\ disp' = InputDisp /\ inInstalled' = TRUE
       /\ hit' = FALSE
       /\ UNCHANGED <<flag, waitPrevDisp, waitInstalled>>
  ELSE UNCHANGED <<flag, hit, signalVars>>

InputEnter ==
  IF interactive
  THEN /\ flag' = FALSE /\ hit' = FALSE
       /\ inPrev' = disp /\ disp' = InputDisp /\ inInstalled' = TRUE
       /\ UNCHANGED <<waitPrevDisp, waitInstalled>>
  ELSE UNCHANGED <<flag, hit, signalVars>>

InputLeave ==
  IF interactive /\ inInstalled
  THEN /\ disp' = inPrev /\ inInstalled' = FALSE
       /\ UNCHANGED <<inPrev, waitPrevDisp, waitInstalled>>
  ELSE UNCHANGED signalVars

WaitEnter ==
  IF interactive
  THEN /\ waitPrevDisp' = disp /\ disp' = Both("ignore")
       /\ waitInstalled' = TRUE
       /\ UNCHANGED <<inPrev, inInstalled>>
  ELSE UNCHANGED signalVars

(* Mutant: the dispositions of the wait are left in place.                 *)
WaitLeaveIgnoring ==
  IF interactive /\ waitInstalled
  THEN /\ waitInstalled' = FALSE
       /\ UNCHANGED <<disp, inPrev, inInstalled, waitPrevDisp>>
  ELSE UNCHANGED signalVars

WaitLeave ==
  IF interactive /\ waitInstalled
  THEN /\ disp' = waitPrevDisp /\ waitInstalled' = FALSE
       /\ UNCHANGED <<inPrev, inInstalled, waitPrevDisp>>
  ELSE UNCHANGED signalVars

-----------------------------------------------------------------------------
(* sh_main_repl up to the call of the input adapter.                       *)

Alive == ended = "no"
At(p) == Alive /\ pc = p

StartPrompt ==
  /\ At("top")
  /\ phase' = "prompt" /\ pc' = "promptEnter"
  /\ UNCHANGED <<given, ended, prevVars, lastStatus, shouldExit, signalVars,
                 flag, lineVars, command, storage, env, childVars, hit>>

PromptEnter ==
  /\ At("promptEnter")
  /\ InputEnter
  /\ reader' = "prompt" /\ pc' = "install"
  /\ UNCHANGED <<given, ended, phase, prevVars, lastStatus, shouldExit, line,
                 done, partial, tty, command, storage, env, childVars>>

-----------------------------------------------------------------------------
(* input_adapter.c                                                         *)

(* rl_callback_handler_install, then sh_signal_input_refresh.              *)
Install ==
  /\ At("install") /\ interactive
  /\ line' = "none" /\ done' = FALSE /\ partial' = FALSE
  /\ disp' = IF inInstalled THEN InputDisp ELSE disp
  /\ pc' = "loop"
  /\ UNCHANGED <<given, ended, phase, prevVars, lastStatus, shouldExit, inPrev,
                 inInstalled, waitPrevDisp, waitInstalled, flag, reader, tty,
                 command, storage, env, childVars, hit>>

(* The test of the while; inside it the call of select().                  *)
Loop ==
  /\ At("loop")
  /\ pc' = IF done THEN "return" ELSE "select"
  /\ UNCHANGED <<given, ended, phase, prevVars, lastStatus, shouldExit,
                 signalVars, flag, lineVars, command, storage, env, childVars,
                 hit>>

(* select() blocks until there is something to read.                       *)
SelectReady ==
  /\ At("select") /\ tty # <<>>
  /\ pc' = "readChar"
  /\ UNCHANGED <<given, ended, phase, prevVars, lastStatus, shouldExit,
                 signalVars, flag, lineVars, command, storage, env, childVars,
                 hit>>

(* rl_callback_read_char.  Ctrl-D ends the input only on an empty line.    *)
ReadChar ==
  /\ At("readChar")
  /\ tty' = Tail(tty)
  /\ \/ /\ Head(tty) = "key"
        /\ partial' = TRUE
        /\ UNCHANGED <<line, done>>
     \/ /\ Head(tty) = "eof"
        /\ done' = ~partial
        /\ UNCHANGED <<line, partial>>
     \/ /\ Head(tty) \in LineKinds
        /\ line' = Head(tty) /\ done' = TRUE /\ partial' = FALSE
  /\ pc' = "loop"
  /\ UNCHANGED <<given, ended, phase, prevVars, lastStatus, shouldExit,
                 signalVars, flag, reader, command, storage, env, childVars,
                 hit>>

(* Mutant: select() is called again after EINTR.                           *)
InterruptedRetries ==
  /\ At("eintr")
  /\ pc' = "loop"
  /\ UNCHANGED <<given, ended, phase, prevVars, lastStatus, shouldExit,
                 signalVars, flag, lineVars, command, storage, env, childVars,
                 hit>>

(* select() answered EINTR: the loop is left and, with no line done,       *)
(* rl_free_line_state drops what was typed of one.                         *)
Interrupted ==
  /\ At("eintr")
  /\ partial' = FALSE /\ pc' = "return"
  /\ UNCHANGED <<given, ended, phase, prevVars, lastStatus, shouldExit,
                 signalVars, flag, reader, line, done, tty, command, storage,
                 env, childVars, hit>>

(* The non-interactive adapter: getline().                                 *)
ReadStream ==
  /\ At("install") /\ ~interactive
  /\ tty # <<>>
  /\ line' = IF Head(tty) \in LineKinds THEN Head(tty) ELSE "none"
  /\ tty' = IF Head(tty) = "eof" THEN tty ELSE Tail(tty)
  /\ pc' = IF Head(tty) = "key" THEN "install" ELSE "return"
  /\ UNCHANGED <<given, ended, phase, prevVars, lastStatus, shouldExit,
                 signalVars, flag, reader, done, partial, command, storage, env,
                 childVars, hit>>

ReturnLine ==
  /\ At("return")
  /\ pc' = IF reader = "prompt" THEN "promptLeave" ELSE "hdCheck"
  /\ UNCHANGED <<given, ended, phase, prevVars, lastStatus, shouldExit,
                 signalVars, flag, lineVars, command, storage, env, childVars,
                 hit>>

-----------------------------------------------------------------------------
(* sh_main_repl and sh_main_handle_line after the line was read.           *)

PromptLeave ==
  /\ At("promptLeave")
  /\ InputLeave
  /\ pc' = "promptCheck"
  /\ UNCHANGED <<given, ended, phase, prevVars, lastStatus, shouldExit, flag,
                 lineVars, command, storage, env, childVars, hit>>

PromptCancelled ==
  /\ At("promptCheck") /\ flag
  /\ flag' = FALSE /\ lastStatus' = SigStatus("INT")
  /\ line' = "none" /\ pc' = "top"
  /\ UNCHANGED <<given, ended, phase, prevVars, shouldExit, signalVars, reader,
                 done, partial, tty, command, storage, env, childVars, hit>>

(* Mutant: NULL is taken for end-of-file before the flag is looked at.     *)
PromptEndsUnchecked ==
  /\ At("promptCheck") /\ line = "none"
  /\ shouldExit' = TRUE /\ pc' = "end"
  /\ UNCHANGED <<given, ended, phase, prevVars, lastStatus, signalVars, flag,
                 lineVars, command, storage, env, childVars, hit>>

PromptEnds ==
  /\ At("promptCheck") /\ ~flag /\ line = "none"
  /\ shouldExit' = TRUE /\ pc' = "end"
  /\ UNCHANGED <<given, ended, phase, prevVars, lastStatus, signalVars, flag,
                 lineVars, command, storage, env, childVars, hit>>

SyntaxError ==
  /\ At("promptCheck") /\ ~flag /\ line = "syntax"
  /\ lastStatus' = 2 /\ pc' = "handled"
  /\ UNCHANGED <<given, ended, phase, prevVars, shouldExit, signalVars, flag,
                 lineVars, command, storage, env, childVars, hit>>

(* An empty program: sh_executor_run leaves everything as it was.          *)
BlankLine ==
  /\ At("promptCheck") /\ ~flag /\ line = "blank"
  /\ pc' = "handled"
  /\ UNCHANGED <<given, ended, phase, prevVars, lastStatus, shouldExit,
                 signalVars, flag, lineVars, command, storage, env, childVars,
                 hit>>

(* sh_executor_run of anything else.                                       *)
StartRun ==
  /\ At("promptCheck") /\ ~flag /\ line \notin {"none", "syntax", "blank"}
  /\ command' = line
  /\ runPrev' = phase /\ phase' = "execute"
  /\ pc' = IF line = "heredoc" THEN "hdOpen" ELSE "execute"
  /\ UNCHANGED <<given, ended, hdPrev, waitPrev, lastStatus, shouldExit,
                 signalVars, flag, lineVars, storage, env, childVars, hit>>

-----------------------------------------------------------------------------
(* sh_prepare_collect_heredoc                                              *)

HeredocOpen ==
  /\ At("hdOpen")
  /\ storage' = TRUE
  /\ hdPrev' = phase /\ phase' = "heredoc"
  /\ pc' = "hdEnter"
  /\ UNCHANGED <<given, ended, runPrev, waitPrev, lastStatus, shouldExit,
                 signalVars, flag, lineVars, command, env, childVars, hit>>

(* mkstemp fails.  sh_executor_run restores its phase and returns.         *)
HeredocOpenFails ==
  /\ At("hdOpen")
  /\ lastStatus' = 1 /\ phase' = runPrev /\ pc' = "handled"
  /\ UNCHANGED <<given, ended, prevVars, shouldExit, signalVars, flag, lineVars,
                 command, storage, env, childVars, hit>>

HeredocEnter ==
  /\ At("hdEnter")
  /\ InputEnter
  /\ reader' = "heredoc" /\ pc' = "install"
  /\ UNCHANGED <<given, ended, phase, prevVars, lastStatus, shouldExit, line,
                 done, partial, tty, command, storage, env, childVars>>

(* The collection ends early, and sh_executor_run with it.                 *)
HeredocAbandoned(status) ==
  /\ InputLeave
  /\ lastStatus' = status
  /\ phase' = runPrev
  /\ storage' = FALSE
  /\ pc' = "handled"

HeredocCancelled ==
  /\ At("hdCheck") /\ flag
  /\ flag' = FALSE
  /\ HeredocAbandoned(SigStatus("INT"))
  /\ UNCHANGED <<given, ended, prevVars, shouldExit, lineVars, command, env,
                 childVars, hit>>

HeredocEnds ==
  /\ At("hdCheck") /\ ~flag /\ line \in {"none", "delimiter"}
  /\ pc' = "hdLeave"
  /\ UNCHANGED <<given, ended, phase, prevVars, lastStatus, shouldExit,
                 signalVars, flag, lineVars, command, storage, env, childVars,
                 hit>>

HeredocText ==
  /\ At("hdCheck") /\ ~flag /\ line \notin {"none", "delimiter"}
  /\ pc' = "hdWrite"
  /\ UNCHANGED <<given, ended, phase, prevVars, lastStatus, shouldExit,
                 signalVars, flag, lineVars, command, storage, env, childVars,
                 hit>>

HeredocWritten ==
  /\ At("hdWrite")
  /\ pc' = "install"
  /\ UNCHANGED <<given, ended, phase, prevVars, lastStatus, shouldExit,
                 signalVars, flag, lineVars, command, storage, env, childVars,
                 hit>>

HeredocWriteFails ==
  /\ At("hdWrite")
  /\ HeredocAbandoned(1)
  /\ UNCHANGED <<given, ended, prevVars, shouldExit, flag, lineVars, command,
                 env, childVars, hit>>

HeredocLeave ==
  /\ At("hdLeave")
  /\ InputLeave
  /\ phase' = hdPrev /\ pc' = "execute"
  /\ UNCHANGED <<given, ended, prevVars, lastStatus, shouldExit, flag, lineVars,
                 command, storage, env, childVars, hit>>

HeredocSeekFails ==
  /\ At("hdLeave")
  /\ HeredocAbandoned(1)
  /\ UNCHANGED <<given, ended, prevVars, shouldExit, flag, lineVars, command,
                 env, childVars, hit>>

-----------------------------------------------------------------------------
(* executor.c                                                              *)

RunBuiltin ==
  /\ At("execute") /\ command \in {"builtin", "exit"}
  /\ lastStatus' \in {0, 1}
  /\ shouldExit' \in {FALSE, command = "exit"}
  /\ phase' = runPrev /\ pc' = "handled"
  /\ UNCHANGED <<given, ended, prevVars, signalVars, flag, lineVars, command,
                 storage, env, childVars, hit>>

Fork ==
  /\ At("execute") /\ command \notin {"builtin", "exit"}
  /\ child' = "fresh" /\ childDisp' = disp
  /\ pc' = "forked"
  /\ UNCHANGED <<given, ended, phase, prevVars, lastStatus, shouldExit,
                 signalVars, flag, lineVars, command, storage, env, childStatus,
                 hit>>

ForkFails ==
  /\ At("execute") /\ command \notin {"builtin", "exit"}
  /\ lastStatus' = 1
  /\ phase' = runPrev /\ pc' = "handled"
  /\ UNCHANGED <<given, ended, prevVars, shouldExit, signalVars, flag, lineVars,
                 command, storage, env, childVars, hit>>

StartWait ==
  /\ At("forked")
  /\ waitPrev' = phase /\ phase' = "wait"
  /\ pc' = "waitEnter"
  /\ UNCHANGED <<given, ended, runPrev, hdPrev, lastStatus, shouldExit,
                 signalVars, flag, lineVars, command, storage, env, childVars,
                 hit>>

EnterWait ==
  /\ At("waitEnter")
  /\ WaitEnter
  /\ pc' = "waiting"
  /\ UNCHANGED <<given, ended, phase, prevVars, lastStatus, shouldExit, flag,
                 lineVars, command, storage, env, childVars, hit>>

(* Mutant: waitpid is repeated until the child has exited by itself.       *)
ReapExited ==
  /\ At("waiting") /\ child = "zombie" /\ childStatus < 128
  /\ child' = "reaped" /\ pc' = "waitLeave"
  /\ UNCHANGED <<given, ended, phase, prevVars, lastStatus, shouldExit,
                 signalVars, flag, lineVars, command, storage, env, childDisp,
                 childStatus, hit>>

Reap ==
  /\ At("waiting") /\ child = "zombie"
  /\ child' = "reaped" /\ pc' = "waitLeave"
  /\ UNCHANGED <<given, ended, phase, prevVars, lastStatus, shouldExit,
                 signalVars, flag, lineVars, command, storage, env, childDisp,
                 childStatus, hit>>

LeaveWait ==
  /\ At("waitLeave")
  /\ WaitLeave
  /\ phase' = waitPrev /\ pc' = "ran"
  /\ UNCHANGED <<given, ended, prevVars, lastStatus, shouldExit, flag, lineVars,
                 command, storage, env, childVars, hit>>

(* Mutant: sh_executor_run returns in its own phase.                       *)
EndRunInPhase ==
  /\ At("ran")
  /\ lastStatus' = childStatus
  /\ pc' = "handled"
  /\ UNCHANGED <<given, ended, phase, prevVars, shouldExit, signalVars, flag,
                 lineVars, command, storage, env, childVars, hit>>

EndRun ==
  /\ At("ran")
  /\ lastStatus' = childStatus
  /\ phase' = runPrev /\ pc' = "handled"
  /\ UNCHANGED <<given, ended, prevVars, shouldExit, signalVars, flag, lineVars,
                 command, storage, env, childVars, hit>>

(* Mutant: the heredoc outlives the tree.                                  *)
HandledKeepingStorage ==
  /\ At("handled")
  /\ command' = "none" /\ line' = "none"
  /\ pc' = IF shouldExit THEN "end" ELSE "top"
  /\ UNCHANGED <<given, ended, phase, prevVars, lastStatus, shouldExit,
                 signalVars, flag, reader, done, partial, storage, tty, env,
                 childVars, hit>>

(* The line and its tree are destroyed, the heredoc's file with them.      *)
Handled ==
  /\ At("handled")
  /\ storage' = FALSE /\ command' = "none" /\ line' = "none"
  /\ pc' = IF shouldExit THEN "end" ELSE "top"
  /\ UNCHANGED <<given, ended, phase, prevVars, lastStatus, shouldExit,
                 signalVars, flag, reader, done, partial, tty, env, childVars,
                 hit>>

End ==
  /\ At("end")
  /\ phase' = "init" /\ ended' = "exit"
  /\ UNCHANGED <<given, pc, prevVars, lastStatus, shouldExit, signalVars, flag,
                 lineVars, command, storage, env, childVars, hit>>

ShellStep ==
  \/ StartPrompt \/ PromptEnter \/ Install \/ Loop \/ SelectReady \/ ReadChar
  \/ Interrupted \/ ReadStream \/ ReturnLine \/ PromptLeave \/ PromptCancelled
  \/ PromptEnds \/ SyntaxError \/ BlankLine \/ StartRun
  \/ HeredocOpen \/ HeredocOpenFails \/ HeredocEnter \/ HeredocCancelled
  \/ HeredocEnds \/ HeredocText \/ HeredocWritten \/ HeredocWriteFails
  \/ HeredocLeave \/ HeredocSeekFails
  \/ RunBuiltin \/ Fork \/ ForkFails \/ StartWait \/ EnterWait \/ Reap
  \/ LeaveWait \/ EndRun \/ Handled \/ End

-----------------------------------------------------------------------------
(* The child: sh_signal_child_default, then the program.                   *)

(* Mutant: the child keeps the dispositions it was forked with.            *)
ChildKeeps ==
  /\ child = "fresh" /\ child' = "exec"
  /\ UNCHANGED <<given, control, ended, prevVars, lastStatus, shouldExit,
                 signalVars, flag, lineVars, command, storage, env, childDisp,
                 childStatus, hit>>

ChildDefault ==
  /\ child = "fresh"
  /\ child' = "exec" /\ childDisp' = Both("default")
  /\ UNCHANGED <<given, control, ended, prevVars, lastStatus, shouldExit,
                 signalVars, flag, lineVars, command, storage, env, childStatus,
                 hit>>

ChildExit ==
  /\ child = "exec"
  /\ child' = "zombie" /\ childStatus' \in {0, 1}
  /\ UNCHANGED <<given, control, ended, prevVars, lastStatus, shouldExit,
                 signalVars, flag, lineVars, command, storage, env, childDisp,
                 hit>>

ChildStep == ChildDefault \/ ChildExit

-----------------------------------------------------------------------------
(* The user and the terminal.                                              *)

Type ==
  /\ Alive /\ typed < MaxKeys /\ Len(tty) < MaxAhead
  /\ \E k \in Keys : tty' = Append(tty, k)
  /\ typed' = typed + 1
  /\ UNCHANGED <<given, control, ended, prevVars, lastStatus, shouldExit,
                 signalVars, flag, reader, line, done, partial, command,
                 storage, sent, childVars, hit>>

(* Ctrl-C and Ctrl-\ go to the shell and to its child alike.               *)
ChildSignalled(s) ==
  IF child \in {"fresh", "exec"} /\ childDisp[s] = "default"
  THEN child' = "zombie" /\ childStatus' = SigStatus(s) /\ UNCHANGED childDisp
  ELSE UNCHANGED childVars

(* sh_signal_handle_input_sigint runs.  A select() that is blocked is      *)
(* interrupted; one that has something to read may have returned before.   *)
Caught(s) ==
  /\ Alive /\ disp[s] = "input"
  /\ flag' = TRUE /\ hit' = TRUE
  /\ \/ pc = "select" /\ pc' = "eintr"
     \/ (pc # "select" \/ tty # <<>>) /\ pc' = pc
  /\ UNCHANGED ended

Killed(s) ==
  /\ Alive /\ disp[s] = "default"
  /\ ended' = "killed"
  /\ UNCHANGED <<pc, flag, hit>>

Ignored(s) ==
  /\ ~Alive \/ disp[s] = "ignore"
  /\ UNCHANGED <<pc, flag, hit, ended>>

Signal(s) ==
  /\ sent < MaxSignals /\ sent' = sent + 1
  /\ Caught(s) \/ Killed(s) \/ Ignored(s)
  /\ ChildSignalled(s)
  /\ UNCHANGED <<given, phase, prevVars, lastStatus, shouldExit, signalVars,
                 lineVars, command, storage, typed>>

Next == ShellStep \/ ChildStep \/ Type \/ \E s \in Signals : Signal(s)

(* The kernel schedules the shell and the child, and programs end.  Nobody *)
(* has to type anything or to press Ctrl-C.                                *)
Fairness == WF_vars(ShellStep) /\ WF_vars(ChildStep)

Spec == Init /\ [][Next]_vars /\ Fairness
-----------------------------------------------------------------------------
(* Properties.                                                             *)

InputWindow == {"install", "loop", "select", "readChar", "eintr", "return",
                "promptLeave", "hdCheck", "hdWrite", "hdLeave"}
WaitWindow == {"waiting", "waitLeave"}
PromptPoints == {"promptEnter", "promptLeave", "promptCheck", "handled", "end"}
HeredocPoints == {"hdEnter", "hdCheck", "hdWrite", "hdLeave"}
RunPoints == {"hdOpen", "execute", "forked", "ran"}
WaitPoints == {"waitEnter", "waiting", "waitLeave"}
ReadPoints == {"install", "loop", "select", "readChar", "eintr", "return"}
Points == {"top"} \cup PromptPoints \cup HeredocPoints \cup RunPoints
            \cup WaitPoints \cup ReadPoints

(* Every variable of the loop, of signal.c and of the readline session is  *)
(* in its type; statuses are 0, 1, 2 or 128 plus a signal.                 *)
TypeOK ==
  /\ interactive \in BOOLEAN
  /\ inherited \in [Signals -> {"default", "ignore"}]
  /\ pc \in Points
  /\ ended \in {"no", "exit", "killed"}
  /\ phase \in Phases /\ runPrev \in Phases /\ hdPrev \in Phases
  /\ waitPrev \in Phases
  /\ lastStatus \in {0, 1, 2, 130, 131}
  /\ shouldExit \in BOOLEAN
  /\ disp \in [Signals -> Dispositions]
  /\ inPrev \in [Signals -> Dispositions]
  /\ waitPrevDisp \in [Signals -> Dispositions]
  /\ inInstalled \in BOOLEAN /\ waitInstalled \in BOOLEAN
  /\ flag \in BOOLEAN /\ hit \in BOOLEAN
  /\ reader \in {"prompt", "heredoc"}
  /\ line \in LineKinds \cup {"none"}
  /\ done \in BOOLEAN /\ partial \in BOOLEAN
  /\ command \in LineKinds \cup {"none"}
  /\ storage \in BOOLEAN
  /\ tty \in Seq(Keys)
  /\ typed \in 0..MaxKeys /\ sent \in 0..MaxSignals
  /\ child \in {"none", "fresh", "exec", "zombie", "reaped"}
  /\ childDisp \in [Signals -> Dispositions]
  /\ childStatus \in {0, 1, 130, 131}

(* The handler is in place exactly while input is read, both signals are   *)
(* ignored exactly while a child is waited for, and everywhere else the    *)
(* shell has the dispositions it was started with: every enter is undone   *)
(* on every path, nested in whatever order.                                *)
DispositionsFollow ==
  disp = IF interactive /\ pc \in InputWindow THEN InputDisp
         ELSE IF interactive /\ pc \in WaitWindow THEN Both("ignore")
         ELSE inherited

(* Each phase is left by the value saved when it was entered: a prompt, a  *)
(* heredoc, a run and a wait never see the phase of another.               *)
PhaseFollows ==
  \/ pc = "top" /\ phase \in {"init", "prompt"}
  \/ pc \in PromptPoints /\ phase = IF ended = "exit" THEN "init" ELSE "prompt"
  \/ pc \in HeredocPoints /\ phase = "heredoc"
  \/ pc \in RunPoints /\ phase = "execute"
  \/ pc \in WaitPoints /\ phase = "wait"
  \/ pc \in ReadPoints /\ phase = reader

(* What runs after the fork runs with default dispositions, even in a      *)
(* shell started with both signals ignored, and no child ever holds the    *)
(* handler of the shell.                                                   *)
ChildRunsDefault ==
  /\ child = "exec" => childDisp = Both("default")
  /\ child = "fresh" => childDisp["INT"] # "input"

(* The file of a heredoc lives no longer than the line it belongs to,      *)
(* however the collection and the command end.                             *)
StorageReleased ==
  storage => pc \in HeredocPoints \cup RunPoints \cup WaitPoints
                      \cup ReadPoints \cup {"handled"}

(* Input is cancelled only by an interrupt of this very input, never by    *)
(* one that an earlier input left behind.                                  *)
NoGhostInterrupt ==
  [][PromptCancelled \/ HeredocCancelled => hit]_vars

(* A prompt whose handler ran neither runs the line it returns nor takes   *)
(* the NULL of an interrupted select for the end of the input.             *)
PromptHonoursInterrupt ==
  [][PromptEnds \/ SyntaxError \/ BlankLine \/ StartRun => ~hit]_vars

(* An interrupt that finds select() blocked ends the input at once: the    *)
(* user gets the prompt back without typing anything.                      *)
BlockedInterruptAnswered ==
  (Alive /\ pc = "eintr") ~> (pc \in {"top", "handled"} \/ ~Alive)

(* A shell that has forked comes back to its prompt, however the child     *)
(* ended.                                                                  *)
CommandReturns ==
  (Alive /\ pc = "forked") ~> (pc \in {"top", "end"} \/ ~Alive)

(* What README says of SIGINT during input: the input is cancelled.        *)
InterruptAnswered ==
  (Alive /\ flag /\ pc \in ReadPoints) ~> (~flag \/ ~Alive)

(* What README says of the phases: each has dispositions of its own, so    *)
(* that no Ctrl-C kills the shell in the phases that handle it.            *)
PhaseProtects ==
  (interactive /\ ended = "killed") => phase \notin {"prompt", "heredoc", "wait"}
=============================================================================
