# TLA+ models of the interactive shell

The program in `src/` is a small POSIX-like shell in C: a read-eval loop over
GNU readline, a lexer and a parser, word expansion and heredocs, an executor for
sequences, `&&`/`||` lists, pipelines and redirections, and a few builtins. This
directory holds TLA+ modules for the parts of it that have state, TLC
configurations that check them on small instances, and TLAPS proofs about them
for every value of their constants.

File names below are those of the repository (`executor.c` is
`src/exec/executor.c`, and so on). `PROJECT.json` maps each definition to the
lines it translates.

## 1. Inventory

### Components

| component | state it keeps | operations | talks to | module |
|---|---|---|---|---|
| read-eval loop (`main.c`, `core/shell.c`) | `t_shell`: `last_status`, `should_exit`, `is_interactive`, `signal_phase` | prompt, read a line, handle it, stop | input adapter, signals, parser, executor | `Repl`, `FrontEnd`, `Control` |
| signals (`core/signal.c`) | saved dispositions and an *installed* flag for input and for wait, the flag `g_input_sigint` | enter/leave/refresh of input, enter/leave of wait, child default, the handler | every phase of the shell; called asynchronously | `Repl` |
| input adapter (`core/input_adapter.c`) | one readline session: `line`, `done`; a `FILE*` when not interactive | read a line with `select()` or `getline()` | readline, signals | `Repl` |
| preparation, heredocs (`core/prepare.c`) | descriptor and temporary file of every heredoc, in the tree | expand all words of a line, collect all its heredocs, destroy | input adapter, signals, environment | `Repl` (phases, failures, file), `Redirect` (descriptor), `Control` (when words are expanded) |
| executor: lists (`exec/executor.c`) | local statuses, `last_status`, `should_exit` | sequence, and-or list, one command | preparation, pipelines, builtins | `Control` |
| executor: pipelines | `input_fd`, `pipefd`, `pids`; the descriptor tables of the shell and of all children | pipe, fork, close, plumb, wait | kernel: `pipe`, `fork`, `dup2`, `waitpid`, SIGPIPE | `Pipeline`, `PipelineAbs` |
| executor: redirections | `t_executor_saved_fds`, descriptors 0 and 1, stdio's buffer | save, apply, run, flush, restore; apply in a child | heredocs of the tree, builtins | `Redirect` |
| environment store (`core/env_store.c`) | a linked list with `head`, `tail`, `size` | load, find, get, set, unset, to-envp | builtins, expansion, command lookup | `EnvStore`, `EnvAbs` |
| builtins that change the shell (`builtin/parent_state.c`) | none of their own | `cd`, `export`, `unset`, `exit` | environment store, shell | `EnvStore` (the first three), `Control` (`exit`, and `export` as a command that changes the environment) |
| builtins without effect (`builtin/stateless.c`, `registry.c`) | none | `echo`, `pwd`, `env`, `true`, `false` | stdio | commands that may print, in `Redirect` |
| lexer (`parse/lexer.c`) | the place in the line, the token list, the word being scanned | line to tokens | main, parser | `Lexer`, `FrontEnd` |
| parser, tree (`parse/parser.c`, `ast.c`) | the current token, the unfinished nodes of four levels, the tree | tokens to tree or to an error; destroy the tree | main, preparation | `Parser`, `FrontEnd` |
| expansion (`core/expand.c`, `prepare.c`, `support/identifier.c`) | the place in a word's part, two text buffers | `$NAME`, `$?`, quotes, parts to text | environment, shell, support | `Expand` |
| command lookup (`exec/resolve_path.c`, `support/path.c`, the child of `executor.c`) | the entry of PATH | name to path, `execve`, statuses 126, 127, 1 | environment, file system | `Command` |
| support (`support/strbuf.c`, `strvec.c`) | growing buffers | append, push | everybody | `Buffer` |

### How they interact

The shell is one thread. What makes it hard is everything around that thread:

* **Signals** run their handler or kill the shell between any two of its steps.
  Every phase (prompt, heredoc, execute, wait) saves and restores dispositions
  and `signal_phase`, phases nest (a heredoc inside a run, a wait inside a run),
  and each has error paths of its own.
* **Other processes** change the file system between the search for a program
  and the `execve()` of it.
* **Children** run at the same time as the shell and as each other. Each is
  forked with a copy of *everything*: descriptors of half-built pipelines, of
  heredocs of the whole line, dispositions, unflushed stdio output.
* **The kernel** gives out the lowest free descriptor, delivers end-of-file and
  SIGPIPE according to who still holds a pipe's ends, and may refuse any
  `pipe()`, `fork()`, `dup()` or `open()` half-way through a sequence.

The hazards that follow from this are listed one by one in `PROJECT.json`, at
the line where each bites, with the property that would catch it.

### What makes each component correct

* *pipelines*: every stage has the pipes it should and no others, end-of-file
  arrives, nothing leaks in the shell on any failure path, everything started
  is waited for, the status is the last stage's.
* *redirections*: whatever fails and however often a descriptor is redirected,
  the shell gets its own 0 and 1 back; output goes where its own command sends
  it even though stdio delays it.
* *signals and the loop*: dispositions and phases are a function of the point
  the shell is at; an interrupt cancels the input it was meant for, no later
  one and not the shell.
* *lists*: which pipelines run, what `$?` is afterwards, where `exit` stops.
* *environment*: a list that survives any order of appends and removals, and
  that its callers may take for a function from names to the values they were
  given, of which the first counts.
* *lexer and parser*: two nested loops and four nested functions that agree with
  a reading of the line one character, and one token, at a time; that come to an
  end on every line; that refuse a line at its first wrong token, free a tree
  once and lose no more than a syntax error is known to lose.
* *expansion*: every character is read once, in the quotes it was written in.
* *lookup*: the first entry of PATH that has the name, whatever happens to the
  files meanwhile, and the right status if there is none.
* *buffers*: what is in them and its terminator lie inside what was allocated.

## 2. Modules

| module | role |
|---|---|
| `Pipeline` | the loop of `sh_executor_run_pipeline_stages`, its children, the kernel's pipes |
| `PipelineAbs` | what a caller of a pipeline may rely on; `Pipeline` refines it |
| `PipelineProofs` | proofs about `Pipeline`, its refinement of `PipelineAbs` included |
| `Repl` | read-eval loop, dispositions, readline session, heredoc collection, fork and wait, under signals |
| `ReplProofs` | proofs about `Repl` |
| `Redirect` | save, apply, flush, restore, and the descriptors of heredocs |
| `RedirectProofs` | proofs about `Redirect` |
| `Control` | sequences, and-or lists, `exit`, expansion time |
| `ControlProofs` | proofs about `Control` |
| `Lexer` | `sh_lex_line`: characters to tokens |
| `Parser` | `sh_parse_sequence_list`: tokens to a tree, and the tree's destruction |
| `FrontEnd` | `sh_main_handle_line`: `Lexer` and `Parser` (by INSTANCE) composed |
| `FrontEndProofs` | proofs about the three |
| `Buffer` | the growth of `t_strbuf` and `t_strvec` |
| `Expand` | the preparation of a command's words, on two buffers |
| `Command` | `Expand` composed with fork, the environment vector, lookup and `execve` |
| `CommandProofs` | proofs about the three |
| `EnvStore` | the list and the builtins that change it |
| `EnvAbs` | the environment as its callers know it; `EnvStore` refines it |
| `EnvProofs` | proofs about `EnvStore`, its refinement of `EnvAbs` included |
| `Induction` | induction and recursion over numbers, in the form the proofs use |
| `MC*` | values of the constants for TLC |

An operator commented `Mutant:` is a deliberately wrong variant of the
definition that follows it. None is part of a specification; each is a bug that
the property it is paired with in `PROJECT.json` does detect.

### Pipeline

`pc` is the place of the shell in `sh_executor_run_pipeline_stages`
(`executor.c:377-426`): `LastStage`, `MakePipe`, `PipeFails` are the `pipe()`,
`Fork` and `ForkFails` the `fork()`, `CloseInput` and `CloseOutput` the closes
after it, `GiveUp` and `Advance` the two ways on, `AfterLoop` the close behind
both exits, `WaitChild` a turn of `sh_executor_wait_pipeline_children`, `Return`
the choice of the status. `index` counts from 1; the C locals `input_fd` and
`pipefd` are `inFd`, `pipeR`, `pipeW` with the values they really have, stale
ones included. `fds[p]` is the descriptor table of process `p`: `Fork` copies
the shell's, so a stage inherits exactly what the shell had open.

`base` is the set of descriptors the shell was started with, any of `Bases`: all
that is assumed of it is that it has 0, for a shell without standard input reads
no line. `pipe()` and `open()` give the lowest free numbers, 1 and 2 among them
when these are free.

A child plumbs its descriptors (`Plumb`: two `dup2` and two `close`, one step,
because they touch only the child's own table and none but the last may let go
of a pipe end), applies redirections (`Redirect`, `RedirectFails`), and becomes a
program (`Exec`). Programs are the smallest that tell pipes apart: a finite and
an endless writer, a filter, a reader that leaves early, one that ends at once,
and a tidy writer that closes the descriptors it did not ask for, which is the
only kind that ever gets a SIGPIPE (see the findings). `Write`, `BrokenPipe`, `Read`, `EndOfFile` are the kernel's rules, decided by
`Holders`: who has a descriptor for that end *now*; `WriteFails` is a program
that was started with 1 closed.

### Repl

One `pc` from `main.c` through `input_adapter.c`, `prepare.c` and the external
command path of `executor.c`; each action is named for the call it stands for.
`Signal(s)` may happen between any two of them and does what the dispositions of
that moment say: run the handler (`Caught`), kill the shell (`Killed`), nothing
(`Ignored`); the child gets the same signal. `SelectReady` and `eintr` are the
two outcomes of `select()`. The two `sigaction()` calls of one enter or leave
are one step: they concern different signals, so one signal cannot tell the
difference. A line is only its kind: blank, builtin, exit, external, with a
heredoc, the delimiter, a syntax error. `hit` is a history variable: the handler
has run since the current input was entered.

### Redirect

`table` is the shell's descriptor table, `saved` the two copies of
`t_executor_saved_fds`, `docs` the descriptors of the heredocs of the line, and
`buf` stdio's buffer. `ApplyInShell` is one turn of the loop (save the target if
it is not saved, open, `dup2`, close); `SaveFails` and `OpenFails` its failures;
`RunInShell` the builtin; `Finish` flushes and restores. `ApplyInChild`,
`ChildOpenFails`, `RunInChild` are the same in a child, which never restores.
`PrepareHeredoc` and `DestroyLine` open and close the heredocs of the line.
`delivered` is a history variable: which command's output reached what.

### Control

A line is a sequence of and-or lists; a pipeline is its kind and a status.
`PrepareWords` is the expansion of all words, before the first pipeline, and
`seen` what they were expanded with. `RunHead`, `Skip`, `RunNext`, `NextList`
are the loops of `executor.c:436-499`, `Finish` the assignment of
`last_status`, `Handled` the way back to `main.c`.

### EnvStore

The heap is `store.node`, a function from identifiers to nodes, with freed nodes
that are used again. Every loop over the list is `Gathered`, which follows `next`
from `head` and puts together what the loop takes from each node: `Nodes` for the
searches, the entries with a value for `ToEnvp`. `Find`, `AppendNode`, `Set`, `Unlink`, `UnsetKey`, `ToEnvp`
and `DestroyAll` are the functions of `env_store.c`. The actions are the
arguments of `export` and `unset`, one each, `cd`, and the end of the shell.
Loading takes a name as often as it comes. `Meaning` maps the list to a function
from names to the sequence of values the name has, almost always of length 0 or
1, and `EnvSpec` says that every step is a step of `EnvAbs`: there `unset` drops
the *first* value, so that a second one, which only loading can have made, comes
to light.

### Lexer, Parser and FrontEnd

`Lexer`: a line is a sequence of *classes* of characters, `at` the next one.
`SkipBlank`, `PushOperator`, `StartWord`, `PushEnd` are the branches of the loop
of `sh_lex_line`, `ScanQuoted`, `ScanPlain`, `EndWord` those of
`sh_lexer_scan_word`; the inner-most loops are `PlainEnd` and `QuotedEnd`. Tokens
and parts hold the places of their characters, not copies of them, so that
`LexedAsRead` can compare them with `Open` and `Second`, which read the line one
character at a time: under which quote it is, and whether it is the second half
of a doubled operator.

`Parser`: the functions for the four levels call each other, so that there is
one unfinished node per level at any time: `command`, `pipeline`, `andOr` and
`sequence`; `parser` says in which loop the descent is. `Fail` is the way out
through all levels, each freeing its node and not what hangs in it. A word of the
tree is the index of the token it copies, and `live` the copies that are
allocated. The reference is `Follows`, a relation between neighbouring tokens,
and `Place`, which counts separators.

`FrontEnd` is `sh_main_handle_line`: `Lex`, `Parse`, `ReportSyntaxError` or `Run`,
`DestroyTree`, `DestroyTokens`. `Run` stands for the executor, which other
modules model; all that matters here is that it does not change the tree.

### Buffer, Expand and Command

`Buffer` gives a buffer its data and its capacity, and `TextAppend` and
`VectorPush` the doubling of `strbuf.c` and `strvec.c` with their different tests
of what is enough. `Expand` is `sh_prepare_word_text` (`StartWord`,
`LiteralPart`, `OpenPart`, `ClosePart`, `EndWord`) around the loop of
`sh_expand_text` (`ExpandStatus`, `ExpandVariable`, `PushChar`) on two such
buffers, `inner` and `outer`. The reference is `Meaning`, which says of one
character of a word what it stands for.

`Command` goes on with the child: `RunBuiltin` or `PushEnvp` for every name with
a value, then `sh_executor_resolve_command_path` (`NameIsPath`, `NoSearch`,
`StartSearch`, `FoundInEntry`, `NextEntry`, `NotFound`) and `Execve` or
`ExecveFails`. `FilesChange` is another process, between any two of these. `path`
is what was found, `always` a history variable: the files that have existed since
the search began.

## 3. Runs

| run | bounds | distinct states |
|---|---|---|
| `pipeline` | three stages, every program in the first two places, a filter, a reader that leaves or one that ends at once in the last, redirections on one stage, descriptors 0..8, started with {0,1,2,4} and with {0}, pipes of one item, writers of two | about 178,000 |
| `pipeline_hang` | two stages, descriptors 0..4, started with {0,1,2} | counterexample |
| `repl` | three keys typed, two of them ahead, two signals, interactive or not, started with default or ignored signals | about 454,000 |
| `repl_lost`, `repl_phase` | two keys, one signal, interactive | counterexample |
| `redirect` | lines of two commands, two and one redirections at most, in all four places, descriptors 0..6, started with {0,1,2} and {0,1,2,4} | about 249,000 |
| `redirect_std` | as above with one command, started with {0,2} | counterexample |
| `control` | two lines; one list of three pipelines or two of two; statuses 0, 1, 130; `exit` with 7, 256, -1 and no, bad or too many arguments | about 448,000 |
| `control_stale` | one such line | counterexample |
| `env` | three names, two values, four nodes, five starting environments, two of them with a name twice | about 15,600 |
| `front_end` | all lines of four characters, of five lexemes, and of four commands with all operators between them | about 199,000 |
| `command` | words of up to four characters in one part or two and two in two parts, in three kinds of quotes; four names in seven forms of PATH; buffers that begin with 2 and 1; two changes of files | about 79,000 |

What each shows, and why the bounds reach the interesting cases:

* **`pipeline`** - three stages are the least with a first, a middle and a last
  one; a pipe of one item and a writer of two makes a full pipe; descriptor 4
  taken makes `pipe()` return numbers that are not adjacent; with only 0 taken it
  returns 1 and 2, so that the numbers of the pipe coincide with the ones they
  are put on; nine descriptors let a pipeline start, and `PipeFails`/`ForkFails` may happen at any stage.
  `WriteEndPrivate` and `ReadEndConfined` say who may hold an end at each point
  of the loop, `ShellKeepsNoPipe` that nothing leaks and nothing of the shell's
  own is closed, `StagesWired` what a program starts with (in a shell started
  without descriptor 1 the stages that are `Mute` start without output: their
  read end is number 1, and `executor.c:247-254` puts the output on 1 and then
  closes `input_fd`, which is 1), `SawEverything` that
  a filter gets all its input, `StuckOnlyOnOwnReadEnd` that the only way to hang
  is the one of the first finding, `DrainedReturns` that everything else
  returns, `AbsSpec` that the whole is `PipelineAbs`.
* **`repl`** - three keys are a heredoc line, a line of its text and one more
  (or a key, a line and Ctrl-D); two signals are one that cancels and one that
  comes too late or hits the next phase. `DispositionsFollow` and `PhaseFollows`
  give the dispositions and the phase of every point; `NoGhostInterrupt` and
  `PromptHonoursInterrupt` relate a cancelled or accepted input to the
  interrupts it really had; `ChildRunsDefault`, `StorageReleased`,
  `BlockedInterruptAnswered` and `CommandReturns` are about children, heredoc
  files, an interrupt of a blocked `select()` and the way back to the prompt.
* **`redirect`** - two redirections redirect one descriptor twice or both once,
  and let the second fail after the first succeeded; seven descriptors run out
  when two heredocs, two copies and a file are needed. `TableRestored`,
  `OutputGoesWhereRedirected` and `ChildSeesRedirections` are about the
  descriptors of the shell, the output of a command and a child's descriptors.
* **`control`** - with three pipelines two can be skipped in a row and the
  status that decides is not the neighbour's. `ShortCircuit` says which
  pipelines run, `StatusOfLatest` what `$?` is, `NothingAfterExit` that nothing
  runs after `exit`.
* **`env`** - three names are a first, a middle and a last node, a fourth node
  is room for a wrong append and for a name that comes twice. `ListWellFormed` is
  the shape of the list, `EnvpMatches` what programs are given, `EnvSpec` the
  refinement of `EnvAbs`.
* **`front_end`** - four characters are an open and a closed quote with something
  inside and outside, or two doubled operators, in every order with blanks; five
  lexemes are a command, a redirection and its operand, and an operator with
  nothing before or after it; four commands with all operators give lists of
  lists of pipelines. `TokensMatchLine` and `TreeMatchesLine` compare with the
  two references, `RejectsAtFirstMisfit` says which lines are refused and where,
  `WordsFreedOnce` that the tree can be freed slot by slot: each argument and each
  operand in it holds a copy that is allocated and that hangs nowhere else, after
  an error too, and what is left afterwards are words of the list the error is
  in (`LeakConfined`). `LineAdvances` is why both stages end: every step lowers a number.
* **`command`** - a `$` before, behind and next to `?`, a letter and a digit, in
  the same part and across two; values that are empty, contain `$?`, or force a
  buffer to grow twice; PATH empty, with empty entries in front, in the middle
  and at the end, with a slash at an entry's end. `ExpandedAsWritten` compares
  with `Meaning`, `TerminatorFits` is about the capacities, `FirstInPathIsTaken`
  about the search while files change. The buffers begin small so that the same
  doublings happen with texts that can be enumerated.

CHECK_DEADLOCK is off where the system may stop: a pipeline that has returned or
hangs, a shell that has exited or whose user types nothing more, a bounded
number of lines. It is on in `env`, `front_end` and `command`.

### Fairness

`Pipeline` and `Repl` assume weak fairness of the shell's steps and of each
child's: the kernel schedules every process that can run, and in `Repl` programs
end (`ChildExit`), which is an assumption about the programs and the reason
`CommandReturns` is not claimed of a program that runs for ever. Nobody has to
type or to press a key; no failure has to happen or to stop happening.
The other modules claim no liveness and assume no fairness. That the front end ends on every line follows
from `LineAdvances`, an action property, and the absence of deadlock.

### Findings

Each of the five runs that end in a counterexample checks a sentence of the
repository's README that the code does not keep.

* `pipeline_hang` (`executor.c:395`): a stage never closes the read end of its
  own output pipe, so a writer whose reader has left gets no SIGPIPE and blocks:
  `yes | head -1` hangs. A writer that closes what it inherited (`tidy`) does get
  the signal.
* `repl_lost` (`input_adapter.c:78`): a Ctrl-C that does not hit `select()`
  itself sets a flag nobody looks at until a line ends.
* `repl_phase` (`executor.c:277`): `signal_phase` is set a step before, and kept
  after, the dispositions it stands for; a Ctrl-C in between kills the shell.
* `redirect_std` (`executor.c:66`): started without descriptor 1, the copy of
  stdin is made *at* 1 and overwritten by the next redirection.
* `control_stale` (`executor.c:533`): the words of a line are expanded before
  any of it runs, so `false; echo $?` prints the status of the line before.

## 4. Proofs

All theorems are for arbitrary constants that satisfy the `ASSUME`s of their
module. Every invariant and action property that a run checks is also a theorem.

**`PipelineProofs`** has four parts.

*Who holds which end.* `Spec => []IInv`, from which `TypeOK`, `WriteEndPrivate`,
`ReadEndConfined` and `ShellKeepsNoPipe` follow. None of the last three is
inductive: that a write end is private to its stage depends on the shell closing
*the right* descriptor, so the invariant has to know what `inFd`, `pipeR` and
`pipeW` refer to at each `pc`. `IInv` is the conjunction of `TypeOK`, `Indices`
(how far the loop is, and which stages have been forked), `Descriptors` (what
the three locals name at each point, or that they name nothing), `ShellOwn` (the
shell's table is the one it began with and the pipe ends it should have now),
`WriteEnds` and `ReadEnds` (the holders of each end), `ShellClean`. There is one
lemma for the steps of the children, which never add a pipe end to a table
(`OwnTableKeeps`), and one for the steps of the shell per part of the invariant.

*The refinement.* `Spec => AbsSpec`. A stage counts as started from its fork on,
so `Fork` maps to `Start`, a failed `pipe()` or `GiveUp` to `Fail`, the end of a
child to `StageEnds`, `Return` to `Return`, and the rest to stuttering. On top of
`IInv` this needs `RInv`: results are known exactly for stages that are over
(`ResultsKnown`), stages start in order (`InOrder`), the wait goes through them
in order (`Reaping`), how the loop was left (`LoopLeft`) and what the status is
by then (`StatusKept`).

*What a stage is wired to.* `StagesWired` is about a table that was copied from
the shell's in the middle of the loop, so `WInv` follows it from there:
`ShellPipes` says which numbers of the shell's table are pipe ends, `ForkedTable`
what the child got, `PlumbedTable` what the two `dup2` and two `close` made of
it, `RedirsInOrder` how far its redirections are, and `NoTable` that it has none before and after. `Wiring`
is `Spec => []PInv` with `PInv == IInv /\ RInv /\ WInv`. The shell may have been
started with any descriptors that include 0. If 1 is among them no pipe gets that
number. If not, `ShellPipes` says which do: the lowest number goes to the read
end of one pipe, is still taken when the next is made and free again for the one
after (`Parity`), so that every second stage reads from 1 and loses its output
(`Mute`); `RedirectedTableIs` is that a redirection does not give it back, for
the file it opens gets number 1 itself and `dup2(1, 1)` and `close(1)` follow.

*What goes through the pipes.* `SawEverything` follows from `FlowInv`: a stage
reads nothing before it runs (`ReadsFirst`), what was written is read or in the
pipe (`NoGap`), and reaping keeps to the order (`ReapedInTurn`). For
`StuckOnlyOnOwnReadEnd` the argument goes along the pipeline: no stage is blocked
reading, for then the one before it would be too, and so on up to the first,
which reads no pipe; so the one the shell waits for is blocked writing, and the
last that is has no reader left.

**`ReplProofs`** - a small inductive invariant for each property instead of one
for all: `DispInv` (the dispositions are right, and what an enter saved is what
its leave must restore), `PhaseInv` (the same of the saved phases), `FlagInv`
(in an interactive shell the flag is set only if the handler ran since the last
enter, and stays set until it is looked at), `ChildInv`, `StorageInv`. The two
action properties follow from `FlagInv`. They hold for any number of keys and
signals, which the run bounds. `TypeOK` has
an invariant of its own: that `ReadChar` finds a character at all is the relation
between what `select()` said and what was typed.

**`RedirectProofs`** - `TableRestored` for every number of descriptors, every
set of lines and every starting table in which descriptor 1 is open
(`StdoutOpen`; `redirect_std` shows that the hypothesis is needed). The
invariant is that *undoing* a partly applied command gives the table of between
two commands: `Undo(t, s, b)` holds of a table, its copies and the table to
return to, is kept by every save and every move, and gives the result of
`Restored`. That `Lowest` is a free descriptor at all rests on `LeastExists`.
`OutputGoesWhereRedirected` and `ChildSeesRedirections` need where 0 and 1 lead
after the first `n` redirections, `Where`, and how one more changes that
(`WhereNext`); `ShellWired` and `ChildWired` say that the tables are there at each
turn of the loop, and `BufferHeld` that what stdio holds back is flushed before
anything is moved again. `TypeOK` holds without `StdoutOpen`.

**`ControlProofs`** - `TypeOK`, `ShortCircuit`, `StatusOfLatest` and
`NothingAfterExit`, for programs of any length and any number of lines.
`TypeInv` adds that `list` and `node` are inside the program at each `pc`;
`ExitInv` that `shouldExit` is set only at points where nothing runs any more;
`StatusInv` that `status`, or `lastStatus` after `Finish`, is what `latest`
recorded. `ShortCircuit` is not inductive: `CircuitInv` adds that only nodes
that have been visited ran (`OnlyVisited`), and that the local status is the one
of the last that ran (`StatusDecides`), which is what the next decision is made
from.

**`FrontEndProofs`** - `TypeOK`, `TokensMatchLine`, `RejectsAtFirstMisfit`,
`TreeMatchesLine`, `WordsFreedOnce` and `LineAdvances`, for every set of lines of
any length. `LexInv` is about the scan: that a word without a part looks at a character of its first part, or `EndWord`
could push an empty word and the outer loop start the same word again.
`ParseInv` is about the descent: `Around` says of each function what the token
before the current one and the current one may be when it is entered and at each
turn of its loop, which is what makes the one token an error is found at the
first that does not fit; `Accepted` that all tokens before it do. `PlainEnds` and
`QuotedEnds` show that the inner loops move on and stay in the line. For
`TokensMatchLine` the lexer, which takes a whole stretch at a time, is compared
with a reading of one character at a time: `ReadInv` says that the tokens cut out
so far are the words and operators that begin before `Limit` (`Tell`), in the
order of the line, that the parts of the word being scanned are its text so far
(`InOneWord`), and that no quote is open and no pair half read at `at` (`Fresh`).
There is one lemma for each kind of character (`AtBlank`, `AtPlain`, `AtSingle`,
`AtPair`, `AtQuote`, `InQuotes`), and two that go through a stretch by induction
(`PlainStretch`, `QuotedStretch`). For
`TreeMatchesLine` the tree, which grows from its leaves, is compared with counts
of separators, which are taken from the start of the line. `TreeInv` ties the
two together at every step of the descent: `Placed` says that the place the
separators give the current token is the one that the lengths of the unfinished
nodes give the next one to be hung, `Told` that what hangs somewhere holds
exactly the words before the current token that belong there (and that no
command is empty), `Joined` the same of the operators, and `Emptied` which nodes
have been handed on. `NextPlace` is the lemma about the counts, `Hung` gives one
name to what hangs in the sequence and in the unfinished nodes, and there is a
lemma on it for each step that hangs something. That the parser's look at a
delimiter's parts tells whether it is quoted in the line is `QuotesInv`, of the
scan. `WordsFreedOnce` has two halves. For the words that are lost, `Nodes` says
what the unfinished nodes may hold at each point of the descent, and `Hangs` that
a copy that is allocated hangs in the sequence, or in an unfinished node and then
no semicolon was read since. For the words that are freed, `Sole` adds to
`TreeInv` that every word that was read is allocated, and keeps of it what an
error leaves true: that the commands in the finished lists are made of the words
that belong there. Two slots with the same copy are then in the same command
(the place of a word is one), both arguments or both operands (the token before
the word decides which) and at the same index (the copies in a command
increase): `SlotsHoldOnce`.

**`CommandProofs`** - `TypeOK`, `ExpandedAsWritten`, `TerminatorFits` and
`FirstInPathIsTaken`, for words, values and a PATH of any length. `CommandInv`
is the conjunction of `Prep` (the scan stays within the word, and both buffers
are sound), `Expanded` (`outer` is the text of the parts before this one, `inner`
of the characters before this one, and no name is being cut: `Clean`), `Lookup`
(the entry that is looked at begins where PATH does or after a colon, and no entry
before it has had the program all the time since the search began) and
`VectorSound`. `ExpandedAsWritten` compares with a concatenation, defined by
recursion on the number of characters; `JoinsFacts` and `EmptiesAddNothing` are
its laws. `DoubledIsAbove` shows that doubling reaches what is needed from any
capacity.

**`EnvProofs`** - `TypeOK`, `ListWellFormed`, `EnvpMatches`, and `Spec => EnvSpec`,
for any names, values, starting environments and enough nodes. The invariant is
`\E c : Chain(store, c)`: there is a finite sequence of nodes, none twice, of
which `head` is the first, `tail` the last, `next` the one after, and all nodes
that are not in it are freed. With it go what each phase needs of the room that
is left, which is why an append always finds a node: while `envp` is read there
is one for each entry to come and for each name that is not among them
(`HasRoom`), later one for each name the list does not have. `NodesAreTheChain`
turns the loop over the heap into the sequence (by an induction downwards from
its end, `DownInduction`), and every operation of `env_store.c` has one lemma
about the sequence (`AppendChain`, `UnlinkChain`, ...) and one about the values
that a name has in it (`AppendValues`, `UnlinkValues`, ...). The refinement
maps the list to those values.

**`Induction`** holds what the others rest on. Induction over numbers is stated of
*sets* of numbers (`SetInduction`, `BoundedInduction`), not of predicates, because
the provers cannot instantiate a theorem that takes an operator; a definition by
recursion gets its equation from `RecursionExists`, which builds the function
from its beginnings.

### Only model-checked

* Liveness: `DrainedReturns`, `BlockedInterruptAnswered`, `CommandReturns`, and
  the temporal findings. Liveness under fairness is not within reach of the
  provers used.

## 5. Not modelled

* **Bytes**: what files and heredocs hold, what is printed, and messages. They
  are objects, kinds and statuses here. That includes the text a heredoc collects
  and the comparison of its lines with the delimiter, the listing of `export`
  without arguments, and what `echo`, `pwd` and `env` write.
* **GNU readline**: external; a key, Ctrl-D and the end of a line are all it
  does. History is left out.
* **Errors the code cannot meet or does not recover from**: `malloc` (the
  program aborts), `waitpid` (the shell waits once for each child and has no
  SIGCHLD handler), `dup2` onto 0 and 1 of an open descriptor, `select` with
  anything but EINTR.
* **Read-ahead of `getline()`** on a piped stdin, which takes lines from
  children that read stdin too.
* **Job control, SIGTERM, SIGHUP**: the program does not handle them.

## 6. Plan

Done, in this order, the most important behaviour first: `Pipeline` with
`PipelineAbs` and its proofs, `Repl` and its proofs, `Redirect` and its proof,
`Control`, `EnvStore` with `EnvAbs`; then `Lexer`, `Parser` and `FrontEnd`,
`Buffer`, `Expand` and `Command`, names that come twice in `EnvStore`, and the
proofs about `Control` and `FrontEnd`.

The proofs about the other components followed: the wiring of the stages and the
flow through the pipes, both refinements, the output of redirected commands, the
tokens of a line and its tree, the words a syntax error loses, all of `Command`
and all of `EnvStore`.

Next, modules: the text of a heredoc, its lines compared with the delimiter and
expanded or not; and the read-ahead of `getline()`, with a child that reads the
same stdin.
