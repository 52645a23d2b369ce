--------------------------- MODULE PipelineProofs ---------------------------
(* What holds of Pipeline for every number of stages, every descriptor       *)
(* limit, every pipe capacity and every set of command lines.                *)
EXTENDS Pipeline, Induction

LEMMA Basics ==
  /\ Shell \in Procs /\ Shell \notin Stages /\ Stages \subseteq Procs
  /\ 0 \in Fd /\ 1 \in Fd /\ -1 \notin Fd
  /\ \A k \in Procs : k \in Int
  /\ \A k \in Stages : Shell # k + 1
  BY SizesAssumption DEF Shell, Procs, Stages, Fd

-----------------------------------------------------------------------------
(* Descriptor tables.                                                        *)

LEMMA TablesInType ==
  /\ BaseTable \in [Fd -> Objects]
  /\ EmptyTable \in [Fd -> Objects]
  /\ \A k \in Stages : R(k) \in Objects /\ W(k) \in Objects
  /\ File \in Objects /\ Closed \in Objects
  BY DEF BaseTable, EmptyTable, Objects, R, W, File, Closed, Inherited

LEMMA ObjectsDiffer ==
  /\ \A k, j : R(k) # W(j) /\ (R(k) = R(j) => k = j) /\ (W(k) = W(j) => k = j)
  /\ \A k : R(k) # Closed /\ R(k) # Inherited /\ R(k) # File
  /\ \A k : W(k) # Closed /\ W(k) # Inherited /\ W(k) # File
  /\ Closed # Inherited /\ Closed # File /\ Inherited # File
  BY DEF R, W, File, Closed, Inherited

LEMMA CloseFdType ==
  ASSUME NEW t \in [Fd -> Objects], NEW f
  PROVE  /\ CloseFd(t, f) \in [Fd -> Objects]
         /\ \A g \in Fd : CloseFd(t, f)[g] = IF g = f THEN Closed ELSE t[g]
  BY TablesInType DEF CloseFd

LEMMA Dup2Type ==
  ASSUME NEW t \in [Fd -> Objects], NEW s \in Fd, NEW d \in Fd
  PROVE  /\ Dup2(t, s, d) \in [Fd -> Objects]
         /\ \A g \in Fd : Dup2(t, s, d)[g] = IF g = d THEN t[s] ELSE t[g]
  BY DEF Dup2

(* The descriptor open() returned is never left open, not even when it is    *)
(* the one to be redirected.                                                 *)
LEMMA RedirectedTableIs ==
  ASSUME NEW t \in [Fd -> Objects], NEW f \in Fd, NEW kind,
         NEW d \in {0, 1}, d = IF kind = "in" THEN 0 ELSE 1
  PROVE  /\ RedirectedTable(t, f, kind) \in [Fd -> Objects]
         /\ \A g \in Fd : RedirectedTable(t, f, kind)[g] =
              IF g = f THEN Closed ELSE IF g = d THEN File ELSE t[g]
<1> DEFINE a == [t EXCEPT ![f] = File]
           b == Dup2(a, f, d)
<1>1. /\ a \in [Fd -> Objects]
      /\ \A g \in Fd : a[g] = IF g = f THEN File ELSE t[g]
  BY TablesInType
<1> HIDE DEF a
<1>2. /\ b \in [Fd -> Objects]
      /\ \A g \in Fd : b[g] = IF g = d THEN a[f] ELSE a[g]
  BY <1>1, Dup2Type, Basics
<1> HIDE DEF b
<1>3. RedirectedTable(t, f, kind) = CloseFd(b, f)
  BY DEF RedirectedTable, a, b
<1>4. QED
  BY <1>1, <1>2, <1>3, CloseFdType

(* Plumbing creates no descriptor: what a child holds after it, it held      *)
(* before.                                                                   *)
LEMMA WiredTableType ==
  ASSUME NEW t \in [Fd -> Objects], NEW in \in Fd, NEW out \in Fd
  PROVE  /\ WiredTable(t, in, out) \in [Fd -> Objects]
         /\ \A g \in Fd : \/ WiredTable(t, in, out)[g] = Closed
                          \/ \E h \in Fd : WiredTable(t, in, out)[g] = t[h]
<1> DEFINE a == IF in # 0 THEN Dup2(t, in, 0) ELSE t
           b == IF out # 1 THEN Dup2(a, out, 1) ELSE a
           c == IF in # 0 THEN CloseFd(b, in) ELSE b
<1>0. 0 \in Fd /\ 1 \in Fd
  BY Basics
<1>1. a \in [Fd -> Objects] /\ \A g \in Fd : \E h \in Fd : a[g] = t[h]
  BY <1>0, Dup2Type
<1>2. b \in [Fd -> Objects] /\ \A g \in Fd : \E h \in Fd : b[g] = t[h]
  <2> HIDE DEF a
  <2>1. CASE out = 1
    BY <2>1, <1>1
  <2>2. CASE out # 1
    <3>1. b = Dup2(a, out, 1)
      BY <2>2
    <3>2. /\ b \in [Fd -> Objects]
          /\ \A g \in Fd : b[g] = a[out] \/ b[g] = a[g]
      <4> HIDE DEF b
      <4> QED BY <3>1, <1>0, <1>1 DEF Dup2
    <3> HIDE DEF b
    <3> QED BY <3>2, <1>1
  <2> QED BY <2>1, <2>2
<1>3. /\ c \in [Fd -> Objects]
      /\ \A g \in Fd : c[g] = Closed \/ \E h \in Fd : c[g] = t[h]
  <2> HIDE DEF b
  <2> QED BY <1>2, TablesInType DEF CloseFd
<1>4. WiredTable(t, in, out) = IF out # 1 THEN CloseFd(c, out) ELSE c
  BY DEF WiredTable
<1> HIDE DEF c
<1> QED BY <1>3, <1>4, CloseFdType

-----------------------------------------------------------------------------
(* The inductive invariant.                                                  *)

Loop == {"pipe", "fork", "closeIn", "closeOut", "advance"}

(* Where the indices may be at each point of the loop.                       *)
Indices ==
  /\ pc \in Loop => index \in Stages
  /\ pc = "wait" => reap < index
  /\ pc \in Loop \cup {"after"} => reap = 1

(* input_fd and pipefd are real descriptors wherever the loop uses them, and *)
(* never ones the shell had before.                                          *)
Descriptors ==
  /\ inFd \in (Fd \ base) \cup {0, -1}
  /\ pipeR \in (Fd \ base) \cup {-1}
  /\ pipeW \in (Fd \ base) \cup {-1}
  /\ pc \in {"pipe", "fork", "closeIn"} => inFd # -1
  /\ (pc \in {"fork", "closeIn", "closeOut", "advance"} /\ index < N)
       => pipeR # -1 /\ pipeW # -1
  /\ \A i \in Stages : st[i] = "forked" => args[i] \in Fd \X Fd

(* The shell has its own descriptors and pipe ends, nothing else.            *)
ShellOwn ==
  \A f \in Fd : IF f \in base THEN fds[Shell][f] = Inherited
                ELSE fds[Shell][f] \notin {Inherited, File}

WriteEnds ==
  \A k \in Stages, p \in Procs, f \in Fd : fds[p][f] = W(k) =>
    \/ p = k
    \/ /\ p = Shell /\ k = index /\ f = pipeW
       /\ pc \in {"fork", "closeIn", "closeOut"}

ReadEnds ==
  \A k \in Stages, p \in Procs, f \in Fd : fds[p][f] = R(k) =>
    \/ p \in {k, k + 1}
    \/ /\ p = Shell /\ k = index /\ f = pipeR
       /\ pc \in {"fork", "closeIn", "closeOut", "advance"}
    \/ /\ p = Shell /\ k = index - 1 /\ f = inFd
       /\ pc \in {"pipe", "fork", "closeIn", "after"}

ShellClean == pc \in {"wait", "return", "done"} => fds[Shell] = BaseTable

IInv == /\ base \in Bases /\ TypeOK /\ Indices /\ Descriptors /\ ShellOwn
        /\ WriteEnds /\ ReadEnds /\ ShellClean

LEMMA BaseKnown ==
  /\ \A b \in Bases : 0 \in b /\ b \subseteq Fd /\ -1 \notin b
  /\ IInv => 0 \in base /\ base \subseteq Fd /\ -1 \notin base
<1>1. \A b \in Bases : 0 \in b /\ b \subseteq Fd /\ -1 \notin b
  BY BaseAssumption, Basics DEF Fd
<1>2. QED
  BY <1>1 DEF IInv

(* The shell has its descriptors from the start and for good.                *)
LEMMA BaseKept ==
  ASSUME ShellStep
  PROVE  base' = base
BY DEF ShellStep, LastStage, MakePipe, PipeFails, Fork, ForkFails, CloseInput,
   CloseOutput, GiveUp, Advance, AfterLoop, WaitChild, Return

LEMMA InitIInv == Init => IInv
<1> SUFFICES ASSUME Init PROVE IInv
  OBVIOUS
<1>0. base \in Bases
  BY DEF Init
<1>1. TypeOK
  <2>1. base \subseteq Fd /\ line \in LineType
    BY <1>0, LinesAssumption, BaseKnown DEF Init
  <2>2. fds \in [Procs -> [Fd -> Objects]]
    BY TablesInType DEF Init
  <2>3. redirs \in [Stages -> Seq(Redirections)]
    BY DEF Init
  <2>4. result \in [Stages -> Results \cup {NoResult}]
    BY DEF Init
  <2>5. /\ st \in [Stages -> StageStates] /\ reading \in [Stages -> BOOLEAN]
        /\ pc = "pipe"
    BY DEF Init, StageStates
  <2>6. args \in [Stages -> (Fd \cup {-1}) \X (Fd \cup {-1})]
    BY Basics DEF Init
  <2>7. /\ todo \in [Stages -> 0..(Burst + 1)]
        /\ buf \in [Stages -> 0..Cap]
    BY SizesAssumption DEF Init
  <2>8. /\ index \in 1..(N + 1) /\ reap \in 1..(N + 1) /\ status \in 0..255
    BY SizesAssumption DEF Init
  <2>10. broke \in BOOLEAN
    BY DEF Init
  <2>9. /\ inFd \in Fd \cup {-1} /\ pipeR \in Fd \cup {-1}
        /\ pipeW \in Fd \cup {-1}
    BY Basics DEF Init
  <2> QED BY <2>1, <2>2, <2>3, <2>4, <2>5, <2>6, <2>7, <2>8, <2>9, <2>10 DEF TypeOK
<1>2. Indices /\ Descriptors
  BY SizesAssumption, Basics
     DEF Init, Indices, Descriptors, Loop, Stages
<1>3. ShellOwn
  BY <1>0, Basics, BaseKnown
     DEF Init, ShellOwn, BaseTable, Inherited, Closed, File
<1>4. WriteEnds /\ ReadEnds
  <2>1. \A p \in Procs, f \in Fd : fds[p][f] \in {Closed, Inherited}
    BY DEF Init, BaseTable, EmptyTable
  <2> QED BY <2>1, ObjectsDiffer DEF WriteEnds, ReadEnds
<1>5. ShellClean
  BY DEF Init, ShellClean
<1> QED BY <1>0, <1>1, <1>2, <1>3, <1>4, <1>5 DEF IInv

-----------------------------------------------------------------------------
(* The steps of the children.  To the shell and to the other children they   *)
(* are all alike: they change no table but their own, and bring no pipe end  *)
(* into it.                                                                  *)
OwnTableOnly(i) ==
  /\ fds' \in [Procs -> [Fd -> Objects]]
  /\ \A p \in Procs \ {i} : fds'[p] = fds[p]
  /\ \A f \in Fd : \/ fds'[i][f] \in {Closed, File}
                   \/ \E g \in Fd : fds'[i][f] = fds[i][g]

LEMMA StageFrame ==
  ASSUME IInv, NEW i \in Stages, StageStep(i)
  PROVE  OwnTableOnly(i) /\ UNCHANGED shellVars
<1> USE DEF IInv
<1>1. fds \in [Procs -> [Fd -> Objects]] /\ i \in Procs
  BY Basics DEF TypeOK
<1>2. fds' = fds => OwnTableOnly(i)
  BY <1>1 DEF OwnTableOnly
<1>3. ASSUME NEW r, Ends(i, r) PROVE OwnTableOnly(i)
  BY <1>1, <1>3, TablesInType DEF Ends, OwnTableOnly, EmptyTable
<1>4. CASE Plumb(i)
  <2>1. args[i][1] \in Fd /\ args[i][2] \in Fd
    BY <1>4 DEF Plumb, Descriptors
  <2> DEFINE t == WiredTable(fds[i], args[i][1], args[i][2])
  <2>2. /\ t \in [Fd -> Objects]
        /\ \A g \in Fd : t[g] = Closed \/ \E h \in Fd : t[g] = fds[i][h]
    BY <1>1, <2>1, WiredTableType
  <2>3. fds' = [fds EXCEPT ![i] = t] /\ UNCHANGED shellVars
    BY <1>4 DEF Plumb
  <2> HIDE DEF t
  <2> QED BY <1>1, <2>2, <2>3 DEF OwnTableOnly
<1>5. CASE Redirect(i)
  <2> DEFINE kind == Head(redirs[i])
             d == IF kind = "in" THEN 0 ELSE 1
  <2>1. PICK f \in Fd :
          fds' = [fds EXCEPT ![i] = RedirectedTable(fds[i], f, kind)]
    BY <1>5 DEF Redirect, Free
  <2> DEFINE t == RedirectedTable(fds[i], f, kind)
  <2>2. d \in {0, 1} /\ fds[i] \in [Fd -> Objects]
    BY <1>1
  <2>3. /\ t \in [Fd -> Objects]
        /\ \A g \in Fd :
             t[g] = IF g = f THEN Closed ELSE IF g = d THEN File ELSE fds[i][g]
    <3> HIDE DEF kind
    <3> QED BY <2>2, RedirectedTableIs
  <2>4. UNCHANGED shellVars
    BY <1>5 DEF Redirect
  <2> HIDE DEF t, d
  <2>5. fds' = [fds EXCEPT ![i] = t]
    BY <2>1 DEF t
  <2> QED BY <1>1, <2>3, <2>4, <2>5 DEF OwnTableOnly
<1>6. CASE RedirectFails(i)
  BY <1>6, <1>3 DEF RedirectFails
<1>7. CASE Exec(i)
  <2>1. CASE line[i].prog = "tidy"
    <3>1. fds' = [fds EXCEPT ![i] = StandardOnly(fds[i])]
      BY <1>7, <2>1 DEF Exec
    <3>2. /\ StandardOnly(fds[i]) \in [Fd -> Objects]
          /\ \A f \in Fd : StandardOnly(fds[i])[f] \in {Closed, fds[i][f]}
      BY <1>1, TablesInType DEF StandardOnly
    <3>3. UNCHANGED shellVars
      BY <1>7 DEF Exec
    <3> QED BY <1>1, <3>1, <3>2, <3>3 DEF OwnTableOnly
  <2>2. CASE line[i].prog # "tidy"
    BY <1>7, <2>2, <1>2 DEF Exec
  <2> QED BY <2>1, <2>2
<1>8. CASE Write(i)
  BY <1>8, <1>2 DEF Write
<1>9. CASE WriteFails(i) \/ BrokenPipe(i)
  BY <1>9, <1>3 DEF WriteFails, BrokenPipe
<1>10. CASE Read(i)
  BY <1>10, <1>2 DEF Read
<1>11. CASE EndOfFile(i)
  BY <1>11, <1>2 DEF EndOfFile
<1>12. CASE Exit(i)
  BY <1>12, <1>3 DEF Exit
<1> QED BY <1>4, <1>5, <1>6, <1>7, <1>8, <1>9, <1>10, <1>11, <1>12 DEF StageStep

(* Such a step keeps every part of the invariant that is about the shell or  *)
(* about who holds what.                                                     *)
LEMMA OwnTableKeeps ==
  ASSUME IInv, NEW i \in Stages, OwnTableOnly(i), UNCHANGED shellVars
  PROVE  ShellOwn' /\ WriteEnds' /\ ReadEnds' /\ ShellClean'
<1>1. UNCHANGED <<base, pc, index, inFd, pipeR, pipeW>>
  BY DEF shellVars
<1>2. fds'[Shell] = fds[Shell]
  BY Basics DEF OwnTableOnly
<1>3. ShellOwn' /\ ShellClean'
  BY <1>1, <1>2 DEF IInv, ShellOwn, ShellClean, BaseTable
<1>4. ASSUME NEW k \in Stages, NEW o \in {R(k), W(k)},
             NEW p \in Procs, NEW f \in Fd, fds'[p][f] = o
      PROVE  IF p = Shell THEN fds[p][f] = o ELSE \E g \in Fd : fds[p][g] = o
  BY <1>4, Basics, ObjectsDiffer DEF OwnTableOnly
<1>5. WriteEnds'
  BY <1>1, <1>4 DEF IInv, WriteEnds
<1>6. ReadEnds'
  BY <1>1, <1>4 DEF IInv, ReadEnds
<1> QED BY <1>3, <1>5, <1>6

LEMMA StageStepIInv ==
  ASSUME IInv, NEW i \in Stages, StageStep(i)
  PROVE  IInv'
<1>1. OwnTableOnly(i) /\ UNCHANGED shellVars
  BY StageFrame
<1>2. ShellOwn' /\ WriteEnds' /\ ReadEnds' /\ ShellClean'
  BY <1>1, OwnTableKeeps
<1>3. Indices'
  BY <1>1 DEF IInv, Indices, shellVars
<1>4. UNCHANGED args
  BY DEF StageStep, Plumb, Redirect, RedirectFails, Exec, Write, WriteFails,
         BrokenPipe, Read, EndOfFile, Exit, stageVars
<1>5. \A j \in Stages : st'[j] = "forked" => st[j] = "forked"
  BY DEF StageStep, Plumb, Redirect, RedirectFails, Exec, Write, WriteFails,
         BrokenPipe, Read, EndOfFile, Exit, Ends, stageVars, IInv, TypeOK
<1>6. Descriptors'
  BY <1>1, <1>4, <1>5 DEF IInv, Descriptors, shellVars
<1>7. TypeOK'
  <2> USE DEF IInv, TypeOK
  <2>1. /\ base' \subseteq Fd /\ line' \in LineType
        /\ status' \in 0..255 /\ broke' \in BOOLEAN
        /\ index' \in 1..(N + 1) /\ reap' \in 1..(N + 1)
        /\ inFd' \in Fd \cup {-1} /\ pipeR' \in Fd \cup {-1}
        /\ pipeW' \in Fd \cup {-1}
        /\ pc' = pc
    BY <1>1 DEF shellVars
  <2>2. fds' \in [Procs -> [Fd -> Objects]]
    BY <1>1 DEF OwnTableOnly
  <2>3. args' \in [Stages -> (Fd \cup {-1}) \X (Fd \cup {-1})]
    BY <1>4
  <2>4. st' \in [Stages -> StageStates]
    BY DEF StageStep, Plumb, Redirect, RedirectFails, Exec, Write, WriteFails,
           BrokenPipe, Read, EndOfFile, Exit, Ends, StageStates
  <2>5. redirs' \in [Stages -> Seq(Redirections)]
    <3>1. CASE Redirect(i)
      <4>1. redirs[i] \in Seq(Redirections) /\ redirs[i] # <<>>
        BY <3>1 DEF Redirect
      <4>2. Tail(redirs[i]) \in Seq(Redirections)
        BY <4>1
      <4>3. redirs' = [redirs EXCEPT ![i] = Tail(redirs[i])]
        BY <3>1 DEF Redirect
      <4> QED BY <4>2, <4>3
    <3>2. CASE ~Redirect(i)
      BY <3>2 DEF StageStep, Plumb, RedirectFails, Exec, Write, WriteFails,
                  BrokenPipe, Read, EndOfFile, Exit, stageVars
    <3> QED BY <3>1, <3>2
  <2>6. reading' \in [Stages -> BOOLEAN]
    BY DEF StageStep, Plumb, Redirect, RedirectFails, Exec, Write, WriteFails,
           BrokenPipe, Read, EndOfFile, Exit, stageVars
  <2>7. result' \in [Stages -> Results \cup {NoResult}]
    <3>1. ASSUME NEW r \in Results, Ends(i, r)
          PROVE  result' \in [Stages -> Results \cup {NoResult}]
      BY <3>1 DEF Ends
    <3>2. /\ \A s \in ErrorStatus : Exited(s) \in Results
          /\ \A s \in {0, 1} : Exited(s) \in Results
          /\ Signaled(SIGPIPE) \in Results
      BY DEF Results, Exited, Signaled, ErrorStatus
    <3> QED
      BY <3>1, <3>2
         DEF StageStep, Plumb, Redirect, RedirectFails, Exec, Write,
             WriteFails, BrokenPipe, Read, EndOfFile, Exit, stageVars
  <2>8. todo' \in [Stages -> 0..(Burst + 1)]
    <3>1. CASE Write(i)
      <4>1. todo[i] \in 0..(Burst + 1) /\ todo[i] > 0
        BY <3>1 DEF Write
      <4>2. WritesNext(i) \in 0..(Burst + 1)
        BY <4>1, SizesAssumption DEF WritesNext
      <4> QED BY <4>2, <3>1 DEF Write
    <3>2. CASE Read(i)
      BY <3>2, SizesAssumption DEF Read
    <3>3. CASE ~Write(i) /\ ~Read(i)
      BY <3>3 DEF StageStep, Plumb, Redirect, RedirectFails, Exec, WriteFails,
                  BrokenPipe, EndOfFile, Exit, stageVars
    <3> QED BY <3>1, <3>2, <3>3
  <2>9. buf' \in [Stages -> 0..Cap]
    <3>1. ASSUME NEW o \in Objects, IsRead(o) \/ IsWrite(o)
          PROVE  PipeOf(o) \in Stages
      BY <3>1 DEF Objects, IsRead, IsWrite, PipeOf
    <3>2. fds[i][0] \in Objects /\ fds[i][1] \in Objects
      BY Basics
    <3>3. CASE Write(i)
      <4>1. CASE UNCHANGED buf
        BY <4>1
      <4>2. CASE ~UNCHANGED buf
        <5>1. PICK k \in Stages : /\ buf[k] < Cap
                                  /\ buf' = [buf EXCEPT ![k] = buf[k] + 1]
          BY <3>1, <3>2, <3>3, <4>2 DEF Write
        <5>2. buf[k] + 1 \in 0..Cap
          BY <5>1, SizesAssumption
        <5> QED BY <5>1, <5>2
      <4> QED BY <4>1, <4>2
    <3>4. CASE Read(i)
      <4>1. \E k \in Stages : buf[k] > 0
                              /\ buf' = [buf EXCEPT ![k] = buf[k] - 1]
        BY <3>1, <3>2, <3>4 DEF Read
      <4> QED BY <4>1, SizesAssumption
    <3>5. CASE ~Write(i) /\ ~Read(i)
      BY <3>5 DEF StageStep, Plumb, Redirect, RedirectFails, Exec, WriteFails,
                  BrokenPipe, EndOfFile, Exit, stageVars
    <3> QED BY <3>3, <3>4, <3>5
  <2> QED BY <2>1, <2>2, <2>3, <2>4, <2>5, <2>6, <2>7, <2>8, <2>9
<1> QED BY <1>1, <1>2, <1>3, <1>6, <1>7 DEF IInv, shellVars
-----------------------------------------------------------------------------
(* The steps of the shell.                                                   *)

(* Closing one of its descriptors, or asking for -1 to be closed.            *)
Closes(d) == fds' = [fds EXCEPT ![Shell] = CloseFd(fds[Shell], d)]

LEMMA ShellCloses ==
  ASSUME IInv, NEW d, Closes(d)
  PROVE  /\ fds' \in [Procs -> [Fd -> Objects]]
         /\ \A p \in Procs, f \in Fd :
              fds'[p][f] = IF p = Shell /\ f = d THEN Closed ELSE fds[p][f]
<1>1. fds \in [Procs -> [Fd -> Objects]] /\ Shell \in Procs
  BY Basics DEF IInv, TypeOK
<1> DEFINE t == CloseFd(fds[Shell], d)
<1>2. /\ t \in [Fd -> Objects]
      /\ \A g \in Fd : t[g] = IF g = d THEN Closed ELSE fds[Shell][g]
  BY <1>1, CloseFdType
<1> HIDE DEF t
<1>3. fds' = [fds EXCEPT ![Shell] = t]
  BY DEF t, Closes
<1>4. fds' \in [Procs -> [Fd -> Objects]]
  BY <1>1, <1>2, <1>3
<1>5. fds'[Shell] = t /\ \A p \in Procs \ {Shell} : fds'[p] = fds[p]
  BY <1>1, <1>3
<1> QED BY <1>2, <1>4, <1>5

LEMMA ShellClosesOwn ==
  ASSUME IInv, UNCHANGED base, NEW d, d \notin base, Closes(d)
  PROVE  ShellOwn'
<1>1. \A f \in Fd :
        fds'[Shell][f] = IF f = d THEN Closed ELSE fds[Shell][f]
  BY ShellCloses, Basics
<1>2. ShellOwn
  BY DEF IInv
<1>3. Closed \notin {Inherited, File}
  BY ObjectsDiffer
<1> QED BY <1>1, <1>2, <1>3 DEF ShellOwn

LEMMA ShellStepType ==
  ASSUME IInv, ShellStep
  PROVE  TypeOK'
<1> USE DEF IInv, TypeOK
<1>1. CASE LastStage
  BY <1>1 DEF LastStage, stageVars
<1>2. CASE MakePipe
  <2>1. PICK a \in Fd, b \in Fd :
          /\ pipeR' = a /\ pipeW' = b
          /\ fds' = [fds EXCEPT ![Shell][a] = R(index), ![Shell][b] = W(index)]
    BY <1>2 DEF MakePipe, Free
  <2>2. index \in Stages
    BY <1>2 DEF MakePipe, Indices, Loop
  <2>3. fds' \in [Procs -> [Fd -> Objects]]
    BY <2>1, <2>2, TablesInType, Basics
  <2> QED BY <1>2, <2>1, <2>3 DEF MakePipe, stageVars
<1>3. CASE PipeFails
  BY <1>3 DEF PipeFails, stageVars
<1>4. CASE Fork
  <2>1. index \in Stages
    BY <1>4 DEF Fork, Indices, Loop
  <2>2. fds' \in [Procs -> [Fd -> Objects]]
    BY <1>4, <2>1, Basics DEF Fork
  <2>3. st' \in [Stages -> StageStates]
    BY <1>4, <2>1 DEF Fork, StageStates
  <2>4. args' \in [Stages -> (Fd \cup {-1}) \X (Fd \cup {-1})]
    BY <1>4, <2>1, Basics DEF Fork
  <2>5. redirs' \in [Stages -> Seq(Redirections)]
    BY <1>4, <2>1 DEF Fork, LineType
  <2>6. reading' \in [Stages -> BOOLEAN]
    BY <1>4, <2>1 DEF Fork
  <2>7. todo' \in [Stages -> 0..(Burst + 1)]
    BY <1>4, <2>1, SizesAssumption DEF Fork
  <2> QED BY <1>4, <2>2, <2>3, <2>4, <2>5, <2>6, <2>7 DEF Fork
<1>5. CASE ForkFails
  BY <1>5 DEF ForkFails, stageVars
<1>6. CASE CloseInput
  <2>1. fds' \in [Procs -> [Fd -> Objects]]
    BY <1>6, ShellCloses DEF CloseInput, Closes
  <2> QED BY <1>6, <2>1 DEF CloseInput, stageVars
<1>7. CASE CloseOutput
  <2>1. fds' \in [Procs -> [Fd -> Objects]]
    BY <1>7, ShellCloses DEF CloseOutput, Closes
  <2> QED BY <1>7, <2>1 DEF CloseOutput, stageVars
<1>8. CASE GiveUp
  <2>1. fds' \in [Procs -> [Fd -> Objects]]
    BY <1>8, ShellCloses DEF GiveUp, Closes
  <2> QED BY <1>8, <2>1 DEF GiveUp, stageVars
<1>9. CASE Advance
  <2>1. index' \in 1..(N + 1)
    BY <1>9, SizesAssumption DEF Advance, Indices, Loop, Stages
  <2> QED BY <1>9, <2>1 DEF Advance, stageVars
<1>10. CASE AfterLoop
  <2>1. fds' \in [Procs -> [Fd -> Objects]]
    BY <1>10, ShellCloses DEF AfterLoop, Closes
  <2> QED BY <1>10, <2>1 DEF AfterLoop, stageVars
<1>11. CASE WaitChild
  <2>1. /\ reap \in Stages /\ reap' \in 1..(N + 1)
    BY <1>11, SizesAssumption DEF WaitChild, Indices, Stages
  <2>2. st' \in [Stages -> StageStates]
    BY <1>11, <2>1 DEF WaitChild, StageStates
  <2>3. status' \in 0..255
    <3>1. result[reap] \in Results \cup {NoResult}
      BY <2>1
    <3>2. StatusFromWaitpid(result[reap]) \in 0..255
      <4>1. CASE result[reap] \in {"exited"} \X (0..255)
        BY <4>1 DEF StatusFromWaitpid
      <4>2. CASE result[reap] = <<"signaled", 13>>
        BY <4>2 DEF StatusFromWaitpid
      <4>3. CASE result[reap] = <<"none", 0>>
        BY <4>3 DEF StatusFromWaitpid
      <4>4. {"signaled"} \X {13} = {<<"signaled", 13>>}
        OBVIOUS
      <4> QED BY <3>1, <4>1, <4>2, <4>3, <4>4 DEF Results, NoResult, SIGPIPE
    <3> QED BY <1>11, <3>2 DEF WaitChild
  <2> QED BY <1>11, <2>1, <2>2, <2>3 DEF WaitChild, stageVars
<1>12. CASE Return
  BY <1>12 DEF Return, stageVars
<1> QED BY <1>1, <1>2, <1>3, <1>4, <1>5, <1>6, <1>7, <1>8, <1>9, <1>10, <1>11,
           <1>12 DEF ShellStep

LEMMA ShellStepIndices ==
  ASSUME IInv, ShellStep
  PROVE  Indices'
<1> USE DEF IInv, Indices, Loop
<1>0. index \in 1..(N + 1) /\ reap \in 1..(N + 1) /\ N \in Nat
  BY SizesAssumption DEF TypeOK
<1>1. CASE LastStage \/ MakePipe \/ PipeFails \/ Fork \/ ForkFails
           \/ CloseInput \/ CloseOutput \/ GiveUp \/ Return
  BY <1>1 DEF LastStage, MakePipe, PipeFails, Fork, ForkFails, CloseInput,
              CloseOutput, GiveUp, Return
<1>2. CASE Advance
  BY <1>2, <1>0 DEF Advance, Stages
<1>3. CASE AfterLoop
  BY <1>3, <1>0 DEF AfterLoop
<1>4. CASE WaitChild
  BY <1>4, <1>0 DEF WaitChild
<1> QED BY <1>1, <1>2, <1>3, <1>4 DEF ShellStep

LEMMA ShellStepDescriptors ==
  ASSUME IInv, ShellStep
  PROVE  Descriptors'
<1> USE BaseKept DEF IInv, Descriptors
<1>1. CASE LastStage
  BY <1>1, SizesAssumption DEF LastStage, stageVars
<1>2. CASE MakePipe
  <2>1. \A f \in Free(fds[Shell]) : f \in Fd \ base
    BY ObjectsDiffer DEF Free, ShellOwn
  <2>2. pipeR' \in Fd \ base /\ pipeW' \in Fd \ base
    BY <1>2, <2>1 DEF MakePipe
  <2> QED BY <1>2, <2>2, Basics, BaseKnown DEF MakePipe, stageVars
<1>3. CASE PipeFails
  BY <1>3 DEF PipeFails, stageVars
<1>4. CASE Fork
  <2>1. index \in Stages /\ inFd \in Fd
    BY <1>4, Basics DEF Fork, Indices, Loop
  <2>2. <<inFd, IF index < N THEN pipeW ELSE 1>> \in Fd \X Fd
    BY <1>4, <2>1, Basics DEF Fork
  <2>3. /\ args' = [args EXCEPT ![index] =
                      <<inFd, IF index < N THEN pipeW ELSE 1>>]
        /\ st' = [st EXCEPT ![index] = "forked"]
        /\ UNCHANGED <<inFd, pipeR, pipeW, index>>
        /\ pc = "fork" /\ pc' = "closeIn"
    BY <1>4 DEF Fork
  <2>4. \A i \in Stages : st'[i] = "forked" => args'[i] \in Fd \X Fd
    BY <2>1, <2>2, <2>3 DEF TypeOK
  <2> QED BY <2>3, <2>4
<1>5. CASE ForkFails \/ CloseInput \/ CloseOutput \/ GiveUp \/ AfterLoop
           \/ Return
  BY <1>5 DEF ForkFails, CloseInput, CloseOutput, GiveUp, AfterLoop, Return,
              stageVars
<1>6. CASE Advance
  BY <1>6 DEF Advance, stageVars
<1>7. CASE WaitChild
  <2>1. /\ st' = [st EXCEPT ![reap] = "reaped"] /\ UNCHANGED args
        /\ UNCHANGED <<inFd, pipeR, pipeW, index>>
        /\ pc = "wait" /\ pc' \in {"wait", "return"}
    BY <1>7 DEF WaitChild, stageVars
  <2>2. \A i \in Stages : st'[i] = "forked" => st[i] = "forked"
    BY <2>1 DEF TypeOK
  <2> QED BY <2>1, <2>2
<1> QED BY <1>1, <1>2, <1>3, <1>4, <1>5, <1>6, <1>7 DEF ShellStep

(* Who holds what, one action at a time.                                     *)
LEMMA ShellStepEnds ==
  ASSUME IInv, ShellStep
  PROVE  ShellOwn' /\ WriteEnds' /\ ReadEnds'
<1>0. /\ fds \in [Procs -> [Fd -> Objects]] /\ base' = base
      /\ ShellOwn /\ WriteEnds /\ ReadEnds
  BY BaseKept DEF IInv, TypeOK
<1>1. CASE LastStage
  BY <1>0, <1>1 DEF LastStage, ShellOwn, WriteEnds, ReadEnds
<1>2. CASE MakePipe
  <2>1. PICK a \in Fd, b \in Fd :
          /\ pipeR' = a /\ pipeW' = b /\ a \notin base /\ b \notin base
          /\ fds' = [fds EXCEPT ![Shell][a] = R(index), ![Shell][b] = W(index)]
    BY <1>0, <1>2, ObjectsDiffer DEF MakePipe, Free, ShellOwn
  <2>2. \A p \in Procs, f \in Fd :
          fds'[p][f] = IF p # Shell THEN fds[p][f]
                       ELSE IF f = b THEN W(index)
                       ELSE IF f = a THEN R(index) ELSE fds[p][f]
    BY <1>0, <2>1, Basics
  <2>3. /\ UNCHANGED <<index, inFd>> /\ pc = "pipe" /\ pc' = "fork"
    BY <1>2 DEF MakePipe
  <2>4. ShellOwn'
    BY <1>0, <2>1, <2>2, Basics, ObjectsDiffer DEF ShellOwn
  <2>5. WriteEnds'
    BY <1>0, <2>1, <2>2, <2>3, ObjectsDiffer DEF WriteEnds
  <2>6. ReadEnds'
    BY <1>0, <2>1, <2>2, <2>3, ObjectsDiffer DEF ReadEnds
  <2> QED BY <2>4, <2>5, <2>6
<1>3. CASE PipeFails
  BY <1>0, <1>3 DEF PipeFails, ShellOwn, WriteEnds, ReadEnds
<1>4. CASE Fork
  <2>1. index \in Stages
    BY <1>4 DEF Fork, IInv, Indices, Loop
  <2>2. /\ fds' = [fds EXCEPT ![index] = fds[Shell]]
        /\ UNCHANGED <<index, inFd, pipeR, pipeW>>
        /\ pc = "fork" /\ pc' = "closeIn"
    BY <1>4 DEF Fork
  <2>3. \A p \in Procs : fds'[p] = IF p = index THEN fds[Shell] ELSE fds[p]
    BY <1>0, <2>1, <2>2, Basics
  <2>4. ShellOwn'
    BY <1>0, <2>1, <2>3, Basics DEF ShellOwn
  <2>5. WriteEnds'
    BY <1>0, <2>1, <2>2, <2>3, Basics DEF WriteEnds
  <2>6. ReadEnds'
    <3>1. ASSUME NEW k \in Stages, NEW f \in Fd, fds[Shell][f] = R(k)
          PROVE  k = index \/ (k = index - 1 /\ f = inFd)
      BY <1>0, <2>2, <3>1, Basics DEF ReadEnds
    <3>2. \A k \in Stages : k \in Int
      BY Basics
    <3>3. ASSUME NEW k \in Stages, NEW f \in Fd, fds'[index][f] = R(k)
          PROVE  index \in {k, k + 1}
      BY <2>1, <2>3, <3>1, <3>2, <3>3, Basics
    <3>4. index # Shell
      BY <2>1, Basics
    <3>5. ASSUME NEW p \in Procs \ {index}
          PROVE  fds'[p] = fds[p]
      BY <2>3
    <3> QED BY <1>0, <2>2, <3>3, <3>5 DEF ReadEnds
  <2> QED BY <2>4, <2>5, <2>6
<1>5. CASE ForkFails
  BY <1>0, <1>5 DEF ForkFails, ShellOwn, WriteEnds, ReadEnds
<1>6. CASE CloseInput
  <2>1. /\ UNCHANGED <<index, inFd, pipeR, pipeW>>
        /\ pc = "closeIn" /\ pc' = "closeOut"
    BY <1>6 DEF CloseInput
  <2>2. CASE inFd = 0
    <3>1. fds' = fds
      BY <1>6, <2>2 DEF CloseInput
    <3>2. fds[Shell][0] = Inherited
      BY <1>0, Basics, BaseKnown DEF ShellOwn
    <3> QED
      BY <1>0, <2>1, <2>2, <3>1, <3>2, ObjectsDiffer
         DEF ShellOwn, WriteEnds, ReadEnds
  <2>3. CASE inFd # 0
    <3>1. Closes(inFd)
      BY <1>6, <2>3 DEF CloseInput, Closes
    <3>2. inFd \notin base
      BY <2>3, BaseKnown DEF IInv, Descriptors
    <3>3. ShellOwn'
      BY <1>0, <3>1, <3>2, ShellClosesOwn
    <3>4. \A p \in Procs, f \in Fd : fds'[p][f] =
            IF p = Shell /\ f = inFd THEN Closed ELSE fds[p][f]
      BY <3>1, ShellCloses
    <3> QED BY <1>0, <2>1, <3>3, <3>4, ObjectsDiffer DEF WriteEnds, ReadEnds
  <2> QED BY <2>2, <2>3
<1>7. CASE CloseOutput
  <2>1. /\ UNCHANGED <<index, inFd, pipeR, pipeW>>
        /\ pc = "closeOut" /\ pc' = "advance"
    BY <1>7 DEF CloseOutput
  <2>2. Closes(pipeW)
    BY <1>7 DEF CloseOutput, Closes
  <2>3. pipeW \notin base
    BY BaseKnown DEF IInv, Descriptors
  <2>4. ShellOwn'
    BY <1>0, <2>2, <2>3, ShellClosesOwn
  <2>5. \A p \in Procs, f \in Fd : fds'[p][f] =
          IF p = Shell /\ f = pipeW THEN Closed ELSE fds[p][f]
    BY <2>2, ShellCloses
  <2> QED BY <1>0, <2>1, <2>4, <2>5, ObjectsDiffer DEF WriteEnds, ReadEnds
<1>8. CASE GiveUp
  <2>1. /\ UNCHANGED <<index, inFd, pipeR, pipeW>>
        /\ pc = "advance" /\ pc' = "after"
    BY <1>8 DEF GiveUp
  <2>2. Closes(pipeR)
    BY <1>8 DEF GiveUp, Closes
  <2>3. pipeR \notin base
    BY BaseKnown DEF IInv, Descriptors
  <2>4. ShellOwn'
    BY <1>0, <2>2, <2>3, ShellClosesOwn
  <2>5. \A p \in Procs, f \in Fd : fds'[p][f] =
          IF p = Shell /\ f = pipeR THEN Closed ELSE fds[p][f]
    BY <2>2, ShellCloses
  <2> QED BY <1>0, <2>1, <2>4, <2>5, ObjectsDiffer DEF WriteEnds, ReadEnds
<1>9. CASE Advance
  <2>1. /\ UNCHANGED <<fds, pipeR, pipeW>> /\ inFd' = pipeR
        /\ index' = index + 1
        /\ pc = "advance" /\ pc' \in {"pipe", "after"}
    BY <1>9 DEF Advance
  <2>2. index \in Int
    BY Basics DEF IInv, TypeOK
  <2>3. ShellOwn' /\ WriteEnds'
    BY <1>0, <2>1 DEF ShellOwn, WriteEnds
  <2>4. ReadEnds'
    BY <1>0, <2>1, <2>2 DEF ReadEnds
  <2> QED BY <2>3, <2>4
<1>10. CASE AfterLoop
  <2>1. /\ UNCHANGED <<index, inFd, pipeR, pipeW>>
        /\ pc = "after" /\ pc' \in {"wait", "return"}
    BY <1>10 DEF AfterLoop
  <2>2. CASE inFd = 0
    <3>1. fds' = fds
      BY <1>10, <2>2 DEF AfterLoop
    <3>2. fds[Shell][0] = Inherited
      BY <1>0, Basics, BaseKnown DEF ShellOwn
    <3> QED
      BY <1>0, <2>1, <2>2, <3>1, <3>2, ObjectsDiffer
         DEF ShellOwn, WriteEnds, ReadEnds
  <2>3. CASE inFd # 0
    <3>1. Closes(inFd)
      BY <1>10, <2>3 DEF AfterLoop, Closes
    <3>2. inFd \notin base
      BY <2>3, BaseKnown DEF IInv, Descriptors
    <3>3. ShellOwn'
      BY <1>0, <3>1, <3>2, ShellClosesOwn
    <3>4. \A p \in Procs, f \in Fd : fds'[p][f] =
            IF p = Shell /\ f = inFd THEN Closed ELSE fds[p][f]
      BY <3>1, ShellCloses
    <3> QED BY <1>0, <2>1, <3>3, <3>4, ObjectsDiffer DEF WriteEnds, ReadEnds
  <2> QED BY <2>2, <2>3
<1>11. CASE WaitChild
  BY <1>0, <1>11 DEF WaitChild, ShellOwn, WriteEnds, ReadEnds
<1>12. CASE Return
  BY <1>0, <1>12 DEF Return, ShellOwn, WriteEnds, ReadEnds
<1> QED BY <1>1, <1>2, <1>3, <1>4, <1>5, <1>6, <1>7, <1>8, <1>9, <1>10, <1>11,
           <1>12 DEF ShellStep

LEMMA ShellStepIInv ==
  ASSUME IInv, ShellStep
  PROVE  IInv'
<1>1. TypeOK' /\ Indices' /\ Descriptors' /\ ShellOwn' /\ WriteEnds' /\ ReadEnds'
  BY ShellStepType, ShellStepIndices, ShellStepDescriptors, ShellStepEnds
<1>0. base' = base
  BY BaseKept
<1>2. ShellClean'
  <2>1. CASE pc \in {"wait", "return", "done"}
    <3>1. WaitChild \/ Return
      BY <2>1 DEF ShellStep, LastStage, MakePipe, PipeFails, Fork, ForkFails,
                  CloseInput, CloseOutput, GiveUp, Advance, AfterLoop
    <3> QED BY <2>1, <3>1 DEF IInv, ShellClean, BaseTable, WaitChild, Return
  <2>2. CASE pc' \in {"wait", "return", "done"} /\ pc = "after"
    (* With no pipe end left in it, the table of the shell is what it was.   *)
    <3>1. \A f \in Fd : IF f \in base THEN fds'[Shell][f] = Inherited
                      ELSE fds'[Shell][f] \notin {Inherited, File}
      BY <1>1, <1>0 DEF ShellOwn
    <3>2. \A k \in Stages, f \in Fd : fds'[Shell][f] # W(k)
      BY <1>1, <2>2, Basics DEF WriteEnds
    <3>3. \A k \in Stages, f \in Fd : fds'[Shell][f] # R(k)
      BY <1>1, <2>2, Basics DEF ReadEnds
    <3>4. fds'[Shell] \in [Fd -> Objects]
      BY <1>1, Basics DEF TypeOK
    <3>5. \A o \in Objects : \/ o \in {Closed, Inherited, File}
                            \/ \E k \in Stages : o = R(k) \/ o = W(k)
      BY DEF Objects, Closed, Inherited, File, R, W
    <3>6. \A f \in Fd : fds'[Shell][f] = IF f \in base THEN Inherited ELSE Closed
      BY <3>1, <3>2, <3>3, <3>4, <3>5
    <3> QED BY <1>0, <3>4, <3>6 DEF ShellClean, BaseTable
  <2>3. CASE pc' \notin {"wait", "return", "done"}
    BY <2>3 DEF ShellClean
  <2>4. pc' \in {"wait", "return", "done"} => pc \in {"after", "wait", "return"}
    BY DEF ShellStep, LastStage, MakePipe, PipeFails, Fork, ForkFails,
           CloseInput, CloseOutput, GiveUp, Advance, AfterLoop, WaitChild, Return
  <2> QED BY <2>1, <2>2, <2>3, <2>4
<1> QED BY <1>0, <1>1, <1>2 DEF IInv

THEOREM Inductive == Spec => []IInv
<1>1. IInv /\ [Next]_vars => IInv'
  <2> SUFFICES ASSUME IInv, [Next]_vars PROVE IInv'
    OBVIOUS
  <2>1. CASE ShellStep
    BY <2>1, ShellStepIInv
  <2>2. ASSUME NEW i \in Stages, StageStep(i) PROVE IInv'
    BY <2>2, StageStepIInv
  <2>3. CASE UNCHANGED vars
    BY <2>3 DEF vars, IInv, TypeOK, Indices, Descriptors, ShellOwn, WriteEnds,
                ReadEnds, ShellClean, BaseTable
  <2> QED BY <2>1, <2>2, <2>3 DEF Next
<1> QED BY InitIInv, <1>1, PTL DEF Spec

-----------------------------------------------------------------------------
(* The results.                                                              *)

(* Types hold: no descriptor number out of range is used as one, no pipe     *)
(* holds more than it can.                                                   *)
THEOREM TypeCorrect == Spec => []TypeOK
<1>1. IInv => TypeOK
  BY DEF IInv
<1> QED BY <1>1, Inductive, PTL

(* End-of-file is never withheld by a forgotten write end, whatever the      *)
(* number of stages and wherever a pipe() or a fork() fails.                 *)
THEOREM WriteEndsArePrivate == Spec => []WriteEndPrivate
<1>1. IInv => WriteEndPrivate
  BY DEF IInv, WriteEnds, WriteEndPrivate, Holders
<1> QED BY <1>1, Inductive, PTL

(* No stage but the two at its ends, and the shell for a while, ever holds   *)
(* the read end of a pipe.                                                   *)
THEOREM ReadEndsAreConfined == Spec => []ReadEndConfined
<1>1. IInv => ReadEndConfined
  BY DEF IInv, ReadEnds, ReadEndConfined, Holders
<1> QED BY <1>1, Inductive, PTL

(* A pipeline, complete or cut short, costs the shell no descriptor.         *)
THEOREM ShellTableRestored == Spec => []ShellKeepsNoPipe
<1>1. IInv => ShellKeepsNoPipe
  BY BaseKnown DEF IInv, ShellClean, ShellOwn, ShellKeepsNoPipe
<1> QED BY <1>1, Inductive, PTL

-----------------------------------------------------------------------------
(* The abstract pipeline: what else holds of the steps.                      *)

Begun == {"none", "forked", "wired", "run"}
Left == {"after", "wait", "return", "done"}

(* A stage has a result exactly when it is over.                             *)
ResultsKnown == \A i \in Stages : st[i] \in Begun <=> result[i] = NoResult

(* Nothing beyond the current stage was forked.                              *)
InOrder == \A i \in Stages : st[i] # "none" => i <= Started

(* The wait goes through the children one by one.                            *)
Reaping == /\ \A i \in Stages : i < reap => st[i] = "reaped"
           /\ pc \in {"return", "done"} => reap >= index

(* The loop is left early exactly when something failed.                     *)
LoopLeft == /\ pc \in Loop => ~broke
            /\ pc \in Left => IF broke THEN index \in Stages ELSE index = N + 1

StatusKept == (pc = "return" /\ ~broke) => status = StatusFromWaitpid(result[N])

RInv == ResultsKnown /\ InOrder /\ Reaping /\ LoopLeft /\ StatusKept

LEMMA StatusTypes ==
  /\ \A r \in Results : StatusFromWaitpid(r) \in 0..255
  /\ NoResult \notin Results
<1>1. \A s \in 0..255 : StatusFromWaitpid(<<"exited", s>>) = s
  BY DEF StatusFromWaitpid
<1>2. StatusFromWaitpid(<<"signaled", 13>>) = 141
  BY DEF StatusFromWaitpid
<1>3. \A r \in Results : \/ \E s \in 0..255 : r = <<"exited", s>>
                         \/ r = <<"signaled", 13>>
  BY DEF Results, SIGPIPE
<1>4. NoResult \notin Results
  BY <1>3 DEF NoResult
<1>5. ASSUME NEW r \in Results PROVE StatusFromWaitpid(r) \in 0..255
  <2>1. CASE r = <<"signaled", 13>>
    BY <2>1, <1>2
  <2>2. CASE \E s \in 0..255 : r = <<"exited", s>>
    BY <2>2, <1>1
  <2> QED BY <2>1, <2>2, <1>3
<1> QED BY <1>4, <1>5

LEMMA InitRInv == Init => RInv
  BY SizesAssumption
     DEF Init, RInv, ResultsKnown, Begun, InOrder, Reaping, LoopLeft, Left,
         StatusKept, Loop, Stages

(* A step of a child is a step of its own state and result only.             *)
LEMMA StageChanges ==
  ASSUME IInv, NEW i \in Stages, StageStep(i)
  PROVE  /\ UNCHANGED shellVars
         /\ st[i] \in {"forked", "wired", "run"}
         /\ \/ /\ result' = result
               /\ \E s \in {"forked", "wired", "run"} : st' = [st EXCEPT ![i] = s]
            \/ \E r \in Results : /\ result' = [result EXCEPT ![i] = r]
                                  /\ st' = [st EXCEPT ![i] = "zombie"]
<1>1. UNCHANGED shellVars
  BY StageFrame
<1>2. st[i] \in {"forked", "wired", "run"}
  BY DEF StageStep, Plumb, Redirect, RedirectFails, Exec, Write, WriteFails,
         BrokenPipe, Read, EndOfFile, Exit
<1>3. st \in [Stages -> StageStates]
  BY DEF IInv, TypeOK
<1>4. st = [st EXCEPT ![i] = st[i]]
  BY <1>3
<1>5. /\ \A s \in ErrorStatus : Exited(s) \in Results
      /\ \A s \in {0, 1} : Exited(s) \in Results
      /\ Signaled(SIGPIPE) \in Results
  BY DEF Results, Exited, Signaled, ErrorStatus
<1>6. CASE Plumb(i) \/ Exec(i)
  BY <1>1, <1>2, <1>6 DEF Plumb, Exec, stageVars
<1>7. CASE Redirect(i) \/ Write(i) \/ Read(i) \/ EndOfFile(i)
  BY <1>1, <1>2, <1>4, <1>7 DEF Redirect, Write, Read, EndOfFile
<1>8. CASE RedirectFails(i) \/ WriteFails(i) \/ BrokenPipe(i) \/ Exit(i)
  BY <1>1, <1>2, <1>5, <1>8 DEF RedirectFails, WriteFails, BrokenPipe, Exit,
                                Ends
<1> QED BY <1>6, <1>7, <1>8 DEF StageStep

LEMMA StageStepRInv ==
  ASSUME IInv, RInv, NEW i \in Stages, StageStep(i)
  PROVE  RInv'
<1>0. /\ UNCHANGED <<pc, index, broke, reap, status>>
      /\ st[i] \in {"forked", "wired", "run"}
      /\ st' \in [Stages -> StageStates] /\ st \in [Stages -> StageStates]
      /\ result' \in [Stages -> Results \cup {NoResult}]
      /\ result \in [Stages -> Results \cup {NoResult}]
  BY StageChanges, StageStepIInv DEF shellVars, IInv, TypeOK
<1>1. \A j \in Stages : st'[j] # st[j] \/ result'[j] # result[j] => j = i
  BY <1>0, StageChanges
<1>2. \/ st'[i] \in {"forked", "wired", "run"} /\ result'[i] = result[i]
      \/ st'[i] = "zombie" /\ result'[i] \in Results
  <2>1. CASE /\ result' = result
             /\ \E s \in {"forked", "wired", "run"} : st' = [st EXCEPT ![i] = s]
    BY <1>0, <2>1
  <2>2. CASE \E r \in Results : /\ result' = [result EXCEPT ![i] = r]
                                /\ st' = [st EXCEPT ![i] = "zombie"]
    BY <1>0, <2>2
  <2> QED BY <2>1, <2>2, StageChanges
<1>3. ResultsKnown'
  BY <1>0, <1>1, <1>2, StatusTypes DEF RInv, ResultsKnown, Begun
<1>4. Started' = Started
  <2>1. index \in Stages => (st'[index] # "none" <=> st[index] # "none")
    BY <1>0, <1>1, <1>2
  <2>2. pc \in {"closeIn", "closeOut", "advance"} => index \in Stages
    BY DEF IInv, Indices, Loop
  <2> QED BY <1>0, <2>1, <2>2 DEF Started
<1>5. InOrder'
  BY <1>0, <1>1, <1>4 DEF RInv, InOrder
<1>6. Reaping'
  BY <1>0, <1>1 DEF RInv, Reaping
<1>7. LoopLeft'
  BY <1>0 DEF RInv, LoopLeft
<1>8. StatusKept'
  <2>1. ASSUME pc = "return", ~broke PROVE result'[N] = result[N]
    <3>1. N \in Stages /\ N < reap
      BY <2>1, SizesAssumption DEF RInv, LoopLeft, Left, Reaping, Stages, IInv, TypeOK
    <3>2. st[N] = "reaped"
      BY <3>1 DEF RInv, Reaping
    <3> QED BY <3>1, <3>2, <1>0, <1>1
  <2> QED BY <1>0, <2>1 DEF RInv, StatusKept
<1> QED BY <1>3, <1>5, <1>6, <1>7, <1>8 DEF RInv

LEMMA ShellStepRInv ==
  ASSUME IInv, RInv, ShellStep
  PROVE  RInv'
<1> USE DEF RInv, ResultsKnown, InOrder, Reaping, LoopLeft, StatusKept, Started,
            Loop, Left
<1>0. /\ index \in 1..(N + 1) /\ reap \in 1..(N + 1)
      /\ N \in Nat /\ N >= 2 /\ Stages = 1..N
      /\ st \in [Stages -> StageStates]
      /\ pc \in Loop => index \in Stages
      /\ pc = "wait" => reap < index
      /\ pc \in Loop \cup {"after"} => reap = 1
  BY SizesAssumption DEF IInv, TypeOK, Indices, Stages
<1>1. CASE LastStage \/ MakePipe
  BY <1>0, <1>1 DEF LastStage, MakePipe, stageVars
<1>2. CASE PipeFails
  BY <1>0, <1>2 DEF PipeFails, stageVars
<1>3. CASE Fork
  BY <1>0, <1>3 DEF Fork, Begun
<1>4. CASE ForkFails
  BY <1>0, <1>4 DEF ForkFails, stageVars
<1>5. CASE CloseInput \/ CloseOutput
  BY <1>0, <1>5 DEF CloseInput, CloseOutput, stageVars
<1>6. CASE GiveUp
  BY <1>0, <1>6 DEF GiveUp, stageVars
<1>7. CASE Advance
  BY <1>0, <1>7 DEF Advance, stageVars
<1>8. CASE AfterLoop
  BY <1>0, <1>8 DEF AfterLoop, stageVars
<1>9. CASE WaitChild
  BY <1>0, <1>9 DEF WaitChild, stageVars, Begun
<1>10. CASE Return
  BY <1>0, <1>10 DEF Return, stageVars
<1> QED BY <1>1, <1>2, <1>3, <1>4, <1>5, <1>6, <1>7, <1>8, <1>9, <1>10
        DEF ShellStep

THEOREM RefinementInvariant == Spec => [](IInv /\ RInv)
<1>1. Init => IInv /\ RInv
  BY InitIInv, InitRInv
<1>2. (IInv /\ RInv) /\ [Next]_vars => (IInv /\ RInv)'
  <2> SUFFICES ASSUME IInv, RInv, [Next]_vars PROVE (IInv /\ RInv)'
    OBVIOUS
  <2>1. CASE ShellStep
    BY <2>1, ShellStepIInv, ShellStepRInv
  <2>2. ASSUME NEW i \in Stages, StageStep(i) PROVE (IInv /\ RInv)'
    BY <2>2, StageStepIInv, StageStepRInv
  <2>3. CASE UNCHANGED vars
    BY <2>3 DEF vars, IInv, TypeOK, Indices, Descriptors, ShellOwn, WriteEnds,
                ReadEnds, ShellClean, BaseTable, RInv, ResultsKnown, InOrder, Reaping,
                LoopLeft, StatusKept, Started
  <2> QED BY <2>1, <2>2, <2>3 DEF Next
<1> QED BY <1>1, <1>2, PTL DEF Spec

-----------------------------------------------------------------------------
(* The steps, seen through the refinement mapping.                           *)

LEMMA InitAbs == Init => Abs!Init
  BY SizesAssumption
     DEF Init, Abs!Init, Abs!Unknown, Started, StatusOfStage, Stages

LEMMA StageStepAbs ==
  ASSUME IInv, RInv, IInv', NEW i \in Stages, StageStep(i)
  PROVE  [Abs!Next]_Abs!vars
<1> DEFINE ended == [j \in Stages |-> StatusOfStage(j)]
<1>0. /\ UNCHANGED <<pc, index, broke, status>>
      /\ st[i] \in {"forked", "wired", "run"}
      /\ st \in [Stages -> StageStates]
      /\ result \in [Stages -> Results \cup {NoResult}]
  BY StageChanges DEF shellVars, IInv, TypeOK
<1>1. Started' = Started
  <2>1. index \in Stages => (st'[index] # "none" <=> st[index] # "none")
    BY <1>0, StageChanges
  <2>2. pc \in {"closeIn", "closeOut", "advance"} => index \in Stages
    BY DEF IInv, Indices, Loop
  <2> QED BY <1>0, <2>1, <2>2 DEF Started
<1>2. i <= Started
  BY <1>0 DEF RInv, InOrder
<1>3. CASE result' = result
  BY <1>0, <1>1, <1>3 DEF Abs!vars, StatusOfStage
<1>4. CASE \E r \in Results : result' = [result EXCEPT ![i] = r]
  <2>1. PICK r \in Results : result' = [result EXCEPT ![i] = r]
    BY <1>4
  <2>2. result[i] = NoResult
    BY <1>0 DEF RInv, ResultsKnown, Begun
  <2>3. ended[i] = -1 /\ ended'[i] = StatusFromWaitpid(r)
    BY <1>0, <2>1, <2>2, StatusTypes DEF StatusOfStage
  <2>4. ended' = [ended EXCEPT ![i] = ended'[i]]
    BY <1>0, <2>1 DEF StatusOfStage
  <2>5. ended'[i] \in 0..255
    BY <2>3, StatusTypes
  <2>6. Abs!StageEnds(i)
    BY <1>0, <1>1, <1>2, <2>3, <2>4, <2>5
       DEF Abs!StageEnds, Abs!Unknown, Abs!Statuses
  <2> QED BY <2>6 DEF Abs!Next, Stages
<1> QED BY <1>3, <1>4, StageChanges

LEMMA ShellStepAbs ==
  ASSUME IInv, RInv, IInv', RInv', ShellStep
  PROVE  [Abs!Next]_Abs!vars
<1>0. /\ index \in 1..(N + 1) /\ N \in Nat /\ N >= 2 /\ Stages = 1..N
      /\ st \in [Stages -> StageStates]
      /\ pc \in Loop => index \in Stages /\ ~broke
      /\ pc \in Left => IF broke THEN index \in Stages ELSE index = N + 1
  BY SizesAssumption DEF IInv, TypeOK, Indices, Stages, RInv, LoopLeft
<1>1. CASE LastStage \/ MakePipe \/ ForkFails \/ CloseInput \/ CloseOutput
           \/ Advance \/ AfterLoop
  <2>1. Started' = Started
    <3>1. CASE ForkFails
      <4>1. st[index] = "none"
        BY <1>0, <3>1 DEF ForkFails, RInv, InOrder, Started, Loop
      <4> QED BY <3>1, <4>1 DEF ForkFails, Started
    <3>2. CASE ~ForkFails
      BY <1>0, <1>1, <3>2
         DEF LastStage, MakePipe, CloseInput, CloseOutput, Advance, AfterLoop,
             Started
    <3> QED BY <3>1, <3>2
  <2>2. UNCHANGED <<result, broke>> /\ pc # "done" /\ pc' # "done"
    BY <1>1 DEF LastStage, MakePipe, ForkFails, CloseInput, CloseOutput, Advance,
                AfterLoop, stageVars
  <2> QED BY <2>1, <2>2 DEF Abs!vars, StatusOfStage
<1>2. CASE PipeFails \/ GiveUp
  <2>1. Started = index - 1 /\ Started' = Started
    BY <1>2 DEF PipeFails, GiveUp, Started
  <2>2. Started < N /\ ~broke /\ broke'
    BY <1>0, <1>2, <2>1 DEF PipeFails, GiveUp, Loop
  <2>3. UNCHANGED result /\ pc # "done" /\ pc' # "done"
    BY <1>2 DEF PipeFails, GiveUp, stageVars
  <2>4. Abs!Fail
    BY <1>2, <2>1, <2>2, <2>3
       DEF Abs!Fail, Abs!Unknown, StatusOfStage, PipeFails, GiveUp
  <2> QED BY <2>4 DEF Abs!Next
<1>3. CASE Fork
  <2>1. index \in Stages /\ ~broke /\ Started = index - 1
    BY <1>0, <1>3 DEF Fork, Loop, Started
  <2>2. st'[index] = "forked"
    BY <1>0, <1>3, <2>1 DEF Fork
  <2>3. Started' = index
    BY <1>3, <2>2 DEF Fork, Started
  <2>4. UNCHANGED <<result, broke>> /\ pc # "done" /\ pc' # "done"
    BY <1>3 DEF Fork
  <2>5. Abs!Start
    BY <1>0, <2>1, <2>3, <2>4 DEF Abs!Start, Abs!Unknown, StatusOfStage
  <2> QED BY <2>5 DEF Abs!Next
<1>4. CASE WaitChild
  <2>1. UNCHANGED <<index, broke, result>> /\ pc = "wait"
        /\ pc' \in {"wait", "return"}
    BY <1>4 DEF WaitChild, stageVars
  <2>2. Started' = Started
    BY <2>1 DEF Started
  <2> QED BY <2>1, <2>2 DEF Abs!vars, StatusOfStage
<1>5. CASE Return
  <2>1. /\ pc = "return" /\ pc' = "done" /\ UNCHANGED <<index, broke, result>>
        /\ status' = IF broke THEN 1 ELSE status
    BY <1>5 DEF Return, stageVars
  <2>2. Started = index - 1 /\ Started' = Started
    BY <2>1 DEF Started
  <2>3. broke \/ Started = N
    BY <1>0, <2>1, <2>2 DEF Left
  <2>4. \A i \in 1..Started : i \in Stages /\ StatusOfStage(i) # -1
    <3>1. ASSUME NEW i \in 1..Started PROVE i \in Stages /\ st[i] = "reaped"
      BY <1>0, <2>1, <2>2 DEF RInv, Reaping, IInv, TypeOK
    <3>2. ASSUME NEW i \in Stages, st[i] = "reaped" PROVE StatusOfStage(i) # -1
      <4>1. result[i] \in Results
        BY <3>2 DEF RInv, ResultsKnown, Begun, IInv, TypeOK
      <4> QED BY <4>1, StatusTypes DEF StatusOfStage
    <3> QED BY <3>1, <3>2
  <2>5. ~broke => status = StatusOfStage(N)
    <3>1. ASSUME ~broke PROVE N \in 1..Started
      BY <1>0, <2>3, <3>1
    <3>2. ASSUME ~broke PROVE result[N] # NoResult
      BY <3>1, <3>2, <2>4 DEF StatusOfStage
    <3> QED BY <2>1, <3>2 DEF RInv, StatusKept, StatusOfStage
  <2>6. Abs!Return
    BY <1>0, <2>1, <2>2, <2>3, <2>4, <2>5
       DEF Abs!Return, Abs!Unknown, StatusOfStage
  <2> QED BY <2>6 DEF Abs!Next
<1> QED BY <1>1, <1>2, <1>3, <1>4, <1>5 DEF ShellStep

(* The pipeline starts its stages in order, waits for every one it started,  *)
(* and returns the status of the last, or 1 when it could not start them all.*)
THEOREM Implements == Spec => AbsSpec
<1>1. /\ IInv /\ RInv /\ (IInv /\ RInv)' /\ [Next]_vars
      => [Abs!Next]_Abs!vars
  <2> SUFFICES ASSUME IInv, RInv, IInv', RInv', [Next]_vars
               PROVE  [Abs!Next]_Abs!vars
    OBVIOUS
  <2>1. CASE ShellStep
    BY <2>1, ShellStepAbs
  <2>2. ASSUME NEW i \in Stages, StageStep(i) PROVE [Abs!Next]_Abs!vars
    BY <2>2, StageStepAbs
  <2>3. CASE UNCHANGED vars
    BY <2>3 DEF vars, Abs!vars, Started, StatusOfStage
  <2> QED BY <2>1, <2>2, <2>3 DEF Next
<1> QED BY <1>1, InitAbs, RefinementInvariant, PTL DEF Spec, AbsSpec, Abs!Spec

-----------------------------------------------------------------------------
(* What a stage is wired to.                                                 *)

(* Where the shell keeps the ends of the pipes it is between.  If it was     *)
(* started without descriptor 1, the read end of every odd pipe is there.    *)
ShellPipes ==
  /\ pc \in {"pipe", "fork", "closeIn"} =>
       /\ IF index = 1 THEN inFd = 0
          ELSE inFd \in Fd \ base /\ fds[Shell][inFd] = R(index - 1)
       /\ 1 \notin base => (inFd = 1 <=> index % 2 = 0)
  /\ (pc \in {"fork", "closeIn", "closeOut", "advance"} /\ index < N) =>
       /\ fds[Shell][pipeR] = R(index)
       /\ 1 \notin base => (pipeR = 1 <=> index % 2 = 1)
       /\ pipeW # 1
  /\ (pc \in {"fork", "closeIn", "closeOut"} /\ index < N) =>
       fds[Shell][pipeW] = W(index)
  /\ (pc = "fork" /\ index = N) => pipeR = -1 /\ pipeW = -1

LEMMA Parity ==
  \A n \in Nat : n % 2 \in {0, 1} /\ (n + 1) % 2 = 1 - (n % 2)
OBVIOUS

(* The redirections of a stage that were applied are the first of its line.  *)
Taken(i) == Len(line[i].redirs) - Len(redirs[i])
Applied(i, kind) == \E n \in 1..Taken(i) : line[i].redirs[n] = kind
RedirsInOrder(i) ==
  /\ st[i] \in {"forked", "wired", "run"} =>
       /\ Len(redirs[i]) <= Len(line[i].redirs)
       /\ \A n \in 1..Len(redirs[i]) :
            redirs[i][n] = line[i].redirs[Taken(i) + n]
  /\ st[i] = "forked" => Taken(i) = 0
  /\ st[i] = "run" => redirs[i] = <<>>

(* What a child holds from its fork to its end.                              *)
ForkedTable(i) ==
  st[i] = "forked" =>
    LET in == args[i][1]
        out == args[i][2]
    IN  /\ IF i = 1 THEN in = 0 ELSE in \in Fd \ base /\ fds[i][in] = R(i - 1)
        /\ IF i = N THEN out = 1 ELSE out \in Fd \ base /\ fds[i][out] = W(i)
        /\ 1 \notin base => /\ (in = 1 <=> i % 2 = 0)
                           /\ ((i = N /\ in # 1) => fds[i][1] = Closed)
        /\ \A f \in base : fds[i][f] = Inherited
        /\ \A f \in Fd \ {in, out} : fds[i][f] \in {Closed, Inherited, R(i)}

PlumbedTable(i) ==
  st[i] \in {"wired", "run"} =>
    /\ fds[i][0] = IF Applied(i, "in") THEN File
                   ELSE IF i = 1 THEN Inherited ELSE R(i - 1)
    /\ fds[i][1] = IF Mute(i) THEN Closed
                   ELSE IF Applied(i, "out") THEN File
                   ELSE IF i = N THEN Inherited ELSE W(i)
    /\ \A f \in Fd \ {0, 1} : fds[i][f] \in {Closed, Inherited, R(i)}

NoTable(i) == st[i] \in {"none", "zombie", "reaped"} => fds[i] = EmptyTable

ChildTable(i) ==
  RedirsInOrder(i) /\ ForkedTable(i) /\ PlumbedTable(i) /\ NoTable(i)

WInv == ShellPipes /\ \A i \in Stages : ChildTable(i)

(* What the two dup2() and the two close() of a child make of its table: an  *)
(* input that came as 1 takes the output with it when it is closed.          *)
LEMMA WiredTableIs ==
  ASSUME NEW t \in [Fd -> Objects], NEW in \in Fd, NEW out \in Fd \ {0}
  PROVE  \A g \in Fd : WiredTable(t, in, out)[g] =
           IF g = 0 THEN t[in] ELSE IF g = in THEN Closed
           ELSE IF g = 1 THEN t[out] ELSE IF g = out THEN Closed ELSE t[g]
<1> DEFINE a == IF in # 0 THEN Dup2(t, in, 0) ELSE t
           b == IF out # 1 THEN Dup2(a, out, 1) ELSE a
           c == IF in # 0 THEN CloseFd(b, in) ELSE b
           d == IF out # 1 THEN CloseFd(c, out) ELSE c
<1>0. 0 \in Fd /\ 1 \in Fd
  BY Basics
<1>1. /\ a \in [Fd -> Objects]
      /\ \A g \in Fd : a[g] = IF g = 0 THEN t[in] ELSE t[g]
  BY <1>0, Dup2Type
<1> HIDE DEF a
<1>2. /\ b \in [Fd -> Objects]
      /\ \A g \in Fd : b[g] = IF g = 1 THEN a[out] ELSE a[g]
  BY <1>0, <1>1, Dup2Type
<1> HIDE DEF b
<1>3. /\ c \in [Fd -> Objects]
      /\ \A g \in Fd : c[g] = IF in # 0 /\ g = in THEN Closed ELSE b[g]
  BY <1>2, CloseFdType
<1> HIDE DEF c
<1>4. \A g \in Fd : d[g] = IF out # 1 /\ g = out THEN Closed ELSE c[g]
  BY <1>3, CloseFdType
<1>5. WiredTable(t, in, out) = d
  BY DEF WiredTable, a, b, c
<1> HIDE DEF d
<1>6. QED
  BY <1>0, <1>1, <1>2, <1>3, <1>4, <1>5

LEMMA InitWInv == Init => WInv
<1> SUFFICES ASSUME Init PROVE WInv
  OBVIOUS
<1>1. ShellPipes
  BY DEF Init, ShellPipes
<1>2. ASSUME NEW i \in Stages PROVE ChildTable(i)
  <2>1. st[i] = "none"
    BY DEF Init
  <2>2. fds[i] = EmptyTable
    BY Basics DEF Init
  <2>3. QED
    BY <2>1, <2>2 DEF ChildTable, RedirsInOrder, ForkedTable, PlumbedTable,
                      NoTable
<1>3. QED
  BY <1>1, <1>2 DEF WInv

(* A stage nobody touched is wired as it was.                                *)
LEMMA ChildTableKept ==
  ASSUME NEW j \in Stages, ChildTable(j), base' = base, line' = line,
         st'[j] = st[j], fds'[j] = fds[j], args'[j] = args[j],
         redirs'[j] = redirs[j]
  PROVE  ChildTable(j)'
<1>1. Taken(j)' = Taken(j)
  BY DEF Taken
<1>2. Applied(j, "in")' = Applied(j, "in") /\ Applied(j, "out")' = Applied(j, "out")
  BY <1>1 DEF Applied
<1>3. RedirsInOrder(j)'
  BY <1>1 DEF ChildTable, RedirsInOrder
<1>4. ForkedTable(j)'
  BY DEF ChildTable, ForkedTable
<1>5. PlumbedTable(j)'
  BY <1>2 DEF ChildTable, PlumbedTable, Mute
<1>6. NoTable(j)'
  BY DEF ChildTable, NoTable
<1>7. QED
  BY <1>3, <1>4, <1>5, <1>6 DEF ChildTable

LEMMA TailTaken ==
  ASSUME NEW L \in Seq(Redirections), NEW r \in Seq(Redirections), r # <<>>,
         Len(r) <= Len(L),
         \A n \in 1..Len(r) : r[n] = L[(Len(L) - Len(r)) + n]
  PROVE  /\ Tail(r) \in Seq(Redirections) /\ Len(Tail(r)) = Len(r) - 1
         /\ Len(r) \in Nat \ {0}
         /\ \A n \in 1..Len(Tail(r)) :
              Tail(r)[n] = L[(Len(L) - Len(Tail(r))) + n]
         /\ Head(r) = L[(Len(L) - Len(r)) + 1]
         /\ Head(r) \in Redirections
<1>1. /\ Tail(r) \in Seq(Redirections) /\ Len(Tail(r)) = Len(r) - 1
      /\ Len(r) \in Nat \ {0} /\ Len(L) \in Nat
  OBVIOUS
<1>2. Head(r) = r[1] /\ Head(r) \in Redirections
  OBVIOUS
<1>3. ASSUME NEW n \in 1..Len(Tail(r))
      PROVE  Tail(r)[n] = L[(Len(L) - Len(Tail(r))) + n]
  <2>1. n + 1 \in 1..Len(r) /\ Tail(r)[n] = r[n + 1]
    BY <1>1
  <2>2. (Len(L) - Len(Tail(r))) + n = (Len(L) - Len(r)) + (n + 1)
    BY <1>1
  <2>3. QED
    BY <2>1, <2>2
<1>4. QED
  BY <1>1, <1>2, <1>3

LEMMA RedirectTable ==
  ASSUME IInv, WInv, NEW i \in Stages, Redirect(i)
  PROVE  ChildTable(i)'
<1> DEFINE L == line[i].redirs
           kind == Head(redirs[i])
           d == IF kind = "in" THEN 0 ELSE 1
<1>1. /\ L \in Seq(Redirections) /\ redirs \in [Stages -> Seq(Redirections)]
      /\ fds \in [Procs -> [Fd -> Objects]] /\ i \in Procs
      /\ st[i] = "wired" /\ redirs[i] # <<>> /\ kind # "bad"
      /\ redirs' = [redirs EXCEPT ![i] = Tail(redirs[i])]
      /\ UNCHANGED <<base, line, st, args>>
  BY Basics DEF Redirect, IInv, TypeOK, LineType, shellVars
<1>0. PICK f \in Free(fds[i]) :
        /\ \A g \in Free(fds[i]) : f <= g
        /\ fds' = [fds EXCEPT ![i] = RedirectedTable(fds[i], f, kind)]
  BY DEF Redirect
<1>2. /\ Len(redirs[i]) <= Len(L)
      /\ \A n \in 1..Len(redirs[i]) :
           redirs[i][n] = L[(Len(L) - Len(redirs[i])) + n]
  BY <1>1 DEF WInv, ChildTable, RedirsInOrder, Taken
<1>3. redirs[i] \in Seq(Redirections) /\ redirs'[i] = Tail(redirs[i])
  BY <1>1
<1> HIDE DEF L
<1>4. /\ Len(redirs'[i]) = Len(redirs[i]) - 1
      /\ Len(redirs[i]) \in Nat \ {0}
      /\ \A n \in 1..Len(redirs'[i]) :
           redirs'[i][n] = L[(Len(L) - Len(redirs'[i])) + n]
      /\ kind = L[(Len(L) - Len(redirs[i])) + 1]
      /\ kind \in Redirections
  BY <1>1, <1>2, <1>3, TailTaken
<1>5. Len(L) \in Nat
  BY <1>1
<1> HIDE DEF kind
<1>6. /\ Taken(i) \in Nat /\ Taken(i)' = Taken(i) + 1 /\ kind = L[Taken(i) + 1]
  BY <1>1, <1>2, <1>4, <1>5 DEF Taken, L
<1>7. \A k : Applied(i, k) <=> \E n \in 1..Taken(i) : L[n] = k
  BY DEF Applied, L
<1>8. /\ Applied(i, "in")' <=> \E n \in 1..(Taken(i) + 1) : L[n] = "in"
      /\ Applied(i, "out")' <=> \E n \in 1..(Taken(i) + 1) : L[n] = "out"
  BY <1>1, <1>6 DEF Applied, L
<1>9. /\ Applied(i, "in")' <=> (Applied(i, "in") \/ kind = "in")
      /\ Applied(i, "out")' <=> (Applied(i, "out") \/ kind = "out")
  BY <1>6, <1>7, <1>8
<1>10. kind = "in" \/ kind = "out"
  BY <1>1, <1>4 DEF Redirections
<1>11. RedirsInOrder(i)'
  <2>1. line'[i].redirs = L /\ st'[i] = "wired"
    BY <1>1 DEF L
  <2>2. Len(redirs'[i]) <= Len(L)
    BY <1>2, <1>4, <1>5
  <2>3. Taken(i)' = Len(L) - Len(redirs'[i])
    BY <2>1 DEF Taken
  <2>4. QED
    BY <1>4, <2>1, <2>2, <2>3 DEF RedirsInOrder
<1>12. \A g \in Fd : fds'[i][g] =
         IF g = f THEN Closed ELSE IF g = d THEN File ELSE fds[i][g]
  <2>1. f \in Fd /\ d \in {0, 1} /\ fds[i] \in [Fd -> Objects]
    BY <1>1 DEF Free
  <2>2. fds'[i] = RedirectedTable(fds[i], f, kind)
    BY <1>0, <1>1
  <2>3. QED
    BY <2>1, <2>2, RedirectedTableIs
<1>13. PlumbedTable(i)
  BY DEF WInv, ChildTable
<1>14. PlumbedTable(i)'
  (* 0 is open; so is 1, and then f is neither, unless the stage is mute.    *)
  <2>1. fds[i][0] # Closed
    BY <1>1, <1>13, ObjectsDiffer DEF PlumbedTable
  <2>2. f \in Fd /\ f # 0 /\ fds[i][f] = Closed
    BY <2>1 DEF Free
  <2>3. Mute(i) => f = 1
    <3>1. Mute(i) => 1 \in Free(fds[i])
      BY <1>1, <1>13, Basics DEF PlumbedTable, Free
    <3>2. QED
      BY <1>0, <2>2, <3>1 DEF Fd
  <2>4. ~Mute(i) => f # 1
    BY <1>1, <1>13, <2>2, ObjectsDiffer DEF PlumbedTable
  <2>5. Mute(i)' = Mute(i) /\ st'[i] = "wired"
    BY <1>1 DEF Mute
  <2>6. fds'[i][0] = IF Applied(i, "in")' THEN File
                     ELSE IF i = 1 THEN Inherited ELSE R(i - 1)
    BY <1>1, <1>9, <1>10, <1>12, <1>13, <2>2, Basics DEF PlumbedTable
  <2>7. fds'[i][1] = IF Mute(i) THEN Closed
                     ELSE IF Applied(i, "out")' THEN File
                     ELSE IF i = N THEN Inherited ELSE W(i)
    BY <1>1, <1>9, <1>10, <1>12, <1>13, <2>3, <2>4, Basics DEF PlumbedTable
  <2>8. \A g \in Fd \ {0, 1} : fds'[i][g] \in {Closed, Inherited, R(i)}
    BY <1>1, <1>12, <1>13 DEF PlumbedTable
  <2>9. QED
    BY <2>5, <2>6, <2>7, <2>8 DEF PlumbedTable
<1>15. ForkedTable(i)' /\ NoTable(i)'
  BY <1>1 DEF ForkedTable, NoTable
<1>16. QED
  BY <1>11, <1>14, <1>15 DEF ChildTable

LEMMA PlumbTable ==
  ASSUME IInv, WInv, NEW i \in Stages, Plumb(i)
  PROVE  ChildTable(i)'
<1> DEFINE in == args[i][1]
           out == args[i][2]
<1>1. /\ fds \in [Procs -> [Fd -> Objects]] /\ i \in Procs
      /\ in \in Fd /\ out \in Fd /\ st[i] = "forked" /\ st \in [Stages -> StageStates]
  BY Basics DEF Plumb, IInv, TypeOK, Descriptors
<1>2. /\ fds' = [fds EXCEPT ![i] = WiredTable(fds[i], in, out)]
      /\ st' = [st EXCEPT ![i] = "wired"]
      /\ UNCHANGED <<base, line, args, redirs>>
  BY DEF Plumb, shellVars, stageVars
<1>3. /\ IF i = 1 THEN in = 0 ELSE in \in Fd \ base /\ fds[i][in] = R(i - 1)
      /\ IF i = N THEN out = 1 ELSE out \in Fd \ base /\ fds[i][out] = W(i)
      /\ 1 \notin base => /\ (in = 1 <=> i % 2 = 0)
                         /\ ((i = N /\ in # 1) => fds[i][1] = Closed)
      /\ \A f \in base : fds[i][f] = Inherited
      /\ \A f \in Fd \ {in, out} : fds[i][f] \in {Closed, Inherited, R(i)}
  BY <1>1 DEF WInv, ChildTable, ForkedTable
<1> HIDE DEF in, out
<1>4. out # 0 /\ 0 \in base
  BY <1>1, <1>3, BaseKnown
<1>5. /\ fds'[i] = WiredTable(fds[i], in, out)
      /\ fds[i] \in [Fd -> Objects]
  BY <1>1, <1>2
<1>6. \A g \in Fd : fds'[i][g] =
         IF g = 0 THEN fds[i][in] ELSE IF g = in THEN Closed
         ELSE IF g = 1 THEN fds[i][out]
         ELSE IF g = out THEN Closed ELSE fds[i][g]
  BY <1>1, <1>4, <1>5, WiredTableIs
<1>7. /\ fds'[i][0] = IF i = 1 THEN Inherited ELSE R(i - 1)
      /\ fds'[i][1] = IF Mute(i) THEN Closed
                      ELSE IF i = N THEN Inherited ELSE W(i)
      /\ \A f \in Fd \ {0, 1} : fds'[i][f] \in {Closed, Inherited, R(i)}
  <2>1. in = 1 => 1 \notin base
    BY <1>3
  <2>2. Mute(i) => IF in = 1 THEN fds'[i][1] = Closed
                   ELSE out = 1 /\ fds[i][1] = Closed
    BY <1>3, <1>6, Basics DEF Mute
  <2>3. ~Mute(i) => in # 1 /\ (i = N => 1 \in base)
    BY <1>3, <2>1 DEF Mute
  <2>4. QED
    BY <1>3, <1>4, <1>6, <2>2, <2>3, Basics
<1>8. st'[i] = "wired"
  BY <1>1, <1>2
<1>9. Taken(i) = 0 /\ RedirsInOrder(i) /\ Taken(i)' = Taken(i)
  BY <1>1, <1>2 DEF WInv, ChildTable, RedirsInOrder, Taken
<1>10. RedirsInOrder(i)'
  BY <1>1, <1>2, <1>8, <1>9 DEF RedirsInOrder
<1>11. ~Applied(i, "in")' /\ ~Applied(i, "out")'
  BY <1>9 DEF Applied
<1>12. PlumbedTable(i)'
  BY <1>2, <1>7, <1>11 DEF PlumbedTable, Mute
<1>13. ForkedTable(i)' /\ NoTable(i)'
  BY <1>8 DEF ForkedTable, NoTable
<1>14. QED
  BY <1>10, <1>12, <1>13 DEF ChildTable

LEMMA ExecTable ==
  ASSUME IInv, WInv, NEW i \in Stages, Exec(i)
  PROVE  ChildTable(i)'
<1>1. /\ fds \in [Procs -> [Fd -> Objects]] /\ i \in Procs
      /\ st[i] = "wired" /\ redirs[i] = <<>> /\ st \in [Stages -> StageStates]
      /\ st' = [st EXCEPT ![i] = "run"]
      /\ UNCHANGED <<base, line, args, redirs>>
      /\ fds' = IF line[i].prog = "tidy"
                THEN [fds EXCEPT ![i] = StandardOnly(fds[i])] ELSE fds
  BY Basics DEF Exec, IInv, TypeOK, shellVars, stageVars
<1>2. \A f \in Fd : fds'[i][f] = fds[i][f]
                    \/ (f \notin {0, 1, 2} /\ fds'[i][f] = Closed)
  BY <1>1 DEF StandardOnly
<1>3. st'[i] = "run"
  BY <1>1
<1>4. Taken(i)' = Taken(i) /\ RedirsInOrder(i)
  BY <1>1 DEF Taken, WInv, ChildTable
<1>5. RedirsInOrder(i)'
  BY <1>1, <1>3, <1>4 DEF RedirsInOrder
<1>6. /\ Applied(i, "in")' = Applied(i, "in")
      /\ Applied(i, "out")' = Applied(i, "out")
  BY <1>1, <1>4 DEF Applied
<1>7. PlumbedTable(i)
  BY DEF WInv, ChildTable
<1>8. PlumbedTable(i)'
  BY <1>1, <1>2, <1>6, <1>7, Basics DEF PlumbedTable, Mute
<1>9. ForkedTable(i)' /\ NoTable(i)'
  BY <1>3 DEF ForkedTable, NoTable
<1>10. QED
  BY <1>5, <1>8, <1>9 DEF ChildTable

LEMMA StageStepWInv ==
  ASSUME IInv, WInv, NEW i \in Stages, StageStep(i)
  PROVE  WInv'
<1>1. UNCHANGED shellVars /\ OwnTableOnly(i)
  BY StageFrame
<1>2. /\ i \in Procs /\ fds \in [Procs -> [Fd -> Objects]]
      /\ st \in [Stages -> StageStates]
      /\ redirs \in [Stages -> Seq(Redirections)]
  BY Basics DEF IInv, TypeOK
<1>3. args' = args
  BY DEF StageStep, Plumb, Redirect, RedirectFails, Exec, Write, WriteFails,
         BrokenPipe, Read, EndOfFile, Exit, stageVars
<1>4. \A j \in Stages \ {i} : st'[j] = st[j] /\ redirs'[j] = redirs[j]
  BY <1>2 DEF StageStep, Plumb, Redirect, RedirectFails, Exec, Write,
     WriteFails, BrokenPipe, Read, EndOfFile, Exit, Ends, stageVars
<1>5. \A j \in Stages \ {i} : ChildTable(j)'
  BY <1>1, <1>3, <1>4, Basics, ChildTableKept DEF OwnTableOnly, shellVars, WInv
<1>6. fds'[Shell] = fds[Shell]
  BY <1>1, Basics DEF OwnTableOnly
<1>7. ShellPipes'
  BY <1>1, <1>6 DEF WInv, ShellPipes, shellVars
<1>8. ASSUME NEW r, Ends(i, r) PROVE ChildTable(i)'
  <2>1. fds'[i] = EmptyTable /\ st'[i] = "zombie"
    BY <1>2, <1>8 DEF Ends
  <2>2. QED
    BY <2>1 DEF ChildTable, RedirsInOrder, ForkedTable, PlumbedTable, NoTable
<1>9. RedirectFails(i) \/ WriteFails(i) \/ BrokenPipe(i) \/ Exit(i)
        => ChildTable(i)'
  BY <1>8 DEF RedirectFails, WriteFails, BrokenPipe, Exit
<1>10. Write(i) \/ Read(i) \/ EndOfFile(i) => ChildTable(i)'
  BY <1>1, ChildTableKept DEF Write, Read, EndOfFile, shellVars, WInv
<1>11. ChildTable(i)'
  BY <1>9, <1>10, PlumbTable, RedirectTable, ExecTable DEF StageStep
<1>12. QED
  BY <1>5, <1>7, <1>11 DEF WInv

(* The steps of the shell: a fork hands its table to a stage, the others     *)
(* touch no table but its own.                                               *)
LEMMA ForkTable ==
  ASSUME IInv, RInv, WInv, Fork, NEW i \in Stages, i = index
  PROVE  ChildTable(i)'
<1>1. /\ i \in Stages /\ i \in Procs /\ pc = "fork"
      /\ inFd \in Fd /\ pipeR \in (Fd \ base) \cup {-1}
      /\ i < N => pipeR \in Fd \ base /\ pipeW \in Fd \ base
      /\ i = N => pipeR = -1 /\ pipeW = -1
      /\ 1 \notin base => (inFd = 1 <=> i % 2 = 0)
      /\ i <= N
  BY Basics, SizesAssumption
     DEF Fork, IInv, Indices, Loop, Descriptors, WInv, ShellPipes, Stages
<1>2. /\ fds \in [Procs -> [Fd -> Objects]] /\ st \in [Stages -> StageStates]
      /\ redirs \in [Stages -> Seq(Redirections)] /\ line \in LineType
      /\ args \in [Stages -> (Fd \cup {-1}) \X (Fd \cup {-1})]
  BY DEF IInv, TypeOK
<1>3. /\ fds'[i] = fds[Shell] /\ st'[i] = "forked"
      /\ args'[i][1] = inFd
      /\ args'[i][2] = (IF i < N THEN pipeW ELSE 1)
      /\ redirs'[i] = line[i].redirs
      /\ UNCHANGED <<base, line>>
  BY <1>1, <1>2 DEF Fork
<1>4. /\ IF i = 1 THEN inFd = 0
         ELSE inFd \in Fd \ base /\ fds[Shell][inFd] = R(i - 1)
      /\ i < N => fds[Shell][pipeW] = W(i)
  BY <1>1 DEF WInv, ShellPipes
<1>5. \A f \in base : fds[Shell][f] = Inherited
  BY BaseKnown DEF IInv, ShellOwn
<1>6. ASSUME NEW f \in Fd, f # inFd, f # (IF i < N THEN pipeW ELSE 1)
      PROVE  fds[Shell][f] \in {Closed, Inherited, R(i)}
  <2>1. fds[Shell][f] \in Objects
    BY <1>2, Basics
  <2>2. \A o \in Objects : \/ o \in {Closed, Inherited, File}
                          \/ \E k \in Stages : o = R(k) \/ o = W(k)
    BY DEF Objects, Closed, Inherited, File, R, W
  <2>3. fds[Shell][f] # File
    BY <1>5, ObjectsDiffer DEF IInv, ShellOwn
  <2>4. ASSUME NEW k \in Stages PROVE fds[Shell][f] # W(k)
    <3>1. fds[Shell][f] = W(k) => k = i /\ f = pipeW
      BY Basics DEF IInv, WriteEnds
    <3>2. QED
      <4>1. i < N \/ i = N
        BY <1>1, SizesAssumption DEF Stages
      <4>2. QED
        BY <1>1, <1>6, <3>1, <4>1, Basics
  <2>5. ASSUME NEW k \in Stages, fds[Shell][f] = R(k) PROVE k = i
    BY <1>1, <1>6, <2>5, Basics DEF IInv, ReadEnds
  <2>6. QED
    BY <2>1, <2>2, <2>3, <2>4, <2>5
<1>7. ForkedTable(i)'
  <2>1. i = N <=> ~(i < N)
    BY <1>1, SizesAssumption DEF Stages
  <2>2. (i = N /\ 1 \notin base /\ inFd # 1) => fds[Shell][1] = Closed
    <3> SUFFICES ASSUME i = N, 1 \notin base, inFd # 1
                 PROVE  fds[Shell][1] = Closed
      OBVIOUS
    <3>1. fds[Shell][1] \in Objects
      BY <1>2, Basics
    <3>2. fds[Shell][1] \notin {Inherited, File}
      BY Basics DEF IInv, ShellOwn
    <3>3. pipeR # 1 /\ pipeW # 1
      BY <1>1
    <3>4. \A k \in Stages : fds[Shell][1] # R(k) /\ fds[Shell][1] # W(k)
      BY <3>3, Basics DEF IInv, ReadEnds, WriteEnds
    <3>5. QED
      BY <3>1, <3>2, <3>4 DEF Objects, Closed, Inherited, File, R, W
  <2>3. QED
    BY <1>1, <1>3, <1>4, <1>5, <1>6, <2>1, <2>2 DEF ForkedTable
<1>8. RedirsInOrder(i)'
  <2>1. line[i].redirs \in Seq(Redirections)
    BY <1>1, <1>2 DEF LineType
  <2>2. Taken(i)' = 0
    BY <1>3, <2>1 DEF Taken
  <2>3. QED
    BY <1>3, <2>1, <2>2 DEF RedirsInOrder
<1>9. PlumbedTable(i)' /\ NoTable(i)'
  BY <1>3 DEF PlumbedTable, NoTable
<1>10. QED
  BY <1>7, <1>8, <1>9 DEF ChildTable

LEMMA ShellStepTables ==
  ASSUME IInv, RInv, WInv, ShellStep
  PROVE  \A i \in Stages : ChildTable(i)'
<1>1. fds \in [Procs -> [Fd -> Objects]] /\ st \in [Stages -> StageStates]
  BY DEF IInv, TypeOK
<1>2. CASE Fork
  <2>1. index \in Stages
    BY <1>2 DEF Fork, IInv, Indices, Loop
  <2>2. ASSUME NEW j \in Stages, j # index PROVE ChildTable(j)'
    <3>1. /\ base' = base /\ line' = line
          /\ st'[j] = st[j] /\ fds'[j] = fds[j]
          /\ args'[j] = args[j] /\ redirs'[j] = redirs[j]
      BY <1>1, <1>2, <2>1, <2>2, Basics DEF Fork, IInv, TypeOK
    <3>2. QED
      BY <3>1, ChildTableKept DEF WInv
  <2>3. ASSUME NEW j \in Stages, j = index PROVE ChildTable(j)'
    BY <1>2, <2>3, ForkTable
  <2>4. QED
    BY <2>2, <2>3
<1>3. CASE WaitChild
  <2>1. /\ st' = [st EXCEPT ![reap] = "reaped"] /\ st[reap] = "zombie"
        /\ UNCHANGED <<base, line, fds, args, redirs>>
    BY <1>3 DEF WaitChild, stageVars
  <2>2. ASSUME NEW j \in Stages, j # reap PROVE ChildTable(j)'
    BY <1>1, <2>1, <2>2, ChildTableKept DEF WInv
  <2>3. ASSUME NEW j \in Stages, j = reap PROVE ChildTable(j)'
    <3>1. st'[j] = "reaped" /\ fds'[j] = EmptyTable
      BY <1>1, <2>1, <2>3 DEF WInv, ChildTable, NoTable
    <3>2. QED
      BY <3>1 DEF ChildTable, RedirsInOrder, ForkedTable, PlumbedTable, NoTable
  <2>4. QED
    BY <2>2, <2>3
<1>4. CASE ~Fork /\ ~WaitChild
  <2>1. UNCHANGED <<base, line, st, args, redirs>>
    BY <1>4 DEF ShellStep, LastStage, MakePipe, PipeFails, ForkFails,
       CloseInput, CloseOutput, GiveUp, Advance, AfterLoop, Return, stageVars
  <2>2. \A j \in Stages : fds'[j] = fds[j]
    BY <1>1, <1>4, Basics DEF ShellStep, LastStage, MakePipe, PipeFails, ForkFails,
       CloseInput, CloseOutput, GiveUp, Advance, AfterLoop, Return
  <2>3. QED
    BY <2>1, <2>2, ChildTableKept DEF WInv
<1>5. QED
  BY <1>2, <1>3, <1>4

LEMMA ShellStepPipes ==
  ASSUME IInv, RInv, WInv, ShellStep
  PROVE  ShellPipes'
<1>0. /\ fds \in [Procs -> [Fd -> Objects]] /\ Shell \in Procs
      /\ ShellPipes /\ Descriptors /\ Indices /\ N \in Nat
      /\ index \in 1..(N + 1) /\ base' = base
  BY Basics, SizesAssumption, BaseKept DEF IInv, WInv, TypeOK
<1>1. CASE LastStage
  BY <1>0, <1>1 DEF LastStage, ShellPipes
<1>2. CASE MakePipe
  <2>0. PICK a \in Free(fds[Shell]), b \in Free(fds[Shell]) :
          /\ pipeR' = a /\ pipeW' = b /\ a < b
          /\ \A f \in Free(fds[Shell]) \ {a} : a < f
          /\ fds' = [fds EXCEPT ![Shell][a] = R(index), ![Shell][b] = W(index)]
    BY <1>2 DEF MakePipe, LowestTwo
  <2>1. /\ a \in Fd /\ b \in Fd /\ a # b /\ pipeR' = a /\ pipeW' = b
        /\ fds[Shell][a] = Closed /\ fds[Shell][b] = Closed
        /\ fds' = [fds EXCEPT ![Shell][a] = R(index), ![Shell][b] = W(index)]
    BY <2>0 DEF Free, Fd
  <2>2. \A f \in Fd :
          fds'[Shell][f] = IF f = b THEN W(index)
                           ELSE IF f = a THEN R(index) ELSE fds[Shell][f]
    BY <1>0, <2>1
  <2>3. UNCHANGED <<index, inFd>> /\ pc = "pipe" /\ pc' = "fork" /\ index < N
    BY <1>2 DEF MakePipe
  <2>4. index # 1 => inFd \in Fd \ base /\ fds[Shell][inFd] = R(index - 1)
    BY <1>0, <2>3 DEF ShellPipes
  <2>5. index # 1 => inFd # a /\ inFd # b
    BY <2>1, <2>4, ObjectsDiffer
  <2>6. index = 1 => inFd = 0
    BY <1>0, <2>3 DEF ShellPipes
  <2>7. 1 \notin base => (inFd = 1 <=> index % 2 = 0)
    BY <1>0, <2>3 DEF ShellPipes
  <2>8. a # 0 /\ b # 1
    <3>1. 0 \in base /\ fds[Shell][0] = Inherited
      BY BaseKnown, Basics DEF IInv, ShellOwn
    <3>2. a # 0
      BY <2>1, <3>1, ObjectsDiffer
    <3>3. QED
      BY <2>0, <3>2 DEF Free, Fd
  <2>9. ASSUME 1 \notin base PROVE a = 1 <=> index % 2 = 1
    <3>1. index % 2 \in {0, 1}
      BY <1>0, Parity
    <3>2. CASE index % 2 = 0
      <4>1. inFd = 1 /\ index # 1
        BY <2>6, <2>7, <2>9, <3>2
      <4>2. QED
        BY <2>5, <3>2, <4>1
    <3>3. CASE index % 2 = 1
      (* The end that was at 1 is closed: 1 is the lowest number free.       *)
      <4>1. inFd # 1
        BY <2>7, <2>9, <3>3
      <4>2. fds[Shell][1] = Closed
        <5>1. fds[Shell][1] \in Objects
          BY Basics DEF IInv, TypeOK
        <5>2. fds[Shell][1] \notin {Inherited, File}
          BY <2>9, Basics DEF IInv, ShellOwn
        <5>3. \A k \in Stages : fds[Shell][1] # R(k) /\ fds[Shell][1] # W(k)
          BY <2>3, <4>1, Basics DEF IInv, ReadEnds, WriteEnds
        <5>4. QED
          BY <5>1, <5>2, <5>3 DEF Objects, Closed, Inherited, File, R, W
      <4>3. 1 \in Free(fds[Shell])
        BY <4>2, Basics DEF Free
      <4>4. a = 1 \/ a < 1
        BY <1>2, <2>1, <4>3, <2>0 DEF MakePipe, LowestTwo
      <4>5. QED
        BY <2>1, <2>8, <3>3, <4>4 DEF Fd
    <3>4. QED
      BY <3>1, <3>2, <3>3
  <2>10. QED
    BY <1>0, <2>1, <2>2, <2>3, <2>4, <2>5, <2>6, <2>7, <2>8, <2>9
       DEF ShellPipes
<1>3. CASE PipeFails
  BY <1>3 DEF PipeFails, ShellPipes
<1>4. CASE Fork
  <2>1. index \in Stages
    BY <1>0, <1>4 DEF Fork, Indices, Loop
  <2>2. fds'[Shell] = fds[Shell]
    BY <1>0, <1>4, <2>1, Basics DEF Fork
  <2>3. UNCHANGED <<index, inFd, pipeR, pipeW>> /\ pc = "fork" /\ pc' = "closeIn"
    BY <1>4 DEF Fork
  <2>4. QED
    BY <1>0, <2>2, <2>3 DEF ShellPipes
<1>5. CASE ForkFails
  BY <1>0, <1>5 DEF ForkFails, ShellPipes
<1>6. CASE CloseInput
  <2>1. /\ UNCHANGED <<index, inFd, pipeR, pipeW>>
        /\ pc = "closeIn" /\ pc' = "closeOut"
    BY <1>6 DEF CloseInput
  <2>2. CASE inFd = 0
    BY <1>0, <1>6, <2>1, <2>2 DEF CloseInput, ShellPipes
  <2>3. CASE inFd # 0
    <3>1. Closes(inFd)
      BY <1>6, <2>3 DEF CloseInput, Closes
    <3>2. \A f \in Fd : fds'[Shell][f] =
            IF f = inFd THEN Closed ELSE fds[Shell][f]
      BY <3>1, ShellCloses, Basics
    <3>3. /\ fds[Shell][inFd] = R(index - 1)
          /\ index < N => /\ fds[Shell][pipeR] = R(index) /\ pipeR \in Fd
                          /\ fds[Shell][pipeW] = W(index) /\ pipeW \in Fd
      BY <1>0, <2>1, <2>3 DEF ShellPipes, Descriptors
    <3>4. index < N => pipeR # inFd /\ pipeW # inFd
      BY <1>0, <3>3, ObjectsDiffer
    <3>5. index < N => /\ 1 \notin base => (pipeR = 1 <=> index % 2 = 1)
                       /\ pipeW # 1
      BY <1>0, <2>1 DEF ShellPipes
    <3>6. QED
      BY <1>0, <2>1, <3>2, <3>3, <3>4, <3>5 DEF ShellPipes
  <2>4. QED
    BY <2>2, <2>3
<1>7. CASE CloseOutput
  <2>1. /\ UNCHANGED <<index, inFd, pipeR, pipeW>>
        /\ pc = "closeOut" /\ pc' = "advance"
    BY <1>7 DEF CloseOutput
  <2>2. Closes(pipeW)
    BY <1>7 DEF CloseOutput, Closes
  <2>3. \A f \in Fd : fds'[Shell][f] =
          IF f = pipeW THEN Closed ELSE fds[Shell][f]
    BY <2>2, ShellCloses, Basics
  <2>4. index < N => /\ fds[Shell][pipeR] = R(index) /\ pipeR \in Fd
                     /\ fds[Shell][pipeW] = W(index)
    BY <1>0, <2>1 DEF ShellPipes, Descriptors
  <2>5. index < N => pipeR # pipeW
    BY <2>4, ObjectsDiffer
  <2>6. index < N => /\ 1 \notin base => (pipeR = 1 <=> index % 2 = 1)
                     /\ pipeW # 1
    BY <1>0, <2>1 DEF ShellPipes
  <2>7. QED
    BY <1>0, <2>1, <2>3, <2>4, <2>5, <2>6 DEF ShellPipes
<1>8. CASE GiveUp
  BY <1>8 DEF GiveUp, ShellPipes
<1>9. CASE Advance
  <2>1. /\ UNCHANGED <<fds, pipeR, pipeW>> /\ inFd' = pipeR
        /\ index' = index + 1 /\ pc = "advance"
        /\ pc' = IF index < N THEN "pipe" ELSE "after"
    BY <1>9 DEF Advance
  <2>2. index < N => fds[Shell][pipeR] = R(index) /\ pipeR \in Fd \ base
    BY <1>0, <2>1 DEF ShellPipes, Descriptors
  <2>3. index' # 1 /\ index' - 1 = index
    BY <1>0, <2>1
  <2>4. ASSUME 1 \notin base, index < N PROVE pipeR = 1 <=> index' % 2 = 0
    <3>1. pipeR = 1 <=> index % 2 = 1
      BY <1>0, <2>1, <2>4 DEF ShellPipes
    <3>2. index % 2 \in {0, 1} /\ index' % 2 = 1 - (index % 2)
      BY <1>0, <2>1, Parity
    <3>3. QED
      BY <3>1, <3>2
  <2>5. pc' = "pipe" => index < N
    BY <2>1
  <2>6. QED
    BY <1>0, <2>1, <2>2, <2>3, <2>4, <2>5 DEF ShellPipes
<1>10. CASE AfterLoop
  BY <1>10 DEF AfterLoop, ShellPipes
<1>11. CASE WaitChild
  BY <1>11 DEF WaitChild, ShellPipes
<1>12. CASE Return
  BY <1>12 DEF Return, ShellPipes
<1>13. QED
  BY <1>1, <1>2, <1>3, <1>4, <1>5, <1>6, <1>7, <1>8, <1>9, <1>10, <1>11,
     <1>12 DEF ShellStep

PInv == IInv /\ RInv /\ WInv

LEMMA StepPInv == PInv /\ [Next]_vars => PInv'
<1> SUFFICES ASSUME PInv, [Next]_vars PROVE IInv' /\ RInv' /\ WInv'
  BY DEF PInv
<1>1. CASE ShellStep
  <2>1. ShellPipes' /\ \A i \in Stages : ChildTable(i)'
    BY <1>1, ShellStepPipes, ShellStepTables DEF PInv
  <2>2. WInv'
    BY <2>1 DEF WInv
  <2>3. QED
    BY <1>1, <2>2, ShellStepIInv, ShellStepRInv DEF PInv
<1>2. ASSUME NEW i \in Stages, StageStep(i) PROVE IInv' /\ RInv' /\ WInv'
  BY <1>2, StageStepIInv, StageStepRInv, StageStepWInv DEF PInv
<1>3. CASE UNCHANGED vars
  <2>1. IInv' /\ RInv'
    BY <1>3 DEF PInv, vars, IInv, TypeOK, Indices, Descriptors, ShellOwn,
       WriteEnds, ReadEnds, ShellClean, RInv, ResultsKnown, InOrder, Reaping,
       LoopLeft, StatusKept, Started, BaseTable
  <2>2. ShellPipes'
    BY <1>3 DEF PInv, WInv, vars, ShellPipes
  <2>3. \A i \in Stages : ChildTable(i)'
    BY <1>3, ChildTableKept DEF PInv, WInv, vars
  <2>4. QED
    BY <2>1, <2>2, <2>3 DEF WInv
<1>4. QED
  BY <1>1, <1>2, <1>3 DEF Next

LEMMA AppliedIsRedirected ==
  ASSUME IInv, WInv, NEW i \in Stages, NEW kind,
         st[i] \in {"forked", "wired", "run"}
  PROVE  /\ Applied(i, kind) => Redirected(i, kind)
         /\ st[i] = "run" => (Applied(i, kind) <=> Redirected(i, kind))
<1>1. line[i].redirs \in Seq(Redirections) /\ redirs[i] \in Seq(Redirections)
  BY DEF IInv, TypeOK, LineType
<1> DEFINE all == Len(line[i].redirs)
           left == Len(redirs[i])
<1>2. all \in Nat /\ left \in Nat /\ Taken(i) = all - left
  BY <1>1 DEF Taken
<1> HIDE DEF all, left
<1>3. Taken(i) <= all /\ Taken(i) \in Int
  BY <1>2
<1>4. st[i] = "run" => Taken(i) = all
  <2>1. st[i] = "run" => redirs[i] = <<>>
    BY DEF WInv, ChildTable, RedirsInOrder
  <2>2. redirs[i] = <<>> => left = 0
    BY DEF left
  <2>3. QED
    BY <1>2, <2>1, <2>2
<1>5. Redirected(i, kind) <=> \E n \in 1..all : line[i].redirs[n] = kind
  BY DEF Redirected, all
<1>6. QED
  BY <1>2, <1>3, <1>4, <1>5 DEF Applied

LEMMA WiredWhenRunning == IInv /\ WInv => StagesWired
<1> SUFFICES ASSUME IInv, WInv, NEW i \in Stages, st[i] = "run"
             PROVE  /\ fds[i][0] = IF Redirected(i, "in") THEN File
                                   ELSE IF i = 1 THEN Inherited ELSE R(i - 1)
                    /\ fds[i][1] = IF Mute(i) THEN Closed
                                   ELSE IF Redirected(i, "out") THEN File
                                   ELSE IF i = N THEN Inherited ELSE W(i)
                    /\ \A f \in Fd \ {0, 1} :
                         fds[i][f] \in {Closed, Inherited, R(i)}
  BY DEF StagesWired
<1>1. PlumbedTable(i)
  BY DEF WInv, ChildTable
<1>2. /\ Applied(i, "in") <=> Redirected(i, "in")
      /\ Applied(i, "out") <=> Redirected(i, "out")
  BY AppliedIsRedirected
<1>3. QED
  BY <1>1, <1>2 DEF PlumbedTable

THEOREM Wiring == Spec => []PInv
  BY InitIInv, InitRInv, InitWInv, StepPInv, PTL DEF Spec, PInv

(* Every program runs with the pipe of the stage before it on 0 and its own  *)
(* on 1, or the file of the last redirection of either, and holds no other   *)
(* pipe end than the read end of its own pipe: for pipelines of any length,  *)
(* whatever descriptors besides 0 the shell was started with, whatever       *)
(* numbers pipe() and open() hand out for that, and whichever stage plumbs   *)
(* first.  A shell started without 1 is the exception the code has: every    *)
(* second stage gets its input as 1 and loses its output when it closes it,  *)
(* and no redirection can give one to these stages nor to the last.          *)
THEOREM StagesAreWired == Spec => []StagesWired
<1>1. PInv => StagesWired
  BY WiredWhenRunning DEF PInv
<1>2. QED
  BY <1>1, Wiring, PTL

-----------------------------------------------------------------------------
(* What goes through the pipes.                                              *)

(* A copying program wants input when it starts.                             *)
ReadsFirst ==
  \A i \in Stages : (st[i] \in {"forked", "wired"} /\ line[i].prog = "filter")
                    => reading[i]

(* Every stage before the current one was forked.                            *)
NoGap == \A i \in Stages : i < index => st[i] # "none"

(* A stage is reaped in its turn.                                            *)
ReapedInTurn == \A i \in Stages : st[i] = "reaped" => i < reap

FlowInv == PInv /\ ReadsFirst /\ NoGap /\ ReapedInTurn /\ SawEverything

LEMMA ObjectKinds ==
  ASSUME NEW o \in Objects
  PROVE  /\ IsRead(o) => PipeOf(o) \in Stages /\ o = R(PipeOf(o))
         /\ IsWrite(o) => PipeOf(o) \in Stages /\ o = W(PipeOf(o))
         /\ \A j : o = R(j) => IsRead(o) /\ PipeOf(o) = j
         /\ \A j : o = W(j) => IsWrite(o) /\ PipeOf(o) = j
         /\ (o \in {Inherited, File, Closed}) => ~IsRead(o) /\ ~IsWrite(o)
  BY DEF Objects, IsRead, IsWrite, PipeOf, R, W, Inherited, File, Closed

(* What keeps a stage off its own pipe.                                      *)
Elsewhere(i) == Redirected(i, "out") \/ Mute(i)

(* Only the stage itself writes to its pipe, and only on a descriptor 1 that *)
(* was not redirected or closed; only the next stage reads it.               *)
LEMMA OwnPipeOnly ==
  ASSUME IInv, WInv, NEW i \in Stages, st[i] = "run"
  PROVE  /\ IsWrite(fds[i][1]) => /\ PipeOf(fds[i][1]) = i /\ i # N
                                  /\ fds[i][1] = W(i)
                                  /\ ~Elsewhere(i)
         /\ IsRead(fds[i][0]) => /\ i # 1 /\ PipeOf(fds[i][0]) = i - 1
                                 /\ fds[i][0] = R(i - 1)
<1>1. fds[i][0] \in Objects /\ fds[i][1] \in Objects
  BY Basics DEF IInv, TypeOK
<1>2. StagesWired
  BY WiredWhenRunning
<1>3. /\ fds[i][0] = IF Redirected(i, "in") THEN File
                     ELSE IF i = 1 THEN Inherited ELSE R(i - 1)
      /\ fds[i][1] = IF Mute(i) THEN Closed
                     ELSE IF Redirected(i, "out") THEN File
                     ELSE IF i = N THEN Inherited ELSE W(i)
  BY <1>2 DEF StagesWired
<1>4. QED
  BY <1>1, <1>3, ObjectKinds DEF Elsewhere

(* A pipe whose write end nobody holds has no writer left to come.           *)
LEMMA WriterGone ==
  ASSUME PInv, NoGap, NEW i \in Stages \ {1}, st[i] # "none",
         Holders(W(i - 1)) = {}
  PROVE  Over(i - 1) \/ Elsewhere(i - 1)
<1> DEFINE j == i - 1
<1>1. j \in Stages /\ j # N /\ j < i /\ i \in Int /\ j \in Procs
  BY SizesAssumption DEF Stages, Procs
<1>2. /\ st \in [Stages -> StageStates] /\ index \in 1..(N + 1)
      /\ fds \in [Procs -> [Fd -> Objects]] /\ N \in Nat
  BY SizesAssumption DEF PInv, IInv, TypeOK
<1>3. j < index
  <2>1. i <= Started
    BY DEF PInv, RInv, InOrder
  <2>2. Started \in Int /\ Started <= index
    BY <1>2 DEF Started
  <2>3. QED
    BY <1>1, <1>2, <2>1, <2>2
<1> HIDE DEF j
<1>4. st[j] # "none"
  BY <1>1, <1>3 DEF NoGap
<1>5. \A f \in Fd : fds[j][f] # W(j)
  BY <1>1 DEF Holders, j
<1>6. st[j] # "forked"
  <2>1. CASE st[j] = "forked"
    BY <1>1, <1>5, <2>1 DEF PInv, WInv, ChildTable, ForkedTable
  <2>2. QED
    BY <2>1
<1>7. st[j] \in {"wired", "run"} => Applied(j, "out") \/ Mute(j)
  BY <1>1, <1>5, Basics DEF PInv, WInv, ChildTable, PlumbedTable
<1>8. st[j] \in {"wired", "run"} => Elsewhere(j)
  BY <1>1, <1>7, AppliedIsRedirected DEF PInv, Elsewhere
<1>9. Over(j) \/ Elsewhere(j)
  BY <1>1, <1>2, <1>4, <1>6, <1>8 DEF Over, StageStates
<1>10. QED
  BY <1>9 DEF j

LEMMA StageStepSaw ==
  ASSUME FlowInv, NEW i \in Stages, StageStep(i)
  PROVE  SawEverything'
<1>1. /\ IInv /\ RInv /\ WInv /\ PInv /\ SawEverything /\ ReadsFirst /\ NoGap
      /\ fds \in [Procs -> [Fd -> Objects]] /\ st \in [Stages -> StageStates]
      /\ reading \in [Stages -> BOOLEAN] /\ buf \in [Stages -> 0..Cap]
      /\ i \in Procs /\ Cap \in Nat
  BY Basics, SizesAssumption DEF FlowInv, PInv, IInv, TypeOK
<1>2. /\ base' = base /\ line' = line /\ st[i] \in {"forked", "wired", "run"}
      /\ \A j \in Stages \ {i} : st'[j] = st[j]
  BY <1>1, StageChanges DEF shellVars
<1>3. \A j \in Stages \ {i} : fds'[j] = fds[j] /\ reading'[j] = reading[j]
  <2>1. \A j \in Stages \ {i} : fds'[j] = fds[j]
    BY <1>1, StageFrame, Basics DEF OwnTableOnly
  <2>2. \A j \in Stages \ {i} : reading'[j] = reading[j]
    BY <1>1 DEF StageStep, Plumb, Redirect, RedirectFails, Exec, Write,
       WriteFails, BrokenPipe, Read, EndOfFile, Exit, stageVars
  <2>3. QED
    BY <2>1, <2>2
<1>4. SUFFICES ASSUME NEW j \in Stages \ {1}, st'[j] = "run",
                      line[j].prog = "filter", ~reading'[j],
                      fds'[j][0] = R(j - 1)
               PROVE  /\ buf'[j - 1] = 0
                      /\ Over(j - 1)' \/ Elsewhere(j - 1)
  <2>1. \A j \in Stages : /\ Redirected(j - 1, "out")' = Redirected(j - 1, "out")
                         /\ Mute(j - 1)' = Mute(j - 1)
    BY <1>2 DEF Redirected, Mute
  <2>2. QED
    BY <1>2, <2>1 DEF SawEverything, Elsewhere
<1>5. j - 1 \in Stages /\ j # j - 1 /\ j \in Int
  BY SizesAssumption DEF Stages
<1>6. Over(j - 1) => Over(j - 1)'
  BY <1>2, <1>5 DEF Over
<1>7. (buf[j - 1] = 0 /\ (Over(j - 1) \/ Elsewhere(j - 1)))
        => buf'[j - 1] = 0
  <2> SUFFICES ASSUME buf[j - 1] = 0, Over(j - 1) \/ Elsewhere(j - 1)
               PROVE  buf'[j - 1] = 0
    OBVIOUS
  <2>1. CASE Write(i)
    <3>1. IsWrite(fds[i][1]) => PipeOf(fds[i][1]) = i /\ ~Elsewhere(i)
      BY <1>1, <2>1, OwnPipeOnly DEF Write
    <3>2. i = j - 1 => ~IsWrite(fds[i][1])
      BY <1>2, <3>1 DEF Over
    <3>3. buf' = buf \/ (IsWrite(fds[i][1]) /\ buf' = [buf EXCEPT ![i] = @ + 1])
      BY <2>1, <3>1 DEF Write
    <3>4. QED
      BY <1>1, <1>5, <3>2, <3>3
  <2>2. CASE Read(i)
    <3>1. PICK k : buf[k] > 0 /\ buf' = [buf EXCEPT ![k] = buf[k] - 1]
      BY <2>2 DEF Read
    <3>2. k # j - 1
      BY <3>1
    <3>3. QED
      BY <1>1, <1>5, <3>1, <3>2
  <2>3. CASE ~Write(i) /\ ~Read(i)
    BY <2>3 DEF StageStep, Plumb, Redirect, RedirectFails, Exec, WriteFails,
                BrokenPipe, EndOfFile, Exit, stageVars
  <2>4. QED
    BY <2>1, <2>2, <2>3
<1>8. CASE j # i
  <2>1. buf[j - 1] = 0 /\ (Over(j - 1) \/ Elsewhere(j - 1))
    BY <1>1, <1>2, <1>3, <1>4, <1>8 DEF SawEverything, Elsewhere
  <2>2. QED
    BY <1>6, <1>7, <2>1
<1>9. CASE j = i
  <2>1. CASE Write(i)
    <3>1. UNCHANGED <<st, fds, reading>>
      BY <2>1 DEF Write
    <3>2. buf[j - 1] = 0 /\ (Over(j - 1) \/ Elsewhere(j - 1))
      BY <1>1, <1>4, <3>1 DEF SawEverything, Elsewhere
    <3>3. QED
      BY <1>6, <1>7, <3>2
  <2>2. CASE EndOfFile(i)
    <3>1. UNCHANGED <<st, fds, buf>> /\ st[i] = "run"
      BY <2>2 DEF EndOfFile
    <3>2. fds[i][0] \in Objects /\ fds[i][0] = R(j - 1)
      BY <1>1, <1>4, <1>9, <3>1, Basics
    <3>3. IsRead(fds[i][0]) /\ PipeOf(fds[i][0]) = j - 1
      BY <3>2, ObjectKinds
    <3>4. buf[j - 1] = 0 /\ Holders(W(j - 1)) = {}
      BY <2>2, <3>3 DEF EndOfFile
    <3>5. Over(j - 1) \/ Elsewhere(j - 1)
      BY <1>1, <1>9, <3>1, <3>4, WriterGone
    <3>6. QED
      BY <1>6, <3>1, <3>4, <3>5
  <2>3. CASE Read(i) \/ Exec(i)
    <3>1. reading'[i]
      BY <1>1, <1>4, <1>9, <2>3 DEF Read, Exec, ReadsFirst, stageVars
    <3>2. QED
      BY <1>4, <1>9, <3>1
  <2>4. CASE Plumb(i) \/ Redirect(i) \/ RedirectFails(i) \/ WriteFails(i)
             \/ BrokenPipe(i) \/ Exit(i)
    <3>1. st'[i] # "run"
      BY <1>1, <2>4 DEF Plumb, Redirect, RedirectFails, WriteFails,
                        BrokenPipe, Exit, Ends
    <3>2. QED
      BY <1>4, <1>9, <3>1
  <2>5. QED
    BY <2>1, <2>2, <2>3, <2>4 DEF StageStep
<1>10. QED
  BY <1>8, <1>9

LEMMA ShellStepSaw ==
  ASSUME FlowInv, ShellStep
  PROVE  SawEverything'
<1>1. /\ st \in [Stages -> StageStates] /\ SawEverything /\ RInv
      /\ fds \in [Procs -> [Fd -> Objects]]
      /\ reading \in [Stages -> BOOLEAN]
  BY DEF FlowInv, PInv, IInv, TypeOK
<1>2. base' = base /\ line' = line /\ buf' = buf
  BY DEF ShellStep, LastStage, MakePipe, PipeFails, Fork, ForkFails, CloseInput,
     CloseOutput, GiveUp, Advance, AfterLoop, WaitChild, Return, stageVars
<1>3. ASSUME NEW j \in Stages, st'[j] = "run"
      PROVE  st[j] = "run" /\ fds'[j] = fds[j] /\ reading'[j] = reading[j]
  <2>1. CASE Fork
    <3>1. index \in Stages
      BY <2>1 DEF Fork, FlowInv, PInv, IInv, Indices, Loop
    <3>2. QED
      BY <1>1, <1>3, <2>1, <3>1, Basics DEF Fork
  <2>2. CASE WaitChild
    BY <1>1, <1>3, <2>2 DEF WaitChild, stageVars
  <2>3. CASE ~Fork /\ ~WaitChild
    <3>1. UNCHANGED <<st, reading>>
      BY <2>3 DEF ShellStep, LastStage, MakePipe, PipeFails, ForkFails,
         CloseInput, CloseOutput, GiveUp, Advance, AfterLoop, Return, stageVars
    <3>2. fds'[j] = fds[j]
      BY <1>1, <2>3, Basics
         DEF ShellStep, LastStage, MakePipe, PipeFails, ForkFails, CloseInput,
         CloseOutput, GiveUp, Advance, AfterLoop, Return
    <3>3. QED
      BY <1>3, <3>1, <3>2
  <2>4. QED
    BY <2>1, <2>2, <2>3
<1>4. ASSUME NEW j \in Stages, Over(j) PROVE Over(j)'
  <2>1. CASE Fork
    <3>1. index \in Stages /\ pc = "fork"
      BY <2>1 DEF Fork, FlowInv, PInv, IInv, Indices, Loop
    <3>2. j # index
      <4>1. st[index] = "none"
        <5>1. st[index] # "none" => index <= index - 1
          BY <1>1, <3>1 DEF RInv, InOrder, Started
        <5>2. QED
          BY <3>1, <5>1 DEF Stages
      <4>2. QED
        BY <1>4, <4>1 DEF Over
    <3>3. QED
      BY <1>1, <1>4, <2>1, <3>1, <3>2 DEF Fork, Over
  <2>2. CASE WaitChild
    BY <1>1, <1>4, <2>2 DEF WaitChild, Over
  <2>3. CASE ~Fork /\ ~WaitChild
    BY <1>4, <2>3 DEF ShellStep, LastStage, MakePipe, PipeFails, ForkFails,
       CloseInput, CloseOutput, GiveUp, Advance, AfterLoop, Return, stageVars,
       Over
  <2>4. QED
    BY <2>1, <2>2, <2>3
<1>5. \A j \in Stages \ {1} : j - 1 \in Stages
  BY SizesAssumption DEF Stages
<1>6. \A j \in Stages : /\ Redirected(j - 1, "out")' = Redirected(j - 1, "out")
                       /\ Mute(j - 1)' = Mute(j - 1)
  BY <1>2 DEF Redirected, Mute
<1>7. QED
  BY <1>1, <1>2, <1>3, <1>4, <1>5, <1>6 DEF SawEverything

LEMMA StepOrder ==
  ASSUME FlowInv, [Next]_vars
  PROVE  ReadsFirst' /\ NoGap' /\ ReapedInTurn'
<1>1. /\ ReadsFirst /\ NoGap /\ ReapedInTurn /\ RInv /\ N \in Nat
      /\ st \in [Stages -> StageStates] /\ reading \in [Stages -> BOOLEAN]
      /\ index \in 1..(N + 1) /\ reap \in 1..(N + 1)
      /\ pc \in Loop => index \in Stages
      /\ pc = "wait" => reap < index
  BY SizesAssumption DEF FlowInv, PInv, IInv, TypeOK, Indices
<1>2. ASSUME NEW i \in Stages, StageStep(i)
      PROVE  ReadsFirst' /\ NoGap' /\ ReapedInTurn'
  <2>1. /\ UNCHANGED <<line, index, reap>>
        /\ st[i] \in {"forked", "wired", "run"}
        /\ st'[i] \in {"forked", "wired", "run", "zombie"}
        /\ \A j \in Stages \ {i} : st'[j] = st[j]
    BY <1>1, <1>2, StageChanges DEF FlowInv, PInv, shellVars
  <2>2. NoGap' /\ ReapedInTurn'
    BY <1>1, <2>1 DEF NoGap, ReapedInTurn
  <2>3. \A j \in Stages \ {i} : reading'[j] = reading[j]
    BY <1>1, <1>2 DEF StageStep, Plumb, Redirect, RedirectFails, Exec, Write,
       WriteFails, BrokenPipe, Read, EndOfFile, Exit, stageVars
  <2>4. st'[i] \in {"forked", "wired"} =>
          st[i] \in {"forked", "wired"} /\ reading'[i] = reading[i]
    BY <1>1, <1>2 DEF StageStep, Plumb, Redirect, RedirectFails, Exec, Write,
       WriteFails, BrokenPipe, Read, EndOfFile, Exit, Ends, stageVars
  <2>5. QED
    BY <1>1, <2>1, <2>2, <2>3, <2>4 DEF ReadsFirst
<1>3. CASE Fork
  <2>1. index \in Stages /\ UNCHANGED <<line, index, reap>>
    BY <1>1, <1>3 DEF Fork, Loop
  <2>2. /\ st' = [st EXCEPT ![index] = "forked"]
        /\ reading' = [reading EXCEPT ![index] =
                         line[index].prog \in {"filter", "head"}]
    BY <1>3 DEF Fork
  <2>3. QED
    BY <1>1, <2>1, <2>2 DEF ReadsFirst, NoGap, ReapedInTurn
<1>4. CASE Advance
  <2>1. /\ UNCHANGED <<line, st, reading, reap>> /\ index' = index + 1
        /\ st[index] # "none"
    BY <1>4 DEF Advance, stageVars
  <2>2. \A i \in Stages : i < index' => i < index \/ i = index
    BY <1>1, <2>1 DEF Stages
  <2>3. QED
    BY <1>1, <2>1, <2>2 DEF ReadsFirst, NoGap, ReapedInTurn
<1>5. CASE WaitChild
  <2>1. /\ UNCHANGED <<line, reading, index>> /\ reap' = reap + 1
        /\ st' = [st EXCEPT ![reap] = "reaped"]
    BY <1>5 DEF WaitChild, stageVars
  <2>2. \A i \in Stages : i <= reap => i < reap'
    BY <1>1, <2>1 DEF Stages
  <2>3. \A i \in Stages : i < reap => i < reap'
    BY <1>1, <2>1 DEF Stages
  <2>4. reap \in Int
    BY <1>1
  <2>5. QED
    BY <1>1, <2>1, <2>2, <2>3, <2>4 DEF ReadsFirst, NoGap, ReapedInTurn
<1>6. CASE ShellStep /\ ~Fork /\ ~Advance /\ ~WaitChild
  BY <1>1, <1>6 DEF ShellStep, LastStage, MakePipe, PipeFails, ForkFails,
     CloseInput, CloseOutput, GiveUp, AfterLoop, Return, stageVars,
     ReadsFirst, NoGap, ReapedInTurn
<1>7. CASE UNCHANGED vars
  BY <1>1, <1>7 DEF vars, ReadsFirst, NoGap, ReapedInTurn
<1>8. QED
  BY <1>2, <1>3, <1>4, <1>5, <1>6, <1>7 DEF Next

LEMMA StepFlow == FlowInv /\ [Next]_vars => FlowInv'
<1> SUFFICES ASSUME FlowInv, [Next]_vars PROVE FlowInv'
  OBVIOUS
<1>1. PInv' /\ ReadsFirst' /\ NoGap' /\ ReapedInTurn'
  BY StepPInv, StepOrder DEF FlowInv
<1>2. SawEverything'
  <2>1. CASE UNCHANGED vars
    BY <2>1 DEF vars, FlowInv, SawEverything, Over, Redirected, Mute
  <2>2. QED
    BY <2>1, StageStepSaw, ShellStepSaw DEF Next
<1>3. QED
  BY <1>1, <1>2 DEF FlowInv

LEMMA InitFlow == Init => FlowInv
<1> SUFFICES ASSUME Init PROVE FlowInv
  OBVIOUS
<1>1. PInv
  BY InitIInv, InitRInv, InitWInv DEF PInv
<1>2. \A i \in Stages : st[i] = "none"
  BY DEF Init
<1>3. ReadsFirst /\ ReapedInTurn /\ SawEverything
  BY <1>2 DEF ReadsFirst, ReapedInTurn, SawEverything
<1>4. NoGap
  BY DEF Init, NoGap, Stages
<1>5. QED
  BY <1>1, <1>3, <1>4 DEF FlowInv

THEOREM Flowing == Spec => []FlowInv
  BY InitFlow, StepFlow, PTL DEF Spec

(* End-of-file is never early: a stage that copies its input has stopped     *)
(* only if everything written to its pipe has been read and no process that  *)
(* could write more is left, in pipelines of any length over pipes of any    *)
(* capacity.                                                                 *)
THEOREM NothingIsLost == Spec => []SawEverything
<1>1. FlowInv => SawEverything
  BY DEF FlowInv
<1>2. QED
  BY <1>1, Flowing, PTL

-----------------------------------------------------------------------------
(* What a pipeline that hangs hangs on.                                      *)

LEMMA ReaderIsNotStuck ==
  ASSUME FlowInv, Stuck
  PROVE  \A i \in Stages : ~BlockedReading(i)
<1> DEFINE B == {i \in Stages : BlockedReading(i)}
<1> SUFFICES ASSUME B # {} PROVE FALSE
  OBVIOUS
<1>1. B \subseteq Nat
  BY DEF Stages
<1>2. PICK i \in B : \A j \in B : i <= j
  BY <1>1, LeastExists
<1>3. BlockedReading(i) /\ i \in Stages
  BY <1>2
<1>4. /\ i # 1 /\ PipeOf(fds[i][0]) = i - 1 /\ st[i] = "run"
  BY <1>3, OwnPipeOnly DEF BlockedReading, FlowInv, PInv
<1> DEFINE j == i - 1
<1>5. j \in Stages /\ j < i /\ i \in Int /\ j # Shell /\ j \in Procs
  BY <1>4, <1>3, SizesAssumption DEF Stages, Shell, Procs
<1>6. buf[j] = 0 /\ Holders(W(j)) # {}
  BY <1>3, <1>4 DEF BlockedReading
<1> HIDE DEF j
<1>7. \E f \in Fd : fds[j][f] = W(j)
  <2>1. PICK p \in Procs, f \in Fd : fds[p][f] = W(j)
    BY <1>6 DEF Holders
  <2>2. pc = "wait"
    BY DEF Stuck
  <2>3. p = j
    BY <1>5, <2>1, <2>2 DEF FlowInv, PInv, IInv, WriteEnds
  <2>4. QED
    BY <2>1, <2>3
<1>8. st[j] \notin {"none", "zombie", "reaped"}
  <2>1. CASE st[j] \in {"none", "zombie", "reaped"}
    <3>1. fds[j] = EmptyTable
      BY <1>5, <2>1 DEF FlowInv, PInv, WInv, ChildTable, NoTable
    <3>2. QED
      BY <1>7, <3>1, ObjectsDiffer DEF EmptyTable
  <2>2. QED
    BY <2>1
<1>9. ~BlockedWriting(j)
  <2>1. CASE BlockedWriting(j)
    <3>1. PipeOf(fds[j][1]) = j
      BY <1>5, <2>1, OwnPipeOnly DEF BlockedWriting, FlowInv, PInv
    <3>2. QED
      BY <1>6, <2>1, <3>1, SizesAssumption DEF BlockedWriting
  <2>2. QED
    BY <2>1
<1>10. BlockedReading(j)
  BY <1>5, <1>8, <1>9 DEF Stuck
<1>11. j \in B
  BY <1>5, <1>10
<1> HIDE DEF B
<1>12. i <= j
  BY <1>2, <1>11
<1>13. QED
  BY <1>5, <1>12, SizesAssumption DEF Stages

LEMMA StuckWriter ==
  ASSUME FlowInv, Stuck
  PROVE  \E i \in Stages : BlockedWriting(i) /\ Holders(R(i)) = {i}
<1> DEFINE B == {i \in Stages : BlockedWriting(i)}
           Up == {N - i : i \in B}
<1>1. /\ N \in Nat /\ reap \in 1..(N + 1) /\ index \in 1..(N + 1)
      /\ pc = "wait" /\ reap < index
  BY SizesAssumption DEF FlowInv, PInv, IInv, TypeOK, Indices, Stuck
<1>2. reap \in Stages
  BY <1>1 DEF Stages
<1>3. BlockedWriting(reap)
  <2>1. st[reap] # "none"
    BY <1>1, <1>2 DEF FlowInv, NoGap
  <2>2. st[reap] # "reaped"
    BY <1>1, <1>2 DEF FlowInv, ReapedInTurn
  <2>3. st[reap] # "zombie"
    BY DEF Stuck
  <2>4. QED
    BY <1>2, <2>1, <2>2, <2>3, ReaderIsNotStuck DEF Stuck
<1>4. B \subseteq Stages /\ B # {}
  BY <1>2, <1>3
<1>5. Up \subseteq Nat /\ Up # {}
  BY <1>1, <1>4 DEF Stages
<1>6. PICK d \in Up : \A e \in Up : d <= e
  <2> HIDE DEF Up
  <2>1. QED
    BY <1>5, LeastExists
<1>7. PICK i \in B : d = N - i
  BY <1>6
<1>8. ASSUME NEW j \in B PROVE j <= i
  <2>1. d <= N - j
    BY <1>6, <1>8
  <2>2. QED
    BY <1>1, <1>4, <1>7, <2>1 DEF Stages
<1>9. i \in Stages /\ BlockedWriting(i)
  BY <1>7
<1>10. ~BlockedWriting(i + 1) \/ i + 1 \notin Stages
  <2>1. CASE i + 1 \in B
    <3>1. i + 1 <= i
      BY <1>8, <2>1
    <3>2. QED
      BY <1>9, <3>1 DEF Stages
  <2>2. QED
    BY <2>1
<1> HIDE DEF B, Up
<1>11. PipeOf(fds[i][1]) = i /\ Holders(R(i)) # {}
  <2>1. IsWrite(fds[i][1]) /\ st[i] = "run"
    BY <1>9 DEF BlockedWriting
  <2>2. PipeOf(fds[i][1]) = i
    BY <1>9, <2>1, OwnPipeOnly DEF FlowInv, PInv
  <2>3. QED
    BY <1>9, <2>2 DEF BlockedWriting
<1>12. ASSUME NEW p \in Holders(R(i)) PROVE p = i
  <2>1. PICK f \in Fd : fds[p][f] = R(i)
    BY <1>12 DEF Holders
  <2>2. p \in {i, i + 1}
    BY <1>1, <1>9, <1>12, <2>1
       DEF FlowInv, PInv, IInv, ReadEnds, Holders
  <2>3. ASSUME p = i + 1 PROVE FALSE
    <3>1. i + 1 \in Stages
      BY <1>1, <1>9, <1>12, <2>3 DEF Holders, Procs, Stages
    <3>2. st[i + 1] \notin {"none", "zombie", "reaped"}
      <4>1. CASE st[i + 1] \in {"none", "zombie", "reaped"}
        <5>1. fds[p] = EmptyTable
          BY <2>3, <3>1, <4>1 DEF FlowInv, PInv, WInv, ChildTable, NoTable
        <5>2. QED
          BY <2>1, <5>1, ObjectsDiffer DEF EmptyTable
      <4>2. QED
        BY <4>1
    <3>3. QED
      BY <1>10, <3>1, <3>2, ReaderIsNotStuck DEF Stuck
  <2>4. QED
    BY <2>2, <2>3
<1>13. Holders(R(i)) = {i}
  BY <1>11, <1>12
<1>14. QED
  BY <1>9, <1>13

(* A pipeline of any length that waits for ever hangs on a stage blocked     *)
(* writing a pipe whose read end only it holds: what run_pipeline_stages     *)
(* leaves open in a child is the only way to hang.  No stage is blocked      *)
(* reading, for the one before it would be too, and so on up to the first,   *)
(* which reads no pipe; and the last blocked writer has no reader left.      *)
THEOREM HangsOnOwnReadEnd == Spec => []StuckOnlyOnOwnReadEnd
<1>1. FlowInv => StuckOnlyOnOwnReadEnd
  BY StuckWriter DEF StuckOnlyOnOwnReadEnd
<1>2. QED
  BY <1>1, Flowing, PTL
=============================================================================
