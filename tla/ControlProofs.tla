---------------------------- MODULE ControlProofs ----------------------------
(* What holds of Control for every set of lines, every set of statuses and  *)
(* any number of lines.                                                     *)
EXTENDS Control, TLAPS

(* The groups of variables that most steps leave alone.                     *)
USE DEF shell, position, history

-----------------------------------------------------------------------------
(* Types.                                                                   *)

(* A line that is not over is one of those that may be parsed.              *)
Known ==
  /\ program \in Programs \cup {<<>>}
  /\ pc \in {"heredocs", "head", "more", "finish"} => program \in Programs
  /\ pc \in {"head", "more", "finish"} => list \in 1..Len(program)
  /\ pc \in {"more", "finish"} => node \in 1..Len(program[list].pipelines)
  /\ pc = "heredocs" => program # <<>>

(* TypeOK but for the one variable that is a truth value.                   *)
Numbers ==
  /\ pc \in Points
  /\ program \in Seq(AndOrLists)
  /\ list \in Nat /\ node \in Nat
  /\ status \in 0..255 /\ lastStatus \in 0..255 /\ exitCode \in 0..255
  /\ env \in {0, 1}
  /\ seen \in [status : 0..255, env : {0, 1}]
  /\ \A p \in DOMAIN result : result[p] \in 0..255
  /\ latest \in Nat \X Nat
  /\ lines \in 0..MaxLines

TypeInv == Numbers /\ Known

LEMMA ProgramTypes ==
  ASSUME NEW p \in Programs
  PROVE  /\ p \in Seq(AndOrLists)
         /\ \A i \in 1..Len(p) :
              /\ p[i] \in AndOrLists
              /\ Len(p[i].pipelines) \in Nat \ {0}
              /\ Len(p[i].operators) = Len(p[i].pipelines) - 1
              /\ \A n \in 1..Len(p[i].pipelines) : p[i].pipelines[n] \in Kinds
              /\ \A n \in 1..Len(p[i].pipelines)-1 :
                   p[i].operators[n] \in Operators
<1>1. p \in Seq(AndOrLists)
  BY ProgramAssumption
<1>2. ASSUME NEW i \in 1..Len(p)
      PROVE  /\ p[i] \in AndOrLists
             /\ Len(p[i].pipelines) >= 1
             /\ Len(p[i].operators) = Len(p[i].pipelines) - 1
  BY <1>1, ProgramAssumption
<1>3. QED
  BY <1>1, <1>2 DEF AndOrLists

(* A pipeline that runs has a status, whatever it is, and is the latest.    *)
LEMMA RunTypes ==
  ASSUME Numbers, NEW i, NEW n, program[i].pipelines[n] \in Kinds, Run(i, n)
  PROVE  /\ status' \in 0..255 /\ env' \in {0, 1}
         /\ latest' = <<i, n>>
         /\ DOMAIN result' = DOMAIN result \cup {<<i, n>>}
         /\ result'[<<i, n>>] = status'
         /\ \A p \in DOMAIN result \ {<<i, n>>} : result'[p] = result[p]
<1>1. status' \in 0..255 /\ env' \in {0, 1}
  <2>1. CASE program[i].pipelines[n] = "command"
    BY <2>1, StatusAssumption DEF Run, Numbers
  <2>2. CASE program[i].pipelines[n] = "export"
    BY <2>2 DEF Run, Numbers
  <2>3. CASE program[i].pipelines[n] = "exit"
    <3>1. \A m \in ExitArgs : ExitStatus(m) \in 0..255
      BY StatusAssumption DEF ExitStatus
    <3>2. \/ status' \in {lastStatus, 1, 2}
          \/ \E m \in ExitArgs : status' = ExitStatus(m)
      BY <2>3 DEF Run, ExitStatuses
    <3>3. status' \in 0..255
      <4>1. CASE status' \in {lastStatus, 1, 2}
        BY <4>1 DEF Numbers
      <4>2. ASSUME NEW m \in ExitArgs, status' = ExitStatus(m)
            PROVE  status' \in 0..255
        BY <3>1, <4>2, Zenon
      <4>3. QED
        BY <3>2, <4>1, <4>2
    <3>4. UNCHANGED env
      BY <2>3 DEF Run
    <3>5. QED
      BY <3>3, <3>4 DEF Numbers
  <2>4. QED
    BY <2>1, <2>2, <2>3 DEF Kinds
<1>2. result' = [p \in DOMAIN result \cup {<<i, n>>} |->
                   IF p = <<i, n>> THEN status' ELSE result[p]]
  BY DEF Run
<1>3. latest' = <<i, n>>
  BY DEF Run
<1>4. QED
  BY <1>1, <1>2, <1>3

LEMMA TypesInit == Init => TypeInv
<1> SUFFICES ASSUME Init PROVE TypeInv
  OBVIOUS
<1> USE DEF Init
<1>1. <<>> \in Seq(AndOrLists) /\ MaxLines \in Nat
  BY ProgramAssumption
<1>2. DOMAIN result = {}
  BY DEF NoResult
<1>3. seen \in [status : 0..255, env : {0, 1}]
  BY DEF NotSeen
<1>4. latest \in Nat \X Nat
  BY DEF Nothing
<1>5. /\ pc \in Points /\ env \in {0, 1}
      /\ list \in Nat /\ node \in Nat /\ lines \in 0..MaxLines
      /\ status \in 0..255 /\ lastStatus \in 0..255 /\ exitCode \in 0..255
  BY <1>1 DEF Points
<1>6. Numbers
  BY <1>1, <1>2, <1>3, <1>4, <1>5 DEF Numbers
<1>7. Known
  BY DEF Known
<1>8. QED
  BY <1>6, <1>7 DEF TypeInv

LEMMA TypesStep == TypeInv /\ [Next]_vars => TypeInv'
<1> SUFFICES ASSUME TypeInv, [Next]_vars PROVE TypeInv'
  OBVIOUS
<1> USE DEF TypeInv, Numbers, Known, Points
<1>0. <<>> \in Seq(AndOrLists) /\ MaxLines \in Nat
  BY ProgramAssumption
<1>1. CASE ReadLine
  BY <1>1, <1>0, ProgramTypes DEF ReadLine
<1>2. CASE SyntaxError
  BY <1>2, <1>0 DEF SyntaxError
<1>3. CASE EndOfInput
  BY <1>3 DEF EndOfInput
<1>4. CASE Handled
  <2>1. CASE shouldExit
    BY <1>4, <2>1 DEF Handled
  <2>2. CASE ~shouldExit
    <3>1. DOMAIN NoResult = {} /\ Nothing \in Nat \X Nat
      BY DEF NoResult, Nothing
    <3>2. NotSeen \in [status : 0..255, env : {0, 1}]
      BY DEF NotSeen
    <3>3. QED
      BY <1>4, <1>0, <2>2, <3>1, <3>2 DEF Handled
  <2>3. QED
    BY <2>1, <2>2
<1>5. CASE EmptyProgram
  BY <1>5 DEF EmptyProgram
<1>6. CASE PrepareWords
  BY <1>6 DEF PrepareWords
<1>7. CASE PrepareHeredocs
  BY <1>7, <1>0 DEF PrepareHeredocs
<1>8. CASE HeredocFails
  BY <1>8 DEF HeredocFails
<1>9. CASE RunHead
  <2>1. /\ list \in 1..Len(program) /\ program \in Programs
        /\ Len(program[list].pipelines) \in Nat \ {0}
        /\ program[list].pipelines[1] \in Kinds
    <3>1. list \in 1..Len(program) /\ program \in Programs
      BY <1>9 DEF RunHead
    <3>2. QED
      BY <3>1, ProgramTypes
  <2>2. /\ status' \in 0..255 /\ env' \in {0, 1}
        /\ latest' = <<list, 1>>
        /\ DOMAIN result' = DOMAIN result \cup {<<list, 1>>}
        /\ result'[<<list, 1>>] = status'
        /\ \A p \in DOMAIN result \ {<<list, 1>>} : result'[p] = result[p]
    BY <1>9, <2>1, RunTypes DEF RunHead
  <2>3. \A p \in DOMAIN result' : result'[p] \in 0..255
    BY <2>2
  <2>4. QED
    BY <1>9, <2>1, <2>2, <2>3 DEF RunHead
<1>10. CASE Skip
  BY <1>10, ProgramTypes DEF Skip, List
<1>11. CASE RunNext
  <2>1. /\ list \in 1..Len(program) /\ program \in Programs
        /\ node + 1 \in 1..Len(program[list].pipelines)
        /\ program[list].pipelines[node + 1] \in Kinds
    BY <1>11, ProgramTypes DEF RunNext, List
  <2>2. /\ status' \in 0..255 /\ env' \in {0, 1}
        /\ latest' = <<list, node + 1>>
        /\ DOMAIN result' = DOMAIN result \cup {<<list, node + 1>>}
        /\ result'[<<list, node + 1>>] = status'
        /\ \A p \in DOMAIN result \ {<<list, node + 1>>} : result'[p] = result[p]
    BY <1>11, <2>1, RunTypes DEF RunNext
  <2>3. \A p \in DOMAIN result' : result'[p] \in 0..255
    BY <2>2
  <2>4. QED
    BY <1>11, <2>1, <2>2, <2>3 DEF RunNext
<1>12. CASE NextList
  BY <1>12, <1>0 DEF NextList, List
<1>13. CASE Finish
  BY <1>13 DEF Finish
<1>14. CASE UNCHANGED vars
  BY <1>14 DEF vars
<1>15. QED
  BY <1>1, <1>2, <1>3, <1>4, <1>5, <1>6, <1>7, <1>8, <1>9, <1>10, <1>11,
     <1>12, <1>13, <1>14 DEF Next

LEMMA FlagStep ==
  TypeInv /\ shouldExit \in BOOLEAN /\ [Next]_vars => (shouldExit \in BOOLEAN)'
<1> SUFFICES ASSUME TypeInv, shouldExit \in BOOLEAN, [Next]_vars
             PROVE  UNCHANGED shouldExit \/ shouldExit' = TRUE
  OBVIOUS
<1>1. ASSUME NEW i, NEW n, program[i].pipelines[n] \in Kinds, Run(i, n)
      PROVE  UNCHANGED shouldExit \/ shouldExit' = TRUE
  BY <1>1 DEF Run, Kinds
<1>2. CASE RunHead
  <2>1. program[list].pipelines[1] \in Kinds
    BY <1>2, ProgramTypes DEF RunHead, TypeInv, Known
  <2>2. QED
    BY <1>1, <1>2, <2>1 DEF RunHead
<1>3. CASE RunNext
  <2>1. program[list].pipelines[node + 1] \in Kinds
    BY <1>3, ProgramTypes DEF RunNext, List, TypeInv, Known
  <2>2. QED
    BY <1>1, <1>3, <2>1 DEF RunNext
<1>4. CASE [Next]_vars /\ ~RunHead /\ ~RunNext
  BY <1>4 DEF Next, vars, ReadLine, SyntaxError, EndOfInput, Handled,
              EmptyProgram, PrepareWords, PrepareHeredocs, HeredocFails, Skip,
              NextList, Finish
<1>5. QED
  BY <1>2, <1>3, <1>4

(* Every status the shell ever has is one that the operating system can     *)
(* report, whatever exit was given (executor.c, parent_state.c).            *)
THEOREM TypeCorrect == Spec => []TypeOK
<1>1. TypeInv /\ shouldExit \in BOOLEAN => TypeOK
  BY DEF TypeInv, Numbers, TypeOK
<1>2. Init => shouldExit \in BOOLEAN
  BY DEF Init
<1>3. QED
  BY TypesInit, TypesStep, FlagStep, <1>1, <1>2, PTL DEF Spec

-----------------------------------------------------------------------------
(* exit.                                                                    *)

ExitInv == shouldExit => pc \in {"finish", "handled", "exited"}

LEMMA ExitStep == ExitInv /\ [Next]_vars => ExitInv'
<1> SUFFICES ASSUME ExitInv, [Next]_vars PROVE ExitInv'
  OBVIOUS
<1>1. CASE ReadLine \/ SyntaxError \/ EndOfInput \/ Handled
  BY <1>1 DEF ExitInv, ReadLine, SyntaxError, EndOfInput, Handled
<1>2. CASE EmptyProgram \/ PrepareWords \/ PrepareHeredocs \/ HeredocFails
  BY <1>2 DEF ExitInv, EmptyProgram, PrepareWords, PrepareHeredocs,
              HeredocFails
<1>3. CASE RunHead \/ RunNext
  BY <1>3 DEF ExitInv, RunHead, RunNext
<1>4. CASE Skip \/ NextList \/ Finish
  BY <1>4 DEF ExitInv, Skip, NextList, Finish
<1>5. CASE UNCHANGED vars
  BY <1>5 DEF ExitInv, vars
<1>6. QED
  BY <1>1, <1>2, <1>3, <1>4, <1>5 DEF Next

(* Nothing of a line, nor of another, runs after exit (executor.c, main.c). *)
THEOREM ExitIsFinal == Spec => NothingAfterExit
<1>1. Init => ExitInv
  BY DEF Init, ExitInv
<1>2. ExitInv /\ [Next]_vars
        => [shouldExit => UNCHANGED <<history, lines>>]_vars
  BY DEF ExitInv, Next, ReadLine, SyntaxError, EndOfInput, Handled,
         EmptyProgram, PrepareWords, PrepareHeredocs, HeredocFails, RunHead,
         RunNext, Skip, NextList, Finish
<1>3. QED
  BY <1>1, <1>2, ExitStep, PTL DEF Spec, NothingAfterExit

-----------------------------------------------------------------------------
(* The status.                                                              *)

(* StatusOfLatest is about the end of a line; until then the status is a    *)
(* local one.                                                               *)
StatusInv ==
  /\ pc \in {"read", "parsed", "heredocs"} => latest = Nothing
  /\ (pc \in {"head", "more", "finish"} /\ latest # Nothing)
       => status = result[latest]
  /\ StatusOfLatest

LEMMA StatusStep == StatusInv /\ [Next]_vars => StatusInv'
<1> SUFFICES ASSUME StatusInv, [Next]_vars PROVE StatusInv'
  OBVIOUS
<1> USE DEF StatusInv, StatusOfLatest
<1>1. ASSUME NEW i, NEW n, Run(i, n)
      PROVE  latest' = <<i, n>> /\ status' = result'[latest']
  <2>1. latest' = <<i, n>>
    BY <1>1 DEF Run
  <2>2. result' = [p \in DOMAIN result \cup {<<i, n>>} |->
                     IF p = <<i, n>> THEN status' ELSE result[p]]
    BY <1>1 DEF Run
  <2>3. QED
    BY <2>1, <2>2
<1>2. CASE RunHead
  BY <1>1, <1>2 DEF RunHead
<1>3. CASE RunNext
  BY <1>1, <1>3 DEF RunNext
<1>4. CASE Skip \/ NextList \/ Finish
  BY <1>4 DEF Skip, NextList, Finish
<1>5. CASE ReadLine \/ SyntaxError \/ EndOfInput \/ Handled
  BY <1>5 DEF ReadLine, SyntaxError, EndOfInput, Handled
<1>6. CASE EmptyProgram \/ PrepareWords \/ PrepareHeredocs \/ HeredocFails
  BY <1>6 DEF EmptyProgram, PrepareWords, PrepareHeredocs, HeredocFails
<1>7. CASE UNCHANGED vars
  BY <1>7 DEF vars
<1>8. QED
  BY <1>2, <1>3, <1>4, <1>5, <1>6, <1>7 DEF Next

(* $? after a line is the status of the pipeline that ran last in it        *)
(* (executor.c), skipped ones and exit notwithstanding.                     *)
THEOREM LatestDecides == Spec => []StatusOfLatest
<1>1. Init => StatusInv
  BY DEF Init, StatusInv, StatusOfLatest
<1>2. StatusInv => StatusOfLatest
  BY DEF StatusInv
<1>3. QED
  BY <1>1, <1>2, StatusStep, PTL DEF Spec

-----------------------------------------------------------------------------
(* What runs.  That a status decides over the next node follows from its    *)
(* being the one of the last node that ran, and that a skipped node did not *)
(* run from its never having been looked at before.                         *)

OnlyVisited ==
  /\ pc \in {"read", "parsed", "heredocs"} => DOMAIN result = {}
  /\ Running => \A i, n \in Nat :
       Ran(i, n) => i <= list /\ n \in Visited(i)

StatusDecides ==
  pc = "more" =>
    \A m \in 1..node : (Ran(list, m) /\ \A k \in m+1..node : ~Ran(list, k))
                         => status = result[<<list, m>>]

CircuitInv == OnlyVisited /\ StatusDecides /\ ShortCircuit

(* A node stays decided while the nodes up to it keep what they had.        *)
LEMMA DecidedKept ==
  ASSUME NEW i \in Nat, NEW n \in Nat \ {0}, program' = program, Decided(i, n),
         \A k \in 1..n : /\ Ran(i, k)' <=> Ran(i, k)
                         /\ Ran(i, k) => result'[<<i, k>>] = result[<<i, k>>]
  PROVE  Decided(i, n)'
<1>1. CASE n = 1
  BY <1>1 DEF Decided
<1>2. CASE n # 1
  <2>1. ASSUME NEW m \in 1..n-1, IsLastBefore(i, m, n)'
        PROVE  (Ran(i, n) <=> Accepts(program[i].operators[n - 1],
                                      result[<<i, m>>]))'
    <3>1. IsLastBefore(i, m, n)
      BY <2>1 DEF IsLastBefore, Ran
    <3>2. Ran(i, m) /\ m \in 1..n
      BY <3>1 DEF IsLastBefore
    <3>3. result'[<<i, m>>] = result[<<i, m>>]
      BY <3>2
    <3>4. Ran(i, n) <=> Accepts(program[i].operators[n - 1], result[<<i, m>>])
      BY <1>2, <3>1 DEF Decided
    <3>5. Ran(i, n)' <=> Ran(i, n)
      BY DEF Ran
    <3>6. QED
      BY <3>3, <3>4, <3>5 DEF Accepts
  <2>2. QED
    BY <1>2, <2>1 DEF Decided
<1>3. QED
  BY <1>1, <1>2

LEMMA RunRecords ==
  ASSUME NEW i \in Nat, NEW n \in Nat, Run(i, n), ~Ran(i, n)
  PROVE  /\ \A j, k \in Nat : Ran(j, k)' <=> Ran(j, k) \/ (j = i /\ k = n)
         /\ \A j, k \in Nat : Ran(j, k) => result'[<<j, k>>] = result[<<j, k>>]
         /\ result'[<<i, n>>] = status'
  BY DEF Run, Ran

(* The nodes a step of list does not look at keep their decisions.          *)
LEMMA OthersKept ==
  ASSUME TypeInv, ShortCircuit, Running, program' = program,
         \A j, k \in Nat : Ran(j, k) => result'[<<j, k>>] = result[<<j, k>>],
         NEW i \in DOMAIN program, NEW n \in Visited(i),
         \A k \in 1..n : Ran(i, k)' <=> Ran(i, k)
  PROVE  Decided(i, n)'
<1>1. program \in Programs /\ list \in 1..Len(program) /\ node \in Nat
  BY DEF TypeInv, Numbers, Known, Running
<1>2. i \in Nat /\ Len(program[i].pipelines) \in Nat
  BY <1>1, ProgramTypes
<1>3. n \in Nat \ {0}
  BY <1>1, <1>2 DEF Visited
<1>4. Decided(i, n)
  BY DEF ShortCircuit
<1>5. \A k \in 1..n : Ran(i, k) => result'[<<i, k>>] = result[<<i, k>>]
  BY <1>2, <1>3
<1>6. QED
  BY <1>2, <1>3, <1>4, <1>5, DecidedKept

(* The first pipeline of a list.                                            *)
LEMMA HeadCircuit == TypeInv /\ CircuitInv /\ RunHead => CircuitInv'
<1> SUFFICES ASSUME TypeInv, CircuitInv, RunHead PROVE CircuitInv'
  OBVIOUS
<1>0. PICK l : l = list
  OBVIOUS
<1>1. /\ pc = "head" /\ Running /\ Run(l, 1) /\ node' = 1
      /\ program' = program /\ list = l /\ list' = l
      /\ pc' \in {"finish", "more"}
  BY <1>0 DEF RunHead, Running
<1>2. /\ program \in Programs /\ l \in 1..Len(program)
      /\ Len(program[l].pipelines) \in Nat \ {0}
  BY <1>1, ProgramTypes DEF TypeInv, Known
<1>3. \A k \in Nat : ~Ran(l, k)
  BY <1>1, <1>2 DEF CircuitInv, OnlyVisited, Visited
<1>4. /\ \A j, k \in Nat : Ran(j, k)' <=> Ran(j, k) \/ (j = l /\ k = 1)
      /\ \A j, k \in Nat : Ran(j, k) => result'[<<j, k>>] = result[<<j, k>>]
      /\ result'[<<l, 1>>] = status'
  BY <1>1, <1>2, <1>3, RunRecords
<1>5. /\ Visited(l)' = 1..1
      /\ \A i \in Nat : i < l => Visited(i)' = Visited(i)
      /\ \A i \in Nat : i > l => Visited(i)' = {}
  BY <1>1, <1>2 DEF Visited
<1>6. OnlyVisited'
  BY <1>1, <1>2, <1>3, <1>4, <1>5 DEF CircuitInv, OnlyVisited, Running, Ran
<1>7. StatusDecides'
  BY <1>1, <1>2, <1>3, <1>4 DEF StatusDecides, Ran
<1>8. ASSUME NEW i \in DOMAIN program, NEW n \in Visited(i)'
      PROVE  Decided(i, n)'
  <2>1. CASE i = l
    <3>1. n = 1
      BY <2>1, <1>5
    <3>2. Ran(l, 1)'
      BY <1>2, <1>4
    <3>3. QED
      BY <2>1, <3>1, <3>2 DEF Decided, Ran
  <2>2. CASE i # l
    <3>1. i \in Nat /\ i < l /\ n \in Visited(i) /\ Len(program[i].pipelines) \in Nat
      BY <2>2, <1>2, <1>5, ProgramTypes
    <3>2. \A k \in 1..n : Ran(i, k)' <=> Ran(i, k)
      BY <3>1, <1>2, <1>4 DEF Visited, Ran
    <3>3. QED
      BY <3>1, <3>2, <1>1, <1>4, OthersKept DEF CircuitInv
  <2>3. QED
    BY <2>1, <2>2
<1>9. QED
  BY <1>1, <1>6, <1>7, <1>8 DEF CircuitInv, ShortCircuit

(* A later pipeline, run or skipped: what decides over it is the status.    *)
LEMMA NodeDecided ==
  ASSUME TypeInv, CircuitInv, pc = "more", node < Len(List.pipelines),
         program' = program, NEW l, l = list, NEW o, o = node,
         \A k \in 1..o : Ran(l, k)' <=> Ran(l, k),
         \A k \in 1..o :
           Ran(l, k) => result'[<<l, k>>] = result[<<l, k>>],
         Ran(l, o + 1)' <=> ShouldRun(program[l].operators[o], status)
  PROVE  Decided(l, o + 1)'
<1>1. /\ program \in Programs /\ l \in 1..Len(program)
      /\ o \in Nat \ {0} /\ status \in 0..255
  BY DEF TypeInv, Numbers, Known
<1>2. program[l].operators[o] \in Operators
  BY <1>1, ProgramTypes DEF List
<1>3. ASSUME NEW m \in 1..o, IsLastBefore(l, m, o + 1)'
      PROVE  (Ran(l, o + 1) <=>
                Accepts(program[l].operators[o], result[<<l, m>>]))'
  <2>1. Ran(l, m)' /\ \A k \in m+1..o : ~Ran(l, k)'
    BY <1>1, <1>3 DEF IsLastBefore, Ran
  <2>2. Ran(l, m) /\ \A k \in m+1..o : ~Ran(l, k)
    BY <1>1, <2>1
  <2>3. status = result[<<l, m>>]
    BY <2>2 DEF CircuitInv, StatusDecides
  <2>4. status = result'[<<l, m>>]
    BY <2>2, <2>3
  <2>5. ShouldRun(program[l].operators[o], status)
          <=> Accepts(program[l].operators[o], status)
    BY <1>2 DEF ShouldRun, Accepts, Operators
  <2>6. QED
    BY <2>1, <2>4, <2>5, <1>1 DEF Accepts, Ran
<1>4. QED
  BY <1>1, <1>3 DEF Decided

LEMMA NextCircuit == TypeInv /\ CircuitInv /\ (RunNext \/ Skip) => CircuitInv'
<1> SUFFICES ASSUME TypeInv, CircuitInv, RunNext \/ Skip PROVE CircuitInv'
  OBVIOUS
<1>0. PICK l, o : l = list /\ o = node
  OBVIOUS
<1>1. /\ pc = "more" /\ Running /\ node = o /\ node' = o + 1
      /\ node < Len(List.pipelines) /\ List = program[l]
      /\ program' = program /\ list = l /\ list' = l
      /\ pc' \in {"finish", "more"}
  BY <1>0 DEF RunNext, Skip, Running, List
<1>2. /\ program \in Programs /\ l \in 1..Len(program)
      /\ o \in Nat \ {0} /\ Len(program[l].pipelines) \in Nat \ {0}
  BY <1>1, ProgramTypes DEF TypeInv, Known, Numbers
<1>3. \A k \in Nat : k > o => ~Ran(l, k)
  BY <1>1, <1>2 DEF CircuitInv, OnlyVisited, Visited
<1>4. /\ \A j, k \in Nat : (j # l \/ k # o + 1) =>
           (Ran(j, k)' <=> Ran(j, k))
      /\ \A j, k \in Nat : Ran(j, k) => result'[<<j, k>>] = result[<<j, k>>]
      /\ Ran(l, o + 1)' => result'[<<l, o + 1>>] = status'
      /\ ~Ran(l, o + 1)' => status' = status
      /\ Ran(l, o + 1)' <=> ShouldRun(program[l].operators[o], status)
  <2>1. CASE RunNext
    <3>1. Run(l, o + 1) /\ ShouldRun(program[l].operators[o], status)
      BY <2>1, <1>1 DEF RunNext
    <3>2. l \in Nat /\ o + 1 \in Nat /\ ~Ran(l, o + 1)
      BY <1>2, <1>3
    <3>3. /\ \A j, k \in Nat : Ran(j, k)' <=> Ran(j, k) \/ (j = l /\ k = o + 1)
          /\ \A j, k \in Nat : Ran(j, k) => result'[<<j, k>>] = result[<<j, k>>]
          /\ result'[<<l, o + 1>>] = status'
      BY <3>1, <3>2, RunRecords
    <3>4. Ran(l, o + 1)'
      BY <3>2, <3>3
    <3>5. QED
      BY <3>1, <3>3, <3>4
  <2>2. CASE Skip
    <3>1. /\ result' = result /\ status' = status
          /\ ~ShouldRun(program[l].operators[o], status)
      BY <2>2, <1>1 DEF Skip
    <3>2. QED
      BY <3>1, <1>2, <1>3 DEF Ran
  <2>3. QED
    BY <2>1, <2>2
<1>5. /\ Visited(l)' = 1..o + 1 /\ Visited(l) = 1..o
      /\ \A i \in Nat : i < l => Visited(i)' = Visited(i)
      /\ \A i \in Nat : i > l => Visited(i)' = {}
  BY <1>1, <1>2 DEF Visited
<1>6. OnlyVisited'
  <2>1. ASSUME NEW i \in Nat, NEW n \in Nat, Ran(i, n)'
        PROVE  i <= l /\ n \in Visited(i)'
    <3>1. CASE i = l /\ n = o + 1
      BY <3>1, <1>2, <1>5
    <3>2. CASE ~(i = l /\ n = o + 1)
      <4>1. Ran(i, n)
        BY <3>2, <2>1, <1>4
      <4>2. i <= l /\ n \in Visited(i)
        BY <4>1, <1>1 DEF CircuitInv, OnlyVisited
      <4>3. QED
        BY <4>2, <1>2, <1>5
    <3>3. QED
      BY <3>1, <3>2
  <2>2. QED
    BY <2>1, <1>1 DEF OnlyVisited, Ran
<1>7. StatusDecides'
  <2>1. ASSUME NEW m \in 1..o + 1, Ran(l, m)',
               \A k \in m+1..o+1 : ~Ran(l, k)'
        PROVE  status' = result'[<<l, m>>]
    <3>1. CASE m = o + 1
      BY <3>1, <2>1, <1>4
    <3>2. CASE m # o + 1
      <4>1. m \in 1..o /\ ~Ran(l, o + 1)'
        BY <3>2, <2>1, <1>2
      <4>2. Ran(l, m) /\ \A k \in m+1..o : ~Ran(l, k)
        BY <4>1, <2>1, <1>2, <1>4 DEF Ran
      <4>3. status = result[<<l, m>>]
        BY <4>1, <4>2, <1>1 DEF CircuitInv, StatusDecides
      <4>4. QED
        BY <4>1, <4>2, <4>3, <1>2, <1>4
    <3>3. QED
      BY <3>1, <3>2
  <2>2. QED
    BY <2>1, <1>1 DEF StatusDecides, Ran
<1>8. ASSUME NEW i \in DOMAIN program, NEW n \in Visited(i)'
      PROVE  Decided(i, n)'
  <2>1. CASE i = l /\ n = o + 1
    <3>1. /\ \A k \in 1..o : Ran(l, k)' <=> Ran(l, k)
          /\ \A k \in 1..o :
               Ran(l, k) => result'[<<l, k>>] = result[<<l, k>>]
      BY <1>2, <1>4
    <3>2. Decided(l, o + 1)'
      BY <3>1, <1>1, <1>4, NodeDecided
    <3>3. QED
      BY <2>1, <3>2
  <2>2. CASE ~(i = l /\ n = o + 1)
    <3>1. i \in Nat /\ Len(program[i].pipelines) \in Nat
      BY <1>2, ProgramTypes
    <3>2. n \in Visited(i) /\ (i = l => n <= o)
      BY <2>2, <3>1, <1>2, <1>5
    <3>3. \A k \in 1..n : Ran(i, k)' <=> Ran(i, k)
      BY <3>1, <3>2, <1>2, <1>4 DEF Visited
    <3>4. QED
      BY <3>2, <3>3, <1>1, <1>4, OthersKept DEF CircuitInv
  <2>3. QED
    BY <2>1, <2>2
<1>9. QED
  BY <1>1, <1>6, <1>7, <1>8 DEF CircuitInv, ShortCircuit

LEMMA CircuitStep == TypeInv /\ CircuitInv /\ [Next]_vars => CircuitInv'
<1> SUFFICES ASSUME TypeInv, CircuitInv, [Next]_vars PROVE CircuitInv'
  OBVIOUS
<1>1. CASE RunHead
  BY <1>1, HeadCircuit
<1>2. CASE RunNext \/ Skip
  BY <1>2, NextCircuit
<1>3. CASE NextList
  <2>1. PICK l, o : l = list /\ o = node
    OBVIOUS
  <2>2. /\ program \in Programs /\ l \in 1..Len(program) /\ Running
        /\ o = Len(program[l].pipelines) /\ o \in Nat
        /\ \A i \in 1..Len(program) : Len(program[i].pipelines) \in Nat
    BY <1>3, <2>1, ProgramTypes
    DEF TypeInv, Known, Numbers, NextList, List, Running
  <2>3. /\ program' = program /\ result' = result /\ Running' /\ pc' # "more"
        /\ node' = o /\ list' \in {l, l + 1} /\ (list' = l <=> pc' = "finish")
    BY <1>3, <2>1, <2>2 DEF NextList, Running
  <2>4. /\ \A i \in 1..Len(program) : Visited(i)' = Visited(i)
        /\ \A i \in Nat : i <= l => Visited(i)' = Visited(i)
    BY <1>3, <2>1, <2>2, <2>3 DEF Visited, NextList
  <2>5. OnlyVisited'
    BY <2>1, <2>2, <2>3, <2>4 DEF CircuitInv, OnlyVisited, Running, Ran
  <2>6. StatusDecides'
    BY <2>3 DEF StatusDecides
  <2>7. ShortCircuit'
    <3>1. ASSUME NEW i \in DOMAIN program, NEW n \in Visited(i)'
          PROVE  Decided(i, n)'
      <4>1. n \in Visited(i)
        BY <2>2, <2>4, ProgramTypes
      <4>2. /\ \A k \in 1..n : Ran(i, k)' <=> Ran(i, k)
            /\ \A j, k \in Nat :
                 Ran(j, k) => result'[<<j, k>>] = result[<<j, k>>]
        BY <2>3 DEF Ran
      <4>3. QED
        BY <4>1, <4>2, <2>2, <2>3, OthersKept DEF CircuitInv
    <3>2. QED
      BY <3>1, <2>3 DEF ShortCircuit
  <2>8. QED
    BY <2>5, <2>6, <2>7 DEF CircuitInv
<1>4. CASE PrepareHeredocs
  <2>1. /\ DOMAIN result' = {} /\ pc' = "head" /\ list' = 1
        /\ program' = program /\ program \in Programs
    BY <1>4 DEF PrepareHeredocs, CircuitInv, OnlyVisited, TypeInv, Known
  <2>2. \A i \in 1..Len(program) : Visited(i)' = {}
    BY <2>1 DEF Visited
  <2>3. DOMAIN program = 1..Len(program)
    BY <2>1, ProgramTypes
  <2>4. QED
    BY <2>1, <2>2, <2>3
    DEF CircuitInv, OnlyVisited, StatusDecides, ShortCircuit, Running, Ran
<1>5. CASE ReadLine \/ SyntaxError \/ EmptyProgram \/ PrepareWords
  BY <1>5 DEF ReadLine, SyntaxError, EmptyProgram, PrepareWords, CircuitInv,
              OnlyVisited, StatusDecides, ShortCircuit, Running
<1>6. CASE EndOfInput \/ HeredocFails \/ Finish \/ Handled
  BY <1>6 DEF EndOfInput, HeredocFails, Finish, Handled, NoResult, CircuitInv,
              OnlyVisited, StatusDecides, ShortCircuit, Running
<1>7. CASE UNCHANGED vars
  BY <1>7 DEF vars, CircuitInv, OnlyVisited, StatusDecides, ShortCircuit,
              Running, Ran, Visited, Decided, IsLastBefore, Accepts
<1>8. QED
  BY <1>1, <1>2, <1>3, <1>4, <1>5, <1>6, <1>7 DEF Next

(* A pipeline of an and-or list runs exactly if the status of the last one  *)
(* that ran lets it (executor.c), whatever was skipped in between.          *)
THEOREM ListsShortCircuit == Spec => []ShortCircuit
<1>1. Init => CircuitInv
  BY DEF Init, NoResult, CircuitInv, OnlyVisited, StatusDecides, ShortCircuit,
         Running
<1>2. CircuitInv => ShortCircuit
  BY DEF CircuitInv
<1>3. QED
  BY <1>1, <1>2, TypesInit, TypesStep, CircuitStep, PTL DEF Spec
=============================================================================
