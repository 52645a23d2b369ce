----------------------------- MODULE ReplProofs -----------------------------
(* What holds of Repl however much is typed and however often Ctrl-C and    *)
(* Ctrl-\ are pressed.                                                      *)
EXTENDS Repl, TLAPS

(* The groups of variables that most steps leave alone.                     *)
USE DEF given, control, env, prevVars, signalVars, lineVars, childVars,
     Alive, At

-----------------------------------------------------------------------------
(* The types.  readline is given a character only after select() saw one,   *)
(* so that there is one to take.                                            *)

TypeInv == TypeOK /\ (pc = "readChar" => tty # <<>>)

(* TypeOK by what the steps disturb together.                               *)
SignalTypes ==
  /\ interactive \in BOOLEAN
  /\ inherited \in [Signals -> {"default", "ignore"}]
  /\ disp \in [Signals -> Dispositions]
  /\ inPrev \in [Signals -> Dispositions]
  /\ waitPrevDisp \in [Signals -> Dispositions]
  /\ inInstalled \in BOOLEAN /\ waitInstalled \in BOOLEAN

LoopTypes ==
  /\ pc \in Points
  /\ ended \in {"no", "exit", "killed"}
  /\ phase \in Phases /\ runPrev \in Phases /\ hdPrev \in Phases
  /\ waitPrev \in Phases
  /\ lastStatus \in {0, 1, 2, 130, 131}
  /\ shouldExit \in BOOLEAN
  /\ flag \in BOOLEAN /\ hit \in BOOLEAN

InputTypes ==
  /\ reader \in {"prompt", "heredoc"}
  /\ line \in LineKinds \cup {"none"}
  /\ done \in BOOLEAN /\ partial \in BOOLEAN
  /\ command \in LineKinds \cup {"none"}
  /\ storage \in BOOLEAN
  /\ tty \in Seq(Keys)
  /\ typed \in 0..MaxKeys /\ sent \in 0..MaxSignals
  /\ pc = "readChar" => tty # <<>>

ChildTypes ==
  /\ child \in {"none", "fresh", "exec", "zombie", "reaped"}
  /\ childDisp \in [Signals -> Dispositions]
  /\ childStatus \in {0, 1, 130, 131}

LEMMA Groups ==
  TypeInv <=> SignalTypes /\ LoopTypes /\ InputTypes /\ ChildTypes
  BY DEF TypeInv, TypeOK, SignalTypes, LoopTypes, InputTypes, ChildTypes

AllPoints == {"top", "promptEnter", "promptLeave", "promptCheck", "handled",
              "end", "hdEnter", "hdCheck", "hdWrite", "hdLeave", "hdOpen",
              "execute", "forked", "ran", "waitEnter", "waiting", "waitLeave",
              "install", "loop", "select", "readChar", "eintr", "return"}

LEMMA EveryPoint == Points = AllPoints
  BY DEF Points, AllPoints, PromptPoints, HeredocPoints, RunPoints, WaitPoints,
     ReadPoints

LEMMA Queues ==
  /\ \A q \in Seq(Keys) : q # <<>> =>
       Head(q) \in Keys /\ Tail(q) \in Seq(Keys)
  /\ \A q \in Seq(Keys), k \in Keys :
       Append(q, k) \in Seq(Keys) /\ Append(q, k) # <<>>
<1>1. ASSUME NEW q \in Seq(Keys), NEW k \in Keys
      PROVE  Append(q, k) \in Seq(Keys) /\ Append(q, k) # <<>>
  <2>1. Append(q, k) \in Seq(Keys) /\ Len(Append(q, k)) = Len(q) + 1
    OBVIOUS
  <2>2. Len(q) \in Nat
    OBVIOUS
  <2>3. Append(q, k) # <<>>
    BY <2>1, <2>2
  <2>4. QED
    BY <2>1, <2>3
<1>2. QED
  BY <1>1

LEMMA Enters ==
  ASSUME SignalTypes, InputEnter \/ WaitEnter, UNCHANGED given
  PROVE  SignalTypes'
  BY DEF SignalTypes, InputEnter, WaitEnter, InputDisp, Both, Signals,
     Dispositions

LEMMA Leaves ==
  ASSUME SignalTypes, InputLeave \/ WaitLeave, UNCHANGED given
  PROVE  SignalTypes'
  BY DEF SignalTypes, InputLeave, WaitLeave

LEMMA ShellTypes == ASSUME TypeInv, ShellStep PROVE TypeInv'
<1> USE EveryPoint DEF AllPoints
<1>0. SignalTypes /\ LoopTypes /\ InputTypes /\ ChildTypes
  BY Groups
<1> SUFFICES SignalTypes' /\ LoopTypes' /\ InputTypes' /\ ChildTypes'
  BY Groups, PTL
<1>1. CASE StartPrompt
  BY <1>0, <1>1
     DEF StartPrompt, Phases, SignalTypes, LoopTypes,
     InputTypes, ChildTypes
<1>2. CASE PromptEnter
  <2>1. SignalTypes'
    BY <1>0, <1>2, Enters
       DEF PromptEnter
  <2>2. LoopTypes'
    BY <1>0, <1>2
       DEF PromptEnter, InputEnter, InputDisp, Signals, Dispositions, LoopTypes
  <2>3. InputTypes'
    BY <1>0, <1>2
       DEF PromptEnter, InputEnter, InputDisp, Signals, Dispositions, InputTypes
  <2>4. ChildTypes'
    BY <1>0, <1>2
       DEF PromptEnter, InputEnter, InputDisp, Signals, Dispositions, ChildTypes
  <2>5. QED
    BY <2>1, <2>2, <2>3, <2>4
<1>3. CASE Install
  <2>1. SignalTypes'
    BY <1>0, <1>3
       DEF Install, InputDisp, Signals, Dispositions, SignalTypes
  <2>2. LoopTypes'
    BY <1>0, <1>3
       DEF Install, InputDisp, Signals, Dispositions, LoopTypes
  <2>3. InputTypes'
    BY <1>0, <1>3
       DEF Install, InputDisp, Signals, Dispositions, InputTypes
  <2>4. ChildTypes'
    BY <1>0, <1>3
       DEF Install, InputDisp, Signals, Dispositions, ChildTypes
  <2>5. QED
    BY <2>1, <2>2, <2>3, <2>4
<1>4. CASE Loop
  BY <1>0, <1>4
     DEF Loop, SignalTypes, LoopTypes,
     InputTypes, ChildTypes
<1>5. CASE SelectReady
  BY <1>0, <1>5
     DEF SelectReady, SignalTypes, LoopTypes,
     InputTypes, ChildTypes
<1>6. CASE ReadChar
  <2>1. SignalTypes'
    BY <1>0, <1>6
       DEF ReadChar, LineKinds, Keys, SignalTypes
  <2>2. LoopTypes'
    BY <1>0, <1>6
       DEF ReadChar, LineKinds, Keys, LoopTypes
  <2>3. InputTypes'
    <3>1. Head(tty) \in Keys /\ tty' \in Seq(Keys)
      BY <1>0, <1>6, Queues DEF ReadChar, InputTypes
    <3>2. line' \in LineKinds \cup {"none"} /\ partial' \in BOOLEAN
      BY <1>0, <1>6, <3>1 DEF ReadChar, InputTypes
    <3>3. done' \in BOOLEAN
      BY <1>0, <1>6, <3>1 DEF ReadChar, InputTypes
    <3>4. QED
      BY <1>0, <1>6, <3>1, <3>2, <3>3 DEF ReadChar, InputTypes
  <2>4. ChildTypes'
    BY <1>0, <1>6
       DEF ReadChar, LineKinds, Keys, ChildTypes
  <2>5. QED
    BY <2>1, <2>2, <2>3, <2>4
<1>7. CASE Interrupted
  <2>1. SignalTypes'
    BY <1>0, <1>7
       DEF Interrupted, SignalTypes
  <2>2. LoopTypes'
    BY <1>0, <1>7
       DEF Interrupted, LoopTypes
  <2>3. InputTypes'
    BY <1>0, <1>7
       DEF Interrupted, InputTypes
  <2>4. ChildTypes'
    BY <1>0, <1>7
       DEF Interrupted, ChildTypes
  <2>5. QED
    BY <2>1, <2>2, <2>3, <2>4
<1>8. CASE ReadStream
  <2>1. SignalTypes'
    BY <1>0, <1>8
       DEF ReadStream, LineKinds, Keys, SignalTypes
  <2>2. LoopTypes'
    BY <1>0, <1>8
       DEF ReadStream, LineKinds, Keys, LoopTypes
  <2>3. InputTypes'
    BY <1>0, <1>8, Queues
       DEF ReadStream, LineKinds, Keys, InputTypes
  <2>4. ChildTypes'
    BY <1>0, <1>8
       DEF ReadStream, LineKinds, Keys, ChildTypes
  <2>5. QED
    BY <2>1, <2>2, <2>3, <2>4
<1>9. CASE ReturnLine
  BY <1>0, <1>9
     DEF ReturnLine, SignalTypes, LoopTypes,
     InputTypes, ChildTypes
<1>10. CASE PromptLeave
  <2>1. SignalTypes'
    BY <1>0, <1>10, Leaves
       DEF PromptLeave
  <2>2. LoopTypes'
    BY <1>0, <1>10
       DEF PromptLeave, InputLeave, LoopTypes
  <2>3. InputTypes'
    BY <1>0, <1>10
       DEF PromptLeave, InputLeave, InputTypes
  <2>4. ChildTypes'
    BY <1>0, <1>10
       DEF PromptLeave, InputLeave, ChildTypes
  <2>5. QED
    BY <2>1, <2>2, <2>3, <2>4
<1>11. CASE PromptCancelled
  <2>1. SignalTypes'
    BY <1>0, <1>11
       DEF PromptCancelled, SigStatus, SignalTypes
  <2>2. LoopTypes'
    BY <1>0, <1>11
       DEF PromptCancelled, SigStatus, LoopTypes
  <2>3. InputTypes'
    BY <1>0, <1>11
       DEF PromptCancelled, SigStatus, InputTypes
  <2>4. ChildTypes'
    BY <1>0, <1>11
       DEF PromptCancelled, SigStatus, ChildTypes
  <2>5. QED
    BY <2>1, <2>2, <2>3, <2>4
<1>12. CASE PromptEnds
  BY <1>0, <1>12
     DEF PromptEnds, SignalTypes, LoopTypes,
     InputTypes, ChildTypes
<1>13. CASE SyntaxError
  BY <1>0, <1>13
     DEF SyntaxError, SignalTypes, LoopTypes,
     InputTypes, ChildTypes
<1>14. CASE BlankLine
  BY <1>0, <1>14
     DEF BlankLine, SignalTypes, LoopTypes,
     InputTypes, ChildTypes
<1>15. CASE StartRun
  BY <1>0, <1>15
     DEF StartRun, Phases, SignalTypes, LoopTypes,
     InputTypes, ChildTypes
<1>16. CASE HeredocOpen
  BY <1>0, <1>16
     DEF HeredocOpen, Phases, SignalTypes, LoopTypes,
     InputTypes, ChildTypes
<1>17. CASE HeredocOpenFails
  BY <1>0, <1>17
     DEF HeredocOpenFails, SignalTypes, LoopTypes,
     InputTypes, ChildTypes
<1>18. CASE HeredocEnter
  <2>1. SignalTypes'
    BY <1>0, <1>18, Enters
       DEF HeredocEnter
  <2>2. LoopTypes'
    BY <1>0, <1>18
       DEF HeredocEnter, InputEnter, InputDisp, Signals, Dispositions, LoopTypes
  <2>3. InputTypes'
    BY <1>0, <1>18
       DEF HeredocEnter, InputEnter, InputDisp, Signals, Dispositions, InputTypes
  <2>4. ChildTypes'
    BY <1>0, <1>18
       DEF HeredocEnter, InputEnter, InputDisp, Signals, Dispositions, ChildTypes
  <2>5. QED
    BY <2>1, <2>2, <2>3, <2>4
<1>19. CASE HeredocCancelled
  <2>1. SignalTypes'
    BY <1>0, <1>19, Leaves
       DEF HeredocCancelled, HeredocAbandoned
  <2>2. LoopTypes'
    BY <1>0, <1>19
       DEF HeredocCancelled, HeredocAbandoned, InputLeave, SigStatus, LoopTypes
  <2>3. InputTypes'
    BY <1>0, <1>19
       DEF HeredocCancelled, HeredocAbandoned, InputLeave, SigStatus, InputTypes
  <2>4. ChildTypes'
    BY <1>0, <1>19
       DEF HeredocCancelled, HeredocAbandoned, InputLeave, SigStatus, ChildTypes
  <2>5. QED
    BY <2>1, <2>2, <2>3, <2>4
<1>20. CASE HeredocEnds
  BY <1>0, <1>20
     DEF HeredocEnds, SignalTypes, LoopTypes,
     InputTypes, ChildTypes
<1>21. CASE HeredocText
  BY <1>0, <1>21
     DEF HeredocText, SignalTypes, LoopTypes,
     InputTypes, ChildTypes
<1>22. CASE HeredocWritten
  BY <1>0, <1>22
     DEF HeredocWritten, SignalTypes, LoopTypes,
     InputTypes, ChildTypes
<1>23. CASE HeredocWriteFails
  <2>1. SignalTypes'
    BY <1>0, <1>23, Leaves
       DEF HeredocWriteFails, HeredocAbandoned
  <2>2. LoopTypes'
    BY <1>0, <1>23
       DEF HeredocWriteFails, HeredocAbandoned, InputLeave, LoopTypes
  <2>3. InputTypes'
    BY <1>0, <1>23
       DEF HeredocWriteFails, HeredocAbandoned, InputLeave, InputTypes
  <2>4. ChildTypes'
    BY <1>0, <1>23
       DEF HeredocWriteFails, HeredocAbandoned, InputLeave, ChildTypes
  <2>5. QED
    BY <2>1, <2>2, <2>3, <2>4
<1>24. CASE HeredocLeave
  <2>1. SignalTypes'
    BY <1>0, <1>24, Leaves
       DEF HeredocLeave
  <2>2. LoopTypes'
    BY <1>0, <1>24
       DEF HeredocLeave, InputLeave, LoopTypes
  <2>3. InputTypes'
    BY <1>0, <1>24
       DEF HeredocLeave, InputLeave, InputTypes
  <2>4. ChildTypes'
    BY <1>0, <1>24
       DEF HeredocLeave, InputLeave, ChildTypes
  <2>5. QED
    BY <2>1, <2>2, <2>3, <2>4
<1>25. CASE HeredocSeekFails
  <2>1. SignalTypes'
    BY <1>0, <1>25, Leaves
       DEF HeredocSeekFails, HeredocAbandoned
  <2>2. LoopTypes'
    BY <1>0, <1>25
       DEF HeredocSeekFails, HeredocAbandoned, InputLeave, LoopTypes
  <2>3. InputTypes'
    BY <1>0, <1>25
       DEF HeredocSeekFails, HeredocAbandoned, InputLeave, InputTypes
  <2>4. ChildTypes'
    BY <1>0, <1>25
       DEF HeredocSeekFails, HeredocAbandoned, InputLeave, ChildTypes
  <2>5. QED
    BY <2>1, <2>2, <2>3, <2>4
<1>26. CASE RunBuiltin
  <2>1. SignalTypes'
    BY <1>0, <1>26
       DEF RunBuiltin, SignalTypes
  <2>2. LoopTypes'
    BY <1>0, <1>26
       DEF RunBuiltin, LoopTypes
  <2>3. InputTypes'
    BY <1>0, <1>26
       DEF RunBuiltin, InputTypes
  <2>4. ChildTypes'
    BY <1>0, <1>26
       DEF RunBuiltin, ChildTypes
  <2>5. QED
    BY <2>1, <2>2, <2>3, <2>4
<1>27. CASE Fork
  <2>1. SignalTypes'
    BY <1>0, <1>27
       DEF Fork, SignalTypes
  <2>2. LoopTypes'
    BY <1>0, <1>27
       DEF Fork, LoopTypes
  <2>3. InputTypes'
    BY <1>0, <1>27
       DEF Fork, InputTypes
  <2>4. ChildTypes'
    BY <1>0, <1>27
       DEF Fork, SignalTypes, ChildTypes
  <2>5. QED
    BY <2>1, <2>2, <2>3, <2>4
<1>28. CASE ForkFails
  BY <1>0, <1>28
     DEF ForkFails, SignalTypes, LoopTypes,
     InputTypes, ChildTypes
<1>29. CASE StartWait
  BY <1>0, <1>29
     DEF StartWait, Phases, SignalTypes, LoopTypes,
     InputTypes, ChildTypes
<1>30. CASE EnterWait
  <2>1. SignalTypes'
    BY <1>0, <1>30, Enters
       DEF EnterWait
  <2>2. LoopTypes'
    BY <1>0, <1>30
       DEF EnterWait, WaitEnter, Both, Dispositions, LoopTypes
  <2>3. InputTypes'
    BY <1>0, <1>30
       DEF EnterWait, WaitEnter, Both, Dispositions, InputTypes
  <2>4. ChildTypes'
    BY <1>0, <1>30
       DEF EnterWait, WaitEnter, Both, Dispositions, ChildTypes
  <2>5. QED
    BY <2>1, <2>2, <2>3, <2>4
<1>31. CASE Reap
  BY <1>0, <1>31
     DEF Reap, SignalTypes, LoopTypes,
     InputTypes, ChildTypes
<1>32. CASE LeaveWait
  <2>1. SignalTypes'
    BY <1>0, <1>32, Leaves
       DEF LeaveWait
  <2>2. LoopTypes'
    BY <1>0, <1>32
       DEF LeaveWait, WaitLeave, LoopTypes
  <2>3. InputTypes'
    BY <1>0, <1>32
       DEF LeaveWait, WaitLeave, InputTypes
  <2>4. ChildTypes'
    BY <1>0, <1>32
       DEF LeaveWait, WaitLeave, ChildTypes
  <2>5. QED
    BY <2>1, <2>2, <2>3, <2>4
<1>33. CASE EndRun
  BY <1>0, <1>33
     DEF EndRun, SignalTypes, LoopTypes,
     InputTypes, ChildTypes
<1>34. CASE Handled
  <2>1. SignalTypes'
    BY <1>0, <1>34
       DEF Handled, SignalTypes
  <2>2. LoopTypes'
    BY <1>0, <1>34
       DEF Handled, LoopTypes
  <2>3. InputTypes'
    BY <1>0, <1>34
       DEF Handled, InputTypes
  <2>4. ChildTypes'
    BY <1>0, <1>34
       DEF Handled, ChildTypes
  <2>5. QED
    BY <2>1, <2>2, <2>3, <2>4
<1>35. CASE End
  BY <1>0, <1>35
     DEF End, Phases, SignalTypes, LoopTypes,
     InputTypes, ChildTypes
<1>36. QED
  BY <1>1, <1>2, <1>3, <1>4, <1>5, <1>6, <1>7, <1>8, <1>9, <1>10, <1>11,
     <1>12, <1>13, <1>14, <1>15, <1>16, <1>17, <1>18, <1>19, <1>20, <1>21,
     <1>22, <1>23, <1>24, <1>25, <1>26, <1>27, <1>28, <1>29, <1>30, <1>31,
     <1>32, <1>33, <1>34, <1>35
     DEF ShellStep

LEMMA OtherTypes ==
  ASSUME TypeInv, ChildStep \/ Type \/ \E s \in Signals : Signal(s)
  PROVE  TypeInv'
<1> USE EveryPoint DEF AllPoints
<1>0. SignalTypes /\ LoopTypes /\ InputTypes /\ ChildTypes
  BY Groups
<1> SUFFICES SignalTypes' /\ LoopTypes' /\ InputTypes' /\ ChildTypes'
  BY Groups, PTL
<1>1. CASE ChildStep
  BY <1>0, <1>1
     DEF ChildStep, ChildDefault, ChildExit, Both, Dispositions, SignalTypes,
     LoopTypes, InputTypes, ChildTypes
<1>2. CASE Type
  BY <1>0, <1>2, BoundsAssumption, Queues
     DEF Type, SignalTypes, LoopTypes, InputTypes, ChildTypes
<1>3. ASSUME NEW s \in Signals, Signal(s)
      PROVE  SignalTypes' /\ LoopTypes' /\ InputTypes' /\ ChildTypes'
  <2>1. SignalTypes'
    BY <1>0, <1>3 DEF Signal, SignalTypes
  <2>2. LoopTypes'
    BY <1>0, <1>3 DEF Signal, Caught, Killed, Ignored, LoopTypes
  <2>3. pc' = "readChar" => pc = "readChar"
    BY <1>3 DEF Signal, Caught, Killed, Ignored
  <2>4. sent' \in 0..MaxSignals
    BY <1>0, <1>3, BoundsAssumption DEF Signal, InputTypes
  <2>5. InputTypes'
    BY <1>0, <1>3, <2>3, <2>4 DEF Signal, InputTypes
  <2>6. ChildTypes'
    BY <1>0, <1>3 DEF Signal, ChildSignalled, SigStatus, ChildTypes
  <2>7. QED
    BY <2>1, <2>2, <2>5, <2>6
<1>4. QED
  BY <1>1, <1>2, <1>3

LEMMA InitTypes == Init => TypeInv
<1> SUFFICES ASSUME Init
             PROVE  SignalTypes /\ LoopTypes /\ InputTypes /\ ChildTypes
  BY Groups
<1>1. inherited \in [Signals -> {"default", "ignore"}]
  BY StartAssumption DEF Init, Both
<1>2. /\ inherited \in [Signals -> Dispositions]
      /\ Both("default") \in [Signals -> Dispositions]
  BY <1>1 DEF Both, Dispositions
<1>3. SignalTypes /\ ChildTypes
  BY <1>1, <1>2, StartAssumption DEF Init, SignalTypes, ChildTypes
<1>4. LoopTypes
  BY EveryPoint DEF Init, LoopTypes, AllPoints, Phases
<1>5. InputTypes
  <2>1. <<>> \in Seq(Keys)
    OBVIOUS
  <2>2. 0 \in 0..MaxKeys /\ 0 \in 0..MaxSignals
    BY BoundsAssumption
  <2>3. pc # "readChar"
    BY DEF Init
  <2>4. QED
    BY <2>1, <2>2, <2>3 DEF Init, InputTypes
<1>6. QED
  BY <1>3, <1>4, <1>5

LEMMA StepTypes == TypeInv /\ [Next]_vars => TypeInv'
<1>1. ASSUME TypeInv, UNCHANGED vars PROVE TypeInv'
  BY <1>1 DEF TypeInv, TypeOK, vars
<1>2. QED
  BY <1>1, ShellTypes, OtherTypes DEF Next

(* Every variable of the loop, of signal.c and of the readline session stays *)
(* in its type on every path: last_status is never anything but a status the *)
(* shell itself or a child produced, and no character is taken from an empty *)
(* terminal.                                                                 *)
THEOREM TypeCorrect == Spec => []TypeOK
<1>1. TypeInv => TypeOK
  BY DEF TypeInv
<1>2. QED
  BY <1>1, InitTypes, StepTypes, PTL DEF Spec

-----------------------------------------------------------------------------
(* The dispositions.  DispositionsFollow is not inductive: a leave is right *)
(* only if what the enter saved is what the shell was started with and the  *)
(* installed flag still says there is something to undo.                    *)

Saved ==
  /\ interactive \in BOOLEAN
  /\ (interactive /\ pc \in InputWindow) =>
       (inInstalled /\ inPrev = inherited)
  /\ (interactive /\ pc \in WaitWindow) =>
       (waitInstalled /\ waitPrevDisp = inherited)

DispInv == Saved /\ DispositionsFollow

LEMMA ShellDispositions == ASSUME DispInv, ShellStep PROVE DispInv'
<1> USE DEF DispInv, Saved, DispositionsFollow, InputWindow, WaitWindow
<1>1. CASE StartPrompt
  BY <1>1 DEF StartPrompt
<1>2. CASE PromptEnter
  BY <1>2 DEF PromptEnter, InputEnter
<1>3. CASE Install
  BY <1>3 DEF Install
<1>4. CASE Loop
  BY <1>4 DEF Loop
<1>5. CASE SelectReady
  BY <1>5 DEF SelectReady
<1>6. CASE ReadChar
  BY <1>6 DEF ReadChar
<1>7. CASE Interrupted
  BY <1>7 DEF Interrupted
<1>8. CASE ReadStream
  BY <1>8 DEF ReadStream
<1>9. CASE ReturnLine
  BY <1>9 DEF ReturnLine
<1>10. CASE PromptLeave
  BY <1>10 DEF PromptLeave, InputLeave
<1>11. CASE PromptCancelled
  BY <1>11 DEF PromptCancelled
<1>12. CASE PromptEnds
  BY <1>12 DEF PromptEnds
<1>13. CASE SyntaxError
  BY <1>13 DEF SyntaxError
<1>14. CASE BlankLine
  BY <1>14 DEF BlankLine
<1>15. CASE StartRun
  BY <1>15 DEF StartRun
<1>16. CASE HeredocOpen
  BY <1>16 DEF HeredocOpen
<1>17. CASE HeredocOpenFails
  BY <1>17 DEF HeredocOpenFails
<1>18. CASE HeredocEnter
  BY <1>18 DEF HeredocEnter, InputEnter
<1>19. CASE HeredocCancelled
  BY <1>19 DEF HeredocCancelled, HeredocAbandoned, InputLeave
<1>20. CASE HeredocEnds
  BY <1>20 DEF HeredocEnds
<1>21. CASE HeredocText
  BY <1>21 DEF HeredocText
<1>22. CASE HeredocWritten
  BY <1>22 DEF HeredocWritten
<1>23. CASE HeredocWriteFails
  BY <1>23 DEF HeredocWriteFails, HeredocAbandoned, InputLeave
<1>24. CASE HeredocLeave
  BY <1>24 DEF HeredocLeave, InputLeave
<1>25. CASE HeredocSeekFails
  BY <1>25 DEF HeredocSeekFails, HeredocAbandoned, InputLeave
<1>26. CASE RunBuiltin
  BY <1>26 DEF RunBuiltin
<1>27. CASE Fork
  BY <1>27 DEF Fork
<1>28. CASE ForkFails
  BY <1>28 DEF ForkFails
<1>29. CASE StartWait
  BY <1>29 DEF StartWait
<1>30. CASE EnterWait
  BY <1>30 DEF EnterWait, WaitEnter
<1>31. CASE Reap
  BY <1>31 DEF Reap
<1>32. CASE LeaveWait
  BY <1>32 DEF LeaveWait, WaitLeave
<1>33. CASE EndRun
  BY <1>33 DEF EndRun
<1>34. CASE Handled
  BY <1>34 DEF Handled
<1>35. CASE End
  BY <1>35 DEF End
<1>36. QED
  BY <1>1, <1>2, <1>3, <1>4, <1>5, <1>6, <1>7, <1>8, <1>9, <1>10, <1>11,
     <1>12, <1>13, <1>14, <1>15, <1>16, <1>17, <1>18, <1>19, <1>20, <1>21,
     <1>22, <1>23, <1>24, <1>25, <1>26, <1>27, <1>28, <1>29, <1>30, <1>31,
     <1>32, <1>33, <1>34, <1>35
     DEF ShellStep

LEMMA OtherDispositions ==
  ASSUME DispInv, ChildStep \/ Type \/ \E s \in Signals : Signal(s)
  PROVE  DispInv'
<1> USE DEF DispInv, Saved, DispositionsFollow, InputWindow, WaitWindow
<1>1. CASE ChildStep
  BY <1>1 DEF ChildStep, ChildDefault, ChildExit
<1>2. CASE Type
  BY <1>2 DEF Type
<1>3. ASSUME NEW s \in Signals, Signal(s) PROVE DispInv'
  BY <1>3 DEF Signal, Caught, Killed, Ignored
<1>4. QED
  BY <1>1, <1>2, <1>3

LEMMA InitDispositions == Init => DispInv
  BY StartAssumption DEF Init, DispInv, Saved, DispositionsFollow, InputWindow,
     WaitWindow

LEMMA StepDispositions == DispInv /\ [Next]_vars => DispInv'
<1>1. ASSUME DispInv, UNCHANGED vars PROVE DispInv'
  BY <1>1 DEF DispInv, Saved, DispositionsFollow, vars
<1>2. QED
  BY <1>1, ShellDispositions, OtherDispositions DEF Next

(* At every point of every run the shell has the dispositions that point     *)
(* calls for, and outside the input and wait windows those main() began with *)
(* -- signal.c's enter and leave pairs balance on every path.                *)
THEOREM DispositionsAlwaysFollow == Spec => []DispositionsFollow
<1>1. DispInv => DispositionsFollow
  BY DEF DispInv
<1>2. QED
  BY <1>1, InitDispositions, StepDispositions, PTL DEF Spec

-----------------------------------------------------------------------------
(* The phases.  Each saved phase is right from its save to its use, and who  *)
(* reads decides which phase the adapter runs in.                            *)

Heredocs == HeredocPoints \cup (IF reader = "heredoc" THEN ReadPoints ELSE {})

SavedPhases ==
  /\ pc \in Heredocs \cup RunPoints \cup WaitPoints => runPrev = "prompt"
  /\ pc \in Heredocs => hdPrev = "execute"
  /\ pc \in WaitPoints => waitPrev = "execute"
  /\ pc \in HeredocPoints \ {"hdEnter"} => reader = "heredoc"
  /\ reader \in {"prompt", "heredoc"}
  /\ ended = "exit" => pc = "end"

PhaseInv == SavedPhases /\ PhaseFollows

LEMMA ShellPhases == ASSUME PhaseInv, ShellStep PROVE PhaseInv'
<1> USE DEF PhaseInv, SavedPhases, PhaseFollows, Heredocs, PromptPoints,
            HeredocPoints, RunPoints, WaitPoints, ReadPoints
<1>1. CASE StartPrompt
  BY <1>1 DEF StartPrompt
<1>2. CASE PromptEnter
  BY <1>2 DEF PromptEnter, InputEnter
<1>3. CASE Install
  BY <1>3 DEF Install
<1>4. CASE Loop
  BY <1>4 DEF Loop
<1>5. CASE SelectReady
  BY <1>5 DEF SelectReady
<1>6. CASE ReadChar
  BY <1>6 DEF ReadChar
<1>7. CASE Interrupted
  BY <1>7 DEF Interrupted
<1>8. CASE ReadStream
  BY <1>8 DEF ReadStream
<1>9. CASE ReturnLine
  BY <1>9 DEF ReturnLine
<1>10. CASE PromptLeave
  BY <1>10 DEF PromptLeave, InputLeave
<1>11. CASE PromptCancelled
  BY <1>11 DEF PromptCancelled
<1>12. CASE PromptEnds
  BY <1>12 DEF PromptEnds
<1>13. CASE SyntaxError
  BY <1>13 DEF SyntaxError
<1>14. CASE BlankLine
  BY <1>14 DEF BlankLine
<1>15. CASE StartRun
  BY <1>15 DEF StartRun
<1>16. CASE HeredocOpen
  BY <1>16 DEF HeredocOpen
<1>17. CASE HeredocOpenFails
  BY <1>17 DEF HeredocOpenFails
<1>18. CASE HeredocEnter
  BY <1>18 DEF HeredocEnter, InputEnter
<1>19. CASE HeredocCancelled
  BY <1>19 DEF HeredocCancelled, HeredocAbandoned, InputLeave
<1>20. CASE HeredocEnds
  BY <1>20 DEF HeredocEnds
<1>21. CASE HeredocText
  BY <1>21 DEF HeredocText
<1>22. CASE HeredocWritten
  BY <1>22 DEF HeredocWritten
<1>23. CASE HeredocWriteFails
  BY <1>23 DEF HeredocWriteFails, HeredocAbandoned, InputLeave
<1>24. CASE HeredocLeave
  BY <1>24 DEF HeredocLeave, InputLeave
<1>25. CASE HeredocSeekFails
  BY <1>25 DEF HeredocSeekFails, HeredocAbandoned, InputLeave
<1>26. CASE RunBuiltin
  BY <1>26 DEF RunBuiltin
<1>27. CASE Fork
  BY <1>27 DEF Fork
<1>28. CASE ForkFails
  BY <1>28 DEF ForkFails
<1>29. CASE StartWait
  BY <1>29 DEF StartWait
<1>30. CASE EnterWait
  BY <1>30 DEF EnterWait, WaitEnter
<1>31. CASE Reap
  BY <1>31 DEF Reap
<1>32. CASE LeaveWait
  BY <1>32 DEF LeaveWait, WaitLeave
<1>33. CASE EndRun
  BY <1>33 DEF EndRun
<1>34. CASE Handled
  BY <1>34 DEF Handled
<1>35. CASE End
  BY <1>35 DEF End
<1>36. QED
  BY <1>1, <1>2, <1>3, <1>4, <1>5, <1>6, <1>7, <1>8, <1>9, <1>10, <1>11,
     <1>12, <1>13, <1>14, <1>15, <1>16, <1>17, <1>18, <1>19, <1>20, <1>21,
     <1>22, <1>23, <1>24, <1>25, <1>26, <1>27, <1>28, <1>29, <1>30, <1>31,
     <1>32, <1>33, <1>34, <1>35
     DEF ShellStep

LEMMA OtherPhases ==
  ASSUME PhaseInv, ChildStep \/ Type \/ \E s \in Signals : Signal(s)
  PROVE  PhaseInv'
<1> USE DEF PhaseInv, SavedPhases, PhaseFollows, Heredocs, PromptPoints,
            HeredocPoints, RunPoints, WaitPoints, ReadPoints
<1>1. CASE ChildStep
  BY <1>1 DEF ChildStep, ChildDefault, ChildExit
<1>2. CASE Type
  BY <1>2 DEF Type
<1>3. ASSUME NEW s \in Signals, Signal(s) PROVE PhaseInv'
  BY <1>3 DEF Signal, Caught, Killed, Ignored
<1>4. QED
  BY <1>1, <1>2, <1>3

LEMMA InitPhases == Init => PhaseInv
  BY DEF Init, PhaseInv, SavedPhases, PhaseFollows, Heredocs, PromptPoints,
     HeredocPoints, RunPoints, WaitPoints, ReadPoints

LEMMA StepPhases == PhaseInv /\ [Next]_vars => PhaseInv'
<1>1. ASSUME PhaseInv, UNCHANGED vars PROVE PhaseInv'
  BY <1>1 DEF PhaseInv, SavedPhases, PhaseFollows, Heredocs, vars
<1>2. QED
  BY <1>1, ShellPhases, OtherPhases DEF Next

(* shell->signal_phase is what the point of the program calls for: every     *)
(* previous_phase local of main.c, prepare.c and executor.c is restored on   *)
(* every path, the failing ones included.                                    *)
THEOREM PhasesAlwaysFollow == Spec => []PhaseFollows
<1>1. PhaseInv => PhaseFollows
  BY DEF PhaseInv
<1>2. QED
  BY <1>1, InitPhases, StepPhases, PTL DEF Spec

-----------------------------------------------------------------------------
(* The flag of the handler and the history of what the handler did agree     *)
(* from an enter to the check that consumes the flag.                        *)

FlagIsHit ==
  /\ flag \in BOOLEAN /\ hit \in BOOLEAN
  /\ pc \in InputWindow \cup {"promptCheck"} => (flag <=> hit)
  /\ ~interactive => ~flag /\ ~hit

FlagInv == FlagIsHit /\ DispInv /\ inherited \in [Signals -> {"default", "ignore"}]

LEMMA ShellFlag == ASSUME FlagInv, ShellStep PROVE FlagIsHit'
<1> USE DEF FlagInv, FlagIsHit, DispInv, Saved, InputWindow
<1>1. CASE StartPrompt
  BY <1>1 DEF StartPrompt
<1>2. CASE PromptEnter
  BY <1>2 DEF PromptEnter, InputEnter
<1>3. CASE Install
  BY <1>3 DEF Install
<1>4. CASE Loop
  BY <1>4 DEF Loop
<1>5. CASE SelectReady
  BY <1>5 DEF SelectReady
<1>6. CASE ReadChar
  BY <1>6 DEF ReadChar
<1>7. CASE Interrupted
  BY <1>7 DEF Interrupted
<1>8. CASE ReadStream
  BY <1>8 DEF ReadStream
<1>9. CASE ReturnLine
  BY <1>9 DEF ReturnLine
<1>10. CASE PromptLeave
  BY <1>10 DEF PromptLeave, InputLeave
<1>11. CASE PromptCancelled
  BY <1>11 DEF PromptCancelled
<1>12. CASE PromptEnds
  BY <1>12 DEF PromptEnds
<1>13. CASE SyntaxError
  BY <1>13 DEF SyntaxError
<1>14. CASE BlankLine
  BY <1>14 DEF BlankLine
<1>15. CASE StartRun
  BY <1>15 DEF StartRun
<1>16. CASE HeredocOpen
  BY <1>16 DEF HeredocOpen
<1>17. CASE HeredocOpenFails
  BY <1>17 DEF HeredocOpenFails
<1>18. CASE HeredocEnter
  BY <1>18 DEF HeredocEnter, InputEnter
<1>19. CASE HeredocCancelled
  BY <1>19 DEF HeredocCancelled, HeredocAbandoned, InputLeave
<1>20. CASE HeredocEnds
  BY <1>20 DEF HeredocEnds
<1>21. CASE HeredocText
  BY <1>21 DEF HeredocText
<1>22. CASE HeredocWritten
  BY <1>22 DEF HeredocWritten
<1>23. CASE HeredocWriteFails
  BY <1>23 DEF HeredocWriteFails, HeredocAbandoned, InputLeave
<1>24. CASE HeredocLeave
  BY <1>24 DEF HeredocLeave, InputLeave
<1>25. CASE HeredocSeekFails
  BY <1>25 DEF HeredocSeekFails, HeredocAbandoned, InputLeave
<1>26. CASE RunBuiltin
  BY <1>26 DEF RunBuiltin
<1>27. CASE Fork
  BY <1>27 DEF Fork
<1>28. CASE ForkFails
  BY <1>28 DEF ForkFails
<1>29. CASE StartWait
  BY <1>29 DEF StartWait
<1>30. CASE EnterWait
  BY <1>30 DEF EnterWait, WaitEnter
<1>31. CASE Reap
  BY <1>31 DEF Reap
<1>32. CASE LeaveWait
  BY <1>32 DEF LeaveWait, WaitLeave
<1>33. CASE EndRun
  BY <1>33 DEF EndRun
<1>34. CASE Handled
  BY <1>34 DEF Handled
<1>35. CASE End
  BY <1>35 DEF End
<1>36. QED
  BY <1>1, <1>2, <1>3, <1>4, <1>5, <1>6, <1>7, <1>8, <1>9, <1>10, <1>11,
     <1>12, <1>13, <1>14, <1>15, <1>16, <1>17, <1>18, <1>19, <1>20, <1>21,
     <1>22, <1>23, <1>24, <1>25, <1>26, <1>27, <1>28, <1>29, <1>30, <1>31,
     <1>32, <1>33, <1>34, <1>35
     DEF ShellStep

LEMMA OtherFlag ==
  ASSUME FlagInv, ChildStep \/ Type \/ \E s \in Signals : Signal(s)
  PROVE  FlagIsHit'
<1> USE DEF FlagInv, FlagIsHit, DispInv, Saved, InputWindow
<1>1. CASE ChildStep
  BY <1>1 DEF ChildStep, ChildDefault, ChildExit
<1>2. CASE Type
  BY <1>2 DEF Type
<1>3. ASSUME NEW s \in Signals, Signal(s) PROVE FlagIsHit'
  <2>1. ~interactive => disp[s] # "input"
    BY <1>3 DEF DispositionsFollow
  <2>2. UNCHANGED interactive
    BY <1>3 DEF Signal
  <2>3. CASE Caught(s)
    BY <2>1, <2>2, <2>3 DEF Caught
  <2>4. CASE Killed(s) \/ Ignored(s)
    <3>1. UNCHANGED <<pc, flag, hit>>
      BY <2>4 DEF Killed, Ignored
    <3>2. QED
      BY <2>2, <3>1
  <2>5. QED
    BY <1>3, <2>3, <2>4 DEF Signal
<1>4. QED
  BY <1>1, <1>2, <1>3

LEMMA StepsKeepGiven == [Next]_vars => UNCHANGED given
  BY DEF Next, ShellStep, ChildStep, ChildDefault, ChildExit, Type, Signal,
     vars, StartPrompt, PromptEnter, Install, Loop, SelectReady, ReadChar,
     Interrupted, ReadStream, ReturnLine, PromptLeave, PromptCancelled,
     PromptEnds, SyntaxError, BlankLine, StartRun, HeredocOpen,
     HeredocOpenFails, HeredocEnter, HeredocCancelled, HeredocEnds,
     HeredocText, HeredocWritten, HeredocWriteFails, HeredocLeave,
     HeredocSeekFails, RunBuiltin, Fork, ForkFails, StartWait, EnterWait,
     Reap, LeaveWait, EndRun, Handled, End

LEMMA InitFlag == Init => FlagInv
<1> SUFFICES ASSUME Init PROVE FlagInv
  OBVIOUS
<1>1. inherited \in [Signals -> {"default", "ignore"}]
  BY StartAssumption DEF Init, Both
<1>2. QED
  BY <1>1, InitDispositions DEF Init, FlagInv, FlagIsHit

LEMMA StepFlag == FlagInv /\ [Next]_vars => FlagInv'
<1> SUFFICES ASSUME FlagInv, [Next]_vars PROVE FlagInv'
  OBVIOUS
<1>1. DispInv'
  BY StepDispositions DEF FlagInv
<1>2. UNCHANGED given
  BY StepsKeepGiven
<1>3. FlagIsHit'
  <2>1. CASE UNCHANGED vars
    BY <2>1 DEF vars, FlagInv, FlagIsHit
  <2>2. QED
    BY <2>1, ShellFlag, OtherFlag DEF Next
<1>4. QED
  BY <1>1, <1>2, <1>3 DEF FlagInv

(* Input is cancelled with status 130 only by a SIGINT of this very input:   *)
(* sh_signal_input_enter clears what an earlier one left, and the heredoc    *)
(* and prompt checks come before anything else can.                          *)
THEOREM InterruptsAreNotGhosts == Spec => NoGhostInterrupt
<1>1. FlagInv /\ [Next]_vars => [PromptCancelled \/ HeredocCancelled => hit]_vars
  BY DEF FlagInv, FlagIsHit, PromptCancelled, HeredocCancelled, InputWindow
<1>2. QED
  BY <1>1, InitFlag, StepFlag, PTL DEF Spec, NoGhostInterrupt

(* No line is run, refused or taken for end-of-file by sh_main_repl after    *)
(* the handler ran while it was being read.                                  *)
THEOREM PromptsHonourInterrupts == Spec => PromptHonoursInterrupt
<1>1. FlagInv /\ [Next]_vars
        => [PromptEnds \/ SyntaxError \/ BlankLine \/ StartRun => ~hit]_vars
  BY DEF FlagInv, FlagIsHit, PromptEnds, SyntaxError, BlankLine, StartRun
<1>2. QED
  BY <1>1, InitFlag, StepFlag, PTL DEF Spec, PromptHonoursInterrupt

-----------------------------------------------------------------------------
(* The child.  It is forked outside every window, so what it inherits before *)
(* sh_signal_child_default is never the handler.                             *)

ChildInv ==
  /\ ChildRunsDefault
  /\ DispInv
  /\ inherited \in [Signals -> {"default", "ignore"}]

LEMMA ForkedChild == ASSUME ChildInv, Fork PROVE ChildRunsDefault'
<1>1. disp = inherited
  BY DEF ChildInv, DispInv, DispositionsFollow, Fork, InputWindow, WaitWindow
<1>2. inherited["INT"] # "input"
  BY DEF ChildInv, Signals
<1>3. QED
  BY <1>1, <1>2 DEF Fork, ChildRunsDefault

LEMMA OtherChild ==
  ASSUME ChildInv, Next, ~Fork PROVE ChildRunsDefault'
<1>1. CASE ChildDefault \/ ChildExit
  BY <1>1 DEF ChildDefault, ChildExit, ChildInv, ChildRunsDefault
<1>2. CASE child' \in {child, "zombie", "reaped"} /\ UNCHANGED childDisp
  BY <1>2 DEF ChildInv, ChildRunsDefault
<1>3. CASE \E s \in Signals : Signal(s)
  BY <1>2, <1>3 DEF Signal, ChildSignalled
<1>4. CASE Type
  BY <1>2, <1>4 DEF Type
<1>5. CASE ShellStep
  BY <1>2, <1>5 DEF ShellStep, StartPrompt, PromptEnter, Install, Loop,
     SelectReady, ReadChar, Interrupted, ReadStream, ReturnLine,
     PromptLeave, PromptCancelled, PromptEnds, SyntaxError, BlankLine,
     StartRun, HeredocOpen, HeredocOpenFails, HeredocEnter,
     HeredocCancelled, HeredocEnds, HeredocText, HeredocWritten,
     HeredocWriteFails, HeredocLeave, HeredocSeekFails, RunBuiltin, Fork,
     ForkFails, StartWait, EnterWait, Reap, LeaveWait, EndRun, Handled,
     End
<1>6. QED
  BY <1>1, <1>3, <1>4, <1>5 DEF Next, ChildStep

LEMMA StepChild == ChildInv /\ [Next]_vars => ChildInv'
<1> SUFFICES ASSUME ChildInv, [Next]_vars PROVE ChildInv'
  OBVIOUS
<1>2. DispInv'
  BY StepDispositions DEF ChildInv
<1>3. UNCHANGED given
  BY StepsKeepGiven
<1>4. ChildRunsDefault'
  <2>1. CASE UNCHANGED vars
    BY <2>1 DEF vars, ChildInv, ChildRunsDefault
  <2>2. QED
    BY <2>1, ForkedChild, OtherChild
<1>5. QED
  BY <1>2, <1>3, <1>4 DEF ChildInv

(* A program starts with default dispositions for both signals whatever the  *)
(* shell was started with, and no child holds the shell's own handler.       *)
THEOREM ChildrenRunDefault == Spec => []ChildRunsDefault
<1>1. Init => ChildInv
  <2> SUFFICES ASSUME Init PROVE ChildInv
    OBVIOUS
  <2>1. inherited \in [Signals -> {"default", "ignore"}]
    BY StartAssumption DEF Init, Both
  <2>2. QED
    BY <2>1, InitDispositions DEF Init, ChildInv, ChildRunsDefault
<1>2. ChildInv => ChildRunsDefault
  BY DEF ChildInv
<1>3. QED
  BY <1>1, <1>2, StepChild, PTL DEF Spec

-----------------------------------------------------------------------------
(* The file of a heredoc.                                                    *)

StorageInv ==
  /\ storage => pc \in Heredocs \cup RunPoints \cup WaitPoints \cup {"handled"}
  /\ PhaseInv

LEMMA StepStorage == StorageInv /\ [Next]_vars => StorageInv'
<1> SUFFICES ASSUME StorageInv, [Next]_vars PROVE StorageInv'
  OBVIOUS
<1> USE DEF StorageInv, PhaseInv, SavedPhases, Heredocs, HeredocPoints,
            RunPoints, WaitPoints, ReadPoints
<1>1. PhaseInv'
  BY StepPhases
<1>2. CASE ShellStep
  <2>1. CASE StartPrompt \/ PromptEnter \/ PromptLeave \/ PromptCancelled
             \/ PromptEnds \/ SyntaxError \/ BlankLine \/ StartRun
    BY <1>1, <2>1 DEF StartPrompt, PromptEnter, PromptLeave,
       PromptCancelled, PromptEnds, SyntaxError, BlankLine, StartRun
  <2>2. CASE Install \/ Loop \/ SelectReady \/ ReadChar \/ Interrupted \/
             ReadStream \/ ReturnLine
    BY <1>1, <2>2 DEF Install, Loop, SelectReady, ReadChar, Interrupted,
       ReadStream, ReturnLine
  <2>3. CASE HeredocOpen \/ HeredocOpenFails \/ HeredocEnter \/
             HeredocCancelled \/ HeredocEnds \/ HeredocText \/
             HeredocWritten \/ HeredocWriteFails \/ HeredocLeave \/
             HeredocSeekFails
    BY <1>1, <2>3 DEF HeredocOpen, HeredocOpenFails, HeredocEnter,
       HeredocCancelled, HeredocEnds, HeredocText, HeredocWritten,
       HeredocWriteFails, HeredocLeave, HeredocSeekFails, HeredocAbandoned
  <2>4. CASE RunBuiltin \/ Fork \/ ForkFails \/ StartWait
    BY <1>1, <2>4 DEF RunBuiltin, Fork, ForkFails, StartWait
  <2>5. CASE EnterWait \/ Reap \/ LeaveWait
    BY <1>1, <2>5 DEF EnterWait, Reap, LeaveWait
  <2>6. CASE EndRun \/ Handled \/ End
    BY <1>1, <2>6 DEF EndRun, Handled, End
  <2>7. QED
    BY <1>2, <2>1, <2>2, <2>3, <2>4, <2>5, <2>6 DEF ShellStep
<1>3. CASE ChildStep
  BY <1>1, <1>3 DEF ChildStep, ChildDefault, ChildExit
<1>4. CASE Type
  BY <1>1, <1>4 DEF Type
<1>5. ASSUME NEW s \in Signals, Signal(s) PROVE StorageInv'
  BY <1>1, <1>5 DEF Signal, Caught, Killed, Ignored
<1>6. CASE UNCHANGED vars
  BY <1>1, <1>6 DEF vars
<1>7. QED
  BY <1>2, <1>3, <1>4, <1>5, <1>6 DEF Next

(* No heredoc's temporary file outlives the line that opened it: the loop    *)
(* reaches its top and its end only with the storage closed and unlinked.    *)
THEOREM StorageIsReleased == Spec => []StorageReleased
<1>1. Init => StorageInv
  BY InitPhases DEF Init, StorageInv
<1>2. StorageInv => StorageReleased
  BY DEF StorageInv, StorageReleased, Heredocs
<1>3. QED
  BY <1>1, <1>2, StepStorage, PTL DEF Spec
=============================================================================
