---------------------------- MODULE PipelineAbs ----------------------------
(***************************************************************************)
(* What a caller of sh_executor_run_pipeline may rely on, without          *)
(* descriptors, pipes or processes: stages start in order, a failure ends  *)
(* the starting, and the call returns only when every stage that was       *)
(* started has ended, with the status of the last stage, or 1 after a      *)
(* failure.                                                                *)
(***************************************************************************)
EXTENDS Integers

CONSTANT N           \* number of stages

Statuses == 0..255
Unknown == -1        \* the stage has not ended, or the call not returned

VARIABLES
  started,      \* stages 1..started were started
  ended,        \* the shell status of each of them
  failed,       \* a stage could not be started
  returned      \* the status returned

vars == <<started, ended, failed, returned>>

Init == /\ started = 0
        /\ ended = [i \in 1..N |-> Unknown]
        /\ failed = FALSE
        /\ returned = Unknown

Start == /\ returned = Unknown /\ ~failed /\ started < N
         /\ started' = started + 1
         /\ UNCHANGED <<ended, failed, returned>>

Fail == /\ returned = Unknown /\ ~failed /\ started < N
        /\ failed' = TRUE
        /\ UNCHANGED <<started, ended, returned>>

StageEnds(i) == /\ i <= started /\ ended[i] = Unknown
                /\ ended'[i] \in Statuses
                /\ ended' = [ended EXCEPT ![i] = ended'[i]]
                /\ UNCHANGED <<started, failed, returned>>

Return == /\ returned = Unknown
          /\ failed \/ started = N
          /\ \A i \in 1..started : ended[i] # Unknown
          /\ returned' = IF failed THEN 1 ELSE ended[N]
          /\ UNCHANGED <<started, ended, failed>>

Next == Start \/ Fail \/ (\E i \in 1..N : StageEnds(i)) \/ Return

Spec == Init /\ [][Next]_vars
=============================================================================
