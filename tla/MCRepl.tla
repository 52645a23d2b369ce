------------------------------- MODULE MCRepl -------------------------------
(* The read-eval loop with a user who types a few keys and presses Ctrl-C    *)
(* and Ctrl-\ a few times, at any moment.                                    *)
EXTENDS Repl
=============================================================================
