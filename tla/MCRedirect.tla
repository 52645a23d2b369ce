----------------------------- MODULE MCRedirect -----------------------------
(* Lines of two commands with up to two redirections each, in a shell that   *)
(* has few descriptors to spare and may have been started with an extra one. *)
EXTENDS Redirect

MCRedirections ==
  {[kind |-> "input", file |-> "f"], [kind |-> "output", file |-> "f"],
   [kind |-> "append", file |-> "g"], [kind |-> "heredoc", file |-> "f"]}

MCCommands ==
  [place : Places,
   redirections : UNION {[1..n -> MCRedirections] : n \in 0..2}]

MCLines == {<<c>> : c \in MCCommands}
             \cup {<<c, d>> : c \in MCCommands,
                              d \in {e \in MCCommands :
                                       Len(e.redirections) <= 1}}

MCShortLines == {<<c>> : c \in MCCommands}
MCBases == {{0, 1, 2}, {0, 1, 2, 4}}
MCClosedBases == {{0, 2}}
=============================================================================
