------------------------------ MODULE FrontEnd ------------------------------
(***************************************************************************)
(* sh_main_handle_line: a line is cut into tokens, the tokens are parsed,  *)
(* the tree is run or the error reported, and tree and tokens are          *)
(* destroyed.                                                              *)
(***************************************************************************)
EXTENDS Lexer

VARIABLES
  index, parser, errorToken, sequence, andOr, pipeline, command, live,
                          (* the parser's                                  *)
  handling,               (* where handle_line is                          *)
  lastStatus              (* $?, of which running a line gives any value   *)

P == INSTANCE Parser

parseVars == <<index, parser, errorToken, sequence, andOr, pipeline,
               command, live>>
vars      == <<lexVars, parseVars, handling, lastStatus>>

Init ==
  /\ LexInit /\ P!Init
  /\ handling = "lex" /\ lastStatus = 0

Lex ==
  /\ handling = "lex" /\ LexNext
  /\ handling' = IF lexer' = "lexed" THEN "parse" ELSE "lex"
  /\ UNCHANGED <<parseVars, lastStatus>>

Parse ==
  /\ handling = "parse" /\ P!Next
  /\ handling' = IF parser' \in {"parsed", "failed"} THEN "verdict" ELSE "parse"
  /\ UNCHANGED <<input, at, lexer, start, parts, lastStatus>>

ReportSyntaxError ==
  /\ handling = "verdict" /\ parser = "failed"
  /\ lastStatus' = 2 /\ handling' = "destroyTree"
  /\ UNCHANGED <<lexVars, parseVars>>

(* sh_executor_run, of which other modules tell; an empty line leaves the  *)
(* status alone.                                                           *)
Run ==
  /\ handling = "verdict" /\ parser = "parsed"
  /\ lastStatus' \in IF sequence = <<>> THEN {lastStatus} ELSE {0, 1, 2}
  /\ handling' = "destroyTree"
  /\ UNCHANGED <<lexVars, parseVars>>

DestroyTree ==
  /\ handling = "destroyTree"
  /\ P!Destroy /\ handling' = "destroyTokens"
  /\ UNCHANGED <<input, at, lexer, start, parts, lastStatus>>

DestroyTokens ==
  /\ handling = "destroyTokens"
  /\ tokens' = <<>> /\ handling' = "handled"
  /\ UNCHANGED <<input, at, lexer, start, parts, parseVars, lastStatus>>

Handled == handling = "handled" /\ UNCHANGED vars

Next == Lex \/ Parse \/ ReportSyntaxError \/ Run \/ DestroyTree
          \/ DestroyTokens \/ Handled

Spec == Init /\ [][Next]_vars
-----------------------------------------------------------------------------
(* Properties.                                                             *)

Stages == <<"lex", "parse", "verdict", "destroyTree", "destroyTokens",
            "handled">>
StageOf(point) == CHOOSE s \in DOMAIN Stages : Stages[s] = point
Stage == StageOf(handling)

(* What the lexer hands over is what the parser takes for granted: a list  *)
(* with one end, which is its last token.                                  *)
TypeOK ==
  /\ handling \in {Stages[s] : s \in DOMAIN Stages}
  /\ handling # "handled" => LexTypeOK
  /\ handling \in {"parse", "verdict", "destroyTree", "destroyTokens"}
       => P!TypeOK
  /\ lastStatus \in {0, 1, 2}

(* See LexedAsRead: the words and operators of a line are the ones that    *)
(* reading it one character at a time gives.                               *)
TokensMatchLine == handling = "parse" => LexedAsRead

(* See ErrorAtFirstMisfit of the parser.  A line that is refused has       *)
(* status 2.                                                               *)
RejectsAtFirstMisfit ==
  /\ handling = "verdict" => P!ErrorAtFirstMisfit
  /\ handling = "destroyTree" /\ parser = "failed" => lastStatus = 2

(* See TreeMatchesLine of the parser; and a heredoc's lines are expanded   *)
(* exactly if no character of its delimiter is quoted in the line.         *)
TreeMatchesLine ==
  handling = "verdict" =>
    /\ P!TreeMatchesLine
    /\ parser = "parsed" =>
         \A p \in P!Paths : \A r \in DOMAIN P!CommandAt(p).redirections :
           LET node  == P!CommandAt(p).redirections[r]
               token == tokens[node.operand] IN
           node.kind = "<<" =>
             (node.expand
                <=> \A i \in token.from..token.to-1 : Char(i) \notin Quotes)

(* After a syntax error the words of the list in which the error is are    *)
(* lost, and only they: those after the last semicolon before the error.   *)
LeakConfined ==
  handling = "destroyTokens" =>
    IF parser = "parsed" THEN live = {}
    ELSE live \subseteq P!Last({";"}, errorToken)+1 .. errorToken-1

(* What the line's tree was made of is freed when it is handled: not twice *)
(* nor after it is gone, for whatever hangs in the tree is allocated and   *)
(* hangs there once, after an error too; and nothing is forgotten but what *)
(* hung in a list that was not finished.                                   *)
WordsFreedOnce ==
  /\ handling = "destroyTree" => P!HeldOnce
  /\ LeakConfined

(* Whatever the line, every step of the scan and of the descent brings     *)
(* them closer to their end: neither loop can turn without moving on.      *)
LineAdvances ==
  [][\/ Stage' > Stage
     \/ Stage' = Stage /\ CharactersLeft' < CharactersLeft
     \/ Stage' = Stage /\ P!TokensLeft' < P!TokensLeft]_vars
=============================================================================
