-------------------------------- MODULE Parser --------------------------------
(***************************************************************************)
(* sh_parse_sequence_list: the tokens of a line become a list of and-or    *)
(* lists of pipelines of simple commands.  The functions descend through   *)
(* the four levels, so at any moment there is one unfinished node per      *)
(* level: command, pipeline, andOr, and the sequence they will be hung in. *)
(* A word of the tree is the index of the token it is a copy of; live is   *)
(* the set of those copies that are allocated.                             *)
(***************************************************************************)
EXTENDS Integers, Sequences, FiniteSets

Redirectors == {"<", ">", ">>", "<<"}
Joints      == {"&&", "||"}
Kinds       == {"WORD", "EOF", "|", ";"} \cup Joints \cup Redirectors

VARIABLES
  tokens,                 (* records with a kind and the parts of a word   *)
  index,                  (* the current token                             *)
  parser,                 (* where the descent is                          *)
  errorToken,             (* the token an error was found at, 0 without    *)
  sequence,               (* the finished and-or lists of the line         *)
  andOr,                  (* finished pipelines of the unfinished list     *)
  pipeline,               (* finished commands of the unfinished pipeline  *)
  command,                (* the unfinished command                        *)
  live                    (* the word copies that are allocated            *)

work  == <<sequence, andOr, pipeline, command, live>>
vars  == <<tokens, index, parser, errorToken, work>>

Empty == [argv |-> <<>>, redirections |-> <<>>]

(* sh_parser_peek: past the end it is the last token.                      *)
Peek(offset) ==
  tokens[IF index + offset > Len(tokens) THEN Len(tokens)
         ELSE index + offset].kind
Current      == Peek(0)

(* sh_parser_advance stays on the end of the line.                         *)
Advance == index' = IF Current # "EOF" THEN index + 1 ELSE index

CanStart(kind) == kind = "WORD" \/ kind \in Redirectors

(* sh_parser_has_missing_followup.                                         *)
MissingFollowup ==
  Current \in Joints \cup {"|"} /\ ~CanStart(Peek(1))

HasQuotedPart(t) ==
  \E p \in DOMAIN tokens[t].parts : tokens[t].parts[p].quote # "none"

(* A redirection node; the operand of << is a delimiter and says whether   *)
(* the lines below are expanded (sh_parser_fill_heredoc_metadata).         *)
Redirection(kind, operand) ==
  [kind |-> kind, operand |-> operand,
   expand |-> kind = "<<" /\ ~HasQuotedPart(operand)]

(* What the parser is given: a list that ends where the line does.         *)
Delivered ==
  /\ Len(tokens) \in Nat \ {0} /\ DOMAIN tokens = 1..Len(tokens)
  /\ \A t \in DOMAIN tokens :
       tokens[t].kind \in Kinds /\ (tokens[t].kind = "EOF" <=> t = Len(tokens))

Init ==
  /\ index = 1 /\ parser = "sequence" /\ errorToken = 0
  /\ sequence = <<>> /\ andOr = <<>> /\ pipeline = <<>> /\ command = Empty
  /\ live = {}

(* The commands of the tree, by the path of indexes that leads to them;    *)
(* and the slots of the commands that hold a copy, each freed on its own.  *)
Paths ==
  UNION {UNION {{<<i, j, k>> : k \in DOMAIN sequence[i].andOr[j].pipeline} :
                j \in DOMAIN sequence[i].andOr} :
         i \in DOMAIN sequence}
CommandAt(path) == sequence[path[1]].andOr[path[2]].pipeline[path[3]]
Slots ==
  UNION {{<<p, "argv", a>> : a \in DOMAIN CommandAt(p).argv}
           \cup {<<p, "operand", r>> : r \in DOMAIN CommandAt(p).redirections} :
         p \in Paths}
CopyAt(slot) ==
  IF slot[2] = "argv" THEN CommandAt(slot[1]).argv[slot[3]]
  ELSE CommandAt(slot[1]).redirections[slot[3]].operand
-----------------------------------------------------------------------------
(* An error: each level frees its own unfinished node and returns.  What   *)
(* the nodes hold is not destroyed: live keeps it.                         *)

(* Mutant: an error destroys the lists that are finished, which the caller *)
(* does again.                                                             *)
FailDestroying(token) ==
  /\ errorToken' = token /\ parser' = "failed"
  /\ command' = Empty /\ pipeline' = <<>> /\ andOr' = <<>>
  /\ live' = live \ {CopyAt(s) : s \in Slots}
  /\ UNCHANGED <<tokens, sequence>>

Fail(token) ==
  /\ errorToken' = token /\ parser' = "failed"
  /\ command' = Empty /\ pipeline' = <<>> /\ andOr' = <<>>
  /\ UNCHANGED <<tokens, sequence, live>>

(* The beginning of sh_parse_sequence_list and of each turn of its loop: a *)
(* line may be empty and may end with a semicolon.                         *)
NoMoreLists ==
  /\ parser = "sequence" /\ Current = "EOF"
  /\ parser' = "parsed"
  /\ UNCHANGED <<tokens, index, errorToken, work>>

NewList ==
  /\ parser = "sequence" /\ Current # "EOF"
  /\ parser' = "command"
  /\ UNCHANGED <<tokens, index, errorToken, work>>

(* sh_parse_simple_command.                                                *)
NoCommand ==
  /\ parser = "command" /\ ~CanStart(Current)
  /\ Fail(index) /\ UNCHANGED index

CommandStarts ==
  /\ parser = "command" /\ CanStart(Current)
  /\ parser' = "words"
  /\ UNCHANGED <<tokens, index, errorToken, work>>

Argument ==
  /\ parser = "words" /\ Current = "WORD"
  /\ command' = [command EXCEPT !.argv = Append(@, index)]
  /\ live' = live \cup {index}
  /\ Advance
  /\ UNCHANGED <<tokens, parser, errorToken, sequence, andOr, pipeline>>

(* sh_parser_parse_redirection, in two steps.                              *)
Redirector ==
  /\ parser = "words" /\ Current \in Redirectors
  /\ Advance /\ parser' = "operand"
  /\ UNCHANGED <<tokens, errorToken, work>>

Operand ==
  /\ parser = "operand" /\ Current = "WORD"
  /\ command' = [command EXCEPT !.redirections =
                   Append(@, Redirection(tokens[index - 1].kind, index))]
  /\ live' = live \cup {index}
  /\ Advance /\ parser' = "words"
  /\ UNCHANGED <<tokens, errorToken, sequence, andOr, pipeline>>

NoOperand ==
  /\ parser = "operand" /\ Current # "WORD"
  /\ Fail(index) /\ UNCHANGED index

(* Mutant: the error is reported at the operator.                          *)
NoFollowupAtOperator ==
  /\ parser = "words" /\ Current # "WORD" /\ Current \notin Redirectors
  /\ MissingFollowup
  /\ Fail(index) /\ UNCHANGED index

(* A command that ends before an operator with nothing after it is itself  *)
(* refused, before it is hung in its pipeline.                             *)
NoFollowup ==
  /\ parser = "words" /\ Current # "WORD" /\ Current \notin Redirectors
  /\ MissingFollowup
  /\ Fail(index + 1) /\ UNCHANGED index

(* Mutant: the node is not hung at the tail but replaces it.               *)
CommandEndsReplacing ==
  /\ parser = "words" /\ Current # "WORD" /\ Current \notin Redirectors
  /\ ~MissingFollowup
  /\ pipeline' = <<command>> /\ command' = Empty
  /\ parser' = "pipeline"
  /\ UNCHANGED <<tokens, index, errorToken, sequence, andOr, live>>

(* The command is hung in its pipeline.                                    *)
CommandEnds ==
  /\ parser = "words" /\ Current # "WORD" /\ Current \notin Redirectors
  /\ ~MissingFollowup
  /\ pipeline' = Append(pipeline, command) /\ command' = Empty
  /\ parser' = "pipeline"
  /\ UNCHANGED <<tokens, index, errorToken, sequence, andOr, live>>

(* The loop of sh_parse_pipeline.                                          *)

NextCommand ==
  /\ parser = "pipeline" /\ Current = "|"
  /\ Advance /\ parser' = "command"
  /\ UNCHANGED <<tokens, errorToken, work>>

PipelineEnds ==
  /\ parser = "pipeline" /\ Current # "|"
  /\ andOr' = Append(andOr, [pipeline |-> pipeline, operator |-> "none"])
  /\ pipeline' = <<>> /\ parser' = "andOr"
  /\ UNCHANGED <<tokens, index, errorToken, sequence, command, live>>

(* The loop of sh_parse_and_or_list: the operator is kept in the node      *)
(* before it.                                                              *)
NextPipeline ==
  /\ parser = "andOr" /\ Current \in Joints
  /\ andOr' = [andOr EXCEPT ![Len(andOr)].operator = Current]
  /\ Advance /\ parser' = "command"
  /\ UNCHANGED <<tokens, errorToken, sequence, pipeline, command, live>>

AndOrEnds ==
  /\ parser = "andOr" /\ Current \notin Joints
  /\ sequence' = Append(sequence, [andOr |-> andOr, separator |-> "none"])
  /\ andOr' = <<>> /\ parser' = "separator"
  /\ UNCHANGED <<tokens, index, errorToken, pipeline, command, live>>

(* The loop of sh_parse_sequence_list.                                     *)
NextList ==
  /\ parser = "separator" /\ Current = ";"
  /\ sequence' = [sequence EXCEPT ![Len(sequence)].separator = ";"]
  /\ Advance /\ parser' = "sequence"
  /\ UNCHANGED <<tokens, errorToken, andOr, pipeline, command, live>>

SequenceEnds ==
  /\ parser = "separator" /\ Current # ";"
  /\ parser' = "parsed"
  /\ UNCHANGED <<tokens, index, errorToken, work>>

Next ==
  \/ NoMoreLists \/ NewList \/ NoCommand \/ CommandStarts \/ Argument
  \/ Redirector \/ Operand \/ NoOperand \/ NoFollowup \/ CommandEnds
  \/ NextCommand \/ PipelineEnds \/ NextPipeline \/ AndOrEnds
  \/ NextList \/ SequenceEnds

(* The parser alone.                                                       *)
Spec == Delivered /\ Init /\ [][Next]_vars
-----------------------------------------------------------------------------
(* sh_sequence_list_destroy: everything that hangs in the list is freed.   *)

(* Mutant: redirections are not destroyed with their command.              *)
DestroyArgumentsOnly ==
  /\ live' = live \ {CopyAt(s) : s \in {u \in Slots : u[2] = "argv"}}
  /\ sequence' = <<>>
  /\ UNCHANGED <<tokens, index, parser, errorToken, andOr, pipeline, command>>

Destroy ==
  /\ live' = live \ {CopyAt(s) : s \in Slots}
  /\ sequence' = <<>>
  /\ UNCHANGED <<tokens, index, parser, errorToken, andOr, pipeline, command>>
-----------------------------------------------------------------------------
(* What the parser promises.                                               *)

Points == {"sequence", "command", "words", "operand", "pipeline", "andOr",
           "separator", "parsed", "failed"}

TypeOK ==
  /\ Delivered
  /\ index \in 1..Len(tokens) /\ errorToken \in 0..Len(tokens)
  /\ parser \in Points
  /\ live \subseteq {t \in DOMAIN tokens : tokens[t].kind = "WORD"}

(* The grammar as a relation between neighbours: which token may come      *)
(* after which.  The first token follows a semicolon, as it were.          *)
Follows(before, kind) ==
  CASE before = "WORD"               -> TRUE
    [] before \in Redirectors        -> kind = "WORD"
    [] before \in Joints \cup {"|"}  -> CanStart(kind)
    [] before = ";"                  -> CanStart(kind) \/ kind = "EOF"
    [] OTHER                         -> FALSE

Before(t) == IF t = 1 THEN ";" ELSE tokens[t - 1].kind
Fits(t)   == Follows(Before(t), tokens[t].kind)

(* The four levels of functions accept exactly the lines in which every    *)
(* token fits the one before it, and the token they complain about is the  *)
(* first that does not, whichever level finds it.                          *)
ErrorAtFirstMisfit ==
  /\ parser = "parsed" => errorToken = 0 /\ \A t \in DOMAIN tokens : Fits(t)
  /\ parser = "failed" =>
       /\ errorToken \in DOMAIN tokens /\ ~Fits(errorToken)
       /\ \A t \in 1..errorToken-1 : Fits(t)

(* Where a word belongs: the separators before it count the levels.        *)
Last(kinds, t) ==      (* the last token of these kinds before t, or 0     *)
  CHOOSE l \in 0..t-1 :
    /\ l = 0 \/ tokens[l].kind \in kinds
    /\ \A m \in l+1..t-1 : tokens[m].kind \notin kinds
Count(kinds, from, t) ==
  Cardinality({m \in from+1..t-1 : tokens[m].kind \in kinds})

Place(t) ==
  <<1 + Count({";"}, 0, t),
    1 + Count(Joints, Last({";"}, t), t),
    1 + Count({"|"}, Last({";"} \cup Joints, t), t)>>

WordTokens == {t \in DOMAIN tokens : tokens[t].kind = "WORD"}
IsOperand(t) == Before(t) \in Redirectors

(* A parsed line loses nothing and confuses nothing: every word of the     *)
(* line hangs where the separators before it say, as an argument or as the *)
(* operand of the redirection written before it, in the order of the line; *)
(* the node before an operator carries it, the last node none.             *)
TreeMatchesLine ==
  parser = "parsed" =>
    /\ Paths = {Place(t) : t \in WordTokens}
    /\ \A p \in Paths :
         LET c    == CommandAt(p)
             here == {t \in WordTokens : Place(t) = p} IN
         /\ {c.argv[a] : a \in DOMAIN c.argv} = {t \in here : ~IsOperand(t)}
         /\ {c.redirections[r].operand : r \in DOMAIN c.redirections}
              = {t \in here : IsOperand(t)}
         /\ \A a, b \in DOMAIN c.argv : a < b => c.argv[a] < c.argv[b]
         /\ \A r, s \in DOMAIN c.redirections :
              r < s => c.redirections[r].operand < c.redirections[s].operand
         /\ \A r \in DOMAIN c.redirections :
              c.redirections[r].kind = Before(c.redirections[r].operand)
    /\ \A i \in DOMAIN sequence : \A j \in DOMAIN sequence[i].andOr :
         LET last(t) == Place(t)[1] = i /\ Place(t)[2] = j
             joint   == {tokens[t].kind : t \in {u \in DOMAIN tokens :
                          last(u) /\ tokens[u].kind \in Joints}} IN
         IF joint = {} THEN sequence[i].andOr[j].operator = "none"
         ELSE joint = {sequence[i].andOr[j].operator}

(* What Destroy is given can be freed slot by slot: each slot holds a copy *)
(* that is allocated, and no two slots hold the same.                      *)
HeldOnce ==
  /\ \A s \in Slots : CopyAt(s) \in live
  /\ \A s, u \in Slots : CopyAt(s) = CopyAt(u) => s = u

(* What is left to do: every step moves on in the line or down this list.  *)
TokensLeft ==
  8 * (Len(tokens) - index)
    + (CASE parser = "sequence"  -> 7 [] parser = "command" -> 6
         [] parser \in {"words", "operand"} -> 5
         [] parser = "pipeline"  -> 4 [] parser = "andOr"   -> 3
         [] parser = "separator" -> 2 [] OTHER -> 0)
=============================================================================
