-------------------------------- MODULE Lexer --------------------------------
(***************************************************************************)
(* sh_lex_line: one pass over a line that cuts it into tokens.  A line is  *)
(* a sequence of classes of characters: the blanks, the five characters    *)
(* operators are made of, the two quotes, and all others.  A token names   *)
(* the characters it covers, from..to-1; a word is made of parts, one per  *)
(* stretch of equally quoted text, the quotes themselves left out.         *)
(***************************************************************************)
EXTENDS Integers, Sequences

CONSTANT Lines            (* the lines the shell may be given              *)

Blanks    == {"blank"}
Quotes    == {"'", "\""}
Doublable == {"&", "|", ">", "<"}
Chars     == Blanks \cup Quotes \cup Doublable \cup {";", "other"}

ASSUME LinesAssumption == Lines \subseteq Seq(Chars)

VARIABLES
  input,                  (* the line                                      *)
  at,                     (* index of the next character                   *)
  lexer,                  (* where the scan is                             *)
  tokens,                 (* the token list                                *)
  start,                  (* where the word being scanned begins           *)
  parts                   (* and its parts so far                          *)

lexVars == <<input, at, lexer, tokens, start, parts>>

Char(i) == IF i \in 1..Len(input) THEN input[i] ELSE "NUL"

(* sh_lexer_operator_len: two equal characters before a single one.  A     *)
(* single & is no operator.                                                *)
Pair(i)   == Char(i) \in Doublable /\ Char(i + 1) = Char(i)

OperatorLen(i) ==
  IF Pair(i) THEN 2 ELSE IF Char(i) \in {"|", ";", "<", ">"} THEN 1 ELSE 0

Doubled(char) ==
  CASE char = "&" -> "&&" [] char = "|" -> "||" [] char = ">" -> ">>"
    [] OTHER      -> "<<"
Kind(i) == IF Pair(i) THEN Doubled(Char(i)) ELSE Char(i)

EndsWord(i) == Char(i) \in Blanks \cup {"NUL"} \/ OperatorLen(i) > 0

(* The first index from i on that satisfies the test; the end of the line  *)
(* always does.                                                            *)
FirstFrom(i, Test(_)) ==
  CHOOSE j \in i..Len(input) + 1 :
    /\ Test(j) \/ j = Len(input) + 1
    /\ \A k \in i..j-1 : ~Test(k)

(* Mutant: every & ends an unquoted part, a single one too.                *)
PlainEndAtAmpersand(i) ==
  FirstFrom(i, LAMBDA j : EndsWord(j) \/ Char(j) \in Quotes \cup {"&"})

(* sh_lexer_scan_plain_part.                                               *)
PlainEnd(i)  == FirstFrom(i, LAMBDA j : EndsWord(j) \/ Char(j) \in Quotes)

(* The closing quote of the part opened at i, or the end of the line.      *)
QuotedEnd(i) == FirstFrom(i + 1, LAMBDA j : Char(j) = Char(i))

Token(kind, from, to, ps) ==
  [kind |-> kind, from |-> from, to |-> to, parts |-> ps]
Part(quote, from, to) == [quote |-> quote, from |-> from, to |-> to]

LexInit ==
  /\ input \in Lines
  /\ at = 1 /\ lexer = "line" /\ tokens = <<>> /\ start = 1 /\ parts = <<>>
-----------------------------------------------------------------------------
(* The loop of sh_lex_line.                                                *)

SkipBlank ==
  /\ lexer = "line" /\ Char(at) \in Blanks
  /\ at' = at + 1
  /\ UNCHANGED <<input, lexer, tokens, start, parts>>

PushOperator ==
  /\ lexer = "line" /\ OperatorLen(at) > 0
  /\ tokens' = Append(tokens, Token(Kind(at), at, at + OperatorLen(at), <<>>))
  /\ at' = at + OperatorLen(at)
  /\ UNCHANGED <<input, lexer, start, parts>>

StartWord ==
  /\ lexer = "line" /\ ~EndsWord(at)
  /\ lexer' = "word" /\ start' = at /\ parts' = <<>>
  /\ UNCHANGED <<input, at, tokens>>

PushEnd ==
  /\ lexer = "line" /\ Char(at) = "NUL"
  /\ tokens' = Append(tokens, Token("EOF", at, at, <<>>))
  /\ lexer' = "lexed"
  /\ UNCHANGED <<input, at, start, parts>>

(* The loop of sh_lexer_scan_word.                                         *)

(* Mutant: the closing quote is left to be read again.                     *)
ScanQuotedLeavesQuote ==
  /\ lexer = "word" /\ Char(at) \in Quotes
  /\ parts' = Append(parts, Part(Char(at), at + 1, QuotedEnd(at)))
  /\ at' = QuotedEnd(at)
  /\ UNCHANGED <<input, lexer, tokens, start>>

(* Mutant: the closing quote is skipped without being there.               *)
ScanQuotedPastEnd ==
  /\ lexer = "word" /\ Char(at) \in Quotes
  /\ parts' = Append(parts, Part(Char(at), at + 1, QuotedEnd(at)))
  /\ at' = QuotedEnd(at) + 1
  /\ UNCHANGED <<input, lexer, tokens, start>>

(* A quote that is never closed takes the rest of the line and is not an   *)
(* error.                                                                  *)
ScanQuoted ==
  /\ lexer = "word" /\ Char(at) \in Quotes
  /\ parts' = Append(parts, Part(Char(at), at + 1, QuotedEnd(at)))
  /\ at' = IF Char(QuotedEnd(at)) = Char(at) THEN QuotedEnd(at) + 1
           ELSE QuotedEnd(at)
  /\ UNCHANGED <<input, lexer, tokens, start>>

ScanPlain ==
  /\ lexer = "word" /\ ~EndsWord(at) /\ Char(at) \notin Quotes
  /\ parts' = Append(parts, Part("none", at, PlainEnd(at)))
  /\ at' = PlainEnd(at)
  /\ UNCHANGED <<input, lexer, tokens, start>>

(* sh_lexer_finalize_word_token and the push: the word's text is its parts *)
(* one after the other.                                                    *)
EndWord ==
  /\ lexer = "word" /\ EndsWord(at)
  /\ tokens' = Append(tokens, Token("WORD", start, at, parts))
  /\ lexer' = "line" /\ parts' = <<>>
  /\ UNCHANGED <<input, at, start>>

LexNext == SkipBlank \/ PushOperator \/ StartWord \/ PushEnd
             \/ ScanQuoted \/ ScanPlain \/ EndWord

(* The scan alone.                                                         *)
LexSpec == LexInit /\ [][LexNext]_lexVars
-----------------------------------------------------------------------------
(* Properties.                                                             *)

Kinds == {"WORD", "EOF", "|", "||", "&&", ";", "<", ">", "<<", ">>"}

LexTypeOK ==
  /\ input \in Lines
  /\ lexer \in {"line", "word", "lexed"}
  /\ at \in 1..Len(input) + 1 /\ start \in 1..at
  /\ \A t \in DOMAIN tokens :
       tokens[t].kind \in Kinds /\ tokens[t].from \in 1..at
         /\ tokens[t].to \in tokens[t].from..at

(* How a line reads one character at a time.  The quote each character is  *)
(* read under: the first quote outside of quotes opens, the next of its    *)
(* kind closes.                                                            *)
Open[i \in 1..Len(input) + 1] ==
  IF i = 1 THEN "none"
  ELSE IF Open[i - 1] = "none"
       THEN IF Char(i - 1) \in Quotes THEN Char(i - 1) ELSE "none"
       ELSE IF Char(i - 1) = Open[i - 1] THEN "none" ELSE Open[i - 1]

(* The second character of a doubled operator: pairs are made from the     *)
(* left.                                                                   *)
Second[i \in 1..Len(input) + 1] ==
  i > 1 /\ Open[i - 1] = "none" /\ Pair(i - 1) /\ ~Second[i - 1]

Outside(i)   == Open[i] = "none" /\ Char(i) \notin Quotes
Delimits(i)  == Char(i) \in Quotes /\ Open[i] \in {"none", Char(i)}
Operates(i)  ==
  Outside(i) /\ (Char(i) \in {"|", ";", "<", ">"} \/ Second[i] \/ Second[i + 1])
InWord(i)    ==
  /\ i \in 1..Len(input)
  /\ ~(Outside(i) /\ Char(i) \in Blanks) /\ ~Operates(i)

WordSpans ==
  {s \in (1..Len(input)) \X (2..Len(input) + 1) :
     /\ s[1] < s[2] /\ \A i \in s[1]..s[2]-1 : InWord(i)
     /\ ~InWord(s[1] - 1) /\ ~InWord(s[2])}
OperatorSpans ==
  {<<i, IF Second[i + 1] THEN i + 2 ELSE i + 1>> :
     i \in {j \in 1..Len(input) : Operates(j) /\ ~Second[j]}}

Spans(ks) ==
  {<<tokens[t].from, tokens[t].to>> :
     t \in {u \in DOMAIN tokens : tokens[u].kind \in ks}}

(* The characters that a word's parts hold, each with the quote it is      *)
(* under.                                                                  *)
Texts(token) ==
  UNION {{<<i, token.parts[p].quote>> :
            i \in token.parts[p].from..token.parts[p].to-1} :
         p \in DOMAIN token.parts}

(* What the two nested loops cut out of a line is what reading it one      *)
(* character at a time gives: words are the longest runs of characters     *)
(* that are quoted, or neither blank nor operator; operators are paired    *)
(* from the left; tokens come in the order of the line; and a word's text  *)
(* is all of its characters but the quotes that delimit, each under the    *)
(* quote it was written in.                                                *)
LexedAsRead ==
  lexer = "lexed" =>
    /\ Spans({"WORD"}) = WordSpans
    /\ Spans(Kinds \ {"WORD", "EOF"}) = OperatorSpans
    /\ \A t \in 1..Len(tokens)-1 : tokens[t].to <= tokens[t + 1].from
    /\ \A t \in DOMAIN tokens :
         LET token == tokens[t] IN
         token.kind = "WORD" =>
           Texts(token) = {<<i, Open[i]>> :
                             i \in {j \in token.from..token.to-1 : ~Delimits(j)}}

(* What is left to do.  A word that has been opened has a part before it   *)
(* ends.                                                                   *)
CharactersLeft ==
  3 * (Len(input) + 1 - at)
    + (IF lexer = "line" THEN 1 ELSE IF parts # <<>> THEN 2 ELSE 0)
=============================================================================
