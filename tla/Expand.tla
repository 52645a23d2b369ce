-------------------------------- MODULE Expand --------------------------------
(***************************************************************************)
(* The preparation of a command's words: $? and variables are replaced in  *)
(* the parts that are not in single quotes, and the parts are put together *)
(* to the word's text.  Text is a sequence of characters; identifiers are  *)
(* made of Letters and Digits.                                             *)
(***************************************************************************)
EXTENDS Buffer, FiniteSets

CONSTANTS Commands,       (* words, environment and status to begin with   *)
          Letters         (* the characters an identifier may begin with   *)

Digits == <<"0", "1", "2", "3", "4", "5", "6", "7", "8", "9">>
Digit  == {Digits[d] : d \in DOMAIN Digits}

(* What text is made of, all that means nothing here taken together.       *)
Characters == Letters \cup Digit \cup {"$", "?", "/", ":", "other"}
QuoteKinds == {"none", "'", "\""}
Parts      == [quote : QuoteKinds, text : Seq(Characters)]

(* The end of a text is none of its characters.                            *)
ASSUME CommandsAssumption ==
  /\ Letters \cap (Digit \cup {"$", "?", "/", ":", "other", "NUL"}) = {}
  /\ \A c \in Commands :
       /\ c.words \in Seq(Seq(Parts)) /\ c.words # <<>>
       /\ \A w \in DOMAIN c.words : c.words[w] # <<>>
       /\ c.env \in [DOMAIN c.env -> Seq(Characters)] /\ c.status \in 0..255

VARIABLES
  words,                  (* what the parser made: each word its parts     *)
  env,                    (* names that have a value, and the values       *)
  lastStatus,             (* $?                                            *)
  expander,               (* where the preparation is                      *)
  part, at,               (* the part being read, the character within     *)
  inner,                  (* sh_expand_text's buffer                       *)
  outer,                  (* sh_prepare_word_text's buffer                 *)
  prepared                (* the texts of the words done                   *)

given      == <<words, env, lastStatus>>
expandVars == <<given, expander, part, at, inner, outer, prepared>>

Word == words[Len(prepared) + 1]
Text == Word[part].text
Char(i) == IF i \in DOMAIN Text THEN Text[i] ELSE "NUL"

IdentifierChar(c) == c \in Letters \cup Digit

(* Mutant: digits do not belong to a name.                                 *)
NameEndLetters(text, i) ==
  CHOOSE j \in i..Len(text) + 1 :
    /\ \A k \in i..j-1 : text[k] \in Letters
    /\ j = Len(text) + 1 \/ text[j] \notin Letters

(* sh_parameter_identifier_len: the first character after the name.        *)
NameEnd(text, i) ==
  IF i > Len(text) \/ text[i] \notin Letters THEN i
  ELSE CHOOSE j \in i + 1..Len(text) + 1 :
         /\ \A k \in i..j-1 : IdentifierChar(text[k])
         /\ j = Len(text) + 1 \/ ~IdentifierChar(text[j])

(* sh_parameter_variable_value: what has no value is empty.                *)
Value(name) == IF name \in DOMAIN env THEN env[name] ELSE <<>>

(* sh_parameter_status_value: the status in decimal digits.                *)
Decimal(n) ==
  (IF n >= 100 THEN <<Digits[(n \div 100) + 1]>> ELSE <<>>)
    \o (IF n >= 10 THEN <<Digits[((n \div 10) % 10) + 1]>> ELSE <<>>)
    \o <<Digits[(n % 10) + 1]>>

ExpandInit ==
  /\ \E c \in Commands :
       words = c.words /\ env = c.env /\ lastStatus = c.status
  /\ expander = "word" /\ part = 1 /\ at = 1 /\ prepared = <<>>
  /\ inner = EmptyText /\ outer = EmptyText
-----------------------------------------------------------------------------
(* sh_prepare_word_text, for each word of the command.  A word of the      *)
(* lexer has a part, so that the branch for a word without any is not      *)
(* taken.                                                                  *)

StartWord ==
  /\ expander = "word" /\ Len(prepared) < Len(words)
  /\ outer' = EmptyText /\ part' = 1 /\ expander' = "part"
  /\ UNCHANGED <<given, at, inner, prepared>>

LiteralPart ==
  /\ expander = "part" /\ part \in DOMAIN Word /\ Word[part].quote = "'"
  /\ outer' = TextAppend(outer, Text)
  /\ part' = part + 1
  /\ UNCHANGED <<given, expander, at, inner, prepared>>

OpenPart ==
  /\ expander = "part" /\ part \in DOMAIN Word /\ Word[part].quote # "'"
  /\ inner' = EmptyText /\ at' = 1 /\ expander' = "scan"
  /\ UNCHANGED <<given, part, outer, prepared>>

EndWord ==
  /\ expander = "part" /\ part \notin DOMAIN Word
  /\ prepared' = Append(prepared, outer.data)
  /\ expander' = "word"
  /\ UNCHANGED <<given, part, at, inner, outer>>

(* The loop of sh_expand_text.  What is put in is not read again.          *)

(* Mutant: a $ consumes the character after it whatever it is.             *)
ExpandStatusAlways ==
  /\ expander = "scan" /\ Char(at) = "$"
  /\ Char(at + 1) = "?" \/ NameEnd(Text, at + 1) = at + 1
  /\ inner' = TextAppend(inner, Decimal(lastStatus))
  /\ at' = at + 2
  /\ UNCHANGED <<given, expander, part, outer, prepared>>

ExpandStatus ==
  /\ expander = "scan" /\ Char(at) = "$" /\ Char(at + 1) = "?"
  /\ inner' = TextAppend(inner, Decimal(lastStatus))
  /\ at' = at + 2
  /\ UNCHANGED <<given, expander, part, outer, prepared>>

ExpandVariable ==
  /\ expander = "scan" /\ Char(at) = "$" /\ NameEnd(Text, at + 1) > at + 1
  /\ inner' = TextAppend(inner,
                Value(SubSeq(Text, at + 1, NameEnd(Text, at + 1) - 1)))
  /\ at' = NameEnd(Text, at + 1)
  /\ UNCHANGED <<given, expander, part, outer, prepared>>

PushChar ==
  /\ expander = "scan" /\ Char(at) # "NUL"
  /\ Char(at) = "$" =>
       Char(at + 1) # "?" /\ NameEnd(Text, at + 1) = at + 1
  /\ inner' = TextAppend(inner, <<Char(at)>>)
  /\ at' = at + 1
  /\ UNCHANGED <<given, expander, part, outer, prepared>>

ClosePart ==
  /\ expander = "scan" /\ Char(at) = "NUL"
  /\ outer' = TextAppend(outer, inner.data)
  /\ part' = part + 1 /\ expander' = "part"
  /\ UNCHANGED <<given, at, inner, prepared>>

ExpandNext == StartWord \/ LiteralPart \/ OpenPart \/ EndWord \/ ExpandStatus
                \/ ExpandVariable \/ PushChar \/ ClosePart
-----------------------------------------------------------------------------
(* Properties.                                                             *)

ExpandTypeOK ==
  /\ expander \in {"word", "part", "scan"}
  /\ Len(prepared) \in 0..Len(words)
  /\ expander # "word" => part \in 1..Len(Word) + 1
  /\ expander = "scan" => at \in 1..Len(Text) + 1

(* What the character at i of a text stands for.  A $ begins a parameter   *)
(* when ? or a letter follows; a character after it is part of its name    *)
(* when only letters and digits are in between.                            *)
Begins(text, i) ==
  /\ text[i] = "$" /\ i < Len(text) /\ text[i + 1] \in Letters \cup {"?"}
NamedBy(text, i, j) ==    (* j belongs to the parameter that begins at i   *)
  IF text[i + 1] = "?" THEN j = i + 1
  ELSE j > i /\ \A k \in i+1..j : IdentifierChar(text[k])
Meaning(text, i) ==
  IF Begins(text, i) THEN
    IF text[i + 1] = "?" THEN Decimal(lastStatus)
    ELSE LET name == {j \in i+1..Len(text) : NamedBy(text, i, j)}
         IN Value(SubSeq(text, i + 1, i + Cardinality(name)))
  ELSE IF \E b \in 1..i-1 : Begins(text, b) /\ NamedBy(text, b, i) THEN <<>>
  ELSE <<text[i]>>

Concatenated(seqs) ==
  LET upTo[n \in 0..Len(seqs)] ==
        IF n = 0 THEN <<>> ELSE upTo[n - 1] \o seqs[n]
  IN upTo[Len(seqs)]
MeaningOf(p) ==
  IF p.quote = "'" THEN p.text
  ELSE Concatenated([i \in 1..Len(p.text) |-> Meaning(p.text, i)])

(* A prepared word is what its characters stand for, each read once: a     *)
(* value is put in as it is, whatever it contains, a name ends with its    *)
(* part, and what is in single quotes stands for itself.                   *)
ExpandedAsWritten ==
  \A w \in DOMAIN prepared :
    prepared[w] = Concatenated([p \in 1..Len(words[w]) |->
                                  MeaningOf(words[w][p])])
=============================================================================
