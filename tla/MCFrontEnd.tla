----------------------------- MODULE MCFrontEnd -----------------------------
(* All lines of up to four characters; lines of up to five lexemes, which  *)
(* are commands, operators and redirections next to one another in every   *)
(* order; and four commands with every choice of operators between them.   *)
EXTENDS FrontEnd

MCCharacterLines == UNION {[1..n -> Chars] : n \in 0..4}

Word == <<"other", "blank">>
Lexemes == {Word, <<"|">>, <<";">>, <<"<">>, <<"&", "&">>}
Between == {<<"|">>, <<";">>, <<"&", "&">>, <<"|", "|">>}

MCLexemeLines ==
  {a \o b \o c \o d \o e : a \in Lexemes, b \in Lexemes, c \in Lexemes,
                           d \in Lexemes, e \in Lexemes \cup {<<>>}}
MCCommandLines ==
  {Word \o a \o Word \o b \o Word \o c \o Word :
     a \in Between, b \in Between, c \in Between}

MCLines == MCCharacterLines \cup MCLexemeLines \cup MCCommandLines
=============================================================================
