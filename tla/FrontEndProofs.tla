--------------------------- MODULE FrontEndProofs ---------------------------
(* What holds of the way of a line from its characters to its tree, however *)
(* long the line is and whatever it holds.                                  *)
EXTENDS FrontEnd, Induction, FiniteSetTheorems

-----------------------------------------------------------------------------
(* The scan.                                                                *)

LEMMA InputType == input \in Lines => Len(input) \in Nat
  BY LinesAssumption

(* A stretch of unquoted characters ends behind its first one.              *)
LEMMA PlainEnds ==
  ASSUME input \in Lines, NEW i \in 1..Len(input),
         ~EndsWord(i), Char(i) \notin Quotes
  PROVE  /\ PlainEnd(i) \in i+1..Len(input) + 1
         /\ \A k \in i..PlainEnd(i)-1 : ~EndsWord(k) /\ Char(k) \notin Quotes
<1> DEFINE Stops(j) == EndsWord(j) \/ Char(j) \in Quotes
           S == {j \in i..Len(input) + 1 : Stops(j) \/ j = Len(input) + 1}
           Closes(j) == /\ Stops(j) \/ j = Len(input) + 1
                      /\ \A k \in i..j-1 : ~Stops(k)
<1>1. Len(input) \in Nat
  BY InputType
<1>2. S \subseteq Nat /\ Len(input) + 1 \in S
  BY <1>1
<1> HIDE DEF Stops
<1>3. PICK x \in S : \A y \in S : x <= y
  BY <1>2, LeastExists
<1>4. \A k \in i..x-1 : ~Stops(k)
  BY <1>1, <1>3
<1>5. \E j \in i..Len(input) + 1 : Closes(j)
  BY <1>3, <1>4
<1>6. PlainEnd(i) = CHOOSE j \in i..Len(input) + 1 : Closes(j)
  BY DEF PlainEnd, FirstFrom, Stops
<1>7. PlainEnd(i) \in i..Len(input) + 1 /\ Closes(PlainEnd(i))
  <2> HIDE DEF Closes
  <2>1. QED
    BY <1>5, <1>6
<1>8. ~Stops(i)
  BY DEF Stops
<1>9. \A k \in i..PlainEnd(i)-1 : ~Stops(k)
  BY <1>7
<1>10. PlainEnd(i) \in i+1..Len(input) + 1
  BY <1>1, <1>7, <1>8
<1>11. QED
  BY <1>9, <1>10 DEF Stops

(* A stretch of quoted ones ends at the quote that closes it, or with the   *)
(* line.                                                                    *)
LEMMA QuotedEnds ==
  ASSUME input \in Lines, NEW i \in 1..Len(input)
  PROVE  /\ QuotedEnd(i) \in i+1..Len(input) + 1
         /\ \A k \in i+1..QuotedEnd(i)-1 : Char(k) # Char(i)
         /\ Char(QuotedEnd(i)) = Char(i) \/ QuotedEnd(i) = Len(input) + 1
<1> DEFINE Stops(j) == Char(j) = Char(i)
           S == {j \in i+1..Len(input) + 1 : Stops(j) \/ j = Len(input) + 1}
           Closes(j) == /\ Stops(j) \/ j = Len(input) + 1
                      /\ \A k \in i+1..j-1 : ~Stops(k)
<1>1. Len(input) \in Nat
  BY InputType
<1>2. S \subseteq Nat /\ Len(input) + 1 \in S
  BY <1>1
<1> HIDE DEF Stops
<1>3. PICK x \in S : \A y \in S : x <= y
  BY <1>2, LeastExists
<1>4. \A k \in i+1..x-1 : ~Stops(k)
  BY <1>1, <1>3
<1>5. \E j \in i+1..Len(input) + 1 : Closes(j)
  BY <1>3, <1>4
<1>6. QuotedEnd(i) = CHOOSE j \in i+1..Len(input) + 1 : Closes(j)
  BY DEF QuotedEnd, FirstFrom, Stops
<1>7. QuotedEnd(i) \in i+1..Len(input) + 1 /\ Closes(QuotedEnd(i))
  <2> HIDE DEF Closes
  <2>1. QED
    BY <1>5, <1>6
<1>8. QED
  BY <1>7 DEF Stops

(* What the loops know of the character they look at.                       *)
LEMMA CharFacts ==
  ASSUME input \in Lines, NEW i \in Int
  PROVE  /\ Char(i) # "NUL" => i \in 1..Len(input)
         /\ Char(i) = "NUL" => i \notin 1..Len(input)
         /\ OperatorLen(i) > 0 =>
              /\ OperatorLen(i) \in {1, 2} /\ i + OperatorLen(i) <= Len(input) + 1
              /\ i \in 1..Len(input) /\ Kind(i) \in Kinds \ {"EOF"}
         /\ ~EndsWord(i) => i \in 1..Len(input)
         /\ Char(i) \in Blanks => i \in 1..Len(input)
<1>1. Len(input) \in Nat /\ \A k \in 1..Len(input) : input[k] \in Chars
  BY LinesAssumption
<1>2. Char(i) # "NUL" => i \in 1..Len(input)
  BY DEF Char
<1>3. "NUL" \notin Chars
  BY DEF Chars, Blanks, Quotes, Doublable
<1>4. Char(i) = "NUL" => i \notin 1..Len(input)
  BY <1>1, <1>3 DEF Char
<1>5. Pair(i) => i \in 1..Len(input) /\ i + 1 \in 1..Len(input)
  BY DEF Pair, Doublable, Char
<1>6. OperatorLen(i) > 0 =>
        /\ OperatorLen(i) \in {1, 2} /\ i + OperatorLen(i) <= Len(input) + 1
        /\ i \in 1..Len(input)
  <2>1. CASE Pair(i)
    BY <1>1, <1>5, <2>1 DEF OperatorLen
  <2>2. CASE ~Pair(i) /\ Char(i) \in {"|", ";", "<", ">"}
    <3>1. OperatorLen(i) = 1
      BY <2>2 DEF OperatorLen, Pair
    <3>2. i \in 1..Len(input)
      BY <1>2, <2>2
    <3>3. QED
      BY <1>1, <3>1, <3>2
  <2>3. CASE ~Pair(i) /\ Char(i) \notin {"|", ";", "<", ">"}
    <3>1. OperatorLen(i) = 0
      BY <2>3 DEF OperatorLen, Pair
    <3>2. QED
      BY <3>1
  <2>4. QED
    BY <2>1, <2>2, <2>3
<1>7. OperatorLen(i) > 0 => Kind(i) \in Kinds \ {"EOF"}
  <2>1. CASE Pair(i)
    BY <2>1 DEF Kind, Doubled, Kinds
  <2>2. CASE ~Pair(i)
    <3>1. CASE Char(i) \in {"|", ";", "<", ">"}
      BY <2>2, <3>1 DEF Kind, Kinds
    <3>2. CASE Char(i) \notin {"|", ";", "<", ">"}
      <4>1. OperatorLen(i) = 0
        BY <2>2, <3>2 DEF OperatorLen, Pair
      <4>2. QED
        BY <4>1
    <3>3. QED
      BY <3>1, <3>2
  <2>3. QED
    BY <2>1, <2>2
<1>8. QED
  BY <1>2, <1>4, <1>6, <1>7 DEF EndsWord, Blanks

PartRecords  == [quote : Quotes \cup {"none"}, from : Nat, to : Nat]
TokenRecords ==
  [kind : Kinds, from : Nat, to : Nat, parts : Seq(PartRecords)]

(* What the scan keeps: a word that is open and has no part yet looks at a  *)
(* character of its first part; the end is the last token and only it.      *)
LexInv ==
  /\ LexTypeOK
  /\ tokens \in Seq(TokenRecords)
  /\ parts \in Seq(PartRecords)
  /\ lexer = "word" /\ parts = <<>> => ~EndsWord(at)
  /\ lexer # "lexed" => \A t \in 1..Len(tokens) : tokens[t].kind # "EOF"
  /\ lexer = "lexed" => P!Delivered

LEMMA LexStarts == LexInit => LexInv
<1> SUFFICES ASSUME LexInit
             PROVE  LexInv
  OBVIOUS
<1>1. Len(input) \in Nat
  BY InputType DEF LexInit
<1>2. LexTypeOK
  BY <1>1 DEF LexInit, LexTypeOK
<1>3. QED
  BY <1>2 DEF LexInit, LexInv

(* A token pushed behind the others.                                        *)
LEMMA Pushed ==
  ASSUME LexInv, lexer # "lexed", NEW token \in TokenRecords,
         tokens' = Append(tokens, token), input' = input,
         at' \in at..Len(input) + 1,
         token.from \in 1..at', token.to \in token.from..at'
  PROVE  /\ tokens' \in Seq(TokenRecords)
         /\ Len(tokens') = Len(tokens) + 1 /\ tokens'[Len(tokens')] = token
         /\ \A t \in 1..Len(tokens) : tokens'[t].kind # "EOF"
         /\ \A t \in DOMAIN tokens' :
              tokens'[t].kind \in Kinds /\ tokens'[t].from \in 1..at'
                /\ tokens'[t].to \in tokens'[t].from..at'
<1>1. tokens \in Seq(TokenRecords) /\ Len(tokens) \in Nat
  BY DEF LexInv
<1>2. tokens' \in Seq(TokenRecords)
  BY <1>1
<1>3. Len(tokens') = Len(tokens) + 1 /\ tokens'[Len(tokens')] = token
  BY <1>1
<1>4. \A t \in 1..Len(tokens) : tokens'[t] = tokens[t]
  BY <1>1
<1>5. at \in 1..Len(input) + 1 /\ Len(input) \in Nat
  BY InputType DEF LexInv, LexTypeOK
<1>6. \A t \in DOMAIN tokens' :
         tokens'[t].kind \in Kinds /\ tokens'[t].from \in 1..at'
           /\ tokens'[t].to \in tokens'[t].from..at'
  <2> SUFFICES ASSUME NEW t \in DOMAIN tokens'
               PROVE  tokens'[t].kind \in Kinds /\ tokens'[t].from \in 1..at'
                        /\ tokens'[t].to \in tokens'[t].from..at'
    OBVIOUS
  <2>1. CASE t = Len(tokens')
    BY <1>3, <2>1 DEF TokenRecords
  <2>2. CASE t # Len(tokens')
    <3>1. t \in DOMAIN tokens /\ tokens'[t] = tokens[t]
      BY <1>1, <1>2, <1>3, <1>4, <2>2
    <3>2. /\ tokens[t].kind \in Kinds /\ tokens[t].from \in 1..at
          /\ tokens[t].to \in tokens[t].from..at
      BY <3>1 DEF LexInv, LexTypeOK
    <3>3. QED
      BY <1>5, <3>1, <3>2
  <2>3. QED
    BY <2>1, <2>2
<1>7. \A t \in 1..Len(tokens) : tokens'[t].kind # "EOF"
  BY <1>4 DEF LexInv
<1>8. QED
  BY <1>2, <1>3, <1>6, <1>7

(* Whoever moves on has less before it, whatever the branch of the loop.    *)
LEMMA Nearer ==
  ASSUME NEW n \in Nat, NEW a \in Int, NEW b \in Int, a < b,
         NEW u \in {0, 1, 2}, NEW v \in {0, 1, 2}
  PROVE  3 * (n + 1 - b) + v < 3 * (n + 1 - a) + u
  OBVIOUS

LEMMA MovesOn ==
  ASSUME Len(input) \in Nat, input' = input,
         at \in Int, at' \in Int, at < at'
  PROVE  CharactersLeft' < CharactersLeft
<1>1. PICK u \in {0, 1, 2} : CharactersLeft = 3 * (Len(input) + 1 - at) + u
  BY DEF CharactersLeft
<1>2. PICK v \in {0, 1, 2} : CharactersLeft' = 3 * (Len(input) + 1 - at') + v
  BY DEF CharactersLeft
<1>3. QED
  BY <1>1, <1>2, Nearer

(* Every turn of the two loops keeps it and has less of the line before it. *)
LEMMA LexStep ==
  ASSUME LexInv, lexer # "lexed", LexNext
  PROVE  /\ LexInv'
         /\ lexer' = "lexed" \/ CharactersLeft' < CharactersLeft
<1>1. /\ input \in Lines /\ Len(input) \in Nat
      /\ at \in 1..Len(input) + 1 /\ start \in 1..at
      /\ tokens \in Seq(TokenRecords) /\ parts \in Seq(PartRecords)
  BY InputType DEF LexInv, LexTypeOK
<1>2. input' = input
  BY DEF LexNext, SkipBlank, PushOperator, StartWord, PushEnd, ScanQuoted,
         ScanPlain, EndWord
<1>3. CASE SkipBlank
  <2>1. at' \in 1..Len(input) + 1 /\ at' = at + 1
    BY <1>1, <1>3, CharFacts DEF SkipBlank
  <2>2. LexTypeOK'
    BY <1>1, <1>2, <1>3, <2>1 DEF SkipBlank, LexInv, LexTypeOK
  <2>3. LexInv'
    BY <1>3, <2>2 DEF SkipBlank, LexInv
  <2>4. QED
    <3>1. at \in Int /\ at' \in Int /\ at < at'
      BY <1>1, <2>1
    <3>2. QED
      BY <1>1, <1>2, <2>3, <3>1, MovesOn
<1>4. CASE PushOperator
  <2> DEFINE token == Token(Kind(at), at, at + OperatorLen(at), <<>>)
  <2>1. /\ OperatorLen(at) \in {1, 2} /\ Kind(at) \in Kinds \ {"EOF"}
        /\ at + OperatorLen(at) <= Len(input) + 1
    BY <1>1, <1>4, CharFacts DEF PushOperator
  <2>2. /\ token \in TokenRecords
        /\ token.from = at /\ token.to = at + OperatorLen(at)
        /\ token.kind # "EOF"
    BY <1>1, <2>1 DEF Token, TokenRecords
  <2>3. /\ tokens' = Append(tokens, token) /\ at' = at + OperatorLen(at)
        /\ UNCHANGED <<input, lexer, start, parts>> /\ lexer = "line"
    BY <1>4 DEF PushOperator
  <2> HIDE DEF token
  <2>4. /\ tokens' \in Seq(TokenRecords)
        /\ Len(tokens') = Len(tokens) + 1 /\ tokens'[Len(tokens')] = token
        /\ \A t \in 1..Len(tokens) : tokens'[t].kind # "EOF"
        /\ \A t \in DOMAIN tokens' :
             tokens'[t].kind \in Kinds /\ tokens'[t].from \in 1..at'
               /\ tokens'[t].to \in tokens'[t].from..at'
    <3>1. at' \in at..Len(input) + 1
      BY <1>1, <2>1, <2>3
    <3>2. token.from \in 1..at' /\ token.to \in token.from..at'
      BY <1>1, <2>1, <2>2, <2>3
    <3>3. QED
      BY <1>2, <2>2, <2>3, <3>1, <3>2, Pushed
  <2>5. LexTypeOK'
    BY <1>1, <2>1, <2>3, <2>4 DEF LexTypeOK
  <2>6. \A t \in 1..Len(tokens') : tokens'[t].kind # "EOF"
    BY <1>1, <2>2, <2>4
  <2>7. LexInv'
    BY <1>1, <2>3, <2>4, <2>5, <2>6 DEF LexInv
  <2>8. at \in Int /\ at' \in Int /\ at < at'
    BY <1>1, <2>1, <2>3
  <2>9. QED
    BY <1>1, <1>2, <2>7, <2>8, MovesOn
<1>5. CASE StartWord
  <2>1. LexTypeOK'
    BY <1>1, <1>5 DEF StartWord, LexInv, LexTypeOK
  <2>2. ~EndsWord(at)'
    BY <1>5, <1>2 DEF StartWord, EndsWord, OperatorLen, Pair, Char
  <2>3. LexInv'
    BY <1>5, <2>1, <2>2 DEF StartWord, LexInv
  <2>4. QED
    BY <1>1, <1>5, <2>3 DEF StartWord, CharactersLeft
<1>6. CASE PushEnd
  <2> DEFINE token == Token("EOF", at, at, <<>>)
  <2>1. /\ token \in TokenRecords
        /\ token.from = at /\ token.to = at /\ token.kind = "EOF"
    <3>1. "EOF" \in Kinds /\ at \in Nat /\ <<>> \in Seq(PartRecords)
      BY <1>1 DEF Kinds
    <3>2. QED
      BY <3>1 DEF Token, TokenRecords
  <2>2. /\ tokens' = Append(tokens, token) /\ lexer' = "lexed"
        /\ UNCHANGED <<input, at, start, parts>> /\ lexer = "line"
    BY <1>6 DEF PushEnd
  <2> HIDE DEF token
  <2>3. /\ tokens' \in Seq(TokenRecords)
        /\ Len(tokens') = Len(tokens) + 1 /\ tokens'[Len(tokens')] = token
        /\ \A t \in 1..Len(tokens) : tokens'[t].kind # "EOF"
        /\ \A t \in DOMAIN tokens' :
             tokens'[t].kind \in Kinds /\ tokens'[t].from \in 1..at'
               /\ tokens'[t].to \in tokens'[t].from..at'
    BY <1>1, <2>1, <2>2, Pushed
  <2>4. LexTypeOK'
    BY <1>1, <2>2, <2>3 DEF LexTypeOK
  <2>5. P!Delivered'
    <3>1. Len(tokens') \in Nat \ {0} /\ DOMAIN tokens' = 1..Len(tokens')
      BY <1>1, <2>3
    <3>2. \A t \in DOMAIN tokens' :
            tokens'[t].kind \in P!Kinds
              /\ (tokens'[t].kind = "EOF" <=> t = Len(tokens'))
      <4> SUFFICES ASSUME NEW t \in DOMAIN tokens'
                   PROVE  tokens'[t].kind \in P!Kinds
                            /\ (tokens'[t].kind = "EOF" <=> t = Len(tokens'))
        OBVIOUS
      <4>1. tokens'[t].kind \in P!Kinds
        BY <2>3 DEF Kinds, P!Kinds, P!Joints, P!Redirectors
      <4>2. CASE t = Len(tokens')
        BY <2>1, <2>3, <4>1, <4>2
      <4>3. CASE t # Len(tokens')
        BY <1>1, <2>3, <3>1, <4>1, <4>3
      <4>4. QED
        BY <4>2, <4>3
    <3>3. QED
      BY <3>1, <3>2 DEF P!Delivered
  <2>6. QED
    BY <1>1, <2>2, <2>3, <2>4, <2>5 DEF LexInv
<1>7. CASE ScanQuoted
  <2>1. Char(at) # "NUL" /\ at \in 1..Len(input)
    <3>1. Char(at) # "NUL"
      BY <1>7 DEF ScanQuoted, Quotes
    <3>2. QED
      BY <1>1, <3>1, CharFacts
  <2>2. QuotedEnd(at) \in at+1..Len(input) + 1
    BY <1>1, <2>1, QuotedEnds
  <2>3. Char(QuotedEnd(at)) = Char(at) => QuotedEnd(at) \in 1..Len(input)
    <3> SUFFICES ASSUME Char(QuotedEnd(at)) = Char(at)
                 PROVE  QuotedEnd(at) \in 1..Len(input)
      OBVIOUS
    <3>1. Char(QuotedEnd(at)) # "NUL" /\ QuotedEnd(at) \in Int
      BY <1>1, <2>1, <2>2
    <3>2. QED
      BY <1>1, <3>1, CharFacts
  <2>4. at' \in at+1..Len(input) + 1
    BY <1>1, <1>7, <2>1, <2>2, <2>3 DEF ScanQuoted
  <2>5. Part(Char(at), at + 1, QuotedEnd(at)) \in PartRecords
    BY <1>7, <2>1, <2>2 DEF ScanQuoted, Part, PartRecords
  <2>6. parts' \in Seq(PartRecords) /\ parts' # <<>>
    BY <1>1, <1>7, <2>5 DEF ScanQuoted
  <2>7. LexTypeOK'
    <3>1. /\ lexer' = "word" /\ start' \in 1..at' /\ at' \in 1..Len(input') + 1
          /\ input' \in Lines
      BY <1>1, <1>2, <1>7, <2>4 DEF ScanQuoted
    <3>2. \A t \in DOMAIN tokens' :
             tokens'[t].kind \in Kinds /\ tokens'[t].from \in 1..at'
               /\ tokens'[t].to \in tokens'[t].from..at'
      <4>1. tokens' = tokens /\ at \in Nat /\ at' \in Nat /\ at <= at'
        BY <1>1, <1>7, <2>4 DEF ScanQuoted
      <4> SUFFICES ASSUME NEW t \in DOMAIN tokens
                   PROVE  /\ tokens[t].kind \in Kinds
                          /\ tokens[t].from \in 1..at'
                          /\ tokens[t].to \in tokens[t].from..at'
        BY <4>1
      <4>2. /\ tokens[t].kind \in Kinds /\ tokens[t].from \in 1..at
            /\ tokens[t].to \in tokens[t].from..at
        BY <1>1 DEF LexInv, LexTypeOK
      <4>3. QED
        BY <4>1, <4>2
    <3>3. QED
      BY <3>1, <3>2 DEF LexTypeOK
  <2>8. LexInv'
    BY <1>7, <2>6, <2>7 DEF ScanQuoted, LexInv
  <2>9. QED
    <3>1. at \in Int /\ at' \in Int /\ at < at'
      BY <1>1, <2>4
    <3>2. QED
      BY <1>1, <1>2, <2>8, <3>1, MovesOn
<1>8. CASE ScanPlain
  <2>1. at \in 1..Len(input)
    BY <1>1, <1>8, CharFacts DEF ScanPlain
  <2>2. at' \in at+1..Len(input) + 1
    BY <1>1, <1>8, <2>1, PlainEnds DEF ScanPlain
  <2>3. Part("none", at, PlainEnd(at)) \in PartRecords
    BY <1>1, <1>8, <2>1, <2>2 DEF ScanPlain, Part, PartRecords
  <2>4. parts' \in Seq(PartRecords) /\ parts' # <<>>
    BY <1>1, <1>8, <2>3 DEF ScanPlain
  <2>5. LexTypeOK'
    <3>1. /\ lexer' = "word" /\ start' \in 1..at' /\ at' \in 1..Len(input') + 1
          /\ input' \in Lines
      BY <1>1, <1>2, <1>8, <2>2 DEF ScanPlain
    <3>2. \A t \in DOMAIN tokens' :
             tokens'[t].kind \in Kinds /\ tokens'[t].from \in 1..at'
               /\ tokens'[t].to \in tokens'[t].from..at'
      BY <1>1, <1>8, <2>2 DEF ScanPlain, LexInv, LexTypeOK
    <3>3. QED
      BY <3>1, <3>2 DEF LexTypeOK
  <2>6. LexInv'
    BY <1>8, <2>4, <2>5 DEF ScanPlain, LexInv
  <2>7. QED
    <3>1. at \in Int /\ at' \in Int /\ at < at'
      BY <1>1, <2>2
    <3>2. QED
      BY <1>1, <1>2, <2>6, <3>1, MovesOn
<1>9. CASE EndWord
  <2> DEFINE token == Token("WORD", start, at, parts)
  <2>1. /\ token \in TokenRecords
        /\ token.from = start /\ token.to = at /\ token.kind = "WORD"
    <3>1. "WORD" \in Kinds /\ at \in Nat /\ start \in Nat
      BY <1>1 DEF Kinds
    <3>2. QED
      BY <1>1, <3>1 DEF Token, TokenRecords
  <2>2. /\ tokens' = Append(tokens, token) /\ lexer' = "line"
        /\ UNCHANGED <<input, at, start>> /\ lexer = "word" /\ parts' = <<>>
        /\ EndsWord(at)
    BY <1>9 DEF EndWord
  <2> HIDE DEF token
  <2>3. /\ tokens' \in Seq(TokenRecords)
        /\ Len(tokens') = Len(tokens) + 1 /\ tokens'[Len(tokens')] = token
        /\ \A t \in 1..Len(tokens) : tokens'[t].kind # "EOF"
        /\ \A t \in DOMAIN tokens' :
             tokens'[t].kind \in Kinds /\ tokens'[t].from \in 1..at'
               /\ tokens'[t].to \in tokens'[t].from..at'
    <3>1. /\ at' \in at..Len(input) + 1 /\ input' = input /\ lexer # "lexed"
          /\ token.from \in 1..at' /\ token.to \in token.from..at'
      BY <1>1, <2>1, <2>2
    <3>2. QED
      BY <1>1, <2>1, <2>2, <3>1, Pushed
  <2>4. LexTypeOK'
    BY <1>1, <2>2, <2>3 DEF LexTypeOK
  <2>5. \A t \in 1..Len(tokens') : tokens'[t].kind # "EOF"
    BY <1>1, <2>1, <2>3
  <2>6. LexInv'
    BY <1>1, <2>2, <2>3, <2>4, <2>5 DEF LexInv
  <2>7. parts # <<>>
    BY <2>2 DEF LexInv
  <2>8. QED
    BY <1>1, <2>2, <2>6, <2>7 DEF CharactersLeft
<1>10. QED
  BY <1>3, <1>4, <1>5, <1>6, <1>7, <1>8, <1>9 DEF LexNext

-----------------------------------------------------------------------------
(* The line, read one character at a time.                                  *)

Single == {"|", ";", "<", ">"}
Under  == Quotes \cup {"none"}

LEMMA Classes ==
  /\ Blanks \cap Quotes = {} /\ Doublable \cap Quotes = {}
  /\ Single \cap Quotes = {} /\ Blanks \cap Doublable = {}
  /\ Blanks \cap Single = {}
  /\ "none" \notin Quotes
  /\ "NUL" \notin Blanks \cup Quotes \cup Doublable \cup Single
BY DEF Blanks, Quotes, Doublable, Single

(* The quote behind a character that is read under q.                       *)
NextQuote(i, q) ==
  IF q = "none" THEN IF Char(i) \in Quotes THEN Char(i) ELSE "none"
  ELSE IF Char(i) = q THEN "none" ELSE q
OpenStep(u) ==
  [i \in 1..Len(input) + 1 |-> IF i = 1 THEN "none" ELSE NextQuote(i - 1, u[i - 1])]

LEMMA OpenIs == Open = CHOOSE u : u = OpenStep(u)
BY DEF Open, OpenStep, NextQuote

LEMMA OpenFacts ==
  ASSUME input \in Lines
  PROVE  /\ Open[1] = "none"
         /\ \A i \in 1..Len(input) : Open[i + 1] = NextQuote(i, Open[i])
<1>1. Len(input) \in Nat
  BY InputType
<1> DEFINE n == Len(input)
           step == [k \in Nat |-> [q \in Under |-> NextQuote(k, q)]]
<1>2. \A k \in Nat, q \in Under : NextQuote(k, q) \in Under
  BY DEF NextQuote, Under
<1>3. step \in Steps(Under) /\ \A k \in Nat, q \in Under : step[k][q] = NextQuote(k, q)
  BY <1>2 DEF Steps
<1>4. "none" \in Under
  BY DEF Under
<1> HIDE DEF step, n
<1>5. PICK f : IsDefinedTo(n, f, Under, "none", step)
  <2>1. n \in Nat
    BY <1>1 DEF n
  <2>2. QED
    BY <1>3, <1>4, <2>1, FunctionExists
<1> USE DEF n
<1>6. /\ f \in [1..n + 1 -> Under] /\ f[1] = "none"
      /\ \A k \in 1..n : f[k + 1] = NextQuote(k, f[k])
  BY <1>1, <1>3, <1>5 DEF IsDefinedTo
<1>7. f = OpenStep(f)
  <2>1. ASSUME NEW i \in 1..n + 1
        PROVE  f[i] = IF i = 1 THEN "none" ELSE NextQuote(i - 1, f[i - 1])
    <3>1. i # 1 => i - 1 \in 1..n /\ (i - 1) + 1 = i
      BY <1>1
    <3>2. i # 1 => f[(i - 1) + 1] = NextQuote(i - 1, f[i - 1])
      BY <1>6, <3>1
    <3>3. QED
      BY <1>6, <3>1, <3>2
  <2>2. QED
    BY <1>6, <2>1 DEF OpenStep
<1>8. Open = OpenStep(Open)
  BY <1>7, OpenIs
<1> DEFINE o == Open
<1>9. \A i \in 1..n + 1 :
        o[i] = IF i = 1 THEN "none" ELSE NextQuote(i - 1, o[i - 1])
  BY <1>8 DEF OpenStep
<1> HIDE DEF o
<1>10. ASSUME NEW i \in 1..n PROVE o[i + 1] = NextQuote(i, o[i])
  <2>1. i + 1 \in 1..n + 1 /\ i + 1 # 1 /\ (i + 1) - 1 = i
    BY <1>1
  <2>2. QED
    BY <1>9, <2>1
<1>11. o[1] = "none"
  BY <1>1, <1>9
<1>12. QED
  BY <1>10, <1>11 DEF o

SecondIf(i, b) == Open[i] = "none" /\ Pair(i) /\ ~b
SecondStep(u) ==
  [i \in 1..Len(input) + 1 |-> i > 1 /\ SecondIf(i - 1, u[i - 1])]

LEMMA SecondIs == Second = CHOOSE u : u = SecondStep(u)
BY DEF Second, SecondStep, SecondIf

LEMMA SecondFacts ==
  ASSUME input \in Lines
  PROVE  /\ ~Second[1]
         /\ \A i \in 1..Len(input) : Second[i + 1] <=> SecondIf(i, Second[i])
<1>1. Len(input) \in Nat
  BY InputType
<1> DEFINE n == Len(input)
           step == [k \in Nat |-> [b \in BOOLEAN |-> SecondIf(k, b)]]
<1>2. \A k \in Nat, b \in BOOLEAN : SecondIf(k, b) \in BOOLEAN
  BY DEF SecondIf
<1>3. step \in Steps(BOOLEAN)
  BY <1>2 DEF Steps
<1>4. \A k \in Nat, b \in BOOLEAN : step[k][b] = SecondIf(k, b)
  OBVIOUS
<1> HIDE DEF step, n
<1>5. PICK f : IsDefinedTo(n, f, BOOLEAN, FALSE, step)
  <2>1. n \in Nat
    BY <1>1 DEF n
  <2>2. QED
    BY <1>3, <2>1, FunctionExists
<1> USE DEF n
<1>6. /\ f \in [1..n + 1 -> BOOLEAN] /\ f[1] = FALSE
      /\ \A k \in 1..n : f[k + 1] = SecondIf(k, f[k])
  <2>1. /\ f \in [1..n + 1 -> BOOLEAN] /\ f[1] = FALSE
        /\ \A k \in 1..n : f[k + 1] = step[k][f[k]]
    BY <1>5 DEF IsDefinedTo
  <2>2. \A k \in 1..n : k \in Nat /\ f[k] \in BOOLEAN
    BY <1>1, <2>1
  <2> HIDE DEF n
  <2>3. \A k \in 1..n : f[k + 1] = SecondIf(k, f[k])
    BY <1>4, <2>1, <2>2
  <2>4. QED
    BY <2>1, <2>3
<1>7. f = SecondStep(f)
  <2>1. ASSUME NEW i \in 1..n + 1
        PROVE  f[i] = (i > 1 /\ SecondIf(i - 1, f[i - 1]))
    <3>1. CASE i = 1
      BY <1>6, <3>1
    <3>2. CASE i # 1
      <4>1. i > 1 /\ i - 1 \in 1..n /\ (i - 1) + 1 = i
        BY <1>1, <3>2
      <4>2. f[(i - 1) + 1] = SecondIf(i - 1, f[i - 1])
        BY <1>6, <4>1
      <4>3. QED
        BY <4>1, <4>2 DEF SecondIf
    <3>3. QED
      BY <3>1, <3>2
  <2>2. QED
    BY <1>6, <2>1 DEF SecondStep
<1>8. Second = SecondStep(Second)
  BY <1>7, SecondIs
<1> DEFINE s == Second
<1>9. \A i \in 1..n + 1 : s[i] = (i > 1 /\ SecondIf(i - 1, s[i - 1]))
  BY <1>8 DEF SecondStep
<1> HIDE DEF s
<1>10. ASSUME NEW i \in 1..n PROVE s[i + 1] <=> SecondIf(i, s[i])
  <2>1. i + 1 \in 1..n + 1 /\ i + 1 > 1 /\ (i + 1) - 1 = i
    BY <1>1
  <2>2. s[i + 1] = (i + 1 > 1 /\ SecondIf((i + 1) - 1, s[(i + 1) - 1]))
    BY <1>9, <2>1
  <2>3. QED
    BY <2>1, <2>2
<1>11. ~s[1]
  <2>1. 1 \in 1..n + 1 /\ ~(1 > 1)
    BY <1>1
  <2>2. s[1] = (1 > 1 /\ SecondIf(1 - 1, s[1 - 1]))
    BY <1>9, <2>1
  <2>3. QED
    BY <2>1, <2>2
<1>12. QED
  BY <1>10, <1>11 DEF s

(* Where no quote is open and no pair of characters half read.              *)
Fresh(i) == (i <= Len(input) => Open[i] = "none") /\ ~Second[i]

LEMMA LengthIs ==
  ASSUME NEW i
  PROVE  OperatorLen(i) = IF Pair(i) THEN 2 ELSE IF Char(i) \in Single THEN 1 ELSE 0
BY DEF OperatorLen, Single

LEMMA EndsIs ==
  ASSUME NEW i
  PROVE  EndsWord(i) <=> \/ Char(i) \in Blanks \/ Char(i) = "NUL"
                         \/ Pair(i) \/ Char(i) \in Single
<1>1. OperatorLen(i) > 0 <=> Pair(i) \/ Char(i) \in Single
  BY LengthIs
<1>2. QED
  BY <1>1 DEF EndsWord

LEMMA OperatesIs ==
  ASSUME NEW i
  PROVE  Operates(i) <=> /\ Outside(i)
                         /\ Char(i) \in Single \/ Second[i] \/ Second[i + 1]
BY DEF Operates, Single

LEMMA PairsAreInside ==
  ASSUME input \in Lines, NEW i \in 1..Len(input), Pair(i)
  PROVE  /\ i + 1 \in 1..Len(input) /\ Char(i) \in Doublable
         /\ Char(i + 1) = Char(i)
<1>1. Char(i) \in Doublable /\ Char(i + 1) = Char(i)
  BY DEF Pair
<1>2. Char(i + 1) # "NUL"
  BY <1>1, Classes
<1>3. QED
  BY <1>1, <1>2 DEF Char

(* What the two readings make of a character, kind by kind.                 *)
LEMMA AtBlank ==
  ASSUME input \in Lines, NEW i \in 1..Len(input), Fresh(i), Char(i) \in Blanks
  PROVE  ~InWord(i) /\ ~Operates(i) /\ Fresh(i + 1)
<1>1. Len(input) \in Nat
  BY InputType
<1>2. Open[i] = "none" /\ ~Second[i]
  BY <1>1 DEF Fresh
<1>3. Char(i) \notin Quotes /\ Char(i) \notin Single /\ ~Pair(i)
  BY Classes DEF Pair
<1>4. ~Second[i + 1]
  BY <1>3, SecondFacts DEF SecondIf
<1>5. Open[i + 1] = "none"
  BY <1>2, <1>3, OpenFacts DEF NextQuote
<1>6. Outside(i)
  BY <1>2, <1>3 DEF Outside
<1>7. ~Operates(i)
  BY <1>2, <1>3, <1>4, OperatesIs
<1>8. QED
  BY <1>4, <1>5, <1>6, <1>7 DEF InWord, Fresh

LEMMA AtPlain ==
  ASSUME input \in Lines, NEW i \in 1..Len(input), Fresh(i),
         ~EndsWord(i), Char(i) \notin Quotes
  PROVE  /\ InWord(i) /\ ~Operates(i) /\ ~Delimits(i)
         /\ Open[i] = "none" /\ Fresh(i + 1)
<1>1. Len(input) \in Nat
  BY InputType
<1>2. Open[i] = "none" /\ ~Second[i]
  BY <1>1 DEF Fresh
<1>3. Char(i) \notin Blanks /\ Char(i) \notin Single /\ ~Pair(i)
  BY EndsIs
<1>4. ~Second[i + 1]
  BY <1>3, SecondFacts DEF SecondIf
<1>5. Open[i + 1] = "none"
  BY <1>2, OpenFacts DEF NextQuote
<1>6. ~Operates(i)
  BY <1>2, <1>3, <1>4, OperatesIs
<1>7. QED
  BY <1>2, <1>3, <1>4, <1>5, <1>6 DEF InWord, Fresh, Delimits

LEMMA AtSingle ==
  ASSUME input \in Lines, NEW i \in 1..Len(input), Fresh(i),
         ~Pair(i), Char(i) \in Single
  PROVE  ~InWord(i) /\ Operates(i) /\ ~Second[i] /\ ~Second[i + 1] /\ Fresh(i + 1)
<1>1. Len(input) \in Nat
  BY InputType
<1>2. Open[i] = "none" /\ ~Second[i]
  BY <1>1 DEF Fresh
<1>3. Char(i) \notin Quotes
  BY Classes
<1>4. ~Second[i + 1]
  BY SecondFacts DEF SecondIf
<1>5. Open[i + 1] = "none"
  BY <1>2, <1>3, OpenFacts DEF NextQuote
<1>6. Operates(i)
  BY <1>2, <1>3, OperatesIs DEF Outside
<1>7. QED
  BY <1>2, <1>4, <1>5, <1>6 DEF InWord, Fresh

LEMMA AtPair ==
  ASSUME input \in Lines, NEW i \in 1..Len(input), Fresh(i), Pair(i)
  PROVE  /\ ~InWord(i) /\ ~InWord(i + 1) /\ Operates(i) /\ ~Second[i]
         /\ Second[i + 1] /\ i + 1 \in 1..Len(input) /\ Fresh(i + 2)
<1>1. Len(input) \in Nat
  BY InputType
<1>2. Open[i] = "none" /\ ~Second[i]
  BY <1>1 DEF Fresh
<1>3. /\ i + 1 \in 1..Len(input) /\ Char(i) \in Doublable
      /\ Char(i + 1) = Char(i)
  BY PairsAreInside
<1>4. Char(i) \notin Quotes /\ Char(i + 1) \notin Quotes
  BY <1>3, Classes
<1>5. Second[i + 1]
  BY <1>2, SecondFacts DEF SecondIf
<1>6. Open[i + 1] = "none"
  BY <1>2, <1>4, OpenFacts DEF NextQuote
<1>7. Operates(i)
  BY <1>2, <1>4, <1>5, OperatesIs DEF Outside
<1>8. Operates(i + 1)
  BY <1>4, <1>5, <1>6, OperatesIs DEF Outside
<1>9. i + 2 = (i + 1) + 1
  OBVIOUS
<1>10. ~Second[(i + 1) + 1]
  BY <1>3, <1>5, SecondFacts DEF SecondIf
<1>11. Open[(i + 1) + 1] = "none"
  BY <1>3, <1>4, <1>6, OpenFacts DEF NextQuote
<1>12. Fresh(i + 2)
  BY <1>9, <1>10, <1>11 DEF Fresh
<1>13. QED
  BY <1>2, <1>3, <1>5, <1>7, <1>8, <1>12 DEF InWord

LEMMA AtQuote ==
  ASSUME input \in Lines, NEW i \in 1..Len(input), Fresh(i), Char(i) \in Quotes
  PROVE  /\ InWord(i) /\ ~Operates(i) /\ Delimits(i)
         /\ Open[i + 1] = Char(i) /\ ~Second[i + 1]
<1>1. Len(input) \in Nat
  BY InputType
<1>2. Open[i] = "none" /\ ~Second[i]
  BY <1>1 DEF Fresh
<1>3. ~Outside(i)
  BY DEF Outside
<1>4. ~Pair(i)
  BY Classes DEF Pair
<1>5. ~Second[i + 1]
  BY <1>4, SecondFacts DEF SecondIf
<1>6. Open[i + 1] = Char(i)
  BY <1>2, OpenFacts DEF NextQuote
<1>7. ~Operates(i)
  BY <1>3, OperatesIs
<1>8. Delimits(i)
  BY <1>2 DEF Delimits
<1>9. QED
  BY <1>3, <1>5, <1>6, <1>7, <1>8 DEF InWord

LEMMA InQuotes ==
  ASSUME input \in Lines, NEW i \in 1..Len(input), NEW q \in Quotes, Open[i] = q
  PROVE  /\ InWord(i) /\ ~Operates(i) /\ (Delimits(i) <=> Char(i) = q)
         /\ ~Second[i + 1]
         /\ Open[i + 1] = IF Char(i) = q THEN "none" ELSE q
<1>1. q # "none"
  BY Classes
<1>2. ~Outside(i)
  BY <1>1 DEF Outside
<1>3. ~Second[i + 1]
  BY <1>1, SecondFacts DEF SecondIf
<1>4. Open[i + 1] = IF Char(i) = q THEN "none" ELSE q
  BY <1>1, OpenFacts DEF NextQuote
<1>5. ~Operates(i)
  BY <1>2, OperatesIs
<1>6. Delimits(i) <=> Char(i) = q
  BY <1>1 DEF Delimits
<1>7. QED
  BY <1>2, <1>3, <1>4, <1>5, <1>6 DEF InWord

(* A word cannot go on where it is ended.                                   *)
LEMMA NoWordAtEnd ==
  ASSUME input \in Lines, NEW i \in 1..Len(input) + 1, Fresh(i), EndsWord(i)
  PROVE  ~InWord(i)
<1>1. Len(input) \in Nat
  BY InputType
<1>2. CASE i = Len(input) + 1
  BY <1>1, <1>2 DEF InWord
<1>3. CASE i # Len(input) + 1
  <2>1. i \in 1..Len(input)
    BY <1>1, <1>3
  <2>2. Char(i) # "NUL"
    <3>1. Char(i) \in Chars
      BY <2>1, LinesAssumption DEF Char
    <3>2. "NUL" \notin Chars
      BY DEF Chars, Blanks, Quotes, Doublable
    <3>3. QED
      BY <3>1, <3>2
  <2>3. QED
    BY <2>1, <2>2, EndsIs, AtBlank, AtSingle, AtPair
<1>4. QED
  BY <1>2, <1>3

(* What both make of a whole part.                                          *)
LEMMA PlainStretch ==
  ASSUME input \in Lines, NEW i \in 1..Len(input), Fresh(i),
         ~EndsWord(i), Char(i) \notin Quotes
  PROVE  /\ PlainEnd(i) \in i+1..Len(input) + 1 /\ Fresh(PlainEnd(i))
         /\ \A k \in i..PlainEnd(i)-1 :
              InWord(k) /\ ~Operates(k) /\ ~Delimits(k) /\ Open[k] = "none"
<1> DEFINE e == PlainEnd(i)
           T == {d \in Nat : Fresh(i + d)}
<1>1. Len(input) \in Nat /\ i \in Nat
  BY InputType
<1>2. e \in i+1..Len(input) + 1
  BY PlainEnds
<1>3. \A k \in i..e-1 : k \in 1..Len(input) /\ ~EndsWord(k) /\ Char(k) \notin Quotes
  BY <1>1, <1>2, PlainEnds
<1> HIDE DEF e
<1>4. 0..(e - i) \subseteq T
  <2>1. 0 \in T
    OBVIOUS
  <2>2. ASSUME NEW d \in 0..(e - i)-1, d \in T PROVE d + 1 \in T
    <3>1. i + d \in i..e-1 /\ Fresh(i + d) /\ (i + d) + 1 = i + (d + 1)
      BY <1>1, <1>2, <2>2
    <3>2. Fresh((i + d) + 1)
      BY <1>3, <3>1, AtPlain
    <3>3. QED
      BY <3>1, <3>2
  <2>3. e - i \in Nat
    BY <1>1, <1>2
  <2> HIDE DEF T
  <2>4. QED
    BY <2>1, <2>2, <2>3, BoundedInduction
<1>5. ASSUME NEW k \in i..e PROVE Fresh(k)
  <2>1. k - i \in 0..(e - i) /\ i + (k - i) = k
    BY <1>1, <1>2
  <2>2. k - i \in T
    BY <1>4, <2>1
  <2>3. QED
    BY <2>1, <2>2
<1>6. ASSUME NEW k \in i..e-1
      PROVE  InWord(k) /\ ~Operates(k) /\ ~Delimits(k) /\ Open[k] = "none"
  <2>1. k \in i..e
    BY <1>1, <1>2
  <2>2. QED
    BY <1>3, <1>5, <2>1, AtPlain
<1>7. Fresh(e)
  BY <1>1, <1>2, <1>5
<1>8. QED
  BY <1>2, <1>6, <1>7 DEF e

AfterQuoted(i) ==
  IF Char(QuotedEnd(i)) = Char(i) THEN QuotedEnd(i) + 1 ELSE QuotedEnd(i)

LEMMA QuotedStretch ==
  ASSUME input \in Lines, NEW i \in 1..Len(input), Fresh(i), Char(i) \in Quotes
  PROVE  /\ QuotedEnd(i) \in i+1..Len(input) + 1
         /\ AfterQuoted(i) \in QuotedEnd(i)..Len(input) + 1
         /\ Fresh(AfterQuoted(i))
         /\ \A k \in i..AfterQuoted(i)-1 : InWord(k) /\ ~Operates(k)
         /\ \A k \in i+1..QuotedEnd(i)-1 : ~Delimits(k) /\ Open[k] = Char(i)
         /\ \A k \in i..AfterQuoted(i)-1 : k \notin i+1..QuotedEnd(i)-1 => Delimits(k)
<1> DEFINE e == QuotedEnd(i)
           q == Char(i)
           T == {d \in Nat : Open[i + 1 + d] = q /\ ~Second[i + 1 + d]}
<1>1. Len(input) \in Nat /\ i \in Nat
  BY InputType
<1>2. /\ e \in i+1..Len(input) + 1 /\ \A k \in i+1..e-1 : Char(k) # q
      /\ Char(e) = q \/ e = Len(input) + 1
  BY QuotedEnds
<1>3. \A k \in i+1..e-1 : k \in 1..Len(input)
  BY <1>1, <1>2
<1>4. /\ InWord(i) /\ ~Operates(i) /\ Delimits(i)
      /\ Open[i + 1] = q /\ ~Second[i + 1]
  BY AtQuote
<1>5. Char(e) = q => e \in 1..Len(input)
  <2>1. Char(e) = q => Char(e) # "NUL"
    BY Classes
  <2>2. QED
    BY <2>1 DEF Char
<1>6. AfterQuoted(i) = IF Char(e) = q THEN e + 1 ELSE e
  BY DEF AfterQuoted
<1> HIDE DEF e, q
<1>7. q \in Quotes
  BY DEF q
<1>8. 0..(e - (i + 1)) \subseteq T
  <2>1. 0 \in T
    BY <1>4
  <2>2. ASSUME NEW d \in 0..(e - (i + 1))-1, d \in T PROVE d + 1 \in T
    <3>1. /\ i + 1 + d \in i+1..e-1 /\ (i + 1 + d) + 1 = i + 1 + (d + 1)
          /\ Open[i + 1 + d] = q
      BY <1>1, <1>2, <2>2
    <3>2. Open[(i + 1 + d) + 1] = q /\ ~Second[(i + 1 + d) + 1]
      BY <1>2, <1>3, <1>7, <3>1, InQuotes
    <3>3. QED
      BY <3>1, <3>2
  <2>3. e - (i + 1) \in Nat
    BY <1>1, <1>2
  <2> HIDE DEF T
  <2>4. QED
    BY <2>1, <2>2, <2>3, BoundedInduction
<1>9. ASSUME NEW k \in i+1..e PROVE Open[k] = q /\ ~Second[k]
  <2>1. k - (i + 1) \in 0..(e - (i + 1)) /\ i + 1 + (k - (i + 1)) = k
    BY <1>1, <1>2
  <2>2. k - (i + 1) \in T
    BY <1>8, <2>1
  <2>3. QED
    BY <2>1, <2>2
<1>10. ASSUME NEW k \in i+1..e-1
       PROVE  InWord(k) /\ ~Operates(k) /\ ~Delimits(k) /\ Open[k] = q
  <2>1. Open[k] = q
    BY <1>1, <1>2, <1>9
  <2>2. QED
    BY <1>2, <1>3, <1>7, <2>1, InQuotes
<1>11. Open[e] = q /\ ~Second[e]
  BY <1>1, <1>2, <1>9
<1>12. CASE Char(e) = q
  <2>1. /\ InWord(e) /\ ~Operates(e) /\ Delimits(e)
        /\ Open[e + 1] = "none" /\ ~Second[e + 1]
    BY <1>5, <1>7, <1>11, <1>12, InQuotes
  <2>2. Fresh(e + 1)
    BY <2>1 DEF Fresh
  <2>3. \A k \in i..e : k = i \/ k = e \/ k \in i+1..e-1
    BY <1>1, <1>2
  <2>4. e + 1 \in e..Len(input) + 1 /\ (e + 1) - 1 = e
    BY <1>1, <1>2, <1>5, <1>12
  <2>5. QED
    BY <1>2, <1>4, <1>6, <1>10, <1>12, <2>1, <2>2, <2>3, <2>4 DEF e, q
<1>13. CASE Char(e) # q
  <2>1. e = Len(input) + 1
    BY <1>2, <1>13
  <2>2. Fresh(e)
    BY <1>1, <1>11, <2>1 DEF Fresh
  <2>3. \A k \in i..e-1 : k = i \/ k \in i+1..e-1
    BY <1>1, <1>2
  <2>4. e \in e..Len(input) + 1
    BY <1>1, <1>2
  <2>5. QED
    BY <1>2, <1>4, <1>6, <1>10, <1>13, <2>2, <2>3, <2>4 DEF e, q
<1>14. QED
  BY <1>12, <1>13

-----------------------------------------------------------------------------
(* What has been cut out of the line.                                       *)

Operators == Kinds \ {"WORD", "EOF"}

LEMMA OperatorFacts ==
  /\ "WORD" \notin Operators /\ "EOF" \notin Operators
  /\ Operators \subseteq Kinds /\ Kinds = Operators \cup {"WORD", "EOF"}
BY DEF Operators, Kinds

(* The words and the operators that begin before b.                         *)
WordsTo(b)     == {s \in WordSpans : s[1] < b}
OperatorsTo(b) == {s \in OperatorSpans : s[1] < b}

LEMMA NoWords ==
  ASSUME NEW a \in Nat, NEW b \in Nat, a <= b, \A k \in a..b-1 : ~InWord(k)
  PROVE  WordsTo(b) = WordsTo(a)
<1>1. ASSUME NEW s \in WordSpans, s[1] < b PROVE s[1] < a
  <2>1. s[1] \in Nat /\ s[2] \in Nat /\ s[1] < s[2] /\ \A i \in s[1]..s[2]-1 : InWord(i)
    BY DEF WordSpans
  <2>2. s[1] \in s[1]..s[2]-1
    BY <2>1
  <2>3. s[1] \notin a..b-1
    BY <2>1, <2>2
  <2>4. QED
    BY <1>1, <2>1, <2>3
<1>2. ASSUME NEW s \in WordSpans, s[1] < a PROVE s[1] < b
  BY <1>2 DEF WordSpans
<1>3. QED
  BY <1>1, <1>2 DEF WordsTo

LEMMA OneWord ==
  ASSUME input \in Lines, NEW a \in 1..Len(input), NEW b \in 1..Len(input) + 1,
         a < b, \A k \in a..b-1 : InWord(k), ~InWord(a - 1), ~InWord(b)
  PROVE  WordsTo(b) = WordsTo(a) \cup {<<a, b>>}
<1>1. Len(input) \in Nat
  BY InputType
<1>2. <<a, b>> \in WordSpans
  <2>1. <<a, b>> \in (1..Len(input)) \X (2..Len(input) + 1)
    BY <1>1
  <2>2. QED
    BY <2>1 DEF WordSpans
<1>3. ASSUME NEW s \in WordSpans, s[1] < b, ~(s[1] < a) PROVE s = <<a, b>>
  <2>1. /\ s \in (1..Len(input)) \X (2..Len(input) + 1)
        /\ s[1] < s[2] /\ \A i \in s[1]..s[2]-1 : InWord(i)
        /\ ~InWord(s[1] - 1) /\ ~InWord(s[2])
    BY DEF WordSpans
  <2>2. s[1] \in Nat /\ s[2] \in Nat /\ s = <<s[1], s[2]>>
    BY <2>1
  <2> DEFINE f == s[1]
             t == s[2]
  <2>3. /\ f \in Nat /\ t \in Nat /\ f < t /\ a <= f /\ f < b
        /\ \A i \in f..t-1 : InWord(i)
        /\ ~InWord(f - 1) /\ ~InWord(t)
    BY <1>3, <2>1, <2>2
  <2> HIDE DEF f, t
  <2>4. f = a
    <3>1. f - 1 \notin a..b-1
      BY <2>3
    <3>2. QED
      BY <2>3, <3>1
  <2>5. t = b
    <3>1. t \notin a..b-1
      BY <2>3
    <3>2. b \notin f..t-1
      BY <2>3
    <3>3. QED
      BY <2>3, <3>1, <3>2
  <2>6. QED
    BY <2>2, <2>4, <2>5 DEF f, t
<1>4. ASSUME NEW s \in WordSpans, s[1] < a PROVE s[1] < b
  BY <1>4 DEF WordSpans
<1>5. <<a, b>>[1] = a
  OBVIOUS
<1>6. QED
  BY <1>2, <1>3, <1>4, <1>5 DEF WordsTo

Begins(i) == i \in 1..Len(input) /\ Operates(i) /\ ~Second[i]
SpanAt(i) == <<i, IF Second[i + 1] THEN i + 2 ELSE i + 1>>

LEMMA OperatorSpansAre == OperatorSpans = {SpanAt(i) : i \in {j \in Nat : Begins(j)}}
<1>1. \A j \in 1..Len(input) : j \in Nat
  BY LinesAssumption
<1>2. {j \in 1..Len(input) : Operates(j) /\ ~Second[j]} = {j \in Nat : Begins(j)}
  BY <1>1 DEF Begins
<1>3. QED
  BY <1>2 DEF OperatorSpans, SpanAt

LEMMA OperatorsToIs ==
  ASSUME NEW b
  PROVE  OperatorsTo(b) = {SpanAt(i) : i \in {j \in Nat : Begins(j) /\ j < b}}
<1>1. \A i : SpanAt(i)[1] = i
  BY DEF SpanAt
<1>2. QED
  BY <1>1, OperatorSpansAre DEF OperatorsTo

LEMMA NoOperators ==
  ASSUME NEW a \in Nat, NEW b \in Nat, a <= b, \A k \in a..b-1 : ~Begins(k)
  PROVE  OperatorsTo(b) = OperatorsTo(a)
<1>1. {j \in Nat : Begins(j) /\ j < b} = {j \in Nat : Begins(j) /\ j < a}
  <2>1. \A j \in Nat : Begins(j) => j \notin a..b-1
    OBVIOUS
  <2>2. QED
    BY <2>1
<1>2. QED
  BY <1>1, OperatorsToIs

LEMMA OneOperator ==
  ASSUME NEW a \in Nat, NEW b \in Nat, a < b, Begins(a), \A k \in a+1..b-1 : ~Begins(k)
  PROVE  OperatorsTo(b) = OperatorsTo(a) \cup {SpanAt(a)}
<1>1. {j \in Nat : Begins(j) /\ j < b} = {j \in Nat : Begins(j) /\ j < a} \cup {a}
  <2>1. \A j \in Nat : Begins(j) => j \notin a+1..b-1
    OBVIOUS
  <2>2. QED
    BY <2>1
<1>2. QED
  BY <1>1, OperatorsToIs

SpansOf(toks, ks) ==
  {<<toks[t].from, toks[t].to>> : t \in {u \in DOMAIN toks : toks[u].kind \in ks}}
PartText(part)    == {<<i, part.quote>> : i \in part.from..part.to-1}
PartTexts(ps)     == UNION {PartText(ps[p]) : p \in DOMAIN ps}
Written(a, b)     == {<<i, Open[i]>> : i \in {j \in a..b-1 : ~Delimits(j)}}

(* The tokens are the words and the operators that begin before b, in the   *)
(* order of the line.                                                       *)
Ordered(toks, b) ==
  /\ \A t \in DOMAIN toks : toks[t].to <= b
  /\ \A t \in 1..Len(toks)-1 : toks[t].to <= toks[t + 1].from
Worded(toks) ==
  \A t \in DOMAIN toks :
    toks[t].kind = "WORD" =>
      PartTexts(toks[t].parts) = Written(toks[t].from, toks[t].to)
Tell(toks, b) ==
  /\ Ordered(toks, b) /\ Worded(toks)
  /\ SpansOf(toks, {"WORD"}) = WordsTo(b)
  /\ SpansOf(toks, Operators) = OperatorsTo(b)

LEMMA TokenTypes ==
  ASSUME NEW token \in TokenRecords
  PROVE  token.kind \in Kinds /\ token.from \in Nat /\ token.to \in Nat
BY DEF TokenRecords

LEMMA TellFurther ==
  ASSUME NEW toks \in Seq(TokenRecords), NEW a \in Nat, NEW b \in Nat, a <= b,
         Tell(toks, a), WordsTo(b) = WordsTo(a), OperatorsTo(b) = OperatorsTo(a)
  PROVE  Tell(toks, b)
<1>1. \A t \in DOMAIN toks : toks[t].to \in Nat
  <2>1. \A t \in DOMAIN toks : toks[t] \in TokenRecords
    OBVIOUS
  <2>2. QED
    BY <2>1, TokenTypes
<1>2. Ordered(toks, b)
  BY <1>1 DEF Tell, Ordered
<1>3. QED
  BY <1>2 DEF Tell

SpanOf(token) == <<token.from, token.to>>

IsToken(token, kind, from, to, ps) ==
  /\ token \in TokenRecords /\ token.kind = kind /\ token.parts = ps
  /\ token.from = from /\ token.to = to /\ SpanOf(token) = <<from, to>>

LEMMA TokenMade ==
  ASSUME NEW kind \in Kinds, NEW from \in Nat, NEW to \in Nat,
         NEW ps \in Seq(PartRecords)
  PROVE  IsToken(Token(kind, from, to, ps), kind, from, to, ps)
BY DEF IsToken, Token, TokenRecords, SpanOf

LEMMA SpansGrow ==
  ASSUME NEW toks \in Seq(TokenRecords), NEW token \in TokenRecords, NEW ks
  PROVE  SpansOf(Append(toks, token), ks) =
           SpansOf(toks, ks) \cup (IF token.kind \in ks THEN {SpanOf(token)} ELSE {})
<1> DEFINE more == Append(toks, token)
<1>1. /\ Len(toks) \in Nat /\ DOMAIN toks = 1..Len(toks)
      /\ DOMAIN more = 1..Len(toks) + 1 /\ more[Len(toks) + 1] = token
      /\ \A t \in DOMAIN toks : more[t] = toks[t]
  OBVIOUS
<1> HIDE DEF more
<1> DEFINE of(ts) == {u \in DOMAIN ts : ts[u].kind \in ks}
<1>2. of(more) = of(toks) \cup (IF token.kind \in ks THEN {Len(toks) + 1} ELSE {})
  BY <1>1
<1>3. \A t \in of(toks) : more[t] = toks[t]
  BY <1>1
<1>4. SpansOf(more, ks) = {SpanOf(more[t]) : t \in of(more)}
  BY DEF SpansOf, SpanOf
<1>5. SpansOf(toks, ks) = {SpanOf(toks[t]) : t \in of(toks)}
  BY DEF SpansOf, SpanOf
<1> HIDE DEF of
<1>6. {SpanOf(more[t]) : t \in of(toks)} = {SpanOf(toks[t]) : t \in of(toks)}
  BY <1>3
<1>7. CASE token.kind \in ks
  <2>1. SpansOf(more, ks) = {SpanOf(more[t]) : t \in of(toks)} \cup {SpanOf(token)}
    BY <1>1, <1>2, <1>4, <1>7
  <2>2. QED
    BY <1>5, <1>6, <1>7, <2>1 DEF more
<1>8. CASE token.kind \notin ks
  BY <1>2, <1>4, <1>5, <1>6, <1>8 DEF more
<1>9. QED
  BY <1>7, <1>8

(* One more token, which begins where all before it have ended.             *)
LEMMA TellMore ==
  ASSUME NEW toks \in Seq(TokenRecords), NEW token \in TokenRecords,
         NEW a \in Nat, NEW b \in Nat, a <= token.from, token.to <= b, a <= b,
         Tell(toks, a),
         WordsTo(b) = WordsTo(a) \cup
           (IF token.kind = "WORD" THEN {SpanOf(token)} ELSE {}),
         OperatorsTo(b) = OperatorsTo(a) \cup
           (IF token.kind \in Operators THEN {SpanOf(token)} ELSE {}),
         token.kind = "WORD" =>
           PartTexts(token.parts) = Written(token.from, token.to)
  PROVE  Tell(Append(toks, token), b)
<1> DEFINE more == Append(toks, token)
           n == Len(toks)
<1>1. /\ n \in Nat /\ DOMAIN toks = 1..n /\ Len(more) = n + 1
      /\ DOMAIN more = 1..n + 1 /\ more[n + 1] = token
      /\ \A t \in 1..n : more[t] = toks[t]
  OBVIOUS
<1>2. SpansOf(more, {"WORD"}) = WordsTo(b)
  BY SpansGrow DEF Tell
<1>3. SpansOf(more, Operators) = OperatorsTo(b)
  BY SpansGrow DEF Tell
<1>4. /\ \A t \in 1..n : toks[t].to \in Nat /\ toks[t].from \in Nat
      /\ token.from \in Nat /\ token.to \in Nat
  <2>1. \A t \in 1..n : toks[t] \in TokenRecords
    OBVIOUS
  <2>2. QED
    BY <2>1, TokenTypes
<1>5. /\ \A t \in 1..n : toks[t].to <= a
      /\ \A t \in 1..n-1 : toks[t].to <= toks[t + 1].from
  BY <1>1 DEF Tell, Ordered
<1> HIDE DEF more, n
<1>6. Ordered(more, b)
  <2>1. ASSUME NEW t \in 1..n + 1 PROVE more[t].to <= b
    <3>1. CASE t = n + 1
      BY <1>1, <3>1
    <3>2. CASE t # n + 1
      <4>1. t \in 1..n
        BY <1>1, <3>2
      <4>2. toks[t].to <= a /\ toks[t].to \in Nat
        BY <1>4, <1>5, <4>1
      <4>3. toks[t].to <= b
        BY <4>2
      <4>4. QED
        BY <1>1, <4>1, <4>3
    <3>3. QED
      BY <3>1, <3>2
  <2>2. ASSUME NEW t \in 1..n PROVE more[t].to <= more[t + 1].from
    <3>1. CASE t = n
      <4>1. toks[n].to <= a /\ toks[n].to \in Nat /\ more[n] = toks[n]
        BY <1>1, <1>4, <1>5, <3>1
      <4>2. toks[n].to <= token.from
        BY <1>4, <4>1
      <4>3. QED
        BY <1>1, <3>1, <4>1, <4>2
    <3>2. CASE t # n
      <4>1. t \in 1..n-1 /\ t + 1 \in 1..n
        BY <1>1, <3>2
      <4>2. QED
        BY <1>1, <1>5, <4>1
    <3>3. QED
      BY <3>1, <3>2
  <2>3. Len(more) - 1 = n
    BY <1>1
  <2>4. QED
    BY <1>1, <2>1, <2>2, <2>3 DEF Ordered
<1>7. Worded(more)
  <2>1. ASSUME NEW t \in 1..n + 1, more[t].kind = "WORD"
        PROVE  PartTexts(more[t].parts) = Written(more[t].from, more[t].to)
    <3>1. CASE t = n + 1
      BY <1>1, <2>1, <3>1
    <3>2. CASE t # n + 1
      <4>1. t \in 1..n
        BY <1>1, <3>2
      <4>2. QED
        BY <1>1, <2>1, <4>1 DEF Tell, Worded
    <3>3. QED
      BY <3>1, <3>2
  <2>2. QED
    BY <1>1, <2>1 DEF Worded
<1>8. QED
  BY <1>2, <1>3, <1>6, <1>7 DEF Tell, more

(* The text of one more part.                                               *)
LEMMA PartMade ==
  ASSUME NEW quote \in Quotes \cup {"none"}, NEW from \in Nat, NEW to \in Nat
  PROVE  /\ Part(quote, from, to) \in PartRecords
         /\ PartText(Part(quote, from, to)) = {<<i, quote>> : i \in from..to-1}
BY DEF Part, PartRecords, PartText

LEMMA TextGrows ==
  ASSUME NEW ps \in Seq(PartRecords), NEW part \in PartRecords
  PROVE  PartTexts(Append(ps, part)) = PartTexts(ps) \cup PartText(part)
<1> DEFINE more == Append(ps, part)
<1>1. /\ Len(ps) \in Nat /\ DOMAIN ps = 1..Len(ps)
      /\ DOMAIN more = 1..Len(ps) + 1 /\ more[Len(ps) + 1] = part
      /\ \A p \in DOMAIN ps : more[p] = ps[p]
  OBVIOUS
<1> HIDE DEF more
<1>2. DOMAIN more = DOMAIN ps \cup {Len(ps) + 1}
  BY <1>1
<1>3. {PartText(more[p]) : p \in DOMAIN more} =
        {PartText(ps[p]) : p \in DOMAIN ps} \cup {PartText(part)}
  BY <1>1, <1>2
<1>4. PartTexts(more) = UNION {PartText(more[p]) : p \in DOMAIN more}
  BY DEF PartTexts
<1>5. QED
  BY <1>3, <1>4 DEF PartTexts, more

LEMMA WrittenGrows ==
  ASSUME NEW a \in Nat, NEW b \in Nat, NEW c \in Nat, a <= b, b <= c
  PROVE  Written(a, c) = Written(a, b) \cup Written(b, c)
<1>1. {j \in a..c-1 : ~Delimits(j)} =
        {j \in a..b-1 : ~Delimits(j)} \cup {j \in b..c-1 : ~Delimits(j)}
  OBVIOUS
<1>2. QED
  BY <1>1 DEF Written

(* The place up to which the line has been cut.                             *)
Limit == IF lexer = "word" THEN start ELSE at

(* The word that is being scanned.                                          *)
InOneWord ==
  /\ start \in 1..Len(input) /\ ~InWord(start - 1)
  /\ \A k \in start..at-1 : InWord(k)
  /\ parts # <<>> => start < at
  /\ PartTexts(parts) = Written(start, at)

(* Between two characters of the scan the readings agree about all before.  *)
ReadInv ==
  /\ Tell(tokens, Limit) /\ Fresh(at)
  /\ lexer = "line" => EndsWord(at) \/ ~InWord(at - 1)
  /\ lexer = "word" => InOneWord
  /\ lexer = "lexed" => at = Len(input) + 1

LEMMA ReadStarts == LexInit => ReadInv
<1> SUFFICES ASSUME LexInit PROVE ReadInv
  OBVIOUS
<1>1. /\ input \in Lines /\ at = 1 /\ lexer = "line" /\ tokens = <<>>
      /\ Limit = 1
  BY DEF LexInit, Limit
<1>2. WordsTo(1) = {}
  BY DEF WordsTo, WordSpans
<1>3. OperatorsTo(1) = {}
  <2>1. {j \in Nat : Begins(j) /\ j < 1} = {}
    BY DEF Begins
  <2>2. QED
    BY <2>1, OperatorsToIs
<1>4. DOMAIN tokens = {} /\ Len(tokens) = 0
  BY <1>1
<1>5. Tell(tokens, 1)
  BY <1>2, <1>3, <1>4 DEF Tell, Ordered, Worded, SpansOf
<1>6. Fresh(1)
  BY <1>1, OpenFacts, SecondFacts DEF Fresh
<1>7. ~InWord(1 - 1)
  BY <1>1 DEF InWord
<1>8. QED
  BY <1>1, <1>5, <1>6, <1>7 DEF ReadInv

(* Neither reading changes with the scan.                                   *)
LEMMA ReadingKept ==
  ASSUME input' = input
  PROVE  /\ \A i : /\ EndsWord(i)' <=> EndsWord(i)
                   /\ InWord(i)' <=> InWord(i)
                   /\ Fresh(i)' <=> Fresh(i)
         /\ \A toks, b : Tell(toks, b)' <=> Tell(toks, b)
         /\ \A a, b : Written(a, b)' = Written(a, b)
<1>1. \A i : Char(i)' = Char(i)
  BY DEF Char
<1>2. \A i : Pair(i)' <=> Pair(i)
  BY <1>1 DEF Pair
<1>3. \A i : OperatorLen(i)' = OperatorLen(i)
  BY <1>1, <1>2 DEF OperatorLen
<1>4. \A i : EndsWord(i)' <=> EndsWord(i)
  BY <1>1, <1>3 DEF EndsWord
<1>5. Open' = Open
  BY <1>1 DEF Open
<1>6. Second' = Second
  BY <1>2, <1>5 DEF Second
<1>7. \A i : Outside(i)' <=> Outside(i)
  BY <1>1, <1>5 DEF Outside
<1>8. \A i : Operates(i)' <=> Operates(i)
  BY <1>1, <1>6, <1>7 DEF Operates
<1>9. \A i : InWord(i)' <=> InWord(i)
  BY <1>1, <1>7, <1>8 DEF InWord
<1>10. \A i : Delimits(i)' <=> Delimits(i)
  BY <1>1, <1>5 DEF Delimits
<1>11. \A i : Fresh(i)' <=> Fresh(i)
  BY <1>5, <1>6 DEF Fresh
<1>12. \A a, b : Written(a, b)' = Written(a, b)
  BY <1>5, <1>10 DEF Written
<1>13. WordSpans' = WordSpans
  BY <1>9 DEF WordSpans
<1>14. OperatorSpans' = OperatorSpans
  BY <1>6, <1>8 DEF OperatorSpans
<1>15. \A b : WordsTo(b)' = WordsTo(b) /\ OperatorsTo(b)' = OperatorsTo(b)
  BY <1>13, <1>14 DEF WordsTo, OperatorsTo
<1>16. \A toks : Worded(toks)' <=> Worded(toks)
  BY <1>12 DEF Worded
<1>17. \A toks, b : Tell(toks, b)' <=> Tell(toks, b)
  BY <1>15, <1>16 DEF Tell, Ordered, SpansOf
<1>18. QED
  BY <1>4, <1>9, <1>11, <1>12, <1>17

LEMMA ReadLine ==
  ASSUME LexInv, ReadInv, lexer = "line",
         SkipBlank \/ PushOperator \/ StartWord \/ PushEnd
  PROVE  ReadInv'
<1>1. /\ input \in Lines /\ Len(input) \in Nat
      /\ at \in 1..Len(input) + 1 /\ at \in Nat /\ tokens \in Seq(TokenRecords)
  BY InputType DEF LexInv, LexTypeOK
<1>2. /\ input' = input
      /\ \A i : /\ EndsWord(i)' <=> EndsWord(i)
                /\ InWord(i)' <=> InWord(i)
                /\ Fresh(i)' <=> Fresh(i)
      /\ \A toks, b : Tell(toks, b)' <=> Tell(toks, b)
      /\ \A a, b : Written(a, b)' = Written(a, b)
  <2>1. input' = input
    BY DEF SkipBlank, PushOperator, StartWord, PushEnd
  <2>2. QED
    BY <2>1, ReadingKept
<1>3. Tell(tokens, at) /\ Fresh(at) /\ (EndsWord(at) \/ ~InWord(at - 1))
  BY DEF ReadInv, Limit
<1>4. CASE SkipBlank
  <2>1. at \in 1..Len(input) /\ Char(at) \in Blanks
    BY <1>1, <1>4, CharFacts DEF SkipBlank
  <2>2. ~InWord(at) /\ ~Operates(at) /\ Fresh(at + 1)
    BY <1>1, <1>3, <2>1, AtBlank
  <2>3. WordsTo(at + 1) = WordsTo(at) /\ OperatorsTo(at + 1) = OperatorsTo(at)
    <3>1. \A k \in at..(at + 1)-1 : k = at
      BY <1>1
    <3>2. \A k \in at..(at + 1)-1 : ~InWord(k) /\ ~Begins(k)
      BY <2>2, <3>1 DEF Begins
    <3>3. QED
      BY <1>1, <3>2, NoWords, NoOperators
  <2>4. Tell(tokens, at + 1)
    BY <1>1, <1>3, <2>3, TellFurther
  <2>5. /\ at' = at + 1 /\ (at + 1) - 1 = at /\ lexer' = "line"
        /\ tokens' = tokens
    BY <1>1, <1>4 DEF SkipBlank
  <2>6. Limit' = at + 1
    BY <2>5 DEF Limit
  <2>7. QED
    BY <1>2, <2>2, <2>4, <2>5, <2>6 DEF ReadInv
<1>5. CASE PushOperator
  <2> DEFINE length == OperatorLen(at)
             token == Token(Kind(at), at, at + length, <<>>)
  <2>1. /\ at \in 1..Len(input) /\ length \in {1, 2} /\ Kind(at) \in Kinds \ {"EOF"}
        /\ Pair(at) \/ Char(at) \in Single
        /\ length = IF Pair(at) THEN 2 ELSE 1
    <3>1. length > 0
      BY <1>5 DEF PushOperator
    <3>2. QED
      BY <1>1, <3>1, CharFacts, LengthIs
  <2>2. Kind(at) \in Operators
    <3>1. Kind(at) # "WORD"
      BY <2>1 DEF Kind, Doubled, Single, Doublable, Pair
    <3>2. QED
      BY <2>1, <3>1 DEF Operators
  <2>3. /\ Begins(at) /\ Fresh(at + length) /\ ~InWord((at + length) - 1)
        /\ SpanAt(at) = <<at, at + length>>
        /\ \A k \in at..(at + length)-1 : ~InWord(k)
        /\ \A k \in at+1..(at + length)-1 : ~Begins(k)
    <3>1. CASE Pair(at)
      <4>1. /\ ~InWord(at) /\ ~InWord(at + 1) /\ Operates(at) /\ ~Second[at]
            /\ Second[at + 1] /\ Fresh(at + 2)
        BY <1>1, <1>3, <2>1, <3>1, AtPair
      <4>2. /\ at + length = at + 2 /\ (at + length) - 1 = at + 1
            /\ \A k \in at..(at + length)-1 : k = at \/ k = at + 1
            /\ \A k \in at+1..(at + length)-1 : k = at + 1
        BY <1>1, <2>1, <3>1
      <4>3. SpanAt(at) = <<at, at + 2>>
        BY <4>1 DEF SpanAt
      <4> HIDE DEF length
      <4>4. QED
        BY <2>1, <4>1, <4>2, <4>3 DEF Begins
    <3>2. CASE ~Pair(at)
      <4>1. /\ ~InWord(at) /\ Operates(at) /\ ~Second[at] /\ ~Second[at + 1]
            /\ Fresh(at + 1)
        BY <1>1, <1>3, <2>1, <3>2, AtSingle
      <4>2. /\ at + length = at + 1 /\ (at + length) - 1 = at
            /\ \A k \in at..(at + length)-1 : k = at
            /\ \A k \in at+1..(at + length)-1 : FALSE
        BY <1>1, <2>1, <3>2
      <4>3. SpanAt(at) = <<at, at + 1>>
        BY <4>1 DEF SpanAt
      <4> HIDE DEF length
      <4>4. QED
        BY <2>1, <4>1, <4>2, <4>3 DEF Begins
    <3>3. QED
      BY <3>1, <3>2
  <2>4. /\ at' = at + length /\ tokens' = Append(tokens, token)
        /\ lexer' = "line"
    BY <1>5 DEF PushOperator
  <2>5. length \in Nat /\ at + length \in Nat /\ at < at + length /\ at <= at + length
    BY <1>1, <2>1
  <2> HIDE DEF length
  <2>6. /\ token \in TokenRecords /\ token.kind = Kind(at) /\ token.parts = <<>>
        /\ token.from = at /\ token.to = at + length
        /\ SpanOf(token) = <<at, at + length>>
    <3>1. Kind(at) \in Kinds /\ <<>> \in Seq(PartRecords)
      BY <2>1
    <3>2. IsToken(token, Kind(at), at, at + length, <<>>)
      BY <1>1, <2>5, <3>1, TokenMade
    <3> HIDE DEF token
    <3>3. QED
      BY <3>2 DEF IsToken
  <2>7. WordsTo(at + length) = WordsTo(at)
    BY <1>1, <2>3, <2>5, NoWords
  <2>8. OperatorsTo(at + length) = OperatorsTo(at) \cup {SpanAt(at)}
    BY <1>1, <2>3, <2>5, OneOperator
  <2> HIDE DEF token
  <2>9. Tell(Append(tokens, token), at + length)
    <3>1. token.kind \in Operators /\ token.kind # "WORD"
      BY <2>2, <2>6, OperatorFacts
    <3>2. /\ WordsTo(at + length) = WordsTo(at) \cup
               (IF token.kind = "WORD" THEN {SpanOf(token)} ELSE {})
          /\ OperatorsTo(at + length) = OperatorsTo(at) \cup
               (IF token.kind \in Operators THEN {SpanOf(token)} ELSE {})
      BY <2>3, <2>6, <2>7, <2>8, <3>1
    <3>3. at <= token.from /\ token.to <= at + length
      BY <1>1, <2>5, <2>6
    <3>4. QED
      BY <1>1, <1>3, <2>5, <2>6, <3>1, <3>2, <3>3, TellMore
  <2>10. Limit' = at + length
    BY <2>4 DEF Limit
  <2>11. QED
    BY <1>2, <2>3, <2>4, <2>9, <2>10 DEF ReadInv
<1>6. CASE StartWord
  <2>1. at \in 1..Len(input) /\ ~EndsWord(at)
    BY <1>1, <1>6, CharFacts DEF StartWord
  <2>2. /\ lexer' = "word" /\ start' = at /\ parts' = <<>> /\ at' = at
        /\ tokens' = tokens
    BY <1>6 DEF StartWord
  <2>3. Limit' = at
    BY <2>2 DEF Limit
  <2>4. PartTexts(<<>>) = {} /\ Written(at, at) = {}
    <3>1. at..at-1 = {}
      BY <1>1
    <3>2. Written(at, at) = {}
      BY <3>1 DEF Written
    <3>3. QED
      BY <3>2 DEF PartTexts
  <2>5. PartTexts(parts') = Written(start', at')
    BY <2>2, <2>4
  <2>6. InOneWord'
    <3>1. \A k \in start'..at'-1 : FALSE
      BY <1>1, <2>2
    <3>2. PartTexts(parts)' = Written(start, at)'
      BY <1>2, <2>5 DEF PartTexts, PartText
    <3>3. ~InWord(start - 1)'
      BY <1>2, <1>3, <2>1, <2>2
    <3>4. QED
      BY <1>2, <2>1, <2>2, <3>1, <3>2, <3>3 DEF InOneWord
  <2>7. QED
    BY <1>2, <1>3, <2>2, <2>3, <2>6 DEF ReadInv
<1>7. CASE PushEnd
  <2> DEFINE token == Token("EOF", at, at, <<>>)
  <2>1. at = Len(input) + 1
    <3>1. at \notin 1..Len(input)
      BY <1>1, <1>7, CharFacts DEF PushEnd
    <3>2. QED
      BY <1>1, <3>1
  <2>2. /\ at' = at /\ tokens' = Append(tokens, token) /\ lexer' = "lexed"
    BY <1>7 DEF PushEnd
  <2>3. /\ token \in TokenRecords /\ token.kind = "EOF" /\ token.parts = <<>>
        /\ token.from = at /\ token.to = at
    BY <1>1, OperatorFacts DEF Token, TokenRecords
  <2> HIDE DEF token
  <2>4. Tell(Append(tokens, token), at)
    <3>1. token.kind \notin Operators /\ token.kind # "WORD"
      BY <2>3, OperatorFacts
    <3>2. QED
      BY <1>1, <1>3, <2>3, <3>1, TellMore
  <2>5. Limit' = at
    BY <2>2 DEF Limit
  <2>6. QED
    BY <1>2, <1>3, <2>1, <2>2, <2>4, <2>5 DEF ReadInv
<1>8. QED
  BY <1>4, <1>5, <1>6, <1>7

(* One more part, of the characters up to b, of which those from f to t are *)
(* its text.                                                                *)
LEMMA OnePart ==
  ASSUME LexInv, ReadInv, lexer = "word", NEW part \in PartRecords,
         NEW b \in at+1..Len(input) + 1, Fresh(b),
         \A k \in at..b-1 : InWord(k),
         PartText(part) = Written(at, b),
         lexer' = "word", input' = input, tokens' = tokens, start' = start,
         parts' = Append(parts, part), at' = b
  PROVE  ReadInv'
<1>1. /\ input \in Lines /\ Len(input) \in Nat /\ at \in Nat /\ start \in 1..at
      /\ at \in 1..Len(input) + 1 /\ parts \in Seq(PartRecords)
  BY InputType DEF LexInv, LexTypeOK
<1>2. /\ \A i : /\ EndsWord(i)' <=> EndsWord(i)
                /\ InWord(i)' <=> InWord(i)
                /\ Fresh(i)' <=> Fresh(i)
      /\ \A toks, c : Tell(toks, c)' <=> Tell(toks, c)
      /\ \A a, c : Written(a, c)' = Written(a, c)
  BY ReadingKept
<1>3. Tell(tokens, start) /\ InOneWord
  BY DEF ReadInv, Limit
<1>4. start \in Nat /\ b \in Nat /\ at < b /\ start <= at /\ start < b
  BY <1>1
<1>5. PartTexts(parts') = Written(start, b)
  <2>1. PartTexts(parts') = PartTexts(parts) \cup PartText(part)
    BY <1>1, TextGrows
  <2>2. Written(start, b) = Written(start, at) \cup Written(at, b)
    BY <1>1, <1>4, WrittenGrows
  <2>3. QED
    BY <1>3, <2>1, <2>2 DEF InOneWord
<1>6. InOneWord'
  <2>1. PartTexts(parts)' = Written(start, at)'
    BY <1>2, <1>5 DEF PartTexts, PartText
  <2>2. ASSUME NEW k \in start..b-1 PROVE InWord(k)
    <3>1. k \in start..at-1 \/ k \in at..b-1
      BY <1>1, <1>4
    <3>2. QED
      BY <1>3, <3>1 DEF InOneWord
  <2>3. ~InWord(start - 1)' /\ start' \in 1..Len(input')
    BY <1>2, <1>3 DEF InOneWord
  <2>4. \A k \in start'..at'-1 : InWord(k)'
    BY <1>2, <2>2
  <2>5. start' < at'
    BY <1>4
  <2>6. QED
    BY <2>1, <2>3, <2>4, <2>5 DEF InOneWord
<1>7. Limit' = start
  BY DEF Limit
<1>8. QED
  BY <1>2, <1>3, <1>6, <1>7 DEF ReadInv

LEMMA ReadWord ==
  ASSUME LexInv, ReadInv, lexer = "word", ScanQuoted \/ ScanPlain \/ EndWord
  PROVE  ReadInv'
<1>1. /\ input \in Lines /\ Len(input) \in Nat /\ at \in Nat /\ start \in 1..at
      /\ at \in 1..Len(input) + 1 /\ parts \in Seq(PartRecords)
      /\ tokens \in Seq(TokenRecords)
  BY InputType DEF LexInv, LexTypeOK
<1>2. Tell(tokens, start) /\ InOneWord /\ Fresh(at)
  BY DEF ReadInv, Limit
<1>3. CASE ScanQuoted
  <2> DEFINE part == Part(Char(at), at + 1, QuotedEnd(at))
  <2>1. Char(at) \in Quotes /\ Char(at) # "NUL" /\ at \in 1..Len(input)
    <3>1. Char(at) \in Quotes /\ Char(at) # "NUL"
      BY <1>3, Classes DEF ScanQuoted
    <3>2. QED
      BY <1>1, <3>1, CharFacts
  <2>2. /\ QuotedEnd(at) \in at+1..Len(input) + 1
        /\ AfterQuoted(at) \in QuotedEnd(at)..Len(input) + 1
        /\ Fresh(AfterQuoted(at))
        /\ \A k \in at..AfterQuoted(at)-1 : InWord(k)
        /\ \A k \in at+1..QuotedEnd(at)-1 : ~Delimits(k) /\ Open[k] = Char(at)
        /\ \A k \in at..AfterQuoted(at)-1 :
             k \notin at+1..QuotedEnd(at)-1 => Delimits(k)
    BY <1>1, <1>2, <2>1, QuotedStretch
  <2>3. /\ lexer' = "word" /\ input' = input /\ tokens' = tokens
        /\ start' = start /\ parts' = Append(parts, part) /\ at' = AfterQuoted(at)
    BY <1>3 DEF ScanQuoted, AfterQuoted
  <2>4. /\ part \in PartRecords
        /\ PartText(part) = {<<k, Char(at)>> : k \in at+1..QuotedEnd(at)-1}
    <3>1. /\ at + 1 \in Nat /\ QuotedEnd(at) \in Nat
          /\ Char(at) \in Quotes \cup {"none"}
      BY <1>1, <2>1, <2>2
    <3>2. QED
      BY <3>1, PartMade
  <2> HIDE DEF part
  <2>5. PartText(part) = Written(at, AfterQuoted(at))
    <3>1. {k \in at..AfterQuoted(at)-1 : ~Delimits(k)} = at+1..QuotedEnd(at)-1
      <4>1. \A k \in at+1..QuotedEnd(at)-1 : k \in at..AfterQuoted(at)-1
        BY <1>1, <2>2
      <4>2. QED
        BY <2>2, <4>1
    <3>2. QED
      BY <2>2, <2>4, <3>1 DEF Written
  <2>6. AfterQuoted(at) \in at+1..Len(input) + 1
    BY <1>1, <2>2
  <2>7. QED
    BY <2>2, <2>3, <2>4, <2>5, <2>6, OnePart
<1>4. CASE ScanPlain
  <2> DEFINE part == Part("none", at, PlainEnd(at))
  <2>1. at \in 1..Len(input) /\ ~EndsWord(at) /\ Char(at) \notin Quotes
    BY <1>1, <1>4, CharFacts DEF ScanPlain
  <2>2. /\ PlainEnd(at) \in at+1..Len(input) + 1 /\ Fresh(PlainEnd(at))
        /\ \A k \in at..PlainEnd(at)-1 :
             InWord(k) /\ ~Delimits(k) /\ Open[k] = "none"
    BY <1>1, <1>2, <2>1, PlainStretch
  <2>3. /\ lexer' = "word" /\ input' = input /\ tokens' = tokens
        /\ start' = start /\ parts' = Append(parts, part) /\ at' = PlainEnd(at)
    BY <1>4 DEF ScanPlain
  <2>4. /\ part \in PartRecords
        /\ PartText(part) = {<<k, "none">> : k \in at..PlainEnd(at)-1}
    <3>1. PlainEnd(at) \in Nat /\ at \in Nat
      BY <1>1, <2>2
    <3>2. "none" \in Quotes \cup {"none"}
      OBVIOUS
    <3>3. QED
      BY <3>1, <3>2, PartMade
  <2> HIDE DEF part
  <2>5. PartText(part) = Written(at, PlainEnd(at))
    <3>1. {k \in at..PlainEnd(at)-1 : ~Delimits(k)} = at..PlainEnd(at)-1
      BY <2>2
    <3>2. QED
      BY <2>2, <2>4, <3>1 DEF Written
  <2>6. QED
    BY <2>2, <2>3, <2>4, <2>5, OnePart
<1>5. CASE EndWord
  <2> DEFINE token == Token("WORD", start, at, parts)
  <2>1. /\ tokens' = Append(tokens, token) /\ lexer' = "line" /\ at' = at
        /\ input' = input /\ EndsWord(at)
    BY <1>5 DEF EndWord
  <2>2. /\ \A i : /\ EndsWord(i)' <=> EndsWord(i)
                  /\ Fresh(i)' <=> Fresh(i)
        /\ \A toks, b : Tell(toks, b)' <=> Tell(toks, b)
    BY <2>1, ReadingKept
  <2>3. /\ token \in TokenRecords /\ token.kind = "WORD" /\ token.parts = parts
        /\ token.from = start /\ token.to = at /\ SpanOf(token) = <<start, at>>
    <3>1. "WORD" \in Kinds /\ start \in Nat
      BY <1>1, OperatorFacts
    <3>2. IsToken(token, "WORD", start, at, parts)
      BY <1>1, <3>1, TokenMade
    <3> HIDE DEF token
    <3>3. QED
      BY <3>2 DEF IsToken
  <2> HIDE DEF token
  <2>4. start < at
    BY <2>1, <1>2 DEF LexInv, InOneWord
  <2>5. ~InWord(at)
    BY <1>1, <1>2, <2>1, NoWordAtEnd
  <2>6. WordsTo(at) = WordsTo(start) \cup {<<start, at>>}
    BY <1>1, <1>2, <2>4, <2>5, OneWord DEF InOneWord
  <2>7. OperatorsTo(at) = OperatorsTo(start)
    <3>1. \A k \in start..at-1 : ~Begins(k)
      BY <1>2 DEF InOneWord, InWord, Begins
    <3>2. QED
      BY <1>1, <2>4, <3>1, NoOperators
  <2>8. Tell(Append(tokens, token), at)
    <3>1. token.kind \notin Operators
      BY <2>3, OperatorFacts
    <3>2. start \in Nat /\ start <= token.from /\ token.to <= at /\ start <= at
      BY <1>1, <2>3
    <3>3. PartTexts(token.parts) = Written(token.from, token.to)
      BY <1>2, <2>3 DEF InOneWord
    <3>4. /\ WordsTo(at) = WordsTo(start) \cup
               (IF token.kind = "WORD" THEN {SpanOf(token)} ELSE {})
          /\ OperatorsTo(at) = OperatorsTo(start) \cup
               (IF token.kind \in Operators THEN {SpanOf(token)} ELSE {})
      BY <2>3, <2>6, <2>7, <3>1
    <3>5. QED
      BY <1>1, <1>2, <2>3, <3>2, <3>3, <3>4, TellMore
  <2>9. Limit' = at
    BY <2>1 DEF Limit
  <2>10. QED
    BY <1>2, <2>1, <2>2, <2>8, <2>9 DEF ReadInv
<1>6. QED
  BY <1>3, <1>4, <1>5

LEMMA ReadStep == LexInv /\ ReadInv /\ LexNext => ReadInv'
<1> SUFFICES ASSUME LexInv, ReadInv, LexNext PROVE ReadInv'
  OBVIOUS
<1>1. CASE lexer = "line" /\ (SkipBlank \/ PushOperator \/ StartWord \/ PushEnd)
  BY <1>1, ReadLine
<1>2. CASE lexer = "word" /\ (ScanQuoted \/ ScanPlain \/ EndWord)
  BY <1>2, ReadWord
<1>3. QED
  BY <1>1, <1>2 DEF LexNext, SkipBlank, PushOperator, StartWord, PushEnd,
       ScanQuoted, ScanPlain, EndWord

LEMMA ReadKept ==
  ReadInv /\ UNCHANGED <<input, at, lexer, tokens, start, parts>> => ReadInv'
<1> SUFFICES ASSUME ReadInv,
                    UNCHANGED <<input, at, lexer, tokens, start, parts>>
             PROVE  ReadInv'
  OBVIOUS
<1>1. /\ \A i : /\ EndsWord(i)' <=> EndsWord(i)
                /\ InWord(i)' <=> InWord(i)
                /\ Fresh(i)' <=> Fresh(i)
      /\ \A toks, c : Tell(toks, c)' <=> Tell(toks, c)
      /\ \A a, c : Written(a, c)' = Written(a, c)
  BY ReadingKept
<1>2. Limit' = Limit
  BY DEF Limit
<1>3. lexer = "word" => InOneWord'
  BY <1>1 DEF InOneWord, PartTexts, PartText, ReadInv
<1>4. QED
  BY <1>1, <1>2, <1>3 DEF ReadInv

LEMMA Read == input \in Lines /\ ReadInv => LexedAsRead
<1> SUFFICES ASSUME input \in Lines, ReadInv, lexer = "lexed" PROVE LexedAsRead
  BY DEF LexedAsRead
<1>1. Len(input) \in Nat /\ at = Len(input) + 1 /\ Tell(tokens, at)
  BY InputType DEF ReadInv, Limit
<1>2. WordsTo(at) = WordSpans
  BY <1>1 DEF WordsTo, WordSpans
<1>3. OperatorsTo(at) = OperatorSpans
  <2>1. \A j \in Nat : Begins(j) => j < at
    BY <1>1 DEF Begins
  <2>2. {j \in Nat : Begins(j) /\ j < at} = {j \in Nat : Begins(j)}
    BY <2>1
  <2>3. QED
    BY <2>2, OperatorsToIs, OperatorSpansAre
<1>4. Spans({"WORD"}) = WordSpans
  BY <1>1, <1>2 DEF Tell, SpansOf, Spans
<1>5. Spans(Kinds \ {"WORD", "EOF"}) = OperatorSpans
  BY <1>1, <1>3 DEF Tell, SpansOf, Spans, Operators
<1>6. \A t \in 1..Len(tokens)-1 : tokens[t].to <= tokens[t + 1].from
  BY <1>1 DEF Tell, Ordered
<1>7. ASSUME NEW t \in DOMAIN tokens, tokens[t].kind = "WORD"
      PROVE  Texts(tokens[t]) = {<<i, Open[i]>> :
               i \in {j \in tokens[t].from..tokens[t].to-1 : ~Delimits(j)}}
  <2>1. PartTexts(tokens[t].parts) = Written(tokens[t].from, tokens[t].to)
    BY <1>1, <1>7 DEF Tell, Worded
  <2>2. Texts(tokens[t]) = PartTexts(tokens[t].parts)
    BY DEF Texts, PartTexts, PartText
  <2>3. QED
    BY <2>1, <2>2 DEF Written
<1>8. QED
  BY <1>4, <1>5, <1>6, <1>7 DEF LexedAsRead

-----------------------------------------------------------------------------
(* The descent.                                                             *)

Ends     == {"parsed", "failed"}
Here     == P!Before(index)
Accepted == \A t \in 1..index-1 : P!Fits(t)

(* What each function of the descent knows of the tokens around the one it  *)
(* looks at, when it is entered and at every turn of its loop.              *)
Around ==
  /\ parser = "sequence" => Here = ";"
  /\ parser = "command" =>
       /\ Here \in P!Joints \cup {"|", ";"}
       /\ Here = ";" => P!Current # "EOF"
  /\ parser = "words" =>
       \/ Here = "WORD"
       \/ Here \in P!Joints \cup {"|", ";"} /\ P!CanStart(P!Current)
  /\ parser = "operand" => Here \in P!Redirectors
  /\ parser \in {"pipeline", "andOr", "separator"} =>
       Here = "WORD" /\ ~P!CanStart(P!Current)
  /\ parser \in {"andOr", "separator"} => P!Current # "|"
  /\ parser = "separator" => P!Current \notin P!Joints

ParseInv ==
  /\ P!TypeOK
  /\ Around
  /\ parser \notin Ends => errorToken = 0 /\ Accepted
  /\ P!ErrorAtFirstMisfit

LEMMA FollowFacts ==
  ASSUME NEW before, NEW kind
  PROVE  /\ before = "WORD" => P!Follows(before, kind)
         /\ before \in P!Redirectors =>
              (P!Follows(before, kind) <=> kind = "WORD")
         /\ before \in P!Joints \cup {"|"} =>
              (P!Follows(before, kind) <=> P!CanStart(kind))
         /\ before = ";" =>
              (P!Follows(before, kind) <=> P!CanStart(kind) \/ kind = "EOF")
  BY DEF P!Follows, P!Redirectors, P!Joints, P!CanStart

LEMMA Tokens ==
  ASSUME P!TypeOK
  PROVE  /\ Len(tokens) \in Nat \ {0} /\ DOMAIN tokens = 1..Len(tokens)
         /\ index \in 1..Len(tokens)
         /\ P!Current = tokens[index].kind /\ P!Current \in P!Kinds
         /\ P!Current = "EOF" <=> index = Len(tokens)
         /\ P!Fits(index) <=> P!Follows(Here, P!Current)
<1>1. /\ Len(tokens) \in Nat \ {0} /\ DOMAIN tokens = 1..Len(tokens)
      /\ index \in 1..Len(tokens)
  BY DEF P!TypeOK, P!Delivered
<1>2. P!Current = tokens[index].kind
  BY <1>1 DEF P!Current, P!Peek
<1>3. P!Current \in P!Kinds /\ (P!Current = "EOF" <=> index = Len(tokens))
  BY <1>1, <1>2 DEF P!TypeOK, P!Delivered
<1>4. P!Fits(index) <=> P!Follows(Here, P!Current)
  BY <1>2 DEF P!Fits, Here
<1>5. QED
  BY <1>1, <1>2, <1>3, <1>4

LEMMA FitsKept ==
  ASSUME tokens' = tokens, NEW t
  PROVE  P!Fits(t)' <=> P!Fits(t)
  BY DEF P!Fits, P!Before, P!Follows, P!CanStart

LEMMA Stays ==
  ASSUME tokens' = tokens, index' = index
  PROVE  /\ Here' = Here /\ P!Current' = P!Current
         /\ Accepted => Accepted'
<1>1. Here' = Here
  BY DEF Here, P!Before
<1>2. P!Current' = P!Current
  BY DEF P!Current, P!Peek
<1>3. Accepted => Accepted'
  BY FitsKept DEF Accepted
<1>4. QED
  BY <1>1, <1>2, <1>3

LEMMA Moves ==
  ASSUME P!TypeOK, tokens' = tokens, P!Current # "EOF", P!Advance
  PROVE  /\ index' = index + 1 /\ index' \in 1..Len(tokens)
         /\ Here' = P!Current
         /\ Accepted /\ P!Fits(index) => Accepted'
<1>1. index' = index + 1 /\ index' \in 1..Len(tokens)
  BY Tokens DEF P!Advance
<1>2. Here' = P!Current
  <2>1. index' # 1 /\ index' - 1 = index
    BY <1>1, Tokens
  <2>2. P!Before(index)' = tokens[index].kind
    BY <2>1 DEF P!Before
  <2>3. QED
    BY <2>2, Tokens DEF Here
<1>3. Accepted /\ P!Fits(index) => Accepted'
  <2> SUFFICES ASSUME Accepted, P!Fits(index), NEW t \in 1..index'-1
               PROVE  P!Fits(t)'
    BY DEF Accepted
  <2>1. P!Fits(t)
    BY <1>1, Tokens DEF Accepted
  <2>2. QED
    BY <2>1, FitsKept
<1>4. QED
  BY <1>1, <1>2, <1>3

(* An error is found at a token that does not fit, behind tokens that do.   *)
LEMMA Fails ==
  ASSUME ParseInv, parser \notin Ends, NEW t \in {index, index + 1},
         t \in 1..Len(tokens), ~P!Fits(t), t = index + 1 => P!Fits(index),
         P!Fail(t), UNCHANGED index
  PROVE  ParseInv'
<1>1. /\ tokens' = tokens /\ index' = index /\ live' = live
      /\ errorToken' = t /\ parser' = "failed"
  BY DEF P!Fail
<1>2. Len(tokens) \in Nat \ {0} /\ index \in 1..Len(tokens) /\ Accepted
  BY Tokens DEF ParseInv
<1>3. P!TypeOK'
  BY <1>1, <1>2 DEF ParseInv, P!TypeOK, P!Delivered, P!Points
<1>4. Around'
  BY <1>1 DEF Around
<1>5. \A u \in 1..t-1 : P!Fits(u)
  BY <1>2 DEF Accepted
<1>6. ~P!Fits(t)' /\ \A u \in 1..t-1 : P!Fits(u)'
  BY <1>1, <1>5, FitsKept
<1>7. t \in DOMAIN tokens
  BY <1>2, Tokens DEF ParseInv
<1>8. P!ErrorAtFirstMisfit'
  BY <1>1, <1>6, <1>7 DEF P!ErrorAtFirstMisfit
<1>9. QED
  BY <1>1, <1>3, <1>4, <1>8 DEF ParseInv, Ends

(* A line is accepted when its end is reached and fits.                     *)
LEMMA Accepts ==
  ASSUME ParseInv, parser \notin Ends, P!Current = "EOF", P!Fits(index),
         parser' = "parsed", UNCHANGED <<tokens, index, errorToken, live>>
  PROVE  ParseInv'
<1>1. P!TypeOK'
  BY DEF ParseInv, P!TypeOK, P!Delivered, P!Points
<1>2. Around'
  BY DEF Around
<1>3. index = Len(tokens) /\ Len(tokens) \in Nat /\ DOMAIN tokens = 1..Len(tokens)
  BY Tokens DEF ParseInv
<1>4. \A t \in DOMAIN tokens : P!Fits(t)
  BY <1>3 DEF ParseInv, Accepted
<1>5. \A t \in DOMAIN tokens' : P!Fits(t)'
  BY <1>4, FitsKept
<1>6. P!ErrorAtFirstMisfit'
  BY <1>5 DEF P!ErrorAtFirstMisfit, ParseInv
<1>7. QED
  BY <1>1, <1>2, <1>6 DEF ParseInv, Ends

(* A step that goes on, on the same token or behind one that fits.          *)
LEMMA GoesOn ==
  ASSUME ParseInv, parser \notin Ends, tokens' = tokens,
         errorToken' = errorToken, parser' \in P!Points \ Ends,
         \/ index' = index
         \/ P!Current # "EOF" /\ P!Advance /\ P!Fits(index),
         live' \subseteq live \cup {t \in {index} : P!Current = "WORD"},
         Around'
  PROVE  ParseInv'
<1>1. index' \in 1..Len(tokens) /\ Accepted'
  <2>1. CASE index' = index
    BY <2>1, Tokens, Stays DEF ParseInv
  <2>2. CASE P!Current # "EOF" /\ P!Advance /\ P!Fits(index)
    BY <2>2, Moves DEF ParseInv
  <2>3. QED
    BY <2>1, <2>2
<1>2. live' \subseteq {t \in DOMAIN tokens : tokens[t].kind = "WORD"}
  BY Tokens DEF ParseInv, P!TypeOK
<1>3. P!TypeOK'
  BY <1>1, <1>2 DEF ParseInv, P!TypeOK, P!Delivered
<1>4. P!ErrorAtFirstMisfit'
  BY DEF P!ErrorAtFirstMisfit, Ends
<1>5. QED
  BY <1>1, <1>3, <1>4 DEF ParseInv

(* Every step of the descent keeps it and is nearer to its end.             *)
LEMMA ParseStep ==
  ASSUME ParseInv, parser \notin Ends, P!Next
  PROVE  /\ ParseInv' /\ tokens' = tokens
         /\ parser' \in Ends \/ P!TokensLeft' < P!TokensLeft
<1> DEFINE Joining == P!Joints \cup {"|"}
           Weight(point) ==
             CASE point = "sequence"  -> 7 [] point = "command" -> 6
               [] point \in {"words", "operand"} -> 5
               [] point = "pipeline"  -> 4 [] point = "andOr"   -> 3
               [] point = "separator" -> 2 [] OTHER -> 0
<1>1. P!TypeOK /\ errorToken = 0 /\ Accepted /\ Around
  BY DEF ParseInv
<1>2. /\ Len(tokens) \in Nat \ {0} /\ index \in 1..Len(tokens)
      /\ P!Current \in P!Kinds
      /\ P!Current = "EOF" <=> index = Len(tokens)
      /\ P!Fits(index) <=> P!Follows(Here, P!Current)
  BY <1>1, Tokens
<1>3. tokens' = tokens
  BY DEF P!Next, P!NoMoreLists, P!NewList, P!NoCommand, P!CommandStarts,
         P!Argument, P!Redirector, P!Operand, P!NoOperand, P!NoFollowup,
         P!CommandEnds, P!NextCommand, P!PipelineEnds, P!NextPipeline,
         P!AndOrEnds, P!NextList, P!SequenceEnds, P!Fail
<1>4. /\ P!TokensLeft = 8 * (Len(tokens) - index) + Weight(parser)
      /\ P!TokensLeft' = 8 * (Len(tokens) - index') + Weight(parser')
  BY <1>3 DEF P!TokensLeft
(* Two tokens that are neighbours.                                          *)
<1>5. /\ Here = "WORD" => P!Fits(index)
      /\ P!CanStart(P!Current) /\ Here \in Joining \cup {";"} => P!Fits(index)
      /\ ~P!CanStart(P!Current) /\ Here \in Joining => ~P!Fits(index)
  BY <1>2, FollowFacts
<1>6. CASE P!NoMoreLists
  <2>1. P!Current = "EOF" /\ Here = ";" /\ parser' = "parsed"
        /\ UNCHANGED <<tokens, index, errorToken, live>>
    BY <1>1, <1>6 DEF P!NoMoreLists, P!work, Around
  <2>2. P!Fits(index)
    BY <1>2, <2>1, FollowFacts
  <2>3. QED
    BY <2>1, <2>2, Accepts DEF Ends
<1>7. CASE P!SequenceEnds
  <2>1. parser = "separator" /\ P!Current # ";" /\ parser' = "parsed"
        /\ UNCHANGED <<tokens, index, errorToken, live>>
    BY <1>7 DEF P!SequenceEnds, P!work
  <2>2. Here = "WORD" /\ P!Current = "EOF"
    BY <1>1, <1>2, <2>1 DEF Around, P!CanStart, P!Kinds
  <2>3. QED
    BY <1>5, <2>1, <2>2, Accepts DEF Ends
<1>8. CASE P!NoCommand
  <2>1. parser = "command" /\ ~P!CanStart(P!Current) /\ P!Fail(index)
        /\ UNCHANGED index
    BY <1>8 DEF P!NoCommand
  <2>2. Here \in Joining \cup {";"} /\ (Here = ";" => P!Current # "EOF")
    BY <1>1, <2>1 DEF Around
  <2>3. ~P!Fits(index)
    BY <1>2, <1>5, <2>1, <2>2, FollowFacts
  <2>4. ParseInv'
    BY <1>2, <2>1, <2>3, Fails
  <2>5. QED
    BY <1>3, <2>1, <2>4 DEF P!Fail, Ends
<1>9. CASE P!NoOperand
  <2>1. parser = "operand" /\ P!Current # "WORD" /\ P!Fail(index)
        /\ UNCHANGED index
    BY <1>9 DEF P!NoOperand
  <2>2. Here \in P!Redirectors
    BY <1>1, <2>1 DEF Around
  <2>3. ~P!Fits(index)
    BY <1>2, <2>1, <2>2, FollowFacts
  <2>4. ParseInv'
    BY <1>2, <2>1, <2>3, Fails
  <2>5. QED
    BY <1>3, <2>1, <2>4 DEF P!Fail, Ends
<1>10. CASE P!NoFollowup
  <2>1. /\ parser = "words" /\ P!Current # "WORD"
        /\ P!Current \notin P!Redirectors /\ P!MissingFollowup
        /\ P!Fail(index + 1) /\ UNCHANGED index
    BY <1>10 DEF P!NoFollowup
  <2>2. Here = "WORD"
    BY <1>1, <2>1 DEF Around, P!CanStart
  <2>3. P!Current \in Joining /\ ~P!CanStart(P!Peek(1))
    BY <2>1 DEF P!MissingFollowup
  <2>4. index + 1 \in 1..Len(tokens)
    BY <1>2, <2>3 DEF P!Joints
  <2>5. P!Peek(1) = tokens[index + 1].kind
    BY <1>2, <2>4 DEF P!Peek
  <2>6. P!Before(index + 1) = P!Current
    <3>1. index + 1 # 1 /\ index + 1 - 1 = index
      BY <1>2
    <3>2. QED
      BY <1>1, <3>1, Tokens DEF P!Before
  <2>7. ~P!Fits(index + 1)
    BY <2>3, <2>5, <2>6, FollowFacts DEF P!Fits
  <2>8. ParseInv'
    BY <1>2, <1>5, <2>1, <2>2, <2>4, <2>7, Fails
  <2>9. QED
    BY <1>3, <2>1, <2>8 DEF P!Fail, Ends
<1>11. CASE P!NewList
  <2>1. parser = "sequence" /\ P!Current # "EOF" /\ parser' = "command"
        /\ UNCHANGED <<tokens, index, errorToken, live>>
    BY <1>11 DEF P!NewList, P!work
  <2>2. Here' = Here /\ P!Current' = P!Current
    BY <2>1, Stays
  <2>3. Around'
    BY <1>1, <2>1, <2>2 DEF Around, P!CanStart
  <2>4. ParseInv'
    BY <2>1, <2>3, GoesOn DEF P!Points, Ends
  <2>5. QED
    BY <1>2, <1>3, <1>4, <2>1, <2>4
<1>12. CASE P!CommandStarts
  <2>1. parser = "command" /\ P!CanStart(P!Current) /\ parser' = "words"
        /\ UNCHANGED <<tokens, index, errorToken, live>>
    BY <1>12 DEF P!CommandStarts, P!work
  <2>2. Here' = Here /\ P!Current' = P!Current
    BY <2>1, Stays
  <2>3. Around'
    BY <1>1, <2>1, <2>2 DEF Around, P!CanStart
  <2>4. ParseInv'
    BY <2>1, <2>3, GoesOn DEF P!Points, Ends
  <2>5. QED
    BY <1>2, <1>3, <1>4, <2>1, <2>4
<1>13. CASE P!CommandEnds
  <2>1. parser = "words" /\ parser' = "pipeline" /\ ~P!CanStart(P!Current)
        /\ UNCHANGED <<tokens, index, errorToken, live>>
    BY <1>13 DEF P!CommandEnds, P!CanStart
  <2>2. Here' = Here /\ P!Current' = P!Current
    BY <2>1, Stays
  <2>3. Around'
    BY <1>1, <2>1, <2>2 DEF Around, P!CanStart
  <2>4. ParseInv'
    BY <2>1, <2>3, GoesOn DEF P!Points, Ends
  <2>5. QED
    BY <1>2, <1>3, <1>4, <2>1, <2>4
<1>14. CASE P!PipelineEnds
  <2>1. parser = "pipeline" /\ P!Current # "|" /\ parser' = "andOr"
        /\ UNCHANGED <<tokens, index, errorToken, live>>
    BY <1>14 DEF P!PipelineEnds, P!work
  <2>2. Here' = Here /\ P!Current' = P!Current
    BY <2>1, Stays
  <2>3. Around'
    BY <1>1, <2>1, <2>2 DEF Around, P!CanStart
  <2>4. ParseInv'
    BY <2>1, <2>3, GoesOn DEF P!Points, Ends
  <2>5. QED
    BY <1>2, <1>3, <1>4, <2>1, <2>4
<1>15. CASE P!AndOrEnds
  <2>1. parser = "andOr" /\ P!Current \notin P!Joints /\ parser' = "separator"
        /\ UNCHANGED <<tokens, index, errorToken, live>>
    BY <1>15 DEF P!AndOrEnds, P!work
  <2>2. Here' = Here /\ P!Current' = P!Current
    BY <2>1, Stays
  <2>3. Around'
    BY <1>1, <2>1, <2>2 DEF Around, P!CanStart
  <2>4. ParseInv'
    BY <2>1, <2>3, GoesOn DEF P!Points, Ends
  <2>5. QED
    BY <1>2, <1>3, <1>4, <2>1, <2>4
<1>16. CASE P!Argument
  <2>1. parser = "words" /\ P!Current = "WORD" /\ parser' = "words"
        /\ live' = live \cup {index}
        /\ P!Advance /\ UNCHANGED <<tokens, errorToken>>
    BY <1>16 DEF P!Argument, P!work
  <2>2. P!Current # "EOF" /\ P!Fits(index)
    BY <1>1, <1>2, <1>5, <2>1, FollowFacts
       DEF Around, P!CanStart, P!Redirectors, P!Joints
  <2>3. index' = index + 1 /\ Here' = P!Current
    BY <1>1, <2>1, <2>2, Moves
  <2>4. Around'
    BY <1>1, <2>1, <2>3 DEF Around, P!CanStart, P!Joints
  <2>5. ParseInv'
    BY <2>1, <2>2, <2>4, GoesOn DEF P!Points, Ends
  <2>6. QED
    BY <1>2, <1>3, <1>4, <2>1, <2>3, <2>5
<1>17. CASE P!Redirector
  <2>1. parser = "words" /\ P!Current \in P!Redirectors /\ parser' = "operand"
        /\ P!Advance /\ UNCHANGED <<tokens, errorToken, live>>
    BY <1>17 DEF P!Redirector, P!work
  <2>2. P!Current # "EOF" /\ P!Fits(index)
    BY <1>1, <1>2, <1>5, <2>1, FollowFacts
       DEF Around, P!CanStart, P!Redirectors, P!Joints
  <2>3. index' = index + 1 /\ Here' = P!Current
    BY <1>1, <2>1, <2>2, Moves
  <2>4. Around'
    BY <1>1, <2>1, <2>3 DEF Around, P!CanStart, P!Joints
  <2>5. ParseInv'
    BY <2>1, <2>2, <2>4, GoesOn DEF P!Points, Ends
  <2>6. QED
    BY <1>2, <1>3, <1>4, <2>1, <2>3, <2>5
<1>18. CASE P!Operand
  <2>1. parser = "operand" /\ P!Current = "WORD" /\ parser' = "words"
        /\ live' = live \cup {index}
        /\ P!Advance /\ UNCHANGED <<tokens, errorToken>>
    BY <1>18 DEF P!Operand, P!work
  <2>2. P!Current # "EOF" /\ P!Fits(index)
    BY <1>1, <1>2, <1>5, <2>1, FollowFacts
       DEF Around, P!CanStart, P!Redirectors, P!Joints
  <2>3. index' = index + 1 /\ Here' = P!Current
    BY <1>1, <2>1, <2>2, Moves
  <2>4. Around'
    BY <1>1, <2>1, <2>3 DEF Around, P!CanStart, P!Joints
  <2>5. ParseInv'
    BY <2>1, <2>2, <2>4, GoesOn DEF P!Points, Ends
  <2>6. QED
    BY <1>2, <1>3, <1>4, <2>1, <2>3, <2>5
<1>19. CASE P!NextCommand
  <2>1. parser = "pipeline" /\ P!Current = "|" /\ parser' = "command"
        /\ P!Advance /\ UNCHANGED <<tokens, errorToken, live>>
    BY <1>19 DEF P!NextCommand, P!work
  <2>2. P!Current # "EOF" /\ P!Fits(index)
    BY <1>1, <1>2, <1>5, <2>1, FollowFacts
       DEF Around, P!CanStart, P!Redirectors, P!Joints
  <2>3. index' = index + 1 /\ Here' = P!Current
    BY <1>1, <2>1, <2>2, Moves
  <2>4. Around'
    BY <1>1, <2>1, <2>3 DEF Around, P!CanStart, P!Joints
  <2>5. ParseInv'
    BY <2>1, <2>2, <2>4, GoesOn DEF P!Points, Ends
  <2>6. QED
    BY <1>2, <1>3, <1>4, <2>1, <2>3, <2>5
<1>20. CASE P!NextPipeline
  <2>1. parser = "andOr" /\ P!Current \in P!Joints /\ parser' = "command"
        /\ P!Advance /\ UNCHANGED <<tokens, errorToken, live>>
    BY <1>20 DEF P!NextPipeline, P!work
  <2>2. P!Current # "EOF" /\ P!Fits(index)
    BY <1>1, <1>2, <1>5, <2>1, FollowFacts
       DEF Around, P!CanStart, P!Redirectors, P!Joints
  <2>3. index' = index + 1 /\ Here' = P!Current
    BY <1>1, <2>1, <2>2, Moves
  <2>4. Around'
    BY <1>1, <2>1, <2>3 DEF Around, P!CanStart, P!Joints
  <2>5. ParseInv'
    BY <2>1, <2>2, <2>4, GoesOn DEF P!Points, Ends
  <2>6. QED
    BY <1>2, <1>3, <1>4, <2>1, <2>3, <2>5
<1>21. CASE P!NextList
  <2>1. parser = "separator" /\ P!Current = ";" /\ parser' = "sequence"
        /\ P!Advance /\ UNCHANGED <<tokens, errorToken, live>>
    BY <1>21 DEF P!NextList, P!work
  <2>2. P!Current # "EOF" /\ P!Fits(index)
    BY <1>1, <1>2, <1>5, <2>1, FollowFacts
       DEF Around, P!CanStart, P!Redirectors, P!Joints
  <2>3. index' = index + 1 /\ Here' = P!Current
    BY <1>1, <2>1, <2>2, Moves
  <2>4. Around'
    BY <1>1, <2>1, <2>3 DEF Around, P!CanStart, P!Joints
  <2>5. ParseInv'
    BY <2>1, <2>2, <2>4, GoesOn DEF P!Points, Ends
  <2>6. Weight(parser) = 2 /\ Weight(parser') = 7
    BY <2>1
  <2>7. P!TokensLeft' < P!TokensLeft
    BY <1>2, <1>4, <2>3, <2>6
  <2>8. QED
    BY <1>3, <2>5, <2>7
<1>22. QED
  BY <1>6, <1>7, <1>8, <1>9, <1>10, <1>11, <1>12, <1>13,
     <1>14, <1>15, <1>16, <1>17, <1>18, <1>19, <1>20, <1>21 DEF P!Next

-----------------------------------------------------------------------------
(* What hangs where.                                                        *)

IsSeq(s) == \E S : s \in Seq(S)

Holds(c, w) ==
  \/ \E a \in DOMAIN c.argv : c.argv[a] = w
  \/ \E r \in DOMAIN c.redirections : c.redirections[r].operand = w
InPipeline(p, w) == \E k \in DOMAIN p : Holds(p[k], w)
InAndOr(a, w)    == \E j \in DOMAIN a : InPipeline(a[j].pipeline, w)
InSequence(s, w) == \E i \in DOMAIN s : InAndOr(s[i].andOr, w)

CommandShape(c) ==
  /\ c = [argv |-> c.argv, redirections |-> c.redirections]
  /\ IsSeq(c.argv) /\ IsSeq(c.redirections)
AndOrShape(a) ==
  /\ IsSeq(a)
  /\ \A j \in DOMAIN a :
       a[j] = [pipeline |-> a[j].pipeline, operator |-> a[j].operator]
SequenceShape(s) ==
  /\ IsSeq(s)
  /\ \A i \in DOMAIN s :
       s[i] = [andOr |-> s[i].andOr, separator |-> s[i].separator]

(* A node is empty again once it hangs in the one above it.                 *)
Nodes ==
  /\ CommandShape(command) /\ IsSeq(pipeline)
  /\ AndOrShape(andOr) /\ SequenceShape(sequence)
  /\ parser \in {"pipeline", "andOr"} => command = P!Empty
  /\ parser = "andOr" => pipeline = <<>>

Unfinished(w) ==
  Holds(command, w) \/ InPipeline(pipeline, w) \/ InAndOr(andOr, w)
Semicolon == ";"
KindAt(t) == tokens[t].kind
NoSemicolon(w, t) == w < t /\ \A m \in w..t-1 : KindAt(m) # Semicolon

(* A copy that is allocated hangs in the sequence, or else in an unfinished *)
(* node (or hung in one when the error was found), and then no semicolon    *)
(* was read since the word it is a copy of.                                 *)
Hangs ==
  \A w \in live :
    \/ InSequence(sequence, w)
    \/ parser = "failed" /\ NoSemicolon(w, errorToken)
    \/ /\ parser \notin Ends \cup {"sequence", "separator"}
       /\ Unfinished(w) /\ NoSemicolon(w, index)

LEMMA SemicolonFacts ==
  /\ Semicolon = ";" /\ Semicolon \notin {"WORD", "|"}
  /\ Semicolon \notin P!Redirectors \cup P!Joints
  BY DEF Semicolon, P!Redirectors, P!Joints

LEMMA AppendFacts ==
  ASSUME NEW s, IsSeq(s), NEW x
  PROVE  /\ IsSeq(Append(s, x))
         /\ DOMAIN Append(s, x) = DOMAIN s \cup {Len(s) + 1}
         /\ Append(s, x)[Len(s) + 1] = x
         /\ \A i \in DOMAIN s : Append(s, x)[i] = s[i]
<1>1. PICK S : s \in Seq(S)
  BY DEF IsSeq
<1> DEFINE T == S \cup {x}
<1>2. s \in Seq(T) /\ x \in T
  BY <1>1
<1> HIDE DEF T
<1>3. Append(s, x) \in Seq(T)
  BY <1>2
<1>4. IsSeq(Append(s, x))
  BY <1>3 DEF IsSeq
<1>5. QED
  BY <1>2, <1>4

LEMMA EmptyNodes ==
  /\ IsSeq(<<>>) /\ CommandShape(P!Empty) /\ AndOrShape(<<>>)
  /\ \A w : ~Holds(P!Empty, w) /\ ~InPipeline(<<>>, w) /\ ~InAndOr(<<>>, w)
<1>1. IsSeq(<<>>)
  <2>1. <<>> \in Seq({})
    OBVIOUS
  <2>2. QED
    BY <2>1 DEF IsSeq
<1>2. QED
  BY <1>1 DEF CommandShape, AndOrShape, P!Empty, Holds, InPipeline, InAndOr

(* A word that is added to a command.                                       *)
LEMMA AddArgument ==
  ASSUME NEW c, CommandShape(c), NEW x
  PROVE  LET d == [c EXCEPT !.argv = Append(@, x)]
         IN  /\ CommandShape(d) /\ Holds(d, x)
             /\ \A w : Holds(c, w) => Holds(d, w)
<1> DEFINE v == Append(c.argv, x)
           d == [argv |-> v, redirections |-> c.redirections]
<1>1. [c EXCEPT !.argv = Append(@, x)] = d
  <2>1. c = [argv |-> c.argv, redirections |-> c.redirections]
    BY DEF CommandShape
  <2> HIDE DEF v
  <2>2. [c EXCEPT !.argv = v] = d
    BY <2>1
  <2>3. QED
    BY <2>2 DEF v
<1>2. /\ IsSeq(v) /\ DOMAIN v = DOMAIN c.argv \cup {Len(c.argv) + 1}
      /\ v[Len(c.argv) + 1] = x
      /\ \A i \in DOMAIN c.argv : v[i] = c.argv[i]
  BY AppendFacts DEF CommandShape
<1> HIDE DEF v
<1>3. CommandShape(d)
  BY <1>2 DEF CommandShape
<1>4. Holds(d, x) /\ \A w : Holds(c, w) => Holds(d, w)
  BY <1>2 DEF Holds
<1>5. QED
  BY <1>1, <1>3, <1>4

LEMMA AddOperand ==
  ASSUME NEW c, CommandShape(c), NEW x
  PROVE  LET d == [c EXCEPT !.redirections = Append(@, x)]
         IN  /\ CommandShape(d) /\ Holds(d, x.operand)
             /\ \A w : Holds(c, w) => Holds(d, w)
<1> DEFINE v == Append(c.redirections, x)
           d == [argv |-> c.argv, redirections |-> v]
<1>1. [c EXCEPT !.redirections = Append(@, x)] = d
  <2>1. c = [argv |-> c.argv, redirections |-> c.redirections]
    BY DEF CommandShape
  <2> HIDE DEF v
  <2>2. [c EXCEPT !.redirections = v] = d
    BY <2>1
  <2>3. QED
    BY <2>2 DEF v
<1>2. /\ IsSeq(v) /\ DOMAIN v = DOMAIN c.redirections \cup {Len(c.redirections) + 1}
      /\ v[Len(c.redirections) + 1] = x
      /\ \A i \in DOMAIN c.redirections : v[i] = c.redirections[i]
  BY AppendFacts DEF CommandShape
<1> HIDE DEF v
<1>3. CommandShape(d)
  BY <1>2 DEF CommandShape
<1>4. Holds(d, x.operand) /\ \A w : Holds(c, w) => Holds(d, w)
  BY <1>2 DEF Holds
<1>5. QED
  BY <1>1, <1>3, <1>4

(* A node that is hung at the tail of the one above it.                     *)
LEMMA HangCommand ==
  ASSUME NEW p, IsSeq(p), NEW c
  PROVE  /\ IsSeq(Append(p, c))
         /\ \A w : InPipeline(p, w) \/ Holds(c, w) => InPipeline(Append(p, c), w)
<1> DEFINE v == Append(p, c)
<1>1. /\ IsSeq(v) /\ DOMAIN v = DOMAIN p \cup {Len(p) + 1}
      /\ v[Len(p) + 1] = c /\ \A i \in DOMAIN p : v[i] = p[i]
  BY AppendFacts
<1> HIDE DEF v
<1>2. IsSeq(v) /\ \A w : InPipeline(p, w) \/ Holds(c, w) => InPipeline(v, w)
  BY <1>1 DEF InPipeline
<1>3. QED
  BY <1>2 DEF v

LEMMA HangPipeline ==
  ASSUME NEW a, AndOrShape(a), NEW p
  PROVE  LET b == Append(a, [pipeline |-> p, operator |-> "none"])
         IN  /\ AndOrShape(b)
             /\ \A w : InAndOr(a, w) \/ InPipeline(p, w) => InAndOr(b, w)
<1> DEFINE x == [pipeline |-> p, operator |-> "none"]
           b == Append(a, x)
<1>1. /\ IsSeq(b) /\ DOMAIN b = DOMAIN a \cup {Len(a) + 1}
      /\ b[Len(a) + 1] = x /\ \A i \in DOMAIN a : b[i] = a[i]
  BY AppendFacts DEF AndOrShape
<1> HIDE DEF b
<1>2. AndOrShape(b)
  BY <1>1 DEF AndOrShape
<1>3. \A w : InAndOr(a, w) \/ InPipeline(p, w) => InAndOr(b, w)
  BY <1>1 DEF InAndOr
<1>4. QED
  BY <1>2, <1>3 DEF b

LEMMA HangAndOr ==
  ASSUME NEW s, SequenceShape(s), NEW a
  PROVE  LET u == Append(s, [andOr |-> a, separator |-> "none"])
         IN  /\ SequenceShape(u)
             /\ \A w : InSequence(s, w) \/ InAndOr(a, w) => InSequence(u, w)
<1> DEFINE x == [andOr |-> a, separator |-> "none"]
           u == Append(s, x)
<1>1. /\ IsSeq(u) /\ DOMAIN u = DOMAIN s \cup {Len(s) + 1}
      /\ u[Len(s) + 1] = x /\ \A i \in DOMAIN s : u[i] = s[i]
  BY AppendFacts DEF SequenceShape
<1> HIDE DEF u
<1>2. SequenceShape(u)
  BY <1>1 DEF SequenceShape
<1>3. \A w : InSequence(s, w) \/ InAndOr(a, w) => InSequence(u, w)
  BY <1>1 DEF InSequence
<1>4. QED
  BY <1>2, <1>3 DEF u

(* An operator or separator that is kept in the node before it.             *)
LEMMA KeepOperator ==
  ASSUME NEW a, AndOrShape(a), NEW n, NEW o
  PROVE  LET b == [a EXCEPT ![n].operator = o]
         IN  AndOrShape(b) /\ \A w : InAndOr(a, w) => InAndOr(b, w)
<1> DEFINE b == [a EXCEPT ![n].operator = o]
<1>1. DOMAIN b = DOMAIN a
  OBVIOUS
<1>2. \A j \in DOMAIN a :
        b[j] = [pipeline |-> a[j].pipeline,
                operator |-> IF j = n THEN o ELSE a[j].operator]
  BY DEF AndOrShape
<1>3. IsSeq(b)
  <2>1. PICK S : a \in Seq(S)
    BY DEF AndOrShape, IsSeq
  <2> DEFINE T == S \cup {b[n]}
  <2>2. /\ Len(a) \in Nat /\ DOMAIN b = 1..Len(a)
        /\ \A j \in DOMAIN a : b[j] \in T
    BY <2>1
  <2>3. b \in [1..Len(a) -> T]
    BY <2>1, <2>2
  <2> HIDE DEF T, b
  <2>4. b \in Seq(T)
    BY <2>2, <2>3
  <2>5. QED
    BY <2>4 DEF IsSeq
<1> HIDE DEF b
<1>4. AndOrShape(b)
  BY <1>1, <1>2, <1>3 DEF AndOrShape
<1>5. \A w : InAndOr(a, w) => InAndOr(b, w)
  BY <1>1, <1>2 DEF InAndOr
<1>6. QED
  BY <1>4, <1>5 DEF b

LEMMA KeepSeparator ==
  ASSUME NEW s, SequenceShape(s), NEW n, NEW o
  PROVE  LET u == [s EXCEPT ![n].separator = o]
         IN  SequenceShape(u) /\ \A w : InSequence(s, w) => InSequence(u, w)
<1> DEFINE u == [s EXCEPT ![n].separator = o]
<1>1. DOMAIN u = DOMAIN s
  OBVIOUS
<1>2. \A i \in DOMAIN s :
        u[i] = [andOr |-> s[i].andOr,
                separator |-> IF i = n THEN o ELSE s[i].separator]
  BY DEF SequenceShape
<1>3. IsSeq(u)
  <2>1. PICK S : s \in Seq(S)
    BY DEF SequenceShape, IsSeq
  <2> DEFINE T == S \cup {u[n]}
  <2>2. /\ Len(s) \in Nat /\ DOMAIN u = 1..Len(s)
        /\ \A i \in DOMAIN s : u[i] \in T
    BY <2>1
  <2>3. u \in [1..Len(s) -> T]
    BY <2>1, <2>2
  <2> HIDE DEF T, u
  <2>4. u \in Seq(T)
    BY <2>2, <2>3
  <2>5. QED
    BY <2>4 DEF IsSeq
<1> HIDE DEF u
<1>4. SequenceShape(u)
  BY <1>1, <1>2, <1>3 DEF SequenceShape
<1>5. \A w : InSequence(s, w) => InSequence(u, w)
  BY <1>1, <1>2 DEF InSequence
<1>6. QED
  BY <1>4, <1>5 DEF u

LEMMA WordsAreNumbers ==
  ASSUME P!TypeOK
  PROVE  \A w \in live : w \in Nat /\ w >= 1
  BY DEF P!TypeOK, P!Delivered

LEMMA OneMore ==
  ASSUME NEW w \in Nat, NEW i \in Nat, NoSemicolon(w, i), KindAt(i) # Semicolon
  PROVE  NoSemicolon(w, i + 1)
<1>1. w < i + 1
  BY DEF NoSemicolon
<1>2. \A m \in w..(i + 1)-1 : m \in w..i-1 \/ m = i
  OBVIOUS
<1>3. QED
  BY <1>1, <1>2 DEF NoSemicolon

(* A step that leaves the nodes alone.                                      *)
LEMMA NodesKept ==
  ASSUME Hangs, UNCHANGED <<tokens, sequence, andOr, pipeline, command, live>>,
         NEW point, parser' = point, index' \in {index, index + 1},
         index \in Nat, index' = index + 1 => P!Current # Semicolon,
         P!Current = KindAt(index), P!TypeOK,
         point = "parsed" => parser \in {"sequence", "separator"},
         parser \notin {"sequence", "separator"} =>
           point \notin Ends \cup {"sequence", "separator"},
         parser \notin Ends
  PROVE  Hangs'
<1> SUFFICES ASSUME NEW w \in live, ~InSequence(sequence, w)
             PROVE  /\ parser' \notin Ends \cup {"sequence", "separator"}
                    /\ Unfinished(w)' /\ NoSemicolon(w, index)'
  BY DEF Hangs
<1>1. /\ parser \notin Ends \cup {"sequence", "separator"}
      /\ Unfinished(w) /\ NoSemicolon(w, index)
  BY DEF Hangs, Ends
<1>2. Unfinished(w)'
  BY <1>1 DEF Unfinished
<1>3. NoSemicolon(w, index')
  BY <1>1, WordsAreNumbers, OneMore
<1>4. NoSemicolon(w, index)'
  BY <1>3 DEF NoSemicolon, KindAt
<1>5. QED
  BY <1>1, <1>2, <1>4

(* Where the unfinished nodes are given up.                                 *)
LEMMA HangsFailed ==
  ASSUME Hangs, parser \notin Ends, P!TypeOK, NEW t \in {index, index + 1},
         t = index + 1 => P!Current # Semicolon, P!Fail(t)
  PROVE  Hangs'
<1> SUFFICES ASSUME NEW w \in live', ~InSequence(sequence', w)
             PROVE  parser' = "failed" /\ NoSemicolon(w, errorToken)'
  BY DEF Hangs
<1>1. /\ live' = live /\ sequence' = sequence /\ tokens' = tokens
      /\ parser' = "failed" /\ errorToken' = t
  BY DEF P!Fail
<1>2. NoSemicolon(w, index)
  BY <1>1 DEF Hangs, Ends
<1>3. P!Current = KindAt(index) /\ index \in Nat
  BY Tokens DEF KindAt
<1>4. NoSemicolon(w, t)
  BY <1>1, <1>2, <1>3, WordsAreNumbers, OneMore
<1>5. QED
  BY <1>1, <1>4 DEF NoSemicolon, KindAt

LEMMA NodesStart == P!Init => Nodes /\ Hangs
<1>1. IsSeq(<<>>)
  BY EmptyNodes
<1>2. QED
  BY <1>1, EmptyNodes DEF P!Init, Nodes, Hangs, SequenceShape

LEMMA HangsKept ==
  ASSUME Nodes, Hangs,
         UNCHANGED <<tokens, index, parser, errorToken, sequence, andOr,
                     pipeline, command, live>>
  PROVE  Nodes' /\ Hangs'
<1>1. Nodes'
  BY DEF Nodes
<1>2. Hangs'
  BY DEF Hangs, Unfinished, NoSemicolon, KindAt
<1>3. QED
  BY <1>1, <1>2

LEMMA HangStep ==
  ASSUME ParseInv, parser \notin Ends, Nodes, Hangs, P!Next
  PROVE  Nodes' /\ Hangs'
<1>1. /\ P!TypeOK /\ index \in Nat /\ P!Current = KindAt(index)
      /\ \A w \in live : w \in Nat
  BY Tokens, WordsAreNumbers DEF ParseInv, KindAt
<1>2. P!Advance => index' = IF P!Current # "EOF" THEN index + 1 ELSE index
  BY DEF P!Advance
<1>3. CASE P!NoMoreLists \/ P!NewList \/ P!CommandStarts \/ P!SequenceEnds
             \/ P!Redirector \/ P!NextCommand
  <2>1. /\ UNCHANGED <<tokens, sequence, andOr, pipeline, command, live>>
        /\ index' \in {index, index + 1}
        /\ index' = index + 1 => P!Current # Semicolon
        /\ parser' = "parsed" => parser \in {"sequence", "separator"}
        /\ parser \notin {"sequence", "separator"} =>
              parser' \notin Ends \cup {"sequence", "separator"}
        /\ parser' \notin {"pipeline", "andOr"}
    <3>1. index # index + 1
      BY <1>1
    <3>2. CASE P!NoMoreLists \/ P!NewList \/ P!CommandStarts \/ P!SequenceEnds
      <4>1. /\ UNCHANGED <<tokens, sequence, andOr, pipeline, command, live>>
            /\ index' = index
        BY <3>2 DEF P!NoMoreLists, P!NewList, P!CommandStarts, P!SequenceEnds,
           P!work
      <4>2. QED
        BY <3>1, <3>2, <4>1 DEF P!NoMoreLists, P!NewList, P!CommandStarts,
           P!SequenceEnds, Ends
    <3>3. CASE P!Redirector \/ P!NextCommand
      <4>1. /\ UNCHANGED <<tokens, sequence, andOr, pipeline, command, live>>
            /\ P!Current # Semicolon /\ P!Advance
        BY <3>3, SemicolonFacts DEF P!Redirector, P!NextCommand, P!work
      <4>2. QED
        BY <1>2, <3>3, <4>1 DEF P!Redirector, P!NextCommand, Ends
    <3>4. QED
      BY <1>3, <3>2, <3>3
  <2>2. PICK point : point = parser'
    OBVIOUS
  <2>3. Hangs'
    BY <1>1, <2>1, <2>2, NodesKept
  <2>4. QED
    BY <2>1, <2>3 DEF Nodes
<1>4. CASE P!NoCommand \/ P!NoOperand \/ P!NoFollowup
  <2>1. PICK t \in {index, index + 1} :
          P!Fail(t) /\ (t = index + 1 => P!Current # Semicolon)
    <3>1. index # index + 1
      BY <1>1
    <3>2. CASE P!NoCommand \/ P!NoOperand
      BY <3>1, <3>2 DEF P!NoCommand, P!NoOperand
    <3>3. CASE P!NoFollowup
      BY <3>3, SemicolonFacts DEF P!NoFollowup, P!MissingFollowup
    <3>4. QED
      BY <1>4, <3>2, <3>3
  <2>2. Hangs'
    BY <1>1, <2>1, HangsFailed
  <2>3. /\ command' = P!Empty /\ pipeline' = <<>> /\ andOr' = <<>>
        /\ sequence' = sequence
    BY <2>1 DEF P!Fail
  <2>4. QED
    BY <2>2, <2>3, EmptyNodes DEF Nodes
<1>5. CASE P!Argument \/ P!Operand
  <2>1. /\ P!Current = "WORD" /\ live' = live \cup {index}
        /\ parser' = "words" /\ parser \in {"words", "operand"}
        /\ index' = index + 1 /\ UNCHANGED <<tokens, sequence, andOr, pipeline>>
    BY <1>2, <1>5 DEF P!Argument, P!Operand
  <2>2. /\ CommandShape(command') /\ Holds(command', index)
        /\ \A w : Holds(command, w) => Holds(command', w)
    <3>1. CASE P!Argument
      BY <3>1, AddArgument DEF P!Argument, Nodes
    <3>2. CASE P!Operand
      <4> DEFINE x == P!Redirection(tokens[index - 1].kind, index)
      <4>1. x.operand = index
        BY DEF P!Redirection
      <4>2. command' = [command EXCEPT !.redirections = Append(@, x)]
        BY <3>2 DEF P!Operand
      <4> HIDE DEF x
      <4>3. QED
        BY <4>1, <4>2, AddOperand DEF Nodes
    <3>3. QED
      BY <1>5, <3>1, <3>2
  <2>3. ASSUME NEW w \in live', ~InSequence(sequence, w)
        PROVE  /\ \/ Holds(command', w) \/ InPipeline(pipeline, w)
                  \/ InAndOr(andOr, w)
               /\ NoSemicolon(w, index + 1)
    <3>1. CASE w = index
      <4>1. \A m \in index..(index + 1)-1 : m = index
        BY <1>1
      <4>2. KindAt(index) # Semicolon
        BY <1>1, <2>1, SemicolonFacts
      <4>3. NoSemicolon(index, index + 1)
        BY <1>1, <4>1, <4>2 DEF NoSemicolon
      <4>4. QED
        BY <2>2, <3>1, <4>3
    <3>2. CASE w \in live
      <4>1. Unfinished(w) /\ NoSemicolon(w, index)
        BY <2>1, <2>3, <3>2 DEF Hangs, Ends
      <4>2. NoSemicolon(w, index + 1)
        BY <1>1, <2>1, <3>2, <4>1, OneMore, SemicolonFacts
      <4>3. QED
        BY <2>2, <4>1, <4>2 DEF Unfinished
    <3>3. QED
      BY <2>1, <3>1, <3>2
  <2>4. Hangs'
    BY <2>1, <2>3 DEF Hangs, Unfinished, NoSemicolon, KindAt, Ends
  <2>5. QED
    BY <2>1, <2>2, <2>4 DEF Nodes
<1>6. CASE P!CommandEnds
  <2>1. /\ pipeline' = Append(pipeline, command) /\ command' = P!Empty
        /\ parser = "words" /\ parser' = "pipeline"
        /\ UNCHANGED <<tokens, index, sequence, andOr, live>>
    BY <1>6 DEF P!CommandEnds
  <2>2. /\ IsSeq(pipeline')
        /\ \A w : InPipeline(pipeline, w) \/ Holds(command, w)
                   => InPipeline(pipeline', w)
    BY <2>1, HangCommand DEF Nodes
  <2>3. \A w \in live :
          \/ InSequence(sequence, w)
          \/ /\ InPipeline(pipeline', w) \/ InAndOr(andOr, w)
             /\ NoSemicolon(w, index)
    BY <2>1, <2>2 DEF Hangs, Unfinished
  <2>4. Hangs'
    BY <2>1, <2>3 DEF Hangs, Unfinished, NoSemicolon, KindAt, Ends
  <2>5. QED
    BY <2>1, <2>2, <2>4, EmptyNodes DEF Nodes
<1>7. CASE P!PipelineEnds
  <2>1. /\ andOr' = Append(andOr, [pipeline |-> pipeline, operator |-> "none"])
        /\ pipeline' = <<>> /\ parser = "pipeline" /\ parser' = "andOr"
        /\ command = P!Empty
        /\ UNCHANGED <<tokens, index, sequence, command, live>>
    BY <1>7 DEF P!PipelineEnds, Nodes
  <2>2. /\ AndOrShape(andOr')
        /\ \A w : InAndOr(andOr, w) \/ InPipeline(pipeline, w)
                   => InAndOr(andOr', w)
    BY <2>1, HangPipeline DEF Nodes
  <2>3. \A w \in live :
          InSequence(sequence, w) \/ (InAndOr(andOr', w) /\ NoSemicolon(w, index))
    BY <2>1, <2>2, EmptyNodes DEF Hangs, Unfinished
  <2>4. Hangs'
    BY <2>1, <2>3 DEF Hangs, Unfinished, NoSemicolon, KindAt, Ends
  <2>5. QED
    BY <2>1, <2>2, <2>4, EmptyNodes DEF Nodes
<1>8. CASE P!AndOrEnds
  <2>1. /\ sequence' = Append(sequence, [andOr |-> andOr, separator |-> "none"])
        /\ andOr' = <<>> /\ parser = "andOr" /\ parser' = "separator"
        /\ command = P!Empty /\ pipeline = <<>>
        /\ UNCHANGED <<tokens, index, pipeline, command, live>>
    BY <1>8 DEF P!AndOrEnds, Nodes
  <2>2. /\ SequenceShape(sequence')
        /\ \A w : InSequence(sequence, w) \/ InAndOr(andOr, w)
                   => InSequence(sequence', w)
    BY <2>1, HangAndOr DEF Nodes
  <2>3. \A w \in live : InSequence(sequence', w)
    BY <2>1, <2>2, EmptyNodes DEF Hangs, Unfinished
  <2>4. Hangs'
    BY <2>1, <2>3 DEF Hangs
  <2>5. QED
    BY <2>1, <2>2, <2>4, EmptyNodes DEF Nodes
<1>9. CASE P!NextPipeline
  <2>1. /\ andOr' = [andOr EXCEPT ![Len(andOr)].operator = P!Current]
        /\ parser = "andOr" /\ parser' = "command"
        /\ index' \in {index, index + 1} /\ P!Current # Semicolon
        /\ UNCHANGED <<tokens, sequence, pipeline, command, live>>
    BY <1>2, <1>9, SemicolonFacts DEF P!NextPipeline
  <2>2. AndOrShape(andOr') /\ \A w : InAndOr(andOr, w) => InAndOr(andOr', w)
    BY <2>1, KeepOperator DEF Nodes
  <2>3. \A w \in live :
          \/ InSequence(sequence, w)
          \/ /\ Holds(command, w) \/ InPipeline(pipeline, w) \/ InAndOr(andOr', w)
             /\ NoSemicolon(w, index')
    <3> SUFFICES ASSUME NEW w \in live, ~InSequence(sequence, w)
                 PROVE  /\ Holds(command, w) \/ InPipeline(pipeline, w)
                              \/ InAndOr(andOr', w)
                        /\ NoSemicolon(w, index')
      OBVIOUS
    <3>1. Unfinished(w) /\ NoSemicolon(w, index)
      BY <2>1 DEF Hangs
    <3>2. NoSemicolon(w, index')
      BY <1>1, <2>1, <3>1, OneMore
    <3>3. QED
      BY <2>2, <3>1, <3>2 DEF Unfinished
  <2>4. Hangs'
    BY <2>1, <2>3 DEF Hangs, Unfinished, NoSemicolon, KindAt, Ends
  <2>5. QED
    BY <2>1, <2>2, <2>4 DEF Nodes
<1>10. CASE P!NextList
  <2>1. /\ sequence' = [sequence EXCEPT ![Len(sequence)].separator = ";"]
        /\ parser = "separator" /\ parser' = "sequence"
        /\ UNCHANGED <<tokens, andOr, pipeline, command, live>>
    BY <1>10 DEF P!NextList
  <2>2. /\ SequenceShape(sequence')
        /\ \A w : InSequence(sequence, w) => InSequence(sequence', w)
    BY <2>1, KeepSeparator DEF Nodes
  <2>3. \A w \in live : InSequence(sequence', w)
    BY <2>1, <2>2 DEF Hangs
  <2>4. Hangs'
    BY <2>1, <2>3 DEF Hangs
  <2>5. QED
    BY <2>1, <2>2, <2>4 DEF Nodes
<1>11. QED
  BY <1>3, <1>4, <1>5, <1>6, <1>7, <1>8, <1>9, <1>10 DEF P!Next

(* Before t there is a last token of any kind, or none.                     *)
LEMMA LastExists ==
  ASSUME NEW kinds, NEW t \in Nat \ {0}
  PROVE  /\ P!Last(kinds, t) \in 0..t-1
         /\ P!Last(kinds, t) = 0 \/ tokens[P!Last(kinds, t)].kind \in kinds
         /\ \A m \in P!Last(kinds, t)+1..t-1 : tokens[m].kind \notin kinds
<1> DEFINE Good(l) == l = 0 \/ tokens[l].kind \in kinds
           back == {d \in 0..t-1 : Good(t - 1 - d)}
<1>1. back \subseteq Nat /\ t - 1 \in back
  OBVIOUS
<1>2. PICK d \in back : \A e \in back : d <= e
  BY <1>1, LeastExists
<1>3. t - 1 - d \in 0..t-1 /\ Good(t - 1 - d)
  BY <1>2
<1>4. \A m \in (t - 1 - d)+1..t-1 : ~Good(m)
  <2> SUFFICES ASSUME NEW m \in (t - 1 - d)+1..t-1, Good(m) PROVE FALSE
    OBVIOUS
  <2>1. t - 1 - m \in 0..t-1 /\ t - 1 - (t - 1 - m) = m /\ t - 1 - m < d
    BY <1>2
  <2> HIDE DEF Good
  <2>2. t - 1 - m \in back
    BY <2>1
  <2>3. QED
    BY <1>2, <2>1, <2>2
<1>5. \E l \in 0..t-1 : /\ l = 0 \/ tokens[l].kind \in kinds
                       /\ \A m \in l+1..t-1 : tokens[m].kind \notin kinds
  BY <1>3, <1>4
<1>6. QED
  BY <1>5 DEF P!Last

(* A path leads to every command of the tree, and only to them.             *)
LEMMA PathsAre ==
  ASSUME NEW p
  PROVE  p \in P!Paths <=>
           \E i \in DOMAIN sequence : \E j \in DOMAIN sequence[i].andOr :
             \E k \in DOMAIN sequence[i].andOr[j].pipeline : p = <<i, j, k>>
<1> DEFINE node(a, b) ==
             {<<a, b, c>> : c \in DOMAIN sequence[a].andOr[b].pipeline}
           list(a) == UNION {node(a, b) : b \in DOMAIN sequence[a].andOr}
<1>1. P!Paths = UNION {list(a) : a \in DOMAIN sequence}
  BY Zenon DEF P!Paths
<1>2. \A a, b : p \in node(a, b) <=>
        \E c \in DOMAIN sequence[a].andOr[b].pipeline : p = <<a, b, c>>
  OBVIOUS
<1> HIDE DEF node
<1>3. \A a : p \in list(a) <=> \E b \in DOMAIN sequence[a].andOr : p \in node(a, b)
  OBVIOUS
<1> HIDE DEF list
<1>4. p \in P!Paths <=> \E a \in DOMAIN sequence : p \in list(a)
  BY <1>1
<1>5. QED
  BY <1>2, <1>3, <1>4

(* The slots of the tree, and what they hold.                               *)
LEMMA SlotsAre ==
  ASSUME NEW s
  PROVE  s \in P!Slots <=>
           \E p \in P!Paths :
             \/ \E a \in DOMAIN P!CommandAt(p).argv : s = <<p, "argv", a>>
             \/ \E r \in DOMAIN P!CommandAt(p).redirections :
                  s = <<p, "operand", r>>
<1> DEFINE of(p) ==
             {<<p, "argv", a>> : a \in DOMAIN P!CommandAt(p).argv}
               \cup {<<p, "operand", r>> :
                      r \in DOMAIN P!CommandAt(p).redirections}
<1>1. P!Slots = UNION {of(p) : p \in P!Paths}
  BY Zenon DEF P!Slots
<1>2. \A p : s \in of(p) <=>
        \/ \E a \in DOMAIN P!CommandAt(p).argv : s = <<p, "argv", a>>
        \/ \E r \in DOMAIN P!CommandAt(p).redirections : s = <<p, "operand", r>>
  OBVIOUS
<1> HIDE DEF of
<1>3. s \in P!Slots <=> \E p \in P!Paths : s \in of(p)
  BY <1>1
<1>4. QED
  BY <1>2, <1>3

LEMMA CopiesAre ==
  ASSUME NEW p, NEW n
  PROVE  /\ P!CopyAt(<<p, "argv", n>>) = P!CommandAt(p).argv[n]
         /\ P!CopyAt(<<p, "operand", n>>)
              = P!CommandAt(p).redirections[n].operand
  BY DEF P!CopyAt

(* sh_sequence_list_destroy frees whatever hangs in the sequence.           *)
LEMMA Destroyed ==
  ASSUME P!Destroy, NEW w \in live'
  PROVE  w \in live /\ ~InSequence(sequence, w)
<1>1. w \in live /\ \A s \in P!Slots : P!CopyAt(s) # w
  BY DEF P!Destroy
<1>2. ASSUME InSequence(sequence, w) PROVE FALSE
  <2>1. PICK i \in DOMAIN sequence : InAndOr(sequence[i].andOr, w)
    BY <1>2 DEF InSequence
  <2>2. PICK j \in DOMAIN sequence[i].andOr :
          InPipeline(sequence[i].andOr[j].pipeline, w)
    BY <2>1 DEF InAndOr
  <2>3. PICK k \in DOMAIN sequence[i].andOr[j].pipeline :
          Holds(sequence[i].andOr[j].pipeline[k], w)
    BY <2>2 DEF InPipeline
  <2>4. PICK p : p = <<i, j, k>>
    OBVIOUS
  <2>5. p \in P!Paths
    BY <2>1, <2>2, <2>3, <2>4, PathsAre
  <2>6. P!CommandAt(p) = sequence[i].andOr[j].pipeline[k]
    BY <2>4 DEF P!CommandAt
  <2>7. CASE \E a \in DOMAIN P!CommandAt(p).argv : P!CommandAt(p).argv[a] = w
    <3>1. PICK a \in DOMAIN P!CommandAt(p).argv : P!CommandAt(p).argv[a] = w
      BY <2>7
    <3>2. PICK s : s = <<p, "argv", a>>
      OBVIOUS
    <3>3. s \in P!Slots /\ P!CopyAt(s) = w
      BY <2>5, <3>1, <3>2, SlotsAre, CopiesAre
    <3>4. QED
      BY <1>1, <3>3
  <2>8. CASE \E r \in DOMAIN P!CommandAt(p).redirections :
               P!CommandAt(p).redirections[r].operand = w
    <3>1. PICK r \in DOMAIN P!CommandAt(p).redirections :
            P!CommandAt(p).redirections[r].operand = w
      BY <2>8
    <3>2. PICK s : s = <<p, "operand", r>>
      OBVIOUS
    <3>3. s \in P!Slots /\ P!CopyAt(s) = w
      BY <2>5, <3>1, <3>2, SlotsAre, CopiesAre
    <3>4. QED
      BY <1>1, <3>3
  <2>9. QED
    BY <2>3, <2>6, <2>7, <2>8 DEF Holds
<1>3. QED
  BY <1>1, <1>2

LEMMA Leaked ==
  ASSUME ParseInv, Hangs, parser \in Ends, P!Destroy
  PROVE  IF parser' = "parsed" THEN live' = {}
         ELSE live' \subseteq (P!Last({";"}, errorToken)+1 .. errorToken-1)'
<1>1. UNCHANGED <<tokens, parser, errorToken>>
  BY DEF P!Destroy
<1>2. CASE parser = "parsed"
  BY <1>1, <1>2, Destroyed DEF Hangs, Ends
<1>3. CASE parser = "failed"
  <2> DEFINE last == P!Last({";"}, errorToken)
  <2>1. errorToken \in Nat \ {0}
    BY <1>3 DEF ParseInv, P!ErrorAtFirstMisfit, P!TypeOK, P!Delivered
  <2>2. last \in 0..errorToken-1 /\ (last = 0 \/ KindAt(last) = Semicolon)
    BY <2>1, LastExists, SemicolonFacts DEF KindAt
  <2>3. (P!Last({";"}, errorToken))' = last
    BY <1>1 DEF P!Last
  <2> HIDE DEF last
  <2>4. ASSUME NEW w \in live' PROVE w \in last+1..errorToken-1
    <3>1. w \in live /\ ~InSequence(sequence, w)
      BY <2>4, Destroyed
    <3>2. NoSemicolon(w, errorToken) /\ w \in Nat /\ w >= 1
      BY <1>3, <3>1, WordsAreNumbers DEF Hangs, Ends, ParseInv
    <3>3. w < errorToken /\ (last \in w..errorToken-1 => KindAt(last) # Semicolon)
      BY <3>2 DEF NoSemicolon
    <3>4. QED
      BY <2>1, <2>2, <3>2, <3>3
  <2>5. QED
    BY <1>1, <1>3, <2>3, <2>4
<1>4. QED
  BY <1>2, <1>3 DEF Ends

-----------------------------------------------------------------------------
(* Where a word belongs, as the separators before it count.                 *)

LEMMA SameCardinality == ASSUME NEW S PROVE P!Cardinality(S) = Cardinality(S)
  BY Zenon DEF P!Cardinality, Cardinality

(* The last token of some kinds before t, and how many there are behind     *)
(* it, told from a token to the next.                                       *)
LEMMA LastIs ==
  ASSUME NEW kinds, NEW t \in Nat \ {0}, NEW l \in 0..t-1,
         l = 0 \/ KindAt(l) \in kinds,
         \A m \in l+1..t-1 : KindAt(m) \notin kinds
  PROVE  P!Last(kinds, t) = l
<1> DEFINE Good(x) == /\ x = 0 \/ KindAt(x) \in kinds
                      /\ \A m \in x+1..t-1 : KindAt(m) \notin kinds
<1>1. P!Last(kinds, t) = CHOOSE x \in 0..t-1 : Good(x)
  BY DEF P!Last, KindAt
<1>2. \E x \in 0..t-1 : Good(x)
  OBVIOUS
<1>3. ASSUME NEW x \in 0..t-1, Good(x) PROVE x = l
  <2>1. ~(x < l)
    BY <1>3
  <2>2. ~(l < x)
    BY <1>3
  <2>3. QED
    BY <2>1, <2>2
<1> HIDE DEF Good
<1>4. QED
  BY <1>1, <1>2, <1>3

LEMMA LastNext ==
  ASSUME NEW kinds, NEW t \in Nat \ {0}
  PROVE  P!Last(kinds, t + 1) = IF KindAt(t) \in kinds THEN t
                                ELSE P!Last(kinds, t)
<1> DEFINE last == P!Last(kinds, t)
<1>1. /\ last \in 0..t-1 /\ (last = 0 \/ KindAt(last) \in kinds)
      /\ \A m \in last+1..t-1 : KindAt(m) \notin kinds
  BY LastExists DEF KindAt
<1> HIDE DEF last
<1>2. CASE KindAt(t) \in kinds
  <2>1. t + 1 \in Nat \ {0} /\ t \in 0..(t + 1)-1
        /\ \A m \in t+1..(t + 1)-1 : KindAt(m) \notin kinds
    OBVIOUS
  <2>2. P!Last(kinds, t + 1) = t
    BY <1>2, <2>1, LastIs
  <2>3. QED
    BY <1>2, <2>2
<1>3. CASE KindAt(t) \notin kinds
  <2>1. t + 1 \in Nat \ {0} /\ last \in 0..(t + 1)-1
    BY <1>1
  <2>2. \A m \in last+1..(t + 1)-1 : m \in last+1..t-1 \/ m = t
    BY <1>1
  <2>3. \A m \in last+1..(t + 1)-1 : KindAt(m) \notin kinds
    BY <1>1, <1>3, <2>2
  <2>4. P!Last(kinds, t + 1) = last
    BY <1>1, <2>1, <2>3, LastIs
  <2>5. QED
    BY <1>3, <2>4 DEF last
<1>4. QED
  BY <1>2, <1>3

LEMMA CountNext ==
  ASSUME NEW kinds, NEW t \in Nat \ {0}, NEW from \in 0..t-1
  PROVE  /\ P!Count(kinds, from, t) \in Nat
         /\ P!Count(kinds, from, t + 1) =
              IF KindAt(t) \in kinds THEN P!Count(kinds, from, t) + 1
              ELSE P!Count(kinds, from, t)
<1> DEFINE S == {m \in from+1..t-1 : KindAt(m) \in kinds}
           T == {m \in from+1..(t + 1)-1 : KindAt(m) \in kinds}
<1>1. P!Count(kinds, from, t) = Cardinality(S)
      /\ P!Count(kinds, from, t + 1) = Cardinality(T)
  BY SameCardinality DEF P!Count, KindAt
<1>2. IsFiniteSet(S) /\ t \notin S
  <2>1. IsFiniteSet(from+1..t-1)
    BY FS_Interval
  <2>2. S \in SUBSET (from+1..t-1)
    OBVIOUS
  <2>3. QED
    BY <2>1, <2>2, FS_Subset
<1>3. T = IF KindAt(t) \in kinds THEN S \cup {t} ELSE S
  OBVIOUS
<1> HIDE DEF S, T
<1>4. Cardinality(S) \in Nat /\ Cardinality(S \cup {t}) = Cardinality(S) + 1
  BY <1>2, FS_CardinalityType, FS_AddElement
<1>5. QED
  BY <1>1, <1>3, <1>4

LEMMA CountNothing ==
  ASSUME NEW kinds, NEW t \in Nat
  PROVE  P!Count(kinds, t, t + 1) = 0
<1>1. {m \in t+1..(t + 1)-1 : KindAt(m) \in kinds} = {}
  OBVIOUS
<1>2. P!Count(kinds, t, t + 1) = Cardinality({})
  BY <1>1, SameCardinality DEF P!Count, KindAt
<1>3. QED
  BY <1>2, FS_EmptySet

(* The three counts of Place, by name: the list, the pipeline in it and the *)
(* command in that.                                                         *)
ListOf(t) == 1 + P!Count({Semicolon}, 0, t)
LinkOf(t) == 1 + P!Count(P!Joints, P!Last({Semicolon}, t), t)
SlotOf(t) == 1 + P!Count({"|"}, P!Last({Semicolon} \cup P!Joints, t), t)

LEMMA PlaceIs ==
  ASSUME NEW t
  PROVE  P!Place(t) = <<ListOf(t), LinkOf(t), SlotOf(t)>>
  BY Zenon DEF P!Place, ListOf, LinkOf, SlotOf, Semicolon

LEMMA FirstPlace == ListOf(1) = 1 /\ LinkOf(1) = 1 /\ SlotOf(1) = 1
<1>1. \A kinds : P!Count(kinds, 0, 1) = 0
  BY CountNothing
<1>2. \A kinds : P!Last(kinds, 1) = 0
  BY LastExists
<1>3. QED
  BY <1>1, <1>2 DEF ListOf, LinkOf, SlotOf

(* A separator ends its level and those below it; no other token ends one.  *)
LEMMA NextPlace ==
  ASSUME NEW t \in Nat \ {0}
  PROVE  /\ ListOf(t) \in Nat /\ LinkOf(t) \in Nat /\ SlotOf(t) \in Nat
         /\ ListOf(t + 1) = IF KindAt(t) = Semicolon THEN ListOf(t) + 1
                            ELSE ListOf(t)
         /\ LinkOf(t + 1) = IF KindAt(t) = Semicolon THEN 1
                            ELSE IF KindAt(t) \in P!Joints THEN LinkOf(t) + 1
                            ELSE LinkOf(t)
         /\ SlotOf(t + 1) =
              IF KindAt(t) \in {Semicolon} \cup P!Joints THEN 1
              ELSE IF KindAt(t) = "|" THEN SlotOf(t) + 1 ELSE SlotOf(t)
<1> DEFINE any == {Semicolon} \cup P!Joints
<1>1. /\ Semicolon # "|" /\ Semicolon \notin P!Joints /\ "|" \notin P!Joints
      /\ \A kinds : P!Last(kinds, t) \in 0..t-1
  BY SemicolonFacts, LastExists DEF P!Joints
<1>2. \A kinds : P!Last(kinds, t + 1) = IF KindAt(t) \in kinds THEN t
                                       ELSE P!Last(kinds, t)
  BY LastNext
<1>3. \A kinds : P!Count(kinds, t, t + 1) = 0
  BY CountNothing
<1>4. \A kinds : \A from \in 0..t-1 :
        /\ P!Count(kinds, from, t) \in Nat
        /\ P!Count(kinds, from, t + 1) =
             IF KindAt(t) \in kinds THEN P!Count(kinds, from, t) + 1
             ELSE P!Count(kinds, from, t)
  BY CountNext
<1> HIDE DEF any
<1>5. /\ ListOf(t) \in Nat
      /\ ListOf(t + 1) = IF KindAt(t) = Semicolon THEN ListOf(t) + 1
                         ELSE ListOf(t)
  BY <1>4 DEF ListOf
<1>6. /\ LinkOf(t) \in Nat
      /\ LinkOf(t + 1) = IF KindAt(t) = Semicolon THEN 1
                         ELSE IF KindAt(t) \in P!Joints THEN LinkOf(t) + 1
                         ELSE LinkOf(t)
  <2> DEFINE last == P!Last({Semicolon}, t)
  <2>1. last \in 0..t-1
    BY <1>1
  <2>2. P!Last({Semicolon}, t + 1) = IF KindAt(t) = Semicolon THEN t ELSE last
    BY <1>2
  <2>3. /\ P!Count(P!Joints, last, t) \in Nat
        /\ P!Count(P!Joints, last, t + 1) =
             IF KindAt(t) \in P!Joints THEN P!Count(P!Joints, last, t) + 1
             ELSE P!Count(P!Joints, last, t)
    BY <1>4, <2>1
  <2>4. P!Count(P!Joints, t, t + 1) = 0
    BY <1>3
  <2>5. LinkOf(t) = 1 + P!Count(P!Joints, last, t)
    BY DEF LinkOf
  <2>6. LinkOf(t + 1) = 1 + P!Count(P!Joints, P!Last({Semicolon}, t + 1), t + 1)
    BY DEF LinkOf
  <2> HIDE DEF last
  <2>7. QED
    BY <2>2, <2>3, <2>4, <2>5, <2>6
<1>7. /\ SlotOf(t) \in Nat
      /\ SlotOf(t + 1) = IF KindAt(t) \in any THEN 1
                         ELSE IF KindAt(t) = "|" THEN SlotOf(t) + 1
                         ELSE SlotOf(t)
  <2> DEFINE last == P!Last(any, t)
             bars == {"|"}
  <2>1. last \in 0..t-1
    BY <1>1
  <2>2. P!Last(any, t + 1) = IF KindAt(t) \in any THEN t ELSE last
    BY <1>2
  <2>3. /\ P!Count(bars, last, t) \in Nat
        /\ P!Count(bars, last, t + 1) =
             IF KindAt(t) \in bars THEN P!Count(bars, last, t) + 1
             ELSE P!Count(bars, last, t)
    BY <1>4, <2>1
  <2>4. P!Count(bars, t, t + 1) = 0
    BY <1>3
  <2>5. SlotOf(t) = 1 + P!Count(bars, last, t)
    BY DEF SlotOf, any
  <2>6. SlotOf(t + 1) = 1 + P!Count(bars, P!Last(any, t + 1), t + 1)
    BY DEF SlotOf, any
  <2>7. KindAt(t) \in bars <=> KindAt(t) = "|"
    OBVIOUS
  <2> HIDE DEF last, bars
  <2>8. QED
    BY <2>2, <2>3, <2>4, <2>5, <2>6, <2>7
<1>8. QED
  BY <1>5, <1>6, <1>7 DEF any

-----------------------------------------------------------------------------
(* The finished commands and the place they hang at; and the finished       *)
(* pipelines with the operator behind them.                                 *)
Hung(i, j, k, c) ==
  \/ /\ i \in DOMAIN sequence /\ j \in DOMAIN sequence[i].andOr
     /\ k \in DOMAIN sequence[i].andOr[j].pipeline
     /\ c = sequence[i].andOr[j].pipeline[k]
  \/ /\ i = Len(sequence) + 1 /\ j \in DOMAIN andOr
     /\ k \in DOMAIN andOr[j].pipeline /\ c = andOr[j].pipeline[k]
  \/ /\ i = Len(sequence) + 1 /\ j = Len(andOr) + 1
     /\ k \in DOMAIN pipeline /\ c = pipeline[k]
Linked(i, j, o) ==
  \/ /\ i \in DOMAIN sequence /\ j \in DOMAIN sequence[i].andOr
     /\ o = sequence[i].andOr[j].operator
  \/ i = Len(sequence) + 1 /\ j \in DOMAIN andOr /\ o = andOr[j].operator

LEMMA Domains ==
  ASSUME NEW s, IsSeq(s)
  PROVE  Len(s) \in Nat /\ DOMAIN s = 1..Len(s)
  BY DEF IsSeq

LEMMA AppendLength ==
  ASSUME NEW s, IsSeq(s), NEW x
  PROVE  Len(Append(s, x)) = Len(s) + 1
<1>1. PICK S : s \in Seq(S)
  BY DEF IsSeq
<1> DEFINE T == S \cup {x}
<1>2. s \in Seq(T) /\ x \in T
  BY <1>1
<1> HIDE DEF T
<1>3. QED
  BY <1>2

(* What each step of the descent that hangs a node adds to what hangs: what *)
(* hung where it did still does.                                            *)
LEMMA NothingHangs ==
  ASSUME sequence = <<>>, andOr = <<>>, pipeline = <<>>
  PROVE  /\ \A i, j, k, c : ~Hung(i, j, k, c)
         /\ \A i, j, o : ~Linked(i, j, o)
  BY DEF Hung, Linked

LEMMA HungKept ==
  ASSUME UNCHANGED <<sequence, andOr, pipeline>>
  PROVE  /\ \A i, j, k, c : Hung(i, j, k, c)' <=> Hung(i, j, k, c)
         /\ \A i, j, o : Linked(i, j, o)' <=> Linked(i, j, o)
  BY DEF Hung, Linked

(* CommandEnds.                                                             *)
LEMMA CommandHung ==
  ASSUME IsSeq(pipeline), NEW x, pipeline' = Append(pipeline, x),
         UNCHANGED <<sequence, andOr>>
  PROVE  /\ \A i, j, k, c :
              Hung(i, j, k, c)' <=>
                \/ Hung(i, j, k, c)
                \/ /\ i = Len(sequence) + 1 /\ j = Len(andOr) + 1
                   /\ k = Len(pipeline) + 1 /\ c = x
         /\ \A i, j, o : Linked(i, j, o)' <=> Linked(i, j, o)
<1> DEFINE v == Append(pipeline, x)
<1>1. /\ DOMAIN v = DOMAIN pipeline \cup {Len(pipeline) + 1}
      /\ v[Len(pipeline) + 1] = x /\ \A k \in DOMAIN pipeline : v[k] = pipeline[k]
  BY AppendFacts
<1>2. pipeline' = v /\ Len(sequence') = Len(sequence) /\ Len(andOr') = Len(andOr)
  OBVIOUS
<1> HIDE DEF v
<1>3. \A k, c : k \in DOMAIN v /\ c = v[k] <=>
         \/ k \in DOMAIN pipeline /\ c = pipeline[k]
         \/ k = Len(pipeline) + 1 /\ c = x
  <2>1. Len(pipeline) + 1 \notin DOMAIN pipeline
    BY Domains
  <2>2. QED
    BY <1>1, <2>1
<1>4. \A i, j, k, c :
        Hung(i, j, k, c)' <=>
          \/ /\ i \in DOMAIN sequence /\ j \in DOMAIN sequence[i].andOr
             /\ k \in DOMAIN sequence[i].andOr[j].pipeline
             /\ c = sequence[i].andOr[j].pipeline[k]
          \/ /\ i = Len(sequence) + 1 /\ j \in DOMAIN andOr
             /\ k \in DOMAIN andOr[j].pipeline /\ c = andOr[j].pipeline[k]
          \/ /\ i = Len(sequence) + 1 /\ j = Len(andOr) + 1
             /\ k \in DOMAIN v /\ c = v[k]
  BY <1>2 DEF Hung
<1>5. QED
  BY <1>3, <1>4 DEF Hung, Linked

(* PipelineEnds.                                                            *)
LEMMA PipelineHung ==
  ASSUME AndOrShape(andOr), pipeline' = <<>>, sequence' = sequence,
         andOr' = Append(andOr, [pipeline |-> pipeline, operator |-> "none"])
  PROVE  /\ \A i, j, k, c : Hung(i, j, k, c)' <=> Hung(i, j, k, c)
         /\ \A i, j, o :
              Linked(i, j, o)' <=>
                \/ Linked(i, j, o)
                \/ /\ i = Len(sequence) + 1 /\ j = Len(andOr) + 1
                   /\ o = "none"
<1> DEFINE x == [pipeline |-> pipeline, operator |-> "none"]
           v == Append(andOr, x)
           n == Len(andOr) + 1
<1>1. /\ DOMAIN v = DOMAIN andOr \cup {n} /\ v[n] = x
      /\ \A j \in DOMAIN andOr : v[j] = andOr[j]
  BY AppendFacts DEF AndOrShape
<1>2. andOr' = v /\ x.pipeline = pipeline /\ x.operator = "none"
      /\ n \notin DOMAIN andOr
  BY Domains DEF AndOrShape
<1> HIDE DEF v, x, n
<1>3. \A j, k, c :
        (j \in DOMAIN v /\ k \in DOMAIN v[j].pipeline /\ c = v[j].pipeline[k])
          <=>
        \/ /\ j \in DOMAIN andOr /\ k \in DOMAIN andOr[j].pipeline
           /\ c = andOr[j].pipeline[k]
        \/ j = n /\ k \in DOMAIN pipeline /\ c = pipeline[k]
  BY <1>1, <1>2
<1>4. \A j, o : (j \in DOMAIN v /\ o = v[j].operator) <=>
        \/ j \in DOMAIN andOr /\ o = andOr[j].operator
        \/ j = n /\ o = "none"
  BY <1>1, <1>2
<1>5. \A i, j, k, c :
        Hung(i, j, k, c)' <=>
          \/ /\ i \in DOMAIN sequence /\ j \in DOMAIN sequence[i].andOr
             /\ k \in DOMAIN sequence[i].andOr[j].pipeline
             /\ c = sequence[i].andOr[j].pipeline[k]
          \/ /\ i = Len(sequence) + 1
             /\ j \in DOMAIN v /\ k \in DOMAIN v[j].pipeline /\ c = v[j].pipeline[k]
  BY <1>2 DEF Hung
<1>6. \A i, j, k, c : Hung(i, j, k, c)' <=> Hung(i, j, k, c)
  BY <1>3, <1>5 DEF Hung, n
<1>7. QED
  BY <1>2, <1>4, <1>6 DEF Linked, n

(* AndOrEnds.                                                               *)
LEMMA AndOrHung ==
  ASSUME SequenceShape(sequence), pipeline = <<>>, pipeline' = <<>>,
         andOr' = <<>>,
         sequence' = Append(sequence, [andOr |-> andOr, separator |-> "none"])
  PROVE  /\ \A i, j, k, c : Hung(i, j, k, c)' <=> Hung(i, j, k, c)
         /\ \A i, j, o : Linked(i, j, o)' <=> Linked(i, j, o)
<1> DEFINE x == [andOr |-> andOr, separator |-> "none"]
           v == Append(sequence, x)
           n == Len(sequence) + 1
<1>1. /\ DOMAIN v = DOMAIN sequence \cup {n} /\ v[n] = x
      /\ \A i \in DOMAIN sequence : v[i] = sequence[i]
  BY AppendFacts DEF SequenceShape
<1>2. sequence' = v /\ x.andOr = andOr /\ n \notin DOMAIN sequence
  BY Domains DEF SequenceShape
<1> HIDE DEF v, x, n
<1>3. \A i, j, k, c :
        Hung(i, j, k, c)' <=>
          /\ i \in DOMAIN v /\ j \in DOMAIN v[i].andOr
          /\ k \in DOMAIN v[i].andOr[j].pipeline
          /\ c = v[i].andOr[j].pipeline[k]
  BY <1>2 DEF Hung
<1>4. \A i, j, o :
        Linked(i, j, o)' <=>
          i \in DOMAIN v /\ j \in DOMAIN v[i].andOr /\ o = v[i].andOr[j].operator
  BY <1>2 DEF Linked
<1>5. \A i, j, k, c : Hung(i, j, k, c)' <=> Hung(i, j, k, c)
  BY <1>1, <1>2, <1>3 DEF Hung, n
<1>6. QED
  BY <1>1, <1>2, <1>4, <1>5 DEF Linked, n

(* NextPipeline.                                                            *)
LEMMA OperatorKept ==
  ASSUME AndOrShape(andOr), IsSeq(sequence), NEW n \in DOMAIN andOr, NEW x,
         andOr' = [andOr EXCEPT ![n].operator = x],
         UNCHANGED <<sequence, pipeline>>
  PROVE  /\ Len(andOr') = Len(andOr)
         /\ \A i, j, k, c : Hung(i, j, k, c)' <=> Hung(i, j, k, c)
         /\ \A i, j, o :
              Linked(i, j, o)' <=>
                IF i = Len(sequence) + 1 /\ j = n THEN o = x
                ELSE Linked(i, j, o)
<1> DEFINE v == [andOr EXCEPT ![n].operator = x]
<1>1. /\ DOMAIN v = DOMAIN andOr
      /\ \A j \in DOMAIN andOr :
           v[j] = [pipeline |-> andOr[j].pipeline,
                   operator |-> IF j = n THEN x ELSE andOr[j].operator]
  BY DEF AndOrShape
<1>2. AndOrShape(v)
  BY KeepOperator
<1>3. andOr' = v
  OBVIOUS
<1> HIDE DEF v
<1>4. Len(v) = Len(andOr)
  <2>1. 1..Len(v) = 1..Len(andOr) /\ Len(v) \in Nat /\ Len(andOr) \in Nat
    BY <1>1, <1>2, Domains DEF AndOrShape
  <2>2. QED
    BY <2>1
<1>5. \A j \in DOMAIN andOr : /\ v[j].pipeline = andOr[j].pipeline
        /\ v[j].operator = IF j = n THEN x ELSE andOr[j].operator
  BY <1>1
<1>6. \A i, j, k, c : Hung(i, j, k, c)' <=> Hung(i, j, k, c)
  BY <1>1, <1>3, <1>4, <1>5 DEF Hung
<1>7. Len(sequence) + 1 \notin DOMAIN sequence
  BY Domains
<1>8. ASSUME NEW i, NEW j, NEW o
      PROVE  Linked(i, j, o)' <=> IF i = Len(sequence) + 1 /\ j = n THEN o = x
                                 ELSE Linked(i, j, o)
  BY <1>1, <1>3, <1>5, <1>7 DEF Linked
<1>9. QED
  BY <1>3, <1>4, <1>6, <1>8

(* NextList.                                                                *)
LEMMA SeparatorKept ==
  ASSUME SequenceShape(sequence), NEW n, NEW x,
         sequence' = [sequence EXCEPT ![n].separator = x],
         UNCHANGED <<andOr, pipeline>>
  PROVE  /\ Len(sequence') = Len(sequence)
         /\ \A i, j, k, c : Hung(i, j, k, c)' <=> Hung(i, j, k, c)
         /\ \A i, j, o : Linked(i, j, o)' <=> Linked(i, j, o)
<1> DEFINE v == [sequence EXCEPT ![n].separator = x]
<1>1. /\ DOMAIN v = DOMAIN sequence
      /\ \A i \in DOMAIN sequence :
           v[i] = [andOr |-> sequence[i].andOr,
                   separator |-> IF i = n THEN x ELSE sequence[i].separator]
  BY DEF SequenceShape
<1>2. SequenceShape(v)
  BY KeepSeparator
<1>3. sequence' = v
  OBVIOUS
<1> HIDE DEF v
<1>4. Len(v) = Len(sequence)
  <2>1. 1..Len(v) = 1..Len(sequence) /\ Len(v) \in Nat /\ Len(sequence) \in Nat
    BY <1>1, <1>2, Domains DEF SequenceShape
  <2>2. QED
    BY <2>1
<1>5. \A i \in DOMAIN sequence : v[i].andOr = sequence[i].andOr
  BY <1>1
<1>6. QED
  BY <1>1, <1>3, <1>4, <1>5 DEF Hung, Linked

-----------------------------------------------------------------------------
(* What a command is made of: words of the line, in its order, each an      *)
(* argument or the operand of the operator before it.                       *)
Arguments(v, W) ==
  /\ DOMAIN v \subseteq Nat
  /\ {v[a] : a \in DOMAIN v} = {t \in W : ~P!IsOperand(t)}
  /\ \A a, b \in DOMAIN v : a < b => v[a] < v[b]
Operands(v, W) ==
  /\ DOMAIN v \subseteq Nat
  /\ {v[r].operand : r \in DOMAIN v} = {t \in W : P!IsOperand(t)}
  /\ \A r, s \in DOMAIN v : r < s => v[r].operand < v[s].operand
  /\ \A r \in DOMAIN v :
       v[r] = P!Redirection(P!Before(v[r].operand), v[r].operand)
Carries(c, W) == Arguments(c.argv, W) /\ Operands(c.redirections, W)

LEMMA EmptyCarries == Carries(P!Empty, {})
  BY DEF Carries, Arguments, Operands, P!Empty

(* Argument and Operand: the word that is read comes behind all the others. *)
LEMMA CarriesArgument ==
  ASSUME NEW c, CommandShape(c), NEW W \in SUBSET Nat, Carries(c, W),
         NEW x \in Nat, \A t \in W : t < x, ~P!IsOperand(x)
  PROVE  Carries([c EXCEPT !.argv = Append(@, x)], W \cup {x})
<1> DEFINE v == Append(c.argv, x)
           n == Len(c.argv) + 1
<1>1. [c EXCEPT !.argv = Append(@, x)]
        = [argv |-> v, redirections |-> c.redirections]
  <2>1. c = [argv |-> c.argv, redirections |-> c.redirections]
    BY DEF CommandShape
  <2> HIDE DEF v
  <2>2. [c EXCEPT !.argv = v] = [argv |-> v, redirections |-> c.redirections]
    BY <2>1
  <2>3. QED
    BY <2>2 DEF v
<1>2. /\ DOMAIN v = DOMAIN c.argv \cup {n} /\ v[n] = x
      /\ \A i \in DOMAIN c.argv : v[i] = c.argv[i]
  BY AppendFacts DEF CommandShape
<1>3. n \in Nat /\ DOMAIN c.argv \subseteq Nat /\ \A i \in DOMAIN c.argv : i < n
  BY Domains DEF CommandShape
<1> HIDE DEF v, n
<1>4. Arguments(v, W \cup {x})
  <2>1. /\ {c.argv[a] : a \in DOMAIN c.argv} = {t \in W : ~P!IsOperand(t)}
        /\ \A a, b \in DOMAIN c.argv : a < b => c.argv[a] < c.argv[b]
    BY DEF Carries, Arguments
  <2>2. {v[a] : a \in DOMAIN v} = {c.argv[a] : a \in DOMAIN c.argv} \cup {x}
    BY <1>2
  <2>3. ASSUME NEW a \in DOMAIN v, NEW b \in DOMAIN v, a < b
        PROVE  v[a] < v[b]
    <3>1. a \in DOMAIN c.argv
      BY <1>2, <1>3, <2>3
    <3>2. CASE b \in DOMAIN c.argv
      BY <1>2, <2>1, <2>3, <3>1, <3>2
    <3>3. CASE b = n
      <4>1. c.argv[a] \in W
        BY <2>1, <3>1
      <4>2. QED
        BY <1>2, <3>1, <3>3, <4>1
    <3>4. QED
      BY <1>2, <3>2, <3>3
  <2>4. {v[a] : a \in DOMAIN v} = {t \in W \cup {x} : ~P!IsOperand(t)}
    BY <2>1, <2>2
  <2>5. DOMAIN v \subseteq Nat
    BY <1>2, <1>3
  <2>6. QED
    BY <2>3, <2>4, <2>5 DEF Arguments
<1>5. Operands(c.redirections, W \cup {x})
  BY DEF Carries, Operands
<1>6. QED
  BY <1>1, <1>4, <1>5 DEF Carries

LEMMA CarriesOperand ==
  ASSUME NEW c, CommandShape(c), NEW W \in SUBSET Nat, Carries(c, W),
         NEW x \in Nat, \A t \in W : t < x, P!IsOperand(x)
  PROVE  Carries([c EXCEPT !.redirections =
                    Append(@, P!Redirection(P!Before(x), x))], W \cup {x})
<1> DEFINE node == P!Redirection(P!Before(x), x)
           old == c.redirections
           v == Append(old, node)
           n == Len(old) + 1
<1>0. node.operand = x
  BY DEF P!Redirection
<1>1. [c EXCEPT !.redirections = Append(@, node)]
        = [argv |-> c.argv, redirections |-> v]
  <2>1. c = [argv |-> c.argv, redirections |-> c.redirections]
    BY DEF CommandShape
  <2> HIDE DEF v
  <2>2. [c EXCEPT !.redirections = v] = [argv |-> c.argv, redirections |-> v]
    BY <2>1
  <2>3. QED
    BY <2>2 DEF v
<1>2. /\ DOMAIN v = DOMAIN old \cup {n} /\ v[n] = node
      /\ \A i \in DOMAIN old : v[i] = old[i]
  BY AppendFacts DEF CommandShape
<1>3. n \in Nat /\ DOMAIN old \subseteq Nat /\ \A i \in DOMAIN old : i < n
  BY Domains DEF CommandShape
<1>4. /\ {old[r].operand : r \in DOMAIN old} = {t \in W : P!IsOperand(t)}
      /\ \A r, s \in DOMAIN old : r < s => old[r].operand < old[s].operand
      /\ \A r \in DOMAIN old :
           old[r] = P!Redirection(P!Before(old[r].operand), old[r].operand)
  BY DEF Carries, Operands
<1>5. node = P!Redirection(P!Before(node.operand), node.operand)
  BY <1>0
<1>6. Arguments(c.argv, W \cup {x})
  BY DEF Carries, Arguments
<1> HIDE DEF v, n, node, old
<1>7. Operands(v, W \cup {x})
  <2>1. {v[r].operand : r \in DOMAIN v}
          = {old[r].operand : r \in DOMAIN old} \cup {x}
    BY <1>0, <1>2
  <2>2. {v[r].operand : r \in DOMAIN v} = {t \in W \cup {x} : P!IsOperand(t)}
    BY <1>4, <2>1
  <2>3. ASSUME NEW r \in DOMAIN v, NEW s \in DOMAIN v, r < s
        PROVE  v[r].operand < v[s].operand
    <3>1. r \in DOMAIN old
      BY <1>2, <1>3, <2>3
    <3>2. CASE s \in DOMAIN old
      BY <1>2, <1>4, <2>3, <3>1, <3>2
    <3>3. CASE s = n
      <4>1. old[r].operand \in W
        BY <1>4, <3>1
      <4>2. QED
        BY <1>0, <1>2, <3>1, <3>3, <4>1
    <3>4. QED
      BY <1>2, <3>2, <3>3
  <2>4. \A r \in DOMAIN v :
          v[r] = P!Redirection(P!Before(v[r].operand), v[r].operand)
    BY <1>2, <1>4, <1>5
  <2>5. DOMAIN v \subseteq Nat
    BY <1>2, <1>3
  <2>6. QED
    BY <2>2, <2>3, <2>4, <2>5 DEF Operands
<1>8. QED
  BY <1>1, <1>6, <1>7 DEF Carries, node

(* The words before a token, and where they belong; and the kinds of the    *)
(* operators that were written behind a pipeline.                           *)
Sits(t, i, j, k) == ListOf(t) = i /\ LinkOf(t) = j /\ SlotOf(t) = k
WordsBefore(b)   == {t \in 1..b-1 : KindAt(t) = "WORD"}
WordsAt(i, j, k, b) == {t \in WordsBefore(b) : Sits(t, i, j, k)}
JointsAt(i, j, b) ==
  {KindAt(t) : t \in {u \in 1..b-1 : /\ ListOf(u) = i /\ LinkOf(u) = j
                                      /\ KindAt(u) \in P!Joints}}

(* All this is said of the tokens, and no step of the parser changes them.  *)
LEMMA LineKept ==
  ASSUME tokens' = tokens
  PROVE  /\ \A t : /\ KindAt(t)' = KindAt(t) /\ ListOf(t)' = ListOf(t)
                   /\ LinkOf(t)' = LinkOf(t) /\ SlotOf(t)' = SlotOf(t)
         /\ \A i, j, k, b : WordsAt(i, j, k, b)' = WordsAt(i, j, k, b)
         /\ \A t, i, j, k : Sits(t, i, j, k)' <=> Sits(t, i, j, k)
         /\ \A b : WordsBefore(b)' = WordsBefore(b)
         /\ \A i, j, b : JointsAt(i, j, b)' = JointsAt(i, j, b)
<1>1. \A t : KindAt(t)' = KindAt(t)
  BY DEF KindAt
<1>2. \A t : ListOf(t)' = ListOf(t)
  BY DEF ListOf, P!Count
<1>3. \A t : LinkOf(t)' = LinkOf(t)
  BY DEF LinkOf, P!Count, P!Last
<1>4. \A t : SlotOf(t)' = SlotOf(t)
  BY DEF SlotOf, P!Count, P!Last
<1>5. \A b : WordsBefore(b)' = WordsBefore(b)
  BY <1>1 DEF WordsBefore
<1>6. \A t, i, j, k : Sits(t, i, j, k)' <=> Sits(t, i, j, k)
  BY <1>2, <1>3, <1>4 DEF Sits
<1>7. \A i, j, k, b : WordsAt(i, j, k, b)' = WordsAt(i, j, k, b)
  BY <1>5, <1>6 DEF WordsAt
<1>8. \A i, j, b : JointsAt(i, j, b)' = JointsAt(i, j, b)
  BY <1>1, <1>2, <1>3 DEF JointsAt
<1>9. QED
  BY <1>1, <1>2, <1>3, <1>4, <1>5, <1>6, <1>7, <1>8

LEMMA CarriesKept ==
  ASSUME tokens' = tokens, NEW c, NEW W
  PROVE  Carries(c, W)' <=> Carries(c, W)
<1>1. \A t : P!IsOperand(t)' <=> P!IsOperand(t)
  BY DEF P!IsOperand, P!Before
<1>2. \A t : P!Before(t)' = P!Before(t)
  BY DEF P!Before
<1>3. \A kind, t : P!Redirection(kind, t)' = P!Redirection(kind, t)
  BY DEF P!Redirection, P!HasQuotedPart
<1>4. QED
  BY <1>1, <1>2, <1>3 DEF Carries, Arguments, Operands

(* What reading one more token adds to the words and operators before it.   *)
LEMMA OneMoreToken ==
  ASSUME NEW b \in Nat \ {0}
  PROVE  /\ WordsBefore(b + 1) =
              IF KindAt(b) = "WORD" THEN WordsBefore(b) \cup {b}
              ELSE WordsBefore(b)
         /\ \A i, j, k :
              WordsAt(i, j, k, b + 1) =
                IF KindAt(b) = "WORD" /\ Sits(b, i, j, k)
                THEN WordsAt(i, j, k, b) \cup {b} ELSE WordsAt(i, j, k, b)
         /\ \A i, j :
              JointsAt(i, j, b + 1) =
                IF KindAt(b) \in P!Joints /\ ListOf(b) = i /\ LinkOf(b) = j
                THEN JointsAt(i, j, b) \cup {KindAt(b)} ELSE JointsAt(i, j, b)
<1>1. 1..(b + 1)-1 = (1..b-1) \cup {b}
  OBVIOUS
<1>2. WordsBefore(b + 1) = IF KindAt(b) = "WORD"
                           THEN WordsBefore(b) \cup {b} ELSE WordsBefore(b)
  BY <1>1 DEF WordsBefore
<1>3. ASSUME NEW i, NEW j, NEW k
      PROVE  WordsAt(i, j, k, b + 1) =
               IF KindAt(b) = "WORD" /\ Sits(b, i, j, k)
               THEN WordsAt(i, j, k, b) \cup {b} ELSE WordsAt(i, j, k, b)
  BY <1>2 DEF WordsAt
<1>4. ASSUME NEW i, NEW j
      PROVE  JointsAt(i, j, b + 1) =
                IF KindAt(b) \in P!Joints /\ ListOf(b) = i /\ LinkOf(b) = j
                THEN JointsAt(i, j, b) \cup {KindAt(b)} ELSE JointsAt(i, j, b)
  BY <1>1 DEF JointsAt
<1>5. QED
  BY <1>2, <1>3, <1>4

-----------------------------------------------------------------------------
(* What holds of the tree while it grows: the current token belongs where   *)
(* the nodes that are not finished say, by their lengths, that the next one *)
(* goes; and what hangs somewhere holds the words before that token that    *)
(* belong there, all of them and no other.                                  *)
Filling == {"words", "operand"}

(* Where the current token belongs at each point of the descent.            *)
Placed(b) ==
  /\ parser = "sequence" => Sits(b, Len(sequence) + 1, 1, 1)
  /\ parser \in {"command"} \cup Filling =>
       Sits(b, Len(sequence) + 1, Len(andOr) + 1, Len(pipeline) + 1)
  /\ parser = "pipeline" =>
       Sits(b, Len(sequence) + 1, Len(andOr) + 1, Len(pipeline))
  /\ parser = "andOr" => ListOf(b) = Len(sequence) + 1 /\ LinkOf(b) = Len(andOr)
  /\ parser = "separator" => ListOf(b) = Len(sequence)
  /\ parser = "parsed" => KindAt(b) = "EOF"

(* Which nodes are empty.                                                   *)
Emptied ==
  /\ parser \notin Filling => command = P!Empty
  /\ parser \in {"sequence", "andOr", "separator", "parsed"} => pipeline = <<>>
  /\ parser \in {"sequence", "separator", "parsed"} => andOr = <<>>

(* What the nodes hold: no finished command is empty, and every word is in  *)
(* one, or in the command that is being filled.                             *)
Told(b) ==
  /\ \A i, j, k, c :
       Hung(i, j, k, c) => /\ Carries(c, WordsAt(i, j, k, b))
                           /\ WordsAt(i, j, k, b) # {}
  /\ \A t \in WordsBefore(b) :
       \/ \E c : Hung(ListOf(t), LinkOf(t), SlotOf(t), c)
       \/ /\ parser \in Filling
          /\ Sits(t, Len(sequence) + 1, Len(andOr) + 1, Len(pipeline) + 1)
  /\ parser \in Filling =>
       Carries(command, WordsAt(Len(sequence) + 1, Len(andOr) + 1,
                                Len(pipeline) + 1, b))

(* Which operators they keep: the one behind the pipeline, or none as long  *)
(* as none has been read.                                                   *)
Joins(o, ks) == IF ks = {} THEN o = "none" ELSE ks = {o}
Joined(b) ==
  /\ \A i, j, o : Linked(i, j, o) => Joins(o, JointsAt(i, j, b))
  /\ \A t \in 1..b-1 :
       KindAt(t) \in P!Joints => \E o : Linked(ListOf(t), LinkOf(t), o)
  /\ parser = "andOr" => /\ Len(andOr) \in DOMAIN andOr
                         /\ andOr[Len(andOr)].operator = "none"

TreeInv ==
  parser # "failed" => Placed(index) /\ Emptied /\ Told(index) /\ Joined(index)

LEMMA TreeStarts == P!Init => TreeInv
<1> SUFFICES ASSUME P!Init PROVE TreeInv
  OBVIOUS
<1>1. /\ index = 1 /\ parser = "sequence" /\ sequence = <<>> /\ andOr = <<>>
      /\ pipeline = <<>> /\ command = P!Empty /\ Len(sequence) = 0
  BY DEF P!Init
<1>2. Placed(1)
  BY <1>1, FirstPlace DEF Placed, Sits, Filling
<1>3. WordsBefore(1) = {} /\ 1..0 = {}
  BY DEF WordsBefore
<1>4. Told(1)
  BY <1>1, <1>3, NothingHangs DEF Told, Filling
<1>5. Joined(1)
  BY <1>1, <1>3, NothingHangs DEF Joined
<1>6. QED
  BY <1>1, <1>2, <1>4, <1>5 DEF TreeInv, Emptied, Filling

(* A command that hangs somewhere does not hang where the next one will.    *)
LEMMA NextIsFree ==
  ASSUME IsSeq(sequence), IsSeq(andOr), IsSeq(pipeline),
         NEW i, NEW j, NEW k, NEW c, Hung(i, j, k, c)
  PROVE  ~(/\ i = Len(sequence) + 1 /\ j = Len(andOr) + 1
           /\ k = Len(pipeline) + 1)
<1>1. /\ Len(sequence) + 1 \notin DOMAIN sequence
      /\ Len(andOr) + 1 \notin DOMAIN andOr
      /\ Len(pipeline) + 1 \notin DOMAIN pipeline
  BY Domains
<1>2. QED
  BY <1>1 DEF Hung

(* A step that hangs nothing and reads no word.                             *)
LEMMA ToldKept ==
  ASSUME tokens' = tokens, NEW b \in Nat \ {0}, Told(b), NEW d \in {b, b + 1},
         d = b + 1 => KindAt(b) # "WORD",
         \A i, j, k, c : Hung(i, j, k, c)' <=> Hung(i, j, k, c),
         \/ parser \notin Filling /\ parser' \notin Filling
         \/ /\ parser \in Filling /\ parser' \in Filling
            /\ UNCHANGED <<sequence, andOr, pipeline, command>>
  PROVE  Told(d)'
<1>1. /\ WordsBefore(d) = WordsBefore(b)
      /\ \A i, j, k : WordsAt(i, j, k, d) = WordsAt(i, j, k, b)
  BY OneMoreToken
<1>2. /\ WordsBefore(d)' = WordsBefore(b)
      /\ \A i, j, k : WordsAt(i, j, k, d)' = WordsAt(i, j, k, b)
  BY <1>1, LineKept
<1>3. ASSUME NEW i, NEW j, NEW k, NEW c, Hung(i, j, k, c)'
      PROVE  (Carries(c, WordsAt(i, j, k, d)) /\ WordsAt(i, j, k, d) # {})'
  <2> DEFINE W == WordsAt(i, j, k, b)
  <2>1. Carries(c, W) /\ W # {}
    BY <1>3 DEF Told
  <2>2. PICK V : V = W
    OBVIOUS
  <2>3. Carries(c, V)' /\ WordsAt(i, j, k, d)' = V
    BY <1>2, <2>1, <2>2, CarriesKept
  <2>4. QED
    BY <2>1, <2>2, <2>3
<1>4. ASSUME NEW t \in WordsBefore(d)'
      PROVE  (\/ \E c : Hung(ListOf(t), LinkOf(t), SlotOf(t), c)
              \/ /\ parser \in Filling
                 /\ Sits(t, Len(sequence) + 1, Len(andOr) + 1,
                         Len(pipeline) + 1))'
  <2>1. t \in WordsBefore(b)
    BY <1>2
  <2>2. CASE \E c : Hung(ListOf(t), LinkOf(t), SlotOf(t), c)
    <3>1. PICK i, j, k, c : /\ i = ListOf(t) /\ j = LinkOf(t) /\ k = SlotOf(t)
                            /\ Hung(i, j, k, c)
      BY <2>2
    <3>2. /\ Hung(i, j, k, c)' /\ i = ListOf(t)' /\ j = LinkOf(t)'
          /\ k = SlotOf(t)'
      BY <3>1, LineKept
    <3>3. QED
      BY <3>2
  <2>3. CASE /\ parser \in Filling
             /\ Sits(t, Len(sequence) + 1, Len(andOr) + 1, Len(pipeline) + 1)
    <3>1. /\ parser' \in Filling /\ UNCHANGED <<sequence, andOr, pipeline>>
      BY <2>3
    <3>2. PICK i, j, k : /\ i = Len(sequence) + 1 /\ j = Len(andOr) + 1
                         /\ k = Len(pipeline) + 1
      OBVIOUS
    <3>3. Sits(t, i, j, k)'
      BY <2>3, <3>2, LineKept
    <3>4. QED
      BY <3>1, <3>2, <3>3
  <2>4. QED
    BY <2>1, <2>2, <2>3 DEF Told
<1>5. ASSUME parser' \in Filling
      PROVE  Carries(command, WordsAt(Len(sequence) + 1, Len(andOr) + 1,
                                      Len(pipeline) + 1, d))'
  <2>1. /\ parser \in Filling
        /\ UNCHANGED <<sequence, andOr, pipeline, command>>
    BY <1>5
  <2>2. PICK i, j, k, c : /\ i = Len(sequence) + 1 /\ j = Len(andOr) + 1
                          /\ k = Len(pipeline) + 1 /\ c = command
    OBVIOUS
  <2>3. PICK V : V = WordsAt(i, j, k, b)
    OBVIOUS
  <2>4. Carries(c, V)
    BY <2>1, <2>2, <2>3 DEF Told
  <2>5. Carries(c, V)' /\ V = WordsAt(i, j, k, d)'
    BY <1>2, <2>3, <2>4, CarriesKept
  <2>6. /\ i = Len(sequence') + 1 /\ j = Len(andOr') + 1
        /\ k = Len(pipeline') + 1 /\ c = command'
    BY <2>1, <2>2
  <2>7. QED
    BY <2>5, <2>6
<1>6. QED
  BY <1>3, <1>4, <1>5 DEF Told

(* CommandStarts.                                                           *)
LEMMA ToldStarts ==
  ASSUME tokens' = tokens, NEW b \in Nat \ {0}, Told(b), Nodes,
         parser \notin Filling, command = P!Empty,
         UNCHANGED <<sequence, andOr, pipeline, command>>
  PROVE  Told(b)'
<1>1. PICK i, j, k : /\ i = Len(sequence) + 1 /\ j = Len(andOr) + 1
                     /\ k = Len(pipeline) + 1
  OBVIOUS
<1>2. IsSeq(sequence) /\ IsSeq(andOr) /\ IsSeq(pipeline)
  BY DEF Nodes, SequenceShape, AndOrShape
<1>3. WordsAt(i, j, k, b) = {}
  <2> SUFFICES ASSUME NEW t \in WordsAt(i, j, k, b) PROVE FALSE
    OBVIOUS
  <2>1. t \in WordsBefore(b) /\ ListOf(t) = i /\ LinkOf(t) = j /\ SlotOf(t) = k
    BY DEF WordsAt, Sits
  <2>2. PICK c : Hung(i, j, k, c)
    BY <2>1 DEF Told
  <2>3. QED
    BY <1>1, <1>2, <2>2, NextIsFree
<1>4. Carries(P!Empty, {})'
  BY EmptyCarries, CarriesKept
<1>5. Carries(command, WordsAt(Len(sequence) + 1, Len(andOr) + 1,
                               Len(pipeline) + 1, b))'
  <2>1. WordsAt(i, j, k, b)' = {}
    BY <1>3, LineKept
  <2>2. PICK c : c = P!Empty
    OBVIOUS
  <2>3. Carries(c, {})'
    BY <1>4, <2>2 DEF P!Empty
  <2>4. /\ i = Len(sequence') + 1 /\ j = Len(andOr') + 1
        /\ k = Len(pipeline') + 1 /\ c = command'
    BY <1>1, <2>2
  <2>5. QED
    BY <2>1, <2>3, <2>4
<1>6. ASSUME NEW l, NEW m, NEW n, NEW c, Hung(l, m, n, c)'
      PROVE  (Carries(c, WordsAt(l, m, n, b)) /\ WordsAt(l, m, n, b) # {})'
  <2>1. Hung(l, m, n, c)
    BY <1>6, HungKept
  <2>2. PICK V : V = WordsAt(l, m, n, b)
    OBVIOUS
  <2>3. Carries(c, V) /\ V # {}
    BY <2>1, <2>2 DEF Told
  <2>4. Carries(c, V)' /\ V = WordsAt(l, m, n, b)'
    BY <2>2, <2>3, CarriesKept, LineKept
  <2>5. QED
    BY <2>3, <2>4
<1>7. ASSUME NEW t \in WordsBefore(b)'
      PROVE  (\E c : Hung(ListOf(t), LinkOf(t), SlotOf(t), c))'
  <2>1. t \in WordsBefore(b)
    BY <1>7, LineKept
  <2>2. PICK l, m, n, c : /\ l = ListOf(t) /\ m = LinkOf(t) /\ n = SlotOf(t)
                          /\ Hung(l, m, n, c)
    BY <2>1 DEF Told
  <2>3. /\ Hung(l, m, n, c)' /\ l = ListOf(t)' /\ m = LinkOf(t)'
        /\ n = SlotOf(t)'
    BY <2>2, LineKept, HungKept
  <2>4. QED
    BY <2>3
<1>8. QED
  BY <1>5, <1>6, <1>7 DEF Told

(* Argument and Operand.                                                    *)
LEMMA ToldWord ==
  ASSUME tokens' = tokens, NEW b \in Nat \ {0}, Told(b), Nodes,
         KindAt(b) = "WORD", parser \in Filling, parser' \in Filling,
         Sits(b, Len(sequence) + 1, Len(andOr) + 1, Len(pipeline) + 1),
         UNCHANGED <<sequence, andOr, pipeline>>,
         \/ /\ command' = [command EXCEPT !.argv = Append(@, b)]
            /\ ~P!IsOperand(b)
         \/ /\ command' = [command EXCEPT !.redirections =
                             Append(@, P!Redirection(P!Before(b), b))]
            /\ P!IsOperand(b)
  PROVE  Told(b + 1)'
<1>1. PICK i, j, k : /\ i = Len(sequence) + 1 /\ j = Len(andOr) + 1
                     /\ k = Len(pipeline) + 1
  OBVIOUS
<1>2. IsSeq(sequence) /\ IsSeq(andOr) /\ IsSeq(pipeline) /\ CommandShape(command)
  BY DEF Nodes, SequenceShape, AndOrShape
<1>3. /\ WordsBefore(b + 1)' = WordsBefore(b) \cup {b}
      /\ WordsAt(i, j, k, b + 1)' = WordsAt(i, j, k, b) \cup {b}
  <2>1. /\ WordsBefore(b + 1) = WordsBefore(b) \cup {b}
        /\ WordsAt(i, j, k, b + 1) = WordsAt(i, j, k, b) \cup {b}
    BY <1>1, OneMoreToken
  <2>2. QED
    BY <2>1, LineKept
<1>4. Carries(command, WordsAt(Len(sequence) + 1, Len(andOr) + 1,
                               Len(pipeline) + 1, b + 1))'
  <2>1. PICK V, c : V = WordsAt(i, j, k, b) /\ c = command'
    OBVIOUS
  <2>2. Carries(command, V)
    BY <1>1, <2>1 DEF Told
  <2>3. V \in SUBSET Nat /\ \A t \in V : t < b
    BY <2>1 DEF WordsAt, WordsBefore
  <2>4. Carries(c, V \cup {b})
    <3>1. CASE /\ command' = [command EXCEPT !.argv = Append(@, b)]
               /\ ~P!IsOperand(b)
      <4>1. Carries([command EXCEPT !.argv = Append(@, b)], V \cup {b})
        BY <1>2, <2>2, <2>3, <3>1, CarriesArgument
      <4>2. QED
        BY <2>1, <3>1, <4>1
    <3>2. CASE /\ command' = [command EXCEPT !.redirections =
                                Append(@, P!Redirection(P!Before(b), b))]
               /\ P!IsOperand(b)
      <4>1. Carries([command EXCEPT !.redirections =
                       Append(@, P!Redirection(P!Before(b), b))], V \cup {b})
        BY <1>2, <2>2, <2>3, <3>2, CarriesOperand
      <4>2. QED
        BY <2>1, <3>2, <4>1
    <3>3. QED
      BY <3>1, <3>2
  <2>5. PICK X : X = V \cup {b}
    OBVIOUS
  <2>6. Carries(c, X)' /\ X = WordsAt(i, j, k, b + 1)'
    BY <1>3, <2>1, <2>4, <2>5, CarriesKept
  <2>7. /\ i = Len(sequence') + 1 /\ j = Len(andOr') + 1
        /\ k = Len(pipeline') + 1 /\ c = command'
    BY <1>1, <2>1
  <2>8. QED
    BY <2>6, <2>7
<1>5. ASSUME NEW l, NEW m, NEW n, NEW c, Hung(l, m, n, c)'
      PROVE  (/\ Carries(c, WordsAt(l, m, n, b + 1))
              /\ WordsAt(l, m, n, b + 1) # {})'
  <2>1. Hung(l, m, n, c)
    BY <1>5, HungKept
  <2>2. PICK V : V = WordsAt(l, m, n, b)
    OBVIOUS
  <2>3. Carries(c, V) /\ V # {}
    BY <2>1, <2>2 DEF Told
  <2>4. ~Sits(b, l, m, n)
    <3>1. ~(l = i /\ m = j /\ n = k)
      BY <1>1, <1>2, <2>1, NextIsFree
    <3>2. QED
      BY <1>1, <3>1 DEF Sits
  <2>5. WordsAt(l, m, n, b + 1) = V
    BY <2>2, <2>4, OneMoreToken
  <2>6. Carries(c, V)' /\ V = WordsAt(l, m, n, b + 1)'
    BY <2>3, <2>5, CarriesKept, LineKept
  <2>7. QED
    BY <2>3, <2>6
<1>6. ASSUME NEW t \in WordsBefore(b + 1)'
      PROVE  (\/ \E c : Hung(ListOf(t), LinkOf(t), SlotOf(t), c)
              \/ /\ parser \in Filling
                 /\ Sits(t, Len(sequence) + 1, Len(andOr) + 1,
                         Len(pipeline) + 1))'
  <2>1. t \in WordsBefore(b) \/ t = b
    BY <1>3, <1>6
  <2>2. CASE \E c : Hung(ListOf(t), LinkOf(t), SlotOf(t), c)
    <3>1. PICK l, m, n, c : /\ l = ListOf(t) /\ m = LinkOf(t) /\ n = SlotOf(t)
                            /\ Hung(l, m, n, c)
      BY <2>2
    <3>2. /\ Hung(l, m, n, c)' /\ l = ListOf(t)' /\ m = LinkOf(t)'
          /\ n = SlotOf(t)'
      BY <3>1, LineKept, HungKept
    <3>3. QED
      BY <3>2
  <2>3. CASE Sits(t, i, j, k)
    <3>1. Sits(t, i, j, k)'
      BY <2>3, LineKept
    <3>2. /\ i = Len(sequence') + 1 /\ j = Len(andOr') + 1
          /\ k = Len(pipeline') + 1
      BY <1>1
    <3>3. QED
      BY <3>1, <3>2
  <2>4. QED
    BY <1>1, <2>1, <2>2, <2>3 DEF Told
<1>7. QED
  BY <1>4, <1>5, <1>6 DEF Told

(* CommandEnds.                                                             *)
LEMMA ToldHung ==
  ASSUME tokens' = tokens, NEW b \in Nat \ {0}, Told(b), Nodes,
         parser \in Filling, parser' \notin Filling,
         pipeline' = Append(pipeline, command), UNCHANGED <<sequence, andOr>>,
         WordsAt(Len(sequence) + 1, Len(andOr) + 1, Len(pipeline) + 1, b) # {}
  PROVE  Told(b)'
<1>1. PICK i, j, k, d : /\ i = Len(sequence) + 1 /\ j = Len(andOr) + 1
                        /\ k = Len(pipeline) + 1 /\ d = command
  OBVIOUS
<1>2. \A l, m, n, c : Hung(l, m, n, c)' <=>
         \/ Hung(l, m, n, c)
         \/ l = i /\ m = j /\ n = k /\ c = d
  BY <1>1, CommandHung DEF Nodes
<1>3. ASSUME NEW l, NEW m, NEW n, NEW c, Hung(l, m, n, c)'
      PROVE  (Carries(c, WordsAt(l, m, n, b)) /\ WordsAt(l, m, n, b) # {})'
  <2>1. PICK V : V = WordsAt(l, m, n, b)
    OBVIOUS
  <2>2. Carries(c, V) /\ V # {}
    BY <1>1, <1>2, <1>3, <2>1 DEF Told
  <2>3. Carries(c, V)' /\ V = WordsAt(l, m, n, b)'
    BY <2>1, <2>2, CarriesKept, LineKept
  <2>4. QED
    BY <2>2, <2>3
<1>4. ASSUME NEW t \in WordsBefore(b)'
      PROVE  (\E c : Hung(ListOf(t), LinkOf(t), SlotOf(t), c))'
  <2>1. t \in WordsBefore(b)
    BY <1>4, LineKept
  <2>2. PICK l, m, n : l = ListOf(t) /\ m = LinkOf(t) /\ n = SlotOf(t)
    OBVIOUS
  <2>3. (\E c : Hung(l, m, n, c)) \/ (l = i /\ m = j /\ n = k)
    BY <1>1, <2>1, <2>2 DEF Told, Sits
  <2>4. PICK c : Hung(l, m, n, c)'
    BY <1>2, <2>3
  <2>5. l = ListOf(t)' /\ m = LinkOf(t)' /\ n = SlotOf(t)'
    BY <2>2, LineKept
  <2>6. QED
    BY <2>4, <2>5
<1>5. QED
  BY <1>3, <1>4 DEF Told

(* A step that adds no pipeline and reads no && or ||.                      *)
LEMMA JoinedKept ==
  ASSUME tokens' = tokens, NEW b \in Nat \ {0}, Joined(b), NEW d \in {b, b + 1},
         d = b + 1 => KindAt(b) \notin P!Joints,
         \A i, j, o : Linked(i, j, o)' <=> Linked(i, j, o),
         parser' # "andOr"
  PROVE  Joined(d)'
<1>1. \A i, j : JointsAt(i, j, d) = JointsAt(i, j, b)
  BY OneMoreToken
<1>2. ASSUME NEW i, NEW j, NEW o, Linked(i, j, o)'
      PROVE  Joins(o, JointsAt(i, j, d))'
  <2>1. PICK K : K = JointsAt(i, j, b)
    OBVIOUS
  <2>2. Joins(o, K)
    BY <1>2, <2>1 DEF Joined
  <2>3. K = JointsAt(i, j, d)'
    BY <1>1, <2>1, LineKept
  <2>4. QED
    BY <2>2, <2>3 DEF Joins
<1>3. ASSUME NEW t \in 1..d-1, KindAt(t)' \in P!Joints
      PROVE  (\E o : Linked(ListOf(t), LinkOf(t), o))'
  <2>1. t \in 1..b-1 /\ KindAt(t) \in P!Joints
    <3>1. KindAt(t) \in P!Joints
      BY <1>3, LineKept
    <3>2. t # b \/ d = b
      BY <3>1
    <3>3. QED
      BY <3>1, <3>2
  <2>2. PICK i, j, o : i = ListOf(t) /\ j = LinkOf(t) /\ Linked(i, j, o)
    BY <2>1 DEF Joined
  <2>3. Linked(i, j, o)' /\ i = ListOf(t)' /\ j = LinkOf(t)'
    BY <2>2, LineKept
  <2>4. QED
    BY <2>3
<1>4. P!Joints' = P!Joints
  BY DEF P!Joints
<1>5. QED
  BY <1>2, <1>3, <1>4 DEF Joined

(* PipelineEnds: no operator has been read behind a pipeline that is new.   *)
LEMMA JoinedHung ==
  ASSUME tokens' = tokens, NEW b \in Nat \ {0}, Joined(b), Nodes,
         pipeline' = <<>>, sequence' = sequence,
         andOr' = Append(andOr, [pipeline |-> pipeline, operator |-> "none"])
  PROVE  Joined(b)'
<1>1. PICK l, m : l = Len(sequence) + 1 /\ m = Len(andOr) + 1
  OBVIOUS
<1>2. \A i, j, o : Linked(i, j, o)' <=> \/ Linked(i, j, o)
                                        \/ i = l /\ j = m /\ o = "none"
  BY <1>1, PipelineHung DEF Nodes
<1>3. \A o : ~Linked(l, m, o)
  <2>1. Len(sequence) + 1 \notin DOMAIN sequence
        /\ Len(andOr) + 1 \notin DOMAIN andOr
    BY Domains DEF Nodes, SequenceShape, AndOrShape
  <2>2. QED
    BY <1>1, <2>1 DEF Linked
<1>4. JointsAt(l, m, b) = {}
  BY <1>3 DEF JointsAt, Joined
<1>5. ASSUME NEW i, NEW j, NEW o, Linked(i, j, o)'
      PROVE  Joins(o, JointsAt(i, j, b))'
  <2>1. PICK K : K = JointsAt(i, j, b)
    OBVIOUS
  <2>2. Joins(o, K)
    BY <1>2, <1>4, <1>5, <2>1 DEF Joined, Joins
  <2>3. K = JointsAt(i, j, b)'
    BY <2>1, LineKept
  <2>4. QED
    BY <2>2, <2>3 DEF Joins
<1>6. ASSUME NEW t \in 1..b-1, KindAt(t)' \in P!Joints
      PROVE  (\E o : Linked(ListOf(t), LinkOf(t), o))'
  <2>1. KindAt(t) \in P!Joints
    BY <1>6, LineKept
  <2>2. PICK i, j, o : i = ListOf(t) /\ j = LinkOf(t) /\ Linked(i, j, o)
    BY <2>1 DEF Joined
  <2>3. Linked(i, j, o)' /\ i = ListOf(t)' /\ j = LinkOf(t)'
    BY <1>2, <2>2, LineKept
  <2>4. QED
    BY <2>3
<1>7. /\ Len(andOr') \in DOMAIN andOr'
      /\ andOr'[Len(andOr')].operator = "none"
  <2> DEFINE x == [pipeline |-> pipeline, operator |-> "none"]
             v == Append(andOr, x)
  <2>1. Len(v) = Len(andOr) + 1 /\ Len(andOr) + 1 \in DOMAIN v
        /\ v[Len(andOr) + 1] = x
    BY AppendFacts, AppendLength DEF Nodes, AndOrShape
  <2>2. andOr' = v /\ x.operator = "none"
    OBVIOUS
  <2> HIDE DEF v, x
  <2>3. QED
    BY <2>1, <2>2
<1>8. P!Joints' = P!Joints
  BY DEF P!Joints
<1>9. QED
  BY <1>5, <1>6, <1>7, <1>8 DEF Joined

(* NextPipeline: the operator is the first behind the last pipeline.        *)
LEMMA JoinedOperator ==
  ASSUME tokens' = tokens, NEW b \in Nat \ {0}, Joined(b), Nodes,
         parser = "andOr", parser' # "andOr",
         ListOf(b) = Len(sequence) + 1, LinkOf(b) = Len(andOr),
         KindAt(b) \in P!Joints,
         andOr' = [andOr EXCEPT ![Len(andOr)].operator = KindAt(b)],
         UNCHANGED <<sequence, pipeline>>
  PROVE  Joined(b + 1)'
<1>1. PICK l, m, x : l = Len(sequence) + 1 /\ m = Len(andOr) /\ x = KindAt(b)
  OBVIOUS
<1>2. /\ m \in DOMAIN andOr /\ Linked(l, m, "none")
      /\ AndOrShape(andOr) /\ IsSeq(sequence)
  BY <1>1 DEF Joined, Linked, Nodes, SequenceShape
<1>3. \A i, j, o : Linked(i, j, o)' <=> IF i = l /\ j = m THEN o = x
                                       ELSE Linked(i, j, o)
  BY <1>1, <1>2, OperatorKept
<1>4. JointsAt(l, m, b) = {}
  <2>1. Joins("none", JointsAt(l, m, b))
    BY <1>2 DEF Joined
  <2>2. \A o \in JointsAt(l, m, b) : o # "none"
    BY DEF JointsAt, P!Joints
  <2>3. QED
    BY <2>1, <2>2 DEF Joins
<1>5. ASSUME NEW i, NEW j
      PROVE  JointsAt(i, j, b + 1) = IF i = l /\ j = m THEN {x}
                                     ELSE JointsAt(i, j, b)
  <2>1. JointsAt(i, j, b + 1) =
          IF ListOf(b) = i /\ LinkOf(b) = j THEN JointsAt(i, j, b) \cup {x}
          ELSE JointsAt(i, j, b)
    BY <1>1, OneMoreToken
  <2>2. ListOf(b) = l /\ LinkOf(b) = m
    BY <1>1
  <2>3. QED
    BY <1>4, <2>1, <2>2
<1>6. ASSUME NEW i, NEW j, NEW o, Linked(i, j, o)'
      PROVE  Joins(o, JointsAt(i, j, b + 1))'
  <2>1. PICK K : K = JointsAt(i, j, b + 1)
    OBVIOUS
  <2>2. Joins(o, K)
    <3>1. CASE i = l /\ j = m
      <4>1. o = x /\ K = {x}
        BY <1>3, <1>5, <1>6, <2>1, <3>1
      <4>2. QED
        BY <4>1 DEF Joins
    <3>2. CASE ~(i = l /\ j = m)
      <4>1. Linked(i, j, o) /\ K = JointsAt(i, j, b)
        BY <1>3, <1>5, <1>6, <2>1, <3>2
      <4>2. QED
        BY <4>1 DEF Joined
    <3>3. QED
      BY <3>1, <3>2
  <2>3. K = JointsAt(i, j, b + 1)'
    BY <2>1, LineKept
  <2>4. QED
    BY <2>2, <2>3 DEF Joins
<1>7. ASSUME NEW t \in 1..(b + 1)-1, KindAt(t)' \in P!Joints
      PROVE  (\E o : Linked(ListOf(t), LinkOf(t), o))'
  <2>1. KindAt(t) \in P!Joints /\ (t \in 1..b-1 \/ t = b)
    BY <1>7, LineKept
  <2>2. PICK i, j : i = ListOf(t) /\ j = LinkOf(t)
    OBVIOUS
  <2>3. (\E o : Linked(i, j, o)) \/ (i = l /\ j = m)
    BY <1>1, <2>1, <2>2 DEF Joined
  <2>4. PICK o : Linked(i, j, o)'
    BY <1>3, <2>3
  <2>5. i = ListOf(t)' /\ j = LinkOf(t)'
    BY <2>2, LineKept
  <2>6. QED
    BY <2>4, <2>5
<1>8. P!Joints' = P!Joints
  BY DEF P!Joints
<1>9. QED
  BY <1>6, <1>7, <1>8 DEF Joined

LEMMA KindFacts ==
  /\ "WORD" # Semicolon /\ "WORD" # "|"
  /\ "WORD" \notin P!Joints /\ "WORD" \notin P!Redirectors
  /\ "|" # Semicolon /\ "|" \notin P!Joints /\ Semicolon \notin P!Joints
  /\ \A kind \in P!Redirectors :
       kind # Semicolon /\ kind # "|" /\ kind \notin P!Joints /\ kind # "EOF"
       /\ kind # "WORD"
  /\ \A kind \in P!Joints : kind # "EOF" /\ kind # "WORD"
  /\ Semicolon # "EOF"
<1>1. Semicolon \notin {"WORD", "|", "EOF", "&&", "||", "<", ">", "<<", ">>"}
  BY Zenon DEF Semicolon
<1>2. QED
  BY <1>1 DEF P!Joints, P!Redirectors

(* Placed in the next state, said of the next state's nodes alone.          *)
LEMMA PlacedThere ==
  ASSUME tokens' = tokens, NEW d,
         parser' = "sequence" => Sits(d, Len(sequence') + 1, 1, 1),
         parser' \in {"command"} \cup Filling =>
           Sits(d, Len(sequence') + 1, Len(andOr') + 1, Len(pipeline') + 1),
         parser' = "pipeline" =>
           Sits(d, Len(sequence') + 1, Len(andOr') + 1, Len(pipeline')),
         parser' = "andOr" =>
           ListOf(d) = Len(sequence') + 1 /\ LinkOf(d) = Len(andOr'),
         parser' = "separator" => ListOf(d) = Len(sequence'),
         parser' = "parsed" => KindAt(d) = "EOF"
  PROVE  Placed(d)'
<1>1. \A i, j, k : Sits(d, i, j, k) => Sits(d, i, j, k)'
  BY LineKept
<1>2. PICK i, j, k : /\ i = Len(sequence') + 1 /\ j = Len(andOr') + 1
                     /\ k = Len(pipeline')
  OBVIOUS
<1>3. /\ Sits(d, Len(sequence') + 1, 1, 1) => Sits(d, Len(sequence) + 1, 1, 1)'
      /\ Sits(d, Len(sequence') + 1, Len(andOr') + 1, Len(pipeline') + 1) =>
           Sits(d, Len(sequence) + 1, Len(andOr) + 1, Len(pipeline) + 1)'
      /\ Sits(d, Len(sequence') + 1, Len(andOr') + 1, Len(pipeline')) =>
           Sits(d, Len(sequence) + 1, Len(andOr) + 1, Len(pipeline))'
  BY <1>1
<1>4. ListOf(d)' = ListOf(d) /\ LinkOf(d)' = LinkOf(d) /\ KindAt(d)' = KindAt(d)
  BY LineKept
<1>5. QED
  BY <1>3, <1>4 DEF Placed, Filling

(* The next token belongs where this one does, or behind it.                *)
LEMMA NextSits ==
  ASSUME NEW b \in Nat \ {0}, NEW i, NEW j, NEW k, Sits(b, i, j, k)
  PROVE  /\ i \in Nat /\ j \in Nat /\ k \in Nat
         /\ KindAt(b) = "WORD" \/ KindAt(b) \in P!Redirectors =>
              Sits(b + 1, i, j, k)
         /\ KindAt(b) = "|" => Sits(b + 1, i, j, k + 1)
  BY NextPlace, KindFacts DEF Sits

(* What the steps that go on have in common.                                *)
GoingOn(b, d) ==
  /\ b \in Nat \ {0} /\ index = b /\ index' = d /\ tokens' = tokens
  /\ P!Current = KindAt(b) /\ P!Current \in P!Kinds /\ Around /\ Nodes
  /\ Placed(b) /\ Emptied /\ Told(b) /\ Joined(b)
Entering == P!NoMoreLists \/ P!NewList \/ P!CommandStarts \/ P!SequenceEnds
Reading  == P!Argument \/ P!Operand
Skipping == P!Redirector \/ P!NextCommand \/ P!NextPipeline \/ P!NextList
Hanging  == P!CommandEnds \/ P!PipelineEnds \/ P!AndOrEnds

(* Only the steps that take a token move on.                                *)
LEMMA WhereItStands ==
  ASSUME NEW b, NEW d, GoingOn(b, d)
  PROVE  /\ Entering => d = b
         /\ Reading  => d = b + 1 /\ KindAt(b) = "WORD"
         /\ Skipping => d = b + 1 /\ KindAt(b) # "WORD"
         /\ Hanging  => d = b
<1>1. P!Advance => d = IF KindAt(b) # "EOF" THEN b + 1 ELSE b
  BY DEF GoingOn, P!Advance
<1>2. Entering => d = b
  BY DEF GoingOn, Entering, P!NoMoreLists, P!NewList, P!CommandStarts,
         P!SequenceEnds
<1>3. Reading => d = b + 1 /\ KindAt(b) = "WORD"
  BY <1>1 DEF GoingOn, Reading, P!Argument, P!Operand
<1>4. Skipping => d = b + 1 /\ KindAt(b) # "WORD"
  <2>1. P!Redirector \/ P!NextCommand \/ P!NextPipeline =>
          P!Advance /\ KindAt(b) # "EOF" /\ KindAt(b) # "WORD"
    BY KindFacts DEF GoingOn, P!Redirector, P!NextCommand, P!NextPipeline
  <2>2. P!NextList => P!Advance /\ KindAt(b) # "EOF" /\ KindAt(b) # "WORD"
    BY KindFacts DEF GoingOn, P!NextList, Semicolon
  <2>3. QED
    BY <1>1, <2>1, <2>2 DEF Skipping
<1>5. Hanging => d = b
  BY DEF GoingOn, Hanging, P!CommandEnds, P!PipelineEnds, P!AndOrEnds
<1>6. QED
  BY <1>2, <1>3, <1>4, <1>5

(* One conjunct of the invariant after the other, step by step.             *)
LEMMA EmptiedStep ==
  ASSUME NEW b, NEW d, GoingOn(b, d), Entering \/ Reading \/ Skipping \/ Hanging
  PROVE  Emptied'
<1>1. Emptied /\ P!Empty' = P!Empty
  BY DEF GoingOn, P!Empty
<1>2. CASE Entering
  BY <1>1, <1>2 DEF Emptied, Filling, Entering, P!NoMoreLists, P!NewList,
         P!CommandStarts, P!SequenceEnds, P!work
<1>3. CASE Reading
  BY <1>1, <1>3 DEF Emptied, Filling, Reading, P!Argument, P!Operand
<1>4. CASE P!Redirector \/ P!NextCommand
  BY <1>1, <1>4 DEF Emptied, Filling, P!Redirector, P!NextCommand, P!work
<1>5. CASE P!NextPipeline \/ P!NextList
  BY <1>1, <1>5 DEF Emptied, Filling, P!NextPipeline, P!NextList
<1>6. CASE Hanging
  BY <1>1, <1>6 DEF Emptied, Filling, Hanging, P!CommandEnds, P!PipelineEnds,
     P!AndOrEnds
<1>7. QED
  BY <1>2, <1>3, <1>4, <1>5, <1>6 DEF Skipping

LEMMA PlacedStep ==
  ASSUME NEW b, NEW d, GoingOn(b, d), Entering \/ Reading \/ Skipping \/ Hanging
  PROVE  Placed(d)'
<1>1. /\ b \in Nat \ {0} /\ tokens' = tokens /\ Placed(b) /\ Emptied
      /\ P!Current = KindAt(b)
      /\ AndOrShape(andOr) /\ IsSeq(andOr) /\ IsSeq(pipeline)
      /\ SequenceShape(sequence) /\ IsSeq(sequence)
  BY DEF GoingOn, Nodes, SequenceShape, AndOrShape
<1>2. Len(<<>>) + 1 = 1
  OBVIOUS
<1>3. CASE Entering
  <2>1. d = b /\ UNCHANGED <<sequence, andOr, pipeline>>
    BY <1>3, WhereItStands DEF Entering, P!NoMoreLists, P!NewList,
       P!CommandStarts, P!SequenceEnds, P!work
  <2>2. CASE P!NoMoreLists \/ P!SequenceEnds
    <3>1. parser' = "parsed"
      BY <2>2 DEF P!NoMoreLists, P!SequenceEnds
    <3>2. KindAt(b) = "EOF"
      <4>1. CASE P!NoMoreLists
        BY <1>1, <4>1 DEF P!NoMoreLists
      <4>2. CASE P!SequenceEnds
        <5>1. /\ P!Current \in P!Kinds /\ P!Current # "|"
              /\ P!Current \notin P!Joints /\ ~P!CanStart(P!Current)
              /\ P!Current # ";"
          BY <4>2 DEF GoingOn, Around, P!SequenceEnds
        <5>2. P!Current = "EOF"
          BY <5>1 DEF P!Kinds, P!CanStart
        <5>3. QED
          BY <1>1, <5>2
      <4>3. QED
        BY <2>2, <4>1, <4>2
    <3>3. QED
      BY <1>1, <2>1, <3>1, <3>2, PlacedThere DEF Filling
  <2>3. CASE P!NewList
    <3>1. parser = "sequence" /\ parser' = "command"
      BY <2>3 DEF P!NewList
    <3>2. Sits(b, Len(sequence) + 1, 1, 1) /\ andOr = <<>> /\ pipeline = <<>>
      BY <1>1, <3>1 DEF Placed, Emptied
    <3>3. Sits(d, Len(sequence') + 1, Len(andOr') + 1, Len(pipeline') + 1)
      BY <1>2, <2>1, <3>2
    <3>4. QED
      BY <1>1, <3>1, <3>3, PlacedThere DEF Filling
  <2>4. CASE P!CommandStarts
    <3>1. parser = "command" /\ parser' = "words"
      BY <2>4 DEF P!CommandStarts
    <3>2. Sits(b, Len(sequence) + 1, Len(andOr) + 1, Len(pipeline) + 1)
      BY <1>1, <3>1 DEF Placed
    <3>3. QED
      BY <1>1, <2>1, <3>1, <3>2, PlacedThere DEF Filling
  <2>5. QED
    BY <1>3, <2>2, <2>3, <2>4 DEF Entering
<1>4. CASE Reading \/ P!Redirector
  <2>1. /\ parser \in Filling /\ parser' \in Filling
        /\ UNCHANGED <<sequence, andOr, pipeline>>
    BY <1>4 DEF Reading, P!Argument, P!Operand, P!Redirector, Filling, P!work
  <2>2. d = b + 1 /\ (KindAt(b) = "WORD" \/ KindAt(b) \in P!Redirectors)
    BY <1>1, <1>4, WhereItStands DEF Skipping, P!Redirector
  <2>3. Sits(b, Len(sequence) + 1, Len(andOr) + 1, Len(pipeline) + 1)
    BY <1>1, <2>1 DEF Placed
  <2>4. Sits(d, Len(sequence) + 1, Len(andOr) + 1, Len(pipeline) + 1)
    BY <1>1, <2>2, <2>3, NextSits
  <2>5. QED
    BY <1>1, <2>1, <2>4, PlacedThere DEF Filling
<1>5. CASE P!NextCommand
  <2>1. /\ parser = "pipeline" /\ parser' = "command" /\ KindAt(b) = "|"
        /\ UNCHANGED <<sequence, andOr, pipeline>>
    BY <1>1, <1>5 DEF P!NextCommand, P!work
  <2>2. d = b + 1
    BY <1>5, WhereItStands DEF Skipping
  <2>3. Sits(b, Len(sequence) + 1, Len(andOr) + 1, Len(pipeline))
    BY <1>1, <2>1 DEF Placed
  <2>4. Sits(d, Len(sequence) + 1, Len(andOr) + 1, Len(pipeline) + 1)
    BY <1>1, <2>1, <2>2, <2>3, NextSits
  <2>5. QED
    BY <1>1, <2>1, <2>4, PlacedThere DEF Filling
<1>6. CASE P!NextPipeline
  <2>1. /\ parser = "andOr" /\ parser' = "command" /\ KindAt(b) \in P!Joints
        /\ UNCHANGED <<sequence, pipeline>>
        /\ andOr' = [andOr EXCEPT ![Len(andOr)].operator = P!Current]
    BY <1>1, <1>6 DEF P!NextPipeline
  <2>2. d = b + 1
    BY <1>6, WhereItStands DEF Skipping
  <2>3. /\ ListOf(b) = Len(sequence) + 1 /\ LinkOf(b) = Len(andOr)
        /\ pipeline = <<>>
    BY <1>1, <2>1 DEF Placed, Emptied
  <2>4. /\ ListOf(d) = Len(sequence) + 1 /\ LinkOf(d) = Len(andOr) + 1
        /\ SlotOf(d) = 1
    <3>1. KindAt(b) # Semicolon
      BY <2>1, KindFacts
    <3>2. QED
      BY <1>1, <2>1, <2>2, <2>3, <3>1, NextPlace
  <2>5. Len(andOr') = Len(andOr)
    <3>1. Len(andOr) \in DOMAIN andOr
      BY <2>1 DEF GoingOn, Joined
    <3>2. PICK x : x = P!Current
      OBVIOUS
    <3>3. QED
      BY <1>1, <2>1, <3>1, <3>2, OperatorKept
  <2>6. Sits(d, Len(sequence') + 1, Len(andOr') + 1, Len(pipeline') + 1)
    BY <1>2, <2>1, <2>3, <2>4, <2>5 DEF Sits
  <2>7. QED
    BY <1>1, <2>1, <2>6, PlacedThere DEF Filling
<1>7. CASE P!NextList
  <2>1. /\ parser = "separator" /\ parser' = "sequence"
        /\ UNCHANGED <<andOr, pipeline>>
        /\ sequence' = [sequence EXCEPT ![Len(sequence)].separator = Semicolon]
        /\ KindAt(b) = Semicolon
    BY <1>1, <1>7 DEF P!NextList, Semicolon
  <2>2. d = b + 1
    BY <1>7, WhereItStands DEF Skipping
  <2>3. ListOf(b) = Len(sequence)
    BY <1>1, <2>1 DEF Placed
  <2>4. ListOf(d) = Len(sequence) + 1 /\ LinkOf(d) = 1 /\ SlotOf(d) = 1
    BY <1>1, <2>1, <2>2, <2>3, NextPlace
  <2>5. Len(sequence') = Len(sequence)
    BY <1>1, <2>1, SeparatorKept
  <2>6. Sits(d, Len(sequence') + 1, 1, 1)
    BY <2>4, <2>5 DEF Sits
  <2>7. QED
    BY <1>1, <2>1, <2>6, PlacedThere DEF Filling
<1>8. CASE P!CommandEnds
  <2>1. /\ parser = "words" /\ parser' = "pipeline"
        /\ UNCHANGED <<sequence, andOr>>
        /\ pipeline' = Append(pipeline, command)
    BY <1>8 DEF P!CommandEnds
  <2>2. d = b
    BY <1>8, WhereItStands DEF Hanging
  <2>3. Sits(b, Len(sequence) + 1, Len(andOr) + 1, Len(pipeline) + 1)
    BY <1>1, <2>1 DEF Placed, Filling
  <2>4. Len(pipeline') = Len(pipeline) + 1
    BY <1>1, <2>1, AppendLength
  <2>5. QED
    BY <1>1, <2>1, <2>2, <2>3, <2>4, PlacedThere DEF Filling
<1>9. CASE P!PipelineEnds
  <2>1. /\ parser = "pipeline" /\ parser' = "andOr" /\ UNCHANGED sequence
        /\ andOr' = Append(andOr, [pipeline |-> pipeline, operator |-> "none"])
    BY <1>9 DEF P!PipelineEnds
  <2>2. d = b
    BY <1>9, WhereItStands DEF Hanging
  <2>3. ListOf(b) = Len(sequence) + 1 /\ LinkOf(b) = Len(andOr) + 1
    BY <1>1, <2>1 DEF Placed, Sits
  <2>4. Len(andOr') = Len(andOr) + 1
    BY <1>1, <2>1, AppendLength
  <2>5. QED
    BY <1>1, <2>1, <2>2, <2>3, <2>4, PlacedThere DEF Filling
<1>10. CASE P!AndOrEnds
  <2>1. /\ parser = "andOr" /\ parser' = "separator"
        /\ sequence' = Append(sequence, [andOr |-> andOr, separator |-> "none"])
    BY <1>10 DEF P!AndOrEnds
  <2>2. d = b
    BY <1>10, WhereItStands DEF Hanging
  <2>3. ListOf(b) = Len(sequence) + 1
    BY <1>1, <2>1 DEF Placed
  <2>4. Len(sequence') = Len(sequence) + 1
    BY <1>1, <2>1, AppendLength
  <2>5. QED
    BY <1>1, <2>1, <2>2, <2>3, <2>4, PlacedThere DEF Filling
<1>11. QED
  BY <1>3, <1>4, <1>5, <1>6, <1>7, <1>8, <1>9, <1>10 DEF Skipping, Hanging

LEMMA ToldStep ==
  ASSUME NEW b, NEW d, GoingOn(b, d), Entering \/ Reading \/ Skipping \/ Hanging
  PROVE  Told(d)'
<1>1. /\ b \in Nat \ {0} /\ tokens' = tokens /\ Told(b) /\ Nodes /\ b # b + 1
      /\ P!Current = KindAt(b)
      /\ AndOrShape(andOr) /\ SequenceShape(sequence) /\ IsSeq(sequence)
  BY DEF GoingOn, Nodes, SequenceShape
<1>2. CASE P!NoMoreLists \/ P!NewList \/ P!SequenceEnds
  <2>1. /\ d = b /\ UNCHANGED <<sequence, andOr, pipeline>>
        /\ parser \notin Filling /\ parser' \notin Filling
    BY <1>2, WhereItStands DEF Entering, P!NoMoreLists, P!NewList,
       P!SequenceEnds, P!work, Filling
  <2>2. QED
    BY <1>1, <2>1, HungKept, ToldKept
<1>3. CASE P!CommandStarts
  <2>1. /\ d = b /\ UNCHANGED <<sequence, andOr, pipeline, command>>
        /\ parser \notin Filling
    BY <1>3, WhereItStands DEF Entering, P!CommandStarts, P!work, Filling
  <2>2. command = P!Empty
    BY <2>1 DEF GoingOn, Emptied
  <2>3. QED
    BY <1>1, <2>1, <2>2, ToldStarts
<1>4. CASE P!Redirector
  <2>1. /\ d = b + 1 /\ KindAt(b) # "WORD"
        /\ UNCHANGED <<sequence, andOr, pipeline, command>>
        /\ parser \in Filling /\ parser' \in Filling
    BY <1>4, WhereItStands DEF Skipping, P!Redirector, P!work, Filling
  <2>2. QED
    BY <1>1, <2>1, HungKept, ToldKept
<1>5. CASE Reading
  <2>1. /\ d = b + 1 /\ KindAt(b) = "WORD" /\ parser \in Filling
        /\ parser' \in Filling /\ UNCHANGED <<sequence, andOr, pipeline>>
    BY <1>5, WhereItStands DEF Reading, P!Argument, P!Operand, Filling
  <2>2. Sits(b, Len(sequence) + 1, Len(andOr) + 1, Len(pipeline) + 1)
    BY <2>1 DEF GoingOn, Placed
  <2>3. index = b /\ P!Before(b) = Here
    BY DEF GoingOn, Here
  <2>4. \/ /\ command' = [command EXCEPT !.argv = Append(@, b)]
           /\ ~P!IsOperand(b)
        \/ /\ command' = [command EXCEPT !.redirections =
                             Append(@, P!Redirection(P!Before(b), b))]
           /\ P!IsOperand(b)
    <3>1. CASE P!Argument
      <4>1. /\ command' = [command EXCEPT !.argv = Append(@, b)]
            /\ parser = "words"
        BY <2>3, <3>1 DEF P!Argument
      <4>2. \/ Here = "WORD"
            \/ Here \in P!Joints \cup {"|", Semicolon}
        BY <4>1 DEF GoingOn, Around, Semicolon
      <4>3. ~P!IsOperand(b)
        BY <2>3, <4>2, KindFacts DEF P!IsOperand
      <4>4. QED
        BY <4>1, <4>3
    <3>2. CASE P!Operand
      <4>1. /\ command' = [command EXCEPT !.redirections =
                             Append(@, P!Redirection(tokens[b - 1].kind, b))]
            /\ parser = "operand"
        BY <2>3, <3>2 DEF P!Operand
      <4>2. Here \in P!Redirectors
        BY <4>1 DEF GoingOn, Around
      <4>3. P!IsOperand(b)
        BY <2>3, <4>2 DEF P!IsOperand
      <4>4. P!Before(b) = tokens[b - 1].kind
        <5>1. b # 1
          BY <2>3, <4>2, KindFacts DEF P!Before, Semicolon
        <5>2. QED
          BY <5>1 DEF P!Before
      <4>5. QED
        BY <4>1, <4>3, <4>4
    <3>3. QED
      BY <1>5, <3>1, <3>2 DEF Reading
  <2>5. QED
    BY <1>1, <2>1, <2>2, <2>4, ToldWord
<1>6. CASE P!CommandEnds
  <2>1. /\ d = b /\ UNCHANGED <<sequence, andOr>> /\ parser \in Filling
        /\ parser = "words" /\ parser' \notin Filling
        /\ pipeline' = Append(pipeline, command)
        /\ P!Current # "WORD" /\ P!Current \notin P!Redirectors
    BY <1>6, WhereItStands DEF Hanging, P!CommandEnds, Filling
  <2>2. WordsAt(Len(sequence) + 1, Len(andOr) + 1, Len(pipeline) + 1, b) # {}
    <3>1. P!Before(b) = "WORD"
      BY <2>1 DEF GoingOn, Around, Here, P!CanStart
    <3>2. b # 1 /\ KindAt(b - 1) = "WORD"
      BY <3>1, KindFacts DEF P!Before, KindAt, Semicolon
    <3>3. b - 1 \in Nat \ {0} /\ (b - 1) + 1 = b /\ b - 1 \in 1..b-1
      BY <1>1, <3>2
    <3>4. Sits(b, Len(sequence) + 1, Len(andOr) + 1, Len(pipeline) + 1)
      BY <2>1 DEF GoingOn, Placed
    <3>5. PICK a : a = b - 1
      OBVIOUS
    <3>6. ListOf(b) = ListOf(a) /\ LinkOf(b) = LinkOf(a) /\ SlotOf(b) = SlotOf(a)
      <4>1. KindAt(a) # Semicolon /\ KindAt(a) \notin P!Joints /\ KindAt(a) # "|"
        BY <3>2, <3>5, KindFacts
      <4>2. a \in Nat \ {0} /\ a + 1 = b
        BY <3>3, <3>5
      <4>3. QED
        BY <4>1, <4>2, NextPlace
    <3>7. Sits(a, Len(sequence) + 1, Len(andOr) + 1, Len(pipeline) + 1)
      BY <3>4, <3>6 DEF Sits
    <3>8. QED
      BY <3>2, <3>3, <3>5, <3>7 DEF WordsAt, WordsBefore
  <2>3. QED
    BY <1>1, <2>1, <2>2, ToldHung
<1>7. CASE P!NextCommand
  <2>1. /\ d = b + 1 /\ KindAt(b) # "WORD"
        /\ UNCHANGED <<sequence, andOr, pipeline>>
        /\ parser \notin Filling /\ parser' \notin Filling
    BY <1>7, WhereItStands DEF Skipping, P!NextCommand, P!work, Filling
  <2>2. QED
    BY <1>1, <2>1, HungKept, ToldKept
<1>8. CASE P!PipelineEnds
  <2>1. /\ d = b /\ pipeline' = <<>> /\ sequence' = sequence
        /\ andOr' = Append(andOr, [pipeline |-> pipeline, operator |-> "none"])
        /\ parser \notin Filling /\ parser' \notin Filling
    BY <1>8, WhereItStands DEF Hanging, P!PipelineEnds, Filling
  <2>2. \A i, j, k, c : Hung(i, j, k, c)' <=> Hung(i, j, k, c)
    BY <1>1, <2>1, PipelineHung
  <2>3. QED
    BY <1>1, <2>1, <2>2, ToldKept
<1>9. CASE P!NextPipeline
  <2>1. /\ d = b + 1 /\ KindAt(b) # "WORD"
        /\ andOr' = [andOr EXCEPT ![Len(andOr)].operator = KindAt(b)]
        /\ UNCHANGED <<sequence, pipeline>> /\ parser = "andOr"
        /\ parser \notin Filling /\ parser' \notin Filling
    BY <1>1, <1>9, WhereItStands DEF Skipping, P!NextPipeline, Filling
  <2>2. PICK n, x : n = Len(andOr) /\ x = KindAt(b)
    OBVIOUS
  <2>3. n \in DOMAIN andOr
    BY <2>1, <2>2 DEF GoingOn, Joined
  <2>4. \A i, j, k, c : Hung(i, j, k, c)' <=> Hung(i, j, k, c)
    BY <1>1, <2>1, <2>2, <2>3, OperatorKept
  <2>5. QED
    BY <1>1, <2>1, <2>4, ToldKept
<1>10. CASE P!AndOrEnds
  <2>1. /\ d = b /\ pipeline' = pipeline /\ andOr' = <<>> /\ parser = "andOr"
        /\ sequence' = Append(sequence, [andOr |-> andOr, separator |-> "none"])
        /\ parser \notin Filling /\ parser' \notin Filling
    BY <1>10, WhereItStands DEF Hanging, P!AndOrEnds, Filling
  <2>2. pipeline = <<>>
    BY <2>1 DEF GoingOn, Emptied
  <2>3. \A i, j, k, c : Hung(i, j, k, c)' <=> Hung(i, j, k, c)
    BY <1>1, <2>1, <2>2, AndOrHung
  <2>4. QED
    BY <1>1, <2>1, <2>3, ToldKept
<1>11. CASE P!NextList
  <2>1. /\ d = b + 1 /\ KindAt(b) # "WORD" /\ UNCHANGED <<andOr, pipeline>>
        /\ sequence' = [sequence EXCEPT ![Len(sequence)].separator = Semicolon]
        /\ parser \notin Filling /\ parser' \notin Filling
    BY <1>11, WhereItStands DEF Skipping, P!NextList, Filling, Semicolon
  <2>2. \A i, j, k, c : Hung(i, j, k, c)' <=> Hung(i, j, k, c)
    BY <1>1, <2>1, SeparatorKept
  <2>3. QED
    BY <1>1, <2>1, <2>2, ToldKept
<1>12. QED
  BY <1>2, <1>3, <1>4, <1>5, <1>6, <1>7, <1>8, <1>9, <1>10, <1>11
     DEF Entering, Skipping, Hanging

LEMMA JoinedStep ==
  ASSUME NEW b, NEW d, GoingOn(b, d), Entering \/ Reading \/ Skipping \/ Hanging
  PROVE  Joined(d)'
<1>1. /\ b \in Nat \ {0} /\ tokens' = tokens /\ Joined(b) /\ Nodes /\ b # b + 1
      /\ P!Current = KindAt(b) /\ SequenceShape(sequence)
  BY DEF GoingOn, Nodes
<1>2. CASE Entering
  <2>1. /\ d = b /\ UNCHANGED <<sequence, andOr, pipeline>> /\ parser' # "andOr"
    BY <1>2, WhereItStands DEF Entering, P!NoMoreLists, P!NewList,
       P!CommandStarts, P!SequenceEnds, P!work
  <2>2. QED
    BY <1>1, <2>1, HungKept, JoinedKept
<1>3. CASE Reading \/ P!Redirector \/ P!NextCommand
  <2>1. /\ d = b + 1 /\ UNCHANGED <<sequence, andOr, pipeline>>
        /\ parser' # "andOr"
    BY <1>3, WhereItStands DEF Reading, Skipping, P!Argument, P!Operand,
       P!Redirector, P!NextCommand, P!work
  <2>2. KindAt(b) \notin P!Joints
    <3>1. Reading => KindAt(b) \notin P!Joints
      BY WhereItStands, KindFacts
    <3>2. P!Redirector \/ P!NextCommand => KindAt(b) \notin P!Joints
      BY <1>1, KindFacts DEF P!Redirector, P!NextCommand
    <3>3. QED
      BY <1>3, <3>1, <3>2
  <2>3. QED
    BY <1>1, <2>1, <2>2, HungKept, JoinedKept
<1>4. CASE P!CommandEnds
  <2>1. /\ d = b /\ UNCHANGED <<sequence, andOr>> /\ parser' # "andOr"
        /\ pipeline' = Append(pipeline, command)
    BY <1>4, WhereItStands DEF Hanging, P!CommandEnds
  <2>2. \A i, j, o : Linked(i, j, o)' <=> Linked(i, j, o)
    BY <1>1, <2>1, CommandHung DEF Nodes
  <2>3. QED
    BY <1>1, <2>1, <2>2, JoinedKept
<1>5. CASE P!PipelineEnds
  <2>1. /\ d = b /\ pipeline' = <<>> /\ sequence' = sequence
        /\ andOr' = Append(andOr, [pipeline |-> pipeline, operator |-> "none"])
    BY <1>5, WhereItStands DEF Hanging, P!PipelineEnds
  <2>2. QED
    BY <1>1, <2>1, JoinedHung
<1>6. CASE P!NextPipeline
  <2>1. /\ d = b + 1 /\ KindAt(b) \in P!Joints
        /\ andOr' = [andOr EXCEPT ![Len(andOr)].operator = KindAt(b)]
        /\ UNCHANGED <<sequence, pipeline>> /\ parser = "andOr"
        /\ parser' # "andOr"
    BY <1>1, <1>6, WhereItStands DEF Skipping, P!NextPipeline
  <2>2. ListOf(b) = Len(sequence) + 1 /\ LinkOf(b) = Len(andOr)
    BY <2>1 DEF GoingOn, Placed
  <2>3. QED
    BY <1>1, <2>1, <2>2, JoinedOperator
<1>7. CASE P!AndOrEnds
  <2>1. /\ d = b /\ pipeline' = pipeline /\ andOr' = <<>> /\ parser = "andOr"
        /\ sequence' = Append(sequence, [andOr |-> andOr, separator |-> "none"])
        /\ parser' # "andOr"
    BY <1>7, WhereItStands DEF Hanging, P!AndOrEnds
  <2>2. pipeline = <<>>
    BY <2>1 DEF GoingOn, Emptied
  <2>3. \A i, j, o : Linked(i, j, o)' <=> Linked(i, j, o)
    BY <1>1, <2>1, <2>2, AndOrHung
  <2>4. QED
    BY <1>1, <2>1, <2>3, JoinedKept
<1>8. CASE P!NextList
  <2>1. /\ d = b + 1 /\ KindAt(b) = Semicolon /\ UNCHANGED <<andOr, pipeline>>
        /\ sequence' = [sequence EXCEPT ![Len(sequence)].separator = Semicolon]
        /\ parser' # "andOr"
    BY <1>1, <1>8, WhereItStands DEF Skipping, P!NextList, Semicolon
  <2>2. \A i, j, o : Linked(i, j, o)' <=> Linked(i, j, o)
    BY <1>1, <2>1, SeparatorKept
  <2>3. QED
    BY <1>1, <2>1, <2>2, KindFacts, JoinedKept
<1>9. QED
  BY <1>2, <1>3, <1>4, <1>5, <1>6, <1>7, <1>8 DEF Skipping, Hanging

LEMMA TreeStep ==
  ASSUME ParseInv, parser \notin Ends, Nodes, TreeInv, P!Next
  PROVE  TreeInv'
<1>1. CASE P!NoCommand \/ P!NoOperand \/ P!NoFollowup
  BY <1>1 DEF P!NoCommand, P!NoOperand, P!NoFollowup, P!Fail, TreeInv
<1>2. CASE Entering \/ Reading \/ Skipping \/ Hanging
  <2>1. PICK b, d : b = index /\ d = index'
    OBVIOUS
  <2>2. GoingOn(b, d)
    <3>1. /\ b \in Nat \ {0} /\ P!Current = KindAt(b)
          /\ P!Current \in P!Kinds
      BY <2>1, Tokens DEF ParseInv, KindAt
    <3>2. Placed(index) /\ Emptied /\ Told(index) /\ Joined(index)
      BY DEF TreeInv, Ends
    <3>3. tokens' = tokens
      BY ParseStep
    <3>4. QED
      BY <2>1, <3>1, <3>2, <3>3 DEF GoingOn, ParseInv
  <2>3. Placed(d)' /\ Emptied' /\ Told(d)' /\ Joined(d)'
    BY <1>2, <2>2, PlacedStep, EmptiedStep, ToldStep, JoinedStep
  <2>4. Placed(index)' /\ Told(index)' /\ Joined(index)'
    BY <2>1, <2>3
  <2>5. QED
    BY <2>3, <2>4 DEF TreeInv
<1>3. QED
  BY <1>1, <1>2 DEF P!Next, Entering, Reading, Skipping, Hanging

LEMMA TreeKept ==
  ASSUME TreeInv, UNCHANGED <<tokens, index, parser, sequence, andOr, pipeline,
                              command>>
  PROVE  TreeInv'
<1> SUFFICES ASSUME parser # "failed" PROVE TreeInv'
  BY DEF TreeInv
<1>1. PICK b : b = index
  OBVIOUS
<1>2. Placed(b) /\ Emptied /\ Told(b) /\ Joined(b)
  BY <1>1 DEF TreeInv
<1>3. Placed(b)'
  BY <1>2, LineKept DEF Placed
<1>4. Emptied'
  BY <1>2 DEF Emptied, P!Empty
<1>5. \A c, W : Carries(c, W)' <=> Carries(c, W)
  BY CarriesKept
<1>6. Told(b)'
  BY <1>2, <1>5, LineKept, HungKept DEF Told
<1>7. Joined(b)'
  BY <1>2, LineKept, HungKept DEF Joined, Joins, P!Joints
<1>8. index' = b
  BY <1>1
<1>9. QED
  BY <1>3, <1>4, <1>6, <1>7, <1>8 DEF TreeInv

-----------------------------------------------------------------------------
(* Which words hold a quoted part.                                          *)

QuotedWithin(a, b) == \E i \in a..b-1 : Char(i) \in Quotes
HasQuoted(ps)      == \E p \in DOMAIN ps : ps[p].quote # "none"
QuotesInv ==
  /\ \A t \in DOMAIN tokens :
       tokens[t].kind = "WORD" =>
         (HasQuoted(tokens[t].parts)
            <=> QuotedWithin(tokens[t].from, tokens[t].to))
  /\ lexer = "word" => (HasQuoted(parts) <=> QuotedWithin(start, at))

LEMMA QuotesStart == LexInit => QuotesInv
  BY DEF LexInit, QuotesInv

(* A part that is added to a word, and the characters it stands for.        *)
LEMMA PartAdded ==
  ASSUME parts \in Seq(PartRecords), NEW part \in PartRecords,
         parts' = Append(parts, part)
  PROVE  HasQuoted(parts') <=> HasQuoted(parts) \/ part.quote # "none"
<1>1. IsSeq(parts)
  BY DEF IsSeq
<1>2. /\ DOMAIN parts' = DOMAIN parts \cup {Len(parts) + 1}
      /\ parts'[Len(parts) + 1] = part
      /\ \A i \in DOMAIN parts : parts'[i] = parts[i]
  BY <1>1, AppendFacts
<1>3. QED
  BY <1>2 DEF HasQuoted

(* Every step of the lexer: a word has a quoted part exactly if one of its  *)
(* characters is a quote.                                                   *)
LEMMA QuotesStep ==
  ASSUME LexInv, QuotesInv, LexNext
  PROVE  QuotesInv'
<1>1. /\ input \in Lines /\ Len(input) \in Nat /\ at \in Nat /\ start \in 1..at
      /\ at \in 1..Len(input) + 1 /\ parts \in Seq(PartRecords)
      /\ tokens \in Seq(TokenRecords) /\ IsSeq(tokens)
  BY InputType DEF LexInv, LexTypeOK, IsSeq
<1>2. input' = input
  BY DEF LexNext, SkipBlank, PushOperator, StartWord, PushEnd, ScanQuoted,
         ScanPlain, EndWord
<1>3. \A i : Char(i)' = Char(i)
  BY <1>2 DEF Char
<1>4. \A i, j : QuotedWithin(i, j)' <=> QuotedWithin(i, j)
  BY <1>3 DEF QuotedWithin
<1>5. \A ps : HasQuoted(ps)' <=> HasQuoted(ps)
  BY DEF HasQuoted
<1>6. ASSUME tokens' = tokens
      PROVE  \A t \in DOMAIN tokens' :
               tokens'[t].kind = "WORD" =>
                 (HasQuoted(tokens'[t].parts)
                    <=> QuotedWithin(tokens'[t].from, tokens'[t].to))
  BY <1>6 DEF QuotesInv
<1>7. ASSUME NEW token, tokens' = Append(tokens, token),
             token.kind = "WORD" =>
               (HasQuoted(token.parts) <=> QuotedWithin(token.from, token.to))
      PROVE  \A t \in DOMAIN tokens' :
               tokens'[t].kind = "WORD" =>
                 (HasQuoted(tokens'[t].parts)
                    <=> QuotedWithin(tokens'[t].from, tokens'[t].to))
  <2>1. /\ DOMAIN tokens' = DOMAIN tokens \cup {Len(tokens) + 1}
        /\ tokens'[Len(tokens) + 1] = token
        /\ \A t \in DOMAIN tokens : tokens'[t] = tokens[t]
    BY <1>1, <1>7, AppendFacts
  <2>2. QED
    BY <1>7, <2>1 DEF QuotesInv
<1>8. ASSUME \A t \in DOMAIN tokens' :
               tokens'[t].kind = "WORD" =>
                 (HasQuoted(tokens'[t].parts)
                    <=> QuotedWithin(tokens'[t].from, tokens'[t].to)),
             lexer' = "word" => (HasQuoted(parts') <=> QuotedWithin(start', at'))
      PROVE  QuotesInv'
  <2>1. \A t \in DOMAIN tokens' :
          tokens'[t].kind = "WORD" =>
            (HasQuoted(tokens[t].parts)
               <=> QuotedWithin(tokens[t].from, tokens[t].to))'
    <3> SUFFICES ASSUME NEW t \in DOMAIN tokens', tokens'[t].kind = "WORD"
                 PROVE  (HasQuoted(tokens[t].parts)
                           <=> QuotedWithin(tokens[t].from, tokens[t].to))'
      OBVIOUS
    <3>1. PICK ps, i, j : ps = tokens'[t].parts /\ i = tokens'[t].from
                          /\ j = tokens'[t].to
      OBVIOUS
    <3>2. HasQuoted(ps) <=> QuotedWithin(i, j)
      BY <1>8, <3>1
    <3>3. HasQuoted(ps)' <=> QuotedWithin(i, j)'
      BY <1>4, <1>5, <3>2
    <3>4. QED
      BY <3>1, <3>3
  <2>2. lexer' = "word" => (HasQuoted(parts) <=> QuotedWithin(start, at))'
    <3>1. PICK ps, i, j : ps = parts' /\ i = start' /\ j = at'
      OBVIOUS
    <3>2. lexer' = "word" => (HasQuoted(ps)' <=> QuotedWithin(i, j)')
      BY <1>4, <1>5, <1>8, <3>1
    <3>3. QED
      BY <3>1, <3>2
  <2>3. QED
    BY <2>1, <2>2 DEF QuotesInv
<1>9. CASE SkipBlank
  BY <1>6, <1>8, <1>9 DEF SkipBlank
<1>10. CASE PushOperator
  <2>1. PICK token : token = Token(Kind(at), at, at + OperatorLen(at), <<>>)
    OBVIOUS
  <2>2. tokens' = Append(tokens, token) /\ lexer' # "word"
    BY <1>10, <2>1 DEF PushOperator
  <2>3. token.kind # "WORD"
    <3>1. Pair(at) \/ Char(at) \in Single
      <4>1. OperatorLen(at) > 0
        BY <1>10 DEF PushOperator
      <4>2. QED
        BY <1>1, <4>1, LengthIs
    <3>2. Kind(at) # "WORD"
      BY <3>1 DEF Kind, Doubled, Single, Doublable, Pair
    <3>3. QED
      BY <2>1, <3>2 DEF Token
  <2>4. QED
    BY <1>7, <1>8, <2>2, <2>3
<1>11. CASE StartWord
  <2>1. tokens' = tokens /\ parts' = <<>> /\ start' = at /\ at' = at
    BY <1>11 DEF StartWord
  <2>2. ~HasQuoted(parts') /\ ~QuotedWithin(start', at')
    BY <1>1, <2>1 DEF HasQuoted, QuotedWithin
  <2>3. QED
    BY <1>6, <1>8, <2>1, <2>2
<1>12. CASE PushEnd
  <2>1. PICK token : token = Token("EOF", at, at, <<>>)
    OBVIOUS
  <2>2. tokens' = Append(tokens, token) /\ lexer' # "word" /\ token.kind # "WORD"
    BY <1>12, <2>1 DEF PushEnd, Token
  <2>3. QED
    BY <1>7, <1>8, <2>2
<1>13. CASE ScanQuoted
  <2>1. PICK part : part = Part(Char(at), at + 1, QuotedEnd(at))
    OBVIOUS
  <2>2. /\ tokens' = tokens /\ start' = start /\ parts' = Append(parts, part)
        /\ Char(at) \in Quotes
        /\ at' = IF Char(QuotedEnd(at)) = Char(at) THEN QuotedEnd(at) + 1
                 ELSE QuotedEnd(at)
    BY <1>13, <2>1 DEF ScanQuoted
  <2>3. at \in 1..Len(input) /\ Char(at) # "none"
    BY <1>1, <2>2, Classes, CharFacts
  <2>4. QuotedEnd(at) \in at+1..Len(input) + 1
    BY <1>1, <2>3, QuotedEnds
  <2>5. part \in PartRecords /\ part.quote # "none"
    BY <1>1, <2>1, <2>2, <2>3, <2>4 DEF Part, PartRecords
  <2>6. HasQuoted(parts')
    BY <1>1, <2>2, <2>5, PartAdded
  <2>7. at \in start'..at'-1
    BY <1>1, <2>2, <2>4
  <2>8. QuotedWithin(start', at')
    BY <2>2, <2>7 DEF QuotedWithin
  <2>9. QED
    BY <1>6, <1>8, <2>2, <2>6, <2>8
<1>14. CASE ScanPlain
  <2>1. PICK part : part = Part("none", at, PlainEnd(at))
    OBVIOUS
  <2>2. /\ tokens' = tokens /\ start' = start /\ parts' = Append(parts, part)
        /\ Char(at) \notin Quotes /\ ~EndsWord(at) /\ at' = PlainEnd(at)
        /\ lexer = "word"
    BY <1>14, <2>1 DEF ScanPlain
  <2>3. at \in 1..Len(input)
    BY <1>1, <2>2, CharFacts
  <2>4. /\ at' \in at+1..Len(input) + 1
        /\ \A k \in at..at'-1 : Char(k) \notin Quotes
    BY <1>1, <2>2, <2>3, PlainEnds
  <2>5. part \in PartRecords /\ part.quote = "none"
    BY <1>1, <2>1, <2>2, <2>4 DEF Part, PartRecords
  <2>6. HasQuoted(parts') <=> HasQuoted(parts)
    BY <1>1, <2>2, <2>5, PartAdded
  <2>7. QuotedWithin(start, at') <=> QuotedWithin(start, at)
    <3>1. start..at'-1 = (start..at-1) \cup (at..at'-1)
      BY <1>1, <2>4
    <3>2. QED
      BY <2>4, <3>1 DEF QuotedWithin
  <2>8. QED
    BY <1>6, <1>8, <2>2, <2>6, <2>7 DEF QuotesInv
<1>15. CASE EndWord
  <2>1. PICK token : token = Token("WORD", start, at, parts)
    OBVIOUS
  <2>2. tokens' = Append(tokens, token) /\ lexer' # "word" /\ lexer = "word"
    BY <1>15, <2>1 DEF EndWord
  <2>3. token.parts = parts /\ token.from = start /\ token.to = at
    BY <2>1 DEF Token
  <2>4. HasQuoted(token.parts) <=> QuotedWithin(token.from, token.to)
    BY <2>2, <2>3 DEF QuotesInv
  <2>5. QED
    BY <1>7, <1>8, <2>2, <2>4
<1>16. QED
  BY <1>9, <1>10, <1>11, <1>12, <1>13, <1>14, <1>15 DEF LexNext

LEMMA QuotesKept ==
  ASSUME QuotesInv, UNCHANGED lexVars
  PROVE  QuotesInv'
  BY DEF QuotesInv, HasQuoted, QuotedWithin, Char, lexVars

-----------------------------------------------------------------------------
(* The tree of a line that was parsed.                                      *)

(* When nothing is unfinished, what hangs is the tree.                      *)
LEMMA TreeIsHung ==
  ASSUME andOr = <<>>, pipeline = <<>>
  PROVE  /\ \A p \in P!Paths : \E i, j, k : /\ p = <<i, j, k>>
                                            /\ Hung(i, j, k, P!CommandAt(p))
         /\ \A i, j, k, c : Hung(i, j, k, c) => <<i, j, k>> \in P!Paths
         /\ \A i \in DOMAIN sequence : \A j \in DOMAIN sequence[i].andOr :
              Linked(i, j, sequence[i].andOr[j].operator)
<1>1. \A i, j, k, c : Hung(i, j, k, c) <=>
        /\ i \in DOMAIN sequence /\ j \in DOMAIN sequence[i].andOr
        /\ k \in DOMAIN sequence[i].andOr[j].pipeline
        /\ c = sequence[i].andOr[j].pipeline[k]
  BY DEF Hung
<1>2. ASSUME NEW p \in P!Paths
      PROVE  \E i, j, k : p = <<i, j, k>> /\ Hung(i, j, k, P!CommandAt(p))
  <2>1. PICK i, j, k :
          /\ i \in DOMAIN sequence /\ j \in DOMAIN sequence[i].andOr
          /\ k \in DOMAIN sequence[i].andOr[j].pipeline /\ p = <<i, j, k>>
    BY PathsAre
  <2>2. P!CommandAt(p) = sequence[i].andOr[j].pipeline[k]
    BY <2>1 DEF P!CommandAt
  <2>3. QED
    BY <1>1, <2>1, <2>2
<1>3. ASSUME NEW i, NEW j, NEW k, NEW c, Hung(i, j, k, c)
      PROVE  <<i, j, k>> \in P!Paths
  <2>1. PICK p : p = <<i, j, k>>
    OBVIOUS
  <2>2. p \in P!Paths
    BY <1>1, <1>3, <2>1, PathsAre
  <2>3. QED
    BY <2>1, <2>2
<1>4. QED
  BY <1>2, <1>3 DEF Linked

(* A parsed line: every word and every operator has been read.              *)
LEMMA AllIsTold ==
  ASSUME P!TypeOK, TreeInv, parser = "parsed", NEW b, b = index
  PROVE  /\ b \in Nat /\ Told(b) /\ Joined(b) /\ andOr = <<>> /\ pipeline = <<>>
         /\ WordsBefore(b) = P!WordTokens
         /\ \A t \in DOMAIN tokens : KindAt(t) \in P!Joints => t \in 1..b-1
         /\ 1..b-1 \subseteq DOMAIN tokens
<1>1. /\ Told(b) /\ Joined(b) /\ andOr = <<>> /\ pipeline = <<>>
      /\ KindAt(b) = "EOF"
  BY DEF TreeInv, Placed, Emptied
<1>2. /\ b = Len(tokens) /\ DOMAIN tokens = 1..Len(tokens)
      /\ Len(tokens) \in Nat \ {0}
  BY <1>1, Tokens DEF KindAt
<1>3. \A t \in DOMAIN tokens : KindAt(t) # "EOF" => t \in 1..b-1
  BY <1>1, <1>2
<1>4. 1..b-1 \subseteq DOMAIN tokens
  BY <1>2
<1>5. WordsBefore(b) = P!WordTokens
  BY <1>3, <1>4 DEF WordsBefore, P!WordTokens, KindAt
<1>6. \A t \in DOMAIN tokens : KindAt(t) \in P!Joints => t \in 1..b-1
  BY <1>3, KindFacts
<1>7. QED
  BY <1>1, <1>2, <1>4, <1>5, <1>6

(* A parsed command holds the words that belong where it hangs.             *)
LEMMA CommandMatches ==
  ASSUME P!TypeOK, TreeInv, parser = "parsed", NEW p \in P!Paths
  PROVE  /\ \E t \in P!WordTokens : P!Place(t) = p
         /\ Carries(P!CommandAt(p), {t \in P!WordTokens : P!Place(t) = p})
<1>1. PICK b : b = index
  OBVIOUS
<1>2. /\ Told(b) /\ andOr = <<>> /\ pipeline = <<>>
      /\ WordsBefore(b) = P!WordTokens
  BY <1>1, AllIsTold
<1>3. PICK i, j, k : p = <<i, j, k>> /\ Hung(i, j, k, P!CommandAt(p))
  BY <1>2, TreeIsHung
<1>4. PICK c : c = P!CommandAt(p)
  OBVIOUS
<1>5. Carries(c, WordsAt(i, j, k, b)) /\ WordsAt(i, j, k, b) # {}
  BY <1>2, <1>3, <1>4 DEF Told
<1>6. \A t : Sits(t, i, j, k) <=> P!Place(t) = p
  BY <1>3, PlaceIs DEF Sits
<1>7. WordsAt(i, j, k, b) = {t \in P!WordTokens : P!Place(t) = p}
  BY <1>2, <1>6 DEF WordsAt
<1>8. QED
  BY <1>4, <1>5, <1>7

LEMMA PlacesMatch ==
  ASSUME P!TypeOK, TreeInv, parser = "parsed"
  PROVE  P!Paths = {P!Place(t) : t \in P!WordTokens}
<1>1. PICK b : b = index
  OBVIOUS
<1>2. /\ Told(b) /\ andOr = <<>> /\ pipeline = <<>> /\ parser \notin Filling
      /\ WordsBefore(b) = P!WordTokens
  BY <1>1, AllIsTold DEF Filling
<1>3. ASSUME NEW t \in P!WordTokens PROVE P!Place(t) \in P!Paths
  <2>1. PICK i, j, k, c : /\ i = ListOf(t) /\ j = LinkOf(t) /\ k = SlotOf(t)
                          /\ Hung(i, j, k, c)
    BY <1>2 DEF Told
  <2>2. P!Place(t) = <<i, j, k>>
    BY <2>1, PlaceIs
  <2>3. QED
    BY <1>2, <2>1, <2>2, TreeIsHung
<1>4. \A p \in P!Paths : \E t \in P!WordTokens : P!Place(t) = p
  BY CommandMatches
<1>5. QED
  BY <1>3, <1>4

LEMMA OperatorsMatch ==
  ASSUME P!TypeOK, TreeInv, parser = "parsed",
         NEW i \in DOMAIN sequence, NEW j \in DOMAIN sequence[i].andOr
  PROVE  Joins(sequence[i].andOr[j].operator,
               {tokens[t].kind : t \in {u \in DOMAIN tokens :
                  (P!Place(u)[1] = i /\ P!Place(u)[2] = j)
                    /\ tokens[u].kind \in P!Joints}})
<1>1. PICK b, o : b = index /\ o = sequence[i].andOr[j].operator
  OBVIOUS
<1>2. /\ Joined(b) /\ andOr = <<>> /\ pipeline = <<>>
      /\ \A t \in DOMAIN tokens : KindAt(t) \in P!Joints => t \in 1..b-1
      /\ 1..b-1 \subseteq DOMAIN tokens
  BY <1>1, AllIsTold
<1>3. Linked(i, j, o)
  BY <1>1, <1>2, TreeIsHung
<1>4. Joins(o, JointsAt(i, j, b))
  BY <1>2, <1>3 DEF Joined
<1>5. \A u : P!Place(u)[1] = ListOf(u) /\ P!Place(u)[2] = LinkOf(u)
  BY PlaceIs
<1>6. {u \in DOMAIN tokens : (P!Place(u)[1] = i /\ P!Place(u)[2] = j)
                               /\ tokens[u].kind \in P!Joints}
        = {u \in 1..b-1 : /\ ListOf(u) = i /\ LinkOf(u) = j
                          /\ KindAt(u) \in P!Joints}
  BY <1>2, <1>5 DEF KindAt
<1>7. QED
  BY <1>1, <1>4, <1>6 DEF JointsAt, KindAt

LEMMA TreeMatches ==
  ASSUME P!TypeOK, TreeInv
  PROVE  P!TreeMatchesLine
<1> SUFFICES ASSUME parser = "parsed" PROVE P!TreeMatchesLine
  BY DEF P!TreeMatchesLine
<1>1. ASSUME NEW p \in P!Paths
      PROVE  LET c    == P!CommandAt(p)
                 here == {t \in P!WordTokens : P!Place(t) = p} IN
         /\ {c.argv[a] : a \in DOMAIN c.argv} = {t \in here : ~P!IsOperand(t)}
         /\ {c.redirections[r].operand : r \in DOMAIN c.redirections}
              = {t \in here : P!IsOperand(t)}
         /\ \A a, b \in DOMAIN c.argv : a < b => c.argv[a] < c.argv[b]
         /\ \A r, s \in DOMAIN c.redirections :
              r < s => c.redirections[r].operand < c.redirections[s].operand
         /\ \A r \in DOMAIN c.redirections :
              c.redirections[r].kind = P!Before(c.redirections[r].operand)
  <2>1. PICK c, here : /\ c = P!CommandAt(p)
                       /\ here = {t \in P!WordTokens : P!Place(t) = p}
    OBVIOUS
  <2>2. Arguments(c.argv, here) /\ Operands(c.redirections, here)
    BY <2>1, CommandMatches DEF Carries
  <2>3. \A kind, t : P!Redirection(kind, t).kind = kind
    BY DEF P!Redirection
  <2>4. \A r \in DOMAIN c.redirections :
          c.redirections[r].kind = P!Before(c.redirections[r].operand)
    BY <2>2, <2>3 DEF Operands
  <2>5. QED
    BY <2>1, <2>2, <2>4 DEF Arguments, Operands
<1>2. ASSUME NEW i \in DOMAIN sequence, NEW j \in DOMAIN sequence[i].andOr
      PROVE  LET last(t) == P!Place(t)[1] = i /\ P!Place(t)[2] = j
                 joint   == {tokens[t].kind : t \in {u \in DOMAIN tokens :
                              last(u) /\ tokens[u].kind \in P!Joints}} IN
             IF joint = {} THEN sequence[i].andOr[j].operator = "none"
             ELSE joint = {sequence[i].andOr[j].operator}
  BY OperatorsMatch DEF Joins
<1>3. QED
  BY <1>1, <1>2, PlacesMatch DEF P!TreeMatchesLine

(* What the parser learns from the parts of a delimiter is what is quoted   *)
(* of it in the line.                                                       *)
LEMMA ExpandMatches ==
  ASSUME P!TypeOK, TreeInv, QuotesInv, parser = "parsed", NEW p \in P!Paths,
         NEW r \in DOMAIN P!CommandAt(p).redirections
  PROVE  LET node  == P!CommandAt(p).redirections[r]
             token == tokens[node.operand]
         IN  node.kind = "<<" =>
               (node.expand
                  <=> \A i \in token.from..token.to-1 : Char(i) \notin Quotes)
<1>1. PICK c, here : /\ c = P!CommandAt(p)
                     /\ here = {t \in P!WordTokens : P!Place(t) = p}
  OBVIOUS
<1>2. Operands(c.redirections, here)
  BY <1>1, CommandMatches DEF Carries
<1>3. PICK node, t : node = c.redirections[r] /\ t = node.operand
  OBVIOUS
<1>4. /\ node = P!Redirection(P!Before(t), t) /\ t \in P!WordTokens
  BY <1>1, <1>2, <1>3 DEF Operands
<1>5. node.kind = "<<" => (node.expand <=> ~P!HasQuotedPart(t))
  BY <1>4 DEF P!Redirection
<1>6. P!HasQuotedPart(t) <=> QuotedWithin(tokens[t].from, tokens[t].to)
  BY <1>4 DEF QuotesInv, P!WordTokens, P!HasQuotedPart, HasQuoted
<1>7. QED
  BY <1>1, <1>3, <1>5, <1>6 DEF QuotedWithin

-----------------------------------------------------------------------------
(* Each copy hangs once.                                                    *)

(* Every word that has been read is allocated; and where the descent ends,  *)
(* after an error too, what hangs in the finished lists are commands made   *)
(* of words that belong there.                                              *)
Sole ==
  /\ WordsBefore(index) \subseteq live
  /\ parser \in Ends =>
       /\ andOr = <<>> /\ pipeline = <<>>
       /\ \A i, j, k, c : Hung(i, j, k, c) => Carries(c, WordsAt(i, j, k, index))

LEMMA SoleStarts == P!Init => Sole
<1> SUFFICES ASSUME P!Init PROVE Sole
  OBVIOUS
<1>1. index = 1 /\ parser = "sequence"
  BY DEF P!Init
<1>2. WordsBefore(1) = {}
  BY DEF WordsBefore
<1>3. QED
  BY <1>1, <1>2 DEF Sole, Ends

(* An error: what hangs in the finished lists is left there.                *)
LEMMA SoleFails ==
  ASSUME parser # "failed", TreeInv, Sole, NEW t, P!Fail(t), index' = index
  PROVE  Sole'
<1>1. /\ tokens' = tokens /\ sequence' = sequence /\ live' = live
      /\ andOr' = <<>> /\ pipeline' = <<>>
  BY DEF P!Fail
<1>2. PICK b : b = index /\ b = index'
  OBVIOUS
<1>3. WordsBefore(b)' \subseteq live'
  BY <1>1, <1>2, LineKept DEF Sole
<1>4. ASSUME NEW i, NEW j, NEW k, NEW c, Hung(i, j, k, c)'
      PROVE  Carries(c, WordsAt(i, j, k, b))'
  <2>1. Hung(i, j, k, c)
    BY <1>1, <1>4 DEF Hung
  <2>2. PICK W : W = WordsAt(i, j, k, b)
    OBVIOUS
  <2>3. Carries(c, W)
    BY <1>2, <2>1, <2>2 DEF TreeInv, Told
  <2>4. Carries(c, W)' /\ W = WordsAt(i, j, k, b)'
    BY <1>1, <2>2, <2>3, CarriesKept, LineKept
  <2>5. QED
    BY <2>4
<1>5. QED
  BY <1>1, <1>2, <1>3, <1>4 DEF Sole

LEMMA SoleStep ==
  ASSUME ParseInv, parser \notin Ends, Nodes, TreeInv, Sole, P!Next
  PROVE  Sole'
<1>1. CASE P!NoCommand \/ P!NoOperand \/ P!NoFollowup
  BY <1>1, SoleFails DEF P!NoCommand, P!NoOperand, P!NoFollowup, Ends
<1>2. CASE Entering \/ Reading \/ Skipping \/ Hanging
  <2>1. PICK b, d : b = index /\ d = index'
    OBVIOUS
  <2>2. GoingOn(b, d) /\ b \in Nat \ {0} /\ tokens' = tokens
    <3>1. /\ b \in Nat \ {0} /\ P!Current = KindAt(b)
          /\ P!Current \in P!Kinds
      BY <2>1, Tokens DEF ParseInv, KindAt
    <3>2. Placed(index) /\ Emptied /\ Told(index) /\ Joined(index)
      BY DEF TreeInv, Ends
    <3>3. tokens' = tokens
      BY ParseStep
    <3>4. QED
      BY <2>1, <3>1, <3>2, <3>3 DEF GoingOn, ParseInv
  <2>3. WordsBefore(d) \subseteq live'
    <3>1. WordsBefore(b) \subseteq live
      BY <2>1 DEF Sole
    <3>2. CASE Reading
      <4>1. d = b + 1 /\ live' = live \cup {b}
        BY <2>1, <2>2, <3>2, WhereItStands DEF Reading, P!Argument, P!Operand
      <4>2. WordsBefore(d) \subseteq WordsBefore(b) \cup {b}
        BY <2>2, <4>1, OneMoreToken
      <4>3. QED
        BY <3>1, <4>1, <4>2
    <3>3. CASE Skipping
      <4>1. live' = live
        BY <3>3 DEF Skipping, P!Redirector, P!NextCommand, P!NextPipeline,
           P!NextList, P!work
      <4>2. d = b + 1 /\ KindAt(b) # "WORD"
        BY <2>2, <3>3, WhereItStands
      <4>3. WordsBefore(d) = WordsBefore(b)
        BY <2>2, <4>2, OneMoreToken
      <4>4. QED
        BY <3>1, <4>1, <4>3
    <3>4. CASE Entering \/ Hanging
      <4>1. live' = live
        BY <3>4 DEF Entering, Hanging, P!NoMoreLists, P!NewList, P!SequenceEnds,
           P!CommandStarts, P!CommandEnds, P!PipelineEnds, P!AndOrEnds, P!work
      <4>2. d = b
        BY <2>2, <3>4, WhereItStands
      <4>3. QED
        BY <3>1, <4>1, <4>2
    <3>5. QED
      BY <1>2, <3>2, <3>3, <3>4
  <2>4. WordsBefore(d)' \subseteq live'
    BY <2>2, <2>3, LineKept
  <2>5. parser' # "failed"
    BY <1>2 DEF Entering, Reading, Skipping, Hanging, P!NoMoreLists, P!NewList,
       P!CommandStarts, P!SequenceEnds, P!Argument, P!Operand, P!Redirector,
       P!NextCommand, P!NextPipeline, P!NextList, P!CommandEnds,
       P!PipelineEnds, P!AndOrEnds, Ends
  <2>6. Emptied' /\ Told(d)'
    BY <1>2, <2>2, EmptiedStep, ToldStep
  <2>7. QED
    BY <2>1, <2>4, <2>5, <2>6 DEF Sole, Emptied, Told, Ends
<1>3. QED
  BY <1>1, <1>2 DEF P!Next, Entering, Reading, Skipping, Hanging

LEMMA SoleKept ==
  ASSUME Sole, UNCHANGED <<tokens, index, parser, sequence, andOr, pipeline,
                           live>>
  PROVE  Sole'
<1>1. PICK b : b = index /\ b = index'
  OBVIOUS
<1>2. WordsBefore(b)' \subseteq live'
  BY <1>1, LineKept DEF Sole
<1>3. ASSUME parser \in Ends, NEW i, NEW j, NEW k, NEW c, Hung(i, j, k, c)'
      PROVE  Carries(c, WordsAt(i, j, k, b))'
  <2>1. Hung(i, j, k, c)
    BY <1>3, HungKept
  <2>2. PICK W : W = WordsAt(i, j, k, b)
    OBVIOUS
  <2>3. Carries(c, W)
    BY <1>1, <1>3, <2>1, <2>2 DEF Sole
  <2>4. Carries(c, W)' /\ W = WordsAt(i, j, k, b)'
    BY <2>2, <2>3, CarriesKept, LineKept
  <2>5. QED
    BY <2>4
<1>4. QED
  BY <1>1, <1>2, <1>3 DEF Sole, Ends

(* The copy in a slot is a word that belongs where the slot is.             *)
HeldAt(s, i, j, k, c, n) ==
  /\ Carries(c, WordsAt(i, j, k, index))
  /\ P!CopyAt(s) \in WordsAt(i, j, k, index)
  /\ c = P!CommandAt(<<i, j, k>>) /\ n \in Nat
  /\ \/ /\ s = <<<<i, j, k>>, "argv", n>> /\ n \in DOMAIN c.argv
        /\ ~P!IsOperand(P!CopyAt(s)) /\ P!CopyAt(s) = c.argv[n]
     \/ /\ s = <<<<i, j, k>>, "operand", n>> /\ n \in DOMAIN c.redirections
        /\ P!IsOperand(P!CopyAt(s)) /\ P!CopyAt(s) = c.redirections[n].operand

LEMMA SlotHolds ==
  ASSUME Sole, parser \in Ends, NEW s \in P!Slots
  PROVE  \E i, j, k, c, n : HeldAt(s, i, j, k, c, n)
<1>1. PICK p \in P!Paths :
        \/ \E a \in DOMAIN P!CommandAt(p).argv : s = <<p, "argv", a>>
        \/ \E r \in DOMAIN P!CommandAt(p).redirections : s = <<p, "operand", r>>
  BY SlotsAre
<1>2. PICK i, j, k : p = <<i, j, k>> /\ Hung(i, j, k, P!CommandAt(p))
  BY TreeIsHung DEF Sole
<1>3. PICK c, W : c = P!CommandAt(p) /\ W = WordsAt(i, j, k, index)
  OBVIOUS
<1>4. Carries(c, W)
  BY <1>2, <1>3 DEF Sole
<1>5. CASE \E a \in DOMAIN c.argv : s = <<p, "argv", a>>
  <2>1. PICK n \in DOMAIN c.argv : s = <<p, "argv", n>>
    BY <1>5
  <2>2. P!CopyAt(s) = c.argv[n]
    BY <1>3, <2>1, CopiesAre
  <2>3. n \in Nat /\ c.argv[n] \in W /\ ~P!IsOperand(c.argv[n])
    BY <1>4 DEF Carries, Arguments
  <2>4. QED
    BY <1>2, <1>3, <1>4, <2>1, <2>2, <2>3 DEF HeldAt
<1>6. CASE \E r \in DOMAIN c.redirections : s = <<p, "operand", r>>
  <2>1. PICK n \in DOMAIN c.redirections : s = <<p, "operand", n>>
    BY <1>6
  <2>2. P!CopyAt(s) = c.redirections[n].operand
    BY <1>3, <2>1, CopiesAre
  <2>3. /\ n \in Nat /\ c.redirections[n].operand \in W
        /\ P!IsOperand(c.redirections[n].operand)
    BY <1>4 DEF Carries, Operands
  <2>4. QED
    BY <1>2, <1>3, <1>4, <2>1, <2>2, <2>3 DEF HeldAt
<1>7. QED
  BY <1>1, <1>3, <1>5, <1>6

(* Two slots that hold the same copy are in the same command, for a word    *)
(* belongs in one place; both are arguments or both operands, for what is   *)
(* before the word decides that; and they are the same, for the copies in a *)
(* command increase.                                                        *)
LEMMA SlotsHoldOnce ==
  ASSUME ParseInv, Sole, parser \in Ends
  PROVE  P!HeldOnce
<1>1. ASSUME NEW s \in P!Slots PROVE P!CopyAt(s) \in live
  <2>1. PICK i, j, k : P!CopyAt(s) \in WordsAt(i, j, k, index)
    BY SlotHolds DEF HeldAt
  <2>2. QED
    BY <2>1 DEF WordsAt, Sole
<1>2. ASSUME NEW s \in P!Slots, NEW u \in P!Slots, P!CopyAt(s) = P!CopyAt(u)
      PROVE  s = u
  <2>1. PICK i, j, k, c, n : HeldAt(s, i, j, k, c, n)
    BY SlotHolds
  <2>2. PICK l, m, o, e, q : HeldAt(u, l, m, o, e, q)
    BY SlotHolds
  <2>3. PICK w : w = P!CopyAt(s) /\ w = P!CopyAt(u)
    BY <1>2
  <2>4. i = l /\ j = m /\ k = o
    BY <2>1, <2>2, <2>3 DEF HeldAt, WordsAt, Sits
  <2>5. e = c /\ Carries(c, WordsAt(i, j, k, index)) /\ n \in Nat /\ q \in Nat
    BY <2>1, <2>2, <2>4 DEF HeldAt
  <2>6. w \in Nat
    BY <2>1, <2>3, Tokens DEF HeldAt, WordsAt, WordsBefore, ParseInv
  <2>7. CASE ~P!IsOperand(w)
    <3>1. /\ s = <<<<i, j, k>>, "argv", n>> /\ n \in DOMAIN c.argv
          /\ w = c.argv[n]
      BY <2>1, <2>3, <2>7 DEF HeldAt
    <3>2. /\ u = <<<<i, j, k>>, "argv", q>> /\ q \in DOMAIN c.argv
          /\ w = c.argv[q]
      BY <2>2, <2>3, <2>4, <2>5, <2>7 DEF HeldAt
    <3>3. \A a, b \in DOMAIN c.argv : a < b => c.argv[a] < c.argv[b]
      BY <2>5 DEF Carries, Arguments
    <3>4. /\ n \in Nat /\ n \in DOMAIN c.argv /\ c.argv[n] = w
          /\ q \in Nat /\ q \in DOMAIN c.argv /\ c.argv[q] = w
      BY <2>5, <3>1, <3>2
    <3>5. n = q
      BY <2>6, <3>3, <3>4
    <3>6. QED
      BY <3>1, <3>2, <3>5
  <2>8. CASE P!IsOperand(w)
    <3>1. /\ s = <<<<i, j, k>>, "operand", n>> /\ n \in DOMAIN c.redirections
          /\ w = c.redirections[n].operand
      BY <2>1, <2>3, <2>8 DEF HeldAt
    <3>2. /\ u = <<<<i, j, k>>, "operand", q>> /\ q \in DOMAIN c.redirections
          /\ w = c.redirections[q].operand
      BY <2>2, <2>3, <2>4, <2>5, <2>8 DEF HeldAt
    <3>3. \A a, b \in DOMAIN c.redirections :
            a < b => c.redirections[a].operand < c.redirections[b].operand
      BY <2>5 DEF Carries, Operands
    <3>4. /\ n \in Nat /\ n \in DOMAIN c.redirections /\ c.redirections[n].operand = w
          /\ q \in Nat /\ q \in DOMAIN c.redirections /\ c.redirections[q].operand = w
      BY <2>5, <3>1, <3>2
    <3>5. n = q
      BY <2>6, <3>3, <3>4
    <3>6. QED
      BY <3>1, <3>2, <3>5
  <2>9. QED
    BY <2>7, <2>8
<1>3. QED
  BY <1>1, <1>2 DEF P!HeldOnce

-----------------------------------------------------------------------------
(* A line from end to end.                                                  *)

Inv ==
  /\ handling \in {Stages[s] : s \in DOMAIN Stages}
  /\ lastStatus \in {0, 1, 2}
  /\ handling \in {"lex", "parse", "verdict"} => lastStatus = 0
  /\ handling # "handled" => LexInv
  /\ handling = "lex" => lexer # "lexed" /\ P!Init
  /\ handling \in {"parse", "verdict", "destroyTree", "destroyTokens"} =>
       lexer = "lexed" /\ ParseInv
  /\ handling = "parse" => parser \notin Ends
  /\ handling \in {"verdict", "destroyTree"} => parser \in Ends
  /\ handling = "destroyTree" /\ parser = "failed" => lastStatus = 2

LEMMA StageNames ==
  {Stages[s] : s \in DOMAIN Stages}
    = {"lex", "parse", "verdict", "destroyTree", "destroyTokens", "handled"}
<1>1. DOMAIN Stages = 1..6
  BY DEF Stages
<1>2. 1..6 = {1, 2, 3, 4, 5, 6}
  OBVIOUS
<1>3. QED
  BY <1>1, <1>2 DEF Stages

LEMMA StageNumbers ==
  /\ StageOf("lex") = 1 /\ StageOf("parse") = 2 /\ StageOf("verdict") = 3
  /\ StageOf("destroyTree") = 4 /\ StageOf("destroyTokens") = 5
  /\ StageOf("handled") = 6
<1>1. DOMAIN Stages = {1, 2, 3, 4, 5, 6}
  BY DEF Stages
<1>2. QED
  BY <1>1 DEF StageOf, Stages

LEMMA LexKept == LexInv /\ UNCHANGED lexVars => LexInv'
  BY DEF LexInv, lexVars, LexTypeOK, EndsWord, OperatorLen, Pair, Char,
         P!Delivered

LEMMA ParseKept ==
  ASSUME ParseInv, UNCHANGED <<tokens, index, parser, errorToken>>,
         live' \subseteq live
  PROVE  ParseInv'
<1>1. P!TypeOK'
  BY DEF ParseInv, P!TypeOK, P!Delivered
<1>2. Around'
  BY Stays DEF ParseInv, Around, P!CanStart
<1>3. parser' \notin Ends => errorToken' = 0 /\ Accepted'
  BY Stays DEF ParseInv
<1>4. P!ErrorAtFirstMisfit'
  BY FitsKept DEF ParseInv, P!ErrorAtFirstMisfit
<1>5. QED
  BY <1>1, <1>2, <1>3, <1>4 DEF ParseInv

Closer ==
  \/ Stage' > Stage
  \/ Stage' = Stage /\ CharactersLeft' < CharactersLeft
  \/ Stage' = Stage /\ P!TokensLeft' < P!TokensLeft

LEMMA InvStarts == Init => Inv
  BY LexStarts, StageNames DEF Init, Inv, LexInit

LEMMA InvStep ==
  ASSUME Inv, Next
  PROVE  Inv' /\ (Closer \/ UNCHANGED vars)
<1>1. CASE Lex
  <2>1. /\ handling = "lex" /\ LexNext /\ lexer # "lexed" /\ LexInv /\ P!Init
        /\ UNCHANGED <<parseVars, lastStatus>> /\ lastStatus = 0
        /\ handling' = IF lexer' = "lexed" THEN "parse" ELSE "lex"
    BY <1>1 DEF Lex, Inv
  <2>2. LexInv' /\ (lexer' = "lexed" \/ CharactersLeft' < CharactersLeft)
    BY <2>1, LexStep
  <2>3. P!Init'
    BY <2>1 DEF P!Init, P!Empty, parseVars
  <2>4. CASE lexer' = "lexed"
    <3>1. handling' = "parse"
      BY <2>1, <2>4
    <3>2. P!Delivered'
      BY <2>2, <2>4 DEF LexInv
    <3>3. ParseInv' /\ parser' \notin Ends
      <4>1. /\ index' = 1 /\ parser' = "sequence" /\ errorToken' = 0
            /\ live' = {}
        BY <2>3 DEF P!Init
      <4>2. P!TypeOK'
        BY <3>2, <4>1 DEF P!TypeOK, P!Delivered, P!Points
      <4>3. Around'
        BY <4>1 DEF Around, Here, P!Before
      <4>4. Accepted'
        BY <4>1 DEF Accepted
      <4>5. P!ErrorAtFirstMisfit'
        BY <4>1 DEF P!ErrorAtFirstMisfit
      <4>6. QED
        BY <4>1, <4>2, <4>3, <4>4, <4>5 DEF ParseInv, Ends
    <3>4. Stage' = 2 /\ Stage = 1
      BY <2>1, <3>1, StageNumbers DEF Stage
    <3>5. QED
      BY <2>1, <2>2, <2>4, <3>1, <3>3, <3>4, StageNames DEF Inv, Closer
  <2>5. CASE lexer' # "lexed"
    <3>1. handling' = handling
      BY <2>1, <2>5
    <3>2. Stage' = Stage
      BY <3>1 DEF Stage
    <3>3. QED
      BY <2>1, <2>2, <2>3, <2>5, <3>1, <3>2, StageNames DEF Inv, Closer
  <2>6. QED
    BY <2>4, <2>5
<1>2. CASE Parse
  <2>1. /\ handling = "parse" /\ P!Next /\ LexInv /\ lexer = "lexed"
        /\ ParseInv /\ parser \notin Ends /\ lastStatus = 0
        /\ UNCHANGED <<input, at, lexer, start, parts, lastStatus>>
        /\ handling' = IF parser' \in {"parsed", "failed"} THEN "verdict"
                       ELSE "parse"
    BY <1>2 DEF Parse, Inv
  <2>2. /\ ParseInv' /\ tokens' = tokens
        /\ parser' \in Ends \/ P!TokensLeft' < P!TokensLeft
    BY <2>1, ParseStep
  <2>3. LexInv'
    BY <2>1, <2>2, LexKept DEF lexVars
  <2>4. CASE parser' \in Ends
    <3>1. handling' = "verdict"
      BY <2>1, <2>4 DEF Ends
    <3>2. Stage' = 3 /\ Stage = 2
      BY <2>1, <3>1, StageNumbers DEF Stage
    <3>3. QED
      BY <2>1, <2>2, <2>3, <2>4, <3>1, <3>2, StageNames DEF Inv, Closer
  <2>5. CASE parser' \notin Ends
    <3>1. handling' = handling
      BY <2>1, <2>5 DEF Ends
    <3>2. Stage' = Stage
      BY <3>1 DEF Stage
    <3>3. QED
      BY <2>1, <2>2, <2>3, <2>5, <3>1, <3>2, StageNames DEF Inv, Closer
  <2>6. QED
    BY <2>4, <2>5
<1>3. CASE ReportSyntaxError \/ Run
  <2>1. /\ handling = "verdict" /\ handling' = "destroyTree"
        /\ UNCHANGED <<lexVars, parseVars>> /\ LexInv /\ lexer = "lexed"
        /\ ParseInv /\ parser \in Ends /\ lastStatus = 0
    BY <1>3 DEF ReportSyntaxError, Run, Inv
  <2>2. lastStatus' \in {0, 1, 2} /\ (parser = "failed" => lastStatus' = 2)
    BY <1>3, <2>1 DEF ReportSyntaxError, Run
  <2>3. LexInv' /\ ParseInv'
    BY <2>1, LexKept, ParseKept DEF lexVars, parseVars
  <2>4. Stage' = 4 /\ Stage = 3
    BY <2>1, StageNumbers DEF Stage
  <2>5. QED
    BY <2>1, <2>2, <2>3, <2>4, StageNames DEF Inv, Closer, lexVars, parseVars
<1>4. CASE DestroyTree
  <2>1. /\ handling = "destroyTree" /\ handling' = "destroyTokens"
        /\ P!Destroy /\ UNCHANGED <<input, at, lexer, start, parts, lastStatus>>
        /\ LexInv /\ lexer = "lexed" /\ ParseInv
    BY <1>4 DEF DestroyTree, Inv
  <2>2. /\ UNCHANGED <<tokens, index, parser, errorToken>>
        /\ live' \subseteq live
    BY <2>1 DEF P!Destroy
  <2>3. LexInv' /\ ParseInv'
    BY <2>1, <2>2, LexKept, ParseKept DEF lexVars
  <2>4. Stage' = 5 /\ Stage = 4
    BY <2>1, StageNumbers DEF Stage
  <2>5. lastStatus' \in {0, 1, 2}
    BY <2>1 DEF Inv
  <2>6. QED
    BY <2>1, <2>3, <2>4, <2>5, StageNames DEF Inv, Closer
<1>5. CASE DestroyTokens
  <2>1. /\ handling = "destroyTokens" /\ handling' = "handled"
        /\ lastStatus' \in {0, 1, 2}
    BY <1>5 DEF DestroyTokens, Inv
  <2>2. Stage' = 6 /\ Stage = 5
    BY <2>1, StageNumbers DEF Stage
  <2>3. QED
    BY <2>1, <2>2, StageNames DEF Inv, Closer
<1>6. CASE Handled
  <2>1. handling = "handled" /\ handling' = handling /\ lastStatus' = lastStatus
    BY <1>6 DEF Handled, vars
  <2>2. Inv'
    BY <2>1 DEF Inv
  <2>3. QED
    BY <1>6, <2>2 DEF Handled
<1>7. QED
  BY <1>1, <1>2, <1>3, <1>4, <1>5, <1>6 DEF Next

THEOREM Invariant == Spec => []Inv
<1>1. Inv /\ UNCHANGED vars => Inv'
  <2> SUFFICES ASSUME Inv, UNCHANGED vars
               PROVE  Inv'
    OBVIOUS
  <2>1. UNCHANGED <<lexVars, parseVars, handling, lastStatus>>
    BY DEF vars
  <2>2. LexInv => LexInv'
    BY <2>1, LexKept
  <2>3. ParseInv => ParseInv'
    BY <2>1, ParseKept DEF lexVars, parseVars
  <2>4. P!Init => P!Init'
    BY <2>1 DEF P!Init, P!Empty, parseVars
  <2>5. QED
    BY <2>1, <2>2, <2>3, <2>4 DEF Inv, lexVars, parseVars
<1>2. Inv /\ [Next]_vars => Inv'
  BY <1>1, InvStep
<1>3. QED
  BY InvStarts, <1>2, PTL DEF Spec

(* The lexer hands over tokens of the line with one end, the parser looks   *)
(* at no token behind it and copies only words (sh_lex_line,                *)
(* sh_parser_peek, sh_parser_advance).                                      *)
THEOREM TypeCorrect == Spec => []TypeOK
<1>1. Inv => TypeOK
  BY DEF Inv, TypeOK, LexInv, ParseInv
<1>2. QED
  BY Invariant, <1>1, PTL

(* For lines of any length the two nested loops of sh_lex_line and          *)
(* sh_lexer_scan_word cut out the words, parts and operators that reading   *)
(* the line one character at a time, with the quote that is open, gives.    *)
THEOREM TokensAreRead == Spec => []TokensMatchLine
<1> DEFINE Scanned ==
             handling \in {"lex", "parse", "verdict", "destroyTree"} => ReadInv
<1>1. Init => Scanned
  BY ReadStarts DEF Init
<1>2. Inv /\ Scanned /\ [Next]_vars => Scanned'
  <2> SUFFICES ASSUME Inv, Scanned, [Next]_vars PROVE Scanned'
    OBVIOUS
  <2>1. CASE Lex
    BY <2>1, ReadStep DEF Lex, Inv
  <2>2. CASE Parse
    <3>1. tokens' = tokens
      BY <2>2, ParseStep DEF Parse, Inv
    <3>2. QED
      BY <2>2, <3>1, ReadKept DEF Parse
  <2>3. CASE ReportSyntaxError \/ Run
    BY <2>3, ReadKept DEF ReportSyntaxError, Run, lexVars
  <2>4. CASE DestroyTree \/ DestroyTokens
    BY <2>4 DEF DestroyTree, DestroyTokens
  <2>5. CASE UNCHANGED vars
    BY <2>5, ReadKept DEF vars, lexVars
  <2>6. QED
    BY <2>1, <2>2, <2>3, <2>4, <2>5 DEF Next, Handled
<1>3. Inv /\ Scanned => TokensMatchLine
  BY Read DEF TokensMatchLine, Inv, LexInv, LexTypeOK
<1>4. QED
  BY Invariant, <1>1, <1>2, <1>3, PTL DEF Spec

(* The four levels of sh_parse_sequence_list accept a line exactly if every *)
(* token fits the one before it and report the first that does not; a line  *)
(* that is refused has status 2.                                            *)
THEOREM ParserComplainsRightly == Spec => []RejectsAtFirstMisfit
<1>1. Inv => RejectsAtFirstMisfit
  BY DEF Inv, RejectsAtFirstMisfit, ParseInv
<1>2. QED
  BY Invariant, <1>1, PTL

(* No loop of the lexer or the parser turns without a character or a token  *)
(* less before it: sh_main_handle_line comes to an end of both, whatever    *)
(* the line.                                                                *)
THEOREM ScansEnd == Spec => LineAdvances
<1>1. Inv /\ [Next]_vars => [Closer]_vars
  BY InvStep
<1>2. QED
  BY Invariant, <1>1, PTL DEF Spec, LineAdvances, Closer

(* As long as there is a tree, whatever hangs in a node of it that is not   *)
(* finished was read since the last semicolon.                              *)
Kept == {"lex", "parse", "verdict", "destroyTree"}
Tree == handling \in Kept => Nodes /\ Hangs

LEMMA TreeHangs == Spec => []Tree
<1>1. Init => Tree
  BY NodesStart DEF Init, Tree
<1>2. P!Init' => Nodes' /\ Hangs'
  BY NodesStart, PTL
<1>3. Inv /\ Tree /\ [Next]_vars => Tree'
  <2> SUFFICES ASSUME Inv, Tree, [Next]_vars PROVE Tree'
    OBVIOUS
  <2>1. CASE Lex
    <3>1. P!Init'
      BY <2>1 DEF Lex, Inv, parseVars, P!Init, P!Empty
    <3>2. QED
      BY <1>2, <3>1 DEF Tree
  <2>2. CASE Parse
    BY <2>2, HangStep DEF Parse, Inv, Tree, Kept
  <2>3. CASE ReportSyntaxError \/ Run
    BY <2>3, HangsKept DEF ReportSyntaxError, Run, lexVars, parseVars, Tree,
       Kept
  <2>4. CASE DestroyTree \/ DestroyTokens
    BY <2>4 DEF DestroyTree, DestroyTokens, Tree, Kept
  <2>5. CASE UNCHANGED vars
    BY <2>5, HangsKept DEF vars, lexVars, parseVars, Tree
  <2>6. QED
    BY <2>1, <2>2, <2>3, <2>4, <2>5 DEF Next, Handled
<1>4. QED
  BY <1>1, <1>3, Invariant, PTL DEF Spec

(* While the tree grows, and until it is destroyed.                         *)
Growing == {"parse", "verdict", "destroyTree"}
Grown   == handling \in Growing => TreeInv /\ Sole

LEMMA TreeGrows == Spec => []Grown
<1>1. Init => Grown
  BY DEF Init, Grown, Growing
<1>2. P!Init' => TreeInv' /\ Sole'
  BY TreeStarts, SoleStarts, PTL
<1>3. Inv /\ Tree /\ Grown /\ [Next]_vars => Grown'
  <2> SUFFICES ASSUME Inv, Tree, Grown, [Next]_vars PROVE Grown'
    OBVIOUS
  <2>1. CASE Lex
    <3>1. P!Init'
      BY <2>1 DEF Lex, Inv, parseVars, P!Init, P!Empty
    <3>2. QED
      BY <1>2, <3>1 DEF Grown
  <2>2. CASE Parse
    <3>1. /\ P!Next /\ ParseInv /\ parser \notin Ends /\ Nodes
          /\ TreeInv /\ Sole
      BY <2>2 DEF Parse, Inv, Tree, Kept, Grown, Growing
    <3>2. TreeInv' /\ Sole'
      BY <3>1, TreeStep, SoleStep
    <3>3. QED
      BY <3>2 DEF Grown
  <2>3. CASE ReportSyntaxError \/ Run
    <3>1. UNCHANGED <<lexVars, parseVars>> /\ TreeInv /\ Sole
      BY <2>3 DEF ReportSyntaxError, Run, Grown, Growing
    <3>2. TreeInv' /\ Sole'
      BY <3>1, TreeKept, SoleKept DEF lexVars, parseVars
    <3>3. QED
      BY <3>2 DEF Grown
  <2>4. CASE DestroyTree \/ DestroyTokens
    BY <2>4 DEF DestroyTree, DestroyTokens, Grown, Growing
  <2>5. CASE UNCHANGED vars
    <3>1. UNCHANGED <<lexVars, parseVars, handling>>
      BY <2>5 DEF vars
    <3>2. TreeInv /\ Sole => TreeInv' /\ Sole'
      BY <3>1, TreeKept, SoleKept DEF lexVars, parseVars
    <3>3. QED
      BY <3>1, <3>2 DEF Grown
  <2>6. QED
    BY <2>1, <2>2, <2>3, <2>4, <2>5 DEF Next, Handled
<1>4. QED
  BY <1>1, <1>3, TreeHangs, Invariant, PTL DEF Spec

(* After a syntax error only words of the list in which it was found are    *)
(* lost, those behind the last semicolon before it: each level of the       *)
(* descent frees its own node, and not what hangs there.                    *)
LEMMA LeaksAreConfined == Spec => []LeakConfined
<1>1. Init => LeakConfined
  BY DEF Init, LeakConfined
<1>2. Inv /\ Tree /\ LeakConfined /\ [Next]_vars => LeakConfined'
  <2> SUFFICES ASSUME Inv, Tree, LeakConfined, [Next]_vars PROVE LeakConfined'
    OBVIOUS
  <2>1. CASE Lex \/ Parse \/ ReportSyntaxError \/ Run
    BY <2>1 DEF Lex, Parse, ReportSyntaxError, Run, LeakConfined
  <2>2. CASE DestroyTree
    <3>1. P!Destroy /\ ParseInv /\ parser \in Ends /\ Hangs
      BY <2>2 DEF DestroyTree, Inv, Tree, Kept
    <3>2. QED
      BY <3>1, Leaked DEF LeakConfined
  <2>3. CASE DestroyTokens
    BY <2>3 DEF DestroyTokens, LeakConfined
  <2>4. CASE UNCHANGED vars
    BY <2>4 DEF LeakConfined, vars, lexVars, parseVars, P!Last
  <2>5. QED
    BY <2>1, <2>2, <2>3, <2>4 DEF Next, Handled
<1>3. QED
  BY <1>1, <1>2, TreeHangs, Invariant, PTL DEF Spec

(* For every line, whatever its errors: when sh_main_handle_line destroys   *)
(* the tree, each slot of it (an argument, an operand) holds a copy that is *)
(* allocated and that no other slot holds, so that freeing slot by slot     *)
(* frees no copy twice and none that is gone; and afterwards nothing is     *)
(* allocated, but for the words of the list in which an error was found.    *)
THEOREM WordsAreFreedOnce == Spec => []WordsFreedOnce
<1>1. Inv /\ Grown /\ LeakConfined => WordsFreedOnce
  BY SlotsHoldOnce DEF Inv, Grown, Growing, WordsFreedOnce
<1>2. QED
  BY <1>1, LeaksAreConfined, TreeGrows, Invariant, PTL

(* A line that is parsed becomes the tree that its separators describe,     *)
(* however long it is: each word hangs, as an argument or as the operand of *)
(* the operator before it and in the order of the line, in the command that *)
(* the ;, && or || and | before it count, no command is empty, and each     *)
(* pipeline keeps the && or || that is written behind it                    *)
(* (sh_parse_sequence_list and the three levels below it).  The lines of a  *)
(* heredoc are expanded exactly if no character of its delimiter is quoted  *)
(* in the line, which the parser reads off the delimiter's parts.           *)
THEOREM TreeIsWritten == Spec => []TreeMatchesLine
<1> DEFINE Known == handling \in {"lex", "parse", "verdict"} => QuotesInv
<1>1. Init => Known
  BY QuotesStart DEF Init
<1>2. Inv /\ Known /\ [Next]_vars => Known'
  <2> SUFFICES ASSUME Inv, Known, [Next]_vars PROVE Known'
    OBVIOUS
  <2>1. CASE Lex
    BY <2>1, QuotesStep DEF Lex, Inv
  <2>2. CASE Parse
    <3>1. tokens' = tokens
      BY <2>2, ParseStep DEF Parse, Inv
    <3>2. QED
      BY <2>2, <3>1, QuotesKept DEF Parse, lexVars
  <2>3. CASE ReportSyntaxError \/ Run
    BY <2>3 DEF ReportSyntaxError, Run
  <2>4. CASE DestroyTree \/ DestroyTokens
    BY <2>4 DEF DestroyTree, DestroyTokens
  <2>5. CASE UNCHANGED vars
    BY <2>5, QuotesKept DEF vars
  <2>6. QED
    BY <2>1, <2>2, <2>3, <2>4, <2>5 DEF Next, Handled
<1>3. Inv /\ Grown /\ Known => TreeMatchesLine
  <2> SUFFICES ASSUME Inv, Grown, Known, handling = "verdict" PROVE TreeMatchesLine
    BY DEF TreeMatchesLine
  <2>1. P!TypeOK /\ TreeInv /\ QuotesInv
    BY DEF Inv, ParseInv, Grown, Growing
  <2>2. P!TreeMatchesLine
    BY <2>1, TreeMatches
  <2>3. QED
    BY <2>1, <2>2, ExpandMatches DEF TreeMatchesLine
<1> HIDE DEF Known
<1>4. QED
  BY <1>1, <1>2, <1>3, TreeGrows, Invariant, PTL DEF Spec
=============================================================================
