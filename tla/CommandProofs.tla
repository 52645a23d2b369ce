--------------------------- MODULE CommandProofs ---------------------------
(* What holds of Command for every command, environment, PATH and file       *)
(* system that changes as it likes: the growing arrays have room, the words  *)
(* become what their characters stand for, and the lookup takes the first    *)
(* thing in PATH that was there all the time.                                *)
EXTENDS Command, Induction, FiniteSetTheorems

-----------------------------------------------------------------------------
(* Text.                                                                     *)

Str == Seq(Characters)

(* The scan for the end of a name stops at the end of the text at the        *)
(* latest, and behind the last character of the name.                        *)
LEMMA NameEnds ==
  ASSUME NEW text \in Str, NEW i \in 1..Len(text) + 1
  PROVE  /\ NameEnd(text, i) \in i..Len(text) + 1
         /\ NameEnd(text, i) = i => i = Len(text) + 1 \/ text[i] \notin Letters
         /\ NameEnd(text, i) # i =>
              /\ i \in 1..Len(text) /\ text[i] \in Letters
              /\ \A k \in i..NameEnd(text, i) - 1 : IdentifierChar(text[k])
              /\ \/ NameEnd(text, i) = Len(text) + 1
                 \/ ~IdentifierChar(text[NameEnd(text, i)])
<1> DEFINE Stop(j) == j = Len(text) + 1 \/ ~IdentifierChar(text[j])
           stops == {j \in i + 1..Len(text) + 1 : Stop(j)}
           Over(m) == /\ \A k \in i..m-1 : IdentifierChar(text[k])
                      /\ m = Len(text) + 1 \/ ~IdentifierChar(text[m])
           end == NameEnd(text, i)
<1>1. Len(text) \in Nat
  BY DEF Str
<1>2. CASE i > Len(text) \/ text[i] \notin Letters
  BY <1>1, <1>2 DEF NameEnd
<1>3. CASE ~(i > Len(text) \/ text[i] \notin Letters)
  <2>1. stops \subseteq Nat /\ Len(text) + 1 \in stops
    BY <1>1, <1>3
  <2>2. PICK j \in stops : \A k \in stops : j <= k
    BY <2>1, LeastExists
  <2>3. IdentifierChar(text[i])
    BY <1>3 DEF IdentifierChar
  <2>4. \A k \in i..j-1 : IdentifierChar(text[k])
    <3> SUFFICES ASSUME NEW k \in i..j-1, ~IdentifierChar(text[k]) PROVE FALSE
      OBVIOUS
    <3>1. k # i
      BY <2>3
    <3>2. k \in i + 1..Len(text) + 1 /\ k < j /\ Stop(k)
      BY <1>1, <2>2, <3>1
    <3> HIDE DEF Stop
    <3>3. QED
      BY <2>2, <3>2
  <2>5. \E m \in i + 1..Len(text) + 1 : Over(m)
    BY <2>2, <2>4
  <2>6. end = CHOOSE m \in i + 1..Len(text) + 1 : Over(m)
    BY <1>3 DEF NameEnd
  <2> HIDE DEF Over
  <2>7. end \in i + 1..Len(text) + 1 /\ Over(end)
    BY <2>5, <2>6
  <2> HIDE DEF end
  <2>8. end \in i..Len(text) + 1 /\ end # i /\ i \in 1..Len(text)
    BY <1>1, <1>3, <2>7
  <2>9. QED
    BY <1>3, <2>7, <2>8 DEF end, Over
<1>4. QED
  BY <1>2, <1>3

LEMMA DecimalIsText ==
  ASSUME NEW n \in 0..255 PROVE Decimal(n) \in Str
<1>1. \A d \in 1..10 : Digits[d] \in Characters
  BY DEF Digits, Digit, Characters
<1>2. \A d \in 1..10 : <<Digits[d]>> \in Str
  BY <1>1 DEF Str
<1>3. /\ (n \div 100) + 1 \in 1..10 /\ ((n \div 10) % 10) + 1 \in 1..10
      /\ (n % 10) + 1 \in 1..10
  OBVIOUS
<1>4. <<>> \in Str
  BY DEF Str
<1> DEFINE a == IF n >= 100 THEN <<Digits[(n \div 100) + 1]>> ELSE <<>>
           b == IF n >= 10 THEN <<Digits[((n \div 10) % 10) + 1]>> ELSE <<>>
           c == <<Digits[(n % 10) + 1]>>
<1>5. a \in Str /\ b \in Str /\ c \in Str
  BY <1>2, <1>3, <1>4
<1>6. Decimal(n) = a \o b \o c
  BY DEF Decimal
<1> HIDE DEF a, b, c
<1>7. QED
  BY <1>5, <1>6 DEF Str

-----------------------------------------------------------------------------
(* The growing arrays.                                                       *)

(* What the loop goes through.                                               *)
DoublingStep(c, d) == [k \in Nat |-> IF k = 0 THEN c ELSE 2 * d[k - 1]]
Doublings(c)       == CHOOSE d : d = DoublingStep(c, d)

LEMMA DoublingsFacts ==
  ASSUME NEW c \in Nat
  PROVE  /\ Doublings(c) \in [Nat -> Nat] /\ Doublings(c)[0] = c
         /\ \A k \in Nat : Doublings(c)[k + 1] = 2 * Doublings(c)[k]
<1> DEFINE step == [k \in Nat |-> [n \in Nat |-> 2 * n]]
<1>1. step \in Steps(Nat)
  BY DEF Steps
<1>2. \A k, n \in Nat : step[k][n] = 2 * n
  OBVIOUS
<1> HIDE DEF step
<1>3. PICK f \in [Nat -> Nat] :
        f[0] = c /\ \A k \in Nat : f[k + 1] = step[k][f[k]]
  <2>1. \E f : IsRecursion(f, Nat, c, step)
    BY <1>1, RecursionExists
  <2>2. QED
    BY <2>1 DEF IsRecursion
<1>4. ASSUME NEW k \in Nat
      PROVE  f[k] = IF k = 0 THEN c ELSE 2 * f[k - 1]
  <2>1. CASE k = 0
    BY <1>3, <2>1
  <2>2. CASE k # 0
    <3>1. k - 1 \in Nat /\ f[k - 1] \in Nat
      BY <1>3, <2>2
    <3>2. f[(k - 1) + 1] = step[k - 1][f[k - 1]] /\ (k - 1) + 1 = k
      BY <1>3, <3>1
    <3>3. f[k] = 2 * f[k - 1]
      BY <1>2, <3>1, <3>2
    <3>4. QED
      BY <2>2, <3>3
  <2>3. QED
    BY <2>1, <2>2
<1>5. f = DoublingStep(c, f)
  BY <1>3, <1>4 DEF DoublingStep
<1>6. Doublings(c) = DoublingStep(c, Doublings(c))
  BY <1>5 DEF Doublings
<1> DEFINE d == Doublings(c)
<1>7. /\ d = [k \in Nat |-> d[k]]
      /\ \A k \in Nat : d[k] = IF k = 0 THEN c ELSE 2 * d[k - 1]
  BY <1>6 DEF DoublingStep
<1> HIDE DEF d
<1>8. d[0] = c /\ \A k \in Nat : d[k + 1] = 2 * d[k]
  <2>1. d[0] = c
    BY <1>7
  <2>2. ASSUME NEW k \in Nat PROVE d[k + 1] = 2 * d[k]
    <3>1. k + 1 \in Nat /\ k + 1 # 0 /\ (k + 1) - 1 = k
      OBVIOUS
    <3>2. QED
      BY <1>7, <3>1
  <2>3. QED
    BY <2>1, <2>2
<1>9. \A k \in Nat : d[k] \in Nat
  <2> DEFINE T == {k \in Nat : d[k] \in Nat}
  <2>1. 0 \in T /\ \A k \in Nat : k \in T => k + 1 \in T
    BY <1>8
  <2> HIDE DEF T
  <2>2. Nat \subseteq T
    BY <2>1, SetInduction
  <2>3. QED
    BY <2>2 DEF T
<1>10. QED
  BY <1>7, <1>8, <1>9 DEF d

(* The loop ends, and with a capacity above what is asked for.               *)
LEMMA DoubledIsAbove ==
  ASSUME NEW c \in Nat \ {0}, NEW n \in Nat
  PROVE  DoubledAbove(c, n) \in Nat /\ DoubledAbove(c, n) > n
<1> DEFINE d == Doublings(c)
           T == {k \in Nat : d[k] > k}
           above == {k \in 0..n + 1 : d[k] > n}
           Turn(k) == d[k] > n /\ \A j \in 0..k-1 : d[j] <= n
           turns == CHOOSE k \in 0..n + 1 : Turn(k)
<1>1. /\ d \in [Nat -> Nat] /\ d[0] = c
      /\ \A k \in Nat : d[k + 1] = 2 * d[k]
  BY DoublingsFacts
<1>2. DoubledAbove(c, n) = d[turns]
  BY DEF DoubledAbove, Doublings, DoublingStep
<1> HIDE DEF d
<1>3. 0 \in T /\ \A k \in Nat : k \in T => k + 1 \in T
  BY <1>1
<1> HIDE DEF T
<1>4. n + 1 \in T
  BY <1>3, SetInduction
<1>5. n + 1 \in above /\ above \subseteq Nat
  BY <1>1, <1>4 DEF T
<1>6. PICK k \in above : \A j \in above : k <= j
  BY <1>5, LeastExists
<1>7. k \in 0..n + 1 /\ d[k] > n
  OBVIOUS
<1>8. \A j \in 0..k-1 : j \in 0..n + 1 /\ d[j] \in Nat /\ ~ (k <= j)
  BY <1>1, <1>7
<1>9. \A j \in 0..k-1 : d[j] <= n
  BY <1>6, <1>8
<1>10. \E m \in 0..n + 1 : Turn(m)
  BY <1>7, <1>9
<1>11. turns \in 0..n + 1 /\ d[turns] > n
  <2> HIDE DEF above
  <2>1. QED
    BY <1>10
<1> HIDE DEF turns
<1>12. QED
  BY <1>1, <1>2, <1>11

(* The buffers that have room for their terminator.                          *)
SoundTexts ==
  {buf \in [data : Str, capacity : Nat \ {0}] : TextHolds(buf)}

LEMMA EmptyIsSound == EmptyText \in SoundTexts
<1>1. <<>> \in Str /\ Len(<<>>) = 0
  BY DEF Str
<1>2. QED
  BY <1>1, LeastAssumption DEF SoundTexts, EmptyText, TextHolds

LEMMA SoundIsText == \A buf \in SoundTexts : buf.data \in Str
  BY DEF SoundTexts

LEMMA AppendKeepsSound ==
  ASSUME NEW buf \in SoundTexts, NEW text \in Str
  PROVE  TextAppend(buf, text) \in SoundTexts
<1> DEFINE needed == Len(buf.data) + Len(text)
           grown == DoubledAbove(buf.capacity, needed)
           data == buf.data \o text
           capacity == IF buf.capacity > needed THEN buf.capacity ELSE grown
<1>1. /\ buf.data \in Str /\ buf.capacity \in Nat \ {0}
  BY DEF SoundTexts
<1>2. needed \in Nat
  BY <1>1 DEF Str
<1>3. data \in Str /\ Len(data) = needed
  BY <1>1 DEF Str
<1>4. TextAppend(buf, text) = [data |-> data, capacity |-> capacity]
  BY DEF TextAppend
<1> HIDE DEF data, needed
<1>5. grown \in Nat /\ grown > needed
  BY <1>1, <1>2, DoubledIsAbove
<1> HIDE DEF grown
<1>6. capacity \in Nat \ {0} /\ needed + 1 <= capacity
  BY <1>1, <1>2, <1>5
<1> HIDE DEF capacity
<1>7. QED
  BY <1>3, <1>4, <1>6 DEF SoundTexts, TextHolds

(* And the vectors.                                                          *)
VectorSound(vec) ==
  /\ vec.capacity \in Nat \ {0} /\ VectorHolds(vec)
  /\ \E S : vec.data \in Seq(S)

LEMMA EmptyVectorIsSound == VectorSound(EmptyVector)
<1>1. <<>> \in Seq({}) /\ Len(<<>>) = 0
  OBVIOUS
<1>2. QED
  BY <1>1, LeastAssumption DEF VectorSound, EmptyVector, VectorHolds

LEMMA PushKeepsSound ==
  ASSUME NEW vec, VectorSound(vec), NEW string
  PROVE  VectorSound(VectorPush(vec, string))
<1> DEFINE needed == Len(vec.data) + 1
           grown == DoubledAbove(vec.capacity, needed - 1)
           data == Append(vec.data, string)
           capacity == IF vec.capacity >= needed THEN vec.capacity ELSE grown
<1>1. PICK S : vec.data \in Seq(S)
  BY DEF VectorSound
<1>2. vec.capacity \in Nat \ {0}
  BY DEF VectorSound
<1>3. needed \in Nat \ {0} /\ needed - 1 \in Nat
  BY <1>1
<1>4. data \in Seq(S \cup {string}) /\ Len(data) = needed
  <2>1. vec.data \in Seq(S \cup {string})
    BY <1>1
  <2>2. QED
    BY <2>1
<1>5. VectorPush(vec, string) = [data |-> data, capacity |-> capacity]
  BY DEF VectorPush
<1> HIDE DEF data, needed
<1>6. grown \in Nat /\ grown > needed - 1
  BY <1>2, <1>3, DoubledIsAbove
<1> HIDE DEF grown
<1>7. capacity \in Nat \ {0} /\ needed + 1 <= capacity + 1
  BY <1>2, <1>3, <1>6
<1> HIDE DEF capacity
<1>8. QED
  BY <1>4, <1>5, <1>7 DEF VectorSound, VectorHolds

-----------------------------------------------------------------------------
(* The preparation of the words.                                             *)

Prep ==
  /\ words \in Seq(Seq(Parts)) /\ words # <<>>
  /\ env \in [DOMAIN env -> Str] /\ lastStatus \in 0..255
  /\ expander \in {"word", "part", "scan"}
  /\ prepared \in Seq(Str) /\ Len(prepared) <= Len(words)
  /\ inner \in SoundTexts /\ outer \in SoundTexts
  /\ expander # "word" =>
       Len(prepared) < Len(words) /\ part \in 1..Len(Word) + 1
  /\ expander = "scan" => part \in DOMAIN Word /\ at \in 1..Len(Text) + 1

LEMMA ValueIsText ==
  ASSUME Prep, NEW name PROVE Value(name) \in Str
<1>1. <<>> \in Str
  BY DEF Str
<1>2. QED
  BY <1>1 DEF Prep, Value

LEMMA WordFacts ==
  ASSUME Prep, Len(prepared) < Len(words)
  PROVE  /\ Word \in Seq(Parts)
         /\ \A p \in DOMAIN Word : Word[p].text \in Str
<1>1. Len(prepared) + 1 \in DOMAIN words
  BY DEF Prep
<1>2. Word \in Seq(Parts)
  BY <1>1 DEF Prep, Word
<1>3. \A p \in DOMAIN Word : Word[p] \in Parts
  <2> HIDE DEF Word
  <2>1. QED
    BY <1>2
<1>4. \A q \in Parts : q.text \in Str
  BY DEF Parts, Str
<1>5. QED
  BY <1>2, <1>3, <1>4

LEMMA PrepStep ==
  ASSUME Prep, ExpandNext PROVE Prep'
<1>1. UNCHANGED given
  BY DEF ExpandNext, StartWord, LiteralPart, OpenPart, EndWord, ExpandStatus,
     ExpandVariable, PushChar, ClosePart
<1>2. /\ words' \in Seq(Seq(Parts)) /\ words' # <<>>
      /\ env' \in [DOMAIN env' -> Str] /\ lastStatus' \in 0..255
      /\ words' = words
  BY <1>1 DEF Prep, given
<1>3. /\ prepared \in Seq(Str) /\ inner \in SoundTexts /\ outer \in SoundTexts
      /\ inner.data \in Str /\ outer.data \in Str
  BY SoundIsText DEF Prep
<1>4. EmptyText \in SoundTexts
  BY EmptyIsSound
<1>5. prepared' = prepared => Word' = Word
  BY <1>2 DEF Word
<1>6. CASE StartWord
  <2>1. /\ prepared' = prepared /\ expander' = "part" /\ part' = 1
        /\ inner' = inner /\ outer' = EmptyText /\ Len(prepared) < Len(words)
    BY <1>6 DEF StartWord
  <2>2. Word \in Seq(Parts)
    BY <2>1, WordFacts
  <2>3. part' \in 1..Len(Word') + 1
    BY <1>5, <2>1, <2>2
  <2>4. QED
    BY <1>2, <1>3, <1>4, <2>1, <2>3 DEF Prep
<1>7. CASE EndWord
  <2>1. /\ prepared' = Append(prepared, outer.data) /\ expander' = "word"
        /\ UNCHANGED <<inner, outer>> /\ Len(prepared) < Len(words)
    BY <1>7 DEF EndWord, Prep
  <2>2. prepared' \in Seq(Str) /\ Len(prepared') <= Len(words)
    <3>1. Len(words) \in Nat
      BY DEF Prep
    <3>2. Append(prepared, outer.data) \in Seq(Str)
      BY <1>3
    <3>3. Len(Append(prepared, outer.data)) = Len(prepared) + 1
      BY <1>3
    <3>4. QED
      BY <1>3, <2>1, <3>1, <3>2, <3>3
  <2>3. QED
    BY <1>2, <1>3, <2>1, <2>2 DEF Prep
<1>8. CASE ~StartWord /\ ~EndWord
  <2>1. /\ prepared' = prepared /\ expander \in {"part", "scan"}
        /\ Len(prepared) < Len(words) /\ part \in 1..Len(Word) + 1
        /\ expander' \in {"part", "scan"}
    BY <1>8 DEF Prep, ExpandNext, LiteralPart, OpenPart, ExpandStatus,
       ExpandVariable, PushChar, ClosePart
  <2>2. /\ Word \in Seq(Parts) /\ Len(Word) \in Nat
        /\ \A p \in DOMAIN Word : Word[p].text \in Str
    BY <2>1, WordFacts
  <2>3. Word' = Word
    BY <1>5, <2>1
  <2>4. CASE LiteralPart
    <3>1. /\ part \in DOMAIN Word /\ part' = part + 1 /\ inner' = inner
          /\ outer' = TextAppend(outer, Text) /\ expander' = "part"
      BY <2>4 DEF LiteralPart
    <3>2. outer' \in SoundTexts
      BY <1>3, <2>2, <3>1, AppendKeepsSound DEF Text
    <3>3. part' \in 1..Len(Word') + 1
      BY <2>2, <2>3, <3>1
    <3>4. QED
      BY <1>2, <1>3, <2>1, <3>1, <3>2, <3>3 DEF Prep
  <2>5. CASE OpenPart
    <3>1. /\ part \in DOMAIN Word /\ part' = part /\ outer' = outer
          /\ inner' = EmptyText /\ expander' = "scan" /\ at' = 1
      BY <2>5 DEF OpenPart
    <3>2. Text' = Text /\ Text \in Str
      BY <2>2, <2>3, <3>1 DEF Text
    <3>3. at' \in 1..Len(Text') + 1
      BY <3>1, <3>2 DEF Str
    <3>4. QED
      BY <1>2, <1>3, <1>4, <2>1, <2>3, <3>1, <3>3 DEF Prep
  <2>6. CASE ClosePart
    <3>1. /\ expander = "scan" /\ outer' = TextAppend(outer, inner.data)
          /\ part' = part + 1 /\ expander' = "part" /\ inner' = inner
      BY <2>6 DEF ClosePart
    <3>2. outer' \in SoundTexts
      BY <1>3, <3>1, AppendKeepsSound
    <3>3. part \in DOMAIN Word
      BY <3>1 DEF Prep
    <3>4. part' \in 1..Len(Word') + 1
      BY <2>2, <2>3, <3>1, <3>3
    <3>5. QED
      BY <1>2, <1>3, <2>1, <3>1, <3>2, <3>4 DEF Prep
  <2>7. CASE ExpandStatus \/ ExpandVariable \/ PushChar
    <3>1. /\ expander = "scan" /\ expander' = "scan"
          /\ UNCHANGED <<part, outer>>
      BY <2>7 DEF ExpandStatus, ExpandVariable, PushChar
    <3>2. part \in DOMAIN Word /\ at \in 1..Len(Text) + 1
      BY <3>1 DEF Prep
    <3>3. Text' = Text /\ Text \in Str /\ Len(Text) \in Nat
      BY <2>2, <2>3, <3>1, <3>2 DEF Text, Str
    <3>4. \A i : Char(i) # "NUL" => i \in DOMAIN Text
      BY DEF Char
    <3>5. DOMAIN Text = 1..Len(Text)
      BY <3>3 DEF Str
    <3>6. inner' \in SoundTexts /\ at' \in 1..Len(Text) + 1
      <4>1. CASE ExpandStatus
        <5>1. inner' = TextAppend(inner, Decimal(lastStatus)) /\ at' = at + 2
              /\ Char(at + 1) = "?"
          BY <4>1 DEF ExpandStatus
        <5>2. Decimal(lastStatus) \in Str
          BY DecimalIsText DEF Prep
        <5>3. at + 1 \in DOMAIN Text
          BY <3>4, <5>1
        <5>4. at' \in 1..Len(Text) + 1
          BY <3>2, <3>3, <3>5, <5>1, <5>3
        <5>5. QED
          BY <1>3, <5>1, <5>2, <5>4, AppendKeepsSound
      <4>2. CASE ExpandVariable
        <5> DEFINE name == SubSeq(Text, at + 1, NameEnd(Text, at + 1) - 1)
        <5>1. /\ inner' = TextAppend(inner, Value(name))
              /\ at' = NameEnd(Text, at + 1) /\ Char(at) = "$"
          BY <4>2 DEF ExpandVariable
        <5>2. Value(name) \in Str
          BY ValueIsText
        <5>3. at + 1 \in 1..Len(Text) + 1
          BY <3>2, <3>3, <3>4, <3>5, <5>1
        <5>4. at' \in at + 1..Len(Text) + 1
          BY <3>3, <5>1, <5>3, NameEnds
        <5>5. at' \in 1..Len(Text) + 1
          BY <3>2, <3>3, <5>4
        <5> HIDE DEF name
        <5>6. QED
          BY <1>3, <5>1, <5>2, <5>5, AppendKeepsSound
      <4>3. CASE PushChar
        <5>1. /\ inner' = TextAppend(inner, <<Char(at)>>) /\ at' = at + 1
              /\ Char(at) # "NUL"
          BY <4>3 DEF PushChar
        <5>2. at \in DOMAIN Text /\ Char(at) = Text[at]
          BY <3>4, <5>1 DEF Char
        <5>3. Char(at) \in Characters
          BY <3>3, <5>2 DEF Str
        <5>4. <<Char(at)>> \in Str
          BY <5>3 DEF Str
        <5>5. at' \in 1..Len(Text) + 1
          BY <3>2, <3>3, <3>5, <5>1, <5>2
        <5>6. QED
          BY <1>3, <5>1, <5>4, <5>5, AppendKeepsSound
      <4>4. QED
        BY <2>7, <4>1, <4>2, <4>3
    <3>7. QED
      BY <1>2, <1>3, <2>1, <2>3, <3>1, <3>2, <3>3, <3>6 DEF Prep
  <2>8. QED
    BY <1>8, <2>4, <2>5, <2>6, <2>7 DEF ExpandNext
<1>9. QED
  BY <1>6, <1>7, <1>8

-----------------------------------------------------------------------------
(* What a word is to become.                                                 *)

(* The beginnings of a concatenation, up to n of its sequences.              *)
JoinsStep(seqs, u) ==
  [n \in 0..Len(seqs) |-> IF n = 0 THEN <<>> ELSE u[n - 1] \o seqs[n]]
Joins(seqs) == CHOOSE u : u = JoinsStep(seqs, u)

LEMMA JoinsFacts ==
  ASSUME NEW seqs \in Seq(Str)
  PROVE  /\ Joins(seqs) \in [0..Len(seqs) -> Str] /\ Joins(seqs)[0] = <<>>
         /\ \A n \in 0..Len(seqs) - 1 :
              Joins(seqs)[n + 1] = Joins(seqs)[n] \o seqs[n + 1]
         /\ Concatenated(seqs) = Joins(seqs)[Len(seqs)]
<1> DEFINE next(k, t) == IF k < Len(seqs) THEN t \o seqs[k + 1] ELSE t
           step == [k \in Nat |-> [t \in Str |-> next(k, t)]]
<1>1. Len(seqs) \in Nat /\ \A k \in 1..Len(seqs) : seqs[k] \in Str
  OBVIOUS
<1>2. \A s, t \in Str : s \o t \in Str
  BY DEF Str
<1>3. \A k \in Nat, t \in Str : next(k, t) \in Str
  BY <1>1, <1>2
<1>4. <<>> \in Str
  BY DEF Str
<1> HIDE DEF next
<1>5. step \in Steps(Str) /\ \A k \in Nat, t \in Str : step[k][t] = next(k, t)
  BY <1>3 DEF Steps
<1> HIDE DEF step
<1>6. PICK f : IsRecursion(f, Str, <<>>, step)
  BY <1>4, <1>5, RecursionExists
<1>7. /\ f \in [Nat -> Str] /\ f[0] = <<>>
      /\ \A k \in Nat : f[k + 1] = next(k, f[k])
  BY <1>5, <1>6 DEF IsRecursion
<1>8. ASSUME NEW k \in 0..Len(seqs) - 1
      PROVE  f[k + 1] = f[k] \o seqs[k + 1]
  <2>1. k \in Nat /\ k < Len(seqs)
    BY <1>1
  <2>2. f[k + 1] = next(k, f[k])
    BY <1>7, <2>1
  <2>3. QED
    BY <2>1, <2>2 DEF next
<1> DEFINE g == [n \in 0..Len(seqs) |-> f[n]]
<1>9. g = JoinsStep(seqs, g)
  <2>1. ASSUME NEW n \in 0..Len(seqs)
        PROVE  g[n] = IF n = 0 THEN <<>> ELSE g[n - 1] \o seqs[n]
    <3>1. CASE n = 0
      BY <1>7, <3>1
    <3>2. CASE n # 0
      <4>1. n - 1 \in 0..Len(seqs) - 1 /\ (n - 1) + 1 = n
        BY <3>2
      <4>2. f[(n - 1) + 1] = f[n - 1] \o seqs[(n - 1) + 1]
        BY <1>8, <4>1
      <4>3. n - 1 \in 0..Len(seqs)
        BY <4>1
      <4>4. g[n] = g[n - 1] \o seqs[n]
        BY <4>1, <4>2, <4>3
      <4>5. QED
        BY <3>2, <4>4
    <3>3. QED
      BY <3>1, <3>2
  <2>2. QED
    BY <2>1 DEF JoinsStep
<1>10. Joins(seqs) = JoinsStep(seqs, Joins(seqs))
  BY <1>9 DEF Joins
<1> DEFINE u == Joins(seqs)
<1>11. Concatenated(seqs) = u[Len(seqs)]
  BY DEF Concatenated, Joins, JoinsStep
<1>12. /\ u = [n \in 0..Len(seqs) |-> u[n]]
       /\ \A n \in 0..Len(seqs) :
            u[n] = IF n = 0 THEN <<>> ELSE u[n - 1] \o seqs[n]
  BY <1>10 DEF JoinsStep
<1> HIDE DEF u
<1>13. u[0] = <<>>
  BY <1>1, <1>12
<1>14. ASSUME NEW n \in 0..Len(seqs) - 1 PROVE u[n + 1] = u[n] \o seqs[n + 1]
  <2>1. n + 1 \in 0..Len(seqs) /\ n + 1 # 0 /\ (n + 1) - 1 = n
    BY <1>1
  <2>2. QED
    BY <1>12, <2>1
<1>15. \A n \in 0..Len(seqs) : u[n] \in Str
  <2> DEFINE T == {n \in 0..Len(seqs) : u[n] \in Str}
  <2>1. 0 \in T
    BY <1>1, <1>4, <1>13
  <2>2. ASSUME NEW n \in 0..Len(seqs) - 1, n \in T PROVE n + 1 \in T
    <3>1. n + 1 \in 0..Len(seqs) /\ seqs[n + 1] \in Str
      BY <1>1
    <3>2. u[n + 1] = u[n] \o seqs[n + 1]
      BY <1>14
    <3>3. u[n + 1] \in Str
      BY <1>2, <2>2, <3>1, <3>2
    <3>4. QED
      BY <3>1, <3>3
  <2> HIDE DEF T
  <2>3. 0..Len(seqs) \subseteq T
    BY <1>1, <2>1, <2>2, BoundedInduction
  <2>4. QED
    BY <2>3 DEF T
<1>16. QED
  BY <1>11, <1>12, <1>13, <1>14, <1>15 DEF u

(* What is empty adds nothing.                                               *)
LEMMA EmptiesAddNothing ==
  ASSUME NEW seqs \in Seq(Str), NEW m \in 0..Len(seqs), NEW n \in m..Len(seqs),
         \A j \in m + 1..n : seqs[j] = <<>>
  PROVE  Joins(seqs)[n] = Joins(seqs)[m]
<1> DEFINE u == Joins(seqs)
           T == {k \in Nat : u[m + k] = u[m]}
<1>1. /\ Len(seqs) \in Nat
      /\ \A k \in 0..Len(seqs) : u[k] \in Str
      /\ \A k \in 0..Len(seqs) - 1 : u[k + 1] = u[k] \o seqs[k + 1]
  <2>1. /\ u \in [0..Len(seqs) -> Str]
        /\ \A k \in 0..Len(seqs) - 1 : u[k + 1] = u[k] \o seqs[k + 1]
    BY JoinsFacts
  <2> HIDE DEF u
  <2>2. QED
    BY <2>1
<1> HIDE DEF u
<1>2. \A s \in Str : s \o <<>> = s
  BY DEF Str
<1>3. 0 \in T
  OBVIOUS
<1>4. ASSUME NEW k \in 0..(n - m) - 1, k \in T PROVE k + 1 \in T
  <2>1. /\ m + k \in 0..Len(seqs) - 1 /\ m + k \in 0..Len(seqs)
        /\ (m + k) + 1 \in m + 1..n
        /\ m + (k + 1) = (m + k) + 1
    BY <1>1
  <2>2. seqs[(m + k) + 1] = <<>>
    BY <2>1
  <2>3. u[(m + k) + 1] = u[m + k] \o <<>>
    BY <1>1, <2>1, <2>2
  <2>4. u[(m + k) + 1] = u[m + k]
    BY <1>1, <1>2, <2>1, <2>3
  <2>5. QED
    BY <1>4, <2>1, <2>4
<1> HIDE DEF T
<1>5. n - m \in Nat
  BY <1>1
<1>6. 0..n - m \subseteq T
  BY <1>3, <1>4, <1>5, BoundedInduction
<1>7. n - m \in T
  BY <1>5, <1>6
<1>8. m + (n - m) = n
  BY <1>1
<1>9. u[n] = u[m]
  BY <1>7, <1>8 DEF T
<1>10. QED
  BY <1>9 DEF u

(* ?, $ and what is no character are not part of a name.                     *)
LEMMA NoNames ==
  /\ ~IdentifierChar("$") /\ ~IdentifierChar("?")
  /\ "$" \notin Letters /\ "?" \notin Letters
<1>1. "$" \notin Letters /\ "?" \notin Letters
  BY CommandsAssumption
<1>2. "$" \notin Digit /\ "?" \notin Digit
  BY DEF Digit, Digits
<1>3. QED
  BY <1>1, <1>2 DEF IdentifierChar

(* What is in no parameter stands for itself.                                *)
LEMMA PlainMeaning ==
  ASSUME NEW text, NEW i, ~Begins(text, i),
         \A b \in 1..i-1 : Begins(text, b) => ~NamedBy(text, b, i)
  PROVE  Meaning(text, i) = <<text[i]>>
  BY DEF Meaning

(* $? stands for the status.                                                 *)
LEMMA StatusMeaning ==
  ASSUME NEW text \in Str, NEW i \in 1..Len(text), i < Len(text),
         text[i] = "$", text[i + 1] = "?"
  PROVE  /\ Meaning(text, i) = Decimal(lastStatus)
         /\ Meaning(text, i + 1) = <<>>
<1>1. Begins(text, i) /\ NamedBy(text, i, i + 1)
  BY DEF Begins, NamedBy
<1>2. Meaning(text, i) = Decimal(lastStatus)
  BY <1>1 DEF Meaning
<1>3. ~Begins(text, i + 1)
  BY DEF Begins
<1>4. i \in 1..(i + 1) - 1
  OBVIOUS
<1>5. Meaning(text, i + 1) = <<>>
  BY <1>1, <1>3, <1>4 DEF Meaning
<1>6. QED
  BY <1>2, <1>5

(* A variable stands for its value, all of it for the $.                     *)
LEMMA VariableMeaning ==
  ASSUME NEW text \in Str, NEW i \in 1..Len(text), i < Len(text),
         text[i] = "$", NEW end, end = NameEnd(text, i + 1), end > i + 1
  PROVE  /\ Meaning(text, i) = Value(SubSeq(text, i + 1, end - 1))
         /\ \A j \in i + 1..end - 1 : Meaning(text, j) = <<>>
<1>1. Len(text) \in Nat /\ i + 1 \in 1..Len(text) + 1
  BY DEF Str
<1>2. /\ end \in i + 1..Len(text) + 1 /\ end # i + 1
      /\ text[i + 1] \in Letters
      /\ \A k \in i + 1..end - 1 : IdentifierChar(text[k])
      /\ end = Len(text) + 1 \/ ~IdentifierChar(text[end])
  BY <1>1, NameEnds
<1>3. Begins(text, i)
  BY <1>2 DEF Begins
<1>4. text[i + 1] # "?"
  BY <1>2, NoNames
<1>5. \A j \in i + 1..Len(text) : NamedBy(text, i, j) <=> j \in i + 1..end - 1
  <2> SUFFICES ASSUME NEW j \in i + 1..Len(text)
               PROVE  NamedBy(text, i, j) <=> j \in i + 1..end - 1
    OBVIOUS
  <2>1. NamedBy(text, i, j) <=> \A k \in i + 1..j : IdentifierChar(text[k])
    BY <1>4 DEF NamedBy
  <2>2. CASE j < end
    <3>1. \A k \in i + 1..j : k \in i + 1..end - 1
      BY <1>1, <1>2, <2>2
    <3>2. \A k \in i + 1..j : IdentifierChar(text[k])
      BY <1>2, <3>1
    <3>3. j \in i + 1..end - 1
      BY <1>1, <1>2, <2>2
    <3>4. QED
      BY <2>1, <3>2, <3>3
  <2>3. CASE ~(j < end)
    <3>1. end \in i + 1..j /\ end # Len(text) + 1 /\ ~(j \in i + 1..end - 1)
      BY <1>1, <1>2, <2>3
    <3>2. ~IdentifierChar(text[end])
      BY <1>2, <3>1
    <3>3. QED
      BY <2>1, <3>1, <3>2
  <2>4. QED
    BY <2>2, <2>3
<1> DEFINE name == {j \in i + 1..Len(text) : NamedBy(text, i, j)}
<1>6. name = i + 1..end - 1
  <2>1. \A j \in i + 1..end - 1 : j \in i + 1..Len(text)
    BY <1>1, <1>2
  <2>2. QED
    BY <1>5, <2>1
<1>7. i + Cardinality(name) = end - 1
  <2>1. i + 1 \in Int /\ end - 1 \in Int /\ ~(i + 1 > end - 1)
    BY <1>1, <1>2
  <2>2. Cardinality(i + 1..end - 1) = (end - 1) - (i + 1) + 1
    BY <2>1, FS_Interval
  <2> HIDE DEF name
  <2>3. Cardinality(name) = (end - 1) - (i + 1) + 1
    BY <1>6, <2>2
  <2>4. QED
    BY <2>1, <2>3
<1>8. Meaning(text, i) = Value(SubSeq(text, i + 1, end - 1))
  <2>1. Meaning(text, i) = Value(SubSeq(text, i + 1, i + Cardinality(name)))
    BY <1>3, <1>4 DEF Meaning
  <2> HIDE DEF name
  <2>2. QED
    BY <1>7, <2>1
<1>9. ASSUME NEW j \in i + 1..end - 1 PROVE Meaning(text, j) = <<>>
  <2>1. IdentifierChar(text[j])
    BY <1>2
  <2>2. ~Begins(text, j)
    BY <2>1, NoNames DEF Begins
  <2>3. i \in 1..j-1 /\ j \in i + 1..Len(text)
    BY <1>1, <1>2
  <2>4. NamedBy(text, i, j)
    BY <1>5, <2>3
  <2>5. QED
    BY <1>3, <2>2, <2>3, <2>4 DEF Meaning
<1>10. QED
  BY <1>8, <1>9

Meanings(text) == [i \in 1..Len(text) |-> Meaning(text, i)]
Written(word)  == [p \in 1..Len(word) |-> MeaningOf(word[p])]

LEMMA MeaningsAreTexts ==
  ASSUME Prep, NEW text \in Str
  PROVE  Meanings(text) \in Seq(Str) /\ Len(Meanings(text)) = Len(text)
<1>1. Len(text) \in Nat /\ \A i \in 1..Len(text) : text[i] \in Characters
  BY DEF Str
<1>2. <<>> \in Str
  BY DEF Str
<1>3. \A name : Value(name) \in Str
  BY ValueIsText
<1>4. Decimal(lastStatus) \in Str
  BY DecimalIsText DEF Prep
<1>5. ASSUME NEW i \in 1..Len(text) PROVE Meaning(text, i) \in Str
  <2>1. <<text[i]>> \in Str
    BY <1>1 DEF Str
  <2>2. QED
    BY <1>2, <1>3, <1>4, <2>1 DEF Meaning
<1>6. Meanings(text) \in [1..Len(text) -> Str]
  BY <1>5 DEF Meanings
<1>7. QED
  BY <1>1, <1>6

LEMMA MeaningOfIsText ==
  ASSUME Prep, NEW p \in Parts PROVE MeaningOf(p) \in Str
<1>1. p.text \in Str
  BY DEF Parts, Str
<1>2. Meanings(p.text) \in Seq(Str)
  BY <1>1, MeaningsAreTexts
<1> DEFINE seqs == Meanings(p.text)
<1>3. Concatenated(seqs) \in Str
  <2>1. seqs \in Seq(Str) /\ Len(seqs) \in 0..Len(seqs)
    BY <1>2
  <2> HIDE DEF seqs
  <2>2. Joins(seqs) \in [0..Len(seqs) -> Str] /\ Concatenated(seqs) = Joins(seqs)[Len(seqs)]
    BY <2>1, JoinsFacts
  <2>3. QED
    BY <2>1, <2>2
<1>4. QED
  BY <1>1, <1>3 DEF MeaningOf, Meanings

LEMMA WrittenAreTexts ==
  ASSUME Prep, NEW word \in Seq(Parts)
  PROVE  Written(word) \in Seq(Str) /\ Len(Written(word)) = Len(word)
<1>1. \A p \in 1..Len(word) : MeaningOf(word[p]) \in Str
  BY MeaningOfIsText
<1>2. Written(word) \in [1..Len(word) -> Str]
  BY <1>1 DEF Written
<1>3. QED
  BY <1>2

(* No parameter that began before i goes on at i.                            *)
Clean(text, i) ==
  \A b \in 1..i-1 : Begins(text, b) => \A j \in i..Len(text) : ~NamedBy(text, b, j)

LEMMA CleanFurther ==
  ASSUME NEW text \in Str, NEW i \in 1..Len(text), NEW end \in i..Len(text) + 1,
         Clean(text, i),
         \A b \in i + 1..end - 1 : ~Begins(text, b),
         end # i,
         Begins(text, i) => \A j \in end..Len(text) : ~NamedBy(text, i, j)
  PROVE  Clean(text, end)
<1>1. Len(text) \in Nat
  BY DEF Str
<1> SUFFICES ASSUME NEW b \in 1..end - 1, Begins(text, b), NEW j \in end..Len(text)
             PROVE  ~NamedBy(text, b, j)
  BY DEF Clean
<1>2. CASE b \in 1..i - 1
  <2>1. j \in i..Len(text)
    BY <1>1
  <2>2. QED
    BY <1>2, <2>1 DEF Clean
<1>3. CASE b = i
  BY <1>3
<1>4. CASE b \in i + 1..end - 1
  BY <1>4
<1>5. QED
  BY <1>1, <1>2, <1>3, <1>4

(* One turn of the loop meets exactly what the characters it goes over stand *)
(* for, and leaves the parameter it was in.                                  *)
LEMMA PlainTurn ==
  ASSUME Prep, NEW text \in Str, NEW i \in 1..Len(text), Clean(text, i),
         ~Begins(text, i)
  PROVE  /\ Joins(Meanings(text))[i]
              = Joins(Meanings(text))[i - 1] \o <<text[i]>>
         /\ Clean(text, i + 1)
<1> DEFINE seqs == Meanings(text)
<1>1. Len(text) \in Nat /\ seqs \in Seq(Str) /\ Len(seqs) = Len(text)
  BY MeaningsAreTexts DEF Str
<1>2. \A b \in 1..i-1 : Begins(text, b) => ~NamedBy(text, b, i)
  BY <1>1 DEF Clean
<1>3. seqs[i] = <<text[i]>>
  BY <1>2, PlainMeaning DEF Meanings
<1> HIDE DEF seqs
<1>4. i - 1 \in 0..Len(seqs) - 1 /\ (i - 1) + 1 = i
  BY <1>1
<1>5. Joins(seqs)[(i - 1) + 1] = Joins(seqs)[i - 1] \o seqs[(i - 1) + 1]
  BY <1>1, <1>4, JoinsFacts
<1>6. Clean(text, i + 1)
  <2>1. /\ i + 1 \in i..Len(text) + 1 /\ i + 1 # i
        /\ \A b \in i + 1..(i + 1) - 1 : ~Begins(text, b)
    BY <1>1
  <2>2. QED
    BY <2>1, CleanFurther
<1>7. QED
  BY <1>3, <1>4, <1>5, <1>6 DEF seqs

LEMMA StatusTurn ==
  ASSUME Prep, NEW text \in Str, NEW i \in 1..Len(text), Clean(text, i),
         i < Len(text), text[i] = "$", text[i + 1] = "?"
  PROVE  /\ Joins(Meanings(text))[i + 1]
              = Joins(Meanings(text))[i - 1] \o Decimal(lastStatus)
         /\ Clean(text, i + 2)
<1> DEFINE seqs == Meanings(text)
<1>1. Len(text) \in Nat /\ seqs \in Seq(Str) /\ Len(seqs) = Len(text)
  BY MeaningsAreTexts DEF Str
<1>2. seqs[i] = Decimal(lastStatus) /\ seqs[i + 1] = <<>>
  BY <1>1, StatusMeaning DEF Meanings
<1> HIDE DEF seqs
<1>3. i - 1 \in 0..Len(seqs) - 1 /\ (i - 1) + 1 = i
  BY <1>1
<1>4. Joins(seqs)[(i - 1) + 1] = Joins(seqs)[i - 1] \o seqs[(i - 1) + 1]
  BY <1>1, <1>3, JoinsFacts
<1>5. Joins(seqs)[i + 1] = Joins(seqs)[i]
  <2>1. /\ i \in 0..Len(seqs) /\ i + 1 \in i..Len(seqs)
        /\ \A j \in i + 1..i + 1 : seqs[j] = <<>>
    BY <1>1, <1>2
  <2>2. QED
    BY <1>1, <2>1, EmptiesAddNothing
<1>6. Clean(text, i + 2)
  <2>1. i + 2 \in i..Len(text) + 1 /\ i + 2 # i
    BY <1>1
  <2>2. \A b \in i + 1..(i + 2) - 1 : ~Begins(text, b)
    <3>1. ~Begins(text, i + 1)
      BY DEF Begins
    <3>2. \A b \in i + 1..(i + 2) - 1 : b = i + 1
      OBVIOUS
    <3>3. QED
      BY <3>1, <3>2
  <2>3. \A j \in i + 2..Len(text) : ~NamedBy(text, i, j)
    BY <1>1 DEF NamedBy
  <2>4. QED
    BY <2>1, <2>2, <2>3, CleanFurther
<1>7. QED
  BY <1>2, <1>3, <1>4, <1>5, <1>6 DEF seqs

LEMMA VariableTurn ==
  ASSUME Prep, NEW text \in Str, NEW i \in 1..Len(text), Clean(text, i),
         i < Len(text), text[i] = "$",
         NEW end, end = NameEnd(text, i + 1), end > i + 1
  PROVE  /\ Joins(Meanings(text))[end - 1]
              = Joins(Meanings(text))[i - 1]
                  \o Value(SubSeq(text, i + 1, end - 1))
         /\ Clean(text, end)
<1> DEFINE seqs == Meanings(text)
           value == Value(SubSeq(text, i + 1, end - 1))
<1>1. Len(text) \in Nat /\ seqs \in Seq(Str) /\ Len(seqs) = Len(text)
  BY MeaningsAreTexts DEF Str
<1>2. /\ end \in i + 1..Len(text) + 1 /\ end # i + 1
      /\ text[i + 1] \in Letters
      /\ \A k \in i + 1..end - 1 : IdentifierChar(text[k])
      /\ end = Len(text) + 1 \/ ~IdentifierChar(text[end])
  <2>1. i + 1 \in 1..Len(text) + 1
    BY <1>1
  <2>2. end # i + 1
    BY <1>1
  <2>3. QED
    BY <2>1, <2>2, NameEnds
<1>3. seqs[i] = value /\ \A j \in i + 1..end - 1 : seqs[j] = <<>>
  <2>1. Meaning(text, i) = value /\ \A j \in i + 1..end - 1 : Meaning(text, j) = <<>>
    BY VariableMeaning
  <2>2. \A j \in i + 1..end - 1 : j \in 1..Len(text)
    BY <1>1, <1>2
  <2> HIDE DEF value
  <2>3. QED
    BY <2>1, <2>2 DEF Meanings
<1> HIDE DEF seqs, value
<1>4. i - 1 \in 0..Len(seqs) - 1 /\ (i - 1) + 1 = i
  BY <1>1
<1>5. Joins(seqs)[(i - 1) + 1] = Joins(seqs)[i - 1] \o seqs[(i - 1) + 1]
  BY <1>1, <1>4, JoinsFacts
<1>6. Joins(seqs)[end - 1] = Joins(seqs)[i]
  <2>1. i \in 0..Len(seqs) /\ end - 1 \in i..Len(seqs)
    BY <1>1, <1>2
  <2>2. QED
    BY <1>1, <1>3, <2>1, EmptiesAddNothing
<1>7. Clean(text, end)
  <2>1. end \in i..Len(text) + 1 /\ end # i
    BY <1>1, <1>2
  <2>2. \A b \in i + 1..end - 1 : ~Begins(text, b)
    BY <1>2, NoNames DEF Begins
  <2>3. \A j \in end..Len(text) : ~NamedBy(text, i, j)
    <3> SUFFICES ASSUME NEW j \in end..Len(text) PROVE ~NamedBy(text, i, j)
      OBVIOUS
    <3>1. end \in i + 1..j /\ end # Len(text) + 1
      BY <1>1, <1>2
    <3>2. ~IdentifierChar(text[end]) /\ text[i + 1] # "?"
      BY <1>2, <3>1, NoNames
    <3>3. QED
      BY <3>1, <3>2 DEF NamedBy
  <2>4. QED
    BY <2>1, <2>2, <2>3, CleanFurther
<1>8. QED
  BY <1>3, <1>4, <1>5, <1>6, <1>7 DEF seqs, value

(* How far the preparation is: the words that are done are what they stand   *)
(* for, the outer buffer holds what the parts before this one stand for, and *)
(* the inner one what the characters before this one stand for.              *)
OuterHolds == outer.data = Joins(Written(Word))[part - 1]
InnerHolds == inner.data = Joins(Meanings(Text))[at - 1]
Expanded ==
  /\ ExpandedAsWritten
  /\ expander # "word" => OuterHolds
  /\ expander = "scan" => Word[part].quote # "'" /\ Clean(Text, at) /\ InnerHolds

LEMMA MeaningsKept ==
  ASSUME UNCHANGED given
  PROVE  /\ \A text : Meanings(text)' = Meanings(text)
         /\ \A word : Written(word)' = Written(word)
         /\ \A text, i : Clean(text, i)' <=> Clean(text, i)
<1>1. env' = env /\ lastStatus' = lastStatus
  BY DEF given
<1>2. \A name : Value(name)' = Value(name)
  BY <1>1 DEF Value
<1>3. ASSUME NEW text, NEW i PROVE Meaning(text, i)' = Meaning(text, i)
  BY <1>1, <1>2 DEF Meaning
<1>4. ASSUME NEW text PROVE Meanings(text)' = Meanings(text)
  BY <1>3 DEF Meanings
<1>5. ASSUME NEW p PROVE MeaningOf(p)' = MeaningOf(p)
  BY <1>3 DEF MeaningOf
<1>6. ASSUME NEW word PROVE Written(word)' = Written(word)
  BY <1>5 DEF Written
<1>7. \A text, i : Clean(text, i)' <=> Clean(text, i)
  BY DEF Clean
<1>8. QED
  BY <1>4, <1>6, <1>7

LEMMA AllDone ==
  ASSUME UNCHANGED given
  PROVE  ExpandedAsWritten' <=>
           \A w \in DOMAIN prepared' :
             prepared'[w] = Concatenated(Written(words[w]))
<1>1. words' = words /\ env' = env /\ lastStatus' = lastStatus
  BY DEF given
<1>2. QED
  BY <1>1 DEF ExpandedAsWritten, Written, MeaningOf, Meaning, Value

(* What is done stays as it is while no word is finished.                    *)
LEMMA DoneKept ==
  ASSUME ExpandedAsWritten, UNCHANGED <<given, prepared>>
  PROVE  ExpandedAsWritten'
<1>1. \A w \in DOMAIN prepared : prepared[w] = Concatenated(Written(words[w]))
  BY DEF ExpandedAsWritten, Written
<1>2. \A w \in DOMAIN prepared' : prepared'[w] = Concatenated(Written(words[w]))
  BY <1>1
<1>3. QED
  BY <1>2, AllDone

LEMMA ScanStep ==
  ASSUME Prep, Expanded, expander = "scan",
         ExpandStatus \/ ExpandVariable \/ PushChar
  PROVE  inner'.data = Joins(Meanings(Text))[at' - 1] /\ Clean(Text, at')
<1>1. PICK text, i : text = Text /\ i = at
  OBVIOUS
<1>2. /\ part \in DOMAIN Word /\ Len(prepared) < Len(words)
      /\ i \in 1..Len(text) + 1
  BY <1>1 DEF Prep
<1>3. text \in Str /\ Len(text) \in Nat
  BY <1>1, <1>2, WordFacts DEF Text, Str
<1>4. Clean(text, i) /\ inner.data = Joins(Meanings(text))[i - 1]
  BY <1>1 DEF Expanded, InnerHolds
<1>5. \A j : Char(j) # "NUL" => j \in 1..Len(text) /\ Char(j) = text[j]
  BY <1>1, <1>3 DEF Char, Str
<1>6. \A t : TextAppend(inner, t).data = inner.data \o t
  BY DEF TextAppend
<1>7. CASE ExpandStatus
  <2>1. /\ Char(i) = "$" /\ Char(i + 1) = "?" /\ at' = i + 2
        /\ inner'.data = inner.data \o Decimal(lastStatus)
    BY <1>1, <1>6, <1>7 DEF ExpandStatus
  <2>2. /\ i \in 1..Len(text) /\ text[i] = "$" /\ text[i + 1] = "?"
        /\ i + 1 \in 1..Len(text)
    BY <1>5, <2>1
  <2>3. i < Len(text) /\ at' - 1 = i + 1
    BY <1>3, <2>1, <2>2
  <2>4. /\ Joins(Meanings(text))[i + 1]
             = Joins(Meanings(text))[i - 1] \o Decimal(lastStatus)
        /\ Clean(text, i + 2)
    BY <1>3, <1>4, <2>2, <2>3, StatusTurn
  <2>5. QED
    BY <1>1, <1>4, <2>1, <2>3, <2>4
<1>8. CASE ExpandVariable
  <2>1. PICK end : end = NameEnd(text, i + 1)
    OBVIOUS
  <2>2. /\ Char(i) = "$" /\ end > i + 1 /\ at' = end
        /\ inner'.data = inner.data \o Value(SubSeq(text, i + 1, end - 1))
    BY <1>1, <1>6, <1>8, <2>1 DEF ExpandVariable
  <2>3. i \in 1..Len(text) /\ text[i] = "$"
    BY <1>5, <2>2
  <2>4. i < Len(text)
    <3>1. i + 1 \in 1..Len(text) + 1
      BY <1>3, <2>3
    <3>2. end # i + 1
      BY <2>2, <3>1
    <3>3. i + 1 \in 1..Len(text)
      BY <1>3, <2>1, <3>1, <3>2, NameEnds
    <3>4. QED
      BY <1>3, <2>3, <3>3
  <2>5. /\ Joins(Meanings(text))[end - 1]
             = Joins(Meanings(text))[i - 1]
                 \o Value(SubSeq(text, i + 1, end - 1))
        /\ Clean(text, end)
    BY <1>3, <1>4, <2>1, <2>2, <2>3, <2>4, VariableTurn
  <2>6. QED
    BY <1>1, <1>4, <2>2, <2>5
<1>9. CASE PushChar
  <2>1. /\ Char(i) # "NUL" /\ at' = i + 1
        /\ inner'.data = inner.data \o <<Char(i)>>
        /\ Char(i) = "$" =>
             Char(i + 1) # "?" /\ NameEnd(text, i + 1) = i + 1
    BY <1>1, <1>6, <1>9 DEF PushChar
  <2>2. i \in 1..Len(text) /\ Char(i) = text[i] /\ (i + 1) - 1 = i
    BY <1>5, <2>1
  <2>3. ~Begins(text, i)
    <3> SUFFICES ASSUME text[i] = "$", i < Len(text), text[i + 1] \in Letters \cup {"?"}
                 PROVE  FALSE
      BY DEF Begins
    <3>1. i + 1 \in 1..Len(text) + 1 /\ i + 1 \in 1..Len(text)
      BY <1>3, <2>2
    <3>2. Char(i + 1) = text[i + 1]
      BY <1>1, <1>3, <3>1 DEF Char, Str
    <3>3. text[i + 1] \in Letters /\ NameEnd(text, i + 1) = i + 1
      BY <2>1, <2>2, <3>2
    <3>4. i + 1 = Len(text) + 1
      BY <1>3, <3>1, <3>3, NameEnds
    <3>5. QED
      BY <1>3, <3>1, <3>4
  <2>4. /\ Joins(Meanings(text))[i] = Joins(Meanings(text))[i - 1] \o <<text[i]>>
        /\ Clean(text, i + 1)
    BY <1>3, <1>4, <2>2, <2>3, PlainTurn
  <2>5. QED
    BY <1>1, <1>4, <2>1, <2>2, <2>4
<1>10. QED
  BY <1>7, <1>8, <1>9

LEMMA ExpandedStep ==
  ASSUME Prep, Expanded, ExpandNext PROVE Expanded'
<1>1. UNCHANGED given
  BY DEF ExpandNext, StartWord, LiteralPart, OpenPart, EndWord, ExpandStatus,
     ExpandVariable, PushChar, ClosePart
<1>2. PICK word : word = Word
  OBVIOUS
<1>3. expander # "word" \/ StartWord
  BY DEF ExpandNext, LiteralPart, OpenPart, EndWord, ExpandStatus,
     ExpandVariable, PushChar, ClosePart
<1>4. /\ Len(prepared) < Len(words)
      /\ word \in Seq(Parts) /\ Len(word) \in Nat /\ DOMAIN word = 1..Len(word)
      /\ Written(word) \in Seq(Str) /\ Len(Written(word)) = Len(word)
  <2>1. Len(prepared) < Len(words)
    BY <1>3 DEF Prep, StartWord
  <2>2. word \in Seq(Parts)
    BY <1>2, <2>1, WordFacts
  <2>3. QED
    BY <2>1, <2>2, WrittenAreTexts
<1>5. ASSUME prepared' = prepared
      PROVE  /\ Word' = word /\ ExpandedAsWritten'
             /\ OuterHolds' <=> outer'.data = Joins(Written(word))[part' - 1]
  <2>1. Word' = word
    BY <1>1, <1>2, <1>5 DEF Word, given
  <2>2. ExpandedAsWritten'
    BY <1>1, <1>5, DoneKept DEF Expanded
  <2>3. Written(word)' = Written(word)
    BY <1>1, MeaningsKept
  <2>4. Written(Word)' = Written(word)
    BY <2>1, <2>3 DEF Written
  <2>5. QED
    BY <2>1, <2>2, <2>4 DEF OuterHolds
(* A part that is over adds what it stands for to the outer buffer.          *)
<1>6. ASSUME NEW t, outer' = TextAppend(outer, t), OuterHolds,
             part \in DOMAIN word, part' = part + 1, t = MeaningOf(word[part])
      PROVE  outer'.data = Joins(Written(word))[part' - 1]
  <2> DEFINE seqs == Written(word)
  <2>1. outer'.data = Joins(seqs)[part - 1] \o t
    BY <1>2, <1>6 DEF OuterHolds, TextAppend
  <2>2. seqs[part] = t
    BY <1>4, <1>6 DEF Written
  <2> HIDE DEF seqs
  <2>3. /\ part - 1 \in 0..Len(seqs) - 1 /\ (part - 1) + 1 = part
        /\ part' - 1 = part
    BY <1>4, <1>6 DEF seqs
  <2>4. Joins(seqs)[(part - 1) + 1] = Joins(seqs)[part - 1] \o seqs[(part - 1) + 1]
    <3>1. seqs \in Seq(Str)
      BY <1>4 DEF seqs
    <3>2. QED
      BY <2>3, <3>1, JoinsFacts
  <2>5. QED
    BY <2>1, <2>2, <2>3, <2>4 DEF seqs
<1>7. CASE StartWord
  <2>1. /\ prepared' = prepared /\ expander' = "part" /\ part' = 1
        /\ outer' = EmptyText
    BY <1>7 DEF StartWord
  <2>2. outer'.data = Joins(Written(word))[part' - 1]
    <3>1. Joins(Written(word))[0] = <<>>
      BY <1>4, JoinsFacts
    <3>2. part' - 1 = 0 /\ outer'.data = <<>>
      BY <2>1 DEF EmptyText
    <3>3. QED
      BY <3>1, <3>2
  <2>3. QED
    BY <1>5, <2>1, <2>2 DEF Expanded
<1>8. CASE EndWord
  <2>1. /\ prepared' = Append(prepared, outer.data) /\ expander' = "word"
        /\ expander = "part" /\ part \notin DOMAIN word
    BY <1>2, <1>8 DEF EndWord
  <2>2. outer.data = Concatenated(Written(word))
    <3>1. part = Len(word) + 1
      BY <1>2, <1>4, <2>1 DEF Prep
    <3>2. outer.data = Joins(Written(word))[Len(word)]
      BY <1>2, <1>4, <2>1, <3>1 DEF Expanded, OuterHolds
    <3>3. QED
      BY <1>4, <3>2, JoinsFacts
  <2>3. prepared \in Seq(Str) /\ outer.data \in Str
    BY SoundIsText DEF Prep
  <2>4. ASSUME NEW w \in DOMAIN prepared'
        PROVE  prepared'[w] = Concatenated(Written(words[w]))
    <3>1. /\ Len(prepared) \in Nat /\ w \in 1..Len(prepared) + 1
          /\ prepared'[Len(prepared) + 1] = outer.data
          /\ w \in 1..Len(prepared) =>
               prepared'[w] = prepared[w] /\ w \in DOMAIN prepared
      BY <2>1, <2>3, <2>4
    <3>2. CASE w = Len(prepared) + 1
      BY <1>2, <2>2, <3>1, <3>2 DEF Word
    <3>3. CASE w # Len(prepared) + 1
      <4>1. prepared'[w] = prepared[w] /\ w \in DOMAIN prepared
        BY <3>1, <3>3
      <4>2. \A v \in DOMAIN prepared : prepared[v] = Concatenated(Written(words[v]))
        BY DEF Expanded, ExpandedAsWritten, Written
      <4>3. QED
        BY <4>1, <4>2
    <3>4. QED
      BY <3>2, <3>3
  <2>5. ExpandedAsWritten'
    BY <1>1, <2>4, AllDone
  <2>6. QED
    BY <2>1, <2>5 DEF Expanded
<1>9. CASE LiteralPart
  <2>1. /\ prepared' = prepared /\ expander' = "part" /\ expander = "part"
        /\ part \in DOMAIN word /\ part' = part + 1
        /\ outer' = TextAppend(outer, Text) /\ Text = MeaningOf(word[part])
    BY <1>2, <1>9 DEF LiteralPart, Text, MeaningOf
  <2>2. OuterHolds
    BY <2>1 DEF Expanded
  <2>3. outer'.data = Joins(Written(word))[part' - 1]
    BY <1>6, <2>1, <2>2
  <2>4. QED
    BY <1>5, <2>1, <2>3 DEF Expanded
<1>10. CASE OpenPart
  <2>1. /\ prepared' = prepared /\ expander' = "scan" /\ expander = "part"
        /\ part' = part /\ outer' = outer /\ inner' = EmptyText /\ at' = 1
        /\ word[part].quote # "'" /\ part \in DOMAIN word
    BY <1>2, <1>10 DEF OpenPart
  <2>2. OuterHolds'
    BY <1>2, <1>5, <2>1 DEF Expanded, OuterHolds
  <2>3. PICK text : text = word[part].text
    OBVIOUS
  <2>4. Text' = text /\ text \in Str
    <3>1. text \in Str
      BY <1>2, <1>4, <2>1, <2>3, WordFacts
    <3>2. Text' = Word'[part'].text
      BY DEF Text
    <3>3. QED
      BY <1>5, <2>1, <2>3, <3>1, <3>2
  <2>5. Clean(Text, at)'
    BY <2>1 DEF Clean
  <2>6. InnerHolds'
    <3>1. Joins(Meanings(text))[0] = <<>>
      BY <2>4, MeaningsAreTexts, JoinsFacts
    <3>2. Meanings(text)' = Meanings(text)
      BY <1>1, MeaningsKept
    <3>3. Meanings(Text)' = Meanings(text)
      BY <2>4, <3>2 DEF Meanings
    <3>4. inner'.data = <<>> /\ at' - 1 = 0
      BY <2>1 DEF EmptyText
    <3>5. QED
      BY <3>1, <3>3, <3>4 DEF InnerHolds
  <2>7. Word'[part'].quote # "'"
    BY <1>5, <2>1
  <2>8. QED
    BY <1>5, <2>1, <2>2, <2>5, <2>6, <2>7 DEF Expanded
<1>11. CASE ClosePart
  <2>1. /\ prepared' = prepared /\ expander' = "part" /\ expander = "scan"
        /\ part' = part + 1 /\ Char(at) = "NUL"
        /\ outer' = TextAppend(outer, inner.data)
    BY <1>11 DEF ClosePart
  <2>2. /\ part \in DOMAIN word /\ word[part].quote # "'" /\ OuterHolds
        /\ inner.data = Joins(Meanings(Text))[at - 1] /\ at \in 1..Len(Text) + 1
    BY <1>2, <2>1 DEF Prep, Expanded, InnerHolds
  <2>3. PICK text : text = Text
    OBVIOUS
  <2>4. text \in Str /\ text = word[part].text /\ Len(text) \in Nat
    <3>1. text = word[part].text
      BY <1>2, <2>3 DEF Text
    <3>2. text \in Str
      BY <1>2, <1>4, <2>2, <3>1, WordFacts
    <3>3. QED
      BY <3>1, <3>2 DEF Str
  <2>5. at = Len(text) + 1
    <3>1. \A j \in 1..Len(text) : Char(j) = text[j] /\ text[j] \in Characters
      BY <2>3, <2>4 DEF Char, Str
    <3>2. "NUL" \notin Characters
      BY CommandsAssumption DEF Characters, Digit, Digits
    <3>3. ~(at \in 1..Len(text))
      BY <2>1, <3>1, <3>2
    <3>4. QED
      BY <2>2, <2>3, <2>4, <3>3
  <2>6. inner.data = MeaningOf(word[part])
    <3>1. Meanings(text) \in Seq(Str) /\ Len(Meanings(text)) = Len(text)
      BY <2>4, MeaningsAreTexts
    <3>2. inner.data = Joins(Meanings(text))[Len(text)]
      BY <2>2, <2>3, <2>4, <2>5
    <3>3. inner.data = Concatenated(Meanings(text))
      BY <3>1, <3>2, JoinsFacts
    <3>4. QED
      BY <2>2, <2>4, <3>3 DEF MeaningOf, Meanings
  <2>7. outer'.data = Joins(Written(word))[part' - 1]
    BY <1>6, <2>1, <2>2, <2>6
  <2>8. QED
    BY <1>5, <2>1, <2>7 DEF Expanded
<1>12. CASE ExpandStatus \/ ExpandVariable \/ PushChar
  <2>1. /\ prepared' = prepared /\ expander = "scan" /\ expander' = "scan"
        /\ UNCHANGED <<part, outer>>
    BY <1>12 DEF ExpandStatus, ExpandVariable, PushChar
  <2>2. PICK text : text = Text
    OBVIOUS
  <2>3. inner'.data = Joins(Meanings(text))[at' - 1] /\ Clean(text, at')
    BY <1>12, <2>1, <2>2, ScanStep
  <2>4. Text' = text /\ Word'[part'].quote = Word[part].quote
    BY <1>2, <1>5, <2>1, <2>2 DEF Text
  <2>5. InnerHolds'
    <3>1. Meanings(text)' = Meanings(text)
      BY <1>1, MeaningsKept
    <3>2. Meanings(Text)' = Meanings(text)
      BY <2>4, <3>1 DEF Meanings
    <3>3. QED
      BY <2>3, <3>2 DEF InnerHolds
  <2>6. Clean(Text, at)'
    BY <2>3, <2>4 DEF Clean
  <2>7. OuterHolds'
    BY <1>2, <1>5, <2>1 DEF Expanded, OuterHolds
  <2>8. QED
    BY <1>5, <2>1, <2>4, <2>5, <2>6, <2>7 DEF Expanded
<1>13. QED
  BY <1>7, <1>8, <1>9, <1>10, <1>11, <1>12 DEF ExpandNext

LEMMA ExpandedKept ==
  ASSUME Expanded, UNCHANGED expandVars PROVE Expanded'
<1>1. /\ UNCHANGED given
      /\ expander' = expander /\ part' = part /\ at' = at /\ inner' = inner
      /\ outer' = outer /\ prepared' = prepared
  BY DEF expandVars
<1>2. PICK word, text : word = Word /\ text = Text
  OBVIOUS
<1>3. Word' = word /\ Text' = text
  BY <1>1, <1>2 DEF Word, Text, given
<1>4. Meanings(text)' = Meanings(text) /\ Written(word)' = Written(word)
  BY <1>1, MeaningsKept
<1>5. Meanings(Text)' = Meanings(text) /\ Written(Word)' = Written(word)
  BY <1>3, <1>4 DEF Meanings, Written
<1>6. (OuterHolds => OuterHolds') /\ (InnerHolds => InnerHolds')
  BY <1>1, <1>2, <1>5 DEF OuterHolds, InnerHolds
<1>7. Clean(Text, at) => Clean(Text, at)'
  BY <1>1, <1>2, <1>3 DEF Clean
<1>8. ExpandedAsWritten'
  BY <1>1, DoneKept DEF Expanded
<1>9. Word'[part'].quote = Word[part].quote
  BY <1>1, <1>2, <1>3
<1>10. QED
  BY <1>1, <1>6, <1>7, <1>8, <1>9 DEF Expanded

-----------------------------------------------------------------------------
(* The entries of PATH.                                                      *)

LEMMA ColonFromFacts ==
  ASSUME PathValue \in Str, NEW i \in 1..Len(PathValue) + 1
  PROVE  /\ ColonFrom(i) \in i..Len(PathValue) + 1
         /\ ColonFrom(i) = Len(PathValue) + 1 \/ PathValue[ColonFrom(i)] = ":"
         /\ \A k \in i..ColonFrom(i) - 1 : PathValue[k] # ":"
<1> DEFINE value == PathValue
           Stop(j) == j = Len(value) + 1 \/ value[j] = ":"
           stops == {j \in i..Len(value) + 1 : Stop(j)}
<1>1. Len(value) \in Nat
  BY DEF Str
<1>2. stops \subseteq Nat /\ Len(value) + 1 \in stops
  BY <1>1
<1>3. PICK j \in stops : \A k \in stops : j <= k
  BY <1>2, LeastExists
<1>4. \A k \in i..j-1 : ~ Stop(k)
  <2> HIDE DEF Stop
  <2>1. QED
    BY <1>1, <1>3
<1>5. \E m \in i..Len(value) + 1 :
        /\ m = Len(value) + 1 \/ value[m] = ":"
        /\ \A k \in i..m-1 : value[k] # ":"
  BY <1>3, <1>4
<1> HIDE DEF Stop, stops
<1>6. QED
  BY <1>5 DEF ColonFrom

(* The loop stops where an entry ends.                                       *)
LEMMA ScannedIsEntry ==
  ASSUME PathValue \in Str, NEW i \in 1..Len(PathValue) + 1,
         i - 1 \in Colons \cup {0}
  PROVE  <<i, ColonFrom(i)>> \in Entries
<1> DEFINE j == ColonFrom(i)
<1>1. /\ j \in i..Len(PathValue) + 1
      /\ j = Len(PathValue) + 1 \/ PathValue[j] = ":"
      /\ \A k \in i..j - 1 : PathValue[k] # ":"
  BY ColonFromFacts
<1> HIDE DEF j
<1>2. Len(PathValue) \in Nat /\ DOMAIN PathValue = 1..Len(PathValue)
  BY DEF Str
<1>3. j \in Colons \cup {Len(PathValue) + 1} /\ Colons \cap i..j-1 = {}
  BY <1>1, <1>2 DEF Colons
<1>4. /\ <<i, j>> \in (1..Len(PathValue) + 1) \X (1..Len(PathValue) + 1)
      /\ i <= j
  BY <1>1, <1>2
<1>5. <<i, j>> \in Entries
  BY <1>3, <1>4 DEF Entries
<1>6. QED
  BY <1>5 DEF j

(* The loop skips none: an entry that begins at or after the one that is     *)
(* looked at and before the next is the one that is looked at.               *)
LEMMA NoneSkipped ==
  ASSUME PathValue \in Str, NEW i \in 1..Len(PathValue) + 1,
         NEW d \in Entries, i <= d[1], d[1] <= ColonFrom(i)
  PROVE  d = <<i, ColonFrom(i)>>
<1> DEFINE j == ColonFrom(i)
<1>1. /\ j \in i..Len(PathValue) + 1
      /\ j = Len(PathValue) + 1 \/ PathValue[j] = ":"
      /\ \A k \in i..j - 1 : PathValue[k] # ":"
  BY ColonFromFacts
<1>2. i <= d[1] /\ d[1] <= j
  OBVIOUS
<1> HIDE DEF j
<1>3. Len(PathValue) \in Nat /\ DOMAIN PathValue = 1..Len(PathValue)
  BY DEF Str
<1>4. /\ d = <<d[1], d[2]>>
      /\ d[1] \in 1..Len(PathValue) + 1 /\ d[2] \in 1..Len(PathValue) + 1
      /\ d[1] <= d[2] /\ d[1] - 1 \in Colons \cup {0}
      /\ d[2] \in Colons \cup {Len(PathValue) + 1}
      /\ Colons \cap d[1]..d[2]-1 = {}
  BY DEF Entries
<1>5. \A k : k \in Colons <=> k \in 1..Len(PathValue) /\ PathValue[k] = ":"
  BY <1>3 DEF Colons
<1>6. d[1] = i
  BY <1>1, <1>2, <1>3, <1>4, <1>5
<1>7. d[2] = j
  <2>1. ~ (d[2] < j)
    BY <1>1, <1>3, <1>4, <1>5, <1>6
  <2>2. ~ (j < d[2])
    <3> SUFFICES ASSUME j < d[2] PROVE FALSE
      OBVIOUS
    <3>1. j \in Colons
      BY <1>1, <1>3, <1>4, <1>5
    <3>2. j \in d[1]..d[2]-1
      BY <1>1, <1>3, <1>4, <1>6
    <3>3. QED
      BY <1>4, <3>1, <3>2
  <2>3. QED
    BY <1>1, <1>3, <1>4, <2>1, <2>2
<1>8. d = <<i, j>>
  BY <1>4, <1>6, <1>7
<1>9. QED
  BY <1>8 DEF j

(* The part of a sequence before its last element, and that element.         *)
LEMMA LastApart ==
  ASSUME NEW S, NEW s \in Seq(S), NEW i \in 1..Len(s), NEW k \in i..Len(s)
  PROVE  SubSeq(s, i, k) = SubSeq(s, i, k - 1) \o <<s[k]>>
<1>1. SubSeq(s, i, k) \in Seq(S) /\ SubSeq(s, i, k - 1) \in Seq(S)
  OBVIOUS
<1>2. /\ Len(SubSeq(s, i, k)) = k - i + 1
      /\ Len(SubSeq(s, i, k - 1)) = k - i
  OBVIOUS
<1>3. s[k] \in S
  OBVIOUS
<1> DEFINE t == SubSeq(s, i, k - 1) \o <<s[k]>>
<1>4. t \in Seq(S) /\ Len(t) = k - i + 1
  BY <1>1, <1>2, <1>3
<1>5. \A m \in 1..k - i + 1 : SubSeq(s, i, k)[m] = t[m]
  BY <1>1, <1>2, <1>3
<1> HIDE DEF t
<1>6. SubSeq(s, i, k) = t
  BY <1>1, <1>2, <1>4, <1>5
<1>7. QED
  BY <1>6 DEF t

(* What the code puts together is the path without a doubled slash.          *)
LEMMA CandidateIsSpelled ==
  ASSUME PathValue \in Str, Name \in Str, NEW d \in Entries
  PROVE  Candidate(d[1], d[2]) = Spelled(d)
<1>1. Len(PathValue) \in Nat
  BY DEF Str
<1>2. /\ d[1] \in 1..Len(PathValue) + 1 /\ d[2] \in 1..Len(PathValue) + 1
      /\ d[1] <= d[2]
  BY DEF Entries
<1>3. CASE d[1] = d[2]
  BY <1>3 DEF Candidate, Spelled
<1>4. CASE d[1] # d[2]
  <2> DEFINE value == PathValue
             name == Name
             i == d[1]
             k == d[2] - 1
             dir == SubSeq(value, i, k)
  <2>1. i \in 1..Len(value) /\ k \in i..Len(value)
    BY <1>1, <1>2, <1>4
  <2>2. /\ Candidate(d[1], d[2]) = Join(dir, name)
        /\ Spelled(d) = SubSeq(value, i, IF value[k] = "/" THEN d[2] - 2
                                         ELSE k) \o <<"/">> \o name
    BY <1>4 DEF Candidate, Spelled
  <2>3. d[2] - 2 = k - 1
    BY <1>2
  <2> HIDE DEF k, i
  <2>4. Len(dir) = k - i + 1 /\ dir[Len(dir)] = value[k]
    BY <1>1, <2>1 DEF Str
  <2>5. dir = SubSeq(value, i, k - 1) \o <<value[k]>>
    BY <2>1, LastApart DEF Str
  <2>6. CASE value[k] = "/"
    <3>1. Join(dir, name) = dir \o name
      BY <2>4, <2>6 DEF Join
    <3>2. Spelled(d) = SubSeq(value, i, k - 1) \o <<"/">> \o name
      BY <2>2, <2>3, <2>6
    <3>3. QED
      BY <2>2, <2>5, <2>6, <3>1, <3>2
  <2>7. CASE value[k] # "/"
    <3>1. Join(dir, name) = dir \o <<"/">> \o name
      BY <2>4, <2>7 DEF Join
    <3>2. Spelled(d) = SubSeq(value, i, k) \o <<"/">> \o name
      BY <2>2, <2>7
    <3>3. QED
      BY <2>2, <3>1, <3>2
  <2>8. QED
    BY <2>6, <2>7
<1>5. QED
  BY <1>3, <1>4

LEMMA CandidateIsSomething ==
  ASSUME PathValue \in Str, Name \in Str, Name # <<>>, NEW d \in Entries
  PROVE  Spelled(d) # <<>>
<1> DEFINE value == PathValue
           name == Name
<1>1. name \in Str /\ name # <<>> /\ value \in Str
  OBVIOUS
<1>2. CASE d[1] = d[2]
  BY <1>1, <1>2 DEF Spelled
<1>3. CASE d[1] # d[2]
  <2> DEFINE to == IF value[d[2] - 1] = "/" THEN d[2] - 2 ELSE d[2] - 1
             slash == <<"/">>
  <2>1. Spelled(d) = SubSeq(value, d[1], to) \o slash \o name
    BY <1>3 DEF Spelled
  <2>2. Len(value) \in Nat
    BY <1>1 DEF Str
  <2>3. /\ d[1] \in 1..Len(value) + 1 /\ d[2] \in 1..Len(value) + 1
        /\ d[1] <= d[2]
    BY DEF Entries
  <2>4. to \in d[1] - 1..Len(value)
    BY <1>3, <2>2, <2>3
  <2> HIDE DEF to
  <2>5. SubSeq(value, d[1], to) \in Str
    BY <1>1, <2>3, <2>4 DEF Str
  <2>6. slash \in Str
    BY DEF Str, Characters
  <2> HIDE DEF value, name, slash
  <2>7. Len(SubSeq(value, d[1], to) \o slash \o name) >= Len(name)
    BY <1>1, <2>5, <2>6 DEF Str
  <2>8. Len(name) > 0
    BY <1>1 DEF Str
  <2>9. SubSeq(value, d[1], to) \o slash \o name # <<>>
    BY <2>7, <2>8
  <2>10. QED
    BY <2>1, <2>9
<1>4. QED
  BY <1>2, <1>3

-----------------------------------------------------------------------------
(* The lookup.                                                               *)

(* The entries that begin before i did not have the program all the time.    *)
Passed(i) == \A d \in Entries : d[1] < i => Spelled(d) \notin always

(* The child's own copies of the words, the environment and PATH are fixed:  *)
(* the preparation is over when it is forked.                                *)
Forked == child # "none" => expander = "word" /\ Len(prepared) = Len(words)

Kinds ==
  /\ files \in [Files -> Contents] /\ always \subseteq Files
  /\ changes \in 0..MaxChanges
  /\ child \in {"none", "started", "search", "resolved"} \cup Ends
  /\ exitStatus \in {0, 1, 126, 127}

(* No path is decided on before the search is over, and what has been there  *)
(* all the time is still there.                                              *)
Undecided ==
  /\ child \in {"none", "started", "search"} => path = <<>>
  /\ child \in {"none", "started"} => always = {}
  /\ child \in {"search", "resolved"} => \A p \in always : files[p] \in Existing

(* The search stands at the beginning of an entry, and there is nothing in   *)
(* those before it.                                                          *)
Searching ==
  child = "search" =>
    /\ ~HasSlash /\ Name # <<>> /\ PathValue # <<>>
    /\ entry \in 1..Len(PathValue) + 1 /\ entry - 1 \in Colons \cup {0}
    /\ Passed(entry)

(* What was found is what an entry spells, and none before it has it.        *)
Taken == \E e \in Entries : Spelled(e) = path /\ Passed(e[1])
Found == child = "resolved" /\ ~HasSlash => path # <<>> /\ Taken

Lookup == Forked /\ Kinds /\ Undecided /\ Searching /\ Found
            /\ FirstInPathIsTaken

CommandInv == Prep /\ Expanded /\ Lookup /\ VectorSound(envp)

LEMMA InitInv == Init => CommandInv
<1> SUFFICES ASSUME Init PROVE CommandInv
  OBVIOUS
<1>1. PICK c \in Commands : words = c.words /\ env = c.env /\ lastStatus = c.status
  BY DEF Init, ExpandInit
<1>2. /\ c.words \in Seq(Seq(Parts)) /\ c.words # <<>>
      /\ c.env \in [DOMAIN c.env -> Seq(Characters)] /\ c.status \in 0..255
  BY CommandsAssumption
<1>3. /\ words \in Seq(Seq(Parts)) /\ words # <<>>
      /\ env \in [DOMAIN env -> Str] /\ lastStatus \in 0..255
  BY <1>1, <1>2 DEF Str
<1>4. /\ expander = "word" /\ prepared = <<>>
      /\ inner \in SoundTexts /\ outer \in SoundTexts
  BY EmptyIsSound DEF Init, ExpandInit
<1>5. <<>> \in Str /\ <<>> \in Seq(Str) /\ Len(words) \in Nat
  BY <1>3 DEF Str
<1>6. Prep
  BY <1>3, <1>4, <1>5 DEF Prep
<1>7. Lookup
  <2>1. /\ files = [p \in Files |-> "nothing"] /\ changes = 0
        /\ child = "none" /\ path = <<>> /\ exitStatus = 0 /\ always = {}
    BY DEF Init
  <2>2. Kinds
    BY <2>1, CommandAssumption DEF Kinds, Contents
  <2>3. QED
    BY <2>1, <2>2 DEF Lookup, Forked, Undecided, Searching, Found,
       FirstInPathIsTaken
<1>8. VectorSound(envp)
  BY EmptyVectorIsSound DEF Init
<1>9. Expanded
  BY <1>4 DEF Expanded, ExpandedAsWritten
<1>10. QED
  BY <1>6, <1>7, <1>8, <1>9 DEF CommandInv

(* The name and PATH of a child that has been forked.                        *)
LEMMA LookedUp ==
  ASSUME Prep, Forked, child # "none"
  PROVE  Name \in Str /\ PathValue \in Str
<1>1. prepared \in Seq(Str) /\ Len(prepared) = Len(words) /\ words # <<>>
      /\ words \in Seq(Seq(Parts))
  BY DEF Prep, Forked
<1>2. Len(words) >= 1
  BY <1>1
<1>3. prepared[1] \in Str
  BY <1>1, <1>2
<1>4. QED
  BY <1>3, ValueIsText DEF Name, PathValue

LEMMA PrepKept == Prep /\ UNCHANGED expandVars => Prep'
  BY DEF Prep, expandVars, given, Word, Text

(* While the words and the environment stay, so does what PATH means, and    *)
(* removing files makes no entry a better one.                               *)
LEMMA Fixed ==
  ASSUME UNCHANGED expandVars
  PROVE  /\ Name' = Name /\ PathValue' = PathValue /\ (HasSlash' <=> HasSlash)
         /\ Colons' = Colons /\ Entries' = Entries
         /\ \A e : Spelled(e)' = Spelled(e)
         /\ always' \subseteq always => \A i : Passed(i) => Passed(i)'
<1>1. env' = env /\ prepared' = prepared
  BY DEF expandVars, given
<1>2. Name' = Name /\ PathValue' = PathValue
  BY <1>1 DEF Name, PathValue, Value
<1>3. Colons' = Colons
  BY <1>2 DEF Colons
<1>4. Entries' = Entries
  BY <1>2, <1>3 DEF Entries
<1>5. ASSUME NEW e PROVE Spelled(e)' = Spelled(e)
  BY <1>2 DEF Spelled
<1>6. HasSlash' <=> HasSlash
  BY <1>2 DEF HasSlash
<1>7. ASSUME always' \subseteq always, NEW i, Passed(i) PROVE Passed(i)'
  BY <1>4, <1>5, <1>7 DEF Passed
<1>8. QED
  BY <1>2, <1>3, <1>4, <1>5, <1>6, <1>7

LEMMA ForkedStep ==
  ASSUME Forked, [Next]_vars, ~Prepare PROVE Forked' /\ UNCHANGED expandVars
<1>1. CASE Fork
  BY <1>1 DEF Fork, Forked, expandVars, given
<1>2. CASE UNCHANGED vars
  BY <1>2 DEF vars, commandVars, Forked, expandVars, given
<1>3. CASE /\ UNCHANGED expandVars /\ child # "none"
  BY <1>3 DEF Forked, expandVars, given
<1>4. QED
  BY <1>1, <1>2, <1>3 DEF Next, RunBuiltin, PushEnvp, NameIsPath, NoSearch,
     EnvpDone, StartSearch, FoundInEntry, NextEntry, NotFound, Execve,
     ExecveFails, FilesChange, Ended

(* The preparation is over when there is a child.                            *)
LEMMA PrepareStep ==
  ASSUME CommandInv, Prepare PROVE Lookup'
<1>1. UNCHANGED <<commandVars, files, changes, always>>
  BY DEF Prepare
<1>2. child = "none"
  <2>1. ~ (expander = "word" /\ Len(prepared) = Len(words))
    BY DEF Prepare, ExpandNext, StartWord, LiteralPart, OpenPart, EndWord,
       ExpandStatus, ExpandVariable, PushChar, ClosePart, CommandInv, Prep
  <2>2. QED
    BY <2>1 DEF CommandInv, Lookup, Forked
<1>3. QED
  BY <1>1, <1>2 DEF CommandInv, Lookup, Forked, Kinds, Undecided, Searching,
     Found, FirstInPathIsTaken, commandVars, Ends

LEMMA KindsStep ==
  ASSUME Kinds, [Next]_vars PROVE Kinds'
<1> USE DEF Kinds
<1>1. CASE UNCHANGED <<files, changes, always, child, exitStatus>>
  BY <1>1
<1>2. CASE StartSearch
  BY <1>2 DEF StartSearch
<1>3. CASE NameIsPath
  BY <1>3 DEF NameIsPath
<1>4. CASE FilesChange
  <2>1. PICK p \in Files :
          \E c \in Contents \ {files[p]} : files' = [files EXCEPT ![p] = c]
    <3> HIDE DEF Kinds
    <3>1. QED
      BY <1>4 DEF FilesChange
  <2>2. files' \in [Files -> Contents]
    BY <2>1
  <2>3. always' \subseteq Files /\ changes' \in 0..MaxChanges
    BY <1>4, CommandAssumption DEF FilesChange
  <2>4. QED
    BY <1>4, <2>2, <2>3 DEF FilesChange, commandVars
<1>5. CASE ExecveFails
  <2>1. \A c : ErrorStatus(c) \in {1, 126, 127}
    BY DEF ErrorStatus
  <2>2. QED
    BY <1>5, <2>1 DEF ExecveFails, Ends
<1>6. QED
  BY <1>1, <1>2, <1>3, <1>4, <1>5 DEF Next, Prepare, commandVars, vars, Fork,
     RunBuiltin, PushEnvp, NoSearch, FoundInEntry, NextEntry, NotFound,
     Execve, Ended, Ends

LEMMA SearchStep ==
  ASSUME CommandInv, [Next]_vars, UNCHANGED expandVars
  PROVE  Undecided' /\ Searching' /\ Found' /\ FirstInPathIsTaken'
<1>1. /\ Name' = Name /\ PathValue' = PathValue /\ (HasSlash' <=> HasSlash)
      /\ Colons' = Colons /\ Entries' = Entries
      /\ \A e : Spelled(e)' = Spelled(e)
      /\ always' \subseteq always => \A i : Passed(i) => Passed(i)'
  BY Fixed
<1>2. child # "none" => Name \in Str /\ PathValue \in Str
  BY LookedUp DEF CommandInv, Lookup
<1>3. /\ Undecided /\ Searching /\ Found /\ FirstInPathIsTaken
      /\ always \subseteq Files
  BY DEF CommandInv, Lookup, Kinds
<1>4. ASSUME child = "search"
      PROVE  /\ ~HasSlash /\ Name # <<>> /\ PathValue # <<>>
             /\ Name \in Str /\ PathValue \in Str /\ Len(PathValue) \in Nat
             /\ entry \in 1..Len(PathValue) + 1 /\ entry - 1 \in Colons \cup {0}
             /\ Passed(entry) /\ path = <<>>
             /\ \A p \in always : Exists(p)
             /\ <<entry, ColonFrom(entry)>> \in Entries
             /\ ColonFrom(entry) \in entry..Len(PathValue) + 1
             /\ Candidate(entry, ColonFrom(entry))
                  = Spelled(<<entry, ColonFrom(entry)>>)
  <2>1. /\ ~HasSlash /\ Name # <<>> /\ PathValue # <<>>
        /\ entry \in 1..Len(PathValue) + 1 /\ entry - 1 \in Colons \cup {0}
        /\ Passed(entry)
    BY <1>3, <1>4 DEF Searching
  <2>2. path = <<>> /\ \A p \in always : Exists(p)
    BY <1>3, <1>4 DEF Undecided, Exists
  <2>3. Name \in Str /\ PathValue \in Str
    BY <1>2, <1>4
  <2>4. /\ <<entry, ColonFrom(entry)>> \in Entries
        /\ ColonFrom(entry) \in entry..Len(PathValue) + 1
    BY <2>1, <2>3, ScannedIsEntry, ColonFromFacts
  <2>5. Candidate(entry, ColonFrom(entry)) = Spelled(<<entry, ColonFrom(entry)>>)
    <3> DEFINE d == <<entry, ColonFrom(entry)>>
    <3>1. d \in Entries /\ d[1] = entry /\ d[2] = ColonFrom(entry)
      BY <2>4
    <3> HIDE DEF d
    <3>2. Candidate(d[1], d[2]) = Spelled(d)
      BY <2>3, <3>1, CandidateIsSpelled
    <3>3. Candidate(entry, ColonFrom(entry)) = Spelled(d)
      BY <3>1, <3>2
    <3>4. QED
      BY <3>3 DEF d
  <2>6. Len(PathValue) \in Nat
    BY <2>3 DEF Str
  <2>7. QED
    BY <2>1, <2>2, <2>3, <2>4, <2>5, <2>6
(* An entry that has been looked at in vain did not have it all the time.    *)
<1>5. ASSUME child = "search", ~Exists(Candidate(entry, ColonFrom(entry)))
      PROVE  \A d \in Entries : d[1] <= ColonFrom(entry) => Spelled(d) \notin always
  <2> SUFFICES ASSUME NEW d \in Entries, d[1] <= ColonFrom(entry)
               PROVE  Spelled(d) \notin always
    OBVIOUS
  <2>1. d[1] \in Nat /\ entry \in Nat
    BY <1>4, <1>5 DEF Entries
  <2>2. CASE d[1] < entry
    BY <1>4, <1>5, <2>2 DEF Passed
  <2>3. CASE entry <= d[1]
    <3>1. PathValue \in Str /\ entry \in 1..Len(PathValue) + 1
      BY <1>4, <1>5
    <3>2. d = <<entry, ColonFrom(entry)>>
      BY <2>3, <3>1, NoneSkipped
    <3>3. Spelled(d) = Candidate(entry, ColonFrom(entry))
      BY <1>4, <1>5, <3>2
    <3>4. ~Exists(Spelled(d))
      BY <1>5, <3>3
    <3>5. QED
      BY <1>4, <1>5, <3>4
  <2>4. QED
    BY <2>1, <2>2, <2>3
<1>6. CASE NextEntry
  <2>1. /\ child = "search" /\ child' = "search" /\ path' = path
        /\ files' = files /\ always' = always /\ entry' = ColonFrom(entry) + 1
        /\ ColonFrom(entry) <= Len(PathValue)
        /\ ~Exists(Candidate(entry, ColonFrom(entry)))
    BY <1>6 DEF NextEntry
  <2>2. entry' \in 1..Len(PathValue) + 1 /\ entry' - 1 \in Colons \cup {0}
    <3>1. /\ ColonFrom(entry) \in entry..Len(PathValue) + 1
          /\ entry \in 1..Len(PathValue) + 1 /\ Len(PathValue) \in Nat
          /\ PathValue \in Str
      BY <1>4, <2>1
    <3>2. \/ ColonFrom(entry) = Len(PathValue) + 1
          \/ PathValue[ColonFrom(entry)] = ":"
      BY <3>1, ColonFromFacts
    <3>3. ColonFrom(entry) \in Colons
      BY <2>1, <3>1, <3>2 DEF Colons, Str
    <3>4. QED
      BY <2>1, <3>1, <3>3
  <2>3. \A d \in Entries : d[1] < entry' => Spelled(d) \notin always
    <3>1. \A d \in Entries : d[1] \in Nat
      BY DEF Entries
    <3>2. ColonFrom(entry) \in Nat
      BY <1>4, <2>1
    <3>3. QED
      BY <1>5, <2>1, <3>1, <3>2
  <2>4. Passed(entry)'
    BY <1>1, <2>1, <2>3 DEF Passed
  <2>5. Searching'
    BY <1>1, <1>4, <2>1, <2>2, <2>4 DEF Searching
  <2>6. QED
    BY <1>3, <2>1, <2>5 DEF Undecided, Found, FirstInPathIsTaken
<1>7. CASE FoundInEntry
  <2>1. /\ child = "search" /\ child' = "resolved"
        /\ files' = files /\ always' = always
        /\ path' = Candidate(entry, ColonFrom(entry))
    BY <1>7 DEF FoundInEntry
  <2>2. PICK d \in Entries : d[1] = entry /\ path' = Spelled(d)
    BY <1>4, <2>1
  <2>3. Passed(d[1])
    BY <1>4, <2>1, <2>2
  <2>4. Spelled(d) # <<>>
    BY <1>4, <2>1, <2>2, CandidateIsSomething
  <2>5. d \in Entries' /\ Spelled(d)' = path' /\ Passed(d[1])'
    BY <1>1, <2>1, <2>2, <2>3
  <2>6. Taken'
    BY <2>5 DEF Taken
  <2>7. Found'
    BY <2>2, <2>4, <2>6 DEF Found
  <2>8. Undecided'
    BY <1>4, <2>1 DEF Undecided, Exists
  <2>9. QED
    BY <2>1, <2>7, <2>8 DEF Searching, FirstInPathIsTaken
<1>8. CASE NotFound
  <2>1. /\ child = "search" /\ child' = "exited" /\ exitStatus' = 127
        /\ path' = path /\ always' = always
        /\ ColonFrom(entry) = Len(PathValue) + 1
        /\ ~Exists(Candidate(entry, ColonFrom(entry)))
    BY <1>8 DEF NotFound
  <2>2. path' = <<>>
    BY <1>4, <2>1
  <2>3. \A d \in Entries : d[1] <= ColonFrom(entry)
    BY <2>1 DEF Entries
  <2>4. \A d \in Entries : Spelled(d) \notin always
    BY <1>5, <2>1, <2>3
  <2>5. \A d \in Entries' : Spelled(d)' \notin always'
    BY <1>1, <2>1, <2>4
  <2>6. QED
    BY <2>1, <2>2, <2>5 DEF Undecided, Searching, Found, FirstInPathIsTaken
<1>9. CASE StartSearch
  <2>1. /\ child = "started" /\ child' = "search" /\ path' = path /\ entry' = 1
        /\ ~HasSlash /\ Name # <<>> /\ PathValue # <<>>
        /\ always' = {p \in Files : files'[p] \in Existing}
    BY <1>9 DEF StartSearch, EnvpDone
  <2>2. Len(PathValue) \in Nat
    BY <1>2, <2>1 DEF Str
  <2>3. \A d \in Entries' : ~ (d[1] < 1)
    BY DEF Entries
  <2>4. Passed(entry)'
    BY <2>1, <2>3 DEF Passed
  <2>5. entry' \in 1..Len(PathValue) + 1 /\ entry' - 1 \in Colons \cup {0}
    BY <2>1, <2>2
  <2>6. Searching'
    BY <1>1, <2>1, <2>4, <2>5 DEF Searching
  <2>7. QED
    BY <1>3, <2>1, <2>6 DEF Undecided, Found, FirstInPathIsTaken
<1>10. CASE NameIsPath
  <2>1. /\ child = "started" /\ child' = "resolved" /\ HasSlash
        /\ always' = always
    BY <1>10 DEF NameIsPath, EnvpDone
  <2>2. always' = {}
    BY <1>3, <2>1 DEF Undecided
  <2>3. QED
    BY <1>1, <2>1, <2>2 DEF Undecided, Searching, Found, FirstInPathIsTaken
<1>11. CASE NoSearch
  <2>1. /\ child = "started" /\ child' = "exited" /\ exitStatus' = 127
        /\ path' = path /\ (Name = <<>> \/ PathValue = <<>>)
    BY <1>11 DEF NoSearch, EnvpDone
  <2>2. path' = <<>>
    BY <1>3, <2>1 DEF Undecided
  <2>3. QED
    BY <1>1, <2>1, <2>2 DEF Undecided, Searching, Found, FirstInPathIsTaken
<1>12. ASSUME child = "resolved", ~HasSlash
       PROVE  path # <<>> /\ Taken
  BY <1>3, <1>12 DEF Found
<1>13. ASSUME Taken, path' = path, always' \subseteq always
       PROVE  /\ Taken'
              /\ \E e \in Entries' :
                   /\ Spelled(e)' = path'
                   /\ \A d \in Entries' : d[1] < e[1] => Spelled(d)' \notin always'
  <2>1. PICK e \in Entries : Spelled(e) = path /\ Passed(e[1])
    BY <1>13 DEF Taken
  <2>2. e \in Entries' /\ Spelled(e)' = path' /\ Passed(e[1])'
    BY <1>1, <1>13, <2>1
  <2>3. Taken'
    BY <2>2 DEF Taken
  <2>4. \A d \in Entries' : d[1] < e[1] => Spelled(d)' \notin always'
    BY <2>2 DEF Passed
  <2>5. QED
    BY <2>2, <2>3, <2>4
<1>14. CASE Execve \/ ExecveFails
  <2>1. /\ child = "resolved" /\ path' = path /\ always' = always
        /\ child' \in {"program", "exited"} /\ files' = files
    BY <1>14 DEF Execve, ExecveFails
  <2>2. path \in always => child' = "program" \/ exitStatus' = 126
    <3> SUFFICES ASSUME path \in always, ExecveFails PROVE exitStatus' = 126
      BY <1>14 DEF Execve
    <3>1. path \in Files /\ files[path] \in Existing
      BY <1>3, <2>1 DEF Undecided
    <3>2. files[path] = "unrunnable"
      BY <3>1 DEF ExecveFails, Existing
    <3>3. QED
      BY <3>1, <3>2 DEF ExecveFails, ErrorStatus
  <2>3. FirstInPathIsTaken'
    <3> SUFFICES ASSUME ~HasSlash' PROVE FirstInPathIsTaken'
      BY DEF FirstInPathIsTaken
    <3>1. path # <<>> /\ Taken
      BY <1>1, <1>12, <2>1
    <3>2. \E e \in Entries' :
             /\ Spelled(e)' = path'
             /\ \A d \in Entries' : d[1] < e[1] => Spelled(d)' \notin always'
      BY <1>13, <2>1, <3>1
    <3>3. path' # <<>> /\ (path' \in always' => child' = "program"
                                                  \/ exitStatus' = 126)
      BY <2>1, <2>2, <3>1
    <3>4. QED
      BY <3>2, <3>3 DEF FirstInPathIsTaken
  <2>4. QED
    BY <2>1, <2>3 DEF Undecided, Searching, Found
<1>15. CASE FilesChange
  <2>1. /\ child \in {"search", "resolved"} /\ child' = child /\ path' = path
        /\ entry' = entry /\ always' = {p \in always : files'[p] \in Existing}
    BY <1>15 DEF FilesChange, commandVars
  <2>2. always' \subseteq always
    BY <2>1
  <2>3. Searching'
    <3> SUFFICES ASSUME child = "search" PROVE Searching'
      BY <2>1 DEF Searching
    <3>1. Passed(entry)'
      BY <1>1, <1>4, <2>1, <2>2
    <3>2. QED
      BY <1>1, <1>4, <2>1, <3>1 DEF Searching
  <2>4. Found'
    <3> SUFFICES ASSUME child = "resolved", ~HasSlash PROVE Found'
      BY <1>1, <2>1 DEF Found
    <3>1. path # <<>> /\ Taken
      BY <1>12
    <3>2. Taken'
      BY <1>13, <2>1, <2>2, <3>1
    <3>3. QED
      BY <2>1, <3>1, <3>2 DEF Found
  <2>5. QED
    BY <1>3, <2>1, <2>3, <2>4 DEF Undecided, FirstInPathIsTaken
<1>16. CASE UNCHANGED <<child, path, files, always, entry, exitStatus>>
  <2>1. \A i : Passed(i) => Passed(i)'
    BY <1>1, <1>16
  <2>2. Searching'
    BY <1>1, <1>3, <1>16, <2>1 DEF Searching
  <2>3. Found'
    BY <1>1, <1>3, <1>13, <1>16 DEF Found
  <2>4. FirstInPathIsTaken'
    BY <1>1, <1>3, <1>16 DEF FirstInPathIsTaken
  <2>5. QED
    BY <1>3, <1>16, <2>2, <2>3, <2>4 DEF Undecided
<1>17. CASE Fork \/ RunBuiltin
  BY <1>3, <1>17 DEF Fork, RunBuiltin, Undecided, Searching, Found,
     FirstInPathIsTaken
<1>18. QED
  BY <1>6, <1>7, <1>8, <1>9, <1>10, <1>11, <1>14, <1>15, <1>16, <1>17
     DEF Next, Prepare, PushEnvp, Ended, vars, commandVars

LEMMA EnvpStep ==
  ASSUME VectorSound(envp), [Next]_vars PROVE VectorSound(envp')
<1>1. CASE envp' = envp
  BY <1>1
<1>2. CASE PushEnvp
  <2>1. PICK n : envp' = VectorPush(envp, n)
    BY <1>2 DEF PushEnvp
  <2>2. QED
    BY <2>1, PushKeepsSound
<1>3. QED
  BY <1>1, <1>2 DEF Next, Prepare, commandVars, vars, Fork, RunBuiltin,
     NameIsPath, NoSearch, StartSearch, FoundInEntry, NextEntry, NotFound,
     Execve, ExecveFails, FilesChange, Ended

LEMMA StepInv == CommandInv /\ [Next]_vars => CommandInv'
<1> SUFFICES ASSUME CommandInv, [Next]_vars PROVE CommandInv'
  OBVIOUS
<1>1. VectorSound(envp)'
  BY EnvpStep DEF CommandInv, VectorSound, VectorHolds
<1>2. CASE Prepare
  <2>1. Prep' /\ Expanded'
    BY <1>2, PrepStep, ExpandedStep DEF CommandInv, Prepare
  <2>2. QED
    BY <1>1, <1>2, <2>1, PrepareStep DEF CommandInv
<1>3. CASE ~Prepare
  <2>1. Forked' /\ UNCHANGED expandVars
    BY <1>3, ForkedStep DEF CommandInv, Lookup
  <2>2. Prep' /\ Expanded'
    BY <2>1, PrepKept, ExpandedKept DEF CommandInv
  <2>3. Kinds'
    BY KindsStep DEF CommandInv, Lookup
  <2>4. Undecided' /\ Searching' /\ Found' /\ FirstInPathIsTaken'
    BY <2>1, SearchStep
  <2>5. QED
    BY <1>1, <2>1, <2>2, <2>3, <2>4 DEF CommandInv, Lookup
<1>4. QED
  BY <1>2, <1>3

THEOREM Invariance == Spec => []CommandInv
<1>1. QED
  BY InitInv, StepInv, PTL DEF Spec

(* Every variable has its type in every reachable state: in particular the   *)
(* scan of sh_expand_text reads a part up to and with its terminator, and    *)
(* the search of PATH begins every turn within the value or at its end.      *)
THEOREM TypeCorrect == Spec => []TypeOK
<1>1. CommandInv => TypeOK
  <2> SUFFICES ASSUME CommandInv PROVE TypeOK
    OBVIOUS
  <2>1. Kinds /\ Prep /\ Searching
    BY DEF CommandInv, Lookup
  <2>2. Len(prepared) \in 0..Len(words)
    <3>1. Len(prepared) \in Nat /\ Len(words) \in Nat /\ Len(prepared) <= Len(words)
      BY <2>1 DEF Prep
    <3>2. QED
      BY <3>1
  <2>3. ExpandTypeOK
    BY <2>1, <2>2 DEF ExpandTypeOK, Prep
  <2>4. QED
    BY <2>1, <2>3 DEF TypeOK, Kinds, Searching
<1>2. QED
  BY <1>1, Invariance, PTL

(* Whoever changes files while sh_executor_resolve_command_path goes through *)
(* PATH and before execve: what is run is spelled by an entry that no entry  *)
(* before it beats, "not found" is only said of what no entry had all the    *)
(* time, and what has been there all the time is run or refused with 126.    *)
THEOREM FirstIsTaken == Spec => []FirstInPathIsTaken
<1>1. CommandInv => FirstInPathIsTaken
  BY DEF CommandInv, Lookup
<1>2. QED
  BY <1>1, Invariance, PTL

(* Whatever is appended to a t_strbuf and pushed onto a t_strvec, in         *)
(* whatever portions: the loops of their reserve functions leave room for    *)
(* what is held and the terminator.                                          *)
THEOREM TerminatorsFit == Spec => []TerminatorFits
<1>1. CommandInv => TerminatorFits
  BY DEF CommandInv, Prep, SoundTexts, VectorSound, TerminatorFits
<1>2. QED
  BY <1>1, Invariance, PTL

(* Whatever the words, the environment and the status are: what              *)
(* sh_prepare_word_text makes of a word is what its characters stand for,    *)
(* each read once, and in their order.                                       *)
THEOREM WordsExpanded == Spec => []ExpandedAsWritten
<1>1. CommandInv => ExpandedAsWritten
  BY DEF CommandInv, Expanded
<1>2. QED
  BY <1>1, Invariance, PTL
=============================================================================
