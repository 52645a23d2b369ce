----------------------------- MODULE EnvProofs -----------------------------
(* What holds of EnvStore for every set of names and values, every           *)
(* environment the shell is started with and any number of nodes that is     *)
(* enough: the heap always holds one list, its head and tail are that        *)
(* list's, what execve() gets is what $NAME expands to, and the builtins     *)
(* implement the environment that EnvAbs promises their callers.             *)
EXTENDS EnvStore, Induction, FiniteSetTheorems, SequenceTheorems

-----------------------------------------------------------------------------
(* The list in the heap.                                                     *)

Links  == Ids \cup {Null}
Stores == [head : Links, tail : Links, size : Nat,
           node : [Ids -> NodeType \cup {Freed}]]

(* The node a list c goes on with at its place j.                            *)
Link(c, j) == IF j > Len(c) THEN Null ELSE c[j]

(* The list that s holds is c: head leads to it, each node leads to the      *)
(* next, tail is the last, no node comes twice, and all others are freed.    *)
Chain(s, c) ==
  /\ s \in Stores
  /\ c \in Seq(Ids) /\ Len(c) <= MaxNodes
  /\ \A i, j \in 1..Len(c) : c[i] = c[j] => i = j
  /\ s.head = Link(c, 1)
  /\ \A j \in 1..Len(c) : /\ s.node[c[j]] \in NodeType
                          /\ s.node[c[j]].next = Link(c, j + 1)
  /\ \A n \in Ids : (\A j \in 1..Len(c) : c[j] # n) => s.node[n] = Freed
  /\ s.tail = IF c = <<>> THEN Null ELSE c[Len(c)]
  /\ s.size = Len(c)

LEMMA Sizes == MaxNodes \in Nat /\ Null \notin Ids
BY MemoryAssumption DEF Null, Ids

LEMMA ChainTypes ==
  ASSUME NEW s, NEW c, Chain(s, c)
  PROVE  /\ Len(c) \in Nat /\ \A j \in 1..Len(c) : c[j] \in Ids
         /\ \A n \in Ids : s.node[n] \in NodeType \cup {Freed}
         /\ \A n \in Ids : s.node[n].next \in Links
         /\ \A j \in Nat \ {0} : Link(c, j) \in Links
<1>1. /\ Len(c) \in Nat /\ \A j \in 1..Len(c) : c[j] \in Ids
      /\ \A n \in Ids : s.node[n] \in NodeType \cup {Freed}
  BY DEF Chain, Stores
<1>2. \A e \in NodeType \cup {Freed} : e.next \in Links
  BY DEF NodeType, Freed, Links
<1>3. QED
  BY <1>1, <1>2 DEF Link, Links

(* What the last place has, and a place if the next has it, the first has.   *)
LEMMA DownInduction ==
  ASSUME NEW m \in Nat, NEW S, m + 1 \in S,
         \A j \in 1..m : j + 1 \in S => j \in S
  PROVE  1..m + 1 \subseteq S
<1> DEFINE T == {n \in Nat : m + 1 - n \in S}
<1>1. 0 \in T
  OBVIOUS
<1>2. ASSUME NEW n \in 0..m-1, n \in T PROVE n + 1 \in T
  <2>1. m - n \in 1..m /\ (m - n) + 1 = m + 1 - n /\ m + 1 - (n + 1) = m - n
    OBVIOUS
  <2>2. QED
    BY <1>2, <2>1
<1> HIDE DEF T
<1>3. 0..m \subseteq T
  BY <1>1, <1>2, BoundedInduction
<1>4. ASSUME NEW j \in 1..m + 1 PROVE j \in S
  <2>1. m + 1 - j \in 0..m /\ m + 1 - (m + 1 - j) = j
    OBVIOUS
  <2>2. m + 1 - j \in T
    BY <1>3, <2>1
  <2>3. QED
    BY <2>1, <2>2 DEF T
<1>5. QED
  BY <1>4

-----------------------------------------------------------------------------
(* What a loop over the list gathers.                                        *)

GatherStep(s, f, u) ==
  [i \in 0..MaxNodes + 1 |->
     [n \in Links |-> IF i = 0 \/ n = Null THEN <<>>
                      ELSE f[n] \o u[i - 1][s.node[n].next]]]
Gathering(s, f) == CHOOSE u : u = GatherStep(s, f, u)

LEMMA GatheringFacts ==
  ASSUME NEW T, NEW s, NEW f \in [Ids -> Seq(T)],
         \A n \in Ids : s.node[n].next \in Links
  PROVE  /\ \A n \in Links : Gathering(s, f)[0][n] = <<>>
         /\ \A i \in 0..MaxNodes + 1 : Gathering(s, f)[i][Null] = <<>>
         /\ \A i \in 1..MaxNodes + 1, n \in Ids :
              Gathering(s, f)[i][n]
                = f[n] \o Gathering(s, f)[i - 1][s.node[n].next]
         /\ \A i \in 0..MaxNodes + 1, n \in Links :
              Gathering(s, f)[i][n] \in Seq(T)
<1> DEFINE S == [Links -> Seq(T)]
           a == [n \in Links |-> <<>>]
           more(g) == [n \in Links |-> IF n = Null THEN <<>>
                                       ELSE f[n] \o g[s.node[n].next]]
           step == [k \in Nat |-> [g \in S |-> more(g)]]
<1>0. Null \in Links /\ Ids \subseteq Links /\ \A n \in Links : n # Null => n \in Ids
  BY DEF Links
<1>1. a \in S
  <2>1. <<>> \in Seq(T)
    OBVIOUS
  <2>2. QED
    BY <2>1
<1>2. ASSUME NEW g \in S PROVE more(g) \in S
  <2>1. ASSUME NEW n \in Ids PROVE f[n] \o g[s.node[n].next] \in Seq(T)
    <3>1. f[n] \in Seq(T) /\ g[s.node[n].next] \in Seq(T)
      OBVIOUS
    <3>2. QED
      BY <3>1, ConcatProperties
  <2>2. <<>> \in Seq(T)
    OBVIOUS
  <2>3. QED
    BY <1>0, <2>1, <2>2
<1>3. step \in Steps(S)
  BY <1>2 DEF Steps
<1>4. \A k \in Nat, g \in S : step[k][g] = more(g)
  OBVIOUS
<1> HIDE DEF step, S
<1>5. PICK h : IsRecursion(h, S, a, step)
  BY <1>1, <1>3, RecursionExists
<1>6. h \in [Nat -> S] /\ h[0] = a /\ \A k \in Nat : h[k + 1] = more(h[k])
  <2>1. h \in [Nat -> S] /\ h[0] = a
    BY <1>5 DEF IsRecursion
  <2>2. ASSUME NEW k \in Nat PROVE h[k + 1] = more(h[k])
    <3>1. h[k + 1] = step[k][h[k]]
      BY <1>5 DEF IsRecursion
    <3>2. h[k] \in S
      BY <2>1
    <3> HIDE DEF more
    <3>3. QED
      BY <1>4, <3>1, <3>2
  <2> HIDE DEF more, a
  <2>3. QED
    BY <2>1, <2>2
<1> DEFINE u == [i \in 0..MaxNodes + 1 |-> h[i]]
           next(i) == [n \in Links |-> IF i = 0 \/ n = Null THEN <<>>
                                       ELSE f[n] \o u[i - 1][s.node[n].next]]
<1>7. ASSUME NEW i \in 0..MaxNodes + 1 PROVE u[i] = next(i)
  <2>1. CASE i = 0
    BY <1>6, <2>1
  <2>2. CASE i # 0
    <3>1. i - 1 \in Nat /\ (i - 1) + 1 = i /\ i - 1 \in 0..MaxNodes + 1
      BY <2>2, Sizes
    <3>2. u[i] = more(h[i - 1]) /\ u[i - 1] = h[i - 1]
      BY <1>6, <3>1
    <3> HIDE DEF u
    <3>3. QED
      BY <2>2, <3>2
  <2>3. QED
    BY <2>1, <2>2
<1>8. u = GatherStep(s, f, u)
  BY <1>7 DEF GatherStep
<1> HIDE DEF u
<1>9. Gathering(s, f) = GatherStep(s, f, Gathering(s, f))
  BY <1>8 DEF Gathering
<1> DEFINE w == Gathering(s, f)
<1>10. \A i \in 0..MaxNodes + 1 :
         w[i] = [n \in Links |-> IF i = 0 \/ n = Null THEN <<>>
                                 ELSE f[n] \o w[i - 1][s.node[n].next]]
  BY <1>9 DEF GatherStep
<1> HIDE DEF w
<1>11. /\ \A n \in Links : w[0][n] = <<>>
       /\ \A i \in 0..MaxNodes + 1 : w[i][Null] = <<>>
       /\ \A i \in 1..MaxNodes + 1, n \in Ids :
            w[i][n] = f[n] \o w[i - 1][s.node[n].next]
  <2>1. 0 \in 0..MaxNodes + 1 /\ \A i \in 1..MaxNodes + 1 : i \in 0..MaxNodes + 1 /\ i # 0
    BY Sizes
  <2>2. \A n \in Ids : n # Null
    BY Sizes
  <2>3. \A n \in Links : w[0][n] = <<>>
    <3>1. w[0] = [n \in Links |-> <<>>]
      BY <1>10, <2>1
    <3>2. QED
      BY <3>1
  <2>4. \A i \in 0..MaxNodes + 1 : w[i][Null] = <<>>
    BY <1>0, <1>10
  <2>5. ASSUME NEW i \in 1..MaxNodes + 1, NEW n \in Ids
        PROVE  w[i][n] = f[n] \o w[i - 1][s.node[n].next]
    <3>1. i \in 0..MaxNodes + 1 /\ i # 0 /\ n \in Links /\ n # Null
      BY <1>0, <2>1, <2>2
    <3>2. w[i] = [m \in Links |-> IF i = 0 \/ m = Null THEN <<>>
                                  ELSE f[m] \o w[i - 1][s.node[m].next]]
      BY <1>10, <3>1
    <3>3. QED
      BY <3>1, <3>2
  <2>6. QED
    BY <2>3, <2>4, <2>5
<1>12. \A i \in 0..MaxNodes + 1 : w[i] \in [Links -> Seq(T)]
  <2> DEFINE W == {i \in Nat : w[i] \in [Links -> Seq(T)]}
  <2>1. 0 \in W
    <3>1. w[0] = [n \in Links |-> <<>>]
      <4>1. 0 \in 0..MaxNodes + 1
        BY Sizes
      <4>2. QED
        BY <1>10, <4>1
    <3>2. QED
      BY <1>1, <3>1 DEF S
  <2>2. ASSUME NEW i \in 0..MaxNodes + 1 - 1, i \in W PROVE i + 1 \in W
    <3>1. i + 1 \in 0..MaxNodes + 1 /\ (i + 1) - 1 = i /\ i + 1 # 0
      BY Sizes
    <3>2. w[i + 1] = more(w[i])
      BY <1>10, <3>1
    <3>3. more(w[i]) \in S
      BY <1>2, <2>2 DEF S
    <3>4. i + 1 \in Nat
      OBVIOUS
    <3> HIDE DEF more
    <3>5. QED
      BY <3>2, <3>3, <3>4 DEF S
  <2> HIDE DEF W
  <2>3. 0..MaxNodes + 1 \subseteq W
    BY <2>1, <2>2, Sizes, BoundedInduction
  <2>4. QED
    BY <2>3 DEF W
<1>13. QED
  BY <1>11, <1>12 DEF w

IsGathered(r, T, c, f) ==
  /\ r \in [1..Len(c) + 1 -> Seq(T)]
  /\ r[Len(c) + 1] = <<>>
  /\ \A j \in 1..Len(c) : r[j] = f[c[j]] \o r[j + 1]

LEMMA GatheredFacts ==
  ASSUME NEW T, NEW s, NEW c, Chain(s, c), NEW f \in [Ids -> Seq(T)]
  PROVE  \E r : IsGathered(r, T, c, f) /\ r[1] = Gathered(s, f)
<1> DEFINE w == Gathering(s, f)
           r == [j \in 1..Len(c) + 1 |-> w[MaxNodes + 2 - j][Link(c, j)]]
<1>1. /\ \A n \in Links : w[0][n] = <<>>
      /\ \A i \in 0..MaxNodes + 1 : w[i][Null] = <<>>
      /\ \A i \in 1..MaxNodes + 1, n \in Ids :
           w[i][n] = f[n] \o w[i - 1][s.node[n].next]
      /\ \A i \in 0..MaxNodes + 1, n \in Links : w[i][n] \in Seq(T)
  <2>1. \A n \in Ids : s.node[n].next \in Links
    BY ChainTypes
  <2>2. QED
    BY <2>1, GatheringFacts
<1>2. Gathered(s, f) = w[MaxNodes + 1][s.head]
  BY DEF Gathered, Gathering, GatherStep, Links
<1> HIDE DEF w
<1>3. Len(c) \in Nat /\ Len(c) <= MaxNodes
  BY DEF Chain
<1>4. r \in [1..Len(c) + 1 -> Seq(T)]
  <2>1. ASSUME NEW j \in 1..Len(c) + 1
        PROVE  w[MaxNodes + 2 - j][Link(c, j)] \in Seq(T)
    <3>1. MaxNodes + 2 - j \in 0..MaxNodes + 1 /\ j \in Nat \ {0}
      BY <1>3, Sizes
    <3>2. Link(c, j) \in Links
      BY <3>1, ChainTypes
    <3>3. QED
      BY <1>1, <3>1, <3>2
  <2>2. QED
    BY <2>1
<1>5. r[Len(c) + 1] = <<>>
  <2>1. MaxNodes + 2 - (Len(c) + 1) \in 0..MaxNodes + 1
    BY <1>3, Sizes
  <2>2. Link(c, Len(c) + 1) = Null
    BY <1>3 DEF Link
  <2>3. QED
    BY <1>1, <1>3, <2>1, <2>2
<1>6. ASSUME NEW j \in 1..Len(c) PROVE r[j] = f[c[j]] \o r[j + 1]
  <2>1. /\ MaxNodes + 2 - j \in 1..MaxNodes + 1
        /\ (MaxNodes + 2 - j) - 1 = MaxNodes + 2 - (j + 1)
        /\ j \in 1..Len(c) + 1 /\ j + 1 \in 1..Len(c) + 1
    BY <1>3, Sizes
  <2>2. c[j] \in Ids /\ s.node[c[j]].next = Link(c, j + 1) /\ Link(c, j) = c[j]
    BY <1>3, ChainTypes DEF Chain, Link
  <2>3. r[j] = w[MaxNodes + 2 - j][c[j]]
    BY <2>1, <2>2
  <2>4. r[j + 1] = w[MaxNodes + 2 - (j + 1)][Link(c, j + 1)]
    BY <2>1
  <2> HIDE DEF r
  <2>5. w[MaxNodes + 2 - j][c[j]]
          = f[c[j]] \o w[(MaxNodes + 2 - j) - 1][s.node[c[j]].next]
    BY <1>1, <2>1, <2>2
  <2>6. QED
    BY <2>1, <2>2, <2>3, <2>4, <2>5
<1>7. r[1] = Gathered(s, f)
  <2>1. 1 \in 1..Len(c) + 1 /\ MaxNodes + 2 - 1 = MaxNodes + 1
    BY <1>3, Sizes
  <2>2. s.head = Link(c, 1)
    BY DEF Chain
  <2>3. QED
    BY <1>2, <2>1, <2>2
<1> HIDE DEF r
<1>8. IsGathered(r, T, c, f)
  BY <1>4, <1>5, <1>6 DEF IsGathered
<1>9. QED
  BY <1>7, <1>8

LEMMA NodesAreTheChain ==
  ASSUME NEW s, NEW c, Chain(s, c)
  PROVE  Nodes(s) = c
<1> DEFINE f == [n \in Ids |-> <<n>>]
<1>1. f \in [Ids -> Seq(Ids)] /\ \A n \in Ids : f[n] = <<n>>
  <2>1. \A n \in Ids : <<n>> \in Seq(Ids)
    OBVIOUS
  <2>2. QED
    BY <2>1
<1>2. Nodes(s) = Gathered(s, f)
  BY DEF Nodes
<1> HIDE DEF f
<1>3. PICK r : IsGathered(r, Ids, c, f) /\ r[1] = Gathered(s, f)
  BY <1>1, GatheredFacts
<1>4. /\ r[Len(c) + 1] = <<>>
      /\ \A j \in 1..Len(c) : r[j] = f[c[j]] \o r[j + 1]
  BY <1>3 DEF IsGathered
<1>5. Len(c) \in Nat /\ c \in Seq(Ids)
  BY DEF Chain
<1> DEFINE T == {j \in 1..Len(c) + 1 : r[j] = SubSeq(c, j, Len(c))}
<1>6. Len(c) + 1 \in T
  <2>1. SubSeq(c, Len(c) + 1, Len(c)) = <<>>
    <3>1. Len(c) + 1 \in Int /\ Len(c) \in Int /\ Len(c) < Len(c) + 1
      BY <1>5
    <3>2. QED
      BY <3>1, SubSeqEmpty
  <2>2. Len(c) + 1 \in 1..Len(c) + 1
    BY <1>5
  <2>3. QED
    BY <1>4, <2>1, <2>2
<1>7. ASSUME NEW j \in 1..Len(c), j + 1 \in T PROVE j \in T
  <2>1. SubSeq(c, j, Len(c)) = <<c[j]>> \o SubSeq(c, j + 1, Len(c))
    <3>1. Len(c) \in j..Len(c)
      BY <1>5
    <3>2. QED
      BY <1>5, <3>1, SubSeqRecursiveFirst
  <2>2. c[j] \in Ids
    BY <1>5
  <2>3. r[j] = <<c[j]>> \o r[j + 1]
    BY <1>1, <1>4, <2>2
  <2>4. r[j + 1] = SubSeq(c, j + 1, Len(c)) /\ j \in 1..Len(c) + 1
    BY <1>5, <1>7
  <2>5. QED
    BY <2>1, <2>3, <2>4
<1> HIDE DEF T
<1>8. 1..Len(c) + 1 \subseteq T
  BY <1>5, <1>6, <1>7, DownInduction
<1>9. r[1] = SubSeq(c, 1, Len(c))
  BY <1>5, <1>8 DEF T
<1>10. QED
  BY <1>2, <1>3, <1>5, <1>9, SubSeqFull

-----------------------------------------------------------------------------
(* What the store's operations do to the list.                               *)

KeyAt(s, c, j)   == s.node[c[j]].key
ValueAt(s, c, j) == s.node[c[j]].value

(* The first place of a name.                                                *)
LEMMA PlaceFacts ==
  ASSUME NEW s, NEW c, Chain(s, c), NEW k
  PROVE  /\ Place(s, k) \in 0..Len(c)
         /\ Place(s, k) = 0 => \A j \in 1..Len(c) : KeyAt(s, c, j) # k
         /\ Place(s, k) # 0 =>
              /\ KeyAt(s, c, Place(s, k)) = k
              /\ \A j \in 1..Place(s, k) - 1 : KeyAt(s, c, j) # k
         /\ Find(s, k) = IF Place(s, k) = 0 THEN Null ELSE c[Place(s, k)]
         /\ Find(s, k) = Null <=> Place(s, k) = 0
         /\ Get(s, k) = IF Place(s, k) = 0 THEN NoValue
                        ELSE ValueAt(s, c, Place(s, k))
<1> DEFINE has == {j \in 1..Len(c) : s.node[c[j]].key = k}
<1>1. Nodes(s) = c /\ DOMAIN c = 1..Len(c) /\ Len(c) \in Nat
  <2>1. Nodes(s) = c
    BY NodesAreTheChain
  <2>2. c \in Seq(Ids)
    BY DEF Chain
  <2>3. QED
    BY <2>1, <2>2
<1>2. Place(s, k) = IF has = {} THEN 0
                    ELSE CHOOSE i \in has : \A j \in has : i <= j
  BY <1>1 DEF Place
<1>3. /\ Place(s, k) \in 0..Len(c)
      /\ Place(s, k) = 0 => \A j \in 1..Len(c) : KeyAt(s, c, j) # k
      /\ Place(s, k) # 0 =>
           /\ KeyAt(s, c, Place(s, k)) = k
           /\ \A j \in 1..Place(s, k) - 1 : KeyAt(s, c, j) # k
  <2>1. CASE has = {}
    BY <1>1, <1>2, <2>1 DEF KeyAt
  <2>2. CASE has # {}
    <3>1. PICK i \in has : \A j \in has : i <= j
      <4>1. has \subseteq Nat
        BY <1>1
      <4> HIDE DEF has
      <4>2. QED
        BY <2>2, <4>1, LeastExists
    <3>2. Place(s, k) \in has /\ \A j \in has : Place(s, k) <= j
      BY <1>2, <2>2, <3>1
    <3> DEFINE p == Place(s, k)
    <3> HIDE DEF p
    <3>3. p \in 1..Len(c) /\ s.node[c[p]].key = k
      BY <3>2 DEF p
    <3>4. ASSUME NEW j \in 1..p - 1 PROVE s.node[c[j]].key # k
      <4>1. j \in 1..Len(c) /\ ~(p <= j)
        BY <1>1, <3>3
      <4>2. j \notin has
        BY <3>2, <4>1 DEF p
      <4>3. QED
        BY <4>1, <4>2
    <3>5. p # 0 /\ p \in 0..Len(c)
      BY <1>1, <3>3
    <3>6. QED
      BY <3>3, <3>4, <3>5 DEF p, KeyAt
  <2>3. QED
    BY <2>1, <2>2
<1>4. Find(s, k) = IF Place(s, k) = 0 THEN Null ELSE c[Place(s, k)]
  BY <1>1 DEF Find
<1>5. Find(s, k) = Null <=> Place(s, k) = 0
  <2>1. ASSUME Place(s, k) # 0 PROVE c[Place(s, k)] # Null
    <3>1. Place(s, k) \in 1..Len(c)
      BY <1>1, <1>3, <2>1
    <3>2. c[Place(s, k)] \in Ids
      BY <3>1, ChainTypes
    <3>3. QED
      BY <3>2, Sizes
  <2>2. QED
    BY <1>4, <2>1
<1>6. Get(s, k) = IF Place(s, k) = 0 THEN NoValue
                  ELSE ValueAt(s, c, Place(s, k))
  BY <1>4, <1>5 DEF Get, ValueAt
<1>7. QED
  BY <1>3, <1>4, <1>5, <1>6

(* As long as the list is not as long as the heap, there is a node to have.  *)
LEMMA NewIsFree ==
  ASSUME NEW s, NEW c, Chain(s, c), Len(c) < MaxNodes
  PROVE  New(s) \in Ids /\ \A j \in 1..Len(c) : c[j] # New(s)
<1>1. Len(c) \in Nat /\ c \in [1..Len(c) -> Ids]
  BY DEF Chain
<1>2. FreeIds(s) # {}
  <2> SUFFICES ASSUME FreeIds(s) = {} PROVE FALSE
    OBVIOUS
  <2>1. \A n \in Ids : \E j \in 1..Len(c) : c[j] = n
    BY DEF FreeIds, Chain
  <2>2. c \in Surjection(1..Len(c), Ids)
    BY <1>1, <2>1 DEF Surjection
  <2>3. Cardinality(Ids) <= Len(c)
    <3>1. ExistsSurjection(1..Len(c), Ids)
      BY <2>2 DEF ExistsSurjection
    <3>2. QED
      BY <1>1, <3>1, FS_SurjCardinalityBound
  <2>4. Cardinality(Ids) = MaxNodes
    BY Sizes, FS_Interval DEF Ids
  <2>5. QED
    BY <1>1, <2>3, <2>4, Sizes
<1>3. FreeIds(s) \subseteq Nat
  BY DEF FreeIds, Ids
<1>4. PICK n \in FreeIds(s) : \A m \in FreeIds(s) : n <= m
  BY <1>2, <1>3, LeastExists
<1>5. New(s) \in FreeIds(s)
  BY <1>4 DEF New
<1>6. New(s) \in Ids /\ s.node[New(s)] = Freed
  BY <1>5 DEF FreeIds
<1>7. ASSUME NEW j \in 1..Len(c) PROVE s.node[c[j]] # Freed
  <2>1. s.node[c[j]].key \in Keys
    BY DEF Chain, NodeType
  <2>2. Freed.key \notin Keys
    BY KeyAssumption DEF Freed
  <2>3. QED
    BY <2>1, <2>2
<1>8. QED
  BY <1>6, <1>7

(* A node behind the list.                                                   *)
IsAppended(s, c, t, d, k, v) ==
  /\ Chain(t, d) /\ Len(d) = Len(c) + 1
  /\ \A j \in 1..Len(c) : /\ d[j] = c[j]
                          /\ KeyAt(t, d, j) = KeyAt(s, c, j)
                          /\ ValueAt(t, d, j) = ValueAt(s, c, j)
  /\ KeyAt(t, d, Len(d)) = k /\ ValueAt(t, d, Len(d)) = v

LEMMA AppendChain ==
  ASSUME NEW s, NEW c, Chain(s, c), Len(c) < MaxNodes,
         NEW k \in Keys, NEW v \in Values \cup {NoValue}
  PROVE  IsAppended(s, c, AppendNode(s, k, v), Append(c, New(s)), k, v)
<1> SUFFICES ASSUME NEW t, t = AppendNode(s, k, v),
                    NEW d, d = Append(c, New(s))
             PROVE  IsAppended(s, c, t, d, k, v)
  OBVIOUS
<1> DEFINE n == New(s)
           fresh == [key |-> k, value |-> v, next |-> Null]
<1>1. n \in Ids /\ \A j \in 1..Len(c) : c[j] # n
  BY NewIsFree
<1> HIDE DEF n
<1>2. /\ s \in Stores /\ Len(c) \in Nat /\ c \in Seq(Ids)
      /\ \A j \in 1..Len(c) : c[j] \in Ids
  BY DEF Chain
<1>3. fresh \in NodeType
  BY DEF NodeType, Null
<1>4. s.tail = IF Len(c) = 0 THEN Null ELSE c[Len(c)]
  BY <1>2 DEF Chain
<1>5. s.tail = Null <=> Len(c) = 0
  <2>1. Len(c) # 0 => c[Len(c)] \in Ids
    BY <1>2
  <2>2. QED
    BY <1>4, <2>1, Sizes
<1>6. /\ d \in Seq(Ids) /\ Len(d) = Len(c) + 1 /\ d[Len(c) + 1] = n
      /\ \A j \in 1..Len(c) : d[j] = c[j]
  BY <1>1, <1>2 DEF n
<1>7. /\ t.head = (IF Len(c) = 0 THEN n ELSE s.head) /\ t.tail = n
      /\ t.size = s.size + 1
      /\ t = [head |-> t.head, tail |-> t.tail, size |-> t.size, node |-> t.node]
  BY <1>5 DEF AppendNode, n
<1>8. t.node = [m \in Ids |-> IF Len(c) # 0 /\ m = c[Len(c)]
                              THEN [s.node[m] EXCEPT !.next = n]
                              ELSE IF m = n THEN fresh ELSE s.node[m]]
  <2> DEFINE made == [s.node EXCEPT ![n] = fresh]
  <2>1. t.node = IF s.tail = Null THEN made
                 ELSE [made EXCEPT ![s.tail].next = n]
    BY DEF AppendNode, n
  <2>2. /\ s.node \in [Ids -> NodeType \cup {Freed}]
        /\ made = [m \in Ids |-> IF m = n THEN fresh ELSE s.node[m]]
    BY <1>1, <1>2 DEF Stores
  <2>3. CASE Len(c) = 0
    BY <1>5, <2>1, <2>2, <2>3
  <2>4. CASE Len(c) # 0
    <3> DEFINE last == c[Len(c)]
               joined == [s.node[last] EXCEPT !.next = n]
    <3>1. last \in Ids /\ last # n /\ s.tail = last /\ s.tail # Null
      BY <1>1, <1>2, <1>4, <1>5, <2>4
    <3>2. DOMAIN made = Ids /\ made = [m \in Ids |-> made[m]]
      BY <2>2
    <3>3. \A m \in Ids : made[m] = IF m = n THEN fresh ELSE s.node[m]
      BY <2>2
    <3>4. made[last] = s.node[last]
      BY <3>1, <3>3
    <3> HIDE DEF made, last
    <3>5. t.node = [made EXCEPT ![last] = joined]
      BY <2>1, <3>1, <3>4
    <3> HIDE DEF joined
    <3>6. t.node = [m \in Ids |-> IF m = last THEN joined ELSE made[m]]
      BY <3>2, <3>5
    <3>7. ASSUME NEW m \in Ids
          PROVE  (IF m = last THEN joined ELSE made[m])
                 = (IF Len(c) # 0 /\ m = last
                    THEN [s.node[m] EXCEPT !.next = n]
                    ELSE IF m = n THEN fresh ELSE s.node[m])
      BY <2>4, <3>3 DEF joined
    <3>8. t.node = [m \in Ids |-> IF Len(c) # 0 /\ m = last
                                 THEN [s.node[m] EXCEPT !.next = n]
                                 ELSE IF m = n THEN fresh ELSE s.node[m]]
      BY <3>6, <3>7
    <3>9. QED
      BY <3>8 DEF last
  <2>5. QED
    BY <2>3, <2>4
<1> HIDE DEF fresh
<1>9. ASSUME NEW j \in 1..Len(c)
      PROVE  /\ t.node[d[j]] \in NodeType
             /\ t.node[d[j]].next = Link(d, j + 1)
             /\ KeyAt(t, d, j) = KeyAt(s, c, j)
             /\ ValueAt(t, d, j) = ValueAt(s, c, j)
  <2>1. /\ s.node[c[j]] \in NodeType /\ s.node[c[j]].next = Link(c, j + 1)
        /\ c[j] \in Ids /\ c[j] # n /\ d[j] = c[j]
    BY <1>1, <1>2, <1>6 DEF Chain
  <2>2. CASE j = Len(c)
    <3>1. t.node[d[j]] = [s.node[c[j]] EXCEPT !.next = n]
      BY <1>8, <2>1, <2>2
    <3>2. /\ t.node[d[j]] \in NodeType /\ t.node[d[j]].next = n
          /\ t.node[d[j]].key = s.node[c[j]].key
          /\ t.node[d[j]].value = s.node[c[j]].value
      BY <1>1, <2>1, <3>1 DEF NodeType
    <3>3. Link(d, j + 1) = n
      BY <1>2, <1>6, <2>2 DEF Link
    <3>4. QED
      BY <3>2, <3>3 DEF KeyAt, ValueAt
  <2>3. CASE j # Len(c)
    <3>1. c[j] # c[Len(c)]
      BY <1>2, <2>3 DEF Chain
    <3>2. t.node[d[j]] = s.node[c[j]]
      BY <1>8, <2>1, <3>1
    <3>3. Link(d, j + 1) = Link(c, j + 1)
      BY <1>2, <1>6, <2>3 DEF Link
    <3>4. QED
      BY <2>1, <3>2, <3>3 DEF KeyAt, ValueAt
  <2>4. QED
    BY <2>2, <2>3
<1>10. t.node[n] = fresh
  <2>1. Len(c) # 0 => c[Len(c)] # n
    BY <1>1, <1>2
  <2>2. QED
    BY <1>1, <1>8, <2>1
<1>11. fresh.next = Null /\ fresh.key = k /\ fresh.value = v
  BY DEF fresh
<1>12. t \in Stores
  <2>1. t.head \in Links /\ t.tail \in Links /\ t.size \in Nat
    BY <1>1, <1>2, <1>7 DEF Stores, Links
  <2>2. ASSUME NEW m \in Ids PROVE t.node[m] \in NodeType \cup {Freed}
    <3>1. s.node[m] \in NodeType \cup {Freed}
      BY <1>2 DEF Stores
    <3>2. CASE Len(c) # 0 /\ m = c[Len(c)]
      <4>1. Len(c) \in 1..Len(c) /\ d[Len(c)] = m
        BY <1>2, <1>6, <3>2
      <4>2. QED
        BY <1>9, <4>1
    <3>3. CASE ~(Len(c) # 0 /\ m = c[Len(c)])
      BY <1>3, <1>8, <3>1, <3>3
    <3>4. QED
      BY <3>2, <3>3
  <2>3. t.node \in [Ids -> NodeType \cup {Freed}]
    BY <1>8, <2>2
  <2>4. QED
    BY <1>7, <2>1, <2>3 DEF Stores
<1>13. \A i, j \in 1..Len(d) : d[i] = d[j] => i = j
  <2>1. \A i, j \in 1..Len(c) : c[i] = c[j] => i = j
    BY DEF Chain
  <2>2. \A i \in 1..Len(d) : i \in 1..Len(c) \/ i = Len(c) + 1
    BY <1>2, <1>6
  <2>3. QED
    BY <1>1, <1>6, <2>1, <2>2
<1>14. t.head = Link(d, 1)
  <2>1. CASE Len(c) = 0
    BY <1>6, <1>7, <2>1 DEF Link
  <2>2. CASE Len(c) # 0
    BY <1>2, <1>6, <1>7, <2>2 DEF Link, Chain
  <2>3. QED
    BY <2>1, <2>2
<1>15. ASSUME NEW j \in 1..Len(d)
       PROVE  t.node[d[j]] \in NodeType /\ t.node[d[j]].next = Link(d, j + 1)
  <2>1. CASE j \in 1..Len(c)
    BY <1>9, <2>1
  <2>2. CASE j = Len(c) + 1
    BY <1>2, <1>3, <1>6, <1>10, <1>11, <2>2 DEF Link
  <2>3. QED
    BY <1>2, <1>6, <2>1, <2>2
<1>16. ASSUME NEW m \in Ids, \A j \in 1..Len(d) : d[j] # m
       PROVE  t.node[m] = Freed
  <2>1. m # n /\ \A j \in 1..Len(c) : c[j] # m
    <3>1. Len(c) + 1 \in 1..Len(d) /\ \A j \in 1..Len(c) : j \in 1..Len(d)
      BY <1>2, <1>6
    <3>2. QED
      BY <1>6, <1>16, <3>1
  <2>2. s.node[m] = Freed /\ (Len(c) # 0 => m # c[Len(c)])
    BY <1>2, <2>1 DEF Chain
  <2>3. QED
    BY <1>8, <2>1, <2>2
<1>17. t.tail = IF d = <<>> THEN Null ELSE d[Len(d)]
  BY <1>2, <1>6, <1>7
<1>18. t.size = Len(d)
  BY <1>6, <1>7 DEF Chain
<1>19. Chain(t, d)
  <2>1. d \in Seq(Ids) /\ Len(d) <= MaxNodes
    BY <1>2, <1>6, Sizes
  <2>2. \A m \in Ids : (\A j \in 1..Len(d) : d[j] # m) => t.node[m] = Freed
    BY <1>16
  <2>3. QED
    BY <1>12, <1>13, <1>14, <1>15, <1>17, <1>18, <2>1, <2>2 DEF Chain
<1>20. KeyAt(t, d, Len(d)) = k /\ ValueAt(t, d, Len(d)) = v
  BY <1>6, <1>10, <1>11 DEF KeyAt, ValueAt
<1>21. QED
  BY <1>6, <1>9, <1>19, <1>20 DEF IsAppended

(* A new value for a node of the list.                                       *)
WithValue(s, n, v) == [s EXCEPT !.node[n].value = v]
IsReplaced(s, c, t, p, v) ==
  /\ Chain(t, c)
  /\ \A j \in 1..Len(c) :
       /\ KeyAt(t, c, j) = KeyAt(s, c, j)
       /\ ValueAt(t, c, j) = IF j = p THEN v ELSE ValueAt(s, c, j)

LEMMA SetValueChain ==
  ASSUME NEW s, NEW c, Chain(s, c), NEW p \in 1..Len(c),
         NEW v \in Values \cup {NoValue}
  PROVE  IsReplaced(s, c, WithValue(s, c[p], v), p, v)
<1> SUFFICES ASSUME NEW t, t = [s EXCEPT !.node[c[p]].value = v]
             PROVE  IsReplaced(s, c, t, p, v)
  BY DEF WithValue
<1>1. /\ s \in Stores /\ Len(c) \in Nat /\ c \in Seq(Ids)
      /\ \A j \in 1..Len(c) : c[j] \in Ids
      /\ s.node \in [Ids -> NodeType \cup {Freed}]
  BY DEF Chain, Stores
<1>2. t = [s EXCEPT !.node = [s.node EXCEPT ![c[p]] =
                                [s.node[c[p]] EXCEPT !.value = v]]]
  OBVIOUS
<1>3. /\ t.head = s.head /\ t.tail = s.tail /\ t.size = s.size
      /\ t = [head |-> t.head, tail |-> t.tail, size |-> t.size, node |-> t.node]
      /\ t.node = [s.node EXCEPT ![c[p]] = [s.node[c[p]] EXCEPT !.value = v]]
  BY <1>1, <1>2 DEF Stores
<1>4. t.node = [m \in Ids |-> IF m = c[p] THEN [s.node[m] EXCEPT !.value = v]
                              ELSE s.node[m]]
  BY <1>1, <1>3
<1>5. ASSUME NEW j \in 1..Len(c)
      PROVE  /\ t.node[c[j]] \in NodeType
             /\ t.node[c[j]].next = Link(c, j + 1)
             /\ KeyAt(t, c, j) = KeyAt(s, c, j)
             /\ ValueAt(t, c, j) = IF j = p THEN v ELSE ValueAt(s, c, j)
  <2>1. /\ s.node[c[j]] \in NodeType /\ s.node[c[j]].next = Link(c, j + 1)
        /\ c[j] \in Ids
    BY <1>1 DEF Chain
  <2>2. CASE j = p
    <3>1. t.node[c[j]] = [s.node[c[j]] EXCEPT !.value = v]
      BY <1>4, <2>1, <2>2
    <3> DEFINE e == s.node[c[j]]
               g == [e EXCEPT !.value = v]
    <3>2. /\ g \in NodeType /\ g.next = e.next /\ g.key = e.key
          /\ g.value = v
      <4>1. e \in NodeType
        BY <2>1
      <4> HIDE DEF e
      <4>2. QED
        BY <4>1 DEF NodeType
    <3>3. t.node[c[j]] = g
      BY <3>1
    <3> HIDE DEF g
    <3>4. t.node[c[j]] \in NodeType /\ t.node[c[j]].next = Link(c, j + 1)
      BY <2>1, <3>2, <3>3
    <3>5. KeyAt(t, c, j) = KeyAt(s, c, j) /\ ValueAt(t, c, j) = v
      BY <3>2, <3>3 DEF KeyAt, ValueAt
    <3> HIDE DEF e
    <3>6. QED
      BY <2>2, <3>4, <3>5
  <2>3. CASE j # p
    <3>1. c[j] # c[p]
      BY <2>3 DEF Chain
    <3>2. t.node[c[j]] = s.node[c[j]]
      BY <1>4, <2>1, <3>1
    <3>3. t.node[c[j]] \in NodeType /\ t.node[c[j]].next = Link(c, j + 1)
      BY <2>1, <3>2
    <3>4. KeyAt(t, c, j) = KeyAt(s, c, j) /\ ValueAt(t, c, j) = ValueAt(s, c, j)
      BY <3>2 DEF KeyAt, ValueAt
    <3>5. QED
      BY <2>3, <3>3, <3>4
  <2>4. QED
    BY <2>2, <2>3
<1>6. t \in Stores
  <2>1. t.head \in Links /\ t.tail \in Links /\ t.size \in Nat
    BY <1>1, <1>3 DEF Stores
  <2>2. ASSUME NEW m \in Ids PROVE t.node[m] \in NodeType \cup {Freed}
    BY <1>1, <1>4, <1>5
  <2>3. t.node \in [Ids -> NodeType \cup {Freed}]
    BY <1>4, <2>2
  <2>4. QED
    BY <1>3, <2>1, <2>3 DEF Stores
<1>7. \A m \in Ids : (\A j \in 1..Len(c) : c[j] # m) => t.node[m] = Freed
  BY <1>4 DEF Chain
<1>8. Chain(t, c)
  BY <1>3, <1>5, <1>6, <1>7 DEF Chain
<1>9. QED
  BY <1>5, <1>8 DEF IsReplaced

(* The list without the node at place p.                                     *)
Without(c, p) ==
  [j \in 1..Len(c) - 1 |-> IF j < p THEN c[j] ELSE c[j + 1]]

IsUnlinked(s, c, t, d, p) ==
  /\ Chain(t, d) /\ Len(d) = Len(c) - 1
  /\ \A j \in 1..Len(d) :
       /\ KeyAt(t, d, j) = KeyAt(s, c, IF j < p THEN j ELSE j + 1)
       /\ ValueAt(t, d, j) = ValueAt(s, c, IF j < p THEN j ELSE j + 1)

LEMMA UnlinkChain ==
  ASSUME NEW s, NEW c, Chain(s, c), NEW p \in 1..Len(c)
  PROVE  IsUnlinked(s, c, Unlink(s, p, TailWithout(s, p)), Without(c, p), p)
<1> SUFFICES ASSUME NEW t, t = Unlink(s, p, TailWithout(s, p)),
                    NEW d, d = Without(c, p)
             PROVE  IsUnlinked(s, c, t, d, p)
  OBVIOUS
<1>1. /\ s \in Stores /\ Len(c) \in Nat /\ c \in Seq(Ids) /\ Len(c) <= MaxNodes
      /\ \A j \in 1..Len(c) : c[j] \in Ids
      /\ s.node \in [Ids -> NodeType \cup {Freed}]
      /\ \A i, j \in 1..Len(c) : c[i] = c[j] => i = j
  BY DEF Chain, Stores
<1>2. Nodes(s) = c
  BY NodesAreTheChain
<1>3. /\ d \in Seq(Ids) /\ Len(d) = Len(c) - 1
      /\ \A j \in 1..Len(d) : d[j] = IF j < p THEN c[j] ELSE c[j + 1]
  <2>1. \A j \in 1..Len(c) - 1 : (IF j < p THEN c[j] ELSE c[j + 1]) \in Ids
    BY <1>1
  <2>2. d \in [1..Len(c) - 1 -> Ids] /\ Len(c) - 1 \in Nat
    BY <1>1, <2>1 DEF Without
  <2>3. d \in Seq(Ids) /\ Len(d) = Len(c) - 1
    BY <2>2
  <2>4. QED
    BY <2>3 DEF Without
<1> DEFINE prev == IF p = 1 THEN Null ELSE c[p - 1]
           next == Link(c, p + 1)
<1>4. s.node[c[p]].next = next
  BY DEF Chain
<1>5. Previous(s, p) = prev
  BY <1>2 DEF Previous
<1>6. prev = Null <=> p = 1
  <2>1. p # 1 => c[p - 1] \in Ids
    BY <1>1
  <2>2. QED
    BY <2>1, Sizes
<1>7. TailWithout(s, p) = IF s.tail = c[p] THEN prev ELSE s.tail
  BY <1>2, <1>5 DEF TailWithout
<1>8. /\ t.head = (IF p = 1 THEN next ELSE s.head)
      /\ t.tail = (IF s.tail = c[p] THEN prev ELSE s.tail)
      /\ t.size = s.size - 1
      /\ t = [head |-> t.head, tail |-> t.tail, size |-> t.size, node |-> t.node]
  BY <1>2, <1>4, <1>5, <1>6, <1>7 DEF Unlink
<1>9. t.node = [m \in Ids |-> IF m = c[p] THEN Freed
                              ELSE IF p # 1 /\ m = c[p - 1]
                              THEN [s.node[m] EXCEPT !.next = next]
                              ELSE s.node[m]]
  <2> DEFINE cut == IF p = 1 THEN s.node
                    ELSE [s.node EXCEPT ![c[p - 1]].next = next]
  <2>1. t.node = [cut EXCEPT ![c[p]] = Freed]
    BY <1>2, <1>4, <1>5, <1>6 DEF Unlink
  <2>2. cut = [m \in Ids |-> IF p # 1 /\ m = c[p - 1]
                             THEN [s.node[m] EXCEPT !.next = next]
                             ELSE s.node[m]]
    BY <1>1
  <2> HIDE DEF cut, next
  <2>3. QED
    BY <2>1, <2>2
<1> HIDE DEF next, prev
<1>10. ASSUME NEW j \in 1..Len(d)
       PROVE  LET i == IF j < p THEN j ELSE j + 1 IN
              /\ d[j] = c[i] /\ i \in 1..Len(c) /\ i # p
              /\ t.node[d[j]] \in NodeType
              /\ t.node[d[j]].next = Link(d, j + 1)
              /\ KeyAt(t, d, j) = KeyAt(s, c, i)
              /\ ValueAt(t, d, j) = ValueAt(s, c, i)
  <2> DEFINE i == IF j < p THEN j ELSE j + 1
  <2>1. d[j] = c[i] /\ i \in 1..Len(c) /\ i # p /\ j \in Nat
    BY <1>1, <1>3
  <2>2. /\ s.node[c[i]] \in NodeType /\ s.node[c[i]].next = Link(c, i + 1)
        /\ c[i] \in Ids /\ c[i] # c[p]
    BY <1>1, <2>1 DEF Chain
  <2>3. CASE p # 1 /\ i = p - 1
    <3>1. t.node[d[j]] = [s.node[c[i]] EXCEPT !.next = next]
      BY <1>9, <2>1, <2>2, <2>3
    <3>2. next \in Links
      <4>1. p + 1 \in Nat \ {0}
        OBVIOUS
      <4>2. QED
        BY <4>1, ChainTypes DEF next
    <3>3. /\ t.node[d[j]] \in NodeType /\ t.node[d[j]].next = next
          /\ t.node[d[j]].key = s.node[c[i]].key
          /\ t.node[d[j]].value = s.node[c[i]].value
      BY <2>2, <3>1, <3>2 DEF NodeType, Links
    <3>4. j + 1 = p
      BY <2>1, <2>3
    <3>5. Link(d, p) = Link(c, p + 1)
      BY <1>1, <1>3 DEF Link
    <3>6. QED
      BY <2>1, <3>3, <3>4, <3>5 DEF KeyAt, ValueAt, next
  <2>4. CASE ~(p # 1 /\ i = p - 1)
    <3>1. p # 1 => c[i] # c[p - 1]
      BY <1>1, <2>1, <2>4
    <3>2. t.node[d[j]] = s.node[c[i]]
      BY <1>9, <2>1, <2>2, <3>1
    <3>3. j + 1 < p \/ j >= p
      BY <2>1, <2>4
    <3>4. Link(d, j + 1) = Link(c, i + 1)
      <4>1. /\ Len(c) \in Nat /\ Len(d) = Len(c) - 1 /\ p \in Nat /\ j \in Nat
            /\ \A m \in 1..Len(d) : d[m] = IF m < p THEN c[m] ELSE c[m + 1]
        BY <1>1, <1>3, <2>1
      <4>2. CASE j + 1 < p
        BY <4>1, <4>2 DEF Link
      <4>3. CASE j >= p
        <5>1. i = j + 1 /\ ~(j + 1 < p) /\ j + 1 + 1 = (j + 1) + 1
          BY <4>1, <4>3
        <5>2. CASE j + 1 > Len(d)
          BY <4>1, <5>1, <5>2 DEF Link
        <5>3. CASE ~(j + 1 > Len(d))
          <6>1. d[j + 1] = c[(j + 1) + 1] /\ ~((j + 1) + 1 > Len(c))
            BY <4>1, <5>1, <5>3
          <6>2. QED
            BY <5>1, <5>3, <6>1 DEF Link
        <5>4. QED
          BY <5>2, <5>3
      <4>4. QED
        BY <3>3, <4>2, <4>3
    <3>5. QED
      BY <2>1, <2>2, <3>2, <3>4 DEF KeyAt, ValueAt
  <2>5. QED
    BY <2>3, <2>4
<1>11. t.head \in Links /\ t.tail \in Links /\ t.size \in Nat
  <2>1. next \in Links /\ prev \in Links
    <3>1. p + 1 \in Nat \ {0} /\ (p # 1 => c[p - 1] \in Ids)
      BY <1>1
    <3>2. QED
      BY <3>1, ChainTypes DEF next, prev, Links
  <2>2. s.size - 1 \in Nat
    BY <1>1 DEF Chain
  <2>3. QED
    BY <1>1, <1>8, <2>1, <2>2 DEF Stores
<1>12. \A m \in Ids : (\A j \in 1..Len(d) : d[j] # m) => t.node[m] = Freed
  <2> SUFFICES ASSUME NEW m \in Ids, \A j \in 1..Len(d) : d[j] # m
               PROVE  t.node[m] = Freed
    OBVIOUS
  <2>1. CASE m = c[p]
    BY <1>9, <2>1
  <2>2. CASE m # c[p]
    <3>1. ASSUME NEW i \in 1..Len(c) PROVE c[i] # m
      <4>1. CASE i = p
        BY <2>2, <4>1
      <4>2. CASE i < p
        <5>1. Len(c) \in Nat /\ Len(d) = Len(c) - 1
          BY <1>1, <1>3
        <5>2. i \in 1..Len(d)
          BY <4>2, <5>1
        <5>3. d[i] = c[i]
          BY <1>3, <4>2, <5>2
        <5>4. QED
          BY <5>2, <5>3
      <4>3. CASE i > p
        <5>1. i - 1 \in 1..Len(d) /\ ~(i - 1 < p) /\ (i - 1) + 1 = i
          BY <1>1, <1>3, <4>3
        <5>2. d[i - 1] = c[i]
          BY <1>3, <5>1
        <5>3. QED
          BY <5>1, <5>2
      <4>4. QED
        BY <4>1, <4>2, <4>3
    <3>2. s.node[m] = Freed /\ (p # 1 => m # c[p - 1])
      <4>1. p # 1 => p - 1 \in 1..Len(c)
        BY <1>1
      <4>2. s.node[m] = Freed
        BY <3>1 DEF Chain
      <4>3. QED
        BY <3>1, <4>1, <4>2
    <3>3. QED
      BY <1>9, <2>2, <3>2
  <2>3. QED
    BY <2>1, <2>2
<1>13. t \in Stores
  <2>1. ASSUME NEW m \in Ids PROVE t.node[m] \in NodeType \cup {Freed}
    BY <1>10, <1>12
  <2>2. t.node \in [Ids -> NodeType \cup {Freed}]
    BY <1>9, <2>1
  <2>3. QED
    BY <1>8, <1>11, <2>2 DEF Stores
<1>14. ASSUME NEW i \in 1..Len(d), NEW j \in 1..Len(d), d[i] = d[j]
       PROVE  i = j
  <2> DEFINE x == IF i < p THEN i ELSE i + 1
             y == IF j < p THEN j ELSE j + 1
  <2>1. x = y
    <3>1. d[i] = c[x] /\ x \in 1..Len(c) /\ d[j] = c[y] /\ y \in 1..Len(c)
      BY <1>10
    <3>2. \A a, b \in 1..Len(c) : c[a] = c[b] => a = b
      BY DEF Chain
    <3> HIDE DEF x, y
    <3>3. QED
      BY <1>14, <3>1, <3>2
  <2>2. i \in Nat /\ j \in Nat
    BY <1>1, <1>3
  <2>3. QED
    BY <2>1, <2>2
<1>15. t.head = Link(d, 1)
  <2>1. s.head = c[1]
    BY <1>1 DEF Chain, Link
  <2>2. CASE p = 1
    BY <1>1, <1>3, <1>8, <2>2 DEF next, Link
  <2>3. CASE p # 1
    BY <1>1, <1>3, <1>8, <2>1, <2>3 DEF Link
  <2>4. QED
    BY <2>2, <2>3
<1>16. t.tail = IF d = <<>> THEN Null ELSE d[Len(d)]
  <2>1. s.tail = c[Len(c)]
    BY <1>1 DEF Chain
  <2>2. d = <<>> <=> Len(c) = 1
    BY <1>1, <1>3
  <2>3. CASE p = Len(c)
    <3>1. t.tail = prev
      BY <1>8, <2>1, <2>3
    <3>2. QED
      BY <1>1, <1>3, <2>2, <2>3, <3>1 DEF prev
  <2>4. CASE p # Len(c)
    <3>1. c[Len(c)] # c[p] /\ Len(c) # 1
      BY <1>1, <2>4
    <3>2. t.tail = c[Len(c)]
      BY <1>8, <2>1, <3>1
    <3>3. d[Len(d)] = c[Len(c)]
      BY <1>1, <1>3, <2>4
    <3>4. QED
      BY <2>2, <3>1, <3>2, <3>3
  <2>5. QED
    BY <2>3, <2>4
<1>17. t.size = Len(d) /\ Len(d) <= MaxNodes
  <2>1. s.size = Len(c)
    BY DEF Chain
  <2>2. QED
    BY <1>1, <1>3, <1>8, <2>1, Sizes
<1>18. Chain(t, d)
  <2>1. \A j \in 1..Len(d) : /\ t.node[d[j]] \in NodeType
                            /\ t.node[d[j]].next = Link(d, j + 1)
    BY <1>10
  <2>2. \A i, j \in 1..Len(d) : d[i] = d[j] => i = j
    BY <1>14
  <2>3. QED
    BY <1>3, <1>12, <1>13, <1>15, <1>16, <1>17, <2>1, <2>2 DEF Chain
<1>19. QED
  BY <1>3, <1>10, <1>18 DEF IsUnlinked

(* The list when it is destroyed.                                            *)
LEMMA DestroyedChain ==
  ASSUME NEW s, NEW c, Chain(s, c)
  PROVE  DestroyAll(s) = EmptyStore
<1>1. Nodes(s) = c /\ c \in Seq(Ids)
  BY NodesAreTheChain DEF Chain
<1>2. ASSUME NEW n \in Ids
      PROVE  (IF n \in {Nodes(s)[i] : i \in DOMAIN Nodes(s)}
              THEN Freed ELSE s.node[n]) = Freed
  <2>1. CASE \E j \in 1..Len(c) : c[j] = n
    BY <1>1, <2>1
  <2>2. CASE \A j \in 1..Len(c) : c[j] # n
    BY <1>1, <2>2 DEF Chain
  <2>3. QED
    BY <2>1, <2>2
<1> DEFINE none == [n \in Ids |-> IF n \in {Nodes(s)[i] : i \in DOMAIN Nodes(s)}
                                 THEN Freed ELSE s.node[n]]
<1>3. none = [n \in Ids |-> Freed]
  BY <1>2
<1>4. DestroyAll(s) = [EmptyStore EXCEPT !.node = none]
  BY DEF DestroyAll
<1> HIDE DEF none
<1>5. QED
  BY <1>3, <1>4 DEF EmptyStore

LEMMA EmptyChain == Chain(EmptyStore, <<>>)
<1>1. EmptyStore \in Stores
  BY DEF EmptyStore, Stores, Links
<1>2. <<>> \in Seq(Ids) /\ Len(<<>>) = 0
  OBVIOUS
<1>3. QED
  BY <1>1, <1>2, Sizes DEF Chain, EmptyStore, Link

-----------------------------------------------------------------------------
(* What the operations do to the values of a name.                           *)

Any == Values \cup {NoValue}

ValuesOf(s, k) ==
  Gathered(s, [n \in Ids |-> IF s.node[n].key = k THEN <<s.node[n].value>>
                             ELSE <<>>])

(* The values of k that a list has from each of its places on.               *)
AreValues(r, s, c, k) ==
  /\ r \in [1..Len(c) + 1 -> Seq(Any)]
  /\ r[Len(c) + 1] = <<>>
  /\ \A j \in 1..Len(c) :
       r[j] = IF KeyAt(s, c, j) = k THEN <<ValueAt(s, c, j)>> \o r[j + 1]
              ELSE r[j + 1]

LEMMA ValuesExist ==
  ASSUME NEW s, NEW c, Chain(s, c), NEW k \in Keys
  PROVE  \E r : AreValues(r, s, c, k) /\ r[1] = ValuesOf(s, k)
<1> DEFINE f == [n \in Ids |-> IF s.node[n].key = k THEN <<s.node[n].value>>
                              ELSE <<>>]
<1>1. \A n \in Ids : s.node[n].value \in Any
  <2>1. \A e \in NodeType \cup {Freed} : e.value \in Any
    BY DEF NodeType, Freed, Any
  <2>2. QED
    BY <2>1, ChainTypes
<1>2. f \in [Ids -> Seq(Any)]
  <2>1. \A v \in Any : <<v>> \in Seq(Any)
    OBVIOUS
  <2>2. <<>> \in Seq(Any)
    OBVIOUS
  <2>3. QED
    BY <1>1, <2>1, <2>2
<1>3. ValuesOf(s, k) = Gathered(s, f)
  BY DEF ValuesOf
<1>4. \A n \in Ids : f[n] = IF s.node[n].key = k THEN <<s.node[n].value>>
                             ELSE <<>>
  OBVIOUS
<1> HIDE DEF f
<1>5. PICK r : IsGathered(r, Any, c, f) /\ r[1] = Gathered(s, f)
  BY <1>2, GatheredFacts
<1>6. /\ r \in [1..Len(c) + 1 -> Seq(Any)] /\ r[Len(c) + 1] = <<>>
      /\ \A j \in 1..Len(c) : r[j] = f[c[j]] \o r[j + 1]
  BY <1>5 DEF IsGathered
<1>7. ASSUME NEW j \in 1..Len(c)
      PROVE  r[j] = IF KeyAt(s, c, j) = k THEN <<ValueAt(s, c, j)>> \o r[j + 1]
                    ELSE r[j + 1]
  <2>1. c[j] \in Ids /\ j + 1 \in 1..Len(c) + 1
    BY ChainTypes
  <2>2. r[j] = f[c[j]] \o r[j + 1] /\ r[j + 1] \in Seq(Any)
    BY <1>6, <2>1
  <2>3. <<>> \o r[j + 1] = r[j + 1]
    BY <2>2, ConcatEmptySeq
  <2>4. QED
    BY <1>4, <2>1, <2>2, <2>3 DEF KeyAt, ValueAt
<1>8. AreValues(r, s, c, k)
  BY <1>6, <1>7 DEF AreValues
<1>9. QED
  BY <1>3, <1>5, <1>8

(* The first value is the first node's.                                      *)
IsFirst(s, c, k, p) ==
  /\ p \in 1..Len(c) /\ KeyAt(s, c, p) = k
  /\ \A j \in 1..p - 1 : KeyAt(s, c, j) # k

LEMMA FirstValue ==
  ASSUME NEW s, NEW c, Chain(s, c), NEW k, NEW r, AreValues(r, s, c, k)
  PROVE  /\ (\A j \in 1..Len(c) : KeyAt(s, c, j) # k) => r[1] = <<>>
         /\ \A p : IsFirst(s, c, k, p) =>
              /\ r[1] = <<ValueAt(s, c, p)>> \o r[p + 1]
              /\ ValueAt(s, c, p) \in Any /\ r[p + 1] \in Seq(Any)
<1>1. /\ r \in [1..Len(c) + 1 -> Seq(Any)]
      /\ r[Len(c) + 1] = <<>>
      /\ \A j \in 1..Len(c) :
           r[j] = IF KeyAt(s, c, j) = k THEN <<ValueAt(s, c, j)>> \o r[j + 1]
                  ELSE r[j + 1]
  BY DEF AreValues
<1>2. Len(c) \in Nat
  BY ChainTypes
<1>3. ASSUME \A j \in 1..Len(c) : KeyAt(s, c, j) # k PROVE r[1] = <<>>
  <2> DEFINE T == {j \in 1..Len(c) + 1 : r[j] = <<>>}
  <2>1. Len(c) + 1 \in T
    <3>1. Len(c) + 1 \in 1..Len(c) + 1
      BY <1>2
    <3>2. QED
      BY <1>1, <3>1
  <2>2. ASSUME NEW j \in 1..Len(c), j + 1 \in T PROVE j \in T
    <3>1. j \in 1..Len(c) + 1
      BY <1>2
    <3>2. QED
      BY <1>1, <1>3, <2>2, <3>1
  <2> HIDE DEF T
  <2>3. 1..Len(c) + 1 \subseteq T
    BY <1>2, <2>1, <2>2, DownInduction
  <2>4. QED
    BY <1>2, <2>3 DEF T
<1>4. ASSUME NEW p, IsFirst(s, c, k, p)
      PROVE  /\ r[1] = <<ValueAt(s, c, p)>> \o r[p + 1]
             /\ ValueAt(s, c, p) \in Any /\ r[p + 1] \in Seq(Any)
  <2>1. /\ p \in 1..Len(c) /\ KeyAt(s, c, p) = k /\ p - 1 \in Nat /\ p \in Nat
        /\ \A j \in 1..p - 1 : KeyAt(s, c, j) # k
    BY <1>2, <1>4 DEF IsFirst
  <2> DEFINE T == {j \in 1..p : r[j] = r[p]}
  <2>2. (p - 1) + 1 \in T
    BY <2>1
  <2>3. ASSUME NEW j \in 1..p - 1, j + 1 \in T PROVE j \in T
    <3>1. j \in 1..Len(c) /\ j \in 1..p /\ KeyAt(s, c, j) # k
      BY <1>2, <2>1
    <3>2. QED
      BY <1>1, <2>3, <3>1
  <2> HIDE DEF T
  <2>4. 1..(p - 1) + 1 \subseteq T
    BY <2>1, <2>2, <2>3, DownInduction
  <2>5. r[1] = r[p]
    BY <2>1, <2>4 DEF T
  <2>6. r[p] = <<ValueAt(s, c, p)>> \o r[p + 1]
    BY <1>1, <2>1
  <2>7. r[p + 1] \in Seq(Any)
    BY <1>1, <1>2, <2>1
  <2>8. ValueAt(s, c, p) \in Any
    <3>1. s.node[c[p]] \in NodeType
      BY <2>1 DEF Chain
    <3>2. QED
      BY <3>1 DEF ValueAt, NodeType, Any
  <2>9. QED
    BY <2>5, <2>6, <2>7, <2>8
<1>5. QED
  BY <1>3, <1>4

LEMMA AppendMoves ==
  ASSUME NEW S, NEW a \in S, NEW v \in S, NEW seq \in Seq(S)
  PROVE  <<a>> \o Append(seq, v) = Append(<<a>> \o seq, v)
<1>1. <<a>> \in Seq(S) /\ Len(<<a>>) = 1 /\ <<a>>[1] = a
  OBVIOUS
<1>2. Append(seq, v) = seq \o <<v>> /\ <<v>> \in Seq(S)
  OBVIOUS
<1>3. <<a>> \o seq \in Seq(S)
  BY <1>1, ConcatProperties
<1>4. Append(<<a>> \o seq, v) = (<<a>> \o seq) \o <<v>>
  BY <1>3
<1>5. QED
  BY <1>1, <1>2, <1>4, ConcatAssociative

LEMMA AppendValues ==
  ASSUME NEW s, NEW c, Chain(s, c), Len(c) < MaxNodes,
         NEW k \in Keys, NEW v \in Any, NEW x \in Keys
  PROVE  ValuesOf(AppendNode(s, k, v), x)
           = IF x = k THEN Append(ValuesOf(s, x), v) ELSE ValuesOf(s, x)
<1> DEFINE t == AppendNode(s, k, v)
           d == Append(c, New(s))
<1>1. /\ Chain(t, d) /\ Len(d) = Len(c) + 1
      /\ \A j \in 1..Len(c) : /\ KeyAt(t, d, j) = KeyAt(s, c, j)
                              /\ ValueAt(t, d, j) = ValueAt(s, c, j)
      /\ KeyAt(t, d, Len(d)) = k /\ ValueAt(t, d, Len(d)) = v
  <2>1. IsAppended(s, c, t, d, k, v)
    BY AppendChain DEF Any
  <2> HIDE DEF t, d
  <2>2. QED
    BY <2>1 DEF IsAppended
<1> HIDE DEF t, d
<1>2. PICK r : AreValues(r, s, c, x) /\ r[1] = ValuesOf(s, x)
  BY ValuesExist
<1>3. PICK q : AreValues(q, t, d, x) /\ q[1] = ValuesOf(t, x)
  BY <1>1, ValuesExist
<1>4. /\ r \in [1..Len(c) + 1 -> Seq(Any)] /\ r[Len(c) + 1] = <<>>
      /\ \A j \in 1..Len(c) :
           r[j] = IF KeyAt(s, c, j) = x THEN <<ValueAt(s, c, j)>> \o r[j + 1]
                  ELSE r[j + 1]
  BY <1>2 DEF AreValues
<1>5. /\ q[Len(d) + 1] = <<>>
      /\ \A j \in 1..Len(d) :
           q[j] = IF KeyAt(t, d, j) = x THEN <<ValueAt(t, d, j)>> \o q[j + 1]
                  ELSE q[j + 1]
  BY <1>3 DEF AreValues
<1>6. Len(c) \in Nat
  BY ChainTypes
<1> DEFINE with(seq) == IF x = k THEN Append(seq, v) ELSE seq
           T == {j \in 1..Len(c) + 1 : q[j] = with(r[j])}
<1>7. Len(c) + 1 \in T
  <2>1. Len(d) \in 1..Len(d)
    BY <1>1, <1>6
  <2>2. q[Len(d)] = IF k = x THEN <<v>> \o <<>> ELSE <<>>
    BY <1>1, <1>5, <2>1
  <2>3. <<v>> \o <<>> = Append(<<>>, v)
    OBVIOUS
  <2>4. Len(c) + 1 \in 1..Len(c) + 1
    BY <1>6
  <2>5. q[Len(c) + 1] = with(r[Len(c) + 1])
    BY <1>1, <1>4, <2>2, <2>3
  <2>6. QED
    BY <2>4, <2>5
<1>8. ASSUME NEW j \in 1..Len(c), j + 1 \in T PROVE j \in T
  <2>1. /\ j \in 1..Len(d) /\ j \in 1..Len(c) + 1 /\ j + 1 \in 1..Len(c) + 1
        /\ q[j + 1] = with(r[j + 1]) /\ r[j + 1] \in Seq(Any)
    BY <1>1, <1>4, <1>6, <1>8
  <2>2. CASE KeyAt(s, c, j) = x
    <3>1. ValueAt(s, c, j) \in Any
      <4>1. s.node[c[j]] \in NodeType
        BY DEF Chain
      <4>2. QED
        BY <4>1 DEF ValueAt, NodeType, Any
    <3>2. /\ q[j] = <<ValueAt(s, c, j)>> \o with(r[j + 1])
          /\ r[j] = <<ValueAt(s, c, j)>> \o r[j + 1]
      BY <1>1, <1>4, <1>5, <2>1, <2>2
    <3>3. <<ValueAt(s, c, j)>> \o Append(r[j + 1], v)
            = Append(<<ValueAt(s, c, j)>> \o r[j + 1], v)
      BY <2>1, <3>1, AppendMoves
    <3>4. QED
      BY <2>1, <3>2, <3>3
  <2>3. CASE KeyAt(s, c, j) # x
    BY <1>1, <1>4, <1>5, <2>1, <2>3
  <2>4. QED
    BY <2>2, <2>3
<1> HIDE DEF T
<1>9. 1..Len(c) + 1 \subseteq T
  BY <1>6, <1>7, <1>8, DownInduction
<1>10. q[1] = with(r[1])
  BY <1>6, <1>9 DEF T
<1>11. QED
  BY <1>2, <1>3, <1>10 DEF t

LEMMA TailOfValue ==
  ASSUME NEW S, NEW a \in S, NEW seq \in Seq(S)
  PROVE  <<a>> \o seq # <<>> /\ Tail(<<a>> \o seq) = seq
         /\ Head(<<a>> \o seq) = a
<1> DEFINE w == <<a>> \o seq
<1>1. <<a>> \in Seq(S) /\ Len(<<a>>) = 1 /\ <<a>>[1] = a
  OBVIOUS
<1>2. /\ w \in Seq(S) /\ Len(w) = 1 + Len(seq) /\ Len(seq) \in Nat
      /\ \A i \in 1..1 + Len(seq) : w[i] = IF i <= 1 THEN <<a>>[i] ELSE seq[i - 1]
  BY <1>1, ConcatProperties
<1> HIDE DEF w
<1>3. w # <<>> /\ w[1] = a
  BY <1>1, <1>2
<1>4. /\ Tail(w) \in Seq(S) /\ Len(Tail(w)) = Len(seq)
      /\ \A i \in 1..Len(seq) : Tail(w)[i] = w[i + 1]
  BY <1>2, <1>3, HeadTailProperties
<1>5. \A i \in 1..Len(seq) : Tail(w)[i] = seq[i]
  <2> SUFFICES ASSUME NEW i \in 1..Len(seq) PROVE Tail(w)[i] = seq[i]
    OBVIOUS
  <2>1. i + 1 \in 1..1 + Len(seq) /\ ~(i + 1 <= 1) /\ (i + 1) - 1 = i
    BY <1>2
  <2>2. QED
    BY <1>2, <1>4, <2>1
<1>6. Tail(w) = seq
  BY <1>4, <1>5, SeqEqual
<1>7. Head(w) = a
  BY <1>2, <1>3
<1>8. QED
  BY <1>3, <1>6, <1>7 DEF w

LEMMA SetValues ==
  ASSUME NEW s, NEW c, Chain(s, c), NEW k \in Keys, NEW v \in Any,
         NEW p, IsFirst(s, c, k, p), NEW x \in Keys
  PROVE  /\ x = k => ValuesOf(s, x) # <<>>
         /\ ValuesOf(WithValue(s, c[p], v), x)
              = IF x = k THEN <<v>> \o Tail(ValuesOf(s, x)) ELSE ValuesOf(s, x)
<1> DEFINE t == WithValue(s, c[p], v)
<1>0. p \in 1..Len(c) /\ Len(c) \in Nat
  BY ChainTypes DEF IsFirst
<1>1. /\ Chain(t, c)
      /\ \A j \in 1..Len(c) :
           /\ KeyAt(t, c, j) = KeyAt(s, c, j)
           /\ ValueAt(t, c, j) = IF j = p THEN v ELSE ValueAt(s, c, j)
  <2>1. IsReplaced(s, c, t, p, v)
    BY <1>0, SetValueChain DEF Any
  <2> HIDE DEF t
  <2>2. QED
    BY <2>1 DEF IsReplaced
<1> HIDE DEF t
<1>2. PICK r : AreValues(r, s, c, x) /\ r[1] = ValuesOf(s, x)
  BY ValuesExist
<1>3. PICK q : AreValues(q, t, c, x) /\ q[1] = ValuesOf(t, x)
  BY <1>1, ValuesExist
<1>4. /\ r[Len(c) + 1] = <<>>
      /\ \A j \in 1..Len(c) :
           r[j] = IF KeyAt(s, c, j) = x THEN <<ValueAt(s, c, j)>> \o r[j + 1]
                  ELSE r[j + 1]
  BY <1>2 DEF AreValues
<1>5. /\ q[Len(c) + 1] = <<>>
      /\ \A j \in 1..Len(c) :
           q[j] = IF KeyAt(t, c, j) = x THEN <<ValueAt(t, c, j)>> \o q[j + 1]
                  ELSE q[j + 1]
  BY <1>3 DEF AreValues
<1> DEFINE T == {j \in 1..Len(c) + 1 : (x = k /\ j <= p) \/ q[j] = r[j]}
<1>6. Len(c) + 1 \in T
  BY <1>0, <1>4, <1>5
<1>7. ASSUME NEW j \in 1..Len(c), j + 1 \in T PROVE j \in T
  <2>1. j \in 1..Len(c) + 1
    BY <1>0
  <2>2. CASE x = k /\ j <= p
    BY <2>1, <2>2
  <2>3. CASE ~(x = k /\ j <= p)
    <3>1. q[j + 1] = r[j + 1]
      BY <1>0, <1>7, <2>3
    <3>2. KeyAt(s, c, j) = x => j # p
      BY <2>3 DEF IsFirst
    <3>3. q[j] = r[j]
      BY <1>1, <1>4, <1>5, <3>1, <3>2
    <3>4. QED
      BY <2>1, <3>3
  <2>4. QED
    BY <2>2, <2>3
<1> HIDE DEF T
<1>8. 1..Len(c) + 1 \subseteq T
  BY <1>0, <1>6, <1>7, DownInduction
<1>9. CASE x # k
  <2>1. q[1] = r[1]
    BY <1>0, <1>8, <1>9 DEF T
  <2>2. QED
    BY <1>2, <1>3, <1>9, <2>1 DEF t
<1>10. CASE x = k
  <2>1. IsFirst(t, c, x, p)
    <3>1. \A j \in 1..p - 1 : j \in 1..Len(c)
      BY <1>0
    <3>2. QED
      BY <1>0, <1>1, <1>10, <3>1 DEF IsFirst
  <2>2. /\ r[1] = <<ValueAt(s, c, p)>> \o r[p + 1]
        /\ ValueAt(s, c, p) \in Any /\ r[p + 1] \in Seq(Any)
    BY <1>2, <1>10, FirstValue
  <2>3. q[1] = <<ValueAt(t, c, p)>> \o q[p + 1]
    BY <1>1, <1>3, <2>1, FirstValue
  <2>4. ValueAt(t, c, p) = v
    BY <1>0, <1>1
  <2>5. q[p + 1] = r[p + 1]
    <3>1. p + 1 \in T /\ ~(p + 1 <= p)
      BY <1>0, <1>8
    <3>2. QED
      BY <3>1 DEF T
  <2>6. r[1] # <<>> /\ Tail(r[1]) = r[p + 1]
    BY <2>2, TailOfValue
  <2>7. QED
    BY <1>2, <1>3, <1>10, <2>3, <2>4, <2>5, <2>6 DEF t
<1>11. QED
  BY <1>9, <1>10

LEMMA UnlinkValues ==
  ASSUME NEW s, NEW c, Chain(s, c), NEW k \in Keys,
         NEW p, IsFirst(s, c, k, p), NEW x \in Keys
  PROVE  /\ x = k => ValuesOf(s, x) # <<>>
         /\ ValuesOf(Unlink(s, p, TailWithout(s, p)), x)
              = IF x = k THEN Tail(ValuesOf(s, x)) ELSE ValuesOf(s, x)
<1> DEFINE t == Unlink(s, p, TailWithout(s, p))
           d == Without(c, p)
<1>0. p \in 1..Len(c) /\ Len(c) \in Nat
  BY ChainTypes DEF IsFirst
<1>1. /\ Chain(t, d) /\ Len(d) = Len(c) - 1
      /\ \A j \in 1..Len(d) :
           /\ KeyAt(t, d, j) = KeyAt(s, c, IF j < p THEN j ELSE j + 1)
           /\ ValueAt(t, d, j) = ValueAt(s, c, IF j < p THEN j ELSE j + 1)
  <2>1. IsUnlinked(s, c, t, d, p)
    BY <1>0, UnlinkChain
  <2> HIDE DEF t, d
  <2>2. QED
    BY <2>1 DEF IsUnlinked
<1> HIDE DEF t, d
<1>2. PICK r : AreValues(r, s, c, x) /\ r[1] = ValuesOf(s, x)
  BY ValuesExist
<1>3. PICK q : AreValues(q, t, d, x) /\ q[1] = ValuesOf(t, x)
  BY <1>1, ValuesExist
<1>4. /\ r[Len(c) + 1] = <<>>
      /\ \A j \in 1..Len(c) :
           r[j] = IF KeyAt(s, c, j) = x THEN <<ValueAt(s, c, j)>> \o r[j + 1]
                  ELSE r[j + 1]
  BY <1>2 DEF AreValues
<1>5. /\ q[Len(d) + 1] = <<>>
      /\ \A j \in 1..Len(d) :
           q[j] = IF KeyAt(t, d, j) = x THEN <<ValueAt(t, d, j)>> \o q[j + 1]
                  ELSE q[j + 1]
  BY <1>3 DEF AreValues
<1>6. KeyAt(s, c, p) = k /\ \A j \in 1..p - 1 : KeyAt(s, c, j) # k
  BY DEF IsFirst
<1>7. ASSUME NEW j \in 1..Len(d), ~(x = k /\ j < p),
             q[j + 1] = r[IF j + 1 < p THEN j + 1 ELSE j + 2]
      PROVE  q[j] = r[IF j < p THEN j ELSE j + 1]
  <2>1. j \in 1..Len(c) /\ j + 1 \in 1..Len(c) /\ j \in Nat
    BY <1>0, <1>1
  <2>2. CASE j < p
    <3>1. q[j + 1] = r[j + 1]
      <4>1. CASE j + 1 < p
        BY <1>7, <4>1
      <4>2. CASE ~(j + 1 < p)
        <5>1. j + 1 = p /\ x # k
          BY <1>0, <1>7, <2>1, <2>2, <4>2
        <5>2. KeyAt(s, c, j + 1) # x /\ (j + 1) + 1 = j + 2
          BY <1>6, <2>1, <5>1
        <5>3. r[j + 1] = r[j + 2]
          BY <1>4, <2>1, <5>2
        <5>4. QED
          BY <1>7, <4>2, <5>3
      <4>3. QED
        BY <4>1, <4>2
    <3>2. /\ KeyAt(t, d, j) = KeyAt(s, c, j)
          /\ ValueAt(t, d, j) = ValueAt(s, c, j)
      BY <1>1, <2>2
    <3>3. q[j] = r[j]
      BY <1>4, <1>5, <2>1, <3>1, <3>2
    <3>4. QED
      BY <2>2, <3>3
  <2>3. CASE ~(j < p)
    <3>1. ~(j + 1 < p)
      BY <1>0, <2>1, <2>3
    <3>2. q[j + 1] = r[j + 2] /\ (j + 1) + 1 = j + 2
      BY <1>7, <2>1, <3>1
    <3>3. /\ KeyAt(t, d, j) = KeyAt(s, c, j + 1)
          /\ ValueAt(t, d, j) = ValueAt(s, c, j + 1)
      BY <1>1, <2>3
    <3>4. q[j] = r[j + 1]
      BY <1>4, <1>5, <2>1, <3>2, <3>3
    <3>5. QED
      BY <2>3, <3>4
  <2>4. QED
    BY <2>2, <2>3
<1> DEFINE at(j) == IF j < p THEN IF x = k THEN p + 1 ELSE j ELSE j + 1
           T == {j \in 1..Len(d) + 1 : q[j] = r[at(j)]}
<1>8. Len(d) + 1 \in T
  <2>1. Len(d) + 1 = Len(c) /\ ~(Len(c) < p) /\ Len(c) \in 1..Len(d) + 1
    BY <1>0, <1>1
  <2>2. at(Len(d) + 1) = Len(c) + 1
    BY <2>1
  <2>3. QED
    BY <1>4, <1>5, <2>1, <2>2
<1>9. ASSUME NEW j \in 1..Len(d), j + 1 \in T PROVE j \in T
  <2>1. q[j + 1] = r[at(j + 1)] /\ j \in 1..Len(d) + 1 /\ j \in Nat
    BY <1>0, <1>1, <1>9
  <2>2. CASE x = k /\ j < p
    <3>1. at(j + 1) = p + 1 /\ at(j) = p + 1
      BY <1>0, <2>1, <2>2
    <3>2. KeyAt(t, d, j) # x
      BY <1>0, <1>1, <1>6, <2>1, <2>2
    <3>3. q[j] = q[j + 1]
      BY <1>5, <3>2
    <3>4. QED
      BY <2>1, <3>1, <3>3
  <2>3. CASE ~(x = k /\ j < p)
    <3>1. /\ at(j + 1) = (IF j + 1 < p THEN j + 1 ELSE j + 2)
          /\ at(j) = (IF j < p THEN j ELSE j + 1)
      BY <1>0, <2>1, <2>3
    <3> HIDE DEF at
    <3>2. q[j] = r[at(j)]
      BY <1>7, <2>1, <2>3, <3>1
    <3>3. QED
      BY <2>1, <3>2
  <2>4. QED
    BY <2>2, <2>3
<1> HIDE DEF T
<1>10. 1..Len(d) + 1 \subseteq T
  <2>1. Len(d) \in Nat
    BY <1>0, <1>1
  <2>2. QED
    BY <1>8, <1>9, <2>1, DownInduction
<1>11. q[1] = r[at(1)]
  <2>1. 1 \in 1..Len(d) + 1
    BY <1>0, <1>1
  <2>2. QED
    BY <1>10, <2>1 DEF T
<1>12. CASE x = k
  <2>1. /\ r[1] = <<ValueAt(s, c, p)>> \o r[p + 1]
        /\ ValueAt(s, c, p) \in Any /\ r[p + 1] \in Seq(Any)
    BY <1>2, <1>12, FirstValue
  <2>2. r[1] # <<>> /\ Tail(r[1]) = r[p + 1]
    BY <2>1, TailOfValue
  <2>3. at(1) = p + 1
    BY <1>0, <1>12
  <2>4. QED
    BY <1>2, <1>3, <1>11, <1>12, <2>2, <2>3 DEF t
<1>13. CASE x # k
  <2>1. r[at(1)] = r[1]
    <3>1. CASE p = 1
      <4>1. KeyAt(s, c, 1) # x /\ 1 \in 1..Len(c)
        BY <1>0, <1>6, <1>13, <3>1
      <4>2. r[1] = r[1 + 1]
        BY <1>4, <4>1
      <4>3. QED
        BY <3>1, <4>2
    <3>2. CASE p # 1
      BY <1>0, <1>13, <3>2
    <3>3. QED
      BY <3>1, <3>2
  <2>2. QED
    BY <1>2, <1>3, <1>11, <1>13, <2>1 DEF t
<1>14. QED
  BY <1>12, <1>13

-----------------------------------------------------------------------------
(* The operations.  A list can be changed as long as there is memory for     *)
(* what is in it and every name that is not.                                 *)

KeysOf(s, c) == {KeyAt(s, c, j) : j \in 1..Len(c)}
HasRoom(s, c) == Len(c) + Cardinality(Keys \ KeysOf(s, c)) <= MaxNodes
Sound(s) == \E c : Chain(s, c)
Usable(s) == \E c : Chain(s, c) /\ HasRoom(s, c)

Replaced(values, v) == IF values = <<>> THEN <<v>> ELSE <<v>> \o Tail(values)
Dropped(values)     == IF values = <<>> THEN <<>> ELSE Tail(values)

LEMMA Absent ==
  ASSUME NEW S
  PROVE  IsFiniteSet(Keys \ S) /\ Cardinality(Keys \ S) \in Nat
BY KeyAssumption, FS_Difference, FS_CardinalityType

(* What is looked up is the first value.                                     *)
LEMMA GetFacts ==
  ASSUME NEW s, Sound(s), NEW k \in Keys
  PROVE  /\ ValuesOf(s, k) \in Seq(Any)
         /\ Get(s, k) = IF ValuesOf(s, k) = <<>> THEN NoValue
                        ELSE Head(ValuesOf(s, k))
<1>1. PICK c : Chain(s, c)
  BY DEF Sound
<1>2. PICK r : AreValues(r, s, c, k) /\ r[1] = ValuesOf(s, k)
  BY <1>1, ValuesExist
<1>3. ValuesOf(s, k) \in Seq(Any)
  <2>1. 1 \in 1..Len(c) + 1
    BY <1>1, ChainTypes
  <2>2. QED
    BY <1>2, <2>1 DEF AreValues
<1>4. CASE Place(s, k) = 0
  <2>1. r[1] = <<>>
    BY <1>1, <1>2, <1>4, PlaceFacts, FirstValue
  <2>2. Get(s, k) = NoValue
    BY <1>1, <1>4, PlaceFacts
  <2>3. QED
    BY <1>2, <1>3, <2>1, <2>2
<1>5. CASE Place(s, k) # 0
  <2> DEFINE p == Place(s, k)
  <2>1. IsFirst(s, c, k, p) /\ Get(s, k) = ValueAt(s, c, p)
    <3>1. /\ Place(s, k) \in 0..Len(c) /\ KeyAt(s, c, Place(s, k)) = k
          /\ \A j \in 1..Place(s, k) - 1 : KeyAt(s, c, j) # k
          /\ Get(s, k) = ValueAt(s, c, Place(s, k))
      BY <1>1, <1>5, PlaceFacts
    <3>2. Len(c) \in Nat
      BY <1>1, ChainTypes
    <3>3. QED
      BY <1>5, <3>1, <3>2 DEF IsFirst
  <2> HIDE DEF p
  <2>2. /\ r[1] = <<ValueAt(s, c, p)>> \o r[p + 1]
        /\ ValueAt(s, c, p) \in Any /\ r[p + 1] \in Seq(Any)
    BY <1>1, <1>2, <2>1, FirstValue
  <2>3. r[1] # <<>> /\ Head(r[1]) = ValueAt(s, c, p)
    BY <2>2, TailOfValue
  <2>4. QED
    BY <1>2, <1>3, <2>1, <2>3
<1>6. QED
  BY <1>4, <1>5

LEMMA SetFacts ==
  ASSUME NEW s, Usable(s), NEW k \in Keys, NEW v \in Any
  PROVE  /\ Usable(Set(s, k, v))
         /\ \A x \in Keys :
              ValuesOf(Set(s, k, v), x)
                = IF x = k THEN Replaced(ValuesOf(s, x), v) ELSE ValuesOf(s, x)
<1>1. PICK c : Chain(s, c) /\ HasRoom(s, c)
  BY DEF Usable
<1>2. Len(c) \in Nat
  BY <1>1, ChainTypes
<1> DEFINE absent == Keys \ KeysOf(s, c)
<1>3. IsFiniteSet(absent) /\ Cardinality(absent) \in Nat
  BY Absent
<1>4. CASE Place(s, k) = 0
  <2> DEFINE t == AppendNode(s, k, v)
             d == Append(c, New(s))
  <2>1. Set(s, k, v) = t
    BY <1>1, <1>4, PlaceFacts DEF Set
  <2>2. k \notin KeysOf(s, c)
    BY <1>1, <1>4, PlaceFacts DEF KeysOf
  <2>3. Cardinality(absent \ {k}) = Cardinality(absent) - 1
    BY <1>3, <2>2, FS_RemoveElement
  <2>4. Cardinality(absent \ {k}) \in Nat
    BY <1>3, FS_RemoveElement, FS_CardinalityType
  <2>5. Len(c) < MaxNodes
    <3>1. Len(c) + Cardinality(absent) <= MaxNodes
      BY <1>1 DEF HasRoom
    <3> HIDE DEF absent
    <3>2. QED
      BY <1>2, <1>3, <2>3, <2>4, <3>1, Sizes
  <2>6. IsAppended(s, c, t, d, k, v)
    BY <1>1, <2>5, AppendChain DEF Any
  <2> HIDE DEF t, d
  <2>7. /\ Chain(t, d) /\ Len(d) = Len(c) + 1
        /\ \A j \in 1..Len(c) : KeyAt(t, d, j) = KeyAt(s, c, j)
        /\ KeyAt(t, d, Len(d)) = k
    BY <2>6 DEF IsAppended
  <2>8. KeysOf(t, d) = KeysOf(s, c) \cup {k}
    <3>1. \A j : j \in 1..Len(d) <=> j \in 1..Len(c) \/ j = Len(d)
      BY <1>2, <2>7
    <3>2. QED
      BY <2>7, <3>1 DEF KeysOf
  <2>9. Keys \ KeysOf(t, d) = absent \ {k}
    BY <2>8
  <2>10. HasRoom(t, d)
    <3>1. Len(c) + Cardinality(absent) <= MaxNodes
      BY <1>1 DEF HasRoom
    <3>2. Len(d) + Cardinality(absent \ {k}) <= MaxNodes
      <4> HIDE DEF absent
      <4>1. QED
        BY <1>2, <1>3, <2>3, <2>4, <2>7, <3>1, Sizes
    <3>3. QED
      BY <2>9, <3>2 DEF HasRoom
  <2>11. ValuesOf(s, k) = <<>>
    <3>1. PICK r : AreValues(r, s, c, k) /\ r[1] = ValuesOf(s, k)
      BY <1>1, ValuesExist
    <3>2. QED
      BY <1>1, <1>4, <3>1, PlaceFacts, FirstValue
  <2>12. \A x \in Keys : ValuesOf(t, x)
           = IF x = k THEN Append(ValuesOf(s, x), v) ELSE ValuesOf(s, x)
    BY <1>1, <2>5, AppendValues DEF t
  <2>13. Append(<<>>, v) = <<v>>
    OBVIOUS
  <2>14. Usable(t)
    BY <2>7, <2>10 DEF Usable
  <2>15. \A x \in Keys : ValuesOf(t, x)
           = IF x = k THEN Replaced(ValuesOf(s, x), v) ELSE ValuesOf(s, x)
    BY <2>11, <2>12, <2>13 DEF Replaced
  <2>16. QED
    BY <2>1, <2>14, <2>15
<1>5. CASE Place(s, k) # 0
  <2> DEFINE p == Place(s, k)
             t == WithValue(s, c[p], v)
  <2>1. IsFirst(s, c, k, p)
    <3>1. /\ Place(s, k) \in 0..Len(c) /\ KeyAt(s, c, Place(s, k)) = k
          /\ \A j \in 1..Place(s, k) - 1 : KeyAt(s, c, j) # k
      BY <1>1, <1>5, PlaceFacts
    <3>2. QED
      BY <1>2, <1>5, <3>1 DEF IsFirst
  <2>2. Set(s, k, v) = t
    <3>1. Find(s, k) = c[p] /\ Find(s, k) # Null
      BY <1>1, <1>5, PlaceFacts
    <3>2. QED
      BY <3>1 DEF Set, WithValue
  <2>3. IsReplaced(s, c, t, p, v)
    <3>1. p \in 1..Len(c)
      BY <2>1 DEF IsFirst
    <3> HIDE DEF p
    <3>2. QED
      BY <1>1, <3>1, SetValueChain DEF Any
  <2>4. \A x \in Keys :
          /\ x = k => ValuesOf(s, x) # <<>>
          /\ ValuesOf(t, x)
               = IF x = k THEN <<v>> \o Tail(ValuesOf(s, x)) ELSE ValuesOf(s, x)
    <3> HIDE DEF p
    <3>1. QED
      BY <1>1, <2>1, SetValues
  <2> HIDE DEF t, p
  <2>5. Chain(t, c) /\ KeysOf(t, c) = KeysOf(s, c)
    BY <2>3 DEF IsReplaced, KeysOf
  <2>6. Usable(t)
    BY <1>1, <2>5 DEF Usable, HasRoom
  <2>7. \A x \in Keys : ValuesOf(t, x)
          = IF x = k THEN Replaced(ValuesOf(s, x), v) ELSE ValuesOf(s, x)
    BY <2>4 DEF Replaced
  <2>8. QED
    BY <2>2, <2>6, <2>7
<1>6. QED
  BY <1>4, <1>5

LEMMA UnsetFacts ==
  ASSUME NEW s, Usable(s), NEW k \in Keys
  PROVE  /\ Usable(UnsetKey(s, k))
         /\ \A x \in Keys :
              ValuesOf(UnsetKey(s, k), x)
                = IF x = k THEN Dropped(ValuesOf(s, x)) ELSE ValuesOf(s, x)
<1>1. PICK c : Chain(s, c) /\ HasRoom(s, c)
  BY DEF Usable
<1>2. Len(c) \in Nat
  BY <1>1, ChainTypes
<1>3. CASE Place(s, k) = 0
  <2>1. UnsetKey(s, k) = s
    BY <1>3 DEF UnsetKey
  <2>2. ValuesOf(s, k) = <<>>
    <3>1. PICK r : AreValues(r, s, c, k) /\ r[1] = ValuesOf(s, k)
      BY <1>1, ValuesExist
    <3>2. QED
      BY <1>1, <1>3, <3>1, PlaceFacts, FirstValue
  <2>3. QED
    BY <2>1, <2>2 DEF Dropped
<1>4. CASE Place(s, k) # 0
  <2> DEFINE p == Place(s, k)
             t == Unlink(s, p, TailWithout(s, p))
             d == Without(c, p)
  <2>1. IsFirst(s, c, k, p)
    <3>1. /\ Place(s, k) \in 0..Len(c) /\ KeyAt(s, c, Place(s, k)) = k
          /\ \A j \in 1..Place(s, k) - 1 : KeyAt(s, c, j) # k
      BY <1>1, <1>4, PlaceFacts
    <3>2. QED
      BY <1>2, <1>4, <3>1 DEF IsFirst
  <2>2. UnsetKey(s, k) = t
    BY <1>4 DEF UnsetKey
  <2> HIDE DEF p
  <2>3. p \in 1..Len(c) /\ KeyAt(s, c, p) = k
    BY <2>1 DEF IsFirst
  <2>4. IsUnlinked(s, c, t, d, p)
    BY <1>1, <2>3, UnlinkChain
  <2>5. \A x \in Keys :
          /\ x = k => ValuesOf(s, x) # <<>>
          /\ ValuesOf(t, x)
               = IF x = k THEN Tail(ValuesOf(s, x)) ELSE ValuesOf(s, x)
    BY <1>1, <2>1, UnlinkValues
  <2> HIDE DEF t, d
  <2>6. /\ Chain(t, d) /\ Len(d) = Len(c) - 1
        /\ \A j \in 1..Len(d) :
             KeyAt(t, d, j) = KeyAt(s, c, IF j < p THEN j ELSE j + 1)
    BY <2>4 DEF IsUnlinked
  <2>7. KeysOf(s, c) \subseteq KeysOf(t, d) \cup {k}
    <3> SUFFICES ASSUME NEW i \in 1..Len(c), i # p
                 PROVE  \E j \in 1..Len(d) : KeyAt(t, d, j) = KeyAt(s, c, i)
      BY <2>3 DEF KeysOf
    <3>1. CASE i < p
      <4>1. i \in 1..Len(d)
        BY <1>2, <2>3, <2>6, <3>1
      <4>2. QED
        BY <2>6, <3>1, <4>1
    <3>2. CASE i > p
      <4>1. i - 1 \in 1..Len(d) /\ ~(i - 1 < p) /\ (i - 1) + 1 = i
        BY <1>2, <2>3, <2>6, <3>2
      <4>2. KeyAt(t, d, i - 1) = KeyAt(s, c, i)
        BY <2>6, <4>1
      <4>3. QED
        BY <4>1, <4>2
    <3>3. QED
      BY <1>2, <2>3, <3>1, <3>2
  <2>8. HasRoom(t, d)
    <3> DEFINE before == Keys \ KeysOf(s, c)
               after  == Keys \ KeysOf(t, d)
    <3>1. IsFiniteSet(before) /\ Cardinality(before) \in Nat
      BY Absent
    <3>2. after \in SUBSET (before \cup {k})
      BY <2>7
    <3>3. Cardinality(after) \in Nat
      BY Absent
    <3> HIDE DEF before, after
    <3>4. /\ IsFiniteSet(before \cup {k})
          /\ Cardinality(before \cup {k}) = Cardinality(before)
               \/ Cardinality(before \cup {k}) = Cardinality(before) + 1
      BY <3>1, FS_AddElement
    <3>5. Cardinality(after) <= Cardinality(before \cup {k})
      BY <3>2, <3>4, FS_Subset
    <3>6. Len(c) + Cardinality(before) <= MaxNodes
      BY <1>1 DEF HasRoom, before
    <3>7. Len(d) + Cardinality(after) <= MaxNodes
      BY <1>2, <2>6, <3>1, <3>3, <3>4, <3>5, <3>6, Sizes
    <3>8. QED
      BY <3>7 DEF HasRoom, after
  <2>9. Usable(t)
    BY <2>6, <2>8 DEF Usable
  <2>10. QED
    BY <2>2, <2>5, <2>9 DEF Dropped
<1>5. QED
  BY <1>3, <1>4

(* While the environment is read: there is memory for what is left of it.    *)
EntryKeys(e) == {e[i].key : i \in DOMAIN e}
HasRoomFor(s, c, e) ==
  Len(c) + Len(e) + Cardinality(Keys \ (KeysOf(s, c) \cup EntryKeys(e)))
    <= MaxNodes
Loadable(s, e) ==
  e \in Seq(EntryType) /\ \E c : Chain(s, c) /\ HasRoomFor(s, c, e)

LEMMA LoadFacts ==
  ASSUME NEW s, NEW e, Loadable(s, e), e # <<>>
  PROVE  LET k == Head(e).key
             v == Head(e).value
             t == AppendNode(s, k, v) IN
         /\ k \in Keys /\ v \in Any /\ Loadable(t, Tail(e))
         /\ \A x \in Keys :
              ValuesOf(t, x) = IF x = k THEN Append(ValuesOf(s, x), v)
                               ELSE ValuesOf(s, x)
<1> DEFINE k == Head(e).key
           v == Head(e).value
           t == AppendNode(s, k, v)
<1>1. PICK c : Chain(s, c) /\ HasRoomFor(s, c, e)
  BY DEF Loadable
<1>2. Len(c) \in Nat
  BY <1>1, ChainTypes
<1>3. /\ e \in Seq(EntryType) /\ Len(e) \in Nat /\ Len(e) >= 1
      /\ Head(e) = e[1] /\ e[1] \in EntryType
  BY DEF Loadable
<1>4. k \in Keys /\ v \in Any
  BY <1>3 DEF EntryType, Any
<1>5. /\ Tail(e) \in Seq(EntryType) /\ Len(Tail(e)) = Len(e) - 1
      /\ \A i \in 1..Len(e) - 1 : Tail(e)[i] = e[i + 1]
  BY <1>3, HeadTailProperties
<1> DEFINE absent == Keys \ (KeysOf(s, c) \cup EntryKeys(e))
<1>6. Cardinality(absent) \in Nat
  BY Absent
<1>7. Len(c) + Len(e) + Cardinality(absent) <= MaxNodes
  BY <1>1 DEF HasRoomFor
<1>8. Len(c) < MaxNodes
  <2> HIDE DEF absent
  <2>1. QED
    BY <1>2, <1>3, <1>6, <1>7, Sizes
<1> DEFINE d == Append(c, New(s))
<1>9. /\ Chain(t, d) /\ Len(d) = Len(c) + 1
      /\ \A j \in 1..Len(c) : KeyAt(t, d, j) = KeyAt(s, c, j)
      /\ KeyAt(t, d, Len(d)) = k
  <2>1. IsAppended(s, c, t, d, k, v)
    <3> HIDE DEF k, v
    <3>1. QED
      BY <1>1, <1>4, <1>8, AppendChain DEF Any
  <2> HIDE DEF t, d, k, v
  <2>2. QED
    BY <2>1 DEF IsAppended
<1>10. \A x \in Keys : ValuesOf(t, x) = IF x = k THEN Append(ValuesOf(s, x), v)
                                        ELSE ValuesOf(s, x)
  <2> HIDE DEF k, v
  <2>1. QED
    BY <1>1, <1>4, <1>8, AppendValues
<1> HIDE DEF t, d
<1>11. KeysOf(t, d) = KeysOf(s, c) \cup {k}
  <2>1. \A j : j \in 1..Len(d) <=> j \in 1..Len(c) \/ j = Len(d)
    BY <1>2, <1>9
  <2>2. QED
    BY <1>9, <2>1 DEF KeysOf
<1>12. EntryKeys(e) = {k} \cup EntryKeys(Tail(e))
  <2>1. DOMAIN e = 1..Len(e) /\ DOMAIN Tail(e) = 1..Len(e) - 1
    BY <1>3, <1>5
  <2>2. ASSUME NEW i \in 1..Len(e) - 1 PROVE e[i + 1].key = Tail(e)[i].key
    BY <1>5
  <2>3. ASSUME NEW i \in 1..Len(e)
        PROVE  i = 1 \/ \E m \in 1..Len(e) - 1 : i = m + 1
    <3>1. CASE i # 1
      <4>1. i - 1 \in 1..Len(e) - 1 /\ i = (i - 1) + 1
        BY <1>3, <3>1
      <4>2. QED
        BY <4>1
    <3>2. QED
      BY <3>1
  <2>4. e[1].key = k /\ 1 \in 1..Len(e)
    BY <1>3
  <2>5. \A i \in 1..Len(e) - 1 : i + 1 \in 1..Len(e)
    BY <1>3
  <2> HIDE DEF k
  <2>6. EntryKeys(e) \subseteq {k} \cup EntryKeys(Tail(e))
    <3> SUFFICES ASSUME NEW i \in 1..Len(e)
                 PROVE  e[i].key = k \/ \E m \in 1..Len(e) - 1 :
                                           e[i].key = Tail(e)[m].key
      BY <2>1 DEF EntryKeys
    <3>1. CASE i = 1
      BY <2>4, <3>1
    <3>2. CASE i # 1
      <4>1. PICK m \in 1..Len(e) - 1 : i = m + 1
        BY <2>3, <3>2
      <4>2. QED
        BY <2>2, <4>1
    <3>3. QED
      BY <3>1, <3>2
  <2>7. {k} \cup EntryKeys(Tail(e)) \subseteq EntryKeys(e)
    BY <2>1, <2>2, <2>4, <2>5 DEF EntryKeys
  <2>8. QED
    BY <2>6, <2>7
<1>13. Keys \ (KeysOf(t, d) \cup EntryKeys(Tail(e))) = absent
  BY <1>11, <1>12
<1>14. Len(d) + Len(Tail(e)) + Cardinality(absent) <= MaxNodes
  <2> HIDE DEF absent
  <2>1. QED
    BY <1>2, <1>3, <1>5, <1>6, <1>7, <1>9, Sizes
<1>15. HasRoomFor(t, d, Tail(e))
  BY <1>13, <1>14 DEF HasRoomFor
<1>16. Loadable(t, Tail(e))
  BY <1>5, <1>9, <1>15 DEF Loadable
<1>17. QED
  BY <1>4, <1>10, <1>16 DEF t

LEMMA LoadedFacts ==
  ASSUME NEW s, NEW e, Loadable(s, e), e = <<>>
  PROVE  Usable(s)
<1>1. PICK c : Chain(s, c) /\ HasRoomFor(s, c, e)
  BY DEF Loadable
<1>2. Len(e) = 0 /\ EntryKeys(e) = {} /\ Len(c) \in Nat
  BY <1>1, ChainTypes DEF EntryKeys
<1>3. Cardinality(Keys \ KeysOf(s, c)) \in Nat
  BY Absent
<1>4. Keys \ (KeysOf(s, c) \cup EntryKeys(e)) = Keys \ KeysOf(s, c)
  BY <1>2
<1>5. HasRoom(s, c)
  <2>1. Len(c) + Len(e) + Cardinality(Keys \ KeysOf(s, c)) <= MaxNodes
    BY <1>1, <1>4 DEF HasRoomFor
  <2>2. Len(c) + Len(e) = Len(c)
    BY <1>2
  <2>3. QED
    BY <2>1, <2>2 DEF HasRoom
<1>6. QED
  BY <1>1, <1>5 DEF Usable

LEMMA EmptyIsLoadable ==
  ASSUME NEW e \in Envps PROVE Loadable(EmptyStore, e)
<1>1. /\ e \in Seq(EntryType)
      /\ Len(e) + Cardinality(Keys \ EntryKeys(e)) <= MaxNodes
  BY MemoryAssumption DEF EntryKeys
<1>2. KeysOf(EmptyStore, <<>>) = {} /\ Len(<<>>) = 0 /\ Len(e) \in Nat
  BY <1>1 DEF KeysOf
<1>3. Keys \ (KeysOf(EmptyStore, <<>>) \cup EntryKeys(e)) = Keys \ EntryKeys(e)
  BY <1>2
<1>4. HasRoomFor(EmptyStore, <<>>, e)
  <2>1. Len(<<>>) + Len(e) = Len(e)
    BY <1>2
  <2>2. QED
    BY <1>1, <1>3, <2>1 DEF HasRoomFor
<1>5. QED
  BY <1>1, <1>4, EmptyChain DEF Loadable

(* What cd does.                                                             *)
LEMMA UpdatePwdFacts ==
  ASSUME NEW s, Usable(s), NEW named \in BOOLEAN, NEW d \in Dirs
  PROVE  LET pwd == ValuesOf(s, "PWD") IN
         /\ Usable(UpdatePwd(s, named, d))
         /\ \A x \in Keys :
              ValuesOf(UpdatePwd(s, named, d), x) =
                CASE x = "OLDPWD" -> IF pwd # <<>> /\ Head(pwd) \in Values
                                     THEN Replaced(ValuesOf(s, x), Head(pwd))
                                     ELSE ValuesOf(s, x)
                  [] x = "PWD" -> IF named THEN Replaced(ValuesOf(s, x), d)
                                  ELSE ValuesOf(s, x)
                  [] OTHER -> ValuesOf(s, x)
<1> DEFINE pwd == ValuesOf(s, "PWD")
           old == Get(s, "PWD")
           o == UpdateOldPwd(s)
           t == UpdatePwd(s, named, d)
<1>1. "PWD" \in Keys /\ "OLDPWD" \in Keys /\ d \in Any
  BY KeyAssumption, ValueAssumption DEF Any
<1>2. Sound(s)
  BY DEF Usable, Sound
<1>3. /\ pwd \in Seq(Any)
      /\ old = IF pwd = <<>> THEN NoValue ELSE Head(pwd)
  BY <1>1, <1>2, GetFacts
<1>4. old \in Any /\ (old # NoValue <=> pwd # <<>> /\ Head(pwd) \in Values)
  <2> HIDE DEF pwd, old
  <2>1. pwd # <<>> => Head(pwd) \in Any
    BY <1>3
  <2>2. NoValue \notin Values
    BY ValueAssumption
  <2>3. QED
    BY <1>3, <2>1, <2>2 DEF Any
<1>5. /\ Usable(o)
      /\ \A x \in Keys : ValuesOf(o, x)
           = IF x = "OLDPWD" /\ old # NoValue THEN Replaced(ValuesOf(s, x), old)
             ELSE ValuesOf(s, x)
  <2>1. CASE old # NoValue
    <3>1. o = Set(s, "OLDPWD", old)
      BY <2>1 DEF UpdateOldPwd
    <3> HIDE DEF o, old
    <3>2. QED
      BY <1>1, <1>4, <2>1, <3>1, SetFacts
  <2>2. CASE old = NoValue
    <3>1. o = s
      BY <2>2 DEF UpdateOldPwd
    <3> HIDE DEF o, old
    <3>2. QED
      BY <2>2, <3>1
  <2>3. QED
    BY <2>1, <2>2
<1> HIDE DEF o
<1>6. /\ Usable(t)
      /\ \A x \in Keys : ValuesOf(t, x)
           = IF x = "PWD" /\ named THEN Replaced(ValuesOf(o, x), d)
             ELSE ValuesOf(o, x)
  <2>1. CASE named
    <3>1. t = Set(o, "PWD", d)
      BY <2>1 DEF UpdatePwd, o
    <3> HIDE DEF t
    <3>2. QED
      BY <1>1, <1>5, <2>1, <3>1, SetFacts
  <2>2. CASE ~named
    <3>1. t = o
      BY <2>2 DEF UpdatePwd, o
    <3> HIDE DEF t
    <3>2. QED
      BY <1>5, <2>2, <3>1
  <2>3. QED
    BY <2>1, <2>2
<1>7. "PWD" # "OLDPWD"
  OBVIOUS
<1>8. old # NoValue => old = Head(pwd)
  BY <1>3
<1> HIDE DEF t, old, pwd
<1>9. ASSUME NEW x \in Keys
      PROVE  ValuesOf(t, x) =
               CASE x = "OLDPWD" -> IF pwd # <<>> /\ Head(pwd) \in Values
                                    THEN Replaced(ValuesOf(s, x), Head(pwd))
                                    ELSE ValuesOf(s, x)
                 [] x = "PWD" -> IF named THEN Replaced(ValuesOf(s, x), d)
                                 ELSE ValuesOf(s, x)
                 [] OTHER -> ValuesOf(s, x)
  <2>1. CASE x = "OLDPWD"
    BY <1>4, <1>5, <1>6, <1>7, <1>8, <2>1
  <2>2. CASE x = "PWD"
    BY <1>5, <1>6, <1>7, <2>2
  <2>3. CASE x # "PWD" /\ x # "OLDPWD"
    BY <1>5, <1>6, <2>3
  <2>4. QED
    BY <2>1, <2>2, <2>3
<1>10. QED
  BY <1>6, <1>9 DEF t, pwd

-----------------------------------------------------------------------------
(* The invariant: the heap holds one list, and until the shell ends there is *)
(* memory for what may still come into it.                                   *)

StoreInv ==
  /\ pc \in {"load", "run", "export", "unset", "exited"} /\ status \in {0, 1}
  /\ Sound(store)
  /\ pc = "load" => Loadable(store, envp)
  /\ pc \in {"run", "export", "unset"} => Usable(store)

LEMMA UsableIsSound ==
  ASSUME NEW s, Usable(s) PROVE Sound(s)
BY DEF Usable, Sound

LEMMA LoadableIsSound ==
  ASSUME NEW s, NEW e, Loadable(s, e) PROVE Sound(s)
BY DEF Loadable, Sound

(* Appending, replacing and unlinking keep the list whole, whatever the      *)
(* builtins are called with and in whatever order.                           *)
THEOREM Invariance == Spec => []StoreInv
<1>1. Init => StoreInv
  BY EmptyIsLoadable, LoadableIsSound DEF Init, StoreInv
<1>2. StoreInv /\ [Next]_vars => StoreInv'
  <2> SUFFICES ASSUME StoreInv, [Next]_vars PROVE StoreInv'
    OBVIOUS
  <2>1. CASE LoadEntry
    <3>1. /\ pc = "load" /\ envp # <<>> /\ Loadable(store, envp)
          /\ store' = AppendNode(store, Head(envp).key, Head(envp).value)
          /\ envp' = Tail(envp) /\ pc' = pc /\ status' = status
      BY <2>1 DEF LoadEntry, StoreInv
    <3>2. Loadable(store', envp')
      BY <3>1, LoadFacts
    <3>3. Sound(store')
      BY <3>2, LoadableIsSound
    <3>4. QED
      BY <3>1, <3>2, <3>3 DEF StoreInv
  <2>2. CASE Loaded
    <3>1. /\ pc = "load" /\ envp = <<>> /\ Loadable(store, envp) /\ Sound(store)
          /\ store' = store /\ pc' = "run" /\ status' = status
      BY <2>2 DEF Loaded, StoreInv
    <3>2. Usable(store')
      BY <3>1, LoadedFacts
    <3>3. QED
      BY <3>1, <3>2 DEF StoreInv
  <2>3. CASE Start("export") \/ Start("unset")
    BY <2>3 DEF Start, StoreInv
  <2>4. CASE ExportArgument
    <3>1. PICK k \in Keys, v \in Values \cup {NoValue} : store' = Set(store, k, v)
      BY <2>4 DEF ExportArgument
    <3>2. /\ pc = "export" /\ Usable(store) /\ pc' = pc /\ status' = status
      BY <2>4 DEF ExportArgument, StoreInv
    <3>3. Usable(store')
      BY <3>1, <3>2, SetFacts DEF Any
    <3>4. Sound(store')
      BY <3>3, UsableIsSound
    <3>5. QED
      BY <3>2, <3>3, <3>4 DEF StoreInv
  <2>5. CASE UnsetArgument
    <3>1. PICK k \in Keys : store' = UnsetKey(store, k)
      BY <2>5 DEF UnsetArgument
    <3>2. /\ pc = "unset" /\ Usable(store) /\ pc' = pc /\ status' = status
      BY <2>5 DEF UnsetArgument, StoreInv
    <3>3. Usable(store')
      BY <3>1, <3>2, UnsetFacts
    <3>4. Sound(store')
      BY <3>3, UsableIsSound
    <3>5. QED
      BY <3>2, <3>3, <3>4 DEF StoreInv
  <2>6. CASE BadName
    BY <2>6 DEF BadName, StoreInv
  <2>7. CASE Return
    BY <2>7 DEF Return, StoreInv
  <2>8. CASE Cd
    <3>1. PICK d \in Dirs, named \in BOOLEAN : store' = UpdatePwd(store, named, d)
      BY <2>8 DEF Cd
    <3>2. /\ pc = "run" /\ Usable(store) /\ pc' = pc /\ status' = 0
      BY <2>8 DEF Cd, StoreInv
    <3>3. Usable(store')
      BY <3>1, <3>2, UpdatePwdFacts
    <3>4. Sound(store')
      BY <3>3, UsableIsSound
    <3>5. QED
      BY <3>2, <3>3, <3>4 DEF StoreInv
  <2>9. CASE CdFails
    BY <2>9 DEF CdFails, StoreInv
  <2>10. CASE Exit
    <3>1. /\ pc' = "exited" /\ status' = status /\ store' = DestroyAll(store)
          /\ Sound(store) /\ status \in {0, 1}
      BY <2>10 DEF Exit, StoreInv
    <3>2. PICK c : Chain(store, c)
      BY <3>1 DEF Sound
    <3>3. store' = EmptyStore
      BY <3>1, <3>2, DestroyedChain
    <3>4. Sound(store')
      BY <3>3, EmptyChain DEF Sound
    <3>5. QED
      BY <3>1, <3>4 DEF StoreInv
  <2>11. CASE Exited
    BY <2>11 DEF Exited, vars, StoreInv
  <2>12. CASE UNCHANGED vars
    BY <2>12 DEF vars, StoreInv
  <2>13. QED
    BY <2>1, <2>2, <2>3, <2>4, <2>5, <2>6, <2>7, <2>8, <2>9, <2>10, <2>11,
       <2>12 DEF Next
<1>3. QED
  BY <1>1, <1>2, PTL DEF Spec

(* The list, the heap and the statuses are always in their types, and size   *)
(* never exceeds the nodes there are.                                        *)
THEOREM TypeCorrect == Spec => []TypeOK
<1>1. StoreInv => TypeOK
  <2> SUFFICES ASSUME StoreInv PROVE TypeOK
    OBVIOUS
  <2>1. PICK c : Chain(store, c)
    BY DEF StoreInv, Sound
  <2>2. /\ store.head \in Links /\ store.tail \in Links
        /\ \A n \in Ids : store.node[n] \in NodeType \cup {Freed}
        /\ store.size = Len(c) /\ Len(c) \in Nat /\ Len(c) <= MaxNodes
    BY <2>1 DEF Chain, Stores
  <2>3. QED
    BY <2>2, Sizes DEF TypeOK, StoreInv, Links
<1>2. QED
  BY <1>1, Invariance, PTL

(* After any sequence of appends and removals, at either end or in the       *)
(* middle, the walk from head ends at tail, meets every node in use and no   *)
(* freed one, each once, and size counts them.                               *)
THEOREM OneListInTheHeap == Spec => []ListWellFormed
<1>1. StoreInv => ListWellFormed
  <2> SUFFICES ASSUME StoreInv PROVE ListWellFormed
    OBVIOUS
  <2>1. PICK c : Chain(store, c)
    BY DEF StoreInv, Sound
  <2>2. Nodes(store) = c
    BY <2>1, NodesAreTheChain
  <2>3. /\ c \in Seq(Ids) /\ Len(c) <= MaxNodes /\ Len(c) \in Nat
        /\ \A i, j \in 1..Len(c) : c[i] = c[j] => i = j
        /\ \A j \in 1..Len(c) : store.node[c[j]] \in NodeType
        /\ \A n \in Ids : (\A j \in 1..Len(c) : c[j] # n) => store.node[n] = Freed
        /\ store.tail = (IF c = <<>> THEN Null ELSE c[Len(c)])
        /\ store.size = Len(c)
    BY <2>1 DEF Chain
  <2>4. Linked = {c[j] : j \in 1..Len(c)}
    BY <2>2, <2>3 DEF Linked
  <2>5. Freed \notin NodeType
    BY KeyAssumption DEF Freed, NodeType
  <2>6. Linked = Ids \ FreeIds(store)
    <3>1. \A j \in 1..Len(c) : c[j] \in Ids /\ store.node[c[j]] # Freed
      BY <2>3, <2>5
    <3>2. QED
      BY <2>3, <2>4, <3>1 DEF FreeIds
  <2>7. Cardinality(Linked) = Len(c)
    <3>1. c \in [1..Len(c) -> Linked]
      BY <2>3, <2>4
    <3>2. c \in Injection(1..Len(c), Linked)
      BY <2>3, <3>1 DEF Injection, IsInjective
    <3>3. c \in Surjection(1..Len(c), Linked)
      BY <2>4, <3>1 DEF Surjection
    <3>4. c \in Bijection(1..Len(c), Linked)
      BY <3>2, <3>3 DEF Bijection
    <3>5. ExistsBijection(1..Len(c), Linked)
      BY <3>4 DEF ExistsBijection
    <3>6. QED
      BY <2>3, <3>5, FS_CountingElements
  <2>8. QED
    BY <2>2, <2>3, <2>6, <2>7 DEF ListWellFormed
<1>2. QED
  BY <1>1, Invariance, PTL

-----------------------------------------------------------------------------
(* The refinement.                                                           *)

LEMMA MeaningIs == Meaning = [k \in Keys |-> ValuesOf(store, k)]
BY DEF Meaning, ValuesOf

LEMMA MeaningWillBe == Meaning' = [k \in Keys |-> ValuesOf(store', k)]
BY DEF Meaning, ValuesOf

(* Nothing is changed for the callers.                                       *)
LEMMA Stutter ==
  ASSUME store' = store, (pc = "load") = (pc' = "load")
  PROVE  UNCHANGED Abstract!vars
<1>1. Meaning' = Meaning
  BY MeaningIs, MeaningWillBe
<1>2. QED
  BY <1>1 DEF Abstract!vars

LEMMA EmptyValues ==
  ASSUME NEW k \in Keys PROVE ValuesOf(EmptyStore, k) = <<>>
<1>1. PICK r : AreValues(r, EmptyStore, <<>>, k) /\ r[1] = ValuesOf(EmptyStore, k)
  BY EmptyChain, ValuesExist
<1>2. Len(<<>>) + 1 = 1
  OBVIOUS
<1>3. QED
  BY <1>1, <1>2 DEF AreValues

(* The list, its head and its tail, the nodes that are freed and used again, *)
(* and the builtins that call the store, implement the environment that      *)
(* their callers see: export and cd replace a name's first value or make     *)
(* one, unset drops the first, and only loading makes a second.              *)
THEOREM Implements == Spec => EnvSpec
<1>1. Init => Abstract!Init
  <2> SUFFICES ASSUME Init PROVE Abstract!Init
    OBVIOUS
  <2>1. store = EmptyStore /\ pc = "load"
    BY DEF Init
  <2>2. Meaning = [k \in Keys |-> <<>>]
    BY <2>1, MeaningIs, EmptyValues
  <2>3. QED
    BY <2>1, <2>2 DEF Abstract!Init
<1>2. StoreInv /\ [Next]_vars => [Abstract!Next]_Abstract!vars
  <2> SUFFICES ASSUME StoreInv, [Next]_vars PROVE [Abstract!Next]_Abstract!vars
    OBVIOUS
  <2>1. CASE LoadEntry
    <3> DEFINE k == Head(envp).key
               v == Head(envp).value
    <3>1. /\ pc = "load" /\ envp # <<>> /\ Loadable(store, envp)
          /\ store' = AppendNode(store, k, v) /\ pc' = pc
      BY <2>1 DEF LoadEntry, StoreInv
    <3>2. /\ k \in Keys /\ v \in Any
          /\ \A x \in Keys : ValuesOf(store', x)
               = IF x = k THEN Append(ValuesOf(store, x), v) ELSE ValuesOf(store, x)
      BY <3>1, LoadFacts
    <3> HIDE DEF k, v
    <3>3. Meaning' = [Meaning EXCEPT ![k] = Append(@, v)]
      BY <3>2, MeaningIs, MeaningWillBe
    <3>4. Abstract!Load
      BY <3>1, <3>2, <3>3 DEF Abstract!Load, Abstract!NoValue, Any, NoValue
    <3>5. QED
      BY <3>4 DEF Abstract!Next
  <2>2. CASE Loaded
    <3>1. pc = "load" /\ pc' = "run" /\ store' = store
      BY <2>2 DEF Loaded
    <3>2. Meaning' = Meaning
      BY <3>1, MeaningIs, MeaningWillBe
    <3>3. Abstract!Loaded
      BY <3>1, <3>2 DEF Abstract!Loaded
    <3>4. QED
      BY <3>3 DEF Abstract!Next
  <2>3. CASE Start("export") \/ Start("unset")
    BY <2>3, Stutter DEF Start
  <2>4. CASE ExportArgument
    <3>1. PICK k \in Keys, v \in Values \cup {NoValue} : store' = Set(store, k, v)
      BY <2>4 DEF ExportArgument
    <3>2. pc = "export" /\ Usable(store) /\ pc' = pc
      BY <2>4 DEF ExportArgument, StoreInv
    <3>3. \A x \in Keys : ValuesOf(store', x)
            = IF x = k THEN Replaced(ValuesOf(store, x), v) ELSE ValuesOf(store, x)
      BY <3>1, <3>2, SetFacts DEF Any
    <3>4. Meaning' = [Meaning EXCEPT ![k] = Abstract!Replaced(@, v)]
      BY <3>3, MeaningIs, MeaningWillBe DEF Replaced, Abstract!Replaced
    <3>5. Abstract!Export
      BY <3>2, <3>4 DEF Abstract!Export, Abstract!NoValue, NoValue
    <3>6. QED
      BY <3>5 DEF Abstract!Next
  <2>5. CASE UnsetArgument
    <3>1. PICK k \in Keys : store' = UnsetKey(store, k)
      BY <2>5 DEF UnsetArgument
    <3>2. pc = "unset" /\ Usable(store) /\ pc' = pc
      BY <2>5 DEF UnsetArgument, StoreInv
    <3>3. \A x \in Keys : ValuesOf(store', x)
            = IF x = k THEN Dropped(ValuesOf(store, x)) ELSE ValuesOf(store, x)
      BY <3>1, <3>2, UnsetFacts
    <3>4. Meaning' = [Meaning EXCEPT ![k] = Abstract!Dropped(@)]
      BY <3>3, MeaningIs, MeaningWillBe DEF Dropped, Abstract!Dropped
    <3>5. Abstract!Unset
      BY <3>2, <3>4 DEF Abstract!Unset
    <3>6. QED
      BY <3>5 DEF Abstract!Next
  <2>6. CASE BadName
    BY <2>6, Stutter DEF BadName
  <2>7. CASE Return
    BY <2>7, Stutter DEF Return
  <2>8. CASE Cd
    <3>1. PICK d \in Dirs, named \in BOOLEAN : store' = UpdatePwd(store, named, d)
      BY <2>8 DEF Cd
    <3>2. pc = "run" /\ Usable(store) /\ pc' = pc
      BY <2>8 DEF Cd, StoreInv
    <3> DEFINE pwd == ValuesOf(store, "PWD")
    <3>3. \A x \in Keys : ValuesOf(store', x) =
            CASE x = "OLDPWD" -> IF pwd # <<>> /\ Head(pwd) \in Values
                                 THEN Replaced(ValuesOf(store, x), Head(pwd))
                                 ELSE ValuesOf(store, x)
              [] x = "PWD" -> IF named THEN Replaced(ValuesOf(store, x), d)
                              ELSE ValuesOf(store, x)
              [] OTHER -> ValuesOf(store, x)
      BY <3>1, <3>2, UpdatePwdFacts
    <3>4. "PWD" \in Keys /\ "OLDPWD" \in Keys /\ "PWD" # "OLDPWD"
      BY KeyAssumption
    <3>5. Meaning["PWD"] = pwd
      BY <3>4, MeaningIs
    <3> HIDE DEF pwd
    <3> DEFINE after ==
          [Meaning EXCEPT
             !["OLDPWD"] = IF pwd # <<>> /\ Head(pwd) \in Values
                           THEN Abstract!Replaced(@, Head(pwd)) ELSE @,
             !["PWD"]    = IF named THEN Abstract!Replaced(@, d) ELSE @]
    <3>6. ASSUME NEW x \in Keys PROVE after[x] = ValuesOf(store', x)
      <4>1. CASE x = "OLDPWD"
        BY <3>3, <3>4, <4>1, MeaningIs DEF Replaced, Abstract!Replaced
      <4>2. CASE x = "PWD"
        BY <3>3, <3>4, <4>2, MeaningIs DEF Replaced, Abstract!Replaced
      <4>3. CASE x # "PWD" /\ x # "OLDPWD"
        BY <3>3, <3>4, <4>3, MeaningIs
      <4>4. QED
        BY <4>1, <4>2, <4>3
    <3>7. after = [x \in Keys |-> after[x]]
      BY MeaningIs
    <3> HIDE DEF after
    <3>8. Meaning' = after
      BY <3>6, <3>7, MeaningWillBe
    <3>9. Abstract!Cd
      BY <3>1, <3>2, <3>5, <3>8 DEF Abstract!Cd, after
    <3>10. QED
      BY <3>9 DEF Abstract!Next
  <2>9. CASE CdFails
    BY <2>9, Stutter DEF CdFails
  <2>10. CASE Exit
    <3>1. pc = "run" /\ pc' = "exited" /\ store' = DestroyAll(store) /\ Sound(store)
      BY <2>10 DEF Exit, StoreInv
    <3>2. PICK c : Chain(store, c)
      BY <3>1 DEF Sound
    <3>3. store' = EmptyStore
      BY <3>1, <3>2, DestroyedChain
    <3>4. Meaning' = [k \in Keys |-> <<>>]
      BY <3>3, MeaningWillBe, EmptyValues
    <3>5. Abstract!Destroy
      BY <3>1, <3>4 DEF Abstract!Destroy
    <3>6. QED
      BY <3>5 DEF Abstract!Next
  <2>11. CASE Exited
    BY <2>11, Stutter DEF Exited, vars
  <2>12. CASE UNCHANGED vars
    BY <2>12, Stutter DEF vars
  <2>13. QED
    BY <2>1, <2>2, <2>3, <2>4, <2>5, <2>6, <2>7, <2>8, <2>9, <2>10, <2>11,
       <2>12 DEF Next
<1>3. QED
  BY <1>1, <1>2, Invariance, PTL DEF Spec, EnvSpec, Abstract!Spec

-----------------------------------------------------------------------------
(* What execve() is given.                                                   *)

(* Where a name is in a sequence of entries.                                 *)
Its(entries, k) == {i \in 1..Len(entries) : entries[i].key = k}

IsLonger(longer, e, entries, k) ==
  /\ e.key = k => 1 \in Its(longer, k) /\ longer[1] = e
  /\ e.key # k => 1 \notin Its(longer, k)
  /\ \A i \in Its(entries, k) :
       i + 1 \in Its(longer, k) /\ longer[i + 1] = entries[i]
  /\ \A i \in Its(longer, k) : i # 1 => i - 1 \in Its(entries, k)
  /\ \A i \in Its(longer, k) : i \in Nat /\ i >= 1

LEMMA ItsOfLonger ==
  ASSUME NEW e \in EntryType, NEW entries \in Seq(EntryType), NEW k
  PROVE  IsLonger(<<e>> \o entries, e, entries, k)
<1> DEFINE longer == <<e>> \o entries
<1>1. <<e>> \in Seq(EntryType) /\ Len(<<e>>) = 1 /\ <<e>>[1] = e
  OBVIOUS
<1>2. /\ longer \in Seq(EntryType) /\ Len(longer) = 1 + Len(entries)
      /\ \A i \in 1..1 + Len(entries) :
           longer[i] = IF i <= 1 THEN <<e>>[i] ELSE entries[i - 1]
      /\ Len(entries) \in Nat
  BY <1>1, ConcatProperties
<1> HIDE DEF longer
<1>3. longer[1] = e /\ 1 \in 1..Len(longer)
  BY <1>1, <1>2
<1>4. ASSUME NEW i \in 1..Len(entries)
      PROVE  i + 1 \in 1..Len(longer) /\ longer[i + 1] = entries[i]
  <2>1. i + 1 \in 1..1 + Len(entries) /\ ~(i + 1 <= 1) /\ (i + 1) - 1 = i
    BY <1>2
  <2>2. QED
    BY <1>2, <2>1
<1>5. ASSUME NEW i \in 1..Len(longer), i # 1
      PROVE  i - 1 \in 1..Len(entries) /\ entries[i - 1] = longer[i]
  BY <1>2, <1>5
<1>6. \A i \in 1..Len(longer) : i \in Nat /\ i >= 1
  BY <1>2
<1>7. QED
  BY <1>2, <1>3, <1>4, <1>5, <1>6 DEF Its, IsLonger, longer

(* The entries that a list has from each of its places on.                   *)
AreEntries(g, s, c) ==
  /\ g \in [1..Len(c) + 1 -> Seq(EntryType)]
  /\ g[Len(c) + 1] = <<>>
  /\ \A j \in 1..Len(c) :
       /\ ValueAt(s, c, j) = NoValue => g[j] = g[j + 1]
       /\ ValueAt(s, c, j) # NoValue =>
            \E e \in EntryType :
               /\ g[j] = <<e>> \o g[j + 1]
               /\ e.key = KeyAt(s, c, j) /\ e.value = ValueAt(s, c, j)

LEMMA EntriesExist ==
  ASSUME NEW s, NEW c, Chain(s, c)
  PROVE  \E g : AreEntries(g, s, c) /\ g[1] = ToEnvp(s)
<1> DEFINE f == [n \in Ids |-> IF s.node[n].value = NoValue THEN <<>>
                              ELSE <<EntryOf(s, n)>>]
<1>1. ASSUME NEW n \in Ids, s.node[n].value # NoValue
      PROVE  EntryOf(s, n) \in EntryType
  <2>1. s.node[n] \in NodeType
    <3>1. s.node[n] \in NodeType \cup {Freed}
      BY ChainTypes
    <3>2. Freed.value = NoValue
      BY DEF Freed
    <3>3. QED
      BY <1>1, <3>1, <3>2
  <2>2. QED
    BY <2>1 DEF EntryOf, EntryType, NodeType
<1>2. f \in [Ids -> Seq(EntryType)]
  <2>1. \A e \in EntryType : <<e>> \in Seq(EntryType)
    OBVIOUS
  <2>2. <<>> \in Seq(EntryType)
    OBVIOUS
  <2>3. QED
    BY <1>1, <2>1, <2>2
<1>3. ToEnvp(s) = Gathered(s, f)
  BY DEF ToEnvp
<1>4. \A n \in Ids : f[n] = IF s.node[n].value = NoValue THEN <<>>
                             ELSE <<EntryOf(s, n)>>
  OBVIOUS
<1> HIDE DEF f
<1>5. PICK g : IsGathered(g, EntryType, c, f) /\ g[1] = Gathered(s, f)
  BY <1>2, GatheredFacts
<1>6. /\ g \in [1..Len(c) + 1 -> Seq(EntryType)] /\ g[Len(c) + 1] = <<>>
      /\ \A j \in 1..Len(c) : g[j] = f[c[j]] \o g[j + 1]
  BY <1>5 DEF IsGathered
<1>7. ASSUME NEW j \in 1..Len(c)
      PROVE  /\ ValueAt(s, c, j) = NoValue => g[j] = g[j + 1]
             /\ ValueAt(s, c, j) # NoValue =>
                  \E e \in EntryType :
                     /\ g[j] = <<e>> \o g[j + 1]
                     /\ e.key = KeyAt(s, c, j) /\ e.value = ValueAt(s, c, j)
  <2>1. c[j] \in Ids /\ j + 1 \in 1..Len(c) + 1
    BY ChainTypes
  <2>2. g[j] = f[c[j]] \o g[j + 1] /\ g[j + 1] \in Seq(EntryType)
    BY <1>6, <2>1
  <2>3. <<>> \o g[j + 1] = g[j + 1]
    BY <2>2, ConcatEmptySeq
  <2>4. CASE ValueAt(s, c, j) = NoValue
    <3>1. f[c[j]] = <<>>
      BY <1>4, <2>1, <2>4 DEF ValueAt
    <3>2. QED
      BY <2>2, <2>3, <2>4, <3>1
  <2>5. CASE ValueAt(s, c, j) # NoValue
    <3>1. f[c[j]] = <<EntryOf(s, c[j])>> /\ EntryOf(s, c[j]) \in EntryType
      BY <1>1, <1>4, <2>1, <2>5 DEF ValueAt
    <3>2. /\ EntryOf(s, c[j]).key = KeyAt(s, c, j)
          /\ EntryOf(s, c[j]).value = ValueAt(s, c, j)
      BY DEF EntryOf, KeyAt, ValueAt
    <3>3. QED
      BY <2>2, <2>5, <3>1, <3>2
  <2>6. QED
    BY <2>4, <2>5
<1>8. AreEntries(g, s, c)
  BY <1>6, <1>7 DEF AreEntries
<1>9. QED
  BY <1>3, <1>5, <1>8

(* A name without a value is not given.                                      *)
LEMMA NotGiven ==
  ASSUME NEW s, NEW c, Chain(s, c), NEW g, AreEntries(g, s, c), NEW k,
         NEW p \in 1..Len(c) + 1,
         \A m \in p..Len(c) : KeyAt(s, c, m) = k => ValueAt(s, c, m) = NoValue
  PROVE  Its(g[p], k) = {}
<1>1. /\ g \in [1..Len(c) + 1 -> Seq(EntryType)]
      /\ g[Len(c) + 1] = <<>>
      /\ \A j \in 1..Len(c) :
           /\ ValueAt(s, c, j) = NoValue => g[j] = g[j + 1]
           /\ ValueAt(s, c, j) # NoValue =>
                \E e \in EntryType :
                   /\ g[j] = <<e>> \o g[j + 1]
                   /\ e.key = KeyAt(s, c, j) /\ e.value = ValueAt(s, c, j)
  BY DEF AreEntries
<1>2. Len(c) \in Nat
  BY ChainTypes
<1> DEFINE T == {j \in 1..Len(c) + 1 : j >= p => Its(g[j], k) = {}}
<1>3. Len(c) + 1 \in T
  <2>1. Its(<<>>, k) = {}
    BY DEF Its
  <2>2. Len(c) + 1 \in 1..Len(c) + 1
    BY <1>2
  <2>3. QED
    BY <1>1, <2>1, <2>2
<1>4. ASSUME NEW j \in 1..Len(c), j + 1 \in T PROVE j \in T
  <2> SUFFICES ASSUME j >= p PROVE Its(g[j], k) = {}
    BY <1>2
  <2>1. /\ j \in p..Len(c) /\ j + 1 \in 1..Len(c) + 1 /\ j + 1 >= p
        /\ Its(g[j + 1], k) = {}
    BY <1>2, <1>4
  <2>2. CASE ValueAt(s, c, j) = NoValue
    BY <1>1, <2>1, <2>2
  <2>3. CASE ValueAt(s, c, j) # NoValue
    <3>1. PICK e \in EntryType : g[j] = <<e>> \o g[j + 1] /\ e.key = KeyAt(s, c, j)
      BY <1>1, <2>3
    <3>2. e.key # k
      BY <2>1, <2>3, <3>1
    <3>3. g[j + 1] \in Seq(EntryType)
      BY <1>1, <2>1
    <3>4. 1 \notin Its(g[j], k) /\ \A i \in Its(g[j], k) : i # 1 => i - 1 \in {}
      <4>1. IsLonger(g[j], e, g[j + 1], k)
        BY <3>1, <3>3, ItsOfLonger
      <4>2. QED
        BY <2>1, <3>2, <4>1 DEF IsLonger
    <3>5. QED
      BY <3>4
  <2>4. QED
    BY <2>2, <2>3
<1> HIDE DEF T
<1>5. 1..Len(c) + 1 \subseteq T
  BY <1>2, <1>3, <1>4, DownInduction
<1>6. QED
  BY <1>2, <1>5 DEF T

(* The value that counts is given, and before any other of its name; and if  *)
(* there is no other node of its name, nothing else of its name is given.    *)
LEMMA FirstIsGiven ==
  ASSUME NEW s, NEW c, Chain(s, c), NEW g, AreEntries(g, s, c), NEW k,
         NEW p, IsFirst(s, c, k, p), ValueAt(s, c, p) # NoValue
  PROVE  \E i \in Its(g[1], k) :
            /\ g[1][i].value = ValueAt(s, c, p)
            /\ \A j \in Its(g[1], k) : i <= j
            /\ (\A m \in p + 1..Len(c) : KeyAt(s, c, m) # k) =>
                 Its(g[1], k) = {i}
<1>1. /\ g \in [1..Len(c) + 1 -> Seq(EntryType)]
      /\ \A j \in 1..Len(c) :
           /\ ValueAt(s, c, j) = NoValue => g[j] = g[j + 1]
           /\ ValueAt(s, c, j) # NoValue =>
                \E e \in EntryType :
                   /\ g[j] = <<e>> \o g[j + 1]
                   /\ e.key = KeyAt(s, c, j) /\ e.value = ValueAt(s, c, j)
  BY DEF AreEntries
<1>2. /\ p \in 1..Len(c) /\ KeyAt(s, c, p) = k /\ Len(c) \in Nat
      /\ \A j \in 1..p - 1 : KeyAt(s, c, j) # k
  BY ChainTypes DEF IsFirst
<1> DEFINE Alone == \A m \in p + 1..Len(c) : KeyAt(s, c, m) # k
           Leads(j, i) == /\ i \in Its(g[j], k) /\ i \in Nat
                          /\ g[j][i].value = ValueAt(s, c, p)
                          /\ \A m \in Its(g[j], k) : i <= m
                          /\ Alone => Its(g[j], k) = {i}
           T == {j \in 1..p : \E i : Leads(j, i)}
<1>3. p \in T
  <2>1. PICK e \in EntryType : g[p] = <<e>> \o g[p + 1] /\ e.key = k
                               /\ e.value = ValueAt(s, c, p)
    BY <1>1, <1>2
  <2>2. g[p + 1] \in Seq(EntryType)
    BY <1>1, <1>2
  <2>3. /\ 1 \in Its(g[p], k) /\ g[p][1] = e
        /\ \A i \in Its(g[p], k) : i # 1 => i - 1 \in Its(g[p + 1], k)
        /\ \A i \in Its(g[p], k) : 1 <= i
    <3>1. IsLonger(g[p], e, g[p + 1], k)
      BY <2>1, <2>2, ItsOfLonger
    <3>2. QED
      BY <2>1, <3>1 DEF IsLonger
  <2>4. ASSUME Alone PROVE Its(g[p], k) = {1}
    <3>1. Its(g[p + 1], k) = {}
      <4>1. p + 1 \in 1..Len(c) + 1
        BY <1>2
      <4>2. QED
        BY <2>4, <4>1, NotGiven
    <3>2. QED
      BY <2>3, <3>1
  <2>5. Leads(p, 1)
    BY <2>1, <2>3, <2>4
  <2> HIDE DEF Leads
  <2>6. p \in 1..p
    BY <1>2
  <2>7. QED
    BY <2>5, <2>6
<1>4. ASSUME NEW j \in 1..p - 1, j + 1 \in T PROVE j \in T
  <2>1. j \in 1..p /\ j \in 1..Len(c) /\ j + 1 \in 1..Len(c) + 1 /\ KeyAt(s, c, j) # k
    BY <1>2
  <2>2. PICK i : Leads(j + 1, i)
    BY <1>4
  <2>3. CASE ValueAt(s, c, j) = NoValue
    <3>1. g[j] = g[j + 1]
      BY <1>1, <2>1, <2>3
    <3>2. Leads(j, i)
      BY <2>2, <3>1
    <3> HIDE DEF Leads
    <3>3. QED
      BY <2>1, <3>2
  <2>4. CASE ValueAt(s, c, j) # NoValue
    <3>1. PICK e \in EntryType : g[j] = <<e>> \o g[j + 1] /\ e.key = KeyAt(s, c, j)
      BY <1>1, <2>1, <2>4
    <3>2. e.key # k /\ g[j + 1] \in Seq(EntryType)
      BY <1>1, <2>1, <3>1
    <3>3. /\ 1 \notin Its(g[j], k)
          /\ \A m \in Its(g[j + 1], k) :
               m + 1 \in Its(g[j], k) /\ g[j][m + 1] = g[j + 1][m]
          /\ \A m \in Its(g[j], k) : m # 1 => m - 1 \in Its(g[j + 1], k)
          /\ \A m \in Its(g[j], k) : m \in Nat
      <4>1. IsLonger(g[j], e, g[j + 1], k)
        BY <3>1, <3>2, ItsOfLonger
      <4>2. QED
        BY <3>2, <4>1 DEF IsLonger
    <3>4. i + 1 \in Its(g[j], k) /\ g[j][i + 1].value = ValueAt(s, c, p)
      BY <2>2, <3>3
    <3>5. ASSUME NEW m \in Its(g[j], k)
          PROVE  i + 1 <= m /\ (Alone => m = i + 1)
      <4>1. m \in Nat /\ m - 1 \in Its(g[j + 1], k)
        BY <3>3
      <4>2. i <= m - 1 /\ (Alone => m - 1 = i) /\ i \in Nat
        BY <2>2, <4>1
      <4> HIDE DEF Alone
      <4>3. QED
        BY <4>1, <4>2
    <3>6. i + 1 \in Nat
      BY <2>2
    <3>7. Leads(j, i + 1)
      BY <3>4, <3>5, <3>6
    <3> HIDE DEF Leads
    <3>8. QED
      BY <2>1, <3>7
  <2>5. QED
    BY <2>3, <2>4
<1> HIDE DEF T, Leads
<1>5. 1..(p - 1) + 1 \subseteq T
  <2>1. p - 1 \in Nat /\ (p - 1) + 1 = p
    BY <1>2
  <2>2. QED
    BY <1>3, <1>4, <2>1, DownInduction
<1>6. 1 \in T
  BY <1>2, <1>5
<1>7. QED
  BY <1>6 DEF T, Leads

(* A name that is there once is given to the next program exactly if it has  *)
(* a value; of a name that the shell was started with twice, the value that  *)
(* $NAME expands to is given first.                                          *)
THEOREM GivenAsLookedUp == Spec => []EnvpMatches
<1>1. StoreInv => EnvpMatches
  <2> SUFFICES ASSUME StoreInv, NEW k \in Keys
               PROVE  LET given == ToEnvp(store)
                          its   == {i \in DOMAIN given : given[i].key = k}
                          nodes == {n \in Linked : store.node[n].key = k} IN
                      /\ Cardinality(nodes) <= 1 =>
                           Cardinality(its) = IF Get(store, k) = NoValue THEN 0 ELSE 1
                      /\ Get(store, k) # NoValue =>
                           \E i \in its : /\ given[i].value = Get(store, k)
                                          /\ \A j \in its : i <= j
    BY DEF EnvpMatches
  <2> DEFINE given == ToEnvp(store)
             its   == {i \in DOMAIN given : given[i].key = k}
             nodes == {n \in Linked : store.node[n].key = k}
  <2>1. PICK c : Chain(store, c)
    BY DEF StoreInv, Sound
  <2>2. PICK g : AreEntries(g, store, c) /\ g[1] = given
    BY <2>1, EntriesExist
  <2>3. /\ Len(c) \in Nat /\ c \in Seq(Ids)
        /\ \A i, j \in 1..Len(c) : c[i] = c[j] => i = j
    BY <2>1 DEF Chain
  <2>4. its = Its(g[1], k)
    <3>1. 1 \in 1..Len(c) + 1
      BY <2>3
    <3>2. g[1] \in Seq(EntryType)
      BY <2>2, <3>1 DEF AreEntries
    <3>3. QED
      BY <2>2, <3>2 DEF Its
  <2>5. nodes = {c[j] : j \in {m \in 1..Len(c) : KeyAt(store, c, m) = k}}
    <3>1. Nodes(store) = c
      BY <2>1, NodesAreTheChain
    <3>2. Linked = {c[j] : j \in 1..Len(c)}
      BY <2>3, <3>1 DEF Linked
    <3>3. QED
      BY <3>2 DEF KeyAt
  <2> HIDE DEF given, its, nodes
  <2>6. ASSUME Cardinality(nodes) <= 1,
               NEW i \in 1..Len(c), NEW j \in 1..Len(c),
               KeyAt(store, c, i) = k, KeyAt(store, c, j) = k
        PROVE  i = j
    <3> SUFFICES ASSUME i # j PROVE FALSE
      OBVIOUS
    <3>1. c[i] # c[j] /\ {c[i], c[j]} \in SUBSET nodes
      BY <2>3, <2>5, <2>6
    <3>2. IsFiniteSet(nodes)
      <4>1. nodes \in SUBSET Ids
        BY <2>3, <2>5
      <4>2. IsFiniteSet(Ids)
        BY Sizes, FS_Interval DEF Ids
      <4>3. QED
        BY <4>1, <4>2, FS_Subset
    <3>3. Cardinality({c[i], c[j]}) = 2
      <4>1. IsFiniteSet({c[i]}) /\ Cardinality({c[i]}) = 1
        BY FS_Singleton
      <4>2. Cardinality({c[i]} \cup {c[j]}) = 1 + 1
        BY <3>1, <4>1, FS_AddElement
      <4>3. {c[i]} \cup {c[j]} = {c[i], c[j]}
        OBVIOUS
      <4>4. QED
        BY <4>2, <4>3
    <3>4. Cardinality(nodes) \in Nat /\ 2 <= Cardinality(nodes)
      BY <3>1, <3>2, <3>3, FS_Subset, FS_CardinalityType
    <3>5. QED
      BY <2>6, <3>4
  <2>7. Cardinality({}) = 0 /\ \A i : Cardinality({i}) = 1
    BY FS_EmptySet, FS_Singleton
  <2> DEFINE p == Place(store, k)
  <2>8. CASE p = 0
    <3>1. Get(store, k) = NoValue /\ \A j \in 1..Len(c) : KeyAt(store, c, j) # k
      BY <2>1, <2>8, PlaceFacts
    <3>2. its = {}
      <4>1. 1 \in 1..Len(c) + 1
        BY <2>3
      <4>2. QED
        BY <2>1, <2>2, <2>4, <3>1, <4>1, NotGiven
    <3>3. QED
      BY <2>7, <3>1, <3>2 DEF its, given, nodes
  <2>9. CASE p # 0
    <3>1. IsFirst(store, c, k, p) /\ Get(store, k) = ValueAt(store, c, p)
      <4>1. /\ Place(store, k) \in 0..Len(c) /\ KeyAt(store, c, Place(store, k)) = k
            /\ \A j \in 1..Place(store, k) - 1 : KeyAt(store, c, j) # k
            /\ Get(store, k) = ValueAt(store, c, Place(store, k))
        BY <2>1, <2>9, PlaceFacts
      <4>2. QED
        BY <2>3, <2>9, <4>1 DEF IsFirst
    <3> HIDE DEF p
    <3>2. p \in 1..Len(c) /\ KeyAt(store, c, p) = k
      BY <3>1 DEF IsFirst
    <3>3. CASE Get(store, k) = NoValue
      <4>1. ASSUME Cardinality(nodes) <= 1 PROVE its = {}
        <5>1. \A m \in 1..Len(c) : KeyAt(store, c, m) = k =>
                                    ValueAt(store, c, m) = NoValue
          BY <2>6, <3>1, <3>2, <3>3, <4>1
        <5>2. 1 \in 1..Len(c) + 1
          BY <2>3
        <5>3. QED
          BY <2>1, <2>2, <2>4, <5>1, <5>2, NotGiven
      <4>2. QED
        BY <2>7, <3>3, <4>1 DEF its, given, nodes
    <3>4. CASE Get(store, k) # NoValue
      <4>1. PICK i \in its :
              /\ given[i].value = ValueAt(store, c, p)
              /\ \A j \in its : i <= j
              /\ (\A m \in p + 1..Len(c) : KeyAt(store, c, m) # k) => its = {i}
        <5>1. ValueAt(store, c, p) # NoValue
          BY <3>1, <3>4
        <5>2. PICK i \in Its(g[1], k) :
                /\ g[1][i].value = ValueAt(store, c, p)
                /\ \A j \in Its(g[1], k) : i <= j
                /\ (\A m \in p + 1..Len(c) : KeyAt(store, c, m) # k) =>
                     Its(g[1], k) = {i}
          BY <2>1, <2>2, <3>1, <5>1, FirstIsGiven
        <5>3. QED
          BY <2>2, <2>4, <5>2
      <4>2. ASSUME Cardinality(nodes) <= 1 PROVE Cardinality(its) = 1
        <5>1. ASSUME NEW m \in p + 1..Len(c) PROVE KeyAt(store, c, m) # k
          <6>1. m \in 1..Len(c) /\ m # p
            BY <2>3, <3>2
          <6>2. QED
            BY <2>6, <3>2, <4>2, <6>1
        <5>2. QED
          BY <2>7, <4>1, <5>1
      <4>3. QED
        BY <3>1, <3>4, <4>1, <4>2 DEF its, given, nodes
    <3>5. QED
      BY <3>3, <3>4
  <2>10. QED
    BY <2>8, <2>9
<1>2. QED
  BY <1>1, Invariance, PTL
=============================================================================
