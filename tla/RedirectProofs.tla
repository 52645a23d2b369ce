--------------------------- MODULE RedirectProofs ---------------------------
(* For every limit on descriptors, every line and every list of redirections *)
(* the shell's variables keep their types; and, if the shell was started     *)
(* with its standard output open, its descriptors come back, what a command  *)
(* prints is where its redirections send it and a child starts with exactly  *)
(* the descriptors they ask for.  (Started with it closed, descriptors do    *)
(* not come back: the run of MCRedirectStd shows how.)                       *)
EXTENDS Redirect, Induction

StdoutOpen == \A b \in Bases : 1 \in b

-----------------------------------------------------------------------------
(* Descriptors.                                                              *)

Tables == [Fd -> Objects]
Savings == [{0, 1} -> Fd \cup {NoFd}]

LEMMA FdFacts ==
  /\ Fd \subseteq Nat /\ 0 \in Fd /\ 1 \in Fd
  /\ NoFd \notin Fd
  BY FdAssumption DEF Fd, NoFd

(* dup, open and mkstemp give a descriptor that was free.                    *)
LEMMA LowestIsFree ==
  ASSUME NEW t, Free(t) # {}
  PROVE  Lowest(t) \in Fd /\ t[Lowest(t)] = "none"
<1>1. \E x \in Free(t) : \A y \in Free(t) : x <= y
  BY LeastExists, FdFacts DEF Free
<1>2. Lowest(t) \in Free(t)
  BY <1>1 DEF Lowest
<1>3. QED
  BY <1>2 DEF Free

(* What lets restore_saved_fds turn the table t with the copies s back into  *)
(* b: each copy is a descriptor that was closed in b and holds what b has at *)
(* 0 or 1; and t differs from b nowhere else than there and where it was     *)
(* saved.  0 and 1 stay open, so that no file is opened there.               *)
Undo(t, s, b) ==
  /\ t \in Tables /\ s \in Savings
  /\ \A f \in {0, 1} : t[f] # "none"
  /\ \A f \in {0, 1} : s[f] # NoFd =>
        s[f] \notin {0, 1} /\ b[s[f]] = "none" /\ t[s[f]] = b[f]
  /\ s[0] # NoFd => s[0] # s[1]
  /\ \A f \in Fd : \/ f = s[0] \/ f = s[1]
                   \/ f \in {0, 1} /\ s[f] # NoFd
                   \/ t[f] = b[f]

LEMMA SaveUndo ==
  ASSUME NEW t, NEW s, NEW b \in Tables, b[0] # "none", b[1] # "none",
         NEW f \in {0, 1}, Undo(t, s, b), CanSave(t, s, f)
  PROVE  /\ Undo(SaveTarget(t, s, f), Copies(t, s, f), b)
         /\ Copies(t, s, f)[f] # NoFd
<1>1. CASE s[f] # NoFd
  BY <1>1 DEF SaveTarget, Copies
<1>2. CASE s[f] = NoFd
  <2> DEFINE c == Lowest(t)
             t2 == [t EXCEPT ![c] = t[f]]
             s2 == [s EXCEPT ![f] = c]
  <2>1. c \in Fd /\ t[c] = "none" /\ t[f] # "none"
    BY <1>2, LowestIsFree DEF CanSave
  <2>2. SaveTarget(t, s, f) = t2 /\ Copies(t, s, f) = s2
    BY <1>2 DEF SaveTarget, Copies
  <2> HIDE DEF c
  <2>3. c \notin {0, 1} /\ c # s[0] /\ c # s[1]
    BY <2>1, FdFacts DEF Undo, Savings
  <2>4. b[c] = "none" /\ t[f] = b[f]
    BY <1>2, <2>1, <2>3, FdFacts DEF Undo, Savings
  <2>5. t2 \in Tables /\ s2 \in Savings /\ s2[f] = c /\ c # NoFd
    BY <2>1, FdFacts DEF Undo, Tables, Savings
  <2>6. \A g \in Fd : t2[g] = IF g = c THEN b[f] ELSE t[g]
    BY <2>1, <2>4 DEF Undo, Tables
  <2>7. \A g \in {0, 1} : s2[g] = IF g = f THEN c ELSE s[g]
    BY DEF Undo, Savings
  <2> HIDE DEF t2, s2
  <2>8. Undo(t2, s2, b)
    <3>1. \A g \in {0, 1} : g \in Fd /\ t2[g] # "none"
      BY <2>3, <2>6, FdFacts DEF Undo
    <3>2. \A g \in {0, 1} : s2[g] # NoFd =>
             s2[g] \notin {0, 1} /\ b[s2[g]] = "none" /\ t2[s2[g]] = b[g]
      <4>1. \A g \in {0, 1} : s[g] # NoFd => s[g] \in Fd /\ s[g] # c
        BY <2>3 DEF Undo, Savings
      <4>2. QED
        BY <2>1, <2>3, <2>4, <2>6, <2>7, <4>1 DEF Undo
    <3>3. s2[0] # NoFd => s2[0] # s2[1]
      BY <2>3, <2>5, <2>7 DEF Undo
    <3>4. \A g \in Fd : \/ g = s2[0] \/ g = s2[1]
                        \/ g \in {0, 1} /\ s2[g] # NoFd
                        \/ t2[g] = b[g]
      BY <1>2, <2>5, <2>6, <2>7, FdFacts DEF Undo
    <3>5. QED
      BY <2>5, <3>1, <3>2, <3>3, <3>4 DEF Undo
  <2>9. QED
    BY <2>2, <2>5, <2>8
<1>3. QED
  BY <1>1, <1>2

LEMMA MoveUndo ==
  ASSUME NEW t, NEW s, NEW b \in Tables, NEW r \in Redirections, NEW doc,
         Undo(t, s, b), s[Target(r)] # NoFd, CanOpen(t, r),
         r.kind = "heredoc" => doc \in Fd /\ t[doc] # "none"
  PROVE  Undo(MoveToTarget(t, r, doc), s, b)
<1> DEFINE f == Target(r)
<1>1. f \in {0, 1}
  BY DEF Target
<1> HIDE DEF f
<1>2. PICK o \in Objects : o # "none" /\ MoveToTarget(t, r, doc) = [t EXCEPT ![f] = o]
  <2>1. CASE r.kind = "heredoc"
    BY <2>1 DEF MoveToTarget, f, Undo, Tables
  <2>2. CASE r.kind # "heredoc"
    <3> DEFINE c == Lowest(t)
    <3>1. c \in Fd /\ t[c] = "none"
      BY <2>2, LowestIsFree DEF CanOpen
    <3>2. r.file \in Objects /\ r.file # "none"
      BY DEF Redirections, Files, Objects
    <3>3. MoveToTarget(t, r, doc) = [t EXCEPT ![f] = r.file, ![c] = "none"]
      BY <2>2 DEF MoveToTarget, f
    <3> HIDE DEF c
    <3>4. c \notin {0, 1}
      BY <3>1 DEF Undo
    <3>5. [t EXCEPT ![f] = r.file, ![c] = "none"] = [t EXCEPT ![f] = r.file]
      BY <3>1, <3>4, <1>1, FdFacts DEF Undo, Tables
    <3>6. QED
      BY <3>2, <3>3, <3>5
  <2>3. QED
    BY <2>1, <2>2
<1> DEFINE t2 == [t EXCEPT ![f] = o]
<1>3. t2 \in Tables
  BY <1>1, FdFacts DEF Undo, Tables
<1>4. \A g \in Fd : t2[g] = IF g = f THEN o ELSE t[g]
  BY DEF Undo, Tables
<1> HIDE DEF t2
<1>5. Undo(t2, s, b)
  <2>1. s[f] # NoFd
    BY DEF f
  <2>2. \A g \in {0, 1} : g \in Fd /\ t2[g] # "none"
    BY <1>2, <1>4, FdFacts DEF Undo
  <2>3. \A g \in {0, 1} : s[g] # NoFd => t2[s[g]] = t[s[g]]
    BY <1>1, <1>4 DEF Undo, Savings
  <2>4. \A g \in Fd : g # f => t2[g] = t[g]
    BY <1>4
  <2>5. QED
    BY <1>1, <1>3, <2>1, <2>2, <2>3, <2>4 DEF Undo
<1>6. QED
  BY <1>2, <1>5 DEF t2

LEMMA RestoreUndo ==
  ASSUME NEW t, NEW s, NEW b \in Tables, Undo(t, s, b)
  PROVE  Restored(t, s) = b
<1>1. \A f \in Fd : Restored(t, s)[f] = b[f]
  <2> SUFFICES ASSUME NEW f \in Fd PROVE Restored(t, s)[f] = b[f]
    OBVIOUS
  <2>1. CASE f \in {s[0], s[1]}
    BY <2>1, FdFacts DEF Restored, Undo, Savings
  <2>2. CASE f \notin {s[0], s[1]}
    BY <2>2, FdFacts DEF Restored, Undo, Savings
  <2>3. QED
    BY <2>1, <2>2
<1>2. QED
  BY <1>1 DEF Restored, Tables

LEMMA HeldHeredoc ==
  ASSUME NEW t, NEW s, NEW b, Undo(t, s, b),
         NEW doc \in Fd, doc \notin {0, 1}, b[doc] = "heredoc"
  PROVE  t[doc] = "heredoc"
<1>1. \A f \in {0, 1} : s[f] # NoFd => doc # s[f]
  BY DEF Undo
<1>2. doc # NoFd
  BY FdFacts
<1>3. QED
  BY <1>1, <1>2 DEF Undo

-----------------------------------------------------------------------------
(* The invariant.                                                            *)

Shape ==
  /\ base \in Bases /\ table \in Tables /\ saved \in Savings
  /\ line \in Seq(Commands) /\ cur \in Nat /\ idx \in Nat
  /\ pc \in Points /\ (pc # "idle" => cur >= 1)
  /\ pc = "idle" => docs = NoDocs
  /\ \A p \in DOMAIN docs : docs[p] \in Fd \ base
  /\ pc \in {"next", "apply", "finish", "childApply", "childRan"}
       => Heredocs \subseteq DOMAIN docs
  /\ pc = "apply" => cur \in DOMAIN line /\ idx >= 1

Undoable == pc \in {"apply", "finish"} => Undo(table, saved, Between)

Inv == Shape /\ Undoable /\ TableRestored

LEMMA BetweenFacts ==
  ASSUME StdoutOpen, Shape
  PROVE  /\ Between \in Tables
         /\ Between[0] # "none" /\ Between[1] # "none"
         /\ \A f \in {0, 1} : f \in base
         /\ \A p \in DOMAIN docs : /\ docs[p] \in Fd /\ docs[p] \notin {0, 1}
                                   /\ Between[docs[p]] = "heredoc"
         /\ \A f \in Fd : Between[f] = "none" => f \notin base
<1>1. \A f \in {0, 1} : f \in base /\ f \in Fd
  BY BaseAssumption, FdFacts DEF StdoutOpen, Shape
<1>2. \A f \in Fd : BaseObject(base, f) \in Objects
  BY DEF BaseObject, Objects, Std
<1>3. \A f \in Fd : f \in base => BaseObject(base, f) # "none"
  BY DEF BaseObject
<1>4. \A p \in DOMAIN docs : docs[p] \in Fd /\ docs[p] \notin base
  BY DEF Shape
<1>5. Between \in Tables
  BY <1>2 DEF Between, Tables, Objects
<1>6. \A f \in Fd : f \in base => Between[f] # "none"
  BY <1>3 DEF Between
<1>7. \A p \in DOMAIN docs : Between[docs[p]] = "heredoc"
  BY <1>4 DEF Between
<1>8. QED
  BY <1>1, <1>4, <1>5, <1>6, <1>7

LEMMA InitInv == StdoutOpen /\ Init => Inv
<1> SUFFICES ASSUME StdoutOpen, Init PROVE Inv
  OBVIOUS
<1>1. Between = BaseTable(base)
  BY DEF Init, Between, BaseTable, NoDocs
<1>2. BaseTable(base) \in Tables
  BY DEF BaseTable, BaseObject, Tables, Objects, Std
<1>3. saved \in Savings
  BY DEF Init, NothingSaved, Savings
<1>4. line \in Seq(Commands)
  BY DEF Init
<1>5. Shape
  BY <1>2, <1>3, <1>4 DEF Init, Shape, Points, NoDocs
<1>6. QED
  BY <1>1, <1>5 DEF Init, Inv, Undoable, TableRestored

(* Steps that touch neither the table, nor the copies, nor the heredocs.     *)
LEMMA ControlSteps ==
  ASSUME Inv, Prepared \/ PrepareFails \/ Fork \/ ApplyInChild
              \/ ChildOpenFails \/ RunInChild \/ Wait \/ EndLine
  PROVE  Inv'
<1>1. UNCHANGED <<base, line, table, docs, saved>>
  BY DEF Prepared, PrepareFails, Fork, ApplyInChild, ChildOpenFails,
     RunInChild, Wait, EndLine
<1>2. UNCHANGED <<Between, Heredocs>>
  BY <1>1 DEF Between, Heredocs, Positions
<1>3. /\ pc \notin {"idle", "apply", "finish"}
      /\ pc' \in {"next", "destroy", "childApply", "childRan"}
      /\ cur' \in Nat /\ cur' >= 1 /\ idx' \in Nat
  BY DEF Inv, Shape, Prepared, PrepareFails, Fork, ApplyInChild,
     ChildOpenFails, RunInChild, Wait, EndLine
<1>4. pc' \in {"next", "childApply", "childRan"} => Heredocs \subseteq DOMAIN docs
  BY DEF Inv, Shape, Prepared, PrepareFails, Fork, ApplyInChild,
     ChildOpenFails, RunInChild, Wait, EndLine, Unprepared
<1>5. table = Between
  BY <1>3 DEF Inv, Shape, TableRestored, Points
<1>6. Shape'
  BY <1>1, <1>2, <1>3, <1>4 DEF Inv, Shape, Points
<1>7. QED
  BY <1>1, <1>2, <1>3, <1>5, <1>6 DEF Inv, Undoable, TableRestored

LEMMA LineSteps ==
  ASSUME StdoutOpen, Inv, ReadLine \/ PrepareHeredoc \/ DestroyLine
  PROVE  Inv'
<1>1. table = Between
  BY DEF Inv, TableRestored, ReadLine, PrepareHeredoc, DestroyLine
<1>2. CASE ReadLine
  <2>1. docs = NoDocs /\ docs' = NoDocs
    BY <1>2 DEF Inv, Shape, ReadLine
  <2>2. Between' = Between
    BY <1>2, <2>1 DEF Between, ReadLine
  <2>3. line' \in Seq(Commands)
    BY <1>2, LineAssumption DEF ReadLine
  <2>4. Shape'
    BY <1>2, <2>1, <2>3 DEF Inv, Shape, ReadLine, Points, NoDocs
  <2>5. QED
    BY <1>1, <1>2, <2>2, <2>4 DEF Inv, Undoable, TableRestored, ReadLine
<1>3. CASE PrepareHeredoc
  <2> DEFINE c == Lowest(table)
  <2>1. c \in Fd /\ Between[c] = "none"
    BY <1>1, <1>3, LowestIsFree DEF PrepareHeredoc
  <2>2. c \notin base
    BY <2>1, BetweenFacts DEF Inv
  <2>3. PICK p \in Unprepared :
          docs' = [q \in DOMAIN docs \cup {p} |-> IF q = p THEN c ELSE docs[q]]
    BY <1>3 DEF PrepareHeredoc
  <2>4. table' = [table EXCEPT ![c] = "heredoc"]
    BY <1>3 DEF PrepareHeredoc
  <2>5. UNCHANGED <<base, pc, line, cur, idx, saved>> /\ pc = "prepare"
    BY <1>3 DEF PrepareHeredoc
  <2> HIDE DEF c
  <2>6. p \notin DOMAIN docs
    BY DEF Unprepared
  <2>7. Between' = [Between EXCEPT ![c] = "heredoc"]
    <3>1. \A f \in Fd : (\E q \in DOMAIN docs' : docs'[q] = f)
                          <=> (f = c \/ \E q \in DOMAIN docs : docs[q] = f)
      BY <2>3, <2>6
    <3>2. QED
      BY <3>1, <2>5 DEF Between
  <2>8. table' \in Tables
    BY <2>4 DEF Inv, Shape, Tables, Objects
  <2>9. \A q \in DOMAIN docs' : docs'[q] \in Fd \ base
    BY <2>1, <2>2, <2>3 DEF Inv, Shape
  <2>10. Shape'
    BY <2>5, <2>8, <2>9 DEF Inv, Shape
  <2>11. QED
    BY <1>1, <2>4, <2>5, <2>7, <2>10 DEF Inv, Undoable, TableRestored
<1>4. CASE DestroyLine
  <2>1. UNCHANGED <<base, line, cur, idx, saved>> /\ pc' = "idle" /\ docs' = NoDocs
    BY <1>4 DEF DestroyLine
  <2>2. table' = [f \in Fd |-> IF \E p \in DOMAIN docs : docs[p] = f
                               THEN "none" ELSE table[f]]
    BY <1>4 DEF DestroyLine
  <2>3. Between' = BaseTable(base)
    BY <2>1 DEF Between, BaseTable, NoDocs
  <2>4. \A f \in Fd : table'[f] = BaseObject(base, f)
    <3> SUFFICES ASSUME NEW f \in Fd PROVE table'[f] = BaseObject(base, f)
      OBVIOUS
    <3>1. CASE \E p \in DOMAIN docs : docs[p] = f
      BY <2>2, <3>1 DEF Inv, Shape, BaseObject
    <3>2. CASE ~ \E p \in DOMAIN docs : docs[p] = f
      BY <1>1, <2>2, <3>2 DEF Between
    <3>3. QED
      BY <3>1, <3>2
  <2>5. table' = BaseTable(base)
    BY <2>2, <2>4 DEF BaseTable
  <2>6. BaseTable(base) \in Tables
    BY DEF BaseTable, BaseObject, Tables, Objects, Std
  <2>7. Shape'
    BY <2>1, <2>5, <2>6 DEF Inv, Shape, Points, NoDocs
  <2>8. QED
    BY <2>1, <2>3, <2>5, <2>7 DEF Inv, Undoable, TableRestored
<1>5. QED
  BY <1>2, <1>3, <1>4

(* What an applied redirection may need: a heredoc that is still held.       *)
LEMMA RedirectionFacts ==
  ASSUME Inv, pc \in {"apply", "childApply"}, ~AllApplied,
         cur \in DOMAIN line, idx >= 1
  PROVE  /\ Command \in Commands /\ idx \in DOMAIN Command.redirections
         /\ Redirection \in Redirections
         /\ Redirection.kind = "heredoc" => Doc \in {docs[p] : p \in DOMAIN docs}
<1>1. Command \in Commands /\ cur \in DOMAIN line
  BY DEF Inv, Shape, Command
<1>2. Command.redirections \in Seq(Redirections)
  BY <1>1 DEF Commands
<1>3. idx \in DOMAIN Command.redirections
  BY <1>2 DEF Inv, Shape, AllApplied
<1>4. Redirection \in Redirections
  BY <1>2, <1>3 DEF Redirection
<1>5. ASSUME Redirection.kind = "heredoc" PROVE <<cur, idx>> \in DOMAIN docs
  <2>1. <<cur, idx>> \in Positions
    BY <1>1, <1>3 DEF Positions, Command
  <2>2. <<cur, idx>> \in Heredocs
    BY <1>5, <2>1 DEF Heredocs, Redirection, Command
  <2>3. QED
    BY <2>2 DEF Inv, Shape
<1>6. QED
  BY <1>1, <1>3, <1>4, <1>5 DEF Doc

LEMMA ShellSteps ==
  ASSUME StdoutOpen, Inv,
         StartInShell \/ ApplyInShell \/ SaveFails \/ OpenFails
           \/ RunInShell \/ Finish
  PROVE  Inv'
<1>1. UNCHANGED <<base, line, docs>>
  BY DEF StartInShell, ApplyInShell, SaveFails, OpenFails, RunInShell, Finish
<1>2. UNCHANGED <<Between, Heredocs>>
  BY <1>1 DEF Between, Heredocs, Positions
<1>3. /\ Between \in Tables /\ Between[0] # "none" /\ Between[1] # "none"
      /\ \A p \in DOMAIN docs : /\ docs[p] \in Fd /\ docs[p] \notin {0, 1}
                                /\ Between[docs[p]] = "heredoc"
  BY BetweenFacts DEF Inv
<1>4. CASE StartInShell
  <2>1. table = Between /\ table' = table
    BY <1>4 DEF Inv, TableRestored, StartInShell
  <2>2. saved' = NothingSaved /\ pc' = "apply" /\ idx' = 1 /\ cur' = cur
    BY <1>4 DEF StartInShell
  <2>3. saved' \in Savings /\ saved'[0] = NoFd /\ saved'[1] = NoFd
    BY <2>2 DEF NothingSaved, Savings
  <2>4. Undo(table, saved', Between)
    BY <1>3, <2>1, <2>3, FdFacts DEF Undo
  <2>5. cur \in DOMAIN line
    BY <1>4 DEF Inv, Shape, StartInShell
  <2>6. Shape'
    BY <1>1, <1>2, <1>4, <2>1, <2>2, <2>3, <2>5 DEF Inv, Shape, Points, StartInShell
  <2>7. QED
    BY <1>2, <2>1, <2>2, <2>4, <2>6 DEF Inv, Undoable, TableRestored
<1>5. CASE ApplyInShell
  <2> DEFINE f == Target(Redirection)
             t == SaveTarget(table, saved, f)
             s == Copies(table, saved, f)
  <2>1. /\ CanSave(table, saved, f) /\ CanOpen(t, Redirection)
        /\ table' = MoveToTarget(t, Redirection, Doc) /\ saved' = s
        /\ pc = "apply" /\ pc' = "apply" /\ idx' = idx + 1 /\ cur' = cur
        /\ ~AllApplied
    BY <1>5 DEF ApplyInShell
  <2>2. f \in {0, 1}
    BY DEF Target
  <2>3. Undo(table, saved, Between)
    BY <2>1 DEF Inv, Undoable
  <2>4. Undo(t, s, Between) /\ s[f] # NoFd
    BY <1>3, <2>1, <2>2, <2>3, SaveUndo
  <2>5. /\ Redirection \in Redirections
        /\ Redirection.kind = "heredoc" => Doc \in {docs[p] : p \in DOMAIN docs}
    BY <2>1, RedirectionFacts DEF Inv, Shape
  <2>6. Redirection.kind = "heredoc" => Doc \in Fd /\ t[Doc] # "none"
    BY <1>3, <2>4, <2>5, HeldHeredoc
  <2> HIDE DEF t, s
  <2>7. Undo(table', saved', Between)
    BY <1>3, <2>1, <2>4, <2>5, <2>6, MoveUndo
  <2>8. Shape'
    BY <1>1, <1>2, <2>1, <2>7 DEF Inv, Shape, Undo
  <2>9. QED
    BY <1>2, <2>1, <2>7, <2>8 DEF Inv, Undoable, TableRestored
<1>6. CASE OpenFails
  <2> DEFINE f == Target(Redirection)
             t == SaveTarget(table, saved, f)
             s == Copies(table, saved, f)
  <2>1. /\ CanSave(table, saved, f) /\ table' = t /\ saved' = s
        /\ pc = "apply" /\ pc' = "finish" /\ idx' = idx /\ cur' = cur
    BY <1>6 DEF OpenFails
  <2>2. f \in {0, 1}
    BY DEF Target
  <2>3. Undo(table, saved, Between)
    BY <2>1 DEF Inv, Undoable
  <2>4. Undo(t, s, Between)
    BY <1>3, <2>1, <2>2, <2>3, SaveUndo
  <2>5. Shape'
    BY <1>1, <1>2, <2>1, <2>4 DEF Inv, Shape, Undo, Points
  <2>6. QED
    BY <1>2, <2>1, <2>4, <2>5 DEF Inv, Undoable, TableRestored
<1>7. CASE SaveFails \/ RunInShell
  <2>1. UNCHANGED <<table, saved, cur, idx>> /\ pc = "apply" /\ pc' = "finish"
    BY <1>7 DEF SaveFails, RunInShell
  <2>2. Shape'
    BY <1>1, <1>2, <2>1 DEF Inv, Shape, Points
  <2>3. QED
    BY <1>2, <2>1, <2>2 DEF Inv, Undoable, TableRestored
<1>8. CASE Finish
  <2>1. /\ table' = Restored(table, saved) /\ saved' = NothingSaved
        /\ pc = "finish" /\ pc' = "next" /\ cur' = cur + 1 /\ idx' = idx
    BY <1>8 DEF Finish
  <2>2. table' = Between
    BY <1>3, <2>1, RestoreUndo DEF Inv, Undoable
  <2>3. saved' \in Savings
    BY <2>1 DEF NothingSaved, Savings
  <2>4. Shape'
    BY <1>1, <1>2, <1>3, <2>1, <2>2, <2>3 DEF Inv, Shape, Points
  <2>5. QED
    BY <1>2, <2>1, <2>2, <2>4 DEF Inv, Undoable, TableRestored
<1>9. QED
  BY <1>4, <1>5, <1>6, <1>7, <1>8

LEMMA StepInv == StdoutOpen /\ Inv /\ [Next]_vars => Inv'
<1> SUFFICES ASSUME StdoutOpen, Inv, [Next]_vars PROVE Inv'
  OBVIOUS
<1>1. CASE UNCHANGED vars
  <2>1. UNCHANGED <<Between, Heredocs>>
    BY <1>1 DEF vars, Between, Heredocs, Positions
  <2>2. QED
    BY <1>1, <2>1 DEF vars, Inv, Shape, Undoable, TableRestored
<1>2. CASE Next
  BY <1>2, ControlSteps, LineSteps, ShellSteps DEF Next
<1>3. QED
  BY <1>1, <1>2

-----------------------------------------------------------------------------
(* Where redirections send a descriptor.                                     *)

Opened(r) == IF r.kind = "heredoc" THEN "heredoc" ELSE r.file

(* Where the first n of rs send f, which refers to o before them.            *)
Where(rs, n, f, o) ==
  LET to == {i \in 1..n : Target(rs[i]) = f}
      last == CHOOSE i \in to : \A j \in to : j <= i
  IN IF to = {} THEN o ELSE Opened(rs[last])

Start(c, b, f) ==
  IF f = 0 /\ c.place = "stage" THEN "pipe" ELSE BaseObject(b, f)

(* The table t is what n redirections of c make of 0 and 1.                  *)
Sends(t, c, b, n) ==
  \A f \in {0, 1} : t[f] = Where(c.redirections, n, f, Start(c, b, f))

(* What the shell, the child, the buffer and the history hold on the way:    *)
(* nothing waits in the buffer but what the command that is about to finish  *)
(* printed, with its redirections in place.                                  *)
ShellWired ==
  pc = "apply" => /\ InShell /\ idx <= Len(Command.redirections) + 1
                  /\ Sends(table, Command, base, idx - 1)
ChildWired ==
  pc \in {"childApply", "childRan"} =>
    /\ cur \in DOMAIN line /\ idx \in 1..(Len(Command.redirections) + 1)
    /\ pc = "childRan" => AllApplied
    /\ child \in Tables /\ child[0] # "none" /\ child[1] # "none"
    /\ Sends(child, Command, base, idx - 1)
    /\ \A f \in Fd : f \notin {0, 1} => child[f] = Between[f]
BufferHeld ==
  buf # <<>> => /\ pc = "finish" /\ buf = <<cur>>
                /\ table[1] = Redirected(cur, 1)

Wiring == ShellWired /\ ChildWired /\ BufferHeld /\ OutputGoesWhereRedirected

(* The last redirection of a descriptor wins over the ones before it.        *)
LEMMA WhereNext ==
  ASSUME NEW rs \in Seq(Redirections), NEW n \in DOMAIN rs, NEW f, NEW o
  PROVE  Where(rs, n, f, o) = IF Target(rs[n]) = f THEN Opened(rs[n])
                              ELSE Where(rs, n - 1, f, o)
<1> DEFINE to(k) == {i \in 1..k : Target(rs[i]) = f}
           last(S) == CHOOSE i \in S : \A j \in S : j <= i
<1>1. n \in Nat /\ n >= 1
  OBVIOUS
<1>2. \A k : Where(rs, k, f, o) = IF to(k) = {} THEN o ELSE Opened(rs[last(to(k))])
  BY DEF Where
<1>3. CASE Target(rs[n]) = f
  <2>1. n \in to(n) /\ \A j \in to(n) : j \in Nat /\ j <= n
    BY <1>1, <1>3
  <2> HIDE DEF to
  <2>2. last(to(n)) \in to(n) /\ \A j \in to(n) : j <= last(to(n))
    BY <2>1
  <2>3. last(to(n)) = n
    <3> HIDE DEF last
    <3>1. QED
      BY <2>1, <2>2, <1>1
  <2>4. QED
    BY <1>2, <1>3, <2>1, <2>3
<1>4. CASE Target(rs[n]) # f
  <2>1. to(n) = to(n - 1)
    BY <1>1, <1>4
  <2> HIDE DEF to, last
  <2>2. QED
    BY <1>2, <1>4, <2>1
<1>5. QED
  BY <1>3, <1>4

LEMMA WhereNone ==
  ASSUME NEW rs, NEW f, NEW o
  PROVE  Where(rs, 0, f, o) = o
  BY DEF Where

(* Where a command sends a descriptor, as the fold of its redirections.      *)
LEMMA RedirectedIsWhere ==
  ASSUME NEW l \in Seq(Commands), NEW c \in DOMAIN l, NEW f, NEW b,
         l = line, b = base
  PROVE  Redirected(c, f)
           = Where(l[c].redirections, Len(l[c].redirections), f, Start(l[c], b, f))
<1> DEFINE rs == l[c].redirections
           to == {i \in DOMAIN rs : Target(rs[i]) = f}
           upTo == {i \in 1..Len(rs) : Target(rs[i]) = f}
           last(S) == CHOOSE i \in S : \A j \in S : j <= i
<1>1. l[c] \in Commands
  OBVIOUS
<1>2. rs \in Seq(Redirections)
  BY <1>1 DEF Commands
<1>3. to = upTo
  BY <1>2
<1>4. Redirected(c, f)
        = IF to = {} THEN Start(l[c], b, f) ELSE Opened(rs[last(to)])
  BY DEF Redirected, Start, Opened
<1>5. Where(rs, Len(rs), f, Start(l[c], b, f))
        = IF upTo = {} THEN Start(l[c], b, f) ELSE Opened(rs[last(upTo)])
  BY DEF Where
<1> HIDE DEF to, upTo, last
<1>6. QED
  BY <1>3, <1>4, <1>5

(* The place of f among the descriptors a command was started with.          *)
LEMMA MoveOpens ==
  ASSUME NEW t \in Tables, t[0] # "none", t[1] # "none",
         NEW r \in Redirections, NEW doc, CanOpen(t, r),
         r.kind = "heredoc" => doc \in Fd /\ t[doc] = "heredoc"
  PROVE  /\ MoveToTarget(t, r, doc) = [t EXCEPT ![Target(r)] = Opened(r)]
         /\ MoveToTarget(t, r, doc) \in Tables
         /\ Opened(r) \in Objects /\ Opened(r) # "none"
<1>1. Target(r) \in {0, 1}
  BY DEF Target
<1>2. Opened(r) \in Objects /\ Opened(r) # "none"
  BY DEF Opened, Redirections, Files, Objects
<1>3. MoveToTarget(t, r, doc) = [t EXCEPT ![Target(r)] = Opened(r)]
  <2>1. CASE r.kind = "heredoc"
    BY <2>1 DEF MoveToTarget, Opened
  <2>2. CASE r.kind # "heredoc"
    <3> DEFINE c == Lowest(t)
    <3>1. c \in Fd /\ t[c] = "none"
      BY <2>2, LowestIsFree DEF CanOpen
    <3>2. MoveToTarget(t, r, doc) = [t EXCEPT ![Target(r)] = r.file, ![c] = "none"]
      BY <2>2 DEF MoveToTarget
    <3> HIDE DEF c
    <3>3. c # Target(r)
      BY <3>1, <1>1
    <3>4. [t EXCEPT ![Target(r)] = r.file, ![c] = "none"]
            = [t EXCEPT ![Target(r)] = r.file]
      BY <3>1, <3>3, <1>1, FdFacts DEF Tables
    <3>5. QED
      BY <2>2, <3>2, <3>4 DEF Opened
  <2>3. QED
    BY <2>1, <2>2
<1>4. QED
  BY <1>1, <1>2, <1>3, FdFacts DEF Tables

LEMMA SendsNext ==
  ASSUME NEW t \in Tables, NEW c \in Commands, NEW b,
         NEW n \in DOMAIN c.redirections,
         Sends(t, c, b, n - 1)
  PROVE  LET r == c.redirections[n]
         IN  Sends([t EXCEPT ![Target(r)] = Opened(r)], c, b, n)
<1> DEFINE r == c.redirections[n]
           u == [t EXCEPT ![Target(r)] = Opened(r)]
<1>1. c.redirections \in Seq(Redirections)
  BY DEF Commands
<1>2. Target(r) \in {0, 1}
  BY DEF Target
<1>3. \A f \in {0, 1} : u[f] = IF Target(r) = f THEN Opened(r) ELSE t[f]
  BY FdFacts DEF Tables
<1>4. \A f \in {0, 1} :
        Where(c.redirections, n, f, Start(c, b, f))
          = IF Target(r) = f THEN Opened(r)
            ELSE Where(c.redirections, n - 1, f, Start(c, b, f))
  BY <1>1, WhereNext
<1> HIDE DEF u, r
<1>5. Sends(u, c, b, n)
  BY <1>3, <1>4 DEF Sends
<1>6. QED
  BY <1>5 DEF u, r

(* Saving a descriptor leaves 0 and 1 where they are.                        *)
LEMMA SaveSends ==
  ASSUME NEW t \in Tables, t[0] # "none", t[1] # "none",
         NEW s, NEW f \in {0, 1}, CanSave(t, s, f)
  PROVE  /\ SaveTarget(t, s, f)[0] = t[0] /\ SaveTarget(t, s, f)[1] = t[1]
         /\ SaveTarget(t, s, f) \in Tables
<1>1. CASE s[f] # NoFd
  BY <1>1 DEF SaveTarget
<1>2. CASE s[f] = NoFd
  <2> DEFINE c == Lowest(t)
  <2>1. c \in Fd /\ t[c] = "none" /\ t[f] \in Objects
    BY <1>2, LowestIsFree, FdFacts DEF CanSave, Tables
  <2>2. SaveTarget(t, s, f) = [t EXCEPT ![c] = t[f]]
    BY <1>2 DEF SaveTarget
  <2> HIDE DEF c
  <2>3. QED
    BY <2>1, <2>2, FdFacts DEF Tables
<1>3. QED
  BY <1>1, <1>2

LEMMA RedirectedKept ==
  ASSUME UNCHANGED <<base, line>>, NEW c, NEW f
  PROVE  Redirected(c, f)' = Redirected(c, f)
  BY DEF Redirected, Target, BaseObject

(* Once all its redirections are applied a command has 0 and 1 where they    *)
(* send them.                                                                *)
LEMMA AllSent ==
  ASSUME Inv, cur \in DOMAIN line, AllApplied,
         idx <= Len(Command.redirections) + 1,
         NEW t, Sends(t, Command, base, idx - 1)
  PROVE  \A f \in {0, 1} : t[f] = Redirected(cur, f)
<1>1. line \in Seq(Commands) /\ idx \in Nat /\ Command \in Commands
  BY DEF Inv, Shape, Command
<1>2. Command.redirections \in Seq(Redirections)
  BY <1>1 DEF Commands
<1>3. idx - 1 = Len(Command.redirections)
  BY <1>1, <1>2 DEF AllApplied
<1>4. \A f \in {0, 1} :
        Redirected(cur, f) = Where(Command.redirections,
                                   Len(Command.redirections), f,
                                   Start(Command, base, f))
  BY <1>1, RedirectedIsWhere DEF Command
<1>5. QED
  BY <1>3, <1>4 DEF Sends

LEMMA FirstSends ==
  ASSUME NEW t, NEW c, NEW b, \A f \in {0, 1} : t[f] = Start(c, b, f)
  PROVE  Sends(t, c, b, 0)
  BY WhereNone DEF Sends

(* Nothing is delivered and nothing runs.                                    *)
LEMMA QuietSteps ==
  ASSUME Inv, Wiring,
         \/ ReadLine \/ PrepareHeredoc \/ PrepareFails \/ Prepared
         \/ DestroyLine \/ SaveFails \/ OpenFails \/ ChildOpenFails
         \/ Wait \/ EndLine
  PROVE  Wiring'
<1>1. /\ pc # "finish" /\ buf' = buf
      /\ pc' \notin {"apply", "childApply", "childRan"}
  BY DEF Inv, Shape, Points, ReadLine, PrepareHeredoc, PrepareFails, Prepared,
     DestroyLine, SaveFails, OpenFails, ChildOpenFails, Wait, EndLine
<1>2. buf' = <<>>
  BY <1>1 DEF Wiring, BufferHeld
<1>3. \/ delivered' = {}
      \/ delivered' = delivered /\ UNCHANGED <<base, line>>
  BY DEF ReadLine, PrepareHeredoc, PrepareFails, Prepared,
     DestroyLine, SaveFails, OpenFails, ChildOpenFails, Wait, EndLine
<1>4. OutputGoesWhereRedirected'
  BY <1>3, RedirectedKept DEF Wiring, OutputGoesWhereRedirected
<1>5. QED
  BY <1>1, <1>2, <1>4 DEF Wiring, ShellWired, ChildWired, BufferHeld

LEMMA ShellWires ==
  ASSUME StdoutOpen, Inv, Wiring,
         StartInShell \/ ApplyInShell \/ RunInShell \/ Finish
  PROVE  Wiring'
<1>1. /\ UNCHANGED <<base, line, docs>> /\ pc' \in {"apply", "finish", "next"}
      /\ cur \in Nat /\ line \in Seq(Commands) /\ table \in Tables
  BY DEF Inv, Shape, StartInShell, ApplyInShell, RunInShell, Finish
<1>2. \A c, f : Redirected(c, f)' = Redirected(c, f)
  BY <1>1, RedirectedKept
<1>3. ChildWired'
  BY <1>1 DEF ChildWired
<1>4. /\ Between \in Tables /\ Between[0] # "none" /\ Between[1] # "none"
      /\ \A f \in {0, 1} : f \in base
      /\ \A p \in DOMAIN docs : /\ docs[p] \in Fd /\ docs[p] \notin {0, 1}
                                /\ Between[docs[p]] = "heredoc"
  BY BetweenFacts DEF Inv
<1>5. CASE StartInShell
  <2>1. /\ buf = <<>> /\ buf' = <<>> /\ delivered' = delivered \cup Flushed(buf, table)
        /\ table = Between /\ table' = table /\ cur' = cur
        /\ cur \in DOMAIN line /\ pc' = "apply" /\ idx' = 1 /\ InShell
    BY <1>5 DEF Inv, Shape, TableRestored, Wiring, BufferHeld, StartInShell
  <2>2. delivered' = delivered
    BY <2>1 DEF Flushed
  <2>3. Command' = Command
    BY <1>1, <2>1 DEF Command
  <2>4. \A f \in {0, 1} : table[f] = Start(Command, base, f)
    <3>1. \A f \in {0, 1} : table[f] = BaseObject(base, f)
      BY <1>4, <2>1, FdFacts DEF Between
    <3>2. QED
      BY <2>1, <3>1 DEF Start, InShell
  <2>5. Sends(table, Command, base, 0)
    BY <2>4, FirstSends
  <2>6. Command.redirections \in Seq(Redirections)
    <3>1. Command \in Commands
      BY <1>1, <2>1 DEF Command
    <3>2. QED
      BY <3>1 DEF Commands
  <2>7. InShell' /\ idx' <= Len(Command'.redirections) + 1
    BY <2>1, <2>3, <2>6 DEF InShell
  <2>8. ShellWired'
    <3>1. idx' - 1 = 0 /\ table' = table /\ base' = base
      BY <1>1, <2>1
    <3>2. QED
      BY <2>3, <2>5, <2>7, <3>1 DEF ShellWired
  <2>9. QED
    BY <1>2, <1>3, <2>1, <2>2, <2>8
       DEF Wiring, BufferHeld, OutputGoesWhereRedirected
<1>6. CASE ApplyInShell
  <2> DEFINE r == Redirection
             f == Target(r)
             t == SaveTarget(table, saved, f)
             s == Copies(table, saved, f)
  <2>1. /\ CanSave(table, saved, f) /\ CanOpen(t, r)
        /\ table' = MoveToTarget(t, r, Doc)
        /\ pc = "apply" /\ pc' = "apply" /\ idx' = idx + 1 /\ cur' = cur
        /\ ~AllApplied /\ buf' = buf /\ delivered' = delivered
    BY <1>6 DEF ApplyInShell
  <2>2. f \in {0, 1}
    BY DEF Target
  <2>3. cur \in DOMAIN line /\ idx \in Nat /\ idx >= 1
    BY <2>1 DEF Inv, Shape
  <2>4. /\ Command \in Commands /\ idx \in DOMAIN Command.redirections
        /\ r \in Redirections
        /\ r.kind = "heredoc" => Doc \in {docs[p] : p \in DOMAIN docs}
    BY <2>1, <2>3, RedirectionFacts
  <2>5. Undo(table, saved, Between)
    BY <2>1 DEF Inv, Undoable
  <2>6. Undo(t, s, Between)
    BY <1>4, <2>1, <2>2, <2>5, SaveUndo
  <2>7. r.kind = "heredoc" => Doc \in Fd /\ t[Doc] = "heredoc"
    BY <1>4, <2>4, <2>6, HeldHeredoc
  <2>8. t[0] = table[0] /\ t[1] = table[1] /\ t \in Tables
    BY <1>1, <2>1, <2>2, <2>5, SaveSends DEF Undo
  <2>9. t[0] # "none" /\ t[1] # "none"
    BY <2>6 DEF Undo
  <2> HIDE DEF t, s
  <2>10. table' = [t EXCEPT ![f] = Opened(r)]
    BY <2>1, <2>4, <2>7, <2>8, <2>9, MoveOpens
  <2>11. Sends(t, Command, base, idx - 1)
    BY <2>1, <2>8 DEF Wiring, ShellWired, Sends
  <2>12. Sends(table', Command, base, idx)
    BY <2>4, <2>8, <2>10, <2>11, SendsNext DEF Redirection
  <2>13. Command' = Command /\ InShell
    BY <1>1, <2>1 DEF Command, Wiring, ShellWired
  <2>14. InShell' /\ idx' <= Len(Command'.redirections) + 1
    <3>1. Command.redirections \in Seq(Redirections)
      BY <2>4 DEF Commands
    <3>2. QED
      BY <2>1, <2>3, <2>4, <2>13, <3>1 DEF InShell
  <2>15. ShellWired'
    <3>1. idx' - 1 = idx /\ base' = base
      BY <1>1, <2>1, <2>3
    <3>2. QED
      BY <2>12, <2>13, <2>14, <3>1 DEF ShellWired
  <2>16. buf' = <<>>
    BY <2>1 DEF Wiring, BufferHeld
  <2>17. QED
    BY <1>2, <1>3, <2>1, <2>15, <2>16
       DEF Wiring, BufferHeld, OutputGoesWhereRedirected
<1>7. CASE RunInShell
  <2>1. /\ pc = "apply" /\ pc' = "finish" /\ AllApplied /\ buf = <<>>
        /\ buf' \in {buf, Append(buf, cur)}
        /\ UNCHANGED <<cur, table, delivered>>
    BY <1>7 DEF RunInShell, Wiring, BufferHeld
  <2>2. buf' # <<>> => buf' = <<cur>>
    BY <2>1
  <2>3. table[1] = Redirected(cur, 1)
    BY <2>1, AllSent DEF Inv, Shape, Wiring, ShellWired
  <2>4. ShellWired'
    BY <2>1 DEF ShellWired
  <2>5. QED
    BY <1>2, <1>3, <2>1, <2>2, <2>3, <2>4
       DEF Wiring, BufferHeld, OutputGoesWhereRedirected
<1>8. CASE Finish
  <2>1. /\ pc' = "next" /\ buf' = <<>>
        /\ delivered' = delivered \cup Flushed(buf, table)
    BY <1>8 DEF Finish
  <2>2. \A d \in Flushed(buf, table) : d[2] = Redirected(d[1], 1)
    <3>1. CASE buf = <<>>
      BY <3>1 DEF Flushed
    <3>2. CASE buf # <<>>
      <4>1. Flushed(buf, table) \subseteq {<<cur, table[1]>>}
        BY <3>2 DEF Flushed, Wiring, BufferHeld
      <4>2. QED
        BY <3>2, <4>1 DEF Wiring, BufferHeld
    <3>3. QED
      BY <3>1, <3>2
  <2>3. QED
    BY <1>2, <1>3, <2>1, <2>2
       DEF Wiring, ShellWired, BufferHeld, OutputGoesWhereRedirected
<1>9. QED
  BY <1>5, <1>6, <1>7, <1>8

LEMMA ChildWires ==
  ASSUME StdoutOpen, Inv, Wiring, Fork \/ ApplyInChild \/ RunInChild
  PROVE  Wiring'
<1>1. /\ UNCHANGED <<base, line, docs, cur, table, buf>> /\ buf = <<>>
      /\ pc' \in {"childApply", "childRan"} /\ cur \in DOMAIN line
      /\ cur \in Nat /\ line \in Seq(Commands) /\ table = Between
  BY DEF Inv, Shape, TableRestored, Wiring, ChildWired, BufferHeld,
     Fork, ApplyInChild, RunInChild
<1>2. /\ \A c, f : Redirected(c, f)' = Redirected(c, f)
      /\ Command' = Command /\ Between' = Between
  BY <1>1, RedirectedKept DEF Command, Between
<1>3. ShellWired' /\ BufferHeld'
  BY <1>1 DEF ShellWired, BufferHeld
<1>4. /\ Between \in Tables /\ Between[0] # "none" /\ Between[1] # "none"
      /\ \A f \in {0, 1} : f \in base
      /\ \A p \in DOMAIN docs : /\ docs[p] \in Fd /\ docs[p] \notin {0, 1}
                                /\ Between[docs[p]] = "heredoc"
  BY BetweenFacts DEF Inv
<1>5. Command \in Commands
  BY <1>1 DEF Command
<1>6. Command.redirections \in Seq(Redirections)
  BY <1>5 DEF Commands
<1>7. CASE Fork
  <2>1. /\ pc' = "childApply" /\ idx' = 1 /\ delivered' = delivered
        /\ child' = IF Command.place = "stage" THEN [table EXCEPT ![0] = "pipe"]
                    ELSE table
    BY <1>7 DEF Fork
  <2>2. \A f \in {0, 1} : Between[f] = BaseObject(base, f)
    BY <1>4, FdFacts DEF Between
  <2>3. /\ child' \in Tables /\ child'[0] # "none" /\ child'[1] # "none"
        /\ \A f \in Fd : f \notin {0, 1} => child'[f] = Between[f]
    BY <1>1, <1>4, <2>1, FdFacts DEF Tables, Objects
  <2>4. \A f \in {0, 1} : child'[f] = Start(Command, base, f)
    BY <1>1, <1>4, <2>1, <2>2, FdFacts DEF Start, Tables
  <2>5. Sends(child', Command, base, 0)
    BY <2>4, FirstSends
  <2>6. idx' - 1 = 0 /\ idx' \in 1..(Len(Command.redirections) + 1)
    BY <1>6, <2>1
  <2>7. ChildWired'
    BY <1>1, <1>2, <2>1, <2>3, <2>5, <2>6 DEF ChildWired
  <2>8. QED
    BY <1>2, <1>3, <2>1, <2>7 DEF Wiring, OutputGoesWhereRedirected
<1>8. CASE ApplyInChild
  <2> DEFINE r == Redirection
  <2>1. /\ CanOpen(child, r) /\ child' = MoveToTarget(child, r, Doc)
        /\ pc = "childApply" /\ pc' = "childApply" /\ idx' = idx + 1
        /\ ~AllApplied /\ delivered' = delivered
    BY <1>8 DEF ApplyInChild
  <2>2. /\ idx \in Nat /\ idx >= 1
        /\ child \in Tables /\ child[0] # "none" /\ child[1] # "none"
        /\ Sends(child, Command, base, idx - 1)
        /\ \A f \in Fd : f \notin {0, 1} => child[f] = Between[f]
    BY <2>1, <1>6 DEF Wiring, ChildWired
  <2>3. /\ idx \in DOMAIN Command.redirections /\ r \in Redirections
        /\ r.kind = "heredoc" => Doc \in {docs[p] : p \in DOMAIN docs}
    BY <1>1, <2>1, <2>2, RedirectionFacts
  <2>4. r.kind = "heredoc" => Doc \in Fd /\ child[Doc] = "heredoc"
    BY <1>4, <2>2, <2>3
  <2>5. /\ child' = [child EXCEPT ![Target(r)] = Opened(r)]
        /\ child' \in Tables /\ Opened(r) \in Objects /\ Opened(r) # "none"
    BY <2>1, <2>2, <2>3, <2>4, MoveOpens
  <2>6. Target(r) \in {0, 1}
    BY DEF Target
  <2>7. Sends(child', Command, base, idx)
    BY <1>5, <2>2, <2>3, <2>5, SendsNext DEF Redirection
  <2>8. /\ child'[0] # "none" /\ child'[1] # "none"
        /\ \A f \in Fd : f \notin {0, 1} => child'[f] = Between[f]
    BY <2>2, <2>5, <2>6, FdFacts DEF Tables
  <2>9. idx' - 1 = idx /\ idx' \in 1..(Len(Command.redirections) + 1)
    BY <1>6, <2>1, <2>2, <2>3
  <2>10. ChildWired'
    BY <1>1, <1>2, <2>1, <2>5, <2>7, <2>8, <2>9 DEF ChildWired
  <2>11. QED
    BY <1>2, <1>3, <2>1, <2>10 DEF Wiring, OutputGoesWhereRedirected
<1>9. CASE RunInChild
  <2>1. /\ pc = "childApply" /\ pc' = "childRan" /\ AllApplied
        /\ UNCHANGED <<idx, child>>
    BY <1>9 DEF RunInChild
  <2>2. PICK printed \in {<<>>, Append(<<>>, cur)} :
          delivered' = delivered \cup Flushed(printed, child)
    BY <1>1, <1>9 DEF RunInChild
  <2>3. child[1] = Redirected(cur, 1)
    BY <1>1, <1>6, <2>1, AllSent DEF Wiring, ChildWired
  <2>4. Flushed(printed, child) \subseteq {<<cur, child[1]>>}
    BY DEF Flushed
  <2>5. OutputGoesWhereRedirected'
    BY <1>2, <2>2, <2>3, <2>4 DEF Wiring, OutputGoesWhereRedirected
  <2>6. AllApplied'
    BY <1>2, <2>1 DEF AllApplied
  <2>7. ChildWired'
    BY <1>1, <1>2, <2>1, <2>6 DEF Wiring, ChildWired
  <2>8. QED
    BY <1>3, <2>5, <2>7 DEF Wiring
<1>10. QED
  BY <1>7, <1>8, <1>9

LEMMA WiringStep ==
  StdoutOpen /\ Inv /\ Wiring /\ [Next]_vars => Wiring'
<1> SUFFICES ASSUME StdoutOpen, Inv, Wiring, [Next]_vars PROVE Wiring'
  OBVIOUS
<1>1. CASE UNCHANGED vars
  <2>1. \A c, f : Redirected(c, f)' = Redirected(c, f)
    BY <1>1, RedirectedKept DEF vars
  <2>2. UNCHANGED <<Command, Between, InShell, AllApplied>>
    BY <1>1 DEF vars, Command, Between, InShell, AllApplied
  <2>3. QED
    BY <1>1, <2>1, <2>2 DEF vars, Wiring, ShellWired, ChildWired, BufferHeld,
       OutputGoesWhereRedirected
<1>2. CASE Next
  BY <1>2, QuietSteps, ShellWires, ChildWires DEF Next
<1>3. QED
  BY <1>1, <1>2

LEMMA WiredChild ==
  ASSUME Inv, Wiring PROVE ChildSeesRedirections
<1> SUFFICES ASSUME pc = "childRan", NEW f \in Fd
             PROVE  child[f] = IF f \in {0, 1} THEN Redirected(cur, f)
                               ELSE Between[f]
  BY DEF ChildSeesRedirections
<1>1. Command \in Commands
  BY DEF Wiring, ChildWired, Inv, Shape, Command
<1>2. Command.redirections \in Seq(Redirections)
  BY <1>1 DEF Commands
<1>3. \A g \in {0, 1} : child[g] = Redirected(cur, g)
  BY <1>2, AllSent DEF Wiring, ChildWired
<1>4. QED
  BY <1>3 DEF Wiring, ChildWired

(* Between two commands the shell has the descriptors it was started with    *)
(* and the heredocs of its line, whichever of a command's redirections       *)
(* failed and however often each descriptor was redirected.                  *)
THEOREM DescriptorsComeBack ==
  ASSUME StdoutOpen PROVE Spec => []TableRestored
<1>1. Inv => TableRestored
  BY DEF Inv
<1>2. StdoutOpen
  OBVIOUS
<1>3. QED
  BY <1>1, <1>2, InitInv, StepInv, PTL DEF Spec

(* What a command prints is found where its own redirections send it, the    *)
(* last one winning: a builtin's output is flushed before descriptor 1 is    *)
(* put back and never with what an earlier command printed, and a builtin in *)
(* the last stage of a pipeline inherits an empty buffer.                    *)
THEOREM OutputIsWhereRedirected ==
  ASSUME StdoutOpen PROVE Spec => []OutputGoesWhereRedirected
<1>1. Init => Wiring
  BY DEF Init, Wiring, ShellWired, ChildWired, BufferHeld,
     OutputGoesWhereRedirected
<1>2. Wiring => OutputGoesWhereRedirected
  BY DEF Wiring
<1>3. StdoutOpen
  OBVIOUS
<1>4. QED
  BY <1>1, <1>2, <1>3, InitInv, StepInv, WiringStep, PTL DEF Spec

(* A child runs with 0 and 1 where its redirections send them and the        *)
(* shell's other descriptors as they are between two commands: none of the   *)
(* copies, and nothing opened for a redirection left over.                   *)
THEOREM ChildrenSeeRedirections ==
  ASSUME StdoutOpen PROVE Spec => []ChildSeesRedirections
<1>1. Init => Wiring
  BY DEF Init, Wiring, ShellWired, ChildWired, BufferHeld,
     OutputGoesWhereRedirected
<1>2. Inv /\ Wiring => ChildSeesRedirections
  BY WiredChild
<1>3. StdoutOpen
  OBVIOUS
<1>4. QED
  BY <1>1, <1>2, <1>3, InitInv, StepInv, WiringStep, PTL DEF Spec

-----------------------------------------------------------------------------
(* Types, whichever descriptors the shell was started with.                  *)

Ready ==
  /\ pc # "idle" => cur >= 1
  /\ pc \in {"next", "apply", "finish", "childApply", "childRan"}
       => Heredocs \subseteq DOMAIN docs
  /\ pc \in {"apply", "childApply"} => cur \in DOMAIN line /\ idx >= 1

LEMMA StatusTypes ==
  ASSUME NEW e PROVE StatusFromError(e) \in {1, 126, 127}
  BY DEF StatusFromError

LEMMA FlushedTypes ==
  ASSUME NEW b \in Seq(Nat), NEW t \in Tables
  PROVE  Flushed(b, t) \subseteq Nat \X Objects
<1>1. 1 \in Fd
  BY FdFacts
<1>2. \A i \in DOMAIN b : b[i] \in Nat
  OBVIOUS
<1>3. t[1] \in Objects
  BY <1>1 DEF Tables
<1>4. QED
  BY <1>2, <1>3 DEF Flushed

LEMMA AppendTypes ==
  ASSUME NEW b \in Seq(Nat), NEW n \in Nat
  PROVE  Append(b, n) \in Seq(Nat)
  OBVIOUS

LEMMA SaveTypes ==
  ASSUME NEW t \in Tables, NEW s \in Savings, NEW f \in {0, 1}, CanSave(t, s, f)
  PROVE  SaveTarget(t, s, f) \in Tables /\ Copies(t, s, f) \in Savings
<1>1. CASE s[f] # NoFd
  BY <1>1 DEF SaveTarget, Copies
<1>2. CASE s[f] = NoFd
  <2> DEFINE c == Lowest(t)
  <2>1. c \in Fd /\ t[f] \in Objects
    BY <1>2, LowestIsFree, FdFacts DEF CanSave, Tables
  <2>2. SaveTarget(t, s, f) = [t EXCEPT ![c] = t[f]] /\ Copies(t, s, f) = [s EXCEPT ![f] = c]
    BY <1>2 DEF SaveTarget, Copies
  <2> HIDE DEF c
  <2>3. QED
    BY <2>1, <2>2 DEF Tables, Savings
<1>3. QED
  BY <1>1, <1>2

LEMMA MoveTypes ==
  ASSUME NEW t \in Tables, NEW r \in Redirections, NEW doc,
         r.kind = "heredoc" => doc \in Fd
  PROVE  MoveToTarget(t, r, doc) \in Tables
<1>1. CASE r.kind = "heredoc"
  BY <1>1 DEF MoveToTarget, Tables
<1>2. CASE r.kind # "heredoc"
  <2>1. r.file \in Objects /\ "none" \in Objects
    BY DEF Redirections, Files, Objects
  <2>2. QED
    BY <1>2, <2>1 DEF MoveToTarget, Tables
<1>3. QED
  BY <1>1, <1>2

LEMMA NextRedirection ==
  ASSUME TypeOK, Ready, pc \in {"apply", "childApply"}, ~AllApplied
  PROVE  /\ Redirection \in Redirections
         /\ Redirection.kind = "heredoc" => Doc \in Fd
<1>1. Command \in Commands /\ cur \in DOMAIN line
  BY DEF TypeOK, Ready, Command
<1>2. Command.redirections \in Seq(Redirections)
  BY <1>1 DEF Commands
<1>3. idx \in DOMAIN Command.redirections
  BY <1>2 DEF TypeOK, Ready, AllApplied
<1>4. Redirection \in Redirections
  BY <1>2, <1>3 DEF Redirection
<1>5. ASSUME Redirection.kind = "heredoc" PROVE <<cur, idx>> \in DOMAIN docs
  <2>1. <<cur, idx>> \in Positions
    BY <1>1, <1>3 DEF Positions, Command
  <2>2. <<cur, idx>> \in Heredocs
    BY <1>5, <2>1 DEF Heredocs, Redirection, Command
  <2>3. QED
    BY <2>2 DEF Ready
<1>6. QED
  BY <1>4, <1>5 DEF Doc, TypeOK

LEMMA InitTypes == Init => TypeOK /\ Ready
<1> SUFFICES ASSUME Init PROVE TypeOK /\ Ready
  OBVIOUS
<1>1. BaseTable(base) \in Tables
  BY DEF BaseTable, BaseObject, Tables, Objects, Std
<1>2. saved \in Savings
  BY DEF Init, NothingSaved, Savings
<1>3. QED
  BY <1>1, <1>2, LineAssumption DEF Init, TypeOK, Ready, Points, NoDocs, Tables, Savings

LEMMA TypesOfLine ==
  ASSUME TypeOK, Ready,
         \/ ReadLine \/ PrepareHeredoc \/ PrepareFails \/ Prepared
         \/ DestroyLine \/ EndLine \/ Wait
  PROVE  TypeOK' /\ Ready'
<1> USE DEF Tables, Savings
<1>1. CASE ReadLine
  <2>1. line' \in Seq(Commands) /\ lines' \in 0..MaxLines
    BY <1>1, LineAssumption DEF ReadLine, TypeOK
  <2>2. QED
    BY <1>1, <2>1 DEF ReadLine, TypeOK, Ready, Points, NoDocs
<1>2. CASE PrepareHeredoc
  <2> DEFINE c == Lowest(table)
  <2>1. c \in Fd
    BY <1>2, LowestIsFree DEF PrepareHeredoc
  <2>2. \A p \in DOMAIN docs' : docs'[p] \in Fd
    BY <1>2, <2>1 DEF PrepareHeredoc, TypeOK
  <2>3. table' \in [Fd -> Objects]
    BY <1>2, <2>1 DEF PrepareHeredoc, TypeOK, Objects
  <2>4. QED
    BY <1>2, <2>2, <2>3 DEF PrepareHeredoc, TypeOK, Ready
<1>3. CASE PrepareFails \/ EndLine \/ Wait
  <2>1. UNCHANGED Heredocs
    BY <1>3 DEF PrepareFails, EndLine, Wait, Heredocs, Positions
  <2>2. QED
    BY <1>3, <2>1 DEF PrepareFails, EndLine, Wait, TypeOK, Ready, Points
<1>4. CASE Prepared
  <2>1. UNCHANGED Heredocs /\ Heredocs \subseteq DOMAIN docs
    BY <1>4 DEF Prepared, Heredocs, Positions, Unprepared
  <2>2. QED
    BY <1>4, <2>1 DEF Prepared, TypeOK, Ready, Points
<1>5. CASE DestroyLine
  <2>1. table' \in [Fd -> Objects]
    BY <1>5 DEF DestroyLine, TypeOK, Objects
  <2>2. QED
    BY <1>5, <2>1 DEF DestroyLine, TypeOK, Ready, Points, NoDocs
<1>6. QED
  BY <1>1, <1>2, <1>3, <1>4, <1>5

LEMMA TypesOfShell ==
  ASSUME TypeOK, Ready,
         StartInShell \/ ApplyInShell \/ SaveFails \/ OpenFails
           \/ RunInShell \/ Finish
  PROVE  TypeOK' /\ Ready'
<1>1. UNCHANGED Heredocs /\ table \in Tables /\ saved \in Savings
  BY DEF TypeOK, Heredocs, Positions, Tables, Savings, StartInShell, ApplyInShell,
     SaveFails, OpenFails, RunInShell, Finish
<1>2. Flushed(buf, table) \subseteq Nat \X Objects
  BY <1>1, FlushedTypes DEF TypeOK
<1> DEFINE f == Target(Redirection)
<1>3. f \in {0, 1}
  BY DEF Target
<1>4. CASE StartInShell
  <2>1. saved' \in Savings /\ cur \in DOMAIN line
    BY <1>4 DEF StartInShell, NothingSaved, Savings, TypeOK, Ready
  <2>2. QED
    BY <1>1, <1>2, <1>4, <2>1 DEF StartInShell, TypeOK, Ready, Points, Savings
<1>5. CASE ApplyInShell
  <2>1. SaveTarget(table, saved, f) \in Tables /\ saved' \in Savings
    BY <1>1, <1>3, <1>5, SaveTypes DEF ApplyInShell
  <2>2. /\ Redirection \in Redirections
        /\ Redirection.kind = "heredoc" => Doc \in Fd
    BY <1>5, NextRedirection DEF ApplyInShell
  <2>3. table' \in Tables
    BY <1>5, <2>1, <2>2, MoveTypes DEF ApplyInShell
  <2>4. QED
    BY <1>1, <1>5, <2>1, <2>3 DEF ApplyInShell, TypeOK, Ready, Tables, Savings
<1>6. CASE OpenFails
  <2>1. table' \in Tables /\ saved' \in Savings
    BY <1>1, <1>3, <1>6, SaveTypes DEF OpenFails
  <2>2. status' \in {0, 1, 126, 127}
    BY <1>6, StatusTypes DEF OpenFails
  <2>3. QED
    BY <1>1, <1>6, <2>1, <2>2 DEF OpenFails, TypeOK, Ready, Points, Tables, Savings
<1>7. CASE SaveFails
  <2>1. status' \in {0, 1, 126, 127}
    BY <1>7, StatusTypes DEF SaveFails
  <2>2. QED
    BY <1>1, <1>7, <2>1 DEF SaveFails, TypeOK, Ready, Points
<1>8. CASE RunInShell
  <2>1. Append(buf, cur) \in Seq(Nat) /\ buf \in Seq(Nat)
    BY AppendTypes DEF TypeOK
  <2>2. buf' \in Seq(Nat) /\ status' \in {0, 1}
    BY <1>8, <2>1 DEF RunInShell
  <2>3. QED
    BY <1>1, <1>8, <2>2 DEF RunInShell, TypeOK, Ready, Points
<1>9. CASE Finish
  <2>1. table' \in Tables
    <3>1. \A g \in {0, 1} : saved[g] # NoFd => saved[g] \in Fd
      BY <1>1 DEF Savings
    <3>2. QED
      BY <1>1, <1>9, <3>1 DEF Finish, Restored, Tables, Objects
  <2>2. saved' \in Savings
    BY <1>9 DEF Finish, NothingSaved, Savings
  <2>3. QED
    BY <1>1, <1>2, <1>9, <2>1, <2>2 DEF Finish, TypeOK, Ready, Points, Tables, Savings
<1>10. QED
  BY <1>4, <1>5, <1>6, <1>7, <1>8, <1>9

LEMMA TypesOfChild ==
  ASSUME TypeOK, Ready, Fork \/ ApplyInChild \/ ChildOpenFails \/ RunInChild
  PROVE  TypeOK' /\ Ready'
<1>1. UNCHANGED Heredocs /\ child \in Tables
  BY DEF TypeOK, Heredocs, Positions, Tables, Fork, ApplyInChild,
     ChildOpenFails, RunInChild
<1>2. CASE Fork
  <2>1. child' \in [Fd -> Objects] /\ cur \in DOMAIN line
    BY <1>2, FdFacts DEF Fork, TypeOK, Ready, Objects
  <2>2. QED
    BY <1>1, <1>2, <2>1 DEF Fork, TypeOK, Ready, Points
<1>3. CASE ApplyInChild
  <2>1. /\ Redirection \in Redirections
        /\ Redirection.kind = "heredoc" => Doc \in Fd
    BY <1>3, NextRedirection DEF ApplyInChild
  <2>2. child' \in Tables
    BY <1>1, <1>3, <2>1, MoveTypes DEF ApplyInChild
  <2>3. QED
    BY <1>1, <1>3, <2>2 DEF ApplyInChild, TypeOK, Ready, Tables
<1>4. CASE ChildOpenFails
  <2>1. status' \in {0, 1, 126, 127}
    BY <1>4, StatusTypes DEF ChildOpenFails
  <2>2. QED
    BY <1>1, <1>4, <2>1 DEF ChildOpenFails, TypeOK, Ready, Points
<1>5. CASE RunInChild
  <2> DEFINE none == <<>>
  <2>1. /\ buf \in Seq(Nat) /\ Append(buf, cur) \in Seq(Nat)
        /\ none \in Seq(Nat) /\ Append(none, cur) \in Seq(Nat)
    <3>1. buf \in Seq(Nat) /\ none \in Seq(Nat) /\ cur \in Nat
      BY DEF TypeOK
    <3> HIDE DEF none
    <3>2. QED
      BY <3>1, AppendTypes
  <2>2. PICK printed \in Seq(Nat) : delivered' = delivered \cup Flushed(printed, child)
    BY <1>5, <2>1 DEF RunInChild
  <2>3. delivered' \subseteq Nat \X Objects
    BY <1>1, <2>2, FlushedTypes DEF TypeOK
  <2>4. QED
    BY <1>1, <1>5, <2>3 DEF RunInChild, TypeOK, Ready, Points
<1>6. QED
  BY <1>2, <1>3, <1>4, <1>5

(* Every descriptor the shell or a child uses is one of its table, every     *)
(* status is one a command can have, and a heredoc that is applied was       *)
(* prepared: whichever descriptors the shell was started with.               *)
THEOREM TypeCorrect == Spec => []TypeOK
<1>1. TypeOK /\ Ready /\ [Next]_vars => (TypeOK /\ Ready)'
  <2> SUFFICES ASSUME TypeOK, Ready, [Next]_vars PROVE TypeOK' /\ Ready'
    OBVIOUS
  <2>1. CASE UNCHANGED vars
    BY <2>1 DEF vars, TypeOK, Ready, Heredocs, Positions
  <2>2. CASE Next
    BY <2>2, TypesOfLine, TypesOfShell, TypesOfChild DEF Next
  <2>3. QED
    BY <2>1, <2>2
<1>2. QED
  BY <1>1, InitTypes, PTL DEF Spec
=============================================================================
