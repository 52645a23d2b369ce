------------------------------ MODULE EnvStore ------------------------------
(***************************************************************************)
(* The environment store, env_store.c: a singly linked list with a tail    *)
(* pointer, and the builtins of parent_state.c that change it.  Nodes are  *)
(* malloc'ed: an identifier is in use or freed, and may be used again.     *)
(***************************************************************************)
EXTENDS Integers, Sequences, FiniteSets

CONSTANTS
  Keys, Values, Dirs,   \* see EnvAbs
  Envps,                \* the environments main() may be started with
  MaxNodes              \* the nodes there is memory for

NoValue == "(no value)"
NoKey   == "(freed)"

(* What a node says, to begin with an entry of envp.                       *)
EntryType == [key : Keys, value : Values \cup {NoValue}]

ASSUME KeyAssumption ==
  {"PWD", "OLDPWD"} \subseteq Keys /\ NoKey \notin Keys /\ IsFiniteSet(Keys)
ASSUME ValueAssumption ==
  Dirs \subseteq Values /\ NoValue \notin Values
(* The same name may come twice in an environment; load_entry takes both.  *)
ASSUME MemoryAssumption ==
  /\ MaxNodes \in Nat /\ Envps \subseteq Seq(EntryType)
  /\ \A e \in Envps :
       Len(e) + Cardinality(Keys \ {e[i].key : i \in DOMAIN e}) <= MaxNodes

Null == 0
Ids == 1..MaxNodes
Freed == [key |-> NoKey, value |-> NoValue, next |-> Null]

VARIABLES
  store,   \* t_env_store, with the heap its nodes are in
  pc,      \* "load" while envp is read, "run" between two builtins, "exited"
           \* at last, else the builtin that is going through its arguments
  envp,    \* what is left of it
  status   \* of the last builtin

vars == <<store, pc, envp, status>>

EmptyStore == [head |-> Null, tail |-> Null, size |-> 0,
               node |-> [n \in Ids |-> Freed]]

Init ==
  /\ store = EmptyStore
  /\ pc = "load" /\ envp \in Envps
  /\ status = 0

-----------------------------------------------------------------------------
(* env_store.c, as operators on a store s.                                 *)

(* What a loop over s gathers, that takes f[n] from node n.  (A list that  *)
(* went round in a circle would be left after MaxNodes + 1 nodes.)         *)
Gathered(s, f) ==
  LET from[i \in 0..MaxNodes + 1] ==
        [n \in Ids \cup {Null} |->
           IF i = 0 \/ n = Null THEN <<>>
           ELSE f[n] \o from[i-1][s.node[n].next]]
  IN from[MaxNodes + 1][s.head]

Nodes(s) == Gathered(s, [n \in Ids |-> <<n>>])

(* sh_env_store_find: the first node with the key, and its place.          *)
Place(s, k) ==
  LET nodes == Nodes(s)
      has   == {i \in DOMAIN nodes : s.node[nodes[i]].key = k}
  IN IF has = {} THEN 0 ELSE CHOOSE i \in has : \A j \in has : i <= j
Find(s, k) ==
  LET at == Place(s, k) IN IF at = 0 THEN Null ELSE Nodes(s)[at]
Previous(s, at) == IF at = 1 THEN Null ELSE Nodes(s)[at - 1]

(* sh_env_store_get: NULL for a name without a value.                      *)
Get(s, k) ==
  LET n == Find(s, k) IN IF n = Null THEN NoValue ELSE s.node[n].value

FreeIds(s) == {n \in Ids : s.node[n] = Freed}
New(s) == CHOOSE n \in FreeIds(s) : \A m \in FreeIds(s) : n <= m

AppendNode(s, k, v) ==
  LET n == New(s)
      made == [s.node EXCEPT ![n] = [key |-> k, value |-> v, next |-> Null]]
  IN [head |-> IF s.tail = Null THEN n ELSE s.head,
      tail |-> n,
      size |-> s.size + 1,
      node |-> IF s.tail = Null THEN made
               ELSE [made EXCEPT ![s.tail].next = n]]

Set(s, k, v) ==
  LET n == Find(s, k) IN
  IF n = Null THEN AppendNode(s, k, v) ELSE [s EXCEPT !.node[n].value = v]

(* The list without the node at a place, with the tail it is left with.    *)
Unlink(s, at, tail) ==
  LET n    == Nodes(s)[at]
      prev == Previous(s, at)
      next == s.node[n].next
      cut  == IF prev = Null THEN s.node ELSE [s.node EXCEPT ![prev].next = next]
  IN [head |-> IF prev = Null THEN next ELSE s.head,
      tail |-> tail,
      size |-> s.size - 1,
      node |-> [cut EXCEPT ![n] = Freed]]
TailWithout(s, at) == IF s.tail = Nodes(s)[at] THEN Previous(s, at) ELSE s.tail

(* Mutant: the tail is not moved back when the last node goes.             *)
UnsetKeepingTail(s, k) ==
  IF Place(s, k) = 0 THEN s ELSE Unlink(s, Place(s, k), s.tail)
(* Mutant: size goes down even if the name is not there.                   *)
UnsetCounting(s, k) ==
  IF Place(s, k) = 0 THEN [s EXCEPT !.size = @ - 1]
  ELSE Unlink(s, Place(s, k), TailWithout(s, Place(s, k)))
UnsetKey(s, k) ==
  IF Place(s, k) = 0 THEN s
  ELSE Unlink(s, Place(s, k), TailWithout(s, Place(s, k)))

EntryOf(s, n) == [key |-> s.node[n].key, value |-> s.node[n].value]
(* Mutant: has_value is not looked at.                                     *)
ToEnvpOfAll(s) == Gathered(s, [n \in Ids |-> <<EntryOf(s, n)>>])
(* sh_env_store_to_envp: the entries execve() gets, in the list's order.   *)
ToEnvp(s) ==
  Gathered(s, [n \in Ids |-> IF s.node[n].value = NoValue THEN <<>>
                             ELSE <<EntryOf(s, n)>>])

-----------------------------------------------------------------------------
(* sh_env_store_init_from_envp appends whatever it is given.               *)
LoadEntry ==
  /\ pc = "load" /\ envp # <<>>
  /\ store' = AppendNode(store, Head(envp).key, Head(envp).value)
  /\ envp' = Tail(envp)
  /\ UNCHANGED <<pc, status>>

Loaded ==
  /\ pc = "load" /\ envp = <<>>
  /\ pc' = "run"
  /\ UNCHANGED <<store, envp, status>>

-----------------------------------------------------------------------------
(* parent_state.c: export and unset go through their arguments, and a bad  *)
(* name spoils the status but not the arguments after it.                  *)

Start(builtin) ==
  /\ pc = "run"
  /\ pc' = builtin /\ status' = 0
  /\ UNCHANGED <<store, envp>>

(* NAME=value, or a NAME alone, which loses the value it had.              *)
ExportArgument ==
  /\ pc = "export"
  /\ \E k \in Keys, v \in Values \cup {NoValue} : store' = Set(store, k, v)
  /\ UNCHANGED <<pc, envp, status>>

UnsetArgument ==
  /\ pc = "unset"
  /\ \E k \in Keys : store' = UnsetKey(store, k)
  /\ UNCHANGED <<pc, envp, status>>

BadName ==
  /\ pc \in {"export", "unset"}
  /\ status' = 1
  /\ UNCHANGED <<store, pc, envp>>

Return ==
  /\ pc \in {"export", "unset"}
  /\ pc' = "run"
  /\ UNCHANGED <<store, envp, status>>

(* sh_builtin_update_pwd; getcwd() may not know the directory's name.      *)
UpdateOldPwd(s) ==
  IF Get(s, "PWD") # NoValue THEN Set(s, "OLDPWD", Get(s, "PWD")) ELSE s
(* Mutant: PWD is set first.                                               *)
UpdatePwdFirst(s, named, d) ==
  UpdateOldPwd(IF named THEN Set(s, "PWD", d) ELSE s)
UpdatePwd(s, named, d) ==
  IF named THEN Set(UpdateOldPwd(s), "PWD", d) ELSE UpdateOldPwd(s)

Cd ==
  /\ pc = "run"
  /\ \E d \in Dirs, named \in BOOLEAN : store' = UpdatePwd(store, named, d)
  /\ status' = 0
  /\ UNCHANGED <<pc, envp>>

(* HOME without a value, too many arguments, or chdir() refuses.           *)
CdFails ==
  /\ pc = "run"
  /\ status' = 1
  /\ UNCHANGED <<store, pc, envp>>

(* sh_env_store_destroy.                                                   *)
DestroyAll(s) ==
  [EmptyStore EXCEPT !.node =
     [n \in Ids |-> IF n \in {Nodes(s)[i] : i \in DOMAIN Nodes(s)}
                     THEN Freed ELSE s.node[n]]]

Exit ==
  /\ pc = "run"
  /\ store' = DestroyAll(store) /\ pc' = "exited"
  /\ UNCHANGED <<envp, status>>

Exited == pc = "exited" /\ UNCHANGED vars

Next ==
  \/ LoadEntry \/ Loaded \/ Start("export") \/ Start("unset")
  \/ ExportArgument \/ UnsetArgument \/ BadName \/ Return \/ Cd \/ CdFails
  \/ Exit \/ Exited

Spec == Init /\ [][Next]_vars
-----------------------------------------------------------------------------
(* Properties.                                                             *)

NodeType == [key : Keys, value : Values \cup {NoValue}, next : Ids \cup {Null}]

(* The list, the heap and the statuses are in their types, and a freed     *)
(* node is not linked anywhere.                                            *)
TypeOK ==
  /\ store.head \in Ids \cup {Null} /\ store.tail \in Ids \cup {Null}
  /\ store.size \in 0..MaxNodes
  /\ \A n \in Ids : store.node[n] \in NodeType \cup {Freed}
  /\ pc \in {"load", "run", "export", "unset", "exited"} /\ status \in {0, 1}

Linked == {Nodes(store)[i] : i \in DOMAIN Nodes(store)}

(* After any sequence of appends and removals, at either end or in the     *)
(* middle: the walk from head ends, its last node is tail, it meets every  *)
(* node in use and no freed one, each once, and size counts them.          *)
ListWellFormed ==
  LET nodes == Nodes(store) IN
  /\ Len(nodes) <= MaxNodes
  /\ Linked = Ids \ FreeIds(store)
  /\ store.size = Len(nodes) /\ store.size = Cardinality(Linked)
  /\ store.tail = IF nodes = <<>> THEN Null ELSE nodes[Len(nodes)]

(* What the next program is given is what $NAME expands to: a name that is *)
(* there once is given exactly if it has a value.  Of a name that the      *)
(* shell was started with twice, the value that counts is given first.     *)
EnvpMatches ==
  \A k \in Keys :
    LET given == ToEnvp(store)
        its   == {i \in DOMAIN given : given[i].key = k}
        nodes == {n \in Linked : store.node[n].key = k} IN
    /\ Cardinality(nodes) <= 1 =>
         Cardinality(its) = IF Get(store, k) = NoValue THEN 0 ELSE 1
    /\ Get(store, k) # NoValue =>
         \E i \in its : /\ given[i].value = Get(store, k)
                        /\ \A j \in its : i <= j

(* The store as its callers know it.                                       *)
Meaning ==
  [k \in Keys |->
     Gathered(store, [n \in Ids |-> IF store.node[n].key = k
                                    THEN <<store.node[n].value>> ELSE <<>>])]
Abstract == INSTANCE EnvAbs WITH env <- Meaning, loading <- (pc = "load")

(* The list, with its head, tail and freed nodes, and the builtins that    *)
(* call it implement the environment their callers see; nothing but        *)
(* loading makes a second entry of a name.                                 *)
EnvSpec == Abstract!Spec
=============================================================================
