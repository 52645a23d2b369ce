------------------------------- MODULE EnvAbs -------------------------------
(***************************************************************************)
(* What the environment store promises its callers: every name has the     *)
(* values it was loaded with, in their order, of which the first counts;   *)
(* export, unset and cd change the first, or make one, a name at a time.   *)
(* Only loading can give a name a second value.                            *)
(***************************************************************************)
EXTENDS Sequences

CONSTANTS
  Keys,       \* the names considered
  Values,     \* the values considered, the directories among them
  Dirs        \* the directories

NoValue == "(no value)"

VARIABLES
  env,        \* the values of each name
  loading     \* whether the environment is still being read

vars == <<env, loading>>

Replaced(values, v) == IF values = <<>> THEN <<v>> ELSE <<v>> \o Tail(values)
Dropped(values)     == IF values = <<>> THEN <<>> ELSE Tail(values)

Init == env = [k \in Keys |-> <<>>] /\ loading = TRUE

(* An entry of envp, the name's last so far.                               *)
Load ==
  /\ loading
  /\ \E k \in Keys, v \in Values \cup {NoValue} :
       env' = [env EXCEPT ![k] = Append(@, v)]
  /\ UNCHANGED loading

Loaded == loading /\ loading' = FALSE /\ UNCHANGED env

(* An argument of export, with or without a value.                         *)
Export ==
  /\ ~loading
  /\ \E k \in Keys, v \in Values \cup {NoValue} :
       env' = [env EXCEPT ![k] = Replaced(@, v)]
  /\ UNCHANGED loading

(* An argument of unset: a second value comes to light.                    *)
Unset ==
  /\ ~loading
  /\ \E k \in Keys : env' = [env EXCEPT ![k] = Dropped(@)]
  /\ UNCHANGED loading

(* cd sets OLDPWD to what PWD was, if it was anything, and PWD to the      *)
(* directory, if the directory has a name.                                 *)
Cd ==
  LET pwd == env["PWD"] IN
  /\ ~loading
  /\ \E named \in BOOLEAN, d \in Dirs :
       env' = [env EXCEPT
                 !["OLDPWD"] = IF pwd # <<>> /\ Head(pwd) \in Values
                               THEN Replaced(@, Head(pwd)) ELSE @,
                 !["PWD"]    = IF named THEN Replaced(@, d) ELSE @]
  /\ UNCHANGED loading

(* The end of the shell.                                                   *)
Destroy == ~loading /\ env' = [k \in Keys |-> <<>>] /\ UNCHANGED loading

Next == Load \/ Loaded \/ Export \/ Unset \/ Cd \/ Destroy

Spec == Init /\ [][Next]_vars
=============================================================================
