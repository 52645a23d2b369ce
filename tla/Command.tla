------------------------------- MODULE Command -------------------------------
(***************************************************************************)
(* The way of a command that is not a builtin of the shell itself: its     *)
(* words are prepared, a child is forked, and the child turns the words    *)
(* and the environment into vectors, looks the program up in PATH and      *)
(* becomes it, or exits with the status that says why not.  Other          *)
(* processes change the file system meanwhile.  Forking and waiting are    *)
(* modules of their own (Repl, Pipeline).                                  *)
(***************************************************************************)
EXTENDS Expand

CONSTANTS
  Builtins,               (* the names in the registry                     *)
  PathName,               (* the name PATH                                 *)
  Files,                  (* the paths at which there may be something     *)
  MaxChanges              (* how often the file system changes             *)

(* What is at a path: nothing, a program, something that cannot be run, or *)
(* a path that leads through something that is no directory.               *)
Contents == {"nothing", "program", "unrunnable", "misled"}

ASSUME CommandAssumption == MaxChanges \in Nat

VARIABLES
  files,                  (* what is at each path                          *)
  changes,
  child,                  (* where the child is                            *)
  entry,                  (* where the current entry of PATH begins        *)
  path,                   (* the path that was decided on                  *)
  exitStatus,             (* its status if it has exited                   *)
  envp, passed,           (* the environment vector, the names in it       *)
  always                  (* the paths that have existed all the time      *)

commandVars == <<child, entry, path, exitStatus, envp, passed>>
vars        == <<expandVars, commandVars, files, changes, always>>

Ends      == {"builtin", "program", "exited"}
Existing  == {"program", "unrunnable"}
Exists(p) == p \in Files /\ files[p] \in Existing

Name      == prepared[1]
HasSlash  == \E i \in DOMAIN Name : Name[i] = "/"
PathValue == Value(PathName)

(* strchr: the next colon from i on, the end without one.                  *)
ColonFrom(i) ==
  CHOOSE j \in i..Len(PathValue) + 1 :
    /\ j = Len(PathValue) + 1 \/ PathValue[j] = ":"
    /\ \A k \in i..j-1 : PathValue[k] # ":"

(* sh_path_join, of a directory and a name without a slash.                *)
Join(dir, name) == IF dir[Len(dir)] = "/" THEN dir \o name
                   ELSE dir \o <<"/">> \o name

(* sh_executor_path_entry_candidate: an empty entry is the directory the   *)
(* child is in.                                                            *)
Candidate(from, to) ==
  IF from = to THEN Name ELSE Join(SubSeq(PathValue, from, to - 1), Name)

Init ==
  /\ ExpandInit
  /\ files = [p \in Files |-> "nothing"] /\ changes = 0
  /\ child = "none" /\ entry = 1 /\ path = <<>> /\ exitStatus = 0
  /\ envp = EmptyVector /\ passed = {} /\ always = {}
-----------------------------------------------------------------------------
Prepare == ExpandNext /\ UNCHANGED <<commandVars, files, changes, always>>

Fork ==
  /\ expander = "word" /\ Len(prepared) = Len(words) /\ child = "none"
  /\ child' = "started"
  /\ UNCHANGED <<expandVars, entry, path, exitStatus, envp, passed, files,
                 changes, always>>

(* In a stage of a pipeline the child runs a builtin itself.               *)
RunBuiltin ==
  /\ child = "started" /\ Name \in Builtins
  /\ child' = "builtin"
  /\ UNCHANGED <<expandVars, entry, path, exitStatus, envp, passed, files,
                 changes, always>>

(* sh_env_store_to_envp, one entry after the other.                        *)
PushEnvp ==
  /\ child = "started" /\ Name \notin Builtins
  /\ \E n \in DOMAIN env \ passed :
       envp' = VectorPush(envp, n) /\ passed' = passed \cup {n}
  /\ UNCHANGED <<expandVars, child, entry, path, exitStatus, files, changes,
                 always>>

(* sh_executor_resolve_command_path: a name with a slash is the path, an   *)
(* empty name or PATH finds nothing.  Only from here on does it matter     *)
(* what the file system holds, and it may hold anything.                   *)
EnvpDone == child = "started" /\ Name \notin Builtins /\ passed = DOMAIN env

NameIsPath ==
  /\ EnvpDone /\ HasSlash
  /\ path' = Name /\ child' = "resolved"
  /\ files' \in [Files -> Contents]
  /\ UNCHANGED <<expandVars, entry, exitStatus, envp, passed, changes, always>>

NoSearch ==
  /\ EnvpDone /\ ~HasSlash /\ (Name = <<>> \/ PathValue = <<>>)
  /\ exitStatus' = 127 /\ child' = "exited"
  /\ UNCHANGED <<expandVars, entry, path, envp, passed, files, changes, always>>

StartSearch ==
  /\ EnvpDone /\ ~HasSlash /\ Name # <<>> /\ PathValue # <<>>
  /\ entry' = 1 /\ child' = "search"
  /\ files' \in [Files -> Contents]
  /\ always' = {p \in Files : files'[p] \in Existing}
  /\ UNCHANGED <<expandVars, path, exitStatus, envp, passed, changes>>

(* One turn of the loop over the entries; access() only asks whether there *)
(* is something.                                                           *)
FoundInEntry ==
  /\ child = "search" /\ Exists(Candidate(entry, ColonFrom(entry)))
  /\ path' = Candidate(entry, ColonFrom(entry)) /\ child' = "resolved"
  /\ UNCHANGED <<expandVars, entry, exitStatus, envp, passed, files, changes,
                 always>>

NextEntry ==
  /\ child = "search" /\ ~Exists(Candidate(entry, ColonFrom(entry)))
  /\ ColonFrom(entry) <= Len(PathValue)
  /\ entry' = ColonFrom(entry) + 1
  /\ UNCHANGED <<expandVars, child, path, exitStatus, envp, passed, files,
                 changes, always>>

(* Mutant: an empty entry at the end of PATH is none.                      *)
NotFoundBeforeLast ==
  /\ child = "search" /\ ~Exists(Candidate(entry, ColonFrom(entry)))
  /\ ColonFrom(entry) >= Len(PathValue)
  /\ exitStatus' = 127 /\ child' = "exited"
  /\ UNCHANGED <<expandVars, entry, path, envp, passed, files, changes, always>>

NotFound ==
  /\ child = "search" /\ ~Exists(Candidate(entry, ColonFrom(entry)))
  /\ ColonFrom(entry) = Len(PathValue) + 1
  /\ exitStatus' = 127 /\ child' = "exited"
  /\ UNCHANGED <<expandVars, entry, path, envp, passed, files, changes, always>>

(* execve() of what is there by now.                                       *)
Execve ==
  /\ child = "resolved" /\ path \in Files /\ files[path] = "program"
  /\ child' = "program"
  /\ UNCHANGED <<expandVars, entry, path, exitStatus, envp, passed, files,
                 changes, always>>

(* sh_executor_status_from_system_error: EACCES, EISDIR and ENOEXEC are    *)
(* 126, ENOENT is 127, ENOTDIR and the rest 1.                             *)
ErrorStatus(content) ==
  CASE content = "unrunnable" -> 126
    [] content = "nothing"    -> 127
    [] OTHER                  -> 1

ExecveFails ==
  /\ child = "resolved" /\ ~(path \in Files /\ files[path] = "program")
  /\ exitStatus' = ErrorStatus(IF path \in Files THEN files[path]
                              ELSE "nothing")
  /\ child' = "exited"
  /\ UNCHANGED <<expandVars, entry, path, envp, passed, files, changes, always>>

(* Another process, while the child is at work.                            *)
FilesChange ==
  /\ child \in {"search", "resolved"} /\ changes < MaxChanges
  /\ \E p \in Files : \E c \in Contents \ {files[p]} :
       files' = [files EXCEPT ![p] = c]
  /\ always' = {p \in always : files'[p] \in Existing}
  /\ changes' = changes + 1
  /\ UNCHANGED <<expandVars, commandVars>>

Ended == child \in Ends /\ UNCHANGED vars

Next ==
  \/ Prepare \/ Fork \/ RunBuiltin \/ PushEnvp \/ NameIsPath \/ NoSearch
  \/ StartSearch \/ FoundInEntry \/ NextEntry \/ NotFound \/ Execve
  \/ ExecveFails \/ FilesChange \/ Ended

Spec == Init /\ [][Next]_vars
-----------------------------------------------------------------------------
(* Properties.                                                             *)

(* The scan of a word and the search of PATH stay within the text they     *)
(* read, up to and with its terminator.                                    *)
TypeOK ==
  /\ ExpandTypeOK
  /\ files \in [Files -> Contents] /\ always \subseteq Files
  /\ changes \in 0..MaxChanges
  /\ child \in {"none", "started", "search", "resolved"} \cup Ends
  /\ exitStatus \in {0, 1, 126, 127}
  /\ child = "search" => entry \in 1..Len(PathValue) + 1

(* Whatever was put into it in whatever portions, a buffer or a vector has *)
(* room for what it holds and the terminator after it.                     *)
TerminatorFits == TextHolds(inner) /\ TextHolds(outer) /\ VectorHolds(envp)

(* The candidates of a search: what the colons of PATH separate.           *)
Colons == {i \in DOMAIN PathValue : PathValue[i] = ":"}
Entries ==                (* where each begins, and what ends it           *)
  {e \in (1..Len(PathValue) + 1) \X (1..Len(PathValue) + 1) :
     /\ e[1] <= e[2] /\ e[1] - 1 \in Colons \cup {0}
     /\ e[2] \in Colons \cup {Len(PathValue) + 1}
     /\ Colons \cap e[1]..e[2]-1 = {}}
Spelled(e) ==             (* the path without a doubled slash              *)
  LET to == IF PathValue[e[2] - 1] = "/" THEN e[2] - 2 ELSE e[2] - 1 IN
  IF e[1] = e[2] THEN Name
  ELSE SubSeq(PathValue, e[1], to) \o <<"/">> \o Name

(* The first thing in PATH is taken, whoever changes files meanwhile: if a *)
(* name is not found, no entry had it all the time; if a path was taken,   *)
(* no earlier entry had it all the time, and it is reported as not found   *)
(* only if it has been removed between access() and execve().              *)
FirstInPathIsTaken ==
  (child \in {"program", "exited"} /\ ~HasSlash /\ Name # <<>>) =>
    IF path = <<>>
    THEN /\ exitStatus = 127
         /\ PathValue # <<>> => \A e \in Entries : Spelled(e) \notin always
    ELSE /\ \E e \in Entries :
              /\ Spelled(e) = path
              /\ \A d \in Entries : d[1] < e[1] => Spelled(d) \notin always
         /\ path \in always => child = "program" \/ exitStatus = 126
=============================================================================
