------------------------------ MODULE MCCommand ------------------------------
(* Two families of commands.  For the expansion: a builtin with one        *)
(* argument of one part of up to four characters, or of two parts of up to *)
(* two, in an environment where values are empty, contain a $, or are      *)
(* longer than a buffer begins with.  For the lookup: names, with and      *)
(* without a slash or a value, and every form of PATH.                     *)
EXTENDS Command, TLC

Part(quote, text) == [quote |-> quote, text |-> text]
Texts(n)          == UNION {[1..k -> {"$", "?", "n", "1"}] : k \in 0..n}

Values ==
  (<<"n">> :> <<"$", "?">>) @@ (<<"n", "1">> :> <<"a", "b", "c", "d", "e">>)
    @@ (<<"n", "n">> :> <<>>)
Expansions ==
  {[words |-> <<<<Part("none", <<"b">>)>>, w>>, env |-> Values, status |-> s] :
     w \in {<<Part(q, t)>> : q \in {"none", "\"", "'"}, t \in Texts(4)}
             \cup {<<Part("none", t), Part(q, u)>> :
                     q \in {"\"", "'"}, t \in Texts(2), u \in Texts(2)},
     s \in {0, 127}}

Paths ==
  {<<>>, <<"d">>, <<"d", "/", ":", "e">>, <<"d", ":", "e", ":">>, <<":", "d">>,
   <<"e", ":", ":", "d">>, <<":">>}
Lookups ==
  {[words |-> <<w>>, env |-> e, status |-> 0] :
     w \in {<<Part("none", <<"n">>)>>, <<Part("none", <<"$", "n">>)>>,
            <<Part("none", <<"d", "/", "n">>)>>, <<Part("none", <<"$", "P">>)>>},
     e \in {<<"P">> :> p : p \in Paths} \cup {<<"n">> :> <<"n">>}}

MCCommands == Expansions \cup Lookups
MCLetters  == {"n", "a", "b", "c", "d", "e", "P"}
MCBuiltins == {<<"b">>}
MCPathName == <<"P">>
MCFiles    == {<<"n">>, <<"d", "/", "n">>, <<"e", "/", "n">>}
=============================================================================
