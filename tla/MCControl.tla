------------------------------ MODULE MCControl ------------------------------
(* Lines of one and-or list of up to three pipelines, or of two lists of up  *)
(* to two pipelines each.                                                    *)
EXTENDS Control

MCLists(n) ==
  UNION {[pipelines : [1..k -> Kinds], operators : [1..k-1 -> Operators]] :
           k \in 1..n}

MCPrograms ==
  {<<>>} \cup {<<a>> : a \in MCLists(3)}
    \cup {<<a, b>> : a \in MCLists(2), b \in MCLists(2)}
MCExitArgs == {7, 256, -1}
=============================================================================
