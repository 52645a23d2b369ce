----------------------------- MODULE MCPipeline -----------------------------
(* Three stages, every program in the first two places; what writes without *)
(* reading has no pipe to write to in the last, where it shows nothing new. *)
(* At most one stage has redirections.                                      *)
EXTENDS Pipeline

Plain(p) == [prog |-> p, redirs |-> <<>>]
MCRedirs == {<<"in">>, <<"out">>, <<"bad">>, <<"out", "in">>}

MCLines ==
  {[i \in Stages |-> Plain(f[i])] :
      f \in {g \in [Stages -> Programs] :
               g[N] \in {"filter", "head", "idle"}}}
    \cup {[i \in Stages |-> IF i = k THEN [prog |-> "filter", redirs |-> r]
                            ELSE Plain(IF i = 1 THEN "source" ELSE "filter")] :
            k \in Stages, r \in MCRedirs}

(* Two stages, for the temporal properties that need a reader that leaves.  *)
MCShortLines == {[i \in Stages |-> Plain(f[i])] : f \in [Stages -> Programs]}
=============================================================================
