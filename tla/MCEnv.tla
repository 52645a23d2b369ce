------------------------------- MODULE MCEnv -------------------------------
(* Three names and two values, both directories, started with no           *)
(* environment, a small one, a full one and two that have a name twice.    *)
EXTENDS EnvStore

MCKeys == {"PWD", "OLDPWD", "A"}
Entry(k, v) == [key |-> k, value |-> v]
MCEnvps ==
  {<<>>, <<Entry("A", "/tmp"), Entry("PWD", "/")>>,
   <<Entry("PWD", "/"), Entry("OLDPWD", NoValue), Entry("A", NoValue)>>,
   <<Entry("A", "/"), Entry("PWD", "/tmp"), Entry("A", "/tmp")>>,
   <<Entry("PWD", "/"), Entry("PWD", "/tmp")>>}
=============================================================================
