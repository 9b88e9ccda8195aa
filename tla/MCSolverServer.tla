---------------------------- MODULE MCSolverServer ----------------------------
(***************************************************************************)
(* Two clients of one solver: one of them with a class that the other does  *)
(* not have (MCClassesOf), and with a single class (OneClass), which is     *)
(* enough for calls that overlap.                                           *)
(***************************************************************************)
EXTENDS SolverServer, TLC

CONSTANTS x1, x2, f1, f2, c1, c2

MCClients == {x1, x2}
MCFunctionNames == {f1, f2}
MCClassNames == {c1, c2}

MCClassesOf == x1 :> {c1} @@ x2 :> {c1, c2}
OneClass == [x \in MCClients |-> {c1}]
==============================================================================
