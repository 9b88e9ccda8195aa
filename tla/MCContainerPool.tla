--------------------------- MODULE MCContainerPool ---------------------------
(***************************************************************************)
(* A small instance of ContainerPool for TLC: two requests of the function  *)
(* small compete for its containers; one of large, which asks for twice the *)
(* memory and for all the CPU, needs several of them dismissed; and one of  *)
(* broken, whose runtime is unknown, loses what it reserves.                *)
(***************************************************************************)
EXTENDS ContainerPool, TLC

CONSTANTS small, large, broken,      \* functions
          s1, s2, l1, b1,            \* requests
          c1, c2, c3                 \* containers

MCFunctions == {small, large, broken}
MCCPUDemand == small :> 1 @@ large :> 2 @@ broken :> 1
MCMemoryMB == small :> 1 @@ large :> 2 @@ broken :> 1
MCUnknownRuntime == {broken}

MCRequests == {s1, s2, l1, b1}
MCFunOf == s1 :> small @@ s2 :> small @@ l1 :> large @@ b1 :> broken
MCContainerIDs == {c1, c2, c3}

Symmetry == Permutations({s1, s2}) \cup Permutations(MCContainerIDs)
==============================================================================
