------------------------------ MODULE MCInvocation ------------------------------
(***************************************************************************)
(* Two requests of one function share the only container there is memory    *)
(* for; both may try to acquire it at once.                                 *)
(***************************************************************************)
EXTENDS Invocation, TLC

CONSTANTS small,  \* functions
          s1, s2, \* requests
          c1      \* containers

MCFunctions == {small}
MCCPUDemand == small :> 1
MCMemoryMB == small :> 1
MCRequests == {s1, s2}
MCFunOf == s1 :> small @@ s2 :> small
MCContainerIDs == {c1}
================================================================================
