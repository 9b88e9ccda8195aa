--------------------------- MODULE MCFunctionStore ---------------------------
(***************************************************************************)
(* Two goroutines of one node, on three names for what a full cache evicts, *)
(* or on one; one goroutine on four names for which of three items it is.   *)
(***************************************************************************)
EXTENDS FunctionStore, TLC

CONSTANTS a, p1, p2, k1, k2, k3, k4

MCNodes == {a}
MCProcs == {p1, p2}
MCNodeOf == p1 :> a @@ p2 :> a

MCNames == {k1, k2, k3}
MCPuts == k1 :> 2 @@ k2 :> 1 @@ k3 :> 1

OneName == {k1}
OnePut == k1 :> 1

OneProc == {p1}
OneNodeOf == p1 :> a
FourNames == {k1, k2, k3, k4}
FourPuts == [k \in FourNames |-> 1]
=============================================================================
