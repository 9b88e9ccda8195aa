--------------------------- MODULE MCDecisionEngine ---------------------------
(***************************************************************************)
(* Two requests of one class of a function and one of another class, one of *)
(* them bound to this node; channels of one place, so that senders wait.    *)
(***************************************************************************)
EXTENDS DecisionEngine, TLC

CONSTANTS r1, r2, r3, fn, gold, basic

MCRequests == {r1, r2, r3}
MCFunctions == {fn}
MCClasses == {gold, basic}
MCFunOf == [r \in MCRequests |-> fn]
MCClassOf == r1 :> gold @@ r2 :> gold @@ r3 :> basic
MCReports == {[warm |-> TRUE, duration |-> 1, init |-> 0],
              [warm |-> FALSE, duration |-> 2, init |-> 1]}
MCCanDoOffloading == {r1, r3}
================================================================================
