----------------------------- MODULE MCEdgeMonitor -----------------------------
(***************************************************************************)
(* One node that watches, w, and two others.  w and q may fail: w starts    *)
(* again under a second key while the first is still in etcd.  The status   *)
(* of q may be too long.  With p, q and its own old key, w knows three      *)
(* keys: one more than the rank, or fewer.                                  *)
(***************************************************************************)
EXTENDS EdgeMonitor, TLC

CONSTANTS w, p, q

MCServers == {w, p, q}
MCWatchers == {w}
MCMaxKeys == w :> 2 @@ p :> 1 @@ q :> 1
MCOversized == {q}
MCFailing == {w, q}
================================================================================
