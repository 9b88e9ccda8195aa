----------------------------- MODULE FunctionStore -----------------------------
(***************************************************************************)
(* The functions registered in etcd and the cache of each node in front of  *)
(* it: client/src/function/function.go over client/src/cache/cache.go and   *)
(* cache_handler.go.  A call of GetFunction, SaveToEtcd or Delete is made   *)
(* of one access to etcd and of accesses to the cache, each of them atomic  *)
(* (the cache has a lock), with nothing that ties them together.            *)
(*                                                                          *)
(* Abstractions.  A function is told by its name and by the number of the   *)
(* Put that wrote it, among those of its name.  Of time three things are    *)
(* kept: which item was set before which, which was used before which       *)
(* (Age), and which are past their Expiration.  All items are set with the  *)
(* same duration, so they get there in the order in which they were set, at *)
(* any time (Lapse).  Etcd is linearizable; a call may fail before or after *)
(* it took effect.                                                          *)
(***************************************************************************)
EXTENDS Integers, FiniteSets

CONSTANTS
    Nodes,
    Procs, NodeOf,  \* the goroutines that call, and the node of each
    Names, NoName,  \* function names
    Size,           \* cache.Size
    Expiring,       \* cache.DefaultExp > 0
    Sweeping,       \* cache.CleanupInterval > 0
    MaxPuts         \* bound: for each name, the calls of Put that take effect

ASSUME StoreAssumption ==
    /\ IsFiniteSet(Names) /\ NoName \notin Names
    /\ NodeOf \in [Procs -> Nodes]
    /\ Size \in Nat /\ MaxPuts \in [Names -> Nat]
    /\ Expiring \in BOOLEAN /\ Sweeping \in BOOLEAN

VARIABLES
    etcd,     \* the function stored under each name, 0 if none
    puts,     \* the number of the last Put of each name
    items,    \* items[n][k]: the function in the cache of n, 0 if none
    lapsed,   \* lapsed[n]: the items of n past their Expiration
    older,    \* older[n]: pairs of items, the first used before the second
    earlier,  \* earlier[n]: pairs of items, the first set before the second
    op,       \* what each goroutine is in the middle of
    excused,  \* history: items that a write could not keep up to date
    gone      \* history: items that a Delete has removed while no SaveToEtcd
              \* was on its way to them, not saved since

cache == <<items, lapsed, older, earlier>>
vars  == <<etcd, puts, cache, op, excused, gone>>

Idle  == [step |-> "idle", name |-> NoName, fun |-> 0]

(* The steps at which a call holds a function, and those at which it does not. *)
Ops == [step : {"fill", "saved"}, name : Names, fun : Nat \ {0}]
           \cup [step : {"miss", "deleted"}, name : Names, fun : {0}] \cup {Idle}

TypeOK ==
    /\ etcd \in [Names -> Nat] /\ puts \in [Names -> Nat]
    /\ items \in [Nodes -> [Names -> Nat]]
    /\ lapsed \in [Nodes -> SUBSET Names]
    /\ older \in [Nodes -> SUBSET (Names \X Names)]
    /\ earlier \in [Nodes -> SUBSET (Names \X Names)]
    /\ op \in [Procs -> Ops]
    /\ excused \subseteq Nodes \X Names
    /\ gone \subseteq Nodes \X Names

Init ==
    /\ etcd = [k \in Names |-> 0] /\ puts = [k \in Names |-> 0]
    /\ items = [n \in Nodes |-> [k \in Names |-> 0]]
    /\ lapsed = [n \in Nodes |-> {}]
    /\ older = [n \in Nodes |-> {}] /\ earlier = [n \in Nodes |-> {}]
    /\ op = [p \in Procs |-> Idle]
    /\ excused = {} /\ gone = {}

-----------------------------------------------------------------------------
(* The cache of a node. *)

Cached(n) == {k \in Names : items[n][k] # 0}

Oldest(n, x) == \A y \in Cached(n) \ {x} : <<x, y>> \in older[n]

(* Mutant of FindLRU: the comparison of the ages is the other way round.    *)
FindMRU(n) == {x \in Cached(n) :
    \/ x \in lapsed[n]
    \/ \A y \in Cached(n) \ {x} : <<y, x>> \in older[n]}

(* What findLRU may return, the order of a Go map being open.  It keeps the *)
(* last item that was expired or older than the one kept so far: any        *)
(* expired item, the oldest, or one older than an expired item.             *)
FindLRU(n) == {x \in Cached(n) :
    \/ x \in lapsed[n]
    \/ Oldest(n, x)
    \/ \E z \in lapsed[n] \cap Cached(n) : <<x, z>> \in older[n]}

(* Mutant of Evicts: the size of the cache is not compared. *)
EvictsNone(n, k) == {{}}

(* The items that Set may evict: with an empty cache (Size = 0) there is    *)
(* none, and k is inserted all the same.                                    *)
Evicts(n, k) ==
    IF k \in Cached(n) \/ Cardinality(Cached(n)) < Size \/ Cached(n) = {}
    THEN {{}} ELSE {{x} : x \in FindLRU(n)}

(* rel, with k the last of the items of n. *)
Last(rel, n, k) == {pair \in rel : k \notin {pair[1], pair[2]}}
                       \cup {<<x, k>> : x \in Cached(n) \ {k}}

Apart(rel, S) == {pair \in rel : {pair[1], pair[2]} \cap S = {}}

(* The items of S leave the cache of n. *)
Without(n, S) ==
    /\ items' = [items EXCEPT ![n] = [x \in Names |-> IF x \in S THEN 0 ELSE @[x]]]
    /\ lapsed' = [lapsed EXCEPT ![n] = @ \ S]
    /\ older' = [older EXCEPT ![n] = Apart(@, S)]
    /\ earlier' = [earlier EXCEPT ![n] = Apart(@, S)]

Set(n, k, fun) ==
    \E S \in Evicts(n, k) :
        /\ items' = [items EXCEPT ![n] =
              [x \in Names |-> IF x = k THEN fun ELSE IF x \in S THEN 0 ELSE @[x]]]
        /\ lapsed' = [lapsed EXCEPT ![n] = @ \ (S \cup {k})]
        /\ older' = [older EXCEPT ![n] = Apart(Last(@, n, k), S)]
        /\ earlier' = [earlier EXCEPT ![n] = Apart(Last(@, n, k), S)]

-----------------------------------------------------------------------------
(* GetFunction. *)

(* Mutant of Hit: an expired item is answered, and lives again. *)
HitRenews(p, k) ==
    LET n == NodeOf[p] IN
    /\ op[p] = Idle /\ k \in Cached(n)
    /\ older' = [older EXCEPT ![n] = Last(@, n, k)]
    /\ lapsed' = [lapsed EXCEPT ![n] = @ \ {k}]
    /\ UNCHANGED <<etcd, puts, items, earlier, op, excused, gone>>

(* getFromCache finds an item that is not expired: its Age is refreshed. *)
Hit(p, k) ==
    LET n == NodeOf[p] IN
    /\ op[p] = Idle /\ k \in Cached(n) \ lapsed[n]
    /\ older' = [older EXCEPT ![n] = Last(@, n, k)]
    /\ UNCHANGED <<etcd, puts, items, lapsed, earlier, op, excused, gone>>

Miss(p, k) ==
    /\ op[p] = Idle /\ k \notin Cached(NodeOf[p]) \ lapsed[NodeOf[p]]
    /\ op' = [op EXCEPT ![p] = [step |-> "miss", name |-> k, fun |-> 0]]
    /\ UNCHANGED <<etcd, puts, cache, excused, gone>>

Filling(k) == [step |-> "fill", name |-> k, fun |-> etcd[k]]

(* Mutant of GetFromEtcd: an answer without a function is not told from one *)
(* with a function.                                                         *)
GetFromEtcdUnchecked(p) ==
    /\ op[p].step = "miss"
    /\ op' = [op EXCEPT ![p] = Filling(op[p].name)]
    /\ UNCHANGED <<etcd, puts, cache, excused, gone>>

(* getFromEtcd: the function, or nothing when it is absent or after an      *)
(* error or the timeout.                                                    *)
GetFromEtcd(p) ==
    /\ op[p].step = "miss"
    /\ \/ /\ etcd[op[p].name] # 0
          /\ op' = [op EXCEPT ![p] = Filling(op[p].name)]
       \/ op' = [op EXCEPT ![p] = Idle]
    /\ UNCHANGED <<etcd, puts, cache, excused, gone>>

Fill(p) ==
    /\ op[p].step = "fill"
    /\ Set(NodeOf[p], op[p].name, op[p].fun)
    /\ op' = [op EXCEPT ![p] = Idle]
    /\ UNCHANGED <<etcd, puts, excused, gone>>

-----------------------------------------------------------------------------
(* SaveToEtcd and Delete. *)

(* History: the items of other nodes are not updated by a write of k, nor   *)
(* is that of the node itself when the call fails, or when another call on  *)
(* it has passed etcd and has not yet reached the cache.                    *)
Excuse(p, k, failed) ==
    LET n == NodeOf[p]
        overlaps == \E q \in Procs \ {p} :
            NodeOf[q] = n /\ op[q].name = k /\ op[q].step \in {"fill", "saved", "deleted"}
    IN excused' = excused \cup {<<x, k>> : x \in
                    IF failed \/ overlaps THEN Nodes ELSE Nodes \ {n}}

PutToEtcd(p, k) ==
    /\ op[p] = Idle /\ puts[k] < MaxPuts[k]
    /\ puts' = [puts EXCEPT ![k] = @ + 1]
    /\ etcd' = [etcd EXCEPT ![k] = puts[k] + 1]
    /\ gone' = gone \ {<<n, k>> : n \in Nodes}
    /\ \E failed \in BOOLEAN :
         /\ Excuse(p, k, failed)
         /\ op' = [op EXCEPT ![p] = IF failed THEN Idle
                     ELSE [step |-> "saved", name |-> k, fun |-> puts[k] + 1]]
    /\ UNCHANGED cache

SetSaved(p) ==
    /\ op[p].step = "saved"
    /\ Set(NodeOf[p], op[p].name, op[p].fun)
    /\ op' = [op EXCEPT ![p] = Idle]
    /\ UNCHANGED <<etcd, puts, excused, gone>>

(* A Delete that finds nothing in etcd answers an error and leaves the      *)
(* cache as it is: a stuttering step.                                       *)
DeleteFromEtcd(p, k) ==
    /\ op[p] = Idle /\ etcd[k] # 0
    /\ etcd' = [etcd EXCEPT ![k] = 0]
    /\ \E failed \in BOOLEAN :
         /\ Excuse(p, k, failed)
         /\ op' = [op EXCEPT ![p] = IF failed THEN Idle
                     ELSE [step |-> "deleted", name |-> k, fun |-> 0]]
    /\ UNCHANGED <<puts, cache, gone>>

(* Mutant of DeleteCached: the local cache is left alone. *)
DeleteCachedForgotten(p) ==
    /\ op[p].step = "deleted"
    /\ op' = [op EXCEPT ![p] = Idle]
    /\ UNCHANGED <<etcd, puts, cache, excused, gone>>

DeleteCached(p) ==
    /\ op[p].step = "deleted"
    /\ Without(NodeOf[p], {op[p].name})
    /\ gone' = gone \cup
          {item \in {<<NodeOf[p], op[p].name>>} :
             \A q \in Procs : <<NodeOf[q], op[q].name>> = item => op[q].step # "saved"}
    /\ op' = [op EXCEPT ![p] = Idle]
    /\ UNCHANGED <<etcd, puts, excused>>

-----------------------------------------------------------------------------
(* Time and the janitor of the cache. *)

(* With DefaultExp = 0 the Expiration of an item is 0: it never lapses. *)
Lapse(n, k) ==
    /\ Expiring /\ k \in Cached(n) \ lapsed[n]
    /\ \A x \in Cached(n) \ lapsed[n] : <<x, k>> \notin earlier[n]
    /\ lapsed' = [lapsed EXCEPT ![n] = @ \cup {k}]
    /\ UNCHANGED <<etcd, puts, items, older, earlier, op, excused, gone>>

DeleteExpired(n) ==
    /\ Sweeping /\ lapsed[n] # {}
    /\ Without(n, lapsed[n])
    /\ UNCHANGED <<etcd, puts, op, excused, gone>>

-----------------------------------------------------------------------------
Next ==
    \/ \E p \in Procs, k \in Names :
         Hit(p, k) \/ Miss(p, k) \/ PutToEtcd(p, k) \/ DeleteFromEtcd(p, k)
    \/ \E p \in Procs : GetFromEtcd(p) \/ Fill(p) \/ SetSaved(p) \/ DeleteCached(p)
    \/ \E n \in Nodes, k \in Names : Lapse(n, k)
    \/ \E n \in Nodes : DeleteExpired(n)

(* A call that has had the answer of etcd goes on, getFromEtcd ends after   *)
(* its timeout at the latest, and time passes.  Nobody has to call.         *)
Fairness ==
    /\ \A p \in Procs : /\ WF_vars(GetFromEtcd(p)) /\ WF_vars(Fill(p))
                        /\ WF_vars(SetSaved(p)) /\ WF_vars(DeleteCached(p))
    /\ \A n \in Nodes, k \in Names : WF_vars(Lapse(n, k))

Spec == Init /\ [][Next]_vars /\ Fairness

-----------------------------------------------------------------------------
(* Properties. *)

(* A cache never holds more than Size items, or one if Size is 0, whoever   *)
(* inserts into it.                                                         *)
CacheBounded ==
    \A n \in Nodes : Cardinality(Cached(n)) <= IF Size = 0 THEN 1 ELSE Size

(* A node serves a function that is not the one in etcd only because        *)
(* another node wrote it, a call on it failed or overlapped with a write,   *)
(* or a write of this node is on its way from etcd to the cache.            *)
StaleIsExplained ==
    \A n \in Nodes, k \in Names :
        items[n][k] \notin {0, etcd[k]} =>
            \/ <<n, k>> \in excused
            \/ \E p \in Procs : /\ NodeOf[p] = n /\ op[p].name = k
                             /\ op[p].step \in {"saved", "deleted"}

(* With an expiration the caches converge: once nobody writes, every item   *)
(* that a node would still serve is the function in etcd, whatever races    *)
(* and failures there were before.                                          *)
CachesConverge ==
    <>[](\A n \in Nodes, k \in Names :
            items[n][k] \in {0, etcd[k]} \/ k \in lapsed[n])

(* "Delete removes a function from Etcd and the local cache": after it has  *)
(* returned, and unless a SaveToEtcd of the function was on its way to the  *)
(* cache, the local cache does not have it until it is saved again.         *)
DeletedIsGone == \A n \in Nodes, k \in Names : <<n, k>> \in gone => items[n][k] = 0

(* "find least recently used key", "the least used item into the cache or   *)
(* an expired one": what an insertion takes out of a full cache has expired *)
(* or was used before every other item.                                     *)
EvictsLeastRecentlyUsed ==
    [][\A n \in Nodes : (\E k \in Names : items[n][k] = 0 /\ items'[n][k] # 0) =>
          \A x \in Cached(n) : items'[n][x] = 0 => x \in lapsed[n] \/ Oldest(n, x)]_vars

(* What is left of it: the item that was used last is never evicted, unless *)
(* it has expired or is the only one, so what was just read or saved stays. *)
LatestSurvives ==
    [][\A n \in Nodes : (\E k \in Names : items[n][k] = 0 /\ items'[n][k] # 0) =>
          \A x \in Cached(n) : items'[n][x] = 0 =>
              x \in lapsed[n] \/ Size <= 1 \/ \E y \in Cached(n) : <<x, y>> \in older[n]]_vars
================================================================================
