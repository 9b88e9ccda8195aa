-------------------------- MODULE FunctionStoreProofs --------------------------
(***************************************************************************)
(* Theorems about FunctionStore, for any set of nodes, goroutines and       *)
(* names and any size of the caches: types, the bound of the caches, and    *)
(* the causes of stale items.                                               *)
(***************************************************************************)
EXTENDS FunctionStore, FiniteSetTheorems, TLAPS

LEMMA OpOfType == ASSUME TypeOK, NEW p \in Procs, op[p] # Idle
                  PROVE  /\ NodeOf[p] \in Nodes
                         /\ op[p].name \in Names /\ op[p].fun \in Nat
                         /\ op[p].step \in {"fill", "saved"} => op[p].fun \in Nat \ {0}
                         /\ op[p].step \in {"miss", "fill", "saved", "deleted"}
BY StoreAssumption DEF TypeOK, Ops

LEMMA StepsOfIdle == Idle.step = "idle" /\ Idle.name = NoName
BY DEF Idle

(* What Set and Without leave in the caches has the right type. *)
CacheType ==
    /\ items \in [Nodes -> [Names -> Nat]]
    /\ lapsed \in [Nodes -> SUBSET Names]
    /\ older \in [Nodes -> SUBSET (Names \X Names)]
    /\ earlier \in [Nodes -> SUBSET (Names \X Names)]

LEMMA LastType == ASSUME NEW rel \in SUBSET (Names \X Names), NEW n, NEW k \in Names
                  PROVE  Last(rel, n, k) \in SUBSET (Names \X Names)
BY DEF Last, Cached

LEMMA SetType ==
    ASSUME CacheType, NEW n \in Nodes, NEW k \in Names, NEW fun \in Nat,
           Set(n, k, fun)
    PROVE  CacheType'
<1>1. PICK S \in Evicts(n, k) :
        /\ items' = [items EXCEPT ![n] =
              [x \in Names |-> IF x = k THEN fun ELSE IF x \in S THEN 0 ELSE @[x]]]
        /\ lapsed' = [lapsed EXCEPT ![n] = @ \ (S \cup {k})]
        /\ older' = [older EXCEPT ![n] = Apart(Last(@, n, k), S)]
        /\ earlier' = [earlier EXCEPT ![n] = Apart(Last(@, n, k), S)]
  BY DEF Set
<1>2. items' \in [Nodes -> [Names -> Nat]]
  BY <1>1, StoreAssumption DEF CacheType
<1>3. lapsed' \in [Nodes -> SUBSET Names]
  BY <1>1 DEF CacheType
<1>4. /\ Apart(Last(older[n], n, k), S) \in SUBSET (Names \X Names)
      /\ Apart(Last(earlier[n], n, k), S) \in SUBSET (Names \X Names)
  BY LastType DEF Apart, CacheType
<1> QED BY <1>1, <1>2, <1>3, <1>4 DEF CacheType

LEMMA WithoutType == ASSUME CacheType, NEW n \in Nodes, NEW S, Without(n, S)
                     PROVE  CacheType'
<1>1. items' \in [Nodes -> [Names -> Nat]]
  BY StoreAssumption DEF CacheType, Without
<1>2. lapsed' \in [Nodes -> SUBSET Names]
  BY DEF CacheType, Without
<1>3. /\ Apart(older[n], S) \in SUBSET (Names \X Names)
      /\ Apart(earlier[n], S) \in SUBSET (Names \X Names)
  BY DEF Apart, CacheType
<1> QED BY <1>1, <1>2, <1>3 DEF CacheType, Without

(* What Set and Without do to the items of a node. *)
LEMMA SetItems ==
    ASSUME TypeOK, NEW n \in Nodes, NEW k \in Names, NEW fun, Set(n, k, fun)
    PROVE  /\ \A m \in Nodes \ {n} : items'[m] = items[m]
           /\ items'[n][k] = fun
           /\ \A x \in Names \ {k} : items'[n][x] \in {0, items[n][x]}
           /\ \E S \in Evicts(n, k) : \A x \in S \ {k} : x \in Names => items'[n][x] = 0
BY DEF Set, TypeOK

LEMMA WithoutItems ==
    ASSUME TypeOK, NEW n \in Nodes, NEW S, Without(n, S)
    PROVE  /\ \A m \in Nodes \ {n} : items'[m] = items[m]
           /\ \A x \in Names : items'[n][x] = IF x \in S THEN 0 ELSE items[n][x]
BY DEF Without, TypeOK

LEMMA TypeInit == Init => TypeOK
<1> SUFFICES ASSUME Init PROVE TypeOK OBVIOUS
<1> QED BY DEF Init, TypeOK, Ops

LEMMA TypeNext == TypeOK /\ [Next]_vars => TypeOK'
<1> SUFFICES ASSUME TypeOK, [Next]_vars PROVE TypeOK' OBVIOUS
<1> USE StoreAssumption
<1>0. CacheType BY DEF TypeOK, CacheType
<1>t. ASSUME CacheType', etcd' \in [Names -> Nat], puts' \in [Names -> Nat],
             op' \in [Procs -> Ops], excused' \subseteq Nodes \X Names,
             gone' \subseteq Nodes \X Names
      PROVE  TypeOK'
  BY <1>t DEF TypeOK, CacheType
<1>n. ASSUME NEW p \in Procs PROVE NodeOf[p] \in Nodes OBVIOUS
<1>x. ASSUME NEW p \in Procs, NEW k \in Names, NEW failed \in BOOLEAN, Excuse(p, k, failed)
      PROVE  excused' \subseteq Nodes \X Names
  BY <1>x DEF Excuse, TypeOK
<1>1. ASSUME NEW p \in Procs, NEW k \in Names, Hit(p, k) PROVE TypeOK'
  <2>1. Last(older[NodeOf[p]], NodeOf[p], k) \in SUBSET (Names \X Names)
    BY <1>n, LastType DEF TypeOK
  <2>2. CacheType' BY <1>1, <1>0, <2>1 DEF Hit, CacheType
  <2> QED BY <1>1, <1>t, <2>2 DEF Hit, TypeOK
<1>2. ASSUME NEW p \in Procs, NEW k \in Names, Miss(p, k) PROVE TypeOK'
  <2>1. op' \in [Procs -> Ops] BY <1>2 DEF Miss, TypeOK, Ops
  <2>2. CacheType' BY <1>2, <1>0 DEF Miss, cache, CacheType
  <2> QED BY <1>2, <1>t, <2>1, <2>2 DEF Miss, TypeOK
<1>3. ASSUME NEW p \in Procs, NEW k \in Names, PutToEtcd(p, k) PROVE TypeOK'
  <2>1. PICK failed \in BOOLEAN :
          /\ Excuse(p, k, failed)
          /\ op' = [op EXCEPT ![p] = IF failed THEN Idle
                      ELSE [step |-> "saved", name |-> k, fun |-> puts[k] + 1]]
    BY <1>3 DEF PutToEtcd
  <2>2. puts[k] + 1 \in Nat \ {0} BY <1>3 DEF PutToEtcd, TypeOK
  <2>3. (IF failed THEN Idle ELSE [step |-> "saved", name |-> k, fun |-> puts[k] + 1]) \in Ops
    BY <2>2 DEF Ops
  <2>4. op' \in [Procs -> Ops] BY <2>1, <2>3 DEF TypeOK
  <2>5. excused' \subseteq Nodes \X Names BY <2>1, <1>x
  <2>6. CacheType' BY <1>3, <1>0 DEF PutToEtcd, cache, CacheType
  <2>7. etcd' \in [Names -> Nat] /\ puts' \in [Names -> Nat]
    BY <1>3, <2>2 DEF PutToEtcd, TypeOK
  <2>8. gone' \subseteq Nodes \X Names BY <1>3 DEF PutToEtcd, TypeOK
  <2> QED BY <1>t, <2>4, <2>5, <2>6, <2>7, <2>8
<1>4. ASSUME NEW p \in Procs, NEW k \in Names, DeleteFromEtcd(p, k) PROVE TypeOK'
  <2>1. PICK failed \in BOOLEAN :
          /\ Excuse(p, k, failed)
          /\ op' = [op EXCEPT ![p] = IF failed THEN Idle
                      ELSE [step |-> "deleted", name |-> k, fun |-> 0]]
    BY <1>4 DEF DeleteFromEtcd
  <2>2. op' \in [Procs -> Ops] BY <2>1 DEF TypeOK, Ops
  <2>3. excused' \subseteq Nodes \X Names BY <2>1, <1>x
  <2>4. CacheType' BY <1>4, <1>0 DEF DeleteFromEtcd, cache, CacheType
  <2>5. etcd' \in [Names -> Nat] BY <1>4 DEF DeleteFromEtcd, TypeOK
  <2> QED BY <1>4, <1>t, <2>2, <2>3, <2>4, <2>5 DEF DeleteFromEtcd, TypeOK
<1>5. ASSUME NEW p \in Procs, GetFromEtcd(p) PROVE TypeOK'
  <2>1. op[p] # Idle /\ op[p].name \in Names
    BY <1>5, OpOfType, StepsOfIdle DEF GetFromEtcd
  <2>2. CASE op' = [op EXCEPT ![p] = Idle]
    BY <2>2, <1>5, <1>0, <1>t DEF GetFromEtcd, cache, CacheType, TypeOK, Ops
  <2>3. CASE /\ etcd[op[p].name] # 0
             /\ op' = [op EXCEPT ![p] = Filling(op[p].name)]
    <3>1. Filling(op[p].name) \in Ops BY <2>1, <2>3 DEF TypeOK, Ops, Filling
    <3>2. op' \in [Procs -> Ops] BY <2>3, <3>1 DEF TypeOK
    <3> QED BY <1>5, <1>0, <1>t, <3>2 DEF GetFromEtcd, cache, CacheType, TypeOK
  <2> QED BY <1>5, <2>2, <2>3 DEF GetFromEtcd
<1>6. ASSUME NEW p \in Procs, Fill(p) \/ SetSaved(p) PROVE TypeOK'
  <2>1. op[p] # Idle BY <1>6, StepsOfIdle DEF Fill, SetSaved
  <2>2. CacheType' BY <1>6, <1>0, <2>1, OpOfType, SetType DEF Fill, SetSaved
  <2>3. op' \in [Procs -> Ops] BY <1>6 DEF Fill, SetSaved, TypeOK, Ops
  <2> QED BY <1>6, <1>t, <2>2, <2>3 DEF Fill, SetSaved, TypeOK
<1>7. ASSUME NEW p \in Procs, DeleteCached(p) PROVE TypeOK'
  <2>1. op[p] # Idle BY <1>7, StepsOfIdle DEF DeleteCached
  <2>2. CacheType' BY <1>7, <1>0, <1>n, WithoutType DEF DeleteCached
  <2>3. op' \in [Procs -> Ops] BY <1>7 DEF DeleteCached, TypeOK, Ops
  <2>4. gone' \subseteq Nodes \X Names
    BY <1>7, <1>n, <2>1, OpOfType DEF DeleteCached, TypeOK
  <2> QED BY <1>7, <1>t, <2>2, <2>3, <2>4 DEF DeleteCached, TypeOK
<1>8. ASSUME NEW n \in Nodes, NEW k \in Names, Lapse(n, k) PROVE TypeOK'
  <2>1. CacheType' BY <1>8, <1>0 DEF Lapse, CacheType
  <2> QED BY <1>8, <1>t, <2>1 DEF Lapse, TypeOK
<1>9. ASSUME NEW n \in Nodes, DeleteExpired(n) PROVE TypeOK'
  <2>1. CacheType' BY <1>9, <1>0, WithoutType DEF DeleteExpired
  <2> QED BY <1>9, <1>t, <2>1 DEF DeleteExpired, TypeOK
<1>10. CASE UNCHANGED vars
  BY <1>10 DEF vars, cache, TypeOK
<1> QED BY <1>1, <1>2, <1>3, <1>4, <1>5, <1>6, <1>7, <1>8, <1>9, <1>10 DEF Next

(* Every reachable state is well typed: in particular a call holds a        *)
(* function exactly while it is on its way to the cache with one.           *)
THEOREM TypeCorrect == Spec => []TypeOK
BY TypeInit, TypeNext, PTL DEF Spec

-----------------------------------------------------------------------------
(* The bound of the caches. *)

Room == IF Size = 0 THEN 1 ELSE Size

LEMMA CachedFinite == ASSUME NEW n PROVE IsFiniteSet(Cached(n))
<1>1. Cached(n) \subseteq Names BY DEF Cached
<1> QED BY <1>1, FS_Subset, StoreAssumption

(* What is left after items have gone is no more than there was. *)
LEMMA FewerItems ==
    ASSUME NEW S, IsFiniteSet(S), NEW T, T \subseteq S, Cardinality(S) <= Room
    PROVE  Cardinality(T) <= Room
BY FS_Subset, FS_CardinalityType, StoreAssumption DEF Room

LEMMA OneMore ==
    ASSUME NEW S, IsFiniteSet(S), NEW x, Cardinality(S) + 1 <= Room
    PROVE  IsFiniteSet(S \cup {x}) /\ Cardinality(S \cup {x}) <= Room
<1>1. Cardinality(S) \in Nat /\ Room \in Nat
  BY FS_CardinalityType, StoreAssumption DEF Room
<1>2. /\ IsFiniteSet(S \cup {x})
      /\ Cardinality(S \cup {x}) = IF x \in S THEN Cardinality(S) ELSE Cardinality(S) + 1
  BY FS_AddElement
<1> QED BY <1>1, <1>2

LEMMA SetBounded ==
    ASSUME TypeOK, CacheBounded, NEW n \in Nodes, NEW k \in Names, NEW fun,
           Set(n, k, fun)
    PROVE  CacheBounded'
<1> USE StoreAssumption
<1>1. PICK S \in Evicts(n, k) : \A x \in S \ {k} : x \in Names => items'[n][x] = 0
  BY SetItems
<1>2. Cached(n)' \subseteq (Cached(n) \ S) \cup {k}
  BY <1>1, SetItems DEF Cached
<1>3. IsFiniteSet(Cached(n)) /\ Cardinality(Cached(n)) \in Nat
  BY CachedFinite, FS_CardinalityType
<1>4. Cardinality(Cached(n)) <= Room BY DEF CacheBounded, Room
<1>5. Cardinality(Cached(n)') <= Room
  <2>1. CASE k \in Cached(n)
    BY <2>1, <1>2, <1>3, <1>4, FewerItems
  <2>2. CASE Cardinality(Cached(n)) < Size \/ Cached(n) = {}
    <3>1. Cardinality(Cached(n)) + 1 <= Room
      BY <2>2, <1>3, FS_EmptySet DEF Room
    <3>2. IsFiniteSet(Cached(n) \cup {k}) /\ Cardinality(Cached(n) \cup {k}) <= Room
      BY <3>1, <1>3, OneMore
    <3> QED BY <3>2, <1>2, FewerItems
  <2>3. CASE S \in {{x} : x \in FindLRU(n)} /\ k \notin Cached(n)
    <3>1. PICK x \in Cached(n) : S = {x} BY <2>3 DEF FindLRU
    <3>2. /\ IsFiniteSet(Cached(n) \ {x})
          /\ Cardinality(Cached(n) \ {x}) = Cardinality(Cached(n)) - 1
      BY <3>1, <1>3, FS_RemoveElement
    <3>3. Cardinality(Cached(n) \ {x}) + 1 <= Room BY <3>2, <1>3, <1>4
    <3>4. /\ IsFiniteSet((Cached(n) \ {x}) \cup {k})
          /\ Cardinality((Cached(n) \ {x}) \cup {k}) <= Room
      BY <3>2, <3>3, OneMore
    <3> QED BY <3>1, <3>4, <1>2, FewerItems
  <2> QED BY <1>1, <2>1, <2>2, <2>3 DEF Evicts
<1>6. ASSUME NEW m \in Nodes \ {n} PROVE Cached(m)' = Cached(m)
  BY SetItems DEF Cached
<1> QED BY <1>4, <1>5, <1>6 DEF CacheBounded, Room

LEMMA WithoutBounded ==
    ASSUME TypeOK, CacheBounded, NEW n \in Nodes, NEW S, Without(n, S)
    PROVE  CacheBounded'
<1>1. \A m \in Nodes : Cached(m)' \subseteq Cached(m)
  BY WithoutItems DEF Cached
<1> QED BY <1>1, CachedFinite, FewerItems DEF CacheBounded, Room

LEMMA BoundedNext == TypeOK /\ CacheBounded /\ [Next]_vars => CacheBounded'
<1> SUFFICES ASSUME TypeOK, CacheBounded, [Next]_vars PROVE CacheBounded' OBVIOUS
<1>1. ASSUME UNCHANGED items PROVE CacheBounded'
  BY <1>1 DEF CacheBounded, Cached
<1>2. ASSUME NEW p \in Procs, Fill(p) \/ SetSaved(p) PROVE CacheBounded'
  <2>1. op[p] # Idle BY <1>2, StepsOfIdle DEF Fill, SetSaved
  <2> QED BY <1>2, <2>1, OpOfType, SetBounded DEF Fill, SetSaved
<1>3. ASSUME NEW p \in Procs, DeleteCached(p) PROVE CacheBounded'
  BY <1>3, StoreAssumption, WithoutBounded DEF DeleteCached
<1>4. ASSUME NEW n \in Nodes, DeleteExpired(n) PROVE CacheBounded'
  BY <1>4, WithoutBounded DEF DeleteExpired
<1>5. ASSUME NEW p \in Procs, NEW k \in Names,
             Hit(p, k) \/ Miss(p, k) \/ PutToEtcd(p, k) \/ DeleteFromEtcd(p, k)
      PROVE  UNCHANGED items
  BY <1>5 DEF Hit, Miss, PutToEtcd, DeleteFromEtcd, cache
<1>6. ASSUME NEW p \in Procs, GetFromEtcd(p) PROVE UNCHANGED items
  BY <1>6 DEF GetFromEtcd, cache
<1>7. ASSUME NEW n \in Nodes, NEW k \in Names, Lapse(n, k) PROVE UNCHANGED items
  BY <1>7 DEF Lapse
<1>8. CASE UNCHANGED vars BY <1>8, <1>1 DEF vars, cache
<1> QED BY <1>1, <1>2, <1>3, <1>4, <1>5, <1>6, <1>7, <1>8 DEF Next

LEMMA BoundedInit == Init => CacheBounded
<1> SUFFICES ASSUME Init, NEW n \in Nodes PROVE Cardinality(Cached(n)) <= Room
  BY DEF CacheBounded, Room
<1>1. Cached(n) = {} BY DEF Init, Cached
<1> QED BY <1>1, FS_EmptySet, StoreAssumption DEF Room

(* Set keeps every cache within its size, whatever findLRU names and        *)
(* whoever else inserts, deletes or sweeps.                                 *)
THEOREM CachesAreBounded == Spec => []CacheBounded
<1>1. Init => TypeOK /\ CacheBounded BY TypeInit, BoundedInit
<1>2. TypeOK /\ CacheBounded /\ [Next]_vars => (TypeOK /\ CacheBounded)'
  BY TypeNext, BoundedNext
<1> QED BY <1>1, <1>2, PTL DEF Spec

-----------------------------------------------------------------------------
(* The causes of stale items. *)

(* A call that carries a function to the cache carries the one in etcd,     *)
(* unless its item is excused: without this a Fill could make an item stale *)
(* that nothing explains.                                                   *)
CarriesTheLast ==
    \A p \in Procs : op[p].step \in {"fill", "saved"} =>
        \/ op[p].fun = etcd[op[p].name]
        \/ <<NodeOf[p], op[p].name>> \in excused

IInv == TypeOK /\ CarriesTheLast /\ StaleIsExplained

LEMMA StaleInit == Init => IInv
BY TypeInit DEF IInv, Init, CarriesTheLast, StaleIsExplained, TypeOK, Idle

(* A call that changes neither etcd nor the caches, only what it is at. *)
LEMMA OtherSteps ==
    ASSUME IInv, NEW p \in Procs, NEW new \in Ops,
           op[p].step \notin {"saved", "deleted"},
           new.step = "fill" => new.fun = etcd[new.name], new.step # "saved",
           op' = [op EXCEPT ![p] = new], UNCHANGED <<etcd, items, excused>>
    PROVE  CarriesTheLast' /\ StaleIsExplained'
<1>1. CarriesTheLast' BY DEF IInv, TypeOK, CarriesTheLast
<1>2. StaleIsExplained'
  <2> SUFFICES ASSUME NEW n \in Nodes, NEW k \in Names,
                      items[n][k] \notin {0, etcd[k]}, <<n, k>> \notin excused
               PROVE  \E q \in Procs : /\ NodeOf[q] = n /\ op'[q].name = k
                                       /\ op'[q].step \in {"saved", "deleted"}
    BY DEF StaleIsExplained
  <2>1. PICK q \in Procs : /\ NodeOf[q] = n /\ op[q].name = k
                           /\ op[q].step \in {"saved", "deleted"}
    BY DEF IInv, StaleIsExplained
  <2>2. q # p BY <2>1
  <2> QED BY <2>1, <2>2 DEF IInv, TypeOK
<1> QED BY <1>1, <1>2

(* What the cache gets is the function in etcd, or the item is excused. *)
LEMMA SetSteps ==
    ASSUME IInv, NEW p \in Procs, Fill(p) \/ SetSaved(p)
    PROVE  CarriesTheLast' /\ StaleIsExplained'
<1> DEFINE n == NodeOf[p]  k == op[p].name
<1>1. /\ op[p].step \in {"fill", "saved"} /\ Set(n, k, op[p].fun)
      /\ op' = [op EXCEPT ![p] = Idle] /\ UNCHANGED <<etcd, excused>>
  BY DEF Fill, SetSaved
<1>2. /\ n \in Nodes /\ k \in Names
  BY <1>1, StepsOfIdle, OpOfType DEF IInv
<1>3. /\ \A m \in Nodes \ {n} : items'[m] = items[m]
      /\ items'[n][k] = op[p].fun
      /\ \A x \in Names \ {k} : items'[n][x] \in {0, items[n][x]}
  BY <1>1, <1>2, SetItems DEF IInv
<1>4. op[p].fun = etcd[k] \/ <<n, k>> \in excused
  BY <1>1 DEF IInv, CarriesTheLast
<1>5. CarriesTheLast'
  BY <1>1, StepsOfIdle DEF IInv, TypeOK, CarriesTheLast
<1>6. ASSUME NEW m \in Nodes, NEW x \in Names,
             items'[m][x] \notin {0, etcd[x]}, <<m, x>> \notin excused
      PROVE  \E q \in Procs : /\ NodeOf[q] = m /\ op'[q].name = x
                              /\ op'[q].step \in {"saved", "deleted"}
  <2>1. <<m, x>> # <<n, k>> BY <1>3, <1>4, <1>6
  <2>2. items[m][x] \notin {0, etcd[x]} BY <2>1, <1>3, <1>6
  <2>3. PICK q \in Procs : /\ NodeOf[q] = m /\ op[q].name = x
                           /\ op[q].step \in {"saved", "deleted"}
    BY <2>2, <1>6 DEF IInv, StaleIsExplained
  <2>4. q # p BY <2>1, <2>3
  <2> QED BY <2>3, <2>4, <1>1 DEF IInv, TypeOK
<1>7. StaleIsExplained' BY <1>1, <1>6 DEF StaleIsExplained
<1> QED BY <1>5, <1>7

(* A write of etcd: the other nodes are excused, and the node of the writer *)
(* is unless the call goes on to its cache and is alone on its way there.   *)
LEMMA WriteSteps ==
    ASSUME IInv, NEW p \in Procs, NEW k \in Names, NEW failed \in BOOLEAN,
           NEW new \in Ops, op[p] = Idle, Excuse(p, k, failed),
           new.name = k, new.step \in {"saved", "deleted"},
           op' = [op EXCEPT ![p] = IF failed THEN Idle ELSE new],
           NEW fun, etcd' = [etcd EXCEPT ![k] = fun],
           new.step = "saved" => new.fun = fun, UNCHANGED items
    PROVE  CarriesTheLast' /\ StaleIsExplained'
<1> DEFINE n == NodeOf[p]
<1>0. n \in Nodes BY StoreAssumption
<1>1. /\ excused \subseteq excused'
      /\ \A m \in Nodes \ {n} : <<m, k>> \in excused'
      /\ failed => <<n, k>> \in excused'
      /\ \A q \in Procs \ {p} :
           NodeOf[q] = n /\ op[q].name = k /\ op[q].step \in {"fill", "saved", "deleted"}
             => <<n, k>> \in excused'
  BY <1>0 DEF Excuse
<1>2. \A x \in Names : etcd'[x] = IF x = k THEN fun ELSE etcd[x]
  BY DEF IInv, TypeOK
<1>3. \A q \in Procs : op'[q] = IF q # p THEN op[q] ELSE IF failed THEN Idle ELSE new
  BY DEF IInv, TypeOK
<1>4. ASSUME NEW q \in Procs, op'[q].step \in {"fill", "saved"}
      PROVE  \/ op'[q].fun = etcd'[op'[q].name]
             \/ <<NodeOf[q], op'[q].name>> \in excused'
  <2>1. CASE q = p BY <2>1, <1>2, <1>3, <1>4, StepsOfIdle
  <2>2. CASE q # p
    <3>1. op'[q] = op[q] /\ op[q] # Idle BY <2>2, <1>3, <1>4, StepsOfIdle
    <3>2. op[q].name \in Names /\ NodeOf[q] \in Nodes BY <3>1, OpOfType DEF IInv
    <3>3. op[q].fun = etcd[op[q].name] \/ <<NodeOf[q], op[q].name>> \in excused
      BY <3>1, <1>4 DEF IInv, CarriesTheLast
    <3>4. CASE op[q].name = k
      BY <3>1, <3>2, <3>4, <2>2, <1>1, <1>4
    <3> QED BY <3>1, <3>2, <3>3, <3>4, <1>1, <1>2
  <2> QED BY <2>1, <2>2
<1>5. ASSUME NEW m \in Nodes, NEW x \in Names,
             items[m][x] \notin {0, etcd'[x]}, <<m, x>> \notin excused'
      PROVE  \E q \in Procs : /\ NodeOf[q] = m /\ op'[q].name = x
                              /\ op'[q].step \in {"saved", "deleted"}
  <2>1. CASE x = k
    <3>1. m = n /\ ~failed BY <2>1, <1>1, <1>5
    <3> QED BY <3>1, <2>1, <1>3
  <2>2. CASE x # k
    <3>1. items[m][x] \notin {0, etcd[x]} /\ <<m, x>> \notin excused
      BY <2>2, <1>1, <1>2, <1>5
    <3>2. PICK q \in Procs : /\ NodeOf[q] = m /\ op[q].name = x
                             /\ op[q].step \in {"saved", "deleted"}
      BY <3>1 DEF IInv, StaleIsExplained
    <3>3. q # p BY <3>2, StepsOfIdle
    <3> QED BY <3>2, <3>3, <1>3
  <2> QED BY <2>1, <2>2
<1> QED BY <1>4, <1>5 DEF CarriesTheLast, StaleIsExplained

(* Items that leave a cache make none stale. *)
LEMMA RemovalSteps ==
    ASSUME IInv, NEW n \in Nodes, NEW S, Without(n, S), UNCHANGED <<etcd, excused>>,
           \/ UNCHANGED op
           \/ \E p \in Procs : /\ NodeOf[p] = n /\ op[p].name \in S
                               /\ op' = [op EXCEPT ![p] = Idle]
    PROVE  CarriesTheLast' /\ StaleIsExplained'
<1>1. /\ \A m \in Nodes \ {n} : items'[m] = items[m]
      /\ \A x \in Names : items'[n][x] = IF x \in S THEN 0 ELSE items[n][x]
  BY WithoutItems DEF IInv
<1>2. CarriesTheLast'
  BY StepsOfIdle DEF IInv, TypeOK, CarriesTheLast
<1>3. ASSUME NEW m \in Nodes, NEW x \in Names,
             items'[m][x] \notin {0, etcd[x]}, <<m, x>> \notin excused
      PROVE  \E q \in Procs : /\ NodeOf[q] = m /\ op'[q].name = x
                              /\ op'[q].step \in {"saved", "deleted"}
  <2>1. items[m][x] \notin {0, etcd[x]} /\ (m = n => x \notin S) BY <1>1, <1>3
  <2>2. PICK q \in Procs : /\ NodeOf[q] = m /\ op[q].name = x
                           /\ op[q].step \in {"saved", "deleted"}
    BY <2>1, <1>3 DEF IInv, StaleIsExplained
  <2>3. op'[q] = op[q] BY <2>1, <2>2 DEF IInv, TypeOK
  <2> QED BY <2>2, <2>3
<1>4. StaleIsExplained' BY <1>3 DEF StaleIsExplained
<1> QED BY <1>2, <1>4

LEMMA StaleNext == IInv /\ [Next]_vars => IInv'
<1> SUFFICES ASSUME IInv, [Next]_vars PROVE CarriesTheLast' /\ StaleIsExplained'
  BY TypeNext DEF IInv
<1>1. ASSUME UNCHANGED <<etcd, items, op, excused>>
      PROVE  CarriesTheLast' /\ StaleIsExplained'
  BY <1>1 DEF IInv, CarriesTheLast, StaleIsExplained
<1>2. ASSUME NEW p \in Procs, NEW k \in Names, Miss(p, k)
      PROVE  CarriesTheLast' /\ StaleIsExplained'
  <2> DEFINE new == [step |-> "miss", name |-> k, fun |-> 0]
  <2>1. new \in Ops BY DEF Ops
  <2>2. /\ op[p].step \notin {"saved", "deleted"} /\ op' = [op EXCEPT ![p] = new]
        /\ UNCHANGED <<etcd, items, excused>>
    BY <1>2, StepsOfIdle DEF Miss, cache
  <2>3. new.step = "miss" OBVIOUS
  <2> HIDE DEF new
  <2> QED BY <2>1, <2>2, <2>3, OtherSteps
<1>3. ASSUME NEW p \in Procs, GetFromEtcd(p) PROVE CarriesTheLast' /\ StaleIsExplained'
  <2>1. /\ op[p].step \notin {"saved", "deleted"} /\ UNCHANGED <<etcd, items, excused>>
    BY <1>3 DEF GetFromEtcd, cache
  <2>2. CASE op' = [op EXCEPT ![p] = Idle]
    BY <2>1, <2>2, StepsOfIdle, OtherSteps, Idle \in Ops DEF Ops
  <2>3. CASE /\ etcd[op[p].name] # 0
             /\ op' = [op EXCEPT ![p] = Filling(op[p].name)]
    <3>1. op[p].name \in Names
      BY <1>3, OpOfType, StepsOfIdle DEF GetFromEtcd, IInv
    <3>2. Filling(op[p].name) \in Ops
      BY <3>1, <2>3 DEF IInv, TypeOK, Ops, Filling
    <3>3. /\ Filling(op[p].name).step = "fill"
          /\ Filling(op[p].name).fun = etcd[Filling(op[p].name).name]
      BY DEF Filling
    <3> QED BY <3>2, <3>3, <2>1, <2>3, OtherSteps
  <2> QED BY <1>3, <2>2, <2>3 DEF GetFromEtcd
<1>4. ASSUME NEW p \in Procs, NEW k \in Names, PutToEtcd(p, k)
      PROVE  CarriesTheLast' /\ StaleIsExplained'
  <2> DEFINE new == [step |-> "saved", name |-> k, fun |-> puts[k] + 1]
  <2>1. puts[k] + 1 \in Nat \ {0}
    BY <1>4, StoreAssumption DEF PutToEtcd, IInv, TypeOK
  <2>2. new \in Ops BY <2>1 DEF Ops
  <2>3. new.step = "saved" /\ new.name = k /\ new.fun = puts[k] + 1 OBVIOUS
  <2>4. PICK failed \in BOOLEAN :
          Excuse(p, k, failed) /\ op' = [op EXCEPT ![p] = IF failed THEN Idle ELSE new]
    BY <1>4 DEF PutToEtcd
  <2>5. op[p] = Idle /\ etcd' = [etcd EXCEPT ![k] = puts[k] + 1] /\ UNCHANGED items
    BY <1>4 DEF PutToEtcd, cache
  <2> HIDE DEF new
  <2> QED BY <2>2, <2>3, <2>4, <2>5, WriteSteps
<1>5. ASSUME NEW p \in Procs, NEW k \in Names, DeleteFromEtcd(p, k)
      PROVE  CarriesTheLast' /\ StaleIsExplained'
  <2> DEFINE new == [step |-> "deleted", name |-> k, fun |-> 0]
  <2>1. new \in Ops BY DEF Ops
  <2>2. new.step = "deleted" /\ new.name = k OBVIOUS
  <2>3. PICK failed \in BOOLEAN :
          Excuse(p, k, failed) /\ op' = [op EXCEPT ![p] = IF failed THEN Idle ELSE new]
    BY <1>5 DEF DeleteFromEtcd
  <2>4. op[p] = Idle /\ etcd' = [etcd EXCEPT ![k] = 0] /\ UNCHANGED items
    BY <1>5 DEF DeleteFromEtcd, cache
  <2> HIDE DEF new
  <2> QED BY <2>1, <2>2, <2>3, <2>4, WriteSteps
<1>6. ASSUME NEW p \in Procs, DeleteCached(p) PROVE CarriesTheLast' /\ StaleIsExplained'
  <2>1. /\ Without(NodeOf[p], {op[p].name}) /\ UNCHANGED <<etcd, excused>>
        /\ op' = [op EXCEPT ![p] = Idle]
    BY <1>6 DEF DeleteCached
  <2> QED BY <2>1, RemovalSteps, StoreAssumption
<1>7. ASSUME NEW n \in Nodes, DeleteExpired(n) PROVE CarriesTheLast' /\ StaleIsExplained'
  BY <1>7, RemovalSteps DEF DeleteExpired
<1>8. ASSUME NEW p \in Procs, NEW k \in Names, Hit(p, k)
      PROVE  CarriesTheLast' /\ StaleIsExplained'
  BY <1>1, <1>8 DEF Hit
<1>9. ASSUME NEW n \in Nodes, NEW k \in Names, Lapse(n, k)
      PROVE  CarriesTheLast' /\ StaleIsExplained'
  BY <1>1, <1>9 DEF Lapse
<1>10. CASE UNCHANGED vars BY <1>1, <1>10 DEF vars, cache
<1> QED BY <1>2, <1>3, <1>4, <1>5, <1>6, <1>7, <1>8, <1>9, <1>10, SetSteps DEF Next

(* A node caches a function that is not the one in etcd only for one of the *)
(* causes named: whatever the interleaving, a write by the only call on its *)
(* way to the cache of its node leaves that cache up to date.               *)
THEOREM StaleHasACause == Spec => []StaleIsExplained
<1>1. IInv => StaleIsExplained BY DEF IInv
<1> QED BY <1>1, StaleInit, StaleNext, PTL DEF Spec
-----------------------------------------------------------------------------
(* Evictions. *)

(* An item that Set puts out to make room for another is past its           *)
(* expiration, or was used before another, or the cache has one place.      *)
LEMMA SetSpares ==
    ASSUME TypeOK, NEW n \in Nodes, NEW k \in Names, NEW fun \in Nat \ {0}, Set(n, k, fun),
           NEW x \in Cached(n), items'[n][x] = 0
    PROVE  x \in lapsed[n] \/ Size <= 1 \/ \E y \in Cached(n) : <<x, y>> \in older[n]
<1>1. PICK S \in Evicts(n, k) :
        items' = [items EXCEPT ![n] =
          [y \in Names |-> IF y = k THEN fun ELSE IF y \in S THEN 0 ELSE @[y]]]
  BY DEF Set
<1>2. x \in Names /\ items[n][x] # 0 BY DEF Cached
<1>3. x \in S
  BY <1>1, <1>2 DEF TypeOK
<1>4. ~(Cardinality(Cached(n)) < Size) /\ S \in {{y} : y \in FindLRU(n)}
  BY <1>3 DEF Evicts
<1>5. x \in FindLRU(n) BY <1>3, <1>4
<1>6. CASE Oldest(n, x) /\ Cached(n) \subseteq {x}
  <2>1. Cached(n) = {x} BY <1>6
  <2>2. Cardinality(Cached(n)) = 1 BY <2>1, FS_Singleton
  <2> QED BY <1>4, <2>2, StoreAssumption
<1>7. CASE Oldest(n, x) /\ ~(Cached(n) \subseteq {x})
  BY <1>7 DEF Oldest
<1>8. CASE ~Oldest(n, x)
  BY <1>5, <1>8 DEF FindLRU
<1> QED BY <1>6, <1>7, <1>8

(* Only a Set puts an item where there was none. *)
LEMMA NewItemsAreSet ==
    ASSUME TypeOK, Next, NEW n \in Nodes, NEW k \in Names,
           items[n][k] = 0, items'[n][k] # 0
    PROVE  \E j \in Names, fun \in Nat \ {0} : Set(n, j, fun)
<1>1. ASSUME NEW p \in Procs, Fill(p) \/ SetSaved(p)
      PROVE  \E j \in Names, fun \in Nat \ {0} : Set(n, j, fun)
  <2>1. op[p] # Idle BY <1>1, StepsOfIdle DEF Fill, SetSaved
  <2>2. op[p].name \in Names /\ op[p].fun \in Nat \ {0}
    BY <1>1, <2>1, OpOfType DEF Fill, SetSaved
  <2>3. Set(NodeOf[p], op[p].name, op[p].fun) BY <1>1 DEF Fill, SetSaved
  <2>4. NodeOf[p] = n BY <2>2, <2>3, SetItems, StoreAssumption
  <2> QED BY <2>2, <2>3, <2>4
<1>2. ASSUME NEW p \in Procs PROVE ~DeleteCached(p)
  BY StoreAssumption, WithoutItems DEF DeleteCached
<1>3. ASSUME NEW m \in Nodes PROVE ~DeleteExpired(m)
  BY WithoutItems DEF DeleteExpired
<1>4. ASSUME NEW p \in Procs, NEW j \in Names,
             Hit(p, j) \/ Miss(p, j) \/ PutToEtcd(p, j) \/ DeleteFromEtcd(p, j) \/ GetFromEtcd(p)
      PROVE  FALSE
  BY <1>4 DEF Hit, Miss, PutToEtcd, DeleteFromEtcd, GetFromEtcd, cache
<1>5. ASSUME NEW m \in Nodes, NEW j \in Names, Lapse(m, j) PROVE FALSE
  BY <1>5 DEF Lapse
<1> QED BY <1>1, <1>2, <1>3, <1>4, <1>5 DEF Next

(* What was used last stays in the cache when another item needs a place,   *)
(* whatever findLRU makes of the order of the map.                          *)
THEOREM LatestIsSpared == Spec => LatestSurvives
<1>1. TypeOK /\ [Next]_vars =>
        [\A n \in Nodes : (\E k \in Names : items[n][k] = 0 /\ items'[n][k] # 0) =>
            \A x \in Cached(n) : items'[n][x] = 0 =>
              x \in lapsed[n] \/ Size <= 1 \/ \E y \in Cached(n) : <<x, y>> \in older[n]]_vars
  BY NewItemsAreSet, SetSpares
<1> QED BY <1>1, TypeCorrect, PTL DEF Spec, LatestSurvives
================================================================================
