------------------------- MODULE ContainerPoolProofs -------------------------
(***************************************************************************)
(* Theorems about ContainerPool, for every value of its constants.          *)
(*                                                                          *)
(* The argument has layers, each inductive relative to those before it:     *)
(* typing together with the sign of the accounts; who may refer to a        *)
(* container (Exclusive, strengthened with Holding); which containers exist *)
(* (Usable); and the accounts.  The account of the CPU needs only types.    *)
(* The account of the memory is a sum over the containers in the lists,     *)
(* whose sizes are read when memory is given back, so it needs all of them: *)
(* each container must be counted once, and GetMemoryMB must find it.       *)
(* The last two parts use the layers: that warm containers leave the pool   *)
(* for a reason, which needs Unblamed beside them, and that the pool        *)
(* implements ContainerLease.                                               *)
(***************************************************************************)
EXTENDS ContainerPool, TotalsProofs

(* A request holds a container exactly when it is between the creation or   *)
(* the acquisition of the container and its release.                        *)
Holding == \A r \in Requests :
    cont[r] # NoContainer <=> phase[r] \in {"spawned", "running"}

Typed == TypeOK /\ NeverOvercommitted /\ Holding

(* The demands of a request are natural numbers. *)
LEMMA DemandsAreNat ==
    ASSUME NEW r \in Requests
    PROVE  FunOf[r] \in Functions /\ CPU(r) \in Nat /\ Mem(r) \in Nat
  BY PoolAssumption DEF CPU, Mem

LEMMA Products ==
    ASSUME NEW a \in Nat, NEW b \in Nat, NEW c \in Nat
    PROVE  /\ a * b \in Nat
           /\ a * 0 = 0 /\ 0 * a = 0 /\ a * 1 = a
           /\ a * (b + c) = a * b + a * c /\ (b + c) * a = b * a + c * a
  OBVIOUS

LEMMA ProductsMonotonic ==
    ASSUME NEW a \in Nat, NEW b \in Nat, NEW c \in Nat, NEW d \in Nat, a <= c, b <= d
    PROVE  a * b <= c * d
<1>1. PICK m \in Nat, n \in Nat : c = a + m /\ d = b + n
  <2>1. c - a \in Nat /\ d - b \in Nat /\ c = a + (c - a) /\ d = b + (d - b)
    OBVIOUS
  <2> QED
    BY <2>1
<1>2. c * d = a * d + m * d /\ a * d = a * b + a * n
  BY <1>1, Products
<1>3. a * b \in Nat /\ a * n \in Nat /\ m * d \in Nat
  BY Products
<1> QED
  BY <1>2, <1>3

-----------------------------------------------------------------------------
(* What the pool counts. *)

LEMMA SomeContainers ==
    ASSUME NEW S, S \subseteq ContainerIDs
    PROVE  IsFiniteSet(S) /\ Cardinality(S) \in Nat
  BY PoolAssumption, FS_Subset, FS_CardinalityType

(* Amounts of memory are natural numbers. *)
LEMMA MemoryIsNat ==
    ASSUME NEW pool \in [Functions -> SUBSET ContainerIDs], NEW S
    PROVE  MemoryOf(S, pool) \in Nat
<1> DEFINE amount == [f \in Functions |-> MemoryMB[f] * Cardinality(S \cap pool[f] \cap alive)]
<1>1. ASSUME NEW f \in Functions
      PROVE  MemoryMB[f] * Cardinality(S \cap pool[f] \cap alive) \in Nat
  <2>1. MemoryMB[f] \in Nat
    BY PoolAssumption
  <2>2. Cardinality(S \cap pool[f] \cap alive) \in Nat
    BY SomeContainers
  <2> QED
    BY <2>1, <2>2, Products
<1>2. amount \in [Functions -> Nat]
  BY <1>1
<1> HIDE DEF amount
<1>3. Total(amount) \in Nat
  BY <1>2, PoolAssumption, TotalIsNat
<1> QED
  BY <1>3 DEF MemoryOf, amount

(* What dismissContainer adds up is a natural number, and at most what the  *)
(* containers that leave the lists take.                                    *)
LEMMA CollectedIsNat ==
    ASSUME TypeOK, NEW S, NEW T, S \subseteq T, NEW read, read \subseteq Warm
    PROVE  /\ CollectedMB(S, read) \in Nat
           /\ CollectedMB(T, Warm) \in Nat
           /\ CollectedMB(S, read) <= CollectedMB(T, Warm)
<1> DEFINE some == [f \in Functions |-> ItemMB(f, read) * Cardinality(S \cap ready[f])]
           all  == [f \in Functions |-> ItemMB(f, Warm) * Cardinality(T \cap ready[f])]
<1>1. ASSUME NEW f \in Functions
      PROVE  some[f] \in Nat /\ all[f] \in Nat /\ some[f] <= all[f]
  <2>1. MemoryMB[f] \in Nat
    BY PoolAssumption
  <2>2. ItemMB(f, read) \in Nat /\ ItemMB(f, Warm) \in Nat /\ ItemMB(f, read) <= ItemMB(f, Warm)
    BY <2>1 DEF ItemMB
  <2>3. ready[f] \subseteq ContainerIDs
    BY DEF TypeOK
  <2>4. /\ IsFiniteSet(T \cap ready[f]) /\ Cardinality(T \cap ready[f]) \in Nat
        /\ Cardinality(S \cap ready[f]) \in Nat
    <3>1. T \cap ready[f] \subseteq ContainerIDs /\ S \cap ready[f] \subseteq ContainerIDs
      BY <2>3
    <3> QED
      BY <3>1, SomeContainers
  <2>5. Cardinality(S \cap ready[f]) <= Cardinality(T \cap ready[f])
    <3>1. S \cap ready[f] \in SUBSET (T \cap ready[f])
      OBVIOUS
    <3> QED
      BY <2>4, <3>1, FS_Subset
  <2>6. /\ ItemMB(f, read) * Cardinality(S \cap ready[f]) \in Nat
        /\ ItemMB(f, Warm) * Cardinality(T \cap ready[f]) \in Nat
    BY <2>2, <2>4, Products
  <2>7. ItemMB(f, read) * Cardinality(S \cap ready[f])
          <= ItemMB(f, Warm) * Cardinality(T \cap ready[f])
    BY <2>2, <2>4, <2>5, ProductsMonotonic
  <2> QED
    BY <2>6, <2>7
<1>2. some \in [Functions -> Nat] /\ all \in [Functions -> Nat]
  BY <1>1
<1>3. Total(some) \in Nat /\ Total(all) \in Nat /\ Total(some) <= Total(all)
  <2> HIDE DEF some, all
  <2> QED
    BY <1>1, <1>2, PoolAssumption, TotalIsNat, TotalMonotonic
<1> QED
  BY <1>3 DEF CollectedMB

-----------------------------------------------------------------------------
(* Typing, and no account ever below zero. *)

(* A step of a request keeps the types and the accounts: what is subtracted *)
(* was compared first, and what dismissContainer adds is what it collected. *)
LEMMA InvokeTyped ==
    ASSUME Typed, NEW r \in Requests, Invoke(r)
    PROVE  Typed'
<1> USE DEF Typed, TypeOK, NeverOvercommitted, Holding, Phases
<1>0. FunOf[r] \in Functions /\ CPU(r) \in Nat /\ Mem(r) \in Nat
  BY DemandsAreNat
<1>1. CASE ReserveFree(r)
  BY <1>0, <1>1 DEF ReserveFree, Grant, pools, lost
<1>2. CASE ReserveDismissing(r)
  <2>1. PICK S \in SUBSET Warm, last \in Functions : \E F \in SUBSET S :
          /\ Collects(S, F, last)
          /\ \E read \in SUBSET (F \cap alive) :
               /\ Suffices(S, read, last, Mem(r))
               /\ GiveBackItems(S, S, read, Mem(r))
          /\ alive' = alive \ F
    BY <1>2 DEF ReserveDismissing
  <2>2. PICK F \in SUBSET S : \E read \in SUBSET (F \cap alive) :
          /\ Suffices(S, read, last, Mem(r))
          /\ GiveBackItems(S, S, read, Mem(r))
          /\ alive' = alive \ F
    BY <2>1
  <2>3. AvailableMemMB' \in Int /\ AvailableMemMB' >= 0 /\ lostMemMB' \in Nat
    <3>1. PICK read \in SUBSET (F \cap alive) :
            Suffices(S, read, last, Mem(r)) /\ GiveBackItems(S, S, read, Mem(r))
      BY <2>2
    <3>2. /\ CollectedMB(S, read) \in Nat /\ CollectedMB(S, Warm) \in Nat
          /\ CollectedMB(S, read) <= CollectedMB(S, Warm)
      BY CollectedIsNat
    <3>3. CollectedMB(S, read) >= Mem(r)
      BY <3>1 DEF Suffices
    <3> QED
      BY <1>0, <3>1, <3>2, <3>3 DEF GiveBackItems
  <2>4. AvailableCPUs' \in Int /\ AvailableCPUs' >= 0
    BY <1>0, <1>2 DEF ReserveDismissing, NeedsDismissal
  <2>5. /\ ready' \in [Functions -> SUBSET ContainerIDs]
        /\ expired' \subseteq ContainerIDs /\ alive' \subseteq ContainerIDs
    BY <2>2 DEF GiveBackItems, RemoveReady
  <2>6. phase[r] = "idle" /\ phase' = [phase EXCEPT ![r] = "reserved"]
    BY <1>2 DEF ReserveDismissing, NeedsDismissal, Grant
  <2> QED
    BY <1>2, <2>3, <2>4, <2>5, <2>6 DEF ReserveDismissing
<1>3. CASE DismissalFails(r)
  <2>1. PICK S \in SUBSET Warm, last \in Functions : \E F \in SUBSET S :
          \E read \in SUBSET (F \cap alive) : \E done \in SUBSET S, x \in S :
            /\ GiveBackItems(done \cup {x}, done, read, 0)
            /\ alive' = alive \ (F \cap done)
            /\ blamed' = blamed \cup ({x} \cap F \cap alive)
    BY <1>3 DEF DismissalFails
  <2>2. PICK F \in SUBSET S, done \in SUBSET S, x \in S : \E read \in SUBSET (F \cap alive) :
            /\ GiveBackItems(done \cup {x}, done, read, 0)
            /\ alive' = alive \ (F \cap done)
            /\ blamed' = blamed \cup ({x} \cap F \cap alive)
    BY <2>1
  <2>3. /\ AvailableMemMB' \in Int /\ AvailableMemMB' >= 0
        /\ lostMemMB' \in Nat
    <3>1. PICK read \in SUBSET (F \cap alive) : GiveBackItems(done \cup {x}, done, read, 0)
      BY <2>2
    <3>2. /\ CollectedMB(done, read) \in Nat /\ CollectedMB(done \cup {x}, Warm) \in Nat
          /\ CollectedMB(done, read) <= CollectedMB(done \cup {x}, Warm)
      BY CollectedIsNat
    <3> QED
      BY <3>1, <3>2 DEF GiveBackItems
  <2>4. /\ ready' \in [Functions -> SUBSET ContainerIDs]
        /\ expired' \subseteq ContainerIDs /\ alive' \subseteq ContainerIDs
        /\ blamed' \subseteq ContainerIDs
    BY <2>2 DEF GiveBackItems, RemoveReady
  <2> QED
    BY <1>3, <2>3, <2>4 DEF DismissalFails, requests
<1>4. CASE AcquireWarmContainer(r)
  BY <1>0, <1>4, PoolAssumption DEF AcquireWarmContainer, RemoveReady, requests, lost
<1>5. CASE InvalidRuntime(r)
  BY <1>0, <1>5 DEF InvalidRuntime, accounts, pools
<1>6. CASE Spawn(r)
  BY <1>6, PoolAssumption DEF Spawn, Fresh, accounts, pools, lost
<1>7. CASE SpawnFails(r)
  BY <1>7 DEF SpawnFails, Fresh, accounts, pools, lost
<1>8. CASE InsertNewContainer(r)
  BY <1>0, <1>8 DEF InsertNewContainer, accounts, lost
<1>9. CASE ReleaseAfterFailure(r)
  BY <1>0, <1>9 DEF ReleaseAfterFailure, pools, lost
<1>10. CASE ReleaseContainer(r)
  BY <1>0, <1>10 DEF ReleaseContainer, lost
<1> QED
  BY <1>1, <1>2, <1>3, <1>4, <1>5, <1>6, <1>7, <1>8, <1>9, <1>10, Invoke(r) DEF Invoke

(* The steps of the clock, the janitor and the shutdowns only give back.    *)
LEMMA BackgroundTyped ==
    ASSUME Typed,
           \/ \E c \in ContainerIDs : Expire(c) \/ DestroyCondemned(c)
           \/ \E f \in Functions : ShutdownWarmContainersFor(f)
           \/ StartJanitor \/ StopJanitor \/ DeleteExpiredContainer
           \/ ShutdownAllContainers
    PROVE  Typed'
<1> USE DEF Typed, TypeOK, NeverOvercommitted, Holding, Phases
<1>1. ASSUME NEW c \in ContainerIDs, Expire(c)
      PROVE  Typed'
  BY <1>1 DEF Expire, accounts, requests, lost
<1>2. ASSUME NEW c \in ContainerIDs, DestroyCondemned(c)
      PROVE  Typed'
  BY <1>2 DEF DestroyCondemned, accounts, pools, requests, lost
<1>3. ASSUME NEW f \in Functions, ShutdownWarmContainersFor(f)
      PROVE  Typed'
  <2>1. AvailableMemMB' \in Int /\ AvailableMemMB' >= 0 /\ lostMemMB' \in Nat
    BY <1>3, MemoryIsNat DEF ShutdownWarmContainersFor, GiveBack
  <2> QED
    BY <1>3, <2>1 DEF ShutdownWarmContainersFor, RemoveReady, requests
<1>4. CASE StartJanitor
  BY <1>4 DEF StartJanitor, accounts, pools, requests, lost
<1>5. CASE StopJanitor
  BY <1>5 DEF StopJanitor, accounts, pools, requests, lost
<1>6. CASE DeleteExpiredContainer
  <2>1. AvailableMemMB' \in Int /\ AvailableMemMB' >= 0 /\ lostMemMB' \in Nat
    BY <1>6, MemoryIsNat DEF DeleteExpiredContainer, GiveBack
  <2> QED
    BY <1>6, <2>1 DEF DeleteExpiredContainer, RemoveReady, requests
<1>7. CASE ShutdownAllContainers
  <2>1. AvailableMemMB' \in Int /\ AvailableMemMB' >= 0
    BY <1>7, MemoryIsNat DEF ShutdownAllContainers
  <2>2. AvailableCPUs' \in Int /\ AvailableCPUs' >= 0
    <3> DEFINE given == [f \in Functions |-> CPUDemand[f] * Cardinality(busy[f])]
    <3>1. \A f \in Functions : given[f] \in Nat
      BY PoolAssumption, SomeContainers, Products
    <3>2. given \in [Functions -> Nat]
      BY <3>1
    <3>3. AvailableCPUs' = AvailableCPUs + Total(given)
      BY <1>7 DEF ShutdownAllContainers
    <3> HIDE DEF given
    <3>4. Total(given) \in Nat
      BY <3>2, PoolAssumption, TotalIsNat
    <3> QED
      BY <3>3, <3>4
  <2> QED
    BY <1>7, <2>1, <2>2 DEF ShutdownAllContainers, RemoveReady, requests, lost
<1> QED
  BY <1>1, <1>2, <1>3, <1>4, <1>5, <1>6, <1>7

LEMMA NextTyped == Typed /\ [Next]_vars => Typed'
<1> SUFFICES ASSUME Typed, [Next]_vars
             PROVE  Typed'
  OBVIOUS
<1>1. CASE UNCHANGED vars
  BY <1>1 DEF Typed, TypeOK, NeverOvercommitted, Holding, vars, accounts, pools,
              requests, lost
<1>2. CASE Next
  BY <1>2, InvokeTyped, BackgroundTyped DEF Next
<1> QED
  BY <1>1, <1>2

LEMMA InitTyped == Init => Typed
<1> SUFFICES ASSUME Init
             PROVE  Typed
  OBVIOUS
<1>1. TypeOK
  <2>1. AvailableCPUs \in Int /\ AvailableMemMB \in Int
    BY PoolAssumption DEF Init
  <2> QED
    BY <2>1 DEF Init, TypeOK, Phases
<1>2. NeverOvercommitted
  BY PoolAssumption DEF Init, NeverOvercommitted
<1>3. Holding
  BY DEF Init, Holding
<1> QED
  BY <1>1, <1>2, <1>3 DEF Typed

(* The types of the pool, under every interleaving. *)
THEOREM TypeCorrect == Spec => []TypeOK
<1>1. Init => Typed
  BY InitTyped
<1>2. Typed /\ [Next]_vars => Typed'
  BY NextTyped
<1>3. Typed => TypeOK
  BY DEF Typed
<1> QED
  BY <1>1, <1>2, <1>3, PTL DEF Spec

(* acquireResources never hands out CPU or memory the node does not have,   *)
(* whatever the demands of the functions and the capacity of the node.      *)
THEOREM NoOvercommit == Spec => []NeverOvercommitted
<1>1. Init => Typed
  BY InitTyped
<1>2. Typed /\ [Next]_vars => Typed'
  BY NextTyped
<1>3. Typed => NeverOvercommitted
  BY DEF Typed
<1> QED
  BY <1>1, <1>2, <1>3, PTL DEF Spec

-----------------------------------------------------------------------------
(* Who may refer to a container. *)

(* What removing containers from ready lists cannot disturb, when no        *)
(* request starts to hold a container.                                      *)
LEMMA RemovalExclusive ==
    ASSUME Typed, Exclusive, NEW S, RemoveReady(S),
           UNCHANGED <<busy, cont, condemned>>,
           \A r \in Requests : phase'[r] \in {"spawned", "running"} => phase'[r] = phase[r]
    PROVE  Exclusive'
<1>1. \A f \in Functions : ready'[f] \subseteq ready[f]
  BY DEF RemoveReady
<1>2. Warm' \subseteq Warm /\ Busy' = Busy /\ Held' = Held
  BY <1>1 DEF Warm, Busy, Held
<1> QED
  BY <1>1, <1>2 DEF Exclusive

(* The sets of Exclusive, read element by element. *)
LEMMA ExclusivePointwise ==
    ASSUME Exclusive, NEW g \in Functions, NEW h \in Functions, NEW c
    PROVE  /\ ~(c \in ready[g] /\ c \in busy[h])
           /\ g # h => ~(c \in ready[g] /\ c \in ready[h])
           /\ g # h => ~(c \in busy[g] /\ c \in busy[h])
<1>1. ready[g] \cap busy[h] = {}
  BY DEF Exclusive
<1>2. ASSUME g # h
      PROVE  ready[g] \cap ready[h] = {} /\ busy[g] \cap busy[h] = {}
  BY <1>2 DEF Exclusive
<1> QED
  BY <1>1, <1>2

LEMMA InvokeExclusive ==
    ASSUME Typed, Exclusive, NEW r \in Requests, Invoke(r)
    PROVE  Exclusive'
<1> USE DEF Typed, TypeOK, Holding, Phases
<1> DEFINE f == FunOf[r]
<1>0. f \in Functions
  BY DemandsAreNat
<1>1. CASE ReserveFree(r)
  BY <1>1 DEF ReserveFree, Grant, pools, Exclusive, Warm, Busy, Held
<1>2. CASE ReserveDismissing(r)
  <2>1. PICK S : RemoveReady(S)
    BY <1>2 DEF ReserveDismissing, GiveBackItems
  <2> QED
    BY <1>2, <2>1, RemovalExclusive DEF ReserveDismissing, Grant
<1>3. CASE DismissalFails(r)
  <2>1. PICK S : RemoveReady(S)
    BY <1>3 DEF DismissalFails, GiveBackItems
  <2> QED
    BY <1>3, <2>1, RemovalExclusive DEF DismissalFails, requests
<1>4. CASE AcquireWarmContainer(r)
  <2>1. PICK contID \in ready[f] :
          /\ RemoveReady({contID})
          /\ busy' = [busy EXCEPT ![f] = @ \cup {contID}]
          /\ \/ /\ phase' = [phase EXCEPT ![r] = "running"]
                /\ cont' = [cont EXCEPT ![r] = contID]
             \/ UNCHANGED <<phase, cont>>
    BY <1>4 DEF AcquireWarmContainer, requests
  <2>2. contID \in Warm /\ contID \in ContainerIDs /\ contID # NoContainer
    BY <1>0, PoolAssumption DEF Warm
  <2>3. \A s \in Requests : cont[s] # contID
    BY <2>1, <2>2, <1>0, PoolAssumption DEF Exclusive
  <2>4. \A g \in Functions : /\ ready'[g] = ready[g] \ {contID}
                             /\ busy'[g] = IF g = f THEN busy[g] \cup {contID} ELSE busy[g]
    BY <1>0, <2>1 DEF RemoveReady
  <2>5. /\ Warm' \subseteq Warm
        /\ (Warm \cup Busy)' \subseteq (Warm \cup Busy)
        /\ Held' \subseteq Held \cup {contID}
    <3>1. Warm' \subseteq Warm
      <4>1. \A g \in Functions : ready'[g] \subseteq ready[g]
        BY <2>4
      <4> QED
        BY <4>1 DEF Warm
    <3>2. Busy' \subseteq Busy \cup {contID}
      <4>1. \A g \in Functions : busy'[g] \subseteq busy[g] \cup {contID}
        BY <2>4
      <4> QED
        BY <4>1 DEF Busy
    <3>3. Held' \subseteq Held \cup {contID}
      BY <2>1 DEF Held
    <3> QED
      BY <2>2, <3>1, <3>2, <3>3
  <2>6. UNCHANGED condemned
    BY <1>4 DEF AcquireWarmContainer
  <2>13. \A g \in Functions : contID \notin busy[g]
    BY <1>0, <2>1 DEF Exclusive
  <2>14. \A g, h \in Functions :
          /\ ready[g] \cap busy[h] = {}
          /\ g # h => ready[g] \cap ready[h] = {} /\ busy[g] \cap busy[h] = {}
    BY DEF Exclusive
  <2>7. \A g, h \in Functions : ready'[g] \cap busy'[h] = {}
    BY <2>4, <2>14
  <2>8. \A g, h \in Functions :
          g # h => ready'[g] \cap ready'[h] = {} /\ busy'[g] \cap busy'[h] = {}
    <3> HIDE DEF Typed, f
    <3>1. ASSUME NEW g \in Functions, NEW h \in Functions, g # h, NEW x
          PROVE  ~(x \in ready'[g] /\ x \in ready'[h]) /\ ~(x \in busy'[g] /\ x \in busy'[h])
      <4>1. x \in busy'[g] => x \in busy[g] \/ (g = f /\ x = contID)
        BY <2>4
      <4>2. x \in busy'[h] => x \in busy[h] \/ (h = f /\ x = contID)
        BY <2>4
      <4>3. x \in ready'[g] => x \in ready[g]
        BY <2>4
      <4>4. x \in ready'[h] => x \in ready[h]
        BY <2>4
      <4> QED
        BY <4>1, <4>2, <4>3, <4>4, <2>13, <3>1, ExclusivePointwise
    <3> QED
      BY <3>1
  <2>9. \A q, s \in Requests : (q # s /\ cont'[q] = cont'[s]) => cont'[q] = NoContainer
    BY <2>1, <2>3 DEF Exclusive
  <2>10. \A s \in Requests : phase'[s] = "running" => cont'[s] \in busy'[FunOf[s]]
    BY <1>0, <2>1, <2>4, DemandsAreNat DEF Exclusive
  <2>11. \A s \in Requests : phase'[s] = "spawned" => cont'[s] \notin (Warm \cup Busy)'
    BY <2>1, <2>5 DEF Exclusive
  <2>12. condemned' \cap (Warm \cup Busy \cup Held)' = {}
    BY <2>2, <2>5, <2>6 DEF Exclusive
  <2> QED
    BY <2>7, <2>8, <2>9, <2>10, <2>11, <2>12 DEF Exclusive
<1>5. CASE InvalidRuntime(r)
  BY <1>5 DEF InvalidRuntime, pools, Exclusive, Warm, Busy, Held
<1>6. CASE Spawn(r)
  <2>1. PICK contID \in Fresh : cont' = [cont EXCEPT ![r] = contID]
    BY <1>6 DEF Spawn
  <2>2. /\ contID \notin (Warm \cup Busy \cup condemned \cup Held)
        /\ contID \in ContainerIDs /\ contID # NoContainer
    BY PoolAssumption DEF Fresh
  <2>3. UNCHANGED <<ready, busy, condemned>> /\ phase' = [phase EXCEPT ![r] = "spawned"]
    BY <1>6 DEF Spawn, pools
  <2>4. \A s \in Requests : cont[s] # contID
    BY <2>2 DEF Held
  <2>5. Warm' = Warm /\ Busy' = Busy /\ Held' \subseteq Held \cup {contID}
    BY <2>1, <2>3 DEF Warm, Busy, Held
  <2>6. \A q, s \in Requests : (q # s /\ cont'[q] = cont'[s]) => cont'[q] = NoContainer
    BY <2>1, <2>4 DEF Exclusive
  <2> QED
    BY <2>1, <2>2, <2>3, <2>5, <2>6 DEF Exclusive
<1>7. CASE SpawnFails(r)
  BY <1>7 DEF SpawnFails, pools, Exclusive, Warm, Busy, Held
<1>8. CASE InsertNewContainer(r)
  <2>1. /\ UNCHANGED <<ready, cont, condemned>>
        /\ busy' = [busy EXCEPT ![f] = @ \cup {cont[r]}]
        /\ phase[r] = "spawned" /\ phase' = [phase EXCEPT ![r] = "running"]
    BY <1>8 DEF InsertNewContainer, accounts
  <2>2. cont[r] \in Held /\ cont[r] \notin (Warm \cup Busy)
    BY <2>1 DEF Held, Exclusive
  <2>3. \A g \in Functions : busy'[g] = IF g = f THEN busy[g] \cup {cont[r]} ELSE busy[g]
    BY <1>0, <2>1
  <2>4. \A g \in Functions : cont[r] \notin ready[g] /\ cont[r] \notin busy[g]
    BY <2>2 DEF Warm, Busy
  <2>5. Warm' = Warm /\ Held' = Held /\ Busy' \subseteq Busy \cup {cont[r]}
    BY <2>1, <2>3 DEF Warm, Held, Busy
  <2>6. \A g, h \in Functions :
          /\ ready'[g] \cap busy'[h] = {}
          /\ g # h => ready'[g] \cap ready'[h] = {} /\ busy'[g] \cap busy'[h] = {}
    BY <2>1, <2>3, <2>4 DEF Exclusive
  <2>7. \A s \in Requests : phase'[s] = "running" => cont'[s] \in busy'[FunOf[s]]
    BY <1>0, <2>1, <2>3, DemandsAreNat DEF Exclusive
  <2>8. \A s \in Requests : phase'[s] = "spawned" => cont'[s] \notin (Warm \cup Busy)'
    BY <2>1, <2>2, <2>5 DEF Exclusive
  <2> QED
    BY <2>1, <2>2, <2>5, <2>6, <2>7, <2>8 DEF Exclusive
<1>9. CASE ReleaseAfterFailure(r)
  BY <1>9 DEF ReleaseAfterFailure, pools, Exclusive, Warm, Busy, Held
<1>10. CASE ReleaseContainer(r)
  <2>1. /\ UNCHANGED condemned
        /\ busy' = [busy EXCEPT ![f] = @ \ {cont[r]}]
        /\ ready' = [ready EXCEPT ![f] = @ \cup {cont[r]}]
        /\ phase[r] = "running" /\ phase' = [phase EXCEPT ![r] = "idle"]
        /\ cont' = [cont EXCEPT ![r] = NoContainer]
    BY <1>10 DEF ReleaseContainer
  <2>2. cont[r] \in busy[f] /\ cont[r] \in Busy
    BY <1>0, <2>1 DEF Exclusive, Busy
  <2>3. \A g \in Functions :
          /\ busy'[g] = IF g = f THEN busy[g] \ {cont[r]} ELSE busy[g]
          /\ ready'[g] = IF g = f THEN ready[g] \cup {cont[r]} ELSE ready[g]
    BY <1>0, <2>1
  <2>4. (Warm \cup Busy)' \subseteq Warm \cup Busy /\ Held' \subseteq Held
    BY <2>1, <2>2, <2>3 DEF Warm, Busy, Held
  <2>5. \A g, h \in Functions :
          /\ ready'[g] \cap busy'[h] = {}
          /\ g # h => ready'[g] \cap ready'[h] = {} /\ busy'[g] \cap busy'[h] = {}
    <3>1. \A g, h \in Functions :
            /\ ready[g] \cap busy[h] = {}
            /\ g # h => ready[g] \cap ready[h] = {} /\ busy[g] \cap busy[h] = {}
      BY DEF Exclusive
    <3>2. \A g \in Functions : cont[r] \notin ready[g] /\ (g # f => cont[r] \notin busy[g])
      BY <1>0, <2>2, <3>1
    <3> HIDE DEF Typed, f
    <3>3. ASSUME NEW g \in Functions, NEW h \in Functions, NEW x
          PROVE  /\ ~(x \in ready'[g] /\ x \in busy'[h])
                 /\ g # h => ~(x \in ready'[g] /\ x \in ready'[h])
                 /\ g # h => ~(x \in busy'[g] /\ x \in busy'[h])
      <4>1. x \in ready'[g] => x \in ready[g] \/ (g = f /\ x = cont[r])
        BY <2>3
      <4>2. x \in ready'[h] => x \in ready[h] \/ (h = f /\ x = cont[r])
        BY <2>3
      <4>3. x \in busy'[g] => x \in busy[g] /\ ~(g = f /\ x = cont[r])
        BY <2>3
      <4>4. x \in busy'[h] => x \in busy[h] /\ ~(h = f /\ x = cont[r])
        BY <2>3
      <4> QED
        BY <4>1, <4>2, <4>3, <4>4, <3>2, ExclusivePointwise
    <3> QED
      BY <3>3
  <2>6. \A q, s \in Requests : (q # s /\ cont'[q] = cont'[s]) => cont'[q] = NoContainer
    BY <2>1 DEF Exclusive
  <2>7. \A s \in Requests : phase'[s] = "running" => cont'[s] \in busy'[FunOf[s]]
    BY <1>0, <2>1, <2>3, DemandsAreNat DEF Exclusive
  <2>8. \A s \in Requests : phase'[s] = "spawned" => cont'[s] \notin (Warm \cup Busy)'
    BY <2>1, <2>4 DEF Exclusive
  <2> QED
    BY <2>1, <2>4, <2>5, <2>6, <2>7, <2>8 DEF Exclusive
<1> QED
  BY <1>1, <1>2, <1>3, <1>4, <1>5, <1>6, <1>7, <1>8, <1>9, <1>10 DEF Invoke

(* Sweeps and shutdowns only remove containers from the lists, and condemn  *)
(* only containers they have removed.                                       *)
LEMMA BackgroundExclusive ==
    ASSUME Typed, Exclusive,
           \/ \E c \in ContainerIDs : Expire(c) \/ DestroyCondemned(c)
           \/ \E f \in Functions : ShutdownWarmContainersFor(f)
           \/ StartJanitor \/ StopJanitor \/ DeleteExpiredContainer
           \/ ShutdownAllContainers
    PROVE  Exclusive'
<1>1. ASSUME NEW c \in ContainerIDs, Expire(c)
      PROVE  Exclusive'
  BY <1>1 DEF Expire, requests, Exclusive, Warm, Busy, Held
<1>2. ASSUME NEW c \in ContainerIDs, DestroyCondemned(c)
      PROVE  Exclusive'
  BY <1>2 DEF DestroyCondemned, pools, requests, Exclusive, Warm, Busy, Held
<1>3. ASSUME NEW f \in Functions, ShutdownWarmContainersFor(f)
      PROVE  Exclusive'
  <2>1. /\ UNCHANGED <<busy, cont, phase>>
        /\ condemned' = condemned \cup ready[f]
        /\ ready' = [g \in Functions |-> ready[g] \ ready[f]]
    BY <1>3 DEF ShutdownWarmContainersFor, RemoveReady, requests
  <2>2. \A g \in Functions : ready'[g] \subseteq ready[g] /\ ready'[g] \cap ready[f] = {}
    BY <2>1
  <2>3. Warm' \subseteq Warm /\ Busy' = Busy /\ Held' = Held
    BY <2>1, <2>2 DEF Warm, Busy, Held
  <2>4. ready[f] \cap (Warm' \cup Busy') = {}
    <3>1. ASSUME NEW c \in ready[f]
          PROVE  c \notin Warm' /\ c \notin Busy'
      BY <2>2, <2>3, <3>1, ExclusivePointwise DEF Warm, Busy
    <3> QED
      BY <3>1
  <2>5. ready[f] \cap Held' = {}
    <3>1. ASSUME NEW s \in Requests, cont[s] \in ready[f]
          PROVE  FALSE
      <4>1. cont[s] # NoContainer /\ cont[s] \in Warm
        BY <3>1, PoolAssumption DEF Typed, TypeOK, Warm
      <4>2. phase[s] = "running"
        BY <4>1 DEF Typed, Holding, Exclusive
      <4>3. cont[s] \in busy[FunOf[s]] /\ FunOf[s] \in Functions
        BY <4>2, DemandsAreNat DEF Exclusive
      <4> QED
        BY <3>1, <4>3, ExclusivePointwise
    <3> QED
      BY <2>3, <3>1 DEF Held
  <2>6. condemned' \cap (Warm' \cup Busy' \cup Held') = {}
    BY <2>1, <2>3, <2>4, <2>5 DEF Exclusive
  <2> QED
    BY <2>1, <2>2, <2>3, <2>6 DEF Exclusive
<1>4. CASE StartJanitor \/ StopJanitor
  BY <1>4 DEF StartJanitor, StopJanitor, pools, requests, Exclusive, Warm, Busy, Held
<1>5. CASE DeleteExpiredContainer
  BY <1>5, RemovalExclusive DEF DeleteExpiredContainer, requests
<1>6. CASE ShutdownAllContainers
  BY <1>6, RemovalExclusive DEF ShutdownAllContainers, requests
<1> QED
  BY <1>1, <1>2, <1>3, <1>4, <1>5, <1>6

LEMMA NextExclusive == Typed /\ Exclusive /\ [Next]_vars => Exclusive'
<1> SUFFICES ASSUME Typed, Exclusive, [Next]_vars
             PROVE  Exclusive'
  OBVIOUS
<1>1. CASE UNCHANGED vars
  BY <1>1 DEF Exclusive, Warm, Busy, Held, vars, pools, requests
<1>2. CASE Next
  BY <1>2, InvokeExclusive, BackgroundExclusive DEF Next
<1> QED
  BY <1>1, <1>2

LEMMA InitExclusive == Init => Exclusive
  BY DEF Init, Exclusive, Warm, Busy, Held

(* A container is in one place and serves one request at a time.  Exclusive *)
(* is inductive together with Typed: what makes it so is that a container   *)
(* is held exactly between its creation or acquisition and its release      *)
(* (Holding), so that a warm container is never held.                       *)
THEOREM ContainersAreExclusive == Spec => []Exclusive
<1>1. Init => Typed /\ Exclusive
  BY InitTyped, InitExclusive
<1>2. (Typed /\ Exclusive) /\ [Next]_vars => (Typed /\ Exclusive)'
  BY NextTyped, NextExclusive
<1> QED
  BY <1>1, <1>2, PTL DEF Spec

-----------------------------------------------------------------------------
(* Which containers exist. *)

(* Containers that leave the ready lists may be destroyed: nothing else     *)
(* refers to them.                                                          *)
LEMMA RemovalUsable ==
    ASSUME Typed, Exclusive, Usable, NEW S, S \subseteq Warm, RemoveReady(S),
           alive \ S \subseteq alive', UNCHANGED <<busy, cont, terminated>>
    PROVE  Usable'
<1>1. Busy' = Busy /\ Held' = Held
  BY DEF Busy, Held
<1>2. Warm' \subseteq Warm \ S
  BY DEF Warm, RemoveReady
<1>3. S \cap Busy = {}
  <2>1. ASSUME NEW c \in S, c \in Busy
        PROVE  FALSE
    BY <2>1, ExclusivePointwise DEF Warm, Busy
  <2> QED
    BY <2>1
<1>4. S \cap Held = {}
  <2>1. ASSUME NEW s \in Requests, cont[s] # NoContainer
        PROVE  cont[s] \notin Warm
    <3>1. phase[s] = "spawned" \/ phase[s] = "running"
      BY <2>1 DEF Typed, Holding
    <3>2. CASE phase[s] = "running"
      BY <3>2, DemandsAreNat, ExclusivePointwise DEF Exclusive, Warm
    <3> QED
      BY <3>1, <3>2 DEF Exclusive
  <2> QED
    BY <2>1 DEF Held
<1> QED
  BY <1>1, <1>2, <1>3, <1>4 DEF Usable

LEMMA NextUsable == Typed /\ Exclusive /\ Usable /\ [Next]_vars => Usable'
<1> SUFFICES ASSUME Typed, Exclusive, Usable, [Next]_vars
             PROVE  Usable'
  OBVIOUS
<1> USE DEF requests, pools
<1>1. ASSUME NEW r \in Requests, Invoke(r)
      PROVE  Usable'
  <2> DEFINE f == FunOf[r]
  <2>0. f \in Functions
    BY DemandsAreNat
  <2>1. CASE ReserveFree(r) \/ InvalidRuntime(r) \/ ReleaseAfterFailure(r)
    BY <2>1 DEF ReserveFree, InvalidRuntime, ReleaseAfterFailure, Usable, Warm, Busy, Held
  <2>2. CASE ReserveDismissing(r)
    <3>1. PICK S \in SUBSET Warm : RemoveReady(S) /\ \E F \in SUBSET S : alive' = alive \ F
      BY <2>2 DEF ReserveDismissing, GiveBackItems
    <3> QED
      BY <2>2, <3>1, RemovalUsable DEF ReserveDismissing
  <2>3. CASE DismissalFails(r)
    <3>1. PICK S \in SUBSET Warm : \E F, done \in SUBSET S, x \in S :
            RemoveReady(done \cup {x}) /\ alive' = alive \ (F \cap done)
      BY <2>3 DEF DismissalFails, GiveBackItems
    <3>2. PICK F \in SUBSET S, done \in SUBSET S, x \in S :
            RemoveReady(done \cup {x}) /\ alive' = alive \ (F \cap done)
      BY <3>1
    <3> QED
      BY <2>3, <3>2, RemovalUsable DEF DismissalFails
  <2>4. CASE AcquireWarmContainer(r)
    <3>1. PICK contID \in ready[f] :
            /\ RemoveReady({contID})
            /\ busy' = [busy EXCEPT ![f] = @ \cup {contID}]
            /\ cont' = [cont EXCEPT ![r] = contID] \/ UNCHANGED cont
      BY <2>4 DEF AcquireWarmContainer
    <3>2. contID \in Warm
      BY <2>0 DEF Warm
    <3>3. \A g \in Functions : ready'[g] \subseteq ready[g]
      BY <3>1 DEF RemoveReady
    <3>4. \A g \in Functions : busy'[g] \subseteq busy[g] \cup {contID}
      BY <3>1 DEF Typed, TypeOK
    <3>5. Warm' \subseteq Warm
      BY <3>3 DEF Warm
    <3>6. Busy' \subseteq Busy \cup {contID}
      BY <3>4 DEF Busy
    <3>7. Held' \subseteq Held \cup {contID}
      BY <3>1 DEF Held, Typed, TypeOK
    <3> QED
      BY <2>4, <3>2, <3>5, <3>6, <3>7 DEF AcquireWarmContainer, Usable
  <2>5. CASE Spawn(r)
    <3>1. PICK contID \in Fresh : /\ alive' = alive \cup {contID}
                                  /\ cont' = [cont EXCEPT ![r] = contID]
      BY <2>5 DEF Spawn
    <3>2. Warm' = Warm /\ Busy' = Busy /\ terminated' = terminated
      BY <2>5 DEF Spawn, Warm, Busy
    <3>3. Held' \subseteq Held \cup {contID}
      BY <3>1 DEF Held, Typed, TypeOK
    <3> QED
      BY <3>1, <3>2, <3>3 DEF Usable
  <2>6. CASE SpawnFails(r)
    <3>1. alive \subseteq alive'
      BY <2>6 DEF SpawnFails
    <3> QED
      BY <2>6, <3>1 DEF SpawnFails, Usable, Warm, Busy, Held
  <2>7. CASE InsertNewContainer(r)
    <3>1. /\ UNCHANGED <<ready, cont, alive, terminated>>
          /\ busy' = [busy EXCEPT ![f] = @ \cup {cont[r]}]
          /\ phase[r] = "spawned"
      BY <2>7 DEF InsertNewContainer
    <3>2. cont[r] \in Held
      BY <3>1 DEF Typed, Holding, Held
    <3>3. \A g \in Functions : busy'[g] \subseteq busy[g] \cup {cont[r]}
      BY <3>1 DEF Typed, TypeOK
    <3>4. Warm' = Warm /\ Held' = Held /\ Busy' \subseteq Busy \cup {cont[r]}
      BY <3>1, <3>3 DEF Warm, Held, Busy
    <3> QED
      BY <3>1, <3>2, <3>4 DEF Usable
  <2>8. CASE ReleaseContainer(r)
    <3>1. /\ UNCHANGED <<alive, terminated>>
          /\ busy' = [busy EXCEPT ![f] = @ \ {cont[r]}]
          /\ ready' = [ready EXCEPT ![f] = @ \cup {cont[r]}]
          /\ cont' = [cont EXCEPT ![r] = NoContainer]
          /\ phase[r] = "running"
      BY <2>8 DEF ReleaseContainer
    <3>2. cont[r] \in Held
      BY <3>1 DEF Typed, Holding, Held
    <3>3. \A g \in Functions : /\ busy'[g] \subseteq busy[g]
                               /\ ready'[g] \subseteq ready[g] \cup {cont[r]}
      BY <3>1 DEF Typed, TypeOK
    <3>4. Busy' \subseteq Busy
      BY <3>3 DEF Busy
    <3>5. Warm' \subseteq Warm \cup {cont[r]}
      BY <3>3 DEF Warm
    <3>6. Held' \subseteq Held
      BY <3>1 DEF Held, Typed, TypeOK
    <3> QED
      BY <3>1, <3>2, <3>4, <3>5, <3>6 DEF Usable
  <2> QED
    BY <1>1, <2>1, <2>2, <2>3, <2>4, <2>5, <2>6, <2>7, <2>8 DEF Invoke
<1>2. ASSUME NEW c \in ContainerIDs, Expire(c)
      PROVE  Usable'
  BY <1>2 DEF Expire, Usable, Warm, Busy, Held
<1>3. ASSUME NEW c \in ContainerIDs, DestroyCondemned(c)
      PROVE  Usable'
  <2>1. alive \ {c} \subseteq alive' /\ c \notin (Warm \cup Busy \cup Held)
    BY <1>3 DEF DestroyCondemned, Exclusive
  <2> QED
    BY <1>3, <2>1 DEF DestroyCondemned, Usable, Warm, Busy, Held
<1>4. ASSUME NEW g \in Functions, ShutdownWarmContainersFor(g)
      PROVE  Usable'
  <2>1. ready[g] \subseteq Warm
    BY DEF Warm
  <2> QED
    BY <1>4, <2>1, RemovalUsable DEF ShutdownWarmContainersFor
<1>5. CASE StartJanitor \/ StopJanitor
  BY <1>5 DEF StartJanitor, StopJanitor, Usable, Warm, Busy, Held
<1>6. CASE DeleteExpiredContainer
  <2>1. PICK survivors : alive' = alive \ ((expired \cap Warm) \ survivors)
    BY <1>6 DEF DeleteExpiredContainer
  <2> QED
    BY <1>6, <2>1, RemovalUsable DEF DeleteExpiredContainer
<1>7. CASE ShutdownAllContainers
  BY <1>7 DEF ShutdownAllContainers, Usable
<1>8. CASE UNCHANGED vars
  BY <1>8 DEF Usable, Warm, Busy, Held, vars
<1> QED
  BY <1>1, <1>2, <1>3, <1>4, <1>5, <1>6, <1>7, <1>8 DEF Next

(* Until the pool is shut down nothing destroys a container that is in a    *)
(* list or that a request holds: a warm container handed out exists.        *)
THEOREM PooledContainersExist == Spec => []Usable
<1> DEFINE Inv == Typed /\ Exclusive /\ Usable
<1>1. Init => Inv
  <2>1. Init => Usable
    BY DEF Init, Usable, Warm, Busy, Held
  <2> QED
    BY <2>1, InitTyped, InitExclusive
<1>2. Inv /\ [Next]_vars => Inv'
  BY NextTyped, NextExclusive, NextUsable
<1>3. Inv => Usable
  OBVIOUS
<1> QED
  BY <1>1, <1>2, <1>3, PTL DEF Spec
-----------------------------------------------------------------------------
(* Nothing reserved is lost from sight: the CPU. *)

(* Infinitely many goroutines may exist over time; only finitely many serve *)
(* a request at once, so that what they reserve has a total.                *)
FinitelyActive == IsFiniteSet(Active)

(* How a total over requests changes when one request enters or leaves.     *)
LEMMA MembershipTotals ==
    ASSUME NEW D, NEW E, IsFiniteSet(D), D \subseteq Requests, E \subseteq Requests,
           NEW r \in Requests, D \ {r} = E \ {r}, NEW a \in [Requests -> Nat],
           NEW g, g = [q \in D |-> a[q]], NEW h, h = [q \in E |-> a[q]]
    PROVE  /\ IsFiniteSet(E) /\ Total(g) \in Nat /\ Total(h) \in Nat
           /\ Total(g) + (IF r \in E THEN a[r] ELSE 0) = Total(h) + (IF r \in D THEN a[r] ELSE 0)
<1> DEFINE B == D \ {r}
           F == D \cup {r}
           without == [q \in B |-> a[q]]
           with == [q \in F |-> a[q]]
<1>1. IsFiniteSet(B) /\ IsFiniteSet(F) /\ F \subseteq Requests /\ r \in F /\ B = F \ {r}
  BY FS_RemoveElement, FS_AddElement
<1>2. /\ D = IF r \in D THEN F ELSE B
      /\ E = IF r \in E THEN F ELSE B
  OBVIOUS
<1>3. /\ g = IF r \in D THEN with ELSE without
      /\ h = IF r \in E THEN with ELSE without
  BY <1>2
<1>4. Total(without) \in Nat /\ Total(with) = Total(without) + a[r] /\ a[r] \in Nat
  <2> HIDE DEF B, F
  <2> QED
    BY <1>1, TotalOfRestriction
<1>5. IsFiniteSet(E)
  BY <1>1, <1>2
<1> HIDE DEF B, F, with, without
<1>6. CASE r \in D /\ r \in E
  BY <1>3, <1>4, <1>5, <1>6
<1>7. CASE r \in D /\ r \notin E
  BY <1>3, <1>4, <1>5, <1>7
<1>8. CASE r \notin D /\ r \in E
  BY <1>3, <1>4, <1>5, <1>8
<1>9. CASE r \notin D /\ r \notin E
  BY <1>3, <1>4, <1>5, <1>9
<1> QED
  BY <1>6, <1>7, <1>8, <1>9

(* The demands of the requests as functions. *)
LEMMA RequestDemands ==
    /\ [q \in Requests |-> CPU(q)] \in [Requests -> Nat]
    /\ [q \in Requests |-> Mem(q)] \in [Requests -> Nat]
  BY DemandsAreNat

(* A step that changes the phase of one request only. *)
LEMMA PhaseTotals ==
    ASSUME FinitelyActive, NEW r \in Requests,
           \A q \in Requests \ {r} : phase'[q] = phase[q]
    PROVE  /\ FinitelyActive'
           /\ ReservedCPUs \in Nat /\ ReservedCPUs' \in Nat
           /\ ReservedCPUs + (IF r \in Active' THEN CPU(r) ELSE 0)
                = ReservedCPUs' + (IF r \in Active THEN CPU(r) ELSE 0)
           /\ ReservedMB \in Nat /\ ReservedMB' \in Nat
           /\ ReservedMB + (IF r \in Creating' THEN Mem(r) ELSE 0)
                = ReservedMB' + (IF r \in Creating THEN Mem(r) ELSE 0)
<1> DEFINE a == [q \in Requests |-> CPU(q)]
           b == [q \in Requests |-> Mem(q)]
           A == Active
           C == Creating
<1>1. /\ A \subseteq Requests /\ A' \subseteq Requests
      /\ A \ {r} = A' \ {r} /\ IsFiniteSet(A)
  BY DEF Active, FinitelyActive
<1>2. /\ C \subseteq Requests /\ C' \subseteq Requests
      /\ C \ {r} = C' \ {r} /\ IsFiniteSet(C)
  <2>1. C \in SUBSET A
    BY DEF Creating, Active
  <2> QED
    BY <1>1, <2>1, FS_Subset DEF Creating
<1>3. /\ [q \in A |-> CPU(q)] = [q \in A |-> a[q]]
      /\ [q \in A' |-> CPU(q)] = [q \in A' |-> a[q]]
      /\ [q \in C |-> Mem(q)] = [q \in C |-> b[q]]
      /\ [q \in C' |-> Mem(q)] = [q \in C' |-> b[q]]
      /\ a[r] = CPU(r) /\ b[r] = Mem(r)
  BY <1>1, <1>2
<1>4. a \in [Requests -> Nat] /\ b \in [Requests -> Nat]
  BY RequestDemands
<1>5. /\ IsFiniteSet(A') /\ ReservedCPUs \in Nat /\ ReservedCPUs' \in Nat
      /\ ReservedCPUs + (IF r \in A' THEN a[r] ELSE 0)
           = ReservedCPUs' + (IF r \in A THEN a[r] ELSE 0)
  <2>1. PICK g, h : /\ g = [q \in A |-> a[q]] /\ h = [q \in A' |-> a[q]]
                    /\ ReservedCPUs = Total(g) /\ ReservedCPUs' = Total(h)
    BY <1>3 DEF ReservedCPUs
  <2> HIDE DEF a, A
  <2> QED
    BY <1>1, <1>4, <2>1, MembershipTotals
<1>6. /\ ReservedMB \in Nat /\ ReservedMB' \in Nat
      /\ ReservedMB + (IF r \in C' THEN b[r] ELSE 0)
           = ReservedMB' + (IF r \in C THEN b[r] ELSE 0)
  <2>1. PICK g, h : /\ g = [q \in C |-> b[q]] /\ h = [q \in C' |-> b[q]]
                    /\ ReservedMB = Total(g) /\ ReservedMB' = Total(h)
    BY <1>3 DEF ReservedMB
  <2> HIDE DEF b, C
  <2> QED
    BY <1>2, <1>4, <2>1, MembershipTotals
<1> HIDE DEF a, b
<1> QED
  BY <1>3, <1>5, <1>6 DEF FinitelyActive
(* A step of a request changes no phase but its own, and the other steps    *)
(* change none.                                                             *)
LEMMA InvokePhase ==
    ASSUME TypeOK, NEW r \in Requests, Invoke(r)
    PROVE  \A q \in Requests \ {r} : phase'[q] = phase[q]
  BY DEF TypeOK, Invoke, requests, ReserveFree, ReserveDismissing, Grant, DismissalFails,
         AcquireWarmContainer, InvalidRuntime, Spawn, SpawnFails, InsertNewContainer,
         ReleaseAfterFailure, ReleaseContainer

LEMMA PhaseKept ==
    ASSUME [Next]_vars, \A r \in Requests : ~Invoke(r)
    PROVE  UNCHANGED phase
  BY DEF Next, vars, requests, Expire, DestroyCondemned, ShutdownWarmContainersFor,
         StartJanitor, StopJanitor, DeleteExpiredContainer, ShutdownAllContainers

LEMMA NextFinitelyActive == Typed /\ FinitelyActive /\ [Next]_vars => FinitelyActive'
<1> SUFFICES ASSUME Typed, FinitelyActive, [Next]_vars
             PROVE  FinitelyActive'
  OBVIOUS
<1>1. ASSUME NEW r \in Requests, Invoke(r)
      PROVE  FinitelyActive'
  BY <1>1, InvokePhase, PhaseTotals DEF Typed
<1>2. CASE UNCHANGED phase
  BY <1>2 DEF FinitelyActive, Active
<1> QED
  BY <1>1, <1>2, PhaseKept DEF Next, vars, requests

(* What a step of a request does to the CPU. *)
LEMMA InvokeCPU ==
    ASSUME Typed, NEW r \in Requests, Invoke(r)
    PROVE  /\ UNCHANGED terminated
           /\ \/ /\ phase[r] = "idle" /\ phase'[r] # "idle"
                 /\ AvailableCPUs' = AvailableCPUs - CPU(r) /\ UNCHANGED lostCPUs
              \/ /\ phase[r] # "idle" /\ phase'[r] = "idle"
                 /\ AvailableCPUs' + lostCPUs' = AvailableCPUs + lostCPUs + CPU(r)
              \/ /\ phase[r] = "idle" <=> phase'[r] = "idle"
                 /\ UNCHANGED <<AvailableCPUs, lostCPUs>>
<1>0. /\ CPU(r) \in Nat /\ AvailableCPUs \in Int /\ lostCPUs \in Nat
      /\ phase \in [Requests -> Phases]
  BY DemandsAreNat DEF Typed, TypeOK
<1>1. CASE ReserveFree(r)
  BY <1>0, <1>1 DEF ReserveFree, Grant, lost
<1>2. CASE ReserveDismissing(r)
  BY <1>0, <1>2 DEF ReserveDismissing, NeedsDismissal, Grant
<1>3. CASE DismissalFails(r)
  BY <1>0, <1>3 DEF DismissalFails, requests
<1>4. CASE AcquireWarmContainer(r)
  BY <1>0, <1>4 DEF AcquireWarmContainer, requests, lost
<1>5. CASE InvalidRuntime(r)
  BY <1>0, <1>5 DEF InvalidRuntime, accounts
<1>6. CASE Spawn(r)
  BY <1>0, <1>6 DEF Spawn, accounts, lost
<1>7. CASE SpawnFails(r)
  BY <1>0, <1>7 DEF SpawnFails, accounts, lost
<1>8. CASE InsertNewContainer(r)
  BY <1>0, <1>8 DEF InsertNewContainer, accounts, lost
<1>9. CASE ReleaseAfterFailure(r)
  BY <1>0, <1>9 DEF ReleaseAfterFailure, lost
<1>10. CASE ReleaseContainer(r)
  BY <1>0, <1>10 DEF ReleaseContainer, lost
<1> QED
  BY <1>1, <1>2, <1>3, <1>4, <1>5, <1>6, <1>7, <1>8, <1>9, <1>10 DEF Invoke

LEMMA NextCPUConserved == Typed /\ FinitelyActive /\ CPUConserved /\ [Next]_vars => CPUConserved'
<1> SUFFICES ASSUME Typed, FinitelyActive, CPUConserved, [Next]_vars
             PROVE  CPUConserved'
  OBVIOUS
<1> USE DEF CPUConserved
<1>1. ASSUME NEW r \in Requests, Invoke(r)
      PROVE  CPUConserved'
  <2>0. /\ CPU(r) \in Nat /\ AvailableCPUs \in Int /\ lostCPUs \in Nat /\ MaxCPUs \in Nat
        /\ phase \in [Requests -> Phases]
    BY DemandsAreNat, PoolAssumption DEF Typed, TypeOK
  <2>1. /\ ReservedCPUs \in Nat /\ ReservedCPUs' \in Nat
        /\ ReservedCPUs + (IF phase'[r] # "idle" THEN CPU(r) ELSE 0)
             = ReservedCPUs' + (IF phase[r] # "idle" THEN CPU(r) ELSE 0)
    BY <1>1, InvokePhase, PhaseTotals DEF Typed, Active
  <2>2. /\ AvailableCPUs' \in Int /\ lostCPUs' \in Nat
        /\ ReservedCPUs \in Nat /\ ReservedCPUs' \in Nat
    BY <1>1, <2>1, InvokeTyped DEF Typed, TypeOK
  <2>3. AvailableCPUs' + ReservedCPUs' + lostCPUs' = AvailableCPUs + ReservedCPUs + lostCPUs
    <3>1. CASE /\ phase[r] = "idle" /\ phase'[r] # "idle"
               /\ AvailableCPUs' = AvailableCPUs - CPU(r) /\ UNCHANGED lostCPUs
      <4>1. ReservedCPUs' = ReservedCPUs + CPU(r)
        BY <2>0, <2>1, <3>1
      <4> QED
        BY <2>0, <2>2, <3>1, <4>1
    <3>2. CASE /\ phase[r] # "idle" /\ phase'[r] = "idle"
               /\ AvailableCPUs' + lostCPUs' = AvailableCPUs + lostCPUs + CPU(r)
      <4>1. ReservedCPUs = ReservedCPUs' + CPU(r)
        BY <2>0, <2>1, <3>2
      <4> QED
        BY <2>0, <2>2, <3>2, <4>1
    <3>3. CASE /\ phase[r] = "idle" <=> phase'[r] = "idle"
               /\ UNCHANGED <<AvailableCPUs, lostCPUs>>
      <4>1. ReservedCPUs' = ReservedCPUs
        BY <2>0, <2>1, <2>2, <3>3
      <4> QED
        BY <3>3, <4>1
    <3> QED
      BY <1>1, <3>1, <3>2, <3>3, InvokeCPU
  <2> QED
    BY <1>1, <2>3, InvokeCPU
<1>2. CASE UNCHANGED <<AvailableCPUs, lostCPUs, phase, terminated>>
  BY <1>2 DEF ReservedCPUs, Active
<1>3. ASSUME NEW c \in ContainerIDs, Expire(c) \/ DestroyCondemned(c)
      PROVE  CPUConserved'
  BY <1>2, <1>3 DEF Expire, DestroyCondemned, accounts, requests, lost
<1>4. ASSUME NEW f \in Functions, ShutdownWarmContainersFor(f)
      PROVE  CPUConserved'
  BY <1>2, <1>4 DEF ShutdownWarmContainersFor, requests
<1>5. CASE StartJanitor \/ StopJanitor \/ DeleteExpiredContainer
  BY <1>2, <1>5 DEF StartJanitor, StopJanitor, DeleteExpiredContainer, accounts, requests, lost
<1>6. CASE ShutdownAllContainers
  BY <1>6 DEF ShutdownAllContainers
<1>7. CASE UNCHANGED vars
  BY <1>2, <1>7 DEF vars, accounts, requests, lost
<1> QED
  BY <1>1, <1>3, <1>4, <1>5, <1>6, <1>7 DEF Next

(* Nobody holds or reserves anything at the start. *)
LEMMA InitReserved == Init => FinitelyActive /\ ReservedCPUs = 0 /\ ReservedMB = 0
<1> SUFFICES ASSUME Init
             PROVE  FinitelyActive /\ ReservedCPUs = 0 /\ ReservedMB = 0
  OBVIOUS
<1>1. Active = {} /\ Creating = {}
  BY DEF Init, Active, Creating
<1>2. [q \in {} |-> CPU(q)] \in [{} -> Nat] /\ [q \in {} |-> Mem(q)] \in [{} -> Nat]
  OBVIOUS
<1>3. Total([q \in {} |-> CPU(q)]) = 0 /\ Total([q \in {} |-> Mem(q)]) = 0
  BY <1>2, TotalOfZero
<1> QED
  BY <1>1, <1>3, FS_EmptySet DEF FinitelyActive, ReservedCPUs, ReservedMB

(* Every unit of CPU is available, reserved by one of the requests being    *)
(* served or lost by an unknown runtime, as long as the pool is not shut    *)
(* down: nothing is released twice and no error path forgets to release.    *)
THEOREM CPUIsConserved == Spec => []CPUConserved
<1> DEFINE Inv == Typed /\ FinitelyActive /\ CPUConserved
<1>1. Init => Inv
  <2>1. Init => CPUConserved
    BY InitReserved, PoolAssumption DEF Init, CPUConserved
  <2> QED
    BY <2>1, InitTyped, InitReserved
<1>2. Inv /\ [Next]_vars => Inv'
  BY NextTyped, NextFinitelyActive, NextCPUConserved
<1>3. Inv => CPUConserved
  OBVIOUS
<1> QED
  BY <1>1, <1>2, <1>3, PTL DEF Spec
-----------------------------------------------------------------------------
(* Nothing reserved is lost from sight: the memory. *)

(* The memory of all the containers of a pool, existing or not. *)
PoolMB(pool) == Total([f \in Functions |-> MemoryMB[f] * Cardinality(pool[f])])

Taken(S, pool) == [f \in Functions |-> S \cap pool[f]]

LEMMA PoolAmounts ==
    ASSUME NEW pool \in [Functions -> SUBSET ContainerIDs]
    PROVE  /\ [f \in Functions |-> MemoryMB[f] * Cardinality(pool[f])] \in [Functions -> Nat]
           /\ PoolMB(pool) \in Nat
<1> DEFINE amount == [f \in Functions |-> MemoryMB[f] * Cardinality(pool[f])]
<1>1. \A f \in Functions : MemoryMB[f] * Cardinality(pool[f]) \in Nat
  BY PoolAssumption, SomeContainers, Products
<1>2. amount \in [Functions -> Nat]
  BY <1>1
<1> HIDE DEF amount
<1>3. Total(amount) \in Nat
  BY <1>2, PoolAssumption, TotalIsNat
<1> QED
  BY <1>2, <1>3 DEF PoolMB, amount

(* Two disjoint parts of a pool take together what the pool takes. *)
LEMMA PoolSplits ==
    ASSUME NEW pool \in [Functions -> SUBSET ContainerIDs],
           NEW p \in [Functions -> SUBSET ContainerIDs],
           NEW q \in [Functions -> SUBSET ContainerIDs],
           \A f \in Functions : pool[f] = p[f] \cup q[f] /\ p[f] \cap q[f] = {}
    PROVE  PoolMB(pool) = PoolMB(p) + PoolMB(q)
<1> DEFINE whole == [f \in Functions |-> MemoryMB[f] * Cardinality(pool[f])]
           left  == [f \in Functions |-> MemoryMB[f] * Cardinality(p[f])]
           right == [f \in Functions |-> MemoryMB[f] * Cardinality(q[f])]
<1>1. /\ whole \in [Functions -> Nat] /\ left \in [Functions -> Nat]
      /\ right \in [Functions -> Nat]
  BY PoolAmounts
<1>2. ASSUME NEW f \in Functions
      PROVE  whole[f] = left[f] + right[f]
  <2>1. /\ IsFiniteSet(p[f]) /\ Cardinality(p[f]) \in Nat
        /\ IsFiniteSet(q[f]) /\ Cardinality(q[f]) \in Nat
    BY SomeContainers
  <2>2. Cardinality(pool[f]) = Cardinality(p[f]) + Cardinality(q[f])
    <3>1. Cardinality(p[f] \cup q[f])
            = Cardinality(p[f]) + Cardinality(q[f]) - Cardinality(p[f] \cap q[f])
      BY <2>1, FS_Union
    <3>2. pool[f] = p[f] \cup q[f] /\ Cardinality(p[f] \cap q[f]) = 0
      BY FS_EmptySet
    <3> QED
      BY <2>1, <3>1, <3>2
  <2>3. MemoryMB[f] \in Nat
    BY PoolAssumption
  <2>4. MemoryMB[f] * (Cardinality(p[f]) + Cardinality(q[f]))
          = MemoryMB[f] * Cardinality(p[f]) + MemoryMB[f] * Cardinality(q[f])
    BY <2>1, <2>3, Products
  <2> QED
    BY <2>2, <2>4
<1>3. Total(whole) = Total(left) + Total(right)
  <2> HIDE DEF whole, left, right
  <2> QED
    BY <1>1, <1>2, PoolAssumption, TotalAdds
<1> QED
  BY <1>3 DEF PoolMB

(* A container more in one pool takes the memory of its function. *)
LEMMA OneMore ==
    ASSUME NEW pool \in [Functions -> SUBSET ContainerIDs],
           NEW p \in [Functions -> SUBSET ContainerIDs],
           NEW f \in Functions, NEW c \in ContainerIDs, c \notin p[f], pool[f] = p[f] \cup {c},
           \A g \in Functions : g # f => pool[g] = p[g]
    PROVE  PoolMB(pool) = PoolMB(p) + MemoryMB[f]
<1> DEFINE one == [g \in Functions |-> IF g = f THEN {c} ELSE {}]
           amount == [g \in Functions |-> MemoryMB[g] * Cardinality(one[g])]
<1>1. one \in [Functions -> SUBSET ContainerIDs]
  OBVIOUS
<1>2. PoolMB(pool) = PoolMB(p) + PoolMB(one)
  <2>1. \A g \in Functions : pool[g] = p[g] \cup one[g] /\ p[g] \cap one[g] = {}
    OBVIOUS
  <2> HIDE DEF one
  <2> QED
    BY <1>1, <2>1, PoolSplits
<1>3. amount \in [Functions -> Nat]
  <2> HIDE DEF one
  <2> QED
    BY <1>1, PoolAmounts
<1>4. amount[f] = MemoryMB[f] /\ \A g \in Functions : g # f => amount[g] = 0
  <2>1. \A g \in Functions : MemoryMB[g] \in Nat
    BY PoolAssumption
  <2>2. Cardinality({c}) = 1 /\ Cardinality({}) = 0
    BY FS_Singleton, FS_EmptySet
  <2>3. amount[f] = MemoryMB[f] * 1 /\ \A g \in Functions : g # f => amount[g] = MemoryMB[g] * 0
    BY <2>2
  <2> HIDE DEF amount
  <2> QED
    BY <2>1, <2>3, Products
<1>5. Total(amount) = amount[f]
  <2> HIDE DEF amount
  <2> QED
    BY <1>3, <1>4, TotalOfPoint
<1> QED
  BY <1>2, <1>4, <1>5 DEF PoolMB

(* What MemoryOf and, with all the fronts read, CollectedMB add up to. *)
LEMMA MemoryOfPart ==
    ASSUME NEW pool, NEW S
    PROVE  MemoryOf(S, pool) = PoolMB(Taken(S \cap alive, pool))
<1>1. \A f \in Functions : S \cap pool[f] \cap alive = Taken(S \cap alive, pool)[f]
  BY DEF Taken
<1> QED
  BY <1>1 DEF MemoryOf, PoolMB

LEMMA CollectedPart ==
    ASSUME TypeOK, NEW S
    PROVE  CollectedMB(S, Warm) = PoolMB(Taken(S, ready))
<1>1. ASSUME NEW f \in Functions
      PROVE  ItemMB(f, Warm) * Cardinality(S \cap ready[f])
               = MemoryMB[f] * Cardinality(Taken(S, ready)[f])
  <2>1. Taken(S, ready)[f] = S \cap ready[f]
    BY DEF Taken
  <2>2. CASE Warm \cap ready[f] # {}
    BY <2>1, <2>2 DEF ItemMB
  <2>3. CASE Warm \cap ready[f] = {}
    <3>1. ready[f] = {}
      BY <2>3 DEF Warm
    <3>2. Cardinality(S \cap ready[f]) = 0
      BY <3>1, FS_EmptySet
    <3>3. MemoryMB[f] \in Nat /\ ItemMB(f, Warm) \in Nat
      BY PoolAssumption DEF ItemMB
    <3> QED
      BY <2>1, <3>2, <3>3, Products
  <2> QED
    BY <2>2, <2>3
<1> QED
  BY <1>1 DEF CollectedMB, PoolMB

LEMMA ReadyShrinks ==
    ASSUME TypeOK, NEW S, RemoveReady(S)
    PROVE  /\ PoolMB(ready) = PoolMB(ready') + PoolMB(Taken(S, ready))
           /\ PoolMB(ready) \in Nat /\ PoolMB(ready') \in Nat
           /\ PoolMB(Taken(S, ready)) \in Nat
<1> DEFINE rest == [f \in Functions |-> ready[f] \ S]
           out  == Taken(S, ready)
<1>1. /\ ready \in [Functions -> SUBSET ContainerIDs]
      /\ rest \in [Functions -> SUBSET ContainerIDs]
      /\ out \in [Functions -> SUBSET ContainerIDs]
  BY DEF TypeOK, Taken
<1>2. \A f \in Functions : ready[f] = rest[f] \cup out[f] /\ rest[f] \cap out[f] = {}
  BY DEF Taken
<1>3. ready' = rest
  BY DEF RemoveReady
<1> HIDE DEF rest, out
<1>4. PoolMB(ready) = PoolMB(rest) + PoolMB(out)
  BY <1>1, <1>2, PoolSplits
<1>5. PoolMB(ready) \in Nat /\ PoolMB(rest) \in Nat /\ PoolMB(out) \in Nat
  BY <1>1, PoolAmounts
<1>6. PoolMB(ready') = PoolMB(rest)
  BY <1>3 DEF PoolMB
<1> QED
  BY <1>4, <1>5, <1>6 DEF out

(* The memory no request has reserved for a container it is creating. *)
OutsideMB == AvailableMemMB + PoolMB(ready) + PoolMB(busy) + lostMemMB

LEMMA OutsideIsInt ==
    ASSUME TypeOK
    PROVE  /\ OutsideMB \in Int /\ AvailableMemMB \in Int /\ lostMemMB \in Int
           /\ PoolMB(ready) \in Nat /\ PoolMB(busy) \in Nat
<1>1. PoolMB(ready) \in Nat /\ PoolMB(busy) \in Nat
  BY PoolAmounts DEF TypeOK
<1> QED
  BY <1>1 DEF OutsideMB, TypeOK

(* What dismissContainer takes out of the ready lists is given back or lost. *)
LEMMA DismissalOutside ==
    ASSUME TypeOK, NEW S, NEW done, done \subseteq S, NEW read, read \subseteq Warm,
           NEW takenMB \in Nat, GiveBackItems(S, done, read, takenMB), UNCHANGED busy
    PROVE  OutsideMB' = OutsideMB - takenMB
<1>1. /\ CollectedMB(done, read) \in Nat
      /\ CollectedMB(S, Warm) = PoolMB(Taken(S, ready))
  BY CollectedIsNat, CollectedPart
<1>2. /\ PoolMB(ready) = PoolMB(ready') + PoolMB(Taken(S, ready))
      /\ PoolMB(ready) \in Nat /\ PoolMB(ready') \in Nat
      /\ PoolMB(Taken(S, ready)) \in Nat
  BY ReadyShrinks DEF GiveBackItems
<1>3. /\ AvailableMemMB' = (AvailableMemMB + CollectedMB(done, read)) - takenMB
      /\ lostMemMB' = lostMemMB + (PoolMB(Taken(S, ready)) - CollectedMB(done, read))
  BY <1>1 DEF GiveBackItems
<1>4. /\ AvailableMemMB \in Int /\ lostMemMB \in Int /\ PoolMB(busy) \in Nat
  BY OutsideIsInt
<1>5. PoolMB(busy)' = PoolMB(busy)
  BY DEF PoolMB
<1> QED
  BY <1>1, <1>2, <1>3, <1>4, <1>5 DEF OutsideMB

(* The sweeps and the shutdown of a function give back, as far as it is     *)
(* read, the memory of containers that exist.                               *)
LEMMA SweepOutside ==
    ASSUME TypeOK, NEW S, S \subseteq alive, RemoveReady(S), GiveBack(S), UNCHANGED busy
    PROVE  OutsideMB' = OutsideMB
<1>1. PICK unread \in SUBSET (S \cap alive) :
        /\ AvailableMemMB' = AvailableMemMB + MemoryOf(S \ unread, ready)
        /\ lostMemMB' = lostMemMB + MemoryOf(unread, ready)
  BY DEF GiveBack
<1> DEFINE kept == Taken((S \ unread) \cap alive, ready)
           dropped == Taken(unread \cap alive, ready)
           out == Taken(S, ready)
<1>2. MemoryOf(S \ unread, ready) = PoolMB(kept) /\ MemoryOf(unread, ready) = PoolMB(dropped)
  BY MemoryOfPart
<1>3. /\ kept \in [Functions -> SUBSET ContainerIDs]
      /\ dropped \in [Functions -> SUBSET ContainerIDs]
      /\ out \in [Functions -> SUBSET ContainerIDs]
  BY DEF TypeOK, Taken
<1>4. \A f \in Functions : out[f] = kept[f] \cup dropped[f] /\ kept[f] \cap dropped[f] = {}
  BY DEF Taken
<1>5. /\ PoolMB(ready) = PoolMB(ready') + PoolMB(out)
      /\ PoolMB(ready) \in Nat /\ PoolMB(ready') \in Nat /\ PoolMB(out) \in Nat
  BY ReadyShrinks
<1> HIDE DEF kept, dropped, out
<1>6. PoolMB(out) = PoolMB(kept) + PoolMB(dropped)
  BY <1>3, <1>4, PoolSplits
<1>7. PoolMB(kept) \in Nat /\ PoolMB(dropped) \in Nat
  BY <1>3, PoolAmounts
<1>8. /\ AvailableMemMB \in Int /\ lostMemMB \in Int /\ PoolMB(busy) \in Nat
      /\ PoolMB(busy)' = PoolMB(busy)
  BY OutsideIsInt DEF PoolMB
<1> QED
  BY <1>1, <1>2, <1>5, <1>6, <1>7, <1>8 DEF OutsideMB

(* What a step of a request does to the memory: it changes by what the      *)
(* request reserves or stops reserving for a container it is creating.      *)
LEMMA InvokeMem ==
    ASSUME Typed, Exclusive, NEW r \in Requests, Invoke(r)
    PROVE  /\ UNCHANGED terminated
           /\ \/ r \notin Creating /\ r \in Creating' /\ OutsideMB' = OutsideMB - Mem(r)
              \/ r \in Creating /\ r \notin Creating' /\ OutsideMB' = OutsideMB + Mem(r)
              \/ (r \in Creating <=> r \in Creating') /\ OutsideMB' = OutsideMB
<1> DEFINE f == FunOf[r]
<1>0. /\ f \in Functions /\ Mem(r) \in Nat /\ Mem(r) = MemoryMB[f] /\ TypeOK
      /\ phase \in [Requests -> Phases] /\ cont \in [Requests -> ContainerIDs \cup {NoContainer}]
  BY DemandsAreNat DEF Typed, TypeOK, Mem
<1>1. /\ OutsideMB \in Int /\ AvailableMemMB \in Int /\ lostMemMB \in Int
      /\ PoolMB(ready) \in Nat /\ PoolMB(busy) \in Nat
  BY <1>0, OutsideIsInt
<1>2. /\ ready \in [Functions -> SUBSET ContainerIDs] /\ busy \in [Functions -> SUBSET ContainerIDs]
      /\ ready' \in [Functions -> SUBSET ContainerIDs] /\ busy' \in [Functions -> SUBSET ContainerIDs]
  BY InvokeTyped DEF Typed, TypeOK
<1>3. ASSUME UNCHANGED <<ready, busy>>
      PROVE  PoolMB(ready)' = PoolMB(ready) /\ PoolMB(busy)' = PoolMB(busy)
  BY <1>3 DEF PoolMB
<1>4. CASE ReserveFree(r)
  <2>1. /\ phase[r] = "idle" /\ phase' = [phase EXCEPT ![r] = "reserved"]
        /\ AvailableMemMB' = AvailableMemMB - Mem(r)
        /\ UNCHANGED <<ready, busy, terminated, lostMemMB>>
    BY <1>4 DEF ReserveFree, Grant, pools, lost
  <2>2. r \notin Creating /\ r \in Creating'
    BY <1>0, <2>1 DEF Creating
  <2>3. OutsideMB' = OutsideMB - Mem(r)
    BY <1>0, <1>1, <1>3, <2>1 DEF OutsideMB
  <2> QED
    BY <2>1, <2>2, <2>3
<1>5. CASE ReserveDismissing(r)
  <2>1. PICK S \in SUBSET Warm : \E F \in SUBSET S : \E read \in SUBSET (F \cap alive) :
          GiveBackItems(S, S, read, Mem(r))
    BY <1>5 DEF ReserveDismissing
  <2>2. PICK read \in SUBSET Warm : GiveBackItems(S, S, read, Mem(r))
    BY <2>1
  <2>3. /\ phase[r] = "idle" /\ phase' = [phase EXCEPT ![r] = "reserved"]
        /\ UNCHANGED <<busy, terminated>>
    BY <1>5 DEF ReserveDismissing, NeedsDismissal, Grant
  <2>4. r \notin Creating /\ r \in Creating'
    BY <1>0, <2>3 DEF Creating
  <2>5. OutsideMB' = OutsideMB - Mem(r)
    BY <1>0, <2>2, <2>3, DismissalOutside
  <2> QED
    BY <2>3, <2>4, <2>5
<1>6. CASE DismissalFails(r)
  <2>1. PICK S \in SUBSET Warm : \E F \in SUBSET S : \E read \in SUBSET (F \cap alive) :
          \E done \in SUBSET S, x \in S : GiveBackItems(done \cup {x}, done, read, 0)
    BY <1>6 DEF DismissalFails
  <2>2. PICK read \in SUBSET Warm, done \in SUBSET S, x \in S :
          GiveBackItems(done \cup {x}, done, read, 0)
    BY <2>1
  <2>3. UNCHANGED <<busy, terminated, phase>>
    BY <1>6 DEF DismissalFails, requests
  <2>4. r \in Creating <=> r \in Creating'
    BY <2>3 DEF Creating
  <2>5. OutsideMB' = OutsideMB - 0
    BY <1>0, <2>2, <2>3, DismissalOutside
  <2> QED
    BY <1>1, <2>3, <2>4, <2>5
<1>7. CASE AcquireWarmContainer(r)
  <2>1. PICK contID \in ready[f] :
          RemoveReady({contID}) /\ busy' = [busy EXCEPT ![f] = @ \cup {contID}]
    BY <1>7 DEF AcquireWarmContainer
  <2>2. /\ phase[r] = "idle" /\ phase'[r] \in {"idle", "running"}
        /\ UNCHANGED <<AvailableMemMB, lostMemMB, terminated>>
    BY <1>0, <1>7 DEF AcquireWarmContainer, requests, lost
  <2>3. r \notin Creating /\ r \notin Creating'
    BY <2>2 DEF Creating
  <2>4. contID \in ContainerIDs /\ \A g \in Functions : contID \notin busy[g]
    BY <1>0, <1>2, <2>1 DEF Exclusive
  <2>5. PoolMB(busy') = PoolMB(busy) + MemoryMB[f]
    <3>1. /\ busy'[f] = busy[f] \cup {contID}
          /\ \A g \in Functions : g # f => busy'[g] = busy[g]
      BY <1>0, <1>2, <2>1
    <3> HIDE DEF f
    <3> QED
      BY <1>0, <1>2, <2>4, <3>1, OneMore
  <2>6. PoolMB(ready) = PoolMB(ready') + MemoryMB[f]
    <3>1. \A g \in Functions : ready'[g] = ready[g] \ {contID}
      BY <2>1 DEF RemoveReady
    <3>2. \A g \in Functions : g # f => contID \notin ready[g]
      BY <1>0, <2>1, ExclusivePointwise
    <3>3. /\ ready[f] = ready'[f] \cup {contID} /\ contID \notin ready'[f]
          /\ \A g \in Functions : g # f => ready[g] = ready'[g]
      <4>1. ASSUME NEW g \in Functions, g # f
            PROVE  ready[g] = ready'[g]
        <5>1. ready'[g] = ready[g] \ {contID} /\ contID \notin ready[g]
          BY <3>1, <3>2, <4>1
        <5> QED
          BY <5>1
      <4>2. ready'[f] = ready[f] \ {contID} /\ contID \in ready[f]
        BY <1>0, <3>1
      <4> QED
        BY <4>1, <4>2
    <3> HIDE DEF f
    <3> QED
      BY <1>0, <1>2, <2>4, <3>3, OneMore
  <2>7. PoolMB(ready') \in Nat
    BY <1>2, PoolAmounts
  <2>8. OutsideMB' = OutsideMB
    BY <1>0, <1>1, <2>2, <2>5, <2>6, <2>7 DEF OutsideMB
  <2> QED
    BY <2>2, <2>3, <2>8
<1>8. CASE InvalidRuntime(r)
  <2>1. /\ phase[r] = "reserved" /\ phase' = [phase EXCEPT ![r] = "idle"]
        /\ lostMemMB' = lostMemMB + Mem(r)
        /\ UNCHANGED <<AvailableMemMB, ready, busy, terminated>>
    BY <1>8 DEF InvalidRuntime, accounts, pools
  <2>2. r \in Creating /\ r \notin Creating'
    BY <1>0, <2>1 DEF Creating
  <2>3. OutsideMB' = OutsideMB + Mem(r)
    BY <1>0, <1>1, <1>3, <2>1 DEF OutsideMB
  <2> QED
    BY <2>1, <2>2, <2>3
<1>9. CASE Spawn(r) \/ SpawnFails(r)
  <2>1. /\ phase[r] = "reserved" /\ phase'[r] \in {"spawned", "failed"}
        /\ UNCHANGED <<AvailableMemMB, lostMemMB, ready, busy, terminated>>
    BY <1>0, <1>9 DEF Spawn, SpawnFails, accounts, lost, pools
  <2>2. r \in Creating /\ r \in Creating'
    BY <2>1 DEF Creating
  <2>3. OutsideMB' = OutsideMB
    BY <1>3, <2>1 DEF OutsideMB
  <2> QED
    BY <2>1, <2>2, <2>3
<1>10. CASE InsertNewContainer(r)
  <2>1. /\ phase[r] = "spawned" /\ phase' = [phase EXCEPT ![r] = "running"]
        /\ busy' = [busy EXCEPT ![f] = @ \cup {cont[r]}]
        /\ UNCHANGED <<AvailableMemMB, lostMemMB, ready, terminated>>
    BY <1>10 DEF InsertNewContainer, accounts, lost
  <2>2. r \in Creating /\ r \notin Creating'
    BY <1>0, <2>1 DEF Creating
  <2>3. cont[r] \in ContainerIDs /\ cont[r] \notin busy[f]
    BY <1>0, <2>1 DEF Typed, Holding, Exclusive, Busy
  <2>4. PoolMB(busy') = PoolMB(busy) + MemoryMB[f]
    <3>1. /\ busy'[f] = busy[f] \cup {cont[r]}
          /\ \A g \in Functions : g # f => busy'[g] = busy[g]
      BY <1>0, <1>2, <2>1
    <3> HIDE DEF f
    <3> QED
      BY <1>0, <1>2, <2>3, <3>1, OneMore
  <2>5. PoolMB(ready)' = PoolMB(ready)
    BY <2>1 DEF PoolMB
  <2>6. OutsideMB' = OutsideMB + Mem(r)
    BY <1>0, <1>1, <2>1, <2>4, <2>5 DEF OutsideMB
  <2> QED
    BY <2>1, <2>2, <2>6
<1>11. CASE ReleaseAfterFailure(r)
  <2>1. /\ phase[r] = "failed" /\ phase' = [phase EXCEPT ![r] = "idle"]
        /\ AvailableMemMB' = AvailableMemMB + Mem(r)
        /\ UNCHANGED <<ready, busy, terminated, lostMemMB>>
    BY <1>11 DEF ReleaseAfterFailure, pools, lost
  <2>2. r \in Creating /\ r \notin Creating'
    BY <1>0, <2>1 DEF Creating
  <2>3. OutsideMB' = OutsideMB + Mem(r)
    BY <1>0, <1>1, <1>3, <2>1 DEF OutsideMB
  <2> QED
    BY <2>1, <2>2, <2>3
<1>12. CASE ReleaseContainer(r)
  <2>1. /\ phase[r] = "running" /\ phase' = [phase EXCEPT ![r] = "idle"]
        /\ busy' = [busy EXCEPT ![f] = @ \ {cont[r]}]
        /\ ready' = [ready EXCEPT ![f] = @ \cup {cont[r]}]
        /\ UNCHANGED <<AvailableMemMB, lostMemMB, terminated>>
    BY <1>12 DEF ReleaseContainer, lost
  <2>2. r \notin Creating /\ r \notin Creating'
    BY <1>0, <2>1 DEF Creating
  <2>3. cont[r] \in busy[f] /\ cont[r] \in ContainerIDs /\ cont[r] \notin ready[f]
    BY <1>0, <1>2, <2>1 DEF Exclusive
  <2>4. PoolMB(ready') = PoolMB(ready) + MemoryMB[f]
    <3>1. /\ ready'[f] = ready[f] \cup {cont[r]}
          /\ \A g \in Functions : g # f => ready'[g] = ready[g]
      BY <1>0, <1>2, <2>1
    <3> HIDE DEF f
    <3> QED
      BY <1>0, <1>2, <2>3, <3>1, OneMore
  <2>5. PoolMB(busy) = PoolMB(busy') + MemoryMB[f]
    <3>1. /\ busy[f] = busy'[f] \cup {cont[r]}
          /\ \A g \in Functions : g # f => busy[g] = busy'[g]
      BY <1>0, <1>2, <2>1, <2>3
    <3>2. cont[r] \notin busy'[f]
      BY <1>0, <1>2, <2>1
    <3> HIDE DEF f
    <3> QED
      BY <1>0, <1>2, <2>3, <3>1, <3>2, OneMore
  <2>6. PoolMB(busy') \in Nat
    BY <1>2, PoolAmounts
  <2>7. OutsideMB' = OutsideMB
    BY <1>0, <1>1, <2>1, <2>4, <2>5, <2>6 DEF OutsideMB
  <2> QED
    BY <2>1, <2>2, <2>7
<1> QED
  BY <1>4, <1>5, <1>6, <1>7, <1>8, <1>9, <1>10, <1>11, <1>12 DEF Invoke

(* The memory outside and the memory reserved are all the memory. *)
Balanced == ~terminated => OutsideMB + ReservedMB = MaxMemMB

LEMMA NextBalanced ==
    Typed /\ Exclusive /\ Usable /\ FinitelyActive /\ Balanced /\ [Next]_vars => Balanced'
<1> SUFFICES ASSUME Typed, Exclusive, Usable, FinitelyActive, Balanced, [Next]_vars
             PROVE  Balanced'
  OBVIOUS
<1>0. TypeOK /\ OutsideMB \in Int
  BY OutsideIsInt DEF Typed
<1>1. ASSUME NEW r \in Requests, Invoke(r)
      PROVE  Balanced'
  <2>1. /\ ReservedMB \in Nat /\ ReservedMB' \in Nat
        /\ ReservedMB + (IF r \in Creating' THEN Mem(r) ELSE 0)
             = ReservedMB' + (IF r \in Creating THEN Mem(r) ELSE 0)
    BY <1>0, <1>1, InvokePhase, PhaseTotals
  <2>2. Mem(r) \in Nat
    BY DemandsAreNat
  <2>3. OutsideMB' + ReservedMB' = OutsideMB + ReservedMB
    <3>1. CASE r \notin Creating /\ r \in Creating' /\ OutsideMB' = OutsideMB - Mem(r)
      <4>1. ReservedMB' = ReservedMB + Mem(r)
        BY <2>1, <2>2, <3>1
      <4> QED
        BY <1>0, <2>1, <2>2, <3>1, <4>1
    <3>2. CASE r \in Creating /\ r \notin Creating' /\ OutsideMB' = OutsideMB + Mem(r)
      <4>1. ReservedMB = ReservedMB' + Mem(r)
        BY <2>1, <2>2, <3>2
      <4> QED
        BY <1>0, <2>1, <2>2, <3>2, <4>1
    <3>3. CASE (r \in Creating <=> r \in Creating') /\ OutsideMB' = OutsideMB
      <4>1. ReservedMB' = ReservedMB
        BY <2>1, <2>2, <3>3
      <4> QED
        BY <3>3, <4>1
    <3> QED
      BY <1>1, <3>1, <3>2, <3>3, InvokeMem
  <2> QED
    BY <1>1, <2>3, InvokeMem DEF Balanced
<1>2. CASE OutsideMB' = OutsideMB /\ UNCHANGED phase /\ (terminated => terminated')
  BY <1>2 DEF Balanced, ReservedMB, Creating
<1>3. CASE UNCHANGED <<AvailableMemMB, lostMemMB, ready, busy, phase, terminated>>
  BY <1>2, <1>3 DEF OutsideMB, PoolMB
<1>4. ASSUME NEW c \in ContainerIDs, Expire(c) \/ DestroyCondemned(c)
      PROVE  Balanced'
  BY <1>3, <1>4 DEF Expire, DestroyCondemned, accounts, requests, lost, pools
<1>5. ASSUME NEW f \in Functions, ShutdownWarmContainersFor(f)
      PROVE  Balanced'
  <2>1. CASE ~terminated
    <3>1. ready[f] \subseteq alive
      BY <2>1 DEF Usable, Warm
    <3>2. OutsideMB' = OutsideMB
      BY <1>0, <1>5, <3>1, SweepOutside DEF ShutdownWarmContainersFor
    <3> QED
      BY <1>2, <1>5, <3>2 DEF ShutdownWarmContainersFor, requests
  <2>2. CASE terminated
    BY <1>5, <2>2 DEF ShutdownWarmContainersFor, Balanced
  <2> QED
    BY <2>1, <2>2
<1>6. CASE StartJanitor \/ StopJanitor
  BY <1>3, <1>6 DEF StartJanitor, StopJanitor, accounts, requests, lost, pools
<1>7. CASE DeleteExpiredContainer
  <2>1. CASE ~terminated
    <3>1. (expired \cap Warm) \subseteq alive
      BY <2>1 DEF Usable
    <3>2. OutsideMB' = OutsideMB
      BY <1>0, <1>7, <3>1, SweepOutside DEF DeleteExpiredContainer
    <3> QED
      BY <1>2, <1>7, <3>2 DEF DeleteExpiredContainer, requests
  <2>2. CASE terminated
    BY <1>7, <2>2 DEF DeleteExpiredContainer, Balanced
  <2> QED
    BY <2>1, <2>2
<1>8. CASE ShutdownAllContainers
  BY <1>8 DEF ShutdownAllContainers, Balanced
<1>9. CASE UNCHANGED vars
  BY <1>3, <1>9 DEF vars, accounts, requests, lost, pools
<1> QED
  BY <1>1, <1>4, <1>5, <1>6, <1>7, <1>8, <1>9 DEF Next

LEMMA InitBalanced == Init => Balanced
<1> SUFFICES ASSUME Init
             PROVE  Balanced
  OBVIOUS
<1> DEFINE none == [f \in Functions |-> MemoryMB[f] * Cardinality({})]
<1>1. none \in [Functions -> Nat] /\ \A f \in Functions : none[f] = 0
  <2>1. \A f \in Functions : MemoryMB[f] * Cardinality({}) = 0
    BY PoolAssumption, FS_EmptySet, Products
  <2> QED
    BY <2>1
<1>2. Total(none) = 0
  <2> HIDE DEF none
  <2> QED
    BY <1>1, TotalOfZero
<1>3. PoolMB(ready) = Total(none) /\ PoolMB(busy) = Total(none)
  <2>1. \A f \in Functions : ready[f] = {} /\ busy[f] = {}
    BY DEF Init
  <2> QED
    BY <2>1 DEF PoolMB
<1>4. AvailableMemMB = MaxMemMB /\ lostMemMB = 0 /\ MaxMemMB \in Nat /\ ReservedMB = 0
  BY PoolAssumption, InitReserved DEF Init
<1>5. OutsideMB + ReservedMB = MaxMemMB
  BY <1>2, <1>3, <1>4 DEF OutsideMB
<1> QED
  BY <1>5 DEF Balanced

(* Until the shutdown every container of a pool exists, so that MemoryOf    *)
(* counts all of them.                                                      *)
LEMMA BalancedConserves ==
    ASSUME TypeOK, Usable, Balanced, FinitelyActive
    PROVE  MemConserved
<1> SUFFICES ASSUME ~terminated
             PROVE  AvailableMemMB + ReservedMB
                      + MemoryOf(Warm, ready) + MemoryOf(Busy, busy) + lostMemMB = MaxMemMB
  BY DEF MemConserved
<1>1. MemoryOf(Warm, ready) = PoolMB(ready) /\ MemoryOf(Busy, busy) = PoolMB(busy)
  <2>1. \A f \in Functions : /\ Warm \cap ready[f] \cap alive = ready[f]
                             /\ Busy \cap busy[f] \cap alive = busy[f]
    BY DEF Usable, Warm, Busy
  <2> QED
    BY <2>1 DEF MemoryOf, PoolMB
<1>2. /\ AvailableMemMB \in Int /\ lostMemMB \in Int
      /\ PoolMB(ready) \in Nat /\ PoolMB(busy) \in Nat
  BY OutsideIsInt
<1>3. ReservedMB \in Nat
  <2>1. Creating \in SUBSET Active
    BY DEF Creating, Active
  <2>2. IsFiniteSet(Creating)
    BY <2>1, FS_Subset DEF FinitelyActive
  <2>3. [r \in Creating |-> Mem(r)] \in [Creating -> Nat]
    BY DemandsAreNat DEF Creating
  <2> QED
    BY <2>2, <2>3, TotalIsNat DEF ReservedMB
<1>4. OutsideMB + ReservedMB = MaxMemMB
  BY DEF Balanced
<1> QED
  BY <1>1, <1>2, <1>3, <1>4 DEF OutsideMB

(* Every MB is available, reserved for a container being created, taken by  *)
(* a container of the pool, or lost in one of the ways lostMemMB counts, as *)
(* long as the pool is not shut down.  Usable is needed because the code    *)
(* asks the factory for the memory of a container and is answered nothing   *)
(* for one that does not exist any more.                                    *)
THEOREM MemoryIsConserved == Spec => []MemConserved
<1> DEFINE Inv == Typed /\ Exclusive /\ Usable /\ FinitelyActive /\ Balanced
<1>1. Init => Inv
  <2>1. Init => Usable
    BY DEF Init, Usable, Warm, Busy, Held
  <2> QED
    BY <2>1, InitTyped, InitExclusive, InitReserved, InitBalanced
<1>2. Inv /\ [Next]_vars => Inv'
  BY NextTyped, NextExclusive, NextUsable, NextFinitelyActive, NextBalanced
<1>3. Inv => MemConserved
  BY BalancedConserves DEF Typed
<1> QED
  BY <1>1, <1>2, <1>3, PTL DEF Spec

-----------------------------------------------------------------------------
(* Why a warm container is evicted. *)

(* The containers somebody may still use or destroy. *)
Referred == Warm \cup Busy \cup Held \cup condemned

(* Until the shutdown, a container on which the factory failed exists and   *)
(* nobody refers to it: so a failure is always a new one.                   *)
Unblamed == ~terminated => blamed \subseteq alive /\ blamed \cap Referred = {}

(* Nobody comes to refer to a container that exists already, and only what  *)
(* somebody refers to is destroyed.                                         *)
LEMMA NextReferred ==
    ASSUME Typed, Exclusive, [Next]_vars
    PROVE  Referred' \subseteq Referred \cup Fresh /\ alive \ Referred \subseteq alive'
<1> USE DEF requests, pools
<1>1. ASSUME NEW S, S \subseteq Warm, RemoveReady(S), UNCHANGED <<busy, cont>>,
             condemned' \subseteq Referred, alive \ Referred \subseteq alive'
      PROVE  Referred' \subseteq Referred \cup Fresh /\ alive \ Referred \subseteq alive'
  <2>1. Warm' \subseteq Warm
    BY <1>1 DEF Warm, RemoveReady
  <2>2. Busy' = Busy /\ Held' = Held
    BY <1>1 DEF Busy, Held
  <2> QED
    BY <1>1, <2>1, <2>2 DEF Referred
<1>2. ASSUME UNCHANGED <<ready, busy, cont>>, condemned' \subseteq condemned,
             alive \ Referred \subseteq alive'
      PROVE  Referred' \subseteq Referred \cup Fresh /\ alive \ Referred \subseteq alive'
  <2>1. Warm' = Warm /\ Busy' = Busy /\ Held' = Held
    BY <1>2 DEF Warm, Busy, Held
  <2> QED
    BY <1>2, <2>1 DEF Referred
<1>3. ASSUME NEW r \in Requests, Invoke(r)
      PROVE  Referred' \subseteq Referred \cup Fresh /\ alive \ Referred \subseteq alive'
  <2> DEFINE f == FunOf[r]
  <2>0. f \in Functions
    BY DemandsAreNat
  <2>1. CASE ReserveFree(r) \/ InvalidRuntime(r) \/ ReleaseAfterFailure(r) \/ SpawnFails(r)
    BY <1>2, <2>1 DEF ReserveFree, InvalidRuntime, ReleaseAfterFailure, SpawnFails
  <2>2. CASE ReserveDismissing(r)
    <3>1. PICK S \in SUBSET Warm : RemoveReady(S) /\ \E F \in SUBSET S : alive' = alive \ F
      BY <2>2 DEF ReserveDismissing, GiveBackItems
    <3> QED
      BY <1>1, <2>2, <3>1 DEF ReserveDismissing, Referred
  <2>3. CASE DismissalFails(r)
    <3>1. PICK S \in SUBSET Warm : \E F, done \in SUBSET S, x \in S :
            RemoveReady(done \cup {x}) /\ alive' = alive \ (F \cap done)
      BY <2>3 DEF DismissalFails, GiveBackItems
    <3>2. PICK F \in SUBSET S, done \in SUBSET S, x \in S :
            RemoveReady(done \cup {x}) /\ alive' = alive \ (F \cap done)
      BY <3>1
    <3>3. done \cup {x} \subseteq Warm
      BY <3>2
    <3> QED
      BY <1>1, <2>3, <3>2, <3>3 DEF DismissalFails, Referred
  <2>4. CASE AcquireWarmContainer(r)
    <3>1. PICK contID \in ready[f] :
            /\ RemoveReady({contID})
            /\ busy' = [busy EXCEPT ![f] = @ \cup {contID}]
            /\ cont' = [cont EXCEPT ![r] = contID] \/ UNCHANGED cont
      BY <2>4 DEF AcquireWarmContainer
    <3>2. contID \in Warm
      BY <2>0 DEF Warm
    <3>3. Warm' \subseteq Warm
      BY <3>1 DEF Warm, RemoveReady
    <3>4. \A g \in Functions : busy'[g] \subseteq busy[g] \cup {contID}
      BY <3>1 DEF Typed, TypeOK
    <3>5. Busy' \subseteq Busy \cup {contID}
      BY <3>4 DEF Busy
    <3>6. Held' \subseteq Held \cup {contID}
      BY <3>1 DEF Held, Typed, TypeOK
    <3> QED
      BY <2>4, <3>2, <3>3, <3>5, <3>6 DEF AcquireWarmContainer, Referred
  <2>5. CASE Spawn(r)
    <3>1. PICK contID \in Fresh : /\ alive' = alive \cup {contID}
                                  /\ cont' = [cont EXCEPT ![r] = contID]
      BY <2>5 DEF Spawn
    <3>2. Warm' = Warm /\ Busy' = Busy
      BY <2>5 DEF Spawn, Warm, Busy
    <3>3. Held' \subseteq Held \cup {contID}
      BY <3>1 DEF Held, Typed, TypeOK
    <3> QED
      BY <2>5, <3>1, <3>2, <3>3 DEF Spawn, Referred
  <2>6. CASE InsertNewContainer(r)
    <3>1. /\ UNCHANGED <<ready, cont, alive, condemned>>
          /\ busy' = [busy EXCEPT ![f] = @ \cup {cont[r]}]
          /\ phase[r] = "spawned"
      BY <2>6 DEF InsertNewContainer
    <3>2. cont[r] \in Held
      BY <3>1 DEF Typed, Holding, Held
    <3>3. \A g \in Functions : busy'[g] \subseteq busy[g] \cup {cont[r]}
      BY <3>1 DEF Typed, TypeOK
    <3>4. Warm' = Warm /\ Held' = Held /\ Busy' \subseteq Busy \cup {cont[r]}
      BY <3>1, <3>3 DEF Warm, Held, Busy
    <3> QED
      BY <3>1, <3>2, <3>4 DEF Referred
  <2>7. CASE ReleaseContainer(r)
    <3>1. /\ UNCHANGED <<alive, condemned>>
          /\ busy' = [busy EXCEPT ![f] = @ \ {cont[r]}]
          /\ ready' = [ready EXCEPT ![f] = @ \cup {cont[r]}]
          /\ cont' = [cont EXCEPT ![r] = NoContainer]
          /\ phase[r] = "running"
      BY <2>7 DEF ReleaseContainer
    <3>2. cont[r] \in Held
      BY <3>1 DEF Typed, Holding, Held
    <3>3. \A g \in Functions : /\ busy'[g] \subseteq busy[g]
                               /\ ready'[g] \subseteq ready[g] \cup {cont[r]}
      BY <3>1 DEF Typed, TypeOK
    <3>4. Busy' \subseteq Busy /\ Warm' \subseteq Warm \cup {cont[r]}
      BY <3>3 DEF Busy, Warm
    <3>5. Held' \subseteq Held
      BY <3>1 DEF Held, Typed, TypeOK
    <3> QED
      BY <3>1, <3>2, <3>4, <3>5 DEF Referred
  <2> QED
    BY <1>3, <2>1, <2>2, <2>3, <2>4, <2>5, <2>6, <2>7 DEF Invoke
<1>4. ASSUME NEW c \in ContainerIDs, Expire(c) \/ DestroyCondemned(c)
      PROVE  Referred' \subseteq Referred \cup Fresh /\ alive \ Referred \subseteq alive'
  <2>1. UNCHANGED <<ready, busy, cont>> /\ condemned' \subseteq condemned
    BY <1>4 DEF Expire, DestroyCondemned
  <2>2. alive \ Referred \subseteq alive'
    BY <1>4 DEF Expire, DestroyCondemned, Referred
  <2> QED
    BY <1>2, <2>1, <2>2
<1>5. ASSUME NEW g \in Functions, ShutdownWarmContainersFor(g)
      PROVE  Referred' \subseteq Referred \cup Fresh /\ alive \ Referred \subseteq alive'
  <2>1. ready[g] \subseteq Warm
    BY DEF Warm
  <2> QED
    BY <1>1, <1>5, <2>1 DEF ShutdownWarmContainersFor, Referred
<1>6. CASE StartJanitor \/ StopJanitor
  BY <1>2, <1>6 DEF StartJanitor, StopJanitor
<1>7. CASE DeleteExpiredContainer
  <2>1. PICK survivors : alive' = alive \ ((expired \cap Warm) \ survivors)
    BY <1>7 DEF DeleteExpiredContainer
  <2> QED
    BY <1>1, <1>7, <2>1 DEF DeleteExpiredContainer, Referred
<1>8. CASE ShutdownAllContainers
  <2>1. PICK survivors : alive' = alive \ ((Warm \cup Busy) \ survivors)
    BY <1>8 DEF ShutdownAllContainers
  <2> QED
    BY <1>1, <1>8, <2>1 DEF ShutdownAllContainers, Referred
<1>9. CASE UNCHANGED vars
  BY <1>2, <1>9 DEF vars
<1> QED
  BY <1>3, <1>4, <1>5, <1>6, <1>7, <1>8, <1>9 DEF Next

(* A warm container is neither held nor about to be destroyed. *)
LEMMA WarmIsFree ==
    ASSUME Typed, Exclusive
    PROVE  Warm \cap (Busy \cup Held \cup condemned) = {}
<1>1. Warm \cap Busy = {}
  <2>1. ASSUME NEW c \in Warm, c \in Busy
        PROVE  FALSE
    BY <2>1, ExclusivePointwise DEF Warm, Busy
  <2> QED
    BY <2>1
<1>2. Warm \cap Held = {}
  <2>1. ASSUME NEW s \in Requests, cont[s] # NoContainer
        PROVE  cont[s] \notin Warm
    <3>1. phase[s] = "spawned" \/ phase[s] = "running"
      BY <2>1 DEF Typed, Holding
    <3>2. CASE phase[s] = "running"
      BY <3>2, DemandsAreNat, ExclusivePointwise DEF Exclusive, Warm
    <3> QED
      BY <3>1, <3>2 DEF Exclusive
  <2> QED
    BY <2>1 DEF Held
<1> QED
  BY <1>1, <1>2 DEF Exclusive

(* What a failed dismissal does to the lists: it stops at the container x,  *)
(* which exists, of a list g.                                               *)
LEMMA DismissalStops ==
    ASSUME NEW r \in Requests, DismissalFails(r)
    PROVE  \E F \in SUBSET Warm, done \in SUBSET Warm, g \in Functions, read \in SUBSET Warm :
             \E x \in ready[g] \ done :
               /\ RemoveReady(done \cup {x})
               /\ lostMemMB' = lostMemMB + (CollectedMB(done \cup {x}, Warm) - CollectedMB(done, read))
               /\ alive' = alive \ (F \cap done)
               /\ blamed' = blamed \cup ({x} \cap F \cap alive)
<1>1. PICK S \in SUBSET Warm, last \in Functions :
        \E F \in SUBSET S, read \in SUBSET Warm, done \in SUBSET S, x \in S :
          /\ StopsAt(S, F, last, done, x)
          /\ GiveBackItems(done \cup {x}, done, read, 0)
          /\ alive' = alive \ (F \cap done)
          /\ blamed' = blamed \cup ({x} \cap F \cap alive)
  <2>1. PICK S \in SUBSET Warm, last \in Functions : \E F \in SUBSET S :
           \E read \in SUBSET (F \cap alive) :
             \E done \in SUBSET S, x \in S :
               /\ StopsAt(S, F, last, done, x)
               /\ GiveBackItems(done \cup {x}, done, read, 0)
               /\ alive' = alive \ (F \cap done)
               /\ blamed' = blamed \cup ({x} \cap F \cap alive)
    BY DEF DismissalFails
  <2>2. PICK F \in SUBSET S : \E read \in SUBSET (F \cap alive) :
             \E done \in SUBSET S, x \in S :
               /\ StopsAt(S, F, last, done, x)
               /\ GiveBackItems(done \cup {x}, done, read, 0)
               /\ alive' = alive \ (F \cap done)
               /\ blamed' = blamed \cup ({x} \cap F \cap alive)
    BY <2>1
  <2>3. SUBSET (F \cap alive) \subseteq SUBSET Warm
    BY <2>1, <2>2
  <2> QED
    BY <2>2, <2>3
<1>2. PICK F \in SUBSET S, read \in SUBSET Warm, done \in SUBSET S, x \in S :
          /\ StopsAt(S, F, last, done, x)
          /\ GiveBackItems(done \cup {x}, done, read, 0)
          /\ alive' = alive \ (F \cap done)
          /\ blamed' = blamed \cup ({x} \cap F \cap alive)
  BY <1>1
<1>3. PICK g \in Functions : x \in ready[g] \ done
  BY <1>2 DEF StopsAt
<1>4. F \in SUBSET Warm /\ done \in SUBSET Warm
  BY <1>2
<1>5. /\ RemoveReady(done \cup {x})
      /\ lostMemMB' = lostMemMB + (CollectedMB(done \cup {x}, Warm) - CollectedMB(done, read))
  BY <1>2 DEF GiveBackItems
<1> QED
  BY <1>2, <1>3, <1>4, <1>5

LEMMA NextUnblamed == Typed /\ Exclusive /\ Usable /\ Unblamed /\ [Next]_vars => Unblamed'
<1> SUFFICES ASSUME Typed, Exclusive, Usable, Unblamed, [Next]_vars, ~terminated'
             PROVE  blamed' \subseteq alive' /\ blamed' \cap Referred' = {}
  BY DEF Unblamed
<1> USE DEF requests, pools
<1>0. ~terminated
  <2>1. CASE \E r \in Requests : Invoke(r)
    BY <2>1 DEF Invoke, ReserveFree, ReserveDismissing, DismissalFails, AcquireWarmContainer,
       InvalidRuntime, Spawn, SpawnFails, InsertNewContainer, ReleaseAfterFailure, ReleaseContainer
  <2>2. CASE \/ \E c \in ContainerIDs : Expire(c) \/ DestroyCondemned(c)
             \/ \E f \in Functions : ShutdownWarmContainersFor(f)
             \/ StartJanitor \/ StopJanitor \/ DeleteExpiredContainer \/ UNCHANGED vars
    BY <2>2 DEF Expire, DestroyCondemned, ShutdownWarmContainersFor, StartJanitor, StopJanitor,
       DeleteExpiredContainer, vars
  <2>3. CASE ShutdownAllContainers
    BY <2>3 DEF ShutdownAllContainers
  <2> QED
    BY <2>1, <2>2, <2>3 DEF Next
<1>1. /\ blamed \subseteq alive /\ blamed \cap Referred = {}
      /\ (Warm \cup Busy \cup Held) \subseteq alive
  BY <1>0 DEF Unblamed, Usable
<1>2. Referred' \subseteq Referred \cup Fresh /\ alive \ Referred \subseteq alive'
  BY NextReferred
<1>3. Fresh \cap alive = {} /\ Fresh \cap Referred = {}
  BY DEF Fresh, Referred
<1>4. /\ blamed \subseteq alive' /\ blamed \cap Referred' = {}
  BY <1>1, <1>2, <1>3
<1>5. CASE blamed' = blamed
  BY <1>4, <1>5
<1>6. ASSUME NEW r \in Requests, DismissalFails(r)
      PROVE  blamed' \subseteq alive' /\ blamed' \cap Referred' = {}
  <2>1. PICK F \in SUBSET Warm, done \in SUBSET Warm, g \in Functions, x \in Warm :
          /\ x \in ready[g] \ done /\ RemoveReady(done \cup {x})
          /\ alive' = alive \ (F \cap done) /\ blamed' = blamed \cup ({x} \cap F \cap alive)
    BY <1>6, DismissalStops DEF Warm
  <2>2. x \in Warm
    BY <2>1 DEF Warm
  <2>3. x \notin Warm'
    BY <2>1 DEF Warm, RemoveReady
  <2>4. Busy' = Busy /\ Held' = Held /\ condemned' = condemned
    BY <1>6 DEF DismissalFails, Busy, Held
  <2>5. x \notin Referred'
    BY <2>2, <2>3, <2>4, WarmIsFree DEF Referred
  <2> QED
    BY <1>4, <2>1, <2>5
<1>7. ASSUME NEW r \in Requests, SpawnFails(r)
      PROVE  blamed' \subseteq alive' /\ blamed' \cap Referred' = {}
  <2>1. Referred' = Referred
    BY <1>7 DEF SpawnFails, Referred, Warm, Busy, Held
  <2>2. CASE UNCHANGED <<alive, blamed>>
    BY <1>5, <2>2
  <2>3. CASE \E contID \in Fresh : alive' = alive \cup {contID} /\ blamed' = blamed \cup {contID}
    BY <1>1, <1>3, <2>1, <2>3
  <2> QED
    BY <1>7, <2>2, <2>3 DEF SpawnFails
<1>8. ASSUME NEW c \in ContainerIDs, DestroyCondemned(c)
      PROVE  blamed' \subseteq alive' /\ blamed' \cap Referred' = {}
  <2>1. CASE UNCHANGED blamed
    BY <1>5, <2>1
  <2>2. CASE blamed' = blamed \cup ({c} \cap alive) /\ UNCHANGED alive
    <3>1. c \notin Warm \cup Busy \cup Held
      BY <1>8 DEF DestroyCondemned, Exclusive
    <3>2. Warm' = Warm /\ Busy' = Busy /\ Held' = Held /\ condemned' = condemned \ {c}
      BY <1>8 DEF DestroyCondemned, Warm, Busy, Held
    <3>3. c \notin Referred'
      BY <3>1, <3>2 DEF Referred
    <3> QED
      BY <1>4, <2>2, <3>3
  <2> QED
    BY <1>8, <2>1, <2>2 DEF DestroyCondemned
<1>9. CASE DeleteExpiredContainer
  <2> DEFINE gone == expired \cap Warm
  <2>1. PICK survivors \in SUBSET (gone \cap alive) :
          alive' = alive \ (gone \ survivors) /\ blamed' = blamed \cup survivors
    BY <1>9 DEF DeleteExpiredContainer
  <2>2. Warm' \cap gone = {}
    BY <1>9 DEF DeleteExpiredContainer, RemoveReady, Warm
  <2>3. Busy' = Busy /\ Held' = Held /\ condemned' = condemned
    BY <1>9 DEF DeleteExpiredContainer, Busy, Held
  <2>4. gone \cap Referred' = {}
    BY <2>2, <2>3, WarmIsFree DEF Referred
  <2> HIDE DEF gone
  <2>5. survivors \subseteq alive' /\ survivors \cap Referred' = {}
    BY <2>1, <2>4
  <2> QED
    BY <1>4, <2>1, <2>5
<1>10. CASE ShutdownAllContainers
  BY <1>10 DEF ShutdownAllContainers
<1>11. ASSUME NEW r \in Requests, Invoke(r), ~DismissalFails(r), ~SpawnFails(r)
       PROVE  blamed' = blamed
  BY <1>11 DEF Invoke, ReserveFree, ReserveDismissing, AcquireWarmContainer, InvalidRuntime,
     Spawn, InsertNewContainer, ReleaseAfterFailure, ReleaseContainer
<1>12. CASE \/ \E c \in ContainerIDs : Expire(c)
            \/ \E f \in Functions : ShutdownWarmContainersFor(f)
            \/ StartJanitor \/ StopJanitor \/ UNCHANGED vars
  <2>1. blamed' = blamed
    BY <1>12 DEF Expire, ShutdownWarmContainersFor, StartJanitor, StopJanitor, vars
  <2> QED
    BY <1>5, <2>1
<1> QED
  BY <1>5, <1>6, <1>7, <1>8, <1>9, <1>10, <1>11, <1>12 DEF Next

(* A dismissal that stops loses the memory of the container it stops at,    *)
(* if it takes any.                                                         *)
LEMMA DismissalLoses ==
    ASSUME TypeOK, Exclusive, NEW done, done \subseteq Warm, NEW read, read \subseteq Warm,
           NEW g \in Functions, NEW x \in ready[g] \ done, MemoryMB[g] > 0
    PROVE  CollectedMB(done \cup {x}, Warm) - CollectedMB(done, read) > 0
<1>1. ready \in [Functions -> SUBSET ContainerIDs] /\ x \in ContainerIDs
  BY DEF TypeOK
<1>2. \A h \in Functions : h # g => x \notin ready[h]
  BY ExclusivePointwise
<1> DEFINE before == Taken(done, ready)
           after  == Taken(done \cup {x}, ready)
<1>3. before \in [Functions -> SUBSET ContainerIDs] /\ after \in [Functions -> SUBSET ContainerIDs]
  BY <1>1 DEF Taken
<1>4. /\ x \notin before[g] /\ after[g] = before[g] \cup {x}
      /\ \A h \in Functions : h # g => after[h] = before[h]
  BY <1>2 DEF Taken
<1>5. CollectedMB(done, Warm) = PoolMB(before) /\ CollectedMB(done \cup {x}, Warm) = PoolMB(after)
  BY CollectedPart
<1>6. PoolMB(after) = PoolMB(before) + MemoryMB[g]
  <2> HIDE DEF before, after
  <2> QED
    BY <1>1, <1>3, <1>4, OneMore
<1>7. PoolMB(before) \in Nat /\ MemoryMB[g] \in Nat
  BY <1>3, PoolAmounts, PoolAssumption
<1>8. CollectedMB(done, read) \in Nat /\ CollectedMB(done, read) <= CollectedMB(done, Warm)
  BY CollectedIsNat
<1> HIDE DEF before, after
<1> QED
  BY <1>5, <1>6, <1>7, <1>8

(* Every function takes memory.  For one that takes none a failed dismissal *)
(* may leave no trace in the accounts: its front container is destroyed,    *)
(* the second Destroy of the front fails, and the container it stood for is *)
(* out of its list.                                                         *)
EveryFunctionTakesMemory == \A f \in Functions : MemoryMB[f] > 0

LEMMA EvictionHasReason ==
    ASSUME EveryFunctionTakesMemory, Typed, Exclusive, Usable, Unblamed, [Next]_vars,
           NEW c \in Warm \ expired, c \notin (Warm \cup Busy)'
    PROVE  \/ \E r \in Requests : phase[r] = "idle" /\ phase'[r] = "reserved"
           \/ lostMemMB' # lostMemMB \/ blamed' # blamed
           \/ condemned' # condemned
           \/ terminated'
<1> USE DEF requests, pools
<1>1. PICK h \in Functions : c \in ready[h]
  BY DEF Warm
<1>2. \A g \in Functions : c \notin ready'[g] /\ c \notin busy'[g]
  BY DEF Warm, Busy
<1>3. CASE terminated
  BY <1>3 DEF Next, Invoke, ReserveFree, ReserveDismissing, DismissalFails, AcquireWarmContainer,
     InvalidRuntime, Spawn, SpawnFails, InsertNewContainer, ReleaseAfterFailure, ReleaseContainer,
     Expire, DestroyCondemned, ShutdownWarmContainersFor, StartJanitor, StopJanitor,
     DeleteExpiredContainer, ShutdownAllContainers, vars
<1>4. ASSUME UNCHANGED ready
      PROVE  FALSE
  BY <1>1, <1>2, <1>4
<1>5. ASSUME NEW r \in Requests, Invoke(r), ~terminated
      PROVE  \/ phase[r] = "idle" /\ phase'[r] = "reserved"
             \/ lostMemMB' # lostMemMB \/ blamed' # blamed
  <2>1. CASE ReserveFree(r) \/ InvalidRuntime(r) \/ Spawn(r) \/ SpawnFails(r)
             \/ InsertNewContainer(r) \/ ReleaseAfterFailure(r)
    BY <1>4, <2>1 DEF ReserveFree, InvalidRuntime, Spawn, SpawnFails, InsertNewContainer,
       ReleaseAfterFailure
  <2>2. CASE ReserveDismissing(r)
    BY <2>2 DEF ReserveDismissing, NeedsDismissal, Grant, Typed, TypeOK
  <2>3. CASE DismissalFails(r)
    <3>1. PICK F \in SUBSET Warm, done \in SUBSET Warm, g \in Functions,
                       read \in SUBSET Warm, x \in Warm :
            /\ x \in ready[g] \ done
            /\ lostMemMB' = lostMemMB + (CollectedMB(done \cup {x}, Warm) - CollectedMB(done, read))
      BY <2>3, DismissalStops DEF Warm
    <3>2. CollectedMB(done \cup {x}, Warm) - CollectedMB(done, read) > 0
      BY <3>1, DismissalLoses DEF EveryFunctionTakesMemory, Typed
    <3>3. /\ CollectedMB(done, read) \in Nat /\ CollectedMB(done \cup {x}, Warm) \in Nat
          /\ lostMemMB \in Nat
      <4>1. done \subseteq done \cup {x} /\ TypeOK
        BY DEF Typed
      <4> QED
        BY <4>1, CollectedIsNat DEF TypeOK
    <3> QED
      BY <3>1, <3>2, <3>3
  <2>4. CASE AcquireWarmContainer(r)
    <3>1. PICK contID \in ready[FunOf[r]] :
            /\ RemoveReady({contID})
            /\ busy' = [busy EXCEPT ![FunOf[r]] = @ \cup {contID}]
      BY <2>4 DEF AcquireWarmContainer
    <3>2. CASE c = contID
      BY <1>2, <3>1, <3>2, DemandsAreNat DEF Typed, TypeOK
    <3>3. CASE c # contID
      BY <1>1, <1>2, <3>1, <3>3 DEF RemoveReady
    <3> QED
      BY <3>2, <3>3
  <2>5. CASE ReleaseContainer(r)
    <3>1. ready' = [ready EXCEPT ![FunOf[r]] = @ \cup {cont[r]}]
      BY <2>5 DEF ReleaseContainer
    <3>2. ready[h] \subseteq ready'[h]
      BY <3>1 DEF Typed, TypeOK
    <3> QED
      BY <1>1, <1>2, <3>2
  <2> QED
    BY <1>5, <2>1, <2>2, <2>3, <2>4, <2>5 DEF Invoke
<1>6. ASSUME NEW d \in ContainerIDs, Expire(d) \/ DestroyCondemned(d)
      PROVE  FALSE
  BY <1>4, <1>6 DEF Expire, DestroyCondemned
<1>7. ASSUME NEW g \in Functions, ShutdownWarmContainersFor(g)
      PROVE  condemned' # condemned
  <2>1. ready' = [f \in Functions |-> ready[f] \ ready[g]] /\ condemned' = condemned \cup ready[g]
    BY <1>7 DEF ShutdownWarmContainersFor, RemoveReady
  <2>2. c \in ready[g]
    BY <1>1, <1>2, <2>1
  <2>3. c \notin condemned
    BY WarmIsFree
  <2> QED
    BY <2>1, <2>2, <2>3
<1>8. CASE StartJanitor \/ StopJanitor \/ UNCHANGED vars
  BY <1>4, <1>8 DEF StartJanitor, StopJanitor, vars
<1>9. CASE DeleteExpiredContainer
  <2>1. ready' = [f \in Functions |-> ready[f] \ (expired \cap Warm)]
    BY <1>9 DEF DeleteExpiredContainer, RemoveReady
  <2> QED
    BY <1>1, <1>2, <2>1
<1>10. CASE ShutdownAllContainers
  BY <1>10 DEF ShutdownAllContainers
<1> QED
  BY <1>3, <1>5, <1>6, <1>7, <1>8, <1>9, <1>10 DEF Next

(* A warm container that has not expired leaves the pool only for a         *)
(* reservation that is granted in the same step, unless Destroy failed, its *)
(* function is being shut down or the node is (dismissContainer).           *)
THEOREM EvictionsAreForReservations ==
    ASSUME EveryFunctionTakesMemory
    PROVE  Spec => EvictedForAReservation
<1> DEFINE Inv == Typed /\ Exclusive /\ Usable /\ Unblamed
<1>1. Init => Inv
  <2>1. Init => Unblamed
    BY DEF Init, Unblamed
  <2>2. Init => Usable
    BY DEF Init, Usable, Warm, Busy, Held
  <2> QED
    BY <2>1, <2>2, InitTyped, InitExclusive
<1>2. Inv /\ [Next]_vars => Inv'
  BY NextTyped, NextExclusive, NextUsable, NextUnblamed
<1>3. Inv /\ [Next]_vars =>
        [(\E c \in Warm \ expired : c \notin (Warm \cup Busy)') =>
          \/ \E r \in Requests : phase[r] = "idle" /\ phase'[r] = "reserved"
          \/ lostMemMB' # lostMemMB \/ blamed' # blamed
          \/ condemned' # condemned
          \/ terminated']_vars
  BY EvictionHasReason
<1> QED
  BY <1>1, <1>2, <1>3, PTL DEF Spec, EvictedForAReservation

-----------------------------------------------------------------------------
(* The contract with the requests. *)

(* What happens to no lease creates containers that are new or destroys     *)
(* some that nobody has.                                                    *)
LEMMA WithoutLease ==
    ASSUME UNCHANGED <<cont, terminated>>,
           \/ alive' \subseteq alive /\ alive \cap Held \subseteq alive'
           \/ \E c \in Fresh : alive' = alive \cup {c}
    PROVE  [Contract!Next]_(Contract!contract)
<1>1. CASE alive' \subseteq alive /\ alive \cap Held \subseteq alive'
  BY <1>1 DEF Held, Contract!Leased, Contract!Destroy, Contract!Next
<1>2. CASE \E c \in Fresh : alive' = alive \cup {c}
  <2>1. PICK c \in Fresh : alive' = alive \cup {c}
    BY <1>2
  <2>2. c \in ContainerIDs /\ c \notin alive \cup Held
    BY DEF Fresh
  <2>3. Contract!Create(c)
    BY <2>1, <2>2 DEF Held, Contract!Leased, Contract!Create
  <2> QED
    BY <2>2, <2>3 DEF Contract!Next
<1> QED
  BY <1>1, <1>2

LEMMA InvokeKeepsContract ==
    ASSUME Typed, Exclusive, Usable, NEW r \in Requests, Invoke(r)
    PROVE  [Contract!Next]_(Contract!contract)
<1> USE DEF requests, pools
<1>0. cont \in [Requests -> ContainerIDs \cup {NoContainer}] /\ FunOf[r] \in Functions
  BY DemandsAreNat DEF Typed, TypeOK
<1>1. Warm \cap Held = {}
  BY WarmIsFree
<1>2. CASE ReserveFree(r) \/ InvalidRuntime(r) \/ ReleaseAfterFailure(r) \/ InsertNewContainer(r)
  <2>1. UNCHANGED <<cont, alive, terminated>>
    BY <1>2 DEF ReserveFree, InvalidRuntime, ReleaseAfterFailure, InsertNewContainer
  <2> QED
    BY <2>1 DEF Contract!contract
<1>3. CASE SpawnFails(r)
  <2>1. UNCHANGED <<cont, terminated>> /\ (UNCHANGED alive \/ \E c \in Fresh : alive' = alive \cup {c})
    BY <1>3 DEF SpawnFails
  <2> QED
    BY <2>1, WithoutLease
<1>4. CASE ReserveDismissing(r)
  <2>1. PICK S \in SUBSET Warm : \E F \in SUBSET S : alive' = alive \ F
    BY <1>4 DEF ReserveDismissing
  <2>2. UNCHANGED <<cont, terminated>>
    BY <1>4 DEF ReserveDismissing
  <2> QED
    BY <1>1, <2>1, <2>2, WithoutLease
<1>5. CASE DismissalFails(r)
  <2>1. PICK F \in SUBSET Warm : \E done \in SUBSET Warm : alive' = alive \ (F \cap done)
    BY <1>5, DismissalStops
  <2>2. UNCHANGED <<cont, terminated>>
    BY <1>5 DEF DismissalFails
  <2> QED
    BY <1>1, <2>1, <2>2, WithoutLease
<1>6. CASE AcquireWarmContainer(r)
  <2>1. UNCHANGED <<alive, terminated>> /\ phase[r] = "idle"
    BY <1>6 DEF AcquireWarmContainer
  <2>2. PICK c \in ready[FunOf[r]] : cont' = [cont EXCEPT ![r] = c] \/ UNCHANGED cont
    BY <1>6 DEF AcquireWarmContainer
  <2>3. CASE UNCHANGED cont
    BY <2>1, <2>3 DEF Contract!contract
  <2>4. CASE cont' = [cont EXCEPT ![r] = c]
    <3>1. c \in Warm /\ c \in ContainerIDs
      BY <1>0, <2>2 DEF Warm, Typed, TypeOK
    <3>2. cont[r] = NoContainer
      BY <2>1 DEF Typed, Holding
    <3>3. c \in alive \/ terminated
      BY <3>1 DEF Usable
    <3>4. Contract!Reuse(r, c)
      BY <1>1, <2>1, <2>4, <3>1, <3>2, <3>3
         DEF Held, Contract!Leased, Contract!Give, Contract!Reuse
    <3> QED
      BY <3>1, <3>4 DEF Contract!Next
  <2> QED
    BY <2>2, <2>3, <2>4
<1>7. CASE Spawn(r)
  <2>1. PICK c \in Fresh : alive' = alive \cup {c} /\ cont' = [cont EXCEPT ![r] = c]
    BY <1>7 DEF Spawn
  <2>2. c \in ContainerIDs /\ c \notin alive \cup Held
    BY DEF Fresh
  <2>3. cont[r] = NoContainer /\ UNCHANGED terminated
    BY <1>7 DEF Spawn, Typed, Holding
  <2>4. Contract!New(r, c)
    BY <2>1, <2>2, <2>3 DEF Held, Contract!Leased, Contract!Give, Contract!New
  <2> QED
    BY <2>2, <2>4 DEF Contract!Next
<1>8. CASE ReleaseContainer(r)
  <2>1. /\ cont[r] # NoContainer /\ cont' = [cont EXCEPT ![r] = NoContainer]
        /\ UNCHANGED <<alive, terminated>>
    BY <1>8 DEF ReleaseContainer, Typed, Holding
  <2>2. Contract!Return(r)
    BY <2>1 DEF Contract!Return
  <2> QED
    BY <2>2 DEF Contract!Next
<1> QED
  BY <1>2, <1>3, <1>4, <1>5, <1>6, <1>7, <1>8 DEF Invoke

LEMMA NextKeepsContract ==
    ASSUME Typed, Exclusive, Usable, [Next]_vars
    PROVE  [Contract!Next]_(Contract!contract)
<1> USE DEF requests, pools
<1>1. Warm \cap Held = {} /\ condemned \cap Held = {}
  BY WarmIsFree DEF Exclusive
<1>2. ASSUME NEW r \in Requests, Invoke(r)
      PROVE  [Contract!Next]_(Contract!contract)
  BY <1>2, InvokeKeepsContract
<1>3. CASE \/ \E c \in ContainerIDs : Expire(c)
           \/ \E f \in Functions : ShutdownWarmContainersFor(f)
           \/ StartJanitor \/ StopJanitor \/ UNCHANGED vars
  <2>1. UNCHANGED <<cont, alive, terminated>>
    BY <1>3 DEF Expire, ShutdownWarmContainersFor, StartJanitor, StopJanitor, vars
  <2> QED
    BY <2>1 DEF Contract!contract
<1>4. ASSUME NEW c \in ContainerIDs, DestroyCondemned(c)
      PROVE  [Contract!Next]_(Contract!contract)
  <2>1. UNCHANGED <<cont, terminated>> /\ (alive' = alive \ {c} \/ alive' = alive) /\ c \notin Held
    BY <1>1, <1>4 DEF DestroyCondemned
  <2> QED
    BY <2>1, WithoutLease
<1>5. CASE DeleteExpiredContainer
  <2>1. PICK survivors : alive' = alive \ ((expired \cap Warm) \ survivors)
    BY <1>5 DEF DeleteExpiredContainer
  <2>2. UNCHANGED <<cont, terminated>>
    BY <1>5 DEF DeleteExpiredContainer
  <2> QED
    BY <1>1, <2>1, <2>2, WithoutLease
<1>6. CASE ShutdownAllContainers
  <2>1. /\ ~terminated /\ terminated' = TRUE /\ UNCHANGED cont
        /\ \E survivors : alive' = alive \ ((Warm \cup Busy) \ survivors)
    BY <1>6 DEF ShutdownAllContainers
  <2>2. Contract!ShutDown
    BY <2>1 DEF Contract!ShutDown
  <2> QED
    BY <2>2 DEF Contract!Next
<1> QED
  BY <1>2, <1>3, <1>4, <1>5, <1>6 DEF Next

(* The pool keeps the contract it has with the requests: a container that   *)
(* is granted is nobody else's, stays that of the request until it is       *)
(* released, and exists until then or until the shutdown.                   *)
THEOREM PoolKeepsContract == Spec => ImplementsContract
<1> DEFINE Inv == Typed /\ Exclusive /\ Usable
<1>1. Init => Inv
  <2>1. Init => Usable
    BY DEF Init, Usable, Warm, Busy, Held
  <2> QED
    BY <2>1, InitTyped, InitExclusive
<1>2. Inv /\ [Next]_vars => Inv'
  BY NextTyped, NextExclusive, NextUsable
<1>3. Inv /\ [Next]_vars => [Contract!Next]_(Contract!contract)
  BY NextKeepsContract
<1>4. Init => Contract!Init
  BY DEF Init, Contract!Init
<1> QED
  BY <1>1, <1>2, <1>3, <1>4, PTL DEF Spec, ImplementsContract, Contract!Spec
=============================================================================
