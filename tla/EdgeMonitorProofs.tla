--------------------------- MODULE EdgeMonitorProofs ---------------------------
(***************************************************************************)
(* Theorems about EdgeMonitor, for any set of nodes, any number of          *)
(* registrations and any rank: types, that a node never watches itself      *)
(* under the key of this run, and why it knows the servers it knows.        *)
(***************************************************************************)
EXTENDS EdgeMonitor, TLAPS

LEMMA KeyIsServerAndNumber == ASSUME NEW k \in Keys
                              PROVE  k \in Servers \X Nat /\ k # NoKey
BY EdgeAssumption DEF Keys

LEMMA MyKeyIsKey == ASSUME TypeOK, NEW s \in Servers, reg[s] # "down"
                    PROVE  MyKey(s) \in Keys
<1>1. MaxKeys[s] \in Nat /\ Key[s] \in 1..MaxKeys[s]
  BY EdgeAssumption DEF TypeOK
<1> QED BY <1>1 DEF MyKey, Keys

LEMMA RankOfKeys ==
    ASSUME NEW near \in SUBSET Keys, NEW servers \in SUBSET Keys,
           NEW S \in getRank(near, servers)
    PROVE  S \subseteq near \cup servers
BY DEF getRank

LEMMA TypeInit == Init => TypeOK
BY EdgeAssumption DEF Init, TypeOK

LEMMA TypeNext == TypeOK /\ [Next]_vars => TypeOK'
<1> SUFFICES ASSUME TypeOK, [Next]_vars PROVE TypeOK' OBVIOUS
<1> USE DEF TypeOK, registry, maps, loop
<1>1. ASSUME NEW s \in Servers, Grant(s) PROVE TypeOK'
  <2>1. Key[s] + 1 \in Nat /\ Key[s] + 1 <= MaxKeys[s] /\ Key[s] + 1 > 0
    <3>1. Key[s] \in Nat OBVIOUS
    <3>2. MaxKeys[s] \in Nat BY EdgeAssumption
    <3>3. Key[s] < MaxKeys[s] BY <1>1 DEF Grant
    <3> HIDE DEF TypeOK
    <3> QED BY <3>1, <3>2, <3>3
  <2>2. Key' = [Key EXCEPT ![s] = Key[s] + 1] BY <1>1 DEF Grant
  <2>3. /\ Key' \in [Servers -> Nat] /\ Key'[s] = Key[s] + 1
        /\ \A t \in Servers \ {s} : Key'[t] = Key[t]
    BY <2>1, <2>2
  <2> QED BY <1>1, <2>1, <2>3 DEF Grant, Enter
<1>2. ASSUME NEW s \in Servers, Put(s) PROVE TypeOK'
  BY <1>2, MyKeyIsKey DEF Put, Enter
<1>3. ASSUME NEW s \in Servers, PutFails(s) PROVE TypeOK'
  BY <1>3, MyKeyIsKey DEF PutFails, Enter
<1>4. ASSUME NEW s \in Servers, KeepAliveEnds(s) PROVE TypeOK'
  BY <1>4 DEF KeepAliveEnds, Enter
<1>5. ASSUME NEW s \in Servers, Deregister(s) PROVE TypeOK'
  BY <1>5 DEF Deregister
<1>6. ASSUME NEW s \in Servers, Crash(s) PROVE TypeOK'
  BY <1>6 DEF Crash, Enter, Forget
<1>7. ASSUME NEW s \in Servers, InitEdgeMonitoring(s) PROVE TypeOK'
  BY <1>7 DEF InitEdgeMonitoring, BeginMonitoring, SkipMonitoring, GetAll
<1>8. ASSUME NEW s \in Servers, StartMonitoring(s) PROVE TypeOK'
  BY <1>8 DEF StartMonitoring, Woken, BeginMonitoring, GetAll
<1>9. ASSUME NEW s \in Servers, GetAllFails(s) PROVE TypeOK'
  BY <1>9 DEF GetAllFails, Woken, SkipMonitoring
<1>10. ASSUME NEW s \in Servers, StartNearbyMonitoring(s) PROVE TypeOK'
  BY <1>10 DEF StartNearbyMonitoring
<1>11. ASSUME NEW s \in Servers, Ask(s) PROVE TypeOK'
  BY <1>11, KeyIsServerAndNumber DEF Ask
<1>12. ASSUME NEW s \in Servers, Answered(s) PROVE TypeOK'
  BY <1>12 DEF Answered
<1>13. ASSUME NEW s \in Servers, Unreachable(s) PROVE TypeOK'
  BY <1>13 DEF Unreachable, Nil
<1>14. ASSUME NEW s \in Servers, UnreachableNeighbour(s) PROVE TypeOK'
  BY <1>14 DEF UnreachableNeighbour, Nil
<1>15. ASSUME NEW s \in Servers, EndMonitoring(s) PROVE TypeOK'
  <2>1. PICK near \in getRank(NearbyServersMap[s], Registered(s)) :
          NearbyServersMap' = [NearbyServersMap EXCEPT ![s] = near]
    BY <1>15 DEF EndMonitoring
  <2>2. Registered(s) \subseteq Keys BY DEF Registered
  <2>3. near \subseteq Keys BY <2>2, RankOfKeys
  <2> QED BY <1>15, <2>1, <2>2, <2>3 DEF EndMonitoring
<1>16. ASSUME NEW s \in Servers, EndNearbyMonitoring(s) PROVE TypeOK'
  BY <1>16 DEF EndNearbyMonitoring
<1>17. ASSUME NEW s \in Servers, Lose(s) PROVE TypeOK'
  BY <1>17 DEF Lose
<1>18. ASSUME NEW k \in Keys, LeaseExpires(k) PROVE TypeOK'
  BY <1>18 DEF LeaseExpires
<1>19. CASE UNCHANGED vars BY <1>19 DEF vars
<1> QED
  BY <1>1, <1>2, <1>3, <1>4, <1>5, <1>6, <1>7, <1>8, <1>9, <1>10, <1>11, <1>12,
     <1>13, <1>14, <1>15, <1>16, <1>17, <1>18, <1>19
     DEF Next, Register, Returns, Monitor

(* Every reachable state is well typed: a key in etcd, in a map or in a     *)
(* request is one that a node registered, nothing is asked between the      *)
(* phases, and only a node that registered monitors.                        *)
THEOREM TypeCorrect == Spec => []TypeOK
BY TypeInit, TypeNext, PTL DEF Spec

-----------------------------------------------------------------------------
(* NotMyself and KnownForAReason are inductive only together with what the  *)
(* goroutine still carries: a key it has read from etcd or is waiting for   *)
(* will be in a map later, and a process that starts again knows nothing.   *)

CarriesOthers ==
    \A s \in Servers :
        /\ MyKey(s) \notin todo[s] \cup etcdServerMap[s] /\ asked[s] # MyKey(s)
        /\ MyKey(s) \notin serversMap[s] \cup NearbyServersMap[s]
        /\ phase[s] = "off" =>
             serversMap[s] \cup NearbyServersMap[s] \cup etcdServerMap[s] = {}

CarriesNeighbours ==
    \A s \in Servers :
        /\ phase[s] \in {"off", "idle", "nearby"} =>
             serversMap[s] \subseteq etcdServerMap[s] \cup NearbyServersMap[s]
        /\ phase[s] = "nearby" =>
             todo[s] \subseteq NearbyServersMap[s] /\ asked[s] \in NearbyServersMap[s] \cup {NoKey}

IInv == TypeOK /\ CarriesOthers /\ CarriesNeighbours

LEMMA CarriesInit == Init => IInv
<1> SUFFICES ASSUME Init PROVE IInv OBVIOUS
<1>1. \A s \in Servers : MyKey(s) # NoKey
  BY EdgeAssumption DEF Init, MyKey
<1> QED BY <1>1, TypeInit DEF Init, IInv, CarriesOthers, CarriesNeighbours

LEMMA OthersNext == IInv /\ [Next]_vars => CarriesOthers'
<1> SUFFICES ASSUME IInv, [Next]_vars PROVE CarriesOthers' OBVIOUS
<1> USE DEF IInv, TypeOK, CarriesOthers, registry, maps, loop
<1>1. ASSUME NEW s \in Servers, Grant(s) PROVE CarriesOthers'
  <2>1. phase[s] = "off" /\ asked[s] = NoKey /\ todo[s] = {} BY <1>1 DEF Grant
  <2>2. MyKey(s)' # NoKey
    BY <1>1, EdgeAssumption DEF Grant, MyKey
  <2>3. \A t \in Servers \ {s} : MyKey(t)' = MyKey(t) BY <1>1 DEF Grant, MyKey
  <2> QED BY <1>1, <2>1, <2>2, <2>3 DEF Grant
<1>2. ASSUME UNCHANGED <<Key, maps, loop>> PROVE CarriesOthers'
  BY <1>2 DEF MyKey
<1>3. ASSUME NEW s \in Servers, Crash(s) PROVE CarriesOthers'
  <2>1. MyKey(s) # NoKey BY EdgeAssumption DEF MyKey
  <2> QED BY <1>3, <2>1 DEF Crash, Forget, MyKey
<1>4. ASSUME UNCHANGED Key PROVE \A s \in Servers : MyKey(s)' = MyKey(s)
  BY <1>4 DEF MyKey
<1>5. ASSUME NEW s \in Servers, InitEdgeMonitoring(s) PROVE CarriesOthers'
  BY <1>4, <1>5 DEF InitEdgeMonitoring, BeginMonitoring, SkipMonitoring, GetAll
<1>6. ASSUME NEW s \in Servers, StartMonitoring(s) \/ GetAllFails(s) PROVE CarriesOthers'
  BY <1>4, <1>6 DEF StartMonitoring, GetAllFails, Woken, BeginMonitoring, SkipMonitoring, GetAll
<1>7. ASSUME NEW s \in Servers, StartNearbyMonitoring(s) PROVE CarriesOthers'
  BY <1>4, <1>7 DEF StartNearbyMonitoring
<1>8. ASSUME NEW s \in Servers, Ask(s) PROVE CarriesOthers'
  BY <1>4, <1>8 DEF Ask
<1>9. ASSUME NEW s \in Servers, Answered(s) PROVE CarriesOthers'
  <2>1. MyKey(s) # NoKey BY EdgeAssumption DEF MyKey
  <2> QED BY <1>4, <1>9, <2>1 DEF Answered
<1>10. ASSUME NEW s \in Servers, Unreachable(s) \/ UnreachableNeighbour(s)
       PROVE  CarriesOthers'
  <2>1. MyKey(s) # NoKey BY EdgeAssumption DEF MyKey
  <2> QED BY <1>4, <1>10, <2>1 DEF Unreachable, UnreachableNeighbour, Nil
<1>11. ASSUME NEW s \in Servers, EndMonitoring(s) PROVE CarriesOthers'
  <2>1. PICK near \in getRank(NearbyServersMap[s], Registered(s)) :
          NearbyServersMap' = [NearbyServersMap EXCEPT ![s] = near]
    BY <1>11 DEF EndMonitoring
  <2>2. Registered(s) \subseteq Keys /\ MyKey(s) \notin Registered(s) BY DEF Registered
  <2>3. MyKey(s) \notin near BY <2>2, RankOfKeys
  <2> QED BY <1>4, <1>11, <2>1, <2>2, <2>3 DEF EndMonitoring
<1>12. ASSUME NEW s \in Servers, EndNearbyMonitoring(s) \/ Lose(s) PROVE CarriesOthers'
  BY <1>4, <1>12 DEF EndNearbyMonitoring, Lose
<1>13. CASE UNCHANGED vars BY <1>2, <1>13 DEF vars
<1>14. ASSUME NEW s \in Servers,
              Put(s) \/ PutFails(s) \/ KeepAliveEnds(s) \/ Deregister(s)
       PROVE  CarriesOthers'
  BY <1>2, <1>14 DEF Put, PutFails, KeepAliveEnds, Deregister
<1>15. ASSUME NEW k \in Keys, LeaseExpires(k) PROVE CarriesOthers'
  BY <1>2, <1>15 DEF LeaseExpires
<1> QED
  BY <1>1, <1>3, <1>5, <1>6, <1>7, <1>8, <1>9, <1>10, <1>11, <1>12, <1>13, <1>14, <1>15
     DEF Next, Register, Returns, Monitor

LEMMA NeighboursNext == IInv /\ [Next]_vars => CarriesNeighbours'
<1> SUFFICES ASSUME IInv, [Next]_vars PROVE CarriesNeighbours' OBVIOUS
<1> USE DEF IInv, TypeOK, CarriesNeighbours, registry, maps, loop
<1>1. ASSUME UNCHANGED <<maps, loop>> PROVE CarriesNeighbours'
  BY <1>1
<1>2. ASSUME NEW s \in Servers,
             Grant(s) \/ Put(s) \/ PutFails(s) \/ KeepAliveEnds(s) \/ Deregister(s)
      PROVE  CarriesNeighbours'
  BY <1>1, <1>2 DEF Grant, Put, PutFails, KeepAliveEnds, Deregister
<1>3. ASSUME NEW k \in Keys, LeaseExpires(k) PROVE CarriesNeighbours'
  BY <1>1, <1>3 DEF LeaseExpires
<1>4. ASSUME NEW s \in Servers, Crash(s) PROVE CarriesNeighbours'
  BY <1>4 DEF Crash, Forget
<1>5. ASSUME NEW s \in Servers, InitEdgeMonitoring(s) PROVE CarriesNeighbours'
  BY <1>5 DEF InitEdgeMonitoring, BeginMonitoring, SkipMonitoring
<1>6. ASSUME NEW s \in Servers, StartMonitoring(s) \/ GetAllFails(s)
      PROVE  CarriesNeighbours'
  BY <1>6 DEF StartMonitoring, GetAllFails, Woken, BeginMonitoring, SkipMonitoring
<1>7. ASSUME NEW s \in Servers, StartNearbyMonitoring(s) PROVE CarriesNeighbours'
  BY <1>7 DEF StartNearbyMonitoring
<1>8. ASSUME NEW s \in Servers, Ask(s) PROVE CarriesNeighbours'
  BY <1>8 DEF Ask
<1>9. ASSUME NEW s \in Servers, Answered(s) PROVE CarriesNeighbours'
  BY <1>9 DEF Answered
<1>10. ASSUME NEW s \in Servers, Unreachable(s) \/ UnreachableNeighbour(s)
       PROVE  CarriesNeighbours'
  BY <1>10 DEF Unreachable, UnreachableNeighbour, Nil
<1>11. ASSUME NEW s \in Servers, EndMonitoring(s) PROVE CarriesNeighbours'
  BY <1>11 DEF EndMonitoring, Registered
<1>12. ASSUME NEW s \in Servers, EndNearbyMonitoring(s) \/ Lose(s)
       PROVE  CarriesNeighbours'
  BY <1>12 DEF EndNearbyMonitoring, Lose
<1>13. CASE UNCHANGED vars BY <1>1, <1>13 DEF vars
<1> QED
  BY <1>2, <1>3, <1>4, <1>5, <1>6, <1>7, <1>8, <1>9, <1>10, <1>11, <1>12, <1>13
     DEF Next, Register, Returns, Monitor

LEMMA CarriesNext == IInv /\ [Next]_vars => IInv'
BY TypeNext, OthersNext, NeighboursNext DEF IInv

(* "not consider myself": however often its process is started again, a     *)
(* node never has the key of its present run among the servers it knows or  *)
(* its neighbours.                                                          *)
THEOREM NeverMyself == Spec => []NotMyself
<1>1. IInv => NotMyself BY DEF IInv, CarriesOthers, NotMyself
<1> QED BY <1>1, CarriesInit, CarriesNext, PTL DEF Spec

(* Between its phases, a node knows a server only because the last complete *)
(* monitoring found it in etcd or because it is a neighbour.                *)
THEOREM ServersAreKnownForAReason == Spec => []KnownForAReason
<1>1. IInv => KnownForAReason BY DEF IInv, CarriesNeighbours, KnownForAReason
<1> QED BY <1>1, CarriesInit, CarriesNext, PTL DEF Spec
================================================================================
