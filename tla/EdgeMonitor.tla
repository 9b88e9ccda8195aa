------------------------------ MODULE EdgeMonitor ------------------------------
(***************************************************************************)
(* How the edge nodes of an area know one another: the registration in etcd *)
(* under a lease (client/src/registration/registry.go), the goroutine that  *)
(* watches the other nodes (registryLog.go), and the status information     *)
(* they exchange over UDP (edgeNetUDPDiscovery.go).                         *)
(*                                                                          *)
(* The monitoring goroutine holds RwMtx while phase is "monitoring" or      *)
(* "nearby": who reads its maps waits until then.                           *)
(*                                                                          *)
(* Abstractions.  A key is the node that registered it and the number of    *)
(* the registration; the url it is mapped to is the node.  An entry of a    *)
(* map is its key: the status in it and the coordinates that give the       *)
(* distances are not kept, so that any order of distances is possible.      *)
(* The goroutines that wait to send to etcdCh are one (they only ask for    *)
(* what the ticker may start as well).  Every request has a socket of its   *)
(* own: a late answer reaches nobody.                                       *)
(***************************************************************************)
EXTENDS Integers, FiniteSets

CONSTANTS
    Servers,    \* the edge nodes of the area
    Watchers,   \* bound: the nodes whose monitoring goroutine takes steps
    Oversized,  \* nodes whose status may be longer than the buffer, 1024 bytes
    Failing,    \* bound: the nodes whose process or registration fails
    Rank,       \* how many neighbours monitoring asks getRank for, 2
    MaxKeys,    \* bound: how often each node registers
    NoKey

ASSUME EdgeAssumption ==
    /\ Watchers \subseteq Servers /\ Oversized \subseteq Servers /\ Failing \subseteq Servers
    /\ Rank \in Nat /\ MaxKeys \in [Servers -> Nat]
    /\ NoKey \notin Servers \X Nat

VARIABLES
    registered,       \* the keys that are in etcd
    Key,              \* Reg.Key: the number of the last registration, or 0
    reg,              \* how far the registration of each node is
    serversMap,       \* Reg.serversMap
    NearbyServersMap, \* Reg.NearbyServersMap
    phase,            \* what the monitoring goroutine is doing
    etcdServerMap,    \* what monitoring last got from etcd
    todo,             \* the keys its loop has not visited
    asked,            \* the key whose server it waits for in statusInfoRequest
    stuck,            \* the request or its answer is lost
    etcdCh            \* a goroutine waits to send to Reg.etcdCh

registry == <<registered, Key, reg>>
maps == <<serversMap, NearbyServersMap>>
loop == <<phase, etcdServerMap, todo, asked, stuck, etcdCh>>
vars == <<registry, maps, loop>>

Keys == UNION {{s} \X (1..MaxKeys[s]) : s \in Servers}

MyKey(s) == <<s, Key[s]>>

(* UDPStatusServer runs from InitEdgeMonitoring until the process ends. *)
Listening(s) == phase[s] # "off"

TypeOK ==
    /\ registered \subseteq Keys
    /\ Key \in [Servers -> Nat]
    /\ reg \in [Servers -> {"down", "granted", "kept", "lapsed"}]
    /\ serversMap \in [Servers -> SUBSET Keys]
    /\ NearbyServersMap \in [Servers -> SUBSET Keys]
    /\ phase \in [Servers -> {"off", "idle", "monitoring", "nearby"}]
    /\ etcdServerMap \in [Servers -> SUBSET Keys]
    /\ todo \in [Servers -> SUBSET Keys]
    /\ asked \in [Servers -> Keys \cup {NoKey}]
    /\ stuck \in [Servers -> BOOLEAN] /\ etcdCh \in [Servers -> BOOLEAN]
    /\ \A s \in Servers :
         /\ Key[s] <= MaxKeys[s] /\ (Key[s] > 0 \/ reg[s] = "down")
         /\ stuck[s] => asked[s] # NoKey
         /\ phase[s] \in {"off", "idle"} => todo[s] = {} /\ asked[s] = NoKey
         /\ phase[s] # "off" => reg[s] \in {"kept", "lapsed"}

Init ==
    /\ registered = {}
    /\ Key = [s \in Servers |-> 0] /\ reg = [s \in Servers |-> "down"]
    /\ serversMap = [s \in Servers |-> {}]
    /\ NearbyServersMap = [s \in Servers |-> {}]
    /\ phase = [s \in Servers |-> "off"]
    /\ etcdServerMap = [s \in Servers |-> {}] /\ todo = [s \in Servers |-> {}]
    /\ asked = [s \in Servers |-> NoKey]
    /\ stuck = [s \in Servers |-> FALSE] /\ etcdCh = [s \in Servers |-> FALSE]

-----------------------------------------------------------------------------
(* Registration: RegisterToEtcd, its lease, Deregister. *)

Enter(s, step) == reg' = [reg EXCEPT ![s] = step]

(* A process starts and registers: a new key, and a lease for it. *)
Grant(s) ==
    /\ reg[s] = "down" /\ Key[s] < MaxKeys[s]
    /\ Key' = [Key EXCEPT ![s] = @ + 1]
    /\ Enter(s, "granted")
    /\ UNCHANGED <<registered, maps, loop>>

(* The Put and the KeepAlive that follows it. *)
Put(s) ==
    /\ reg[s] = "granted"
    /\ registered' = registered \cup {MyKey(s)}
    /\ Enter(s, "kept")
    /\ UNCHANGED <<Key, maps, loop>>

(* A Put that fails, before or after it took effect, ends the process, and  *)
(* so does a KeepAlive.                                                     *)
PutFails(s) ==
    /\ s \in Failing
    /\ reg[s] = "granted"
    /\ registered' \in {registered, registered \cup {MyKey(s)}}
    /\ Enter(s, "down")
    /\ UNCHANGED <<Key, maps, loop>>

(* Etcd has not answered for too long: the channel is closed, the goroutine *)
(* that reads it ends, and nobody registers the node again.                 *)
KeepAliveEnds(s) ==
    /\ s \in Failing
    /\ reg[s] = "kept"
    /\ Enter(s, "lapsed")
    /\ UNCHANGED <<registered, Key, maps, loop>>

(* Etcd deletes a key whose lease nobody renews. *)
LeaseExpires(k) ==
    /\ k \in registered
    /\ ~(reg[k[1]] = "kept" /\ k = MyKey(k[1]))
    /\ registered' = registered \ {k}
    /\ UNCHANGED <<Key, reg, maps, loop>>

Deregister(s) ==
    /\ s \in Failing
    /\ reg[s] \in {"kept", "lapsed"}
    /\ registered' = registered \ {MyKey(s)}
    /\ UNCHANGED <<Key, reg, maps, loop>>

(* The process ends: what it knew and what it was doing are gone. *)
Forget(s) ==
    /\ serversMap' = [serversMap EXCEPT ![s] = {}]
    /\ NearbyServersMap' = [NearbyServersMap EXCEPT ![s] = {}]
    /\ etcdServerMap' = [etcdServerMap EXCEPT ![s] = {}]
    /\ todo' = [todo EXCEPT ![s] = {}]
    /\ asked' = [asked EXCEPT ![s] = NoKey]
    /\ stuck' = [stuck EXCEPT ![s] = FALSE]
    /\ etcdCh' = [etcdCh EXCEPT ![s] = FALSE]

Crash(s) ==
    /\ s \in Failing
    /\ reg[s] # "down"
    /\ Enter(s, "down")
    /\ Forget(s) /\ phase' = [phase EXCEPT ![s] = "off"]
    /\ UNCHANGED <<registered, Key>>

-----------------------------------------------------------------------------
(* The monitoring goroutine: runMonitor waits for etcdCh and two tickers. *)

(* Mutant of GetAll: the node does not leave itself out. *)
GetAllWithMyself(s) == registered

(* GetAll(false) without the key of the node itself. *)
GetAll(s) == registered \ {MyKey(s)}

(* A ticker fires, or the goroutine that waits to send to etcdCh is served. *)
Woken(s) ==
    /\ s \in Watchers /\ phase[s] = "idle"
    /\ \/ UNCHANGED etcdCh
       \/ etcdCh[s] /\ etcdCh' = [etcdCh EXCEPT ![s] = FALSE]

(* monitoring locks RwMtx and reads etcd; on an error it returns and         *)
(* changes nothing.                                                         *)
BeginMonitoring(s) ==
    /\ phase' = [phase EXCEPT ![s] = "monitoring"]
    /\ etcdServerMap' = [etcdServerMap EXCEPT ![s] = GetAll(s)]
    /\ todo' = [todo EXCEPT ![s] = GetAll(s)]

SkipMonitoring(s) ==
    /\ phase' = [phase EXCEPT ![s] = "idle"]
    /\ UNCHANGED <<etcdServerMap, todo>>

(* The process listens for requests and monitors once; from then on         *)
(* runMonitor does.  Bound: only Watchers monitor.                          *)
InitEdgeMonitoring(s) ==
    /\ reg[s] \in {"kept", "lapsed"} /\ phase[s] = "off"
    /\ (s \in Watchers /\ BeginMonitoring(s)) \/ SkipMonitoring(s)
    /\ UNCHANGED <<registry, maps, asked, stuck, etcdCh>>

StartMonitoring(s) ==
    /\ Woken(s) /\ BeginMonitoring(s)
    /\ UNCHANGED <<registry, maps, asked, stuck>>

GetAllFails(s) ==
    /\ Woken(s) /\ SkipMonitoring(s)
    /\ UNCHANGED <<registry, maps, asked, stuck>>

StartNearbyMonitoring(s) ==
    /\ s \in Watchers /\ phase[s] = "idle"
    /\ phase' = [phase EXCEPT ![s] = "nearby"]
    /\ todo' = [todo EXCEPT ![s] = NearbyServersMap[s]]
    /\ UNCHANGED <<registry, maps, etcdServerMap, asked, stuck, etcdCh>>

(* statusInfoRequest for any of the keys that are left. *)
Ask(s) ==
    /\ asked[s] = NoKey
    /\ \E k \in todo[s] :
         /\ asked' = [asked EXCEPT ![s] = k]
         /\ todo' = [todo EXCEPT ![s] = @ \ {k}]
    /\ UNCHANGED <<registry, maps, phase, etcdServerMap, stuck, etcdCh>>

(* The status of the server arrives and is unmarshalled. *)
Answered(s) ==
    /\ asked[s] # NoKey /\ ~stuck[s]
    /\ Listening(asked[s][1])
    /\ serversMap' = [serversMap EXCEPT ![s] = @ \cup {asked[s]}]
    /\ asked' = [asked EXCEPT ![s] = NoKey]
    /\ UNCHANGED <<registry, NearbyServersMap, phase, etcdServerMap, todo, stuck, etcdCh>>

(* statusInfoRequest returns nil: nobody listens, or the status was cut off *)
(* at the end of the buffer.  monitoring goes on with the next server;      *)
(* nearbyMonitoring returns and has monitoring started.                     *)
Nil(s) ==
    /\ asked[s] # NoKey /\ ~stuck[s]
    /\ ~Listening(asked[s][1]) \/ asked[s][1] \in Oversized
    /\ serversMap' = [serversMap EXCEPT ![s] = @ \ {asked[s]}]
    /\ asked' = [asked EXCEPT ![s] = NoKey]

(* Mutant of Unreachable: monitoring returns at the first nil, too. *)
UnreachableEndsAll(s) ==
    /\ phase[s] = "monitoring" /\ Nil(s)
    /\ phase' = [phase EXCEPT ![s] = "idle"]
    /\ todo' = [todo EXCEPT ![s] = {}]
    /\ UNCHANGED <<registry, NearbyServersMap, etcdServerMap, stuck, etcdCh>>

(* Mutant of Unreachable: a server that cannot be reached is asked again.   *)
UnreachableIsRetried(s) ==
    /\ phase[s] = "monitoring" /\ Nil(s)
    /\ todo' = [todo EXCEPT ![s] = @ \cup {asked[s]}]
    /\ UNCHANGED <<registry, NearbyServersMap, phase, etcdServerMap, stuck, etcdCh>>

Unreachable(s) ==
    /\ phase[s] = "monitoring" /\ Nil(s)
    /\ UNCHANGED <<registry, NearbyServersMap, phase, etcdServerMap, todo, stuck, etcdCh>>

(* Mutant of UnreachableNeighbour: nearbyMonitoring leaves servers behind.  *)
UnreachableKeepsTodo(s) ==
    /\ phase[s] = "nearby" /\ Nil(s)
    /\ etcdCh' = [etcdCh EXCEPT ![s] = TRUE]
    /\ phase' = [phase EXCEPT ![s] = "idle"]
    /\ UNCHANGED <<registry, NearbyServersMap, etcdServerMap, todo, stuck>>

UnreachableNeighbour(s) ==
    /\ phase[s] = "nearby" /\ Nil(s)
    /\ etcdCh' = [etcdCh EXCEPT ![s] = TRUE]
    /\ phase' = [phase EXCEPT ![s] = "idle"]
    /\ todo' = [todo EXCEPT ![s] = {}]
    /\ UNCHANGED <<registry, NearbyServersMap, etcdServerMap, stuck>>

(* A datagram is lost, or the server ends before it answers: the goroutine  *)
(* waits in ReadFromUDP, which has no deadline, with RwMtx locked.          *)
Lose(s) ==
    /\ asked[s] # NoKey /\ ~stuck[s]
    /\ stuck' = [stuck EXCEPT ![s] = TRUE]
    /\ UNCHANGED <<registry, maps, phase, etcdServerMap, todo, asked, etcdCh>>

(* Mutant of getRank: the map of the neighbours is never made anew. *)
RankAdds(near, servers) ==
    IF Rank > Cardinality(servers) THEN {near \cup servers}
    ELSE {near \cup S : S \in {S \in SUBSET servers : Cardinality(S) = Rank}}

(* The maps getRank may leave, the old one being near: the nearest servers, *)
(* or all of them besides the old ones when there are too few.              *)
getRank(near, servers) ==
    IF Rank > Cardinality(servers) THEN {near \cup servers}
    ELSE {S \in SUBSET servers : Cardinality(S) = Rank}

(* Mutant of Registered: servers that are no longer registered are kept. *)
AllKnown(s) == serversMap[s]

(* What monitoring keeps: servers that etcd listed. *)
Registered(s) == serversMap[s] \cap etcdServerMap[s]

EndMonitoring(s) ==
    /\ phase[s] = "monitoring" /\ todo[s] = {} /\ asked[s] = NoKey
    /\ serversMap' = [serversMap EXCEPT ![s] = Registered(s)]
    /\ \E near \in getRank(NearbyServersMap[s], Registered(s)) :
         NearbyServersMap' = [NearbyServersMap EXCEPT ![s] = near]
    /\ phase' = [phase EXCEPT ![s] = "idle"]
    /\ UNCHANGED <<registry, etcdServerMap, todo, asked, stuck, etcdCh>>

EndNearbyMonitoring(s) ==
    /\ phase[s] = "nearby" /\ todo[s] = {} /\ asked[s] = NoKey
    /\ phase' = [phase EXCEPT ![s] = "idle"]
    /\ UNCHANGED <<registry, maps, etcdServerMap, todo, asked, stuck, etcdCh>>

-----------------------------------------------------------------------------
Register(s) == Grant(s) \/ Put(s) \/ PutFails(s)

Returns(s) == Answered(s) \/ Unreachable(s) \/ UnreachableNeighbour(s)

Monitor(s) ==
    \/ StartMonitoring(s) \/ GetAllFails(s) \/ StartNearbyMonitoring(s)
    \/ Ask(s) \/ Returns(s) \/ EndMonitoring(s) \/ EndNearbyMonitoring(s)

Next ==
    \/ \E s \in Servers :
         \/ Register(s) \/ KeepAliveEnds(s) \/ Deregister(s) \/ Crash(s)
         \/ InitEdgeMonitoring(s) \/ Monitor(s) \/ Lose(s)
    \/ \E k \in Keys : LeaseExpires(k)

(* The goroutine goes on, a request that is not lost is answered or         *)
(* refused, select picks every ticker and channel again and again, etcd     *)
(* answers again and again, and leases end.                                 *)
Fairness ==
    /\ \A s \in Watchers :
         /\ WF_vars(Ask(s)) /\ WF_vars(Returns(s))
         /\ WF_vars(EndMonitoring(s)) /\ WF_vars(EndNearbyMonitoring(s))
         /\ SF_vars(StartMonitoring(s))
    /\ \A k \in Keys : WF_vars(LeaseExpires(k))

Spec == Init /\ [][Next]_vars /\ Fairness

-----------------------------------------------------------------------------
(* Properties. *)

(* "not consider myself": a node watches itself only under the key of an    *)
(* earlier run of its process, whose lease has not ended.                   *)
NotMyself ==
    \A s \in Servers : MyKey(s) \notin serversMap[s] \cup NearbyServersMap[s]

(* Between its phases, a node knows a server only because etcd listed it in *)
(* the last complete monitoring, or because it is a neighbour: neighbours   *)
(* survive the end of their registration.                                   *)
KnownForAReason ==
    \A s \in Servers :
        phase[s] = "idle" => serversMap[s] \subseteq etcdServerMap[s] \cup NearbyServersMap[s]

(* RwMtx is released unless a datagram is lost. *)
LockReleased ==
    \A s \in Watchers :
        phase[s] \in {"monitoring", "nearby"} ~> (phase[s] \in {"idle", "off"} \/ stuck[s])

(* A server that registered, that listens and whose status always fits in   *)
(* the buffer becomes known to every node that watches, whatever other servers  *)
(* do, unless the node waits for a lost datagram.                           *)
ServerIsFound ==
    \A s \in Watchers : \A r \in Servers \ (Oversized \cup {s}) :
        (Listening(s) /\ Listening(r) /\ MyKey(r) \in registered)
            ~> \/ MyKey(r) \in serversMap[s]
               \/ ~Listening(s) \/ stuck[s]
               \/ ~Listening(r) \/ MyKey(r) \notin registered

(* A neighbour that is no longer registered is replaced, unless fewer than  *)
(* Rank servers are left, or the node waits for a lost datagram.            *)
NeighbourIsReplaced ==
    \A s \in Watchers : \A k \in Keys :
        (k \in NearbyServersMap[s] /\ k \notin registered)
            ~> \/ k \notin NearbyServersMap[s]
               \/ Cardinality(serversMap[s]) < Rank
               \/ stuck[s]
================================================================================
