---------------------------- MODULE ContainerLease ----------------------------
(***************************************************************************)
(* What the container pool promises the requests (node/pool.go): a request  *)
(* that is granted a container has it to itself until it returns it, and    *)
(* until the node shuts down the container exists all that time.  Lists,    *)
(* memory, expiration, dismissals and failures of the factory are not seen. *)
(***************************************************************************)
CONSTANTS Requests, ContainerIDs, NoContainer

VARIABLES
    lease,  \* the container each request has
    exists, \* the containers that exist
    down    \* the node has shut down

contract == <<lease, exists, down>>

Leased == {lease[r] : r \in Requests} \ {NoContainer}

Init ==
    /\ lease = [r \in Requests |-> NoContainer]
    /\ exists = {} /\ down = FALSE

Give(r, c) ==
    /\ lease[r] = NoContainer /\ c \notin Leased
    /\ lease' = [lease EXCEPT ![r] = c]
    /\ UNCHANGED down

(* A request is given a container that exists, or a new one. *)
Reuse(r, c) == Give(r, c) /\ (c \in exists \/ down) /\ UNCHANGED exists
New(r, c)   == Give(r, c) /\ c \notin exists /\ exists' = exists \cup {c}

Return(r) ==
    /\ lease[r] # NoContainer
    /\ lease' = [lease EXCEPT ![r] = NoContainer]
    /\ UNCHANGED <<exists, down>>

(* A container appears that is given to nobody; containers disappear that   *)
(* nobody has.                                                              *)
Create(c) ==
    /\ c \notin exists \cup Leased
    /\ exists' = exists \cup {c}
    /\ UNCHANGED <<lease, down>>

Destroy ==
    /\ exists' \subseteq exists /\ exists \cap Leased \subseteq exists'
    /\ UNCHANGED <<lease, down>>

(* Only the shutdown takes containers away from requests. *)
ShutDown ==
    /\ ~down /\ down' = TRUE
    /\ exists' \subseteq exists
    /\ UNCHANGED lease

Next ==
    \/ \E r \in Requests : Return(r) \/ \E c \in ContainerIDs : Reuse(r, c) \/ New(r, c)
    \/ \E c \in ContainerIDs : Create(c)
    \/ Destroy \/ ShutDown

Spec == Init /\ [][Next]_contract
===============================================================================
