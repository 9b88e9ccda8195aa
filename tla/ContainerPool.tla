---------------------------- MODULE ContainerPool ----------------------------
(***************************************************************************)
(* The container pool of a node: client/src/node/pool.go, the janitor that  *)
(* sweeps it (janitor_handler.go) and the creation of a container           *)
(* (container/container.go).                                                *)
(*                                                                          *)
(* Every operation of pool.go runs under the lock of node.Resources and is  *)
(* one step, with two exceptions: creating a container leaves the lock      *)
(* between the reservation of CPU and memory and the insertion in the busy  *)
(* list, and ShutdownWarmContainersFor destroys its containers in a         *)
(* goroutine that does not take the lock.                                   *)
(*                                                                          *)
(* Abstractions.  The lists are sets: the front of a list is any of its     *)
(* members.  An Expiration becomes past at any time (Expire).  CPU demands  *)
(* (float64) are multiples of a common unit.  A call that answers an error  *)
(* and changes nothing is a stuttering step.                                *)
(***************************************************************************)
EXTENDS Integers, FiniteSets, Totals

CONSTANTS
    Functions,      \* names of the registered functions
    Requests,       \* the goroutines that serve an invocation
    ContainerIDs,   \* bound: identifiers the container factory can hand out
    FunOf,          \* the function each request invokes
    CPUDemand,      \* function.CPUDemand
    MemoryMB,       \* function.MemoryMB
    UnknownRuntime, \* functions whose Runtime is not in RuntimeToInfo
    MaxCPUs,        \* Resources.MaxCPUs
    MaxMemMB,       \* Resources.MaxMemMB
    NoContainer     \* the empty ContainerID ""

ASSUME PoolAssumption ==
    /\ IsFiniteSet(Functions) /\ IsFiniteSet(ContainerIDs)
    /\ FunOf \in [Requests -> Functions]
    /\ CPUDemand \in [Functions -> Nat] /\ MemoryMB \in [Functions -> Nat]
    /\ UnknownRuntime \subseteq Functions
    /\ MaxCPUs \in Nat /\ MaxMemMB \in Nat
    /\ NoContainer \notin ContainerIDs

VARIABLES
    AvailableCPUs,  \* node.Resources.AvailableCPUs
    AvailableMemMB, \* node.Resources.AvailableMemMB
    ready,          \* ready[f]: the ready list of ContainerPools[f]
    busy,           \* busy[f]: the busy list of ContainerPools[f]
    expired,        \* ready containers whose Expiration is past
    alive,          \* containers that exist in the factory (cf)
    condemned,      \* removed from ready, to be destroyed by a goroutine
    phase,          \* how far each request is
    cont,           \* the container each request holds
    janitor,        \* node.Instance: "none", "running" or "stopped"
    terminated,     \* ShutdownAllContainers has run
    lostCPUs,       \* history: CPU the code dropped from its accounts
    lostMemMB,      \* history: memory the code dropped from its accounts
    blamed          \* history: containers the factory failed to start or destroy

accounts == <<AvailableCPUs, AvailableMemMB>>
pools    == <<ready, busy, expired>>
requests == <<phase, cont>>
lost     == <<lostCPUs, lostMemMB>>
vars == <<accounts, pools, alive, condemned, requests, janitor, terminated,
          lost, blamed>>

Phases == {"idle", "reserved", "spawned", "failed", "running"}

TypeOK ==
    /\ AvailableCPUs \in Int /\ AvailableMemMB \in Int
    /\ ready \in [Functions -> SUBSET ContainerIDs]
    /\ busy \in [Functions -> SUBSET ContainerIDs]
    /\ expired \subseteq ContainerIDs
    /\ alive \subseteq ContainerIDs
    /\ condemned \subseteq ContainerIDs
    /\ phase \in [Requests -> Phases]
    /\ cont \in [Requests -> ContainerIDs \cup {NoContainer}]
    /\ janitor \in {"none", "running", "stopped"}
    /\ terminated \in BOOLEAN
    /\ lostCPUs \in Nat /\ lostMemMB \in Nat
    /\ blamed \subseteq ContainerIDs

Init ==
    /\ AvailableCPUs = MaxCPUs /\ AvailableMemMB = MaxMemMB
    /\ ready = [f \in Functions |-> {}] /\ busy = [f \in Functions |-> {}]
    /\ expired = {} /\ alive = {} /\ condemned = {} /\ blamed = {}
    /\ phase = [r \in Requests |-> "idle"]
    /\ cont = [r \in Requests |-> NoContainer]
    /\ janitor = "none" /\ terminated = FALSE
    /\ lostCPUs = 0 /\ lostMemMB = 0

-----------------------------------------------------------------------------
(* Helpers. *)

CPU(r) == CPUDemand[FunOf[r]]
Mem(r) == MemoryMB[FunOf[r]]

Warm == UNION {ready[f] : f \in Functions}
Busy == UNION {busy[f] : f \in Functions}
Held == {cont[r] : r \in Requests} \ {NoContainer}

(* The factory never hands out an identifier somebody still refers to. *)
Fresh == ContainerIDs \ (alive \cup Warm \cup Busy \cup condemned \cup Held)

(* The memory of the containers of S that exist. *)
MemoryOf(S, pool) == Total(
    [f \in Functions |-> MemoryMB[f] * Cardinality(S \cap pool[f] \cap alive)])

(* The memory of S, which leaves the ready lists, is given back.            *)
(* GetMemoryMB answers 0, with an error nobody reads, for a container that  *)
(* does not exist any more, and when it fails: what it fails for is lost.   *)
GiveBack(S) ==
    \E unread \in SUBSET (S \cap alive) :
        /\ AvailableMemMB' = AvailableMemMB + MemoryOf(S \ unread, ready)
        /\ lostMemMB' = lostMemMB + MemoryOf(unread, ready)

RemoveReady(S) ==
    /\ ready' = [f \in Functions |-> ready[f] \ S]
    /\ expired' = expired \ S

-----------------------------------------------------------------------------
(* Reserving resources: AcquireResources, NewContainer. *)

Grant(r) == phase' = [phase EXCEPT ![r] = "reserved"]

(* Mutant of ReserveFree: the available memory is not compared. *)
ReserveFreeUnchecked(r) ==
    /\ phase[r] = "idle" /\ AvailableCPUs >= CPU(r)
    /\ AvailableCPUs' = AvailableCPUs - CPU(r)
    /\ AvailableMemMB' = AvailableMemMB - Mem(r)
    /\ Grant(r)
    /\ UNCHANGED <<pools, alive, condemned, cont, janitor, terminated, lost, blamed>>

(* acquireResources when there is enough of both. *)
ReserveFree(r) ==
    /\ phase[r] = "idle"
    /\ AvailableCPUs >= CPU(r) /\ AvailableMemMB >= Mem(r)
    /\ AvailableCPUs' = AvailableCPUs - CPU(r)
    /\ AvailableMemMB' = AvailableMemMB - Mem(r)
    /\ Grant(r)
    /\ UNCHANGED <<pools, alive, condemned, cont, janitor, terminated, lost, blamed>>

(* dismissContainer, first phase: it collects S, whole ready lists and a    *)
(* part of the list of last, in an order that is not defined.  contID and   *)
(* its memory are read once per list, from the front of the list, and used  *)
(* for all its items: F holds these fronts, and read those of them for      *)
(* which GetMemoryMB did not fail.                                          *)
ItemMB(f, read) == IF read \cap ready[f] # {} THEN MemoryMB[f] ELSE 0

CollectedMB(S, read) == Total(
    [f \in Functions |-> ItemMB(f, read) * Cardinality(S \cap ready[f])])

Collects(S, F, last) ==
    /\ S \cap ready[last] # {}
    /\ \A f \in Functions : f # last => S \cap ready[f] \in {{}, ready[f]}
    /\ \A f \in Functions : Cardinality(F \cap ready[f]) =
                              IF S \cap ready[f] = {} THEN 0 ELSE 1

Suffices(S, read, last, requiredMB) ==
    /\ CollectedMB(S, read) >= requiredMB
    /\ CollectedMB(S, read) - ItemMB(last, read) < requiredMB

(* Of the containers of S, which leave the ready lists, only those of done  *)
(* have their memory given back, as far as it was read.                     *)
GiveBackItems(S, done, read, takenMB) ==
    /\ RemoveReady(S)
    /\ AvailableMemMB' = (AvailableMemMB + CollectedMB(done, read)) - takenMB
    /\ lostMemMB' = lostMemMB + (CollectedMB(S, Warm) - CollectedMB(done, read))

NeedsDismissal(r) ==
    /\ phase[r] = "idle"
    /\ AvailableCPUs >= CPU(r) /\ AvailableMemMB < Mem(r)

(* acquireResources with destroyContainersIfNeeded, no Destroy failing: all *)
(* of S leaves the ready lists, the fronts are the ones destroyed.          *)
ReserveDismissing(r) ==
    /\ NeedsDismissal(r)
    /\ \E S \in SUBSET Warm, last \in Functions : \E F \in SUBSET S :
         /\ Collects(S, F, last)
         /\ \E read \in SUBSET (F \cap alive) :
              /\ Suffices(S, read, last, Mem(r))
              /\ GiveBackItems(S, S, read, Mem(r))
         /\ alive' = alive \ F
    /\ AvailableCPUs' = AvailableCPUs - CPU(r)
    /\ Grant(r)
    /\ UNCHANGED <<busy, condemned, cont, janitor, terminated, lostCPUs, blamed>>

(* Mutant of DismissalFails: the cleanup runs without the memory check. *)
DismissalUnchecked(r) ==
    /\ NeedsDismissal(r) /\ MemoryOf(Warm, ready) < Mem(r)
    /\ RemoveReady(Warm) /\ alive' = alive \ Warm
    /\ AvailableMemMB' = AvailableMemMB + MemoryOf(Warm, ready)
    /\ UNCHANGED <<AvailableCPUs, busy, condemned, requests, janitor, terminated,
                   lost, blamed>>

(* The second phase, stopped by a Destroy that fails on item x after the    *)
(* items of done: x is out of its list and its memory is not given back.    *)
(* Destroy fails on a container that exists (x is a front, blamed on the    *)
(* factory) or because the front of the list of x is already destroyed.     *)
StopsAt(S, F, last, done, x) ==
    \E g \in Functions :
        /\ x \in ready[g] \ done
        /\ \A f \in Functions \ {g} :
              done \cap ready[f] \in IF g = last THEN {S \cap ready[f]}
                                    ELSE IF f = last THEN {{}}
                                    ELSE {{}, S \cap ready[f]}
        /\ x \in F \/ F \cap ready[g] \subseteq done

DismissalFails(r) ==
    /\ NeedsDismissal(r)
    /\ \E S \in SUBSET Warm, last \in Functions : \E F \in SUBSET S :
         /\ Collects(S, F, last)
         /\ \E read \in SUBSET (F \cap alive) :
              /\ Suffices(S, read, last, Mem(r))
              /\ \E done \in SUBSET S, x \in S :
                   /\ StopsAt(S, F, last, done, x)
                   /\ GiveBackItems(done \cup {x}, done, read, 0)
                   /\ alive' = alive \ (F \cap done)
                   /\ blamed' = blamed \cup ({x} \cap F \cap alive)
    /\ UNCHANGED <<AvailableCPUs, busy, condemned, requests, janitor, terminated,
                   lostCPUs>>

-----------------------------------------------------------------------------
(* Serving a request. *)

(* Mutant of AcquireWarmContainer: the ready list keeps the container. *)
AcquireWarmTwice(r) ==
    LET f == FunOf[r] IN
    /\ phase[r] = "idle" /\ AvailableCPUs >= CPU(r)
    /\ \E contID \in ready[f] :
         /\ busy' = [busy EXCEPT ![f] = @ \cup {contID}]
         /\ cont' = [cont EXCEPT ![r] = contID]
    /\ AvailableCPUs' = AvailableCPUs - CPU(r)
    /\ phase' = [phase EXCEPT ![r] = "running"]
    /\ UNCHANGED <<AvailableMemMB, ready, expired, alive, condemned, janitor,
                   terminated, lost, blamed>>

(* AcquireWarmContainer: the warm container moves to the busy list, then    *)
(* the CPU is acquired.                                                     *)
AcquireWarmContainer(r) ==
    LET f == FunOf[r] IN
    /\ phase[r] = "idle"
    /\ \E contID \in ready[f] :
         /\ RemoveReady({contID})
         /\ busy' = [busy EXCEPT ![f] = @ \cup {contID}]
         /\ \/ /\ AvailableCPUs >= CPU(r)
               /\ AvailableCPUs' = AvailableCPUs - CPU(r)
               /\ phase' = [phase EXCEPT ![r] = "running"]
               /\ cont' = [cont EXCEPT ![r] = contID]
            \/ /\ AvailableCPUs < CPU(r)  \* OutOfResourcesErr, contID stays busy
               /\ UNCHANGED <<AvailableCPUs, requests>>
    /\ UNCHANGED <<AvailableMemMB, alive, condemned, janitor, terminated, lost, blamed>>

(* NewContainerWithAcquiredResources returns at once for an unknown runtime *)
(* and keeps what was reserved.                                             *)
InvalidRuntime(r) ==
    /\ phase[r] = "reserved" /\ FunOf[r] \in UnknownRuntime
    /\ phase' = [phase EXCEPT ![r] = "idle"]
    /\ lostCPUs' = lostCPUs + CPU(r)
    /\ lostMemMB' = lostMemMB + Mem(r)
    /\ UNCHANGED <<accounts, pools, alive, condemned, cont, janitor, terminated, blamed>>

(* container.NewContainer, outside the lock: Create, CopyToContainer and    *)
(* Start all succeed.                                                       *)
Spawn(r) ==
    /\ phase[r] = "reserved" /\ FunOf[r] \notin UnknownRuntime
    /\ \E contID \in Fresh :
         /\ alive' = alive \cup {contID}
         /\ cont' = [cont EXCEPT ![r] = contID]
    /\ phase' = [phase EXCEPT ![r] = "spawned"]
    /\ UNCHANGED <<accounts, pools, condemned, janitor, terminated, lost, blamed>>

(* Mutant of SpawnFails: the error is logged and then forgotten. *)
SpawnErrorForgotten(r) ==
    /\ phase[r] = "reserved" /\ FunOf[r] \notin UnknownRuntime
    /\ phase' = [phase EXCEPT ![r] = "spawned"]
    /\ UNCHANGED <<accounts, pools, alive, condemned, cont, janitor, terminated,
                   lost, blamed>>

(* Create fails, or the copy of the code or the start of a created          *)
(* container, which nobody destroys.                                        *)
SpawnFails(r) ==
    /\ phase[r] = "reserved" /\ FunOf[r] \notin UnknownRuntime
    /\ \/ UNCHANGED <<alive, blamed>>
       \/ \E contID \in Fresh : /\ alive' = alive \cup {contID}
                                /\ blamed' = blamed \cup {contID}
    /\ phase' = [phase EXCEPT ![r] = "failed"]
    /\ UNCHANGED <<accounts, pools, condemned, cont, janitor, terminated, lost>>

(* NewContainerWithAcquiredResources, back under the lock, after success... *)
InsertNewContainer(r) ==
    /\ phase[r] = "spawned"
    /\ busy' = [busy EXCEPT ![FunOf[r]] = @ \cup {cont[r]}]
    /\ phase' = [phase EXCEPT ![r] = "running"]
    /\ UNCHANGED <<accounts, ready, expired, alive, condemned, cont, janitor,
                   terminated, lost, blamed>>

(* Mutant of ReleaseAfterFailure: only the memory is released. *)
ReleaseMemOnly(r) ==
    /\ phase[r] = "failed"
    /\ AvailableMemMB' = AvailableMemMB + Mem(r)
    /\ phase' = [phase EXCEPT ![r] = "idle"]
    /\ UNCHANGED <<AvailableCPUs, pools, alive, condemned, cont, janitor,
                   terminated, lost, blamed>>

(* Mutant of ReleaseAfterFailure: only the CPU is released. *)
ReleaseCPUOnly(r) ==
    /\ phase[r] = "failed"
    /\ AvailableCPUs' = AvailableCPUs + CPU(r)
    /\ phase' = [phase EXCEPT ![r] = "idle"]
    /\ UNCHANGED <<AvailableMemMB, pools, alive, condemned, cont, janitor,
                   terminated, lost, blamed>>

(* ... and after an error: releaseResources. *)
ReleaseAfterFailure(r) ==
    /\ phase[r] = "failed"
    /\ AvailableCPUs' = AvailableCPUs + CPU(r)
    /\ AvailableMemMB' = AvailableMemMB + Mem(r)
    /\ phase' = [phase EXCEPT ![r] = "idle"]
    /\ UNCHANGED <<pools, alive, condemned, cont, janitor, terminated, lost, blamed>>

(* Mutant of ReleaseContainer: the memory is released with the CPU. *)
ReleaseBoth(r) ==
    LET f == FunOf[r] IN
    /\ phase[r] = "running"
    /\ busy' = [busy EXCEPT ![f] = @ \ {cont[r]}]
    /\ ready' = [ready EXCEPT ![f] = @ \cup {cont[r]}]
    /\ AvailableCPUs' = AvailableCPUs + CPU(r)
    /\ AvailableMemMB' = AvailableMemMB + Mem(r)
    /\ phase' = [phase EXCEPT ![r] = "idle"]
    /\ cont' = [cont EXCEPT ![r] = NoContainer]
    /\ UNCHANGED <<expired, alive, condemned, janitor, terminated, lost, blamed>>

(* ReleaseContainer: back to the ready list with a new Expiration. *)
ReleaseContainer(r) ==
    LET f == FunOf[r] IN
    /\ phase[r] = "running"
    /\ busy' = [busy EXCEPT ![f] = @ \ {cont[r]}]
    /\ ready' = [ready EXCEPT ![f] = @ \cup {cont[r]}]
    /\ AvailableCPUs' = AvailableCPUs + CPU(r)
    /\ phase' = [phase EXCEPT ![r] = "idle"]
    /\ cont' = [cont EXCEPT ![r] = NoContainer]
    /\ UNCHANGED <<AvailableMemMB, expired, alive, condemned, janitor, terminated,
                   lost, blamed>>

-----------------------------------------------------------------------------
(* Getting rid of containers. *)

(* The clock passes the Expiration of a warm container. *)
Expire(c) ==
    /\ c \in Warm \ expired
    /\ expired' = expired \cup {c}
    /\ UNCHANGED <<accounts, ready, busy, alive, condemned, requests, janitor,
                   terminated, lost, blamed>>

(* GetJanitorInstance and StopJanitor; a stopped instance is never replaced *)
(* and a second StopJanitor blocks.                                         *)
StartJanitor ==
    /\ janitor = "none"
    /\ janitor' = "running"
    /\ UNCHANGED <<accounts, pools, alive, condemned, requests, terminated, lost, blamed>>

StopJanitor ==
    /\ janitor = "running"
    /\ janitor' = "stopped"
    /\ UNCHANGED <<accounts, pools, alive, condemned, requests, terminated, lost, blamed>>

(* Mutant of DeleteExpiredContainer: the elements stay in the ready list. *)
DeleteKeepsElements ==
    LET gone == expired \cap Warm IN
    /\ janitor = "running" /\ gone # {}
    /\ AvailableMemMB' = AvailableMemMB + MemoryOf(gone, ready)
    /\ alive' = alive \ gone
    /\ UNCHANGED <<AvailableCPUs, pools, condemned, requests, janitor, terminated,
                   lost, blamed>>

(* Mutant of DeleteExpiredContainer: the comparison with now is inverted. *)
DeleteUnexpired ==
    LET gone == Warm \ expired IN
    /\ janitor = "running" /\ gone # {}
    /\ RemoveReady(gone)
    /\ AvailableMemMB' = AvailableMemMB + MemoryOf(gone, ready)
    /\ alive' = alive \ gone
    /\ UNCHANGED <<AvailableCPUs, busy, condemned, requests, janitor, terminated,
                   lost, blamed>>

(* DeleteExpiredContainer, run by a tick of the janitor.  The error of      *)
(* Destroy is not read.                                                     *)
DeleteExpiredContainer ==
    LET gone == expired \cap Warm IN
    /\ janitor = "running" /\ gone # {}
    /\ RemoveReady(gone) /\ GiveBack(gone)
    /\ \E survivors \in SUBSET (gone \cap alive) :
         /\ alive' = alive \ (gone \ survivors)
         /\ blamed' = blamed \cup survivors
    /\ UNCHANGED <<AvailableCPUs, busy, condemned, requests, janitor, terminated, lostCPUs>>

(* Mutant of ShutdownWarmContainersFor: the elements stay in the ready list. *)
ShutdownKeepsElements(f) ==
    /\ ready[f] # {}
    /\ GiveBack(ready[f])
    /\ condemned' = condemned \cup ready[f]
    /\ UNCHANGED <<AvailableCPUs, pools, alive, requests, janitor, terminated, lostCPUs, blamed>>

(* ShutdownWarmContainersFor gives the memory back at once and leaves the   *)
(* containers to a goroutine, which logs the error of Destroy and goes on.  *)
ShutdownWarmContainersFor(f) ==
    /\ ready[f] # {}
    /\ RemoveReady(ready[f]) /\ GiveBack(ready[f])
    /\ condemned' = condemned \cup ready[f]
    /\ UNCHANGED <<AvailableCPUs, busy, alive, requests, janitor, terminated, lostCPUs, blamed>>

DestroyCondemned(c) ==
    /\ c \in condemned
    /\ condemned' = condemned \ {c}
    /\ \/ alive' = alive \ {c} /\ UNCHANGED blamed
       \/ blamed' = blamed \cup ({c} \cap alive) /\ UNCHANGED alive
    /\ UNCHANGED <<accounts, pools, requests, janitor, terminated, lost>>

(* ShutdownAllContainers, once ("usually on termination").  The elements of *)
(* the busy list are removed from the ready list, which does nothing: busy  *)
(* keeps them, and the CPU of every one is given back.  The errors of       *)
(* Destroy are not read.                                                    *)
ShutdownAllContainers ==
    /\ ~terminated
    /\ terminated' = TRUE
    /\ RemoveReady(Warm)
    /\ \E unread \in SUBSET (Warm \cup Busy) :
         AvailableMemMB' = AvailableMemMB + (MemoryOf(Warm \ unread, ready)
                                               + MemoryOf(Busy \ unread, busy))
    /\ AvailableCPUs' = AvailableCPUs
                          + Total([f \in Functions |-> CPUDemand[f] * Cardinality(busy[f])])
    /\ \E survivors \in SUBSET ((Warm \cup Busy) \cap alive) :
         /\ alive' = alive \ ((Warm \cup Busy) \ survivors)
         /\ blamed' = blamed \cup survivors
    /\ UNCHANGED <<busy, condemned, requests, janitor, lost>>

-----------------------------------------------------------------------------
Invoke(r) ==
    \/ ReserveFree(r) \/ ReserveDismissing(r) \/ DismissalFails(r)
    \/ AcquireWarmContainer(r) \/ InvalidRuntime(r)
    \/ Spawn(r) \/ SpawnFails(r)
    \/ InsertNewContainer(r) \/ ReleaseAfterFailure(r) \/ ReleaseContainer(r)

Next ==
    \/ \E r \in Requests : Invoke(r)
    \/ \E c \in ContainerIDs : Expire(c) \/ DestroyCondemned(c)
    \/ \E f \in Functions : ShutdownWarmContainersFor(f)
    \/ StartJanitor \/ StopJanitor \/ DeleteExpiredContainer
    \/ ShutdownAllContainers

(* Time passes, and the ticker of a running janitor keeps firing.  A        *)
(* goroutine that destroys containers is never suspended for ever.          *)
Fairness ==
    /\ WF_vars(DeleteExpiredContainer)
    /\ \A c \in ContainerIDs : WF_vars(Expire(c)) /\ WF_vars(DestroyCondemned(c))

Spec == Init /\ [][Next]_vars /\ Fairness

-----------------------------------------------------------------------------
(* Properties. *)

(* No container is in two lists, no two requests hold the same one, a       *)
(* running request finds its container in the busy list of its function,    *)
(* and a container being created or destroyed is in no list: whatever the   *)
(* interleaving of acquisitions, releases, dismissals and sweeps, a         *)
(* container serves one invocation at a time.                               *)
Exclusive ==
    /\ \A f, g \in Functions : ready[f] \cap busy[g] = {}
    /\ \A f, g \in Functions :
         f # g => ready[f] \cap ready[g] = {} /\ busy[f] \cap busy[g] = {}
    /\ \A r, s \in Requests : (r # s /\ cont[r] = cont[s]) => cont[r] = NoContainer
    /\ \A r \in Requests : phase[r] = "running" => cont[r] \in busy[FunOf[r]]
    /\ \A r \in Requests : phase[r] = "spawned" => cont[r] \notin (Warm \cup Busy)
    /\ condemned \cap (Warm \cup Busy \cup Held) = {}

(* What acquireResources hands out never exceeds what is left, with or      *)
(* without a dismissal in between, partly failed ones included.             *)
NeverOvercommitted == AvailableCPUs >= 0 /\ AvailableMemMB >= 0

(* Until the pool is shut down, a container that is in a list or held by a  *)
(* request exists: neither a dismissal nor a sweep nor a shutdown of the    *)
(* warm containers destroys what somebody may use.                          *)
Usable == ~terminated => (Warm \cup Busy \cup Held) \subseteq alive

Active   == {r \in Requests : phase[r] # "idle"}
Creating == {r \in Requests : phase[r] \notin {"idle", "running"}}

ReservedCPUs == Total([r \in Active |-> CPU(r)])
ReservedMB   == Total([r \in Creating |-> Mem(r)])

(* Until the pool is shut down, every unit of CPU is available, reserved by *)
(* a request, or lost by an unknown runtime.                                *)
CPUConserved ==
    ~terminated => AvailableCPUs + ReservedCPUs + lostCPUs = MaxCPUs

(* Until the pool is shut down, every MB is available, reserved by a        *)
(* request whose container is not in the pool yet, taken by a container of  *)
(* the pool, or lost by an unknown runtime, an interrupted dismissal or an  *)
(* error of GetMemoryMB.                                                    *)
MemConserved ==
    ~terminated =>
        AvailableMemMB + ReservedMB
            + MemoryOf(Warm, ready) + MemoryOf(Busy, busy) + lostMemMB = MaxMemMB

(* A warm container that has not expired leaves the pool only for a         *)
(* reservation that is granted in the same step, unless Destroy failed, the *)
(* function is being shut down or the node is: "we delete the container     *)
(* only and only if the sum of their memory is >= requiredMemoryMB".        *)
EvictedForAReservation ==
    [][(\E c \in Warm \ expired : c \notin (Warm \cup Busy)') =>
          \/ \E r \in Requests : phase[r] = "idle" /\ phase'[r] = "reserved"
          \/ lostMemMB' # lostMemMB \/ blamed' # blamed
          \/ condemned' # condemned
          \/ terminated']_vars

Contract == INSTANCE ContainerLease WITH lease <- cont, exists <- alive, down <- terminated

(* The pool keeps its contract: whatever is created, dismissed, swept or    *)
(* fails meanwhile, a request is given a container that nobody else has,    *)
(* keeps it until it releases it, and does not lose it before the shutdown. *)
ImplementsContract == Contract!Spec

(* While the janitor runs, no warm container stays in the pool for ever:    *)
(* somebody takes it or it is swept.                                        *)
WarmIsReaped ==
    \A c \in ContainerIDs :
        (c \in Warm /\ janitor = "running") ~> (c \notin Warm \/ janitor # "running")

(* The container AcquireWarmContainer moves to the busy list is the one it  *)
(* hands to the request ("The acquired container is already in the busy     *)
(* pool"): every busy container is held by a request.                       *)
BusyIsAcquired == ~terminated => Busy \subseteq Held

(* Dismissed containers are destroyed ("second (cleanup phase) we delete    *)
(* the container"): a container that exists and on which no call of the     *)
(* factory failed is known to somebody.                                     *)
DismissedIsDestroyed ==
    alive \subseteq (Warm \cup Busy \cup Held \cup condemned \cup blamed)
=============================================================================
