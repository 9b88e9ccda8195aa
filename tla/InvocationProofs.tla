--------------------------- MODULE InvocationProofs ---------------------------
(***************************************************************************)
(* Theorems about Invocation, for every value of its constants: it uses the *)
(* pool as ContainerPool says, so that the theorems about the pool hold     *)
(* during executions; a command starts at most once; Success is answered    *)
(* only when it did; handlers share files only after a lost connection.     *)
(***************************************************************************)
EXTENDS Invocation, ContainerPoolProofs

(* Every step is a step of the pool or leaves the pool alone. *)
LEMMA StepOfPool == [InvocationNext]_ivars => [Next]_vars
<1> SUFFICES ASSUME [InvocationNext]_ivars PROVE [Next]_vars OBVIOUS
<1>1. CASE PoolStep BY <1>1 DEF PoolStep
<1>2. ASSUME NEW r \in Requests, Release(r) PROVE Next
  BY <1>2 DEF Release, Next, Invoke
<1>3. ASSUME NEW r \in Requests,
             \/ Execute(r) \/ GetIPAddressFails(r) \/ Attempt(r)
             \/ LoseConnection(r) \/ Sleep(r) \/ Handle(r)
      PROVE  UNCHANGED vars
  BY <1>3 DEF Execute, GetIPAddressFails, Call, Attempt, PostRefused, PostLost, Post,
     PostEmpty, LoseConnection, Sleep, Handle, WriteParams, WriteParamsFails, Panic,
     Start, StartFails, Exit, Respond
<1>4. CASE UNCHANGED ivars BY <1>4 DEF ivars
<1> QED BY <1>1, <1>2, <1>3, <1>4 DEF InvocationNext

(* The pool is used as ContainerPool specifies (ReleaseContainer once       *)
(* Execute has returned, everything else at any time).                      *)
THEOREM ImplementsPool == InvocationSpec => Spec
<1>1. InvocationInit => Init BY DEF InvocationInit
<1> QED BY <1>1, StepOfPool, PTL DEF InvocationSpec, InvocationFairness, Spec

(* A container that appears is referred to by nobody, and a request that    *)
(* runs keeps its container.                                                *)
LEMMA PoolEffects ==
    ASSUME Typed, Next
    PROVE  /\ \A c \in alive' : c \in alive \/ c \in Fresh
           /\ \A r \in Requests :
                phase[r] = "running" /\ phase'[r] = "running" => cont'[r] = cont[r]
<1> USE DEF Typed, TypeOK, requests
<1>1. ASSUME NEW q \in Requests, Spawn(q) \/ SpawnFails(q)
      PROVE  /\ \A c \in alive' : c \in alive \/ c \in Fresh
             /\ \A r \in Requests : phase[r] = "running" => cont'[r] = cont[r]
  BY <1>1 DEF Spawn, SpawnFails
<1>2. ASSUME NEW q \in Requests,
             ReserveFree(q) \/ ReserveDismissing(q) \/ DismissalFails(q)
               \/ InvalidRuntime(q) \/ InsertNewContainer(q) \/ ReleaseAfterFailure(q)
      PROVE  alive' \subseteq alive /\ cont' = cont
  BY <1>2 DEF ReserveFree, ReserveDismissing, DismissalFails, InvalidRuntime,
     InsertNewContainer, ReleaseAfterFailure
<1>3. ASSUME NEW q \in Requests, AcquireWarmContainer(q) \/ ReleaseContainer(q)
      PROVE  /\ alive' = alive
             /\ \A r \in Requests :
                  phase[r] = "running" /\ phase'[r] = "running" => cont'[r] = cont[r]
  BY <1>3 DEF AcquireWarmContainer, ReleaseContainer
<1>4. ASSUME \/ \E c \in ContainerIDs : Expire(c) \/ DestroyCondemned(c)
             \/ \E f \in Functions : ShutdownWarmContainersFor(f)
             \/ StartJanitor \/ StopJanitor \/ DeleteExpiredContainer
             \/ ShutdownAllContainers
      PROVE  alive' \subseteq alive /\ cont' = cont
  BY <1>4 DEF Expire, DestroyCondemned, ShutdownWarmContainersFor, StartJanitor,
     StopJanitor, DeleteExpiredContainer, ShutdownAllContainers
<1> QED BY <1>1, <1>2, <1>3, <1>4 DEF Next, Invoke

-----------------------------------------------------------------------------
(* Types. *)

(* A call that goes on has time left; a request that does not call knows    *)
(* nothing of an earlier call.                                              *)
Bounded(r) ==
    /\ call[r] = "none" => waits[r] = 0 /\ ~drained[r]
    /\ call[r] \in {"post", "sent", "sleep"} => waits[r] < MaxWaits

LEMMA TypesNext ==
    ASSUME Typed, Typed', InvocationTypeOK, \A r \in Requests : Bounded(r),
           [InvocationNext]_ivars
    PROVE  InvocationTypeOK'
<1> USE DEF InvocationTypeOK, Goes, Returned, Handling, NoHandler, client, executor, files, Owners
<1>1. Old \in Owners /\ MaxWaits \in Nat \ {0} /\ NoContainer \notin alive'
  BY InvocationAssumption, PoolAssumption DEF Typed, TypeOK
<1>2. CASE PoolStep
  BY <1>1, <1>2 DEF PoolStep, Containers
<1>3. ASSUME NEW r \in Requests, Release(r) PROVE InvocationTypeOK'
  <2>1. \A q \in Requests \ {r} : phase'[q] = phase[q]
    BY <1>3 DEF Release, ReleaseContainer, Typed, TypeOK
  <2>2. alive' = alive BY <1>3 DEF Release, ReleaseContainer
  <2> QED BY <1>1, <1>3, <2>1, <2>2, InvocationAssumption DEF Release, Forgotten
<1>4. ASSUME NEW r \in Requests, Execute(r) \/ GetIPAddressFails(r)
      PROVE  InvocationTypeOK'
  BY <1>1, <1>4 DEF Execute, GetIPAddressFails, Call, Forgotten, vars, requests
<1>5. ASSUME NEW r \in Requests, Attempt(r) PROVE InvocationTypeOK'
  <2>1. cont[r] \in alive => cont[r] \in ContainerIDs BY DEF Typed, TypeOK
  <2> QED BY <1>5, <2>1 DEF Attempt, PostRefused, PostLost, Post, PostEmpty, vars, requests
<1>6. ASSUME NEW r \in Requests, LoseConnection(r) PROVE InvocationTypeOK'
  <2>1. cont[r] \in ContainerIDs
    BY <1>6 DEF LoseConnection, Typed, TypeOK, Holding
  <2> QED BY <1>6, <2>1 DEF LoseConnection, vars, requests
<1>7. ASSUME NEW r \in Requests, Sleep(r) PROVE InvocationTypeOK'
  <2>1. waits[r] + 1 \in 0..MaxWaits
    BY <1>1, <1>7 DEF Sleep, Bounded
  <2> QED BY <1>7, <2>1 DEF Sleep, vars, requests
<1>8. ASSUME NEW r \in Requests, Handle(r) PROVE InvocationTypeOK'
  <2>1. CASE WriteParams(r) BY <2>1 DEF WriteParams, vars, requests
  <2>2. CASE WriteParamsFails(r) \/ Respond(r)
    BY <2>2 DEF WriteParamsFails, Respond, Answer, vars, requests
  <2>3. CASE Panic(r) BY <2>3 DEF Panic, vars, requests
  <2>4. CASE Start(r) \/ StartFails(r) BY <2>4 DEF Start, StartFails, vars, requests
  <2>5. CASE Exit(r) BY <2>5 DEF Exit, vars, requests
  <2> QED BY <1>8, <2>1, <2>2, <2>3, <2>4, <2>5 DEF Handle
<1>9. CASE UNCHANGED ivars BY <1>9 DEF ivars, vars, requests
<1> QED BY <1>2, <1>3, <1>4, <1>5, <1>6, <1>7, <1>8, <1>9 DEF InvocationNext

LEMMA BoundedNext ==
    ASSUME InvocationTypeOK, [InvocationNext]_ivars, NEW r \in Requests, Bounded(r)
    PROVE  Bounded(r)'
<1> USE InvocationAssumption DEF InvocationTypeOK, Bounded, Goes, client
<1>1. CASE PoolStep BY <1>1 DEF PoolStep
<1>2. ASSUME NEW q \in Requests,
             Execute(q) \/ GetIPAddressFails(q) \/ Attempt(q) \/ LoseConnection(q)
      PROVE  Bounded(r)'
  BY <1>2 DEF Execute, GetIPAddressFails, Call, Attempt, PostRefused, PostLost, Post,
     PostEmpty, LoseConnection
<1>3. ASSUME NEW q \in Requests, Sleep(q) PROVE Bounded(r)'
  BY <1>3 DEF Sleep
<1>4. ASSUME NEW q \in Requests, Handle(q) PROVE Bounded(r)'
  BY <1>4 DEF Handle, WriteParams, WriteParamsFails, Panic, Start, StartFails, Exit, Respond, Answer
<1>5. ASSUME NEW q \in Requests, Release(q) PROVE Bounded(r)'
  BY <1>5 DEF Release
<1>6. CASE UNCHANGED ivars BY <1>6 DEF ivars
<1> QED BY <1>1, <1>2, <1>3, <1>4, <1>5, <1>6 DEF InvocationNext

-----------------------------------------------------------------------------
(* The call, the buffer with the body, and the handler.                     *)

(* A handler has the body of the call, and the body leaves the buffer once: *)
(* a call that may still send it has no handler and started nothing.  A     *)
(* handler whose client is gone, and a command that was started for an      *)
(* error, are in a container that lost a connection.                        *)
Safe(r) ==
    /\ started[r] \in {0, 1}
    /\ handler[r] \in {"decoded", "ready"} => started[r] = 0
    /\ handler[r] \in {"running", "written", "silent"} => started[r] = 1
    /\ call[r] \in {"post", "sleep"} /\ ~drained[r] => started[r] = 0 /\ handler[r] = "none"
    /\ call[r] \in {"post", "sleep", "error"} /\ (started[r] > 0 \/ handler[r] # "none")
         => cont[r] \in cut
    /\ call[r] = "success" => started[r] = 1
    /\ call[r] \in {"success", "failure"} => handler[r] = "none"
    /\ handler[r] # "none" /\ server[r] \notin cut => call[r] = "sent" /\ cont[r] = server[r]

LEMMA SafeNext ==
    ASSUME Typed, Typed', InvocationTypeOK, InvocationTypeOK', [InvocationNext]_ivars,
           NEW r \in Requests, Bounded(r), Safe(r)
    PROVE  Safe(r)'
<1> USE DEF InvocationTypeOK, Goes, Returned, Handling, NoHandler, client, executor, files
<1>1. CASE PoolStep
  <2>1. /\ \A c \in alive' : c \in alive \/ c \in Fresh
        /\ phase[r] = "running" => phase'[r] = "running" /\ cont'[r] = cont[r]
    BY <1>1, PoolEffects DEF PoolStep
  <2>2. phase[r] = "running" => cont[r] \notin Fresh
    BY DEF Fresh, Held, Typed, Holding
  <2>3. phase[r] = "running" => (cont[r] \in cut => cont'[r] \in cut')
    BY <1>1, <2>1, <2>2 DEF PoolStep, Containers
  <2>4. server[r] \in alive => (server[r] \in cut => server[r] \in cut')
    BY <1>1 DEF PoolStep, Containers
  <2>5. /\ call' = call /\ drained' = drained /\ started' = started
        /\ handler'[r] # "none" =>
             /\ handler'[r] = handler[r] /\ server'[r] = server[r] /\ server[r] \in alive
        /\ handler'[r] = "none" => handler[r] = "none" \/ handler[r] # "none"
    BY <1>1 DEF PoolStep, Containers
  <2> QED BY <2>1, <2>3, <2>4, <2>5 DEF Safe
<1>2. ASSUME NEW q \in Requests,
             Execute(q) \/ GetIPAddressFails(q) \/ Attempt(q) \/ LoseConnection(q) \/ Sleep(q)
      PROVE  Safe(r)'
  BY <1>2 DEF Safe, Bounded, Execute, GetIPAddressFails, Call, Attempt, PostRefused, PostLost,
     Post, PostEmpty, LoseConnection, Sleep, vars, requests
<1>3. ASSUME NEW q \in Requests, Handle(q) PROVE Safe(r)'
  BY <1>3 DEF Safe, Handle, WriteParams, WriteParamsFails, Panic, Start, StartFails, Exit, Respond,
     Answer, vars, requests
<1>4. ASSUME NEW q \in Requests, Release(q) PROVE Safe(r)'
  <2>1. q # r => cont'[r] = cont[r]
    BY <1>4 DEF Release, ReleaseContainer, Typed, TypeOK
  <2> QED BY <1>4, <2>1 DEF Safe, Release
<1>5. CASE UNCHANGED ivars BY <1>5 DEF ivars, vars, requests, Safe
<1> QED BY <1>1, <1>2, <1>3, <1>4, <1>5 DEF InvocationNext

-----------------------------------------------------------------------------
(* The files. *)

FilesSafe(r) ==
    handler[r] # "none" /\ server[r] \notin cut =>
        /\ handler[r] # "decoded" => params[server[r]] = r
        /\ handler[r] = "written" => result[server[r]] = r

(* Two handlers in a container that lost no connection would be those of    *)
(* two requests that hold it.                                               *)
LEMMA OneHandler ==
    ASSUME Typed, Exclusive, InvocationTypeOK, NEW r \in Requests, NEW q \in Requests,
           Safe(r), Safe(q), q # r,
           handler[r] # "none", server[r] \notin cut, handler[q] # "none"
    PROVE  server[q] # server[r]
<1> SUFFICES ASSUME server[q] = server[r] PROVE FALSE OBVIOUS
<1>1. call[r] = "sent" /\ cont[r] = server[r] /\ cont[q] = server[q]
  BY DEF Safe
<1>2. phase[r] = "running" BY <1>1 DEF InvocationTypeOK
<1>3. cont[r] # NoContainer BY <1>2 DEF Typed, Holding
<1> QED BY <1>1, <1>3 DEF Exclusive

LEMMA FilesNext ==
    ASSUME Typed, Exclusive, InvocationTypeOK, InvocationTypeOK', [InvocationNext]_ivars,
           \A q \in Requests : Safe(q),
           NEW r \in Requests, Bounded(r), FilesSafe(r)
    PROVE  FilesSafe(r)'
<1> USE DEF InvocationTypeOK, Goes, Returned, Handling, NoHandler, client, executor, files
<1>0. Old # r BY InvocationAssumption
<1>1. CASE PoolStep
  <2> SUFFICES ASSUME handler'[r] # "none", server'[r] \notin cut'
               PROVE  /\ handler'[r] # "decoded" => params'[server'[r]] = r
                      /\ handler'[r] = "written" => result'[server'[r]] = r
    BY DEF FilesSafe
  <2>1. handler'[r] = handler[r] /\ server'[r] = server[r] /\ server[r] \in alive
    BY <1>1 DEF PoolStep, Containers
  <2>2. server[r] \in ContainerIDs BY <2>1 DEF Typed, TypeOK
  <2>3. params'[server[r]] = params[server[r]] /\ result'[server[r]] = result[server[r]]
        /\ server[r] \notin cut
    BY <1>1, <2>1, <2>2 DEF PoolStep, Containers
  <2> QED BY <2>1, <2>3 DEF FilesSafe
<1>2. ASSUME NEW q \in Requests, Execute(q) \/ GetIPAddressFails(q) PROVE FilesSafe(r)'
  <2>1. handler[r] # "none" => server[r] \in ContainerIDs BY DEF Typed, TypeOK
  <2>2. handler[q] = "none" /\ UNCHANGED <<handler, server, cut>>
    BY <1>2 DEF Execute, GetIPAddressFails, Call
  <2>3. params' = Forgotten(params, q) /\ result' = Forgotten(result, q)
    BY <1>2 DEF Execute, GetIPAddressFails, Call
  <2> QED BY <2>1, <2>2, <2>3 DEF FilesSafe, Forgotten
<1>3. ASSUME NEW q \in Requests, Attempt(q) \/ LoseConnection(q) \/ Sleep(q)
      PROVE  FilesSafe(r)'
  BY <1>3 DEF FilesSafe, Safe, Attempt, PostRefused, PostLost, Post, PostEmpty,
     LoseConnection, Sleep
<1>4. ASSUME NEW q \in Requests, Handle(q) PROVE FilesSafe(r)'
  <2>1. handler[q] # "none" BY <1>4 DEF Handle, WriteParams, WriteParamsFails, Panic, Start,
        StartFails, Exit, Respond
  <2>2. server[q] \in ContainerIDs BY <2>1 DEF Typed, TypeOK
  <2>3. q # r /\ handler[r] # "none" /\ server[r] \notin cut => server[q] # server[r]
    BY <2>1, OneHandler
  <2>4. CASE WriteParams(q) BY <2>2, <2>3, <2>4 DEF WriteParams, FilesSafe
  <2>5. CASE WriteParamsFails(q) \/ Respond(q)
    BY <2>5 DEF WriteParamsFails, Respond, Answer, FilesSafe
  <2>6. CASE Panic(q) BY <2>2, <2>3, <2>6 DEF Panic, FilesSafe
  <2>7. CASE Start(q) \/ StartFails(q) BY <2>7 DEF Start, StartFails, FilesSafe
  <2>8. CASE Exit(q)
    <3>1. UNCHANGED <<server, params, cut>> BY <2>8 DEF Exit
    <3>2. PICK end \in {"written", "silent", "failed"} :
             /\ handler' = [handler EXCEPT ![q] = end]
             /\ result' = result \/ result' = [result EXCEPT ![server[q]] = q]
             /\ end = "written" => result' = [result EXCEPT ![server[q]] = q]
      BY <2>8 DEF Exit
    <3>3. handler[q] = "running" BY <2>8 DEF Exit
    <3>4. CASE q = r
      <4>1. handler'[r] \in {"written", "silent", "failed"} /\ handler[r] = "running" /\ server'[r] = server[r]
        BY <3>1, <3>2, <3>3, <3>4
      <4>2. handler'[r] = "written" => result'[server[r]] = r
        BY <2>2, <3>2, <3>4
      <4> QED BY <3>1, <4>1, <4>2 DEF FilesSafe
    <3>5. CASE q # r
      <4>1. handler'[r] = handler[r] /\ server'[r] = server[r] BY <3>1, <3>2, <3>5
      <4>2. handler[r] # "none" => server[r] \in ContainerIDs BY DEF Typed, TypeOK
      <4>3. handler[r] # "none" /\ server[r] # server[q] => result'[server[r]] = result[server[r]]
        BY <2>2, <3>2, <4>2
      <4> QED BY <2>3, <3>1, <3>5, <4>1, <4>3 DEF FilesSafe
    <3> QED BY <3>4, <3>5
  <2> QED BY <1>4, <2>4, <2>5, <2>6, <2>7, <2>8 DEF Handle
<1>5. ASSUME NEW q \in Requests, Release(q) PROVE FilesSafe(r)'
  <2>1. handler[r] # "none" => server[r] \in ContainerIDs BY DEF Typed, TypeOK
  <2> QED BY <1>5, <2>1 DEF Release, Forgotten, FilesSafe, Safe
<1>6. CASE UNCHANGED ivars BY <1>6 DEF ivars, FilesSafe
<1> QED BY <1>1, <1>2, <1>3, <1>4, <1>5, <1>6 DEF InvocationNext

-----------------------------------------------------------------------------
(* The theorems. *)

IInv ==
    /\ Typed /\ Exclusive /\ InvocationTypeOK
    /\ \A r \in Requests : Bounded(r) /\ Safe(r) /\ FilesSafe(r)

LEMMA InitIInv == InvocationInit => IInv
<1> SUFFICES ASSUME InvocationInit PROVE IInv OBVIOUS
<1>1. Init BY DEF InvocationInit
<1>2. Typed /\ Exclusive BY <1>1, InitTyped, InitExclusive
<1>3. InvocationTypeOK BY InvocationAssumption DEF InvocationInit, InvocationTypeOK, Owners
<1>4. \A r \in Requests : Bounded(r) /\ Safe(r) /\ FilesSafe(r)
  BY InvocationAssumption DEF InvocationInit, Bounded, Safe, FilesSafe
<1> QED BY <1>2, <1>3, <1>4 DEF IInv

LEMMA NextIInv == IInv /\ [InvocationNext]_ivars => IInv'
<1> SUFFICES ASSUME IInv, [InvocationNext]_ivars PROVE IInv' OBVIOUS
<1>1. Typed' /\ Exclusive' BY StepOfPool, NextTyped, NextExclusive DEF IInv
<1>2. InvocationTypeOK' BY <1>1, TypesNext DEF IInv
<1>3. ASSUME NEW r \in Requests PROVE Bounded(r)' /\ Safe(r)' /\ FilesSafe(r)'
  BY <1>1, <1>2, BoundedNext, SafeNext, FilesNext DEF IInv
<1> QED BY <1>1, <1>2, <1>3 DEF IInv

(* Every reachable state is well typed: a request executes only while it    *)
(* holds its container, and a handler runs in a container that exists.      *)
THEOREM InvocationTypeCorrect == InvocationSpec => []InvocationTypeOK
<1>1. IInv => InvocationTypeOK BY DEF IInv
<1> QED BY <1>1, InitIInv, NextIInv, PTL DEF InvocationSpec

(* A command is started at most once: the buffer with the body is empty     *)
(* once a connection has read it, and a call that may still send the body   *)
(* has started nothing (Safe).                                              *)
THEOREM StartedAtMostOnce == InvocationSpec => []AtMostOnce
<1>1. IInv => AtMostOnce BY DEF IInv, Safe, AtMostOnce
<1> QED BY <1>1, InitIInv, NextIInv, PTL DEF InvocationSpec

(* Success is returned only for a command that was started, and an error    *)
(* for one that was started only after a lost connection.                   *)
THEOREM AnswersAreTrue == InvocationSpec => []AnswerIsTrue
<1>1. IInv => AnswerIsTrue BY DEF IInv, Safe, AnswerIsTrue
<1> QED BY <1>1, InitIInv, NextIInv, PTL DEF InvocationSpec

(* Without a lost connection a container runs the handler of the request    *)
(* that holds it: this is where the exclusiveness of the pool, proved for   *)
(* ContainerPool, is used.                                                  *)
THEOREM FilesAreOwn == InvocationSpec => []OwnFiles
<1>1. ASSUME IInv PROVE OwnFiles
  <2> SUFFICES ASSUME NEW r \in Requests, handler[r] # "none", server[r] \notin cut
               PROVE  /\ cont[r] = server[r]
                      /\ \A q \in Requests \ {r} :
                           handler[q] # "none" => server[q] # server[r]
                      /\ handler[r] # "decoded" => params[server[r]] = r
                      /\ handler[r] = "written" => result[server[r]] = r
    BY DEF OwnFiles
  <2>1. \A q \in Requests \ {r} : handler[q] # "none" => server[q] # server[r]
    BY <1>1, OneHandler DEF IInv
  <2> QED BY <1>1, <2>1 DEF IInv, Safe, FilesSafe
<1> QED BY <1>1, InitIInv, NextIInv, PTL DEF InvocationSpec
=============================================================================
