------------------------------ MODULE Invocation ------------------------------
(***************************************************************************)
(* The execution of an invocation: a request that holds a container of the  *)
(* pool calls Execute (client/src/container/container.go), which posts the  *)
(* invocation to the executor in the container, with retries;               *)
(* InvokeHandler (executor/server.go) runs the command of the function.     *)
(* The request releases its container when Execute has returned.            *)
(*                                                                          *)
(* ContainerPool keeps its variables and actions; this module adds the      *)
(* call, the connection and the files of the executor.  An executor serves  *)
(* every connection in a goroutine of its own and goes on when the client   *)
(* is gone: a handler may outlive the call that started it.                 *)
(*                                                                          *)
(* Abstractions.  The time waited is the number of waits.  The PARAMS_FILE  *)
(* of the environment and the file it names are one thing, written at once; *)
(* commands end.  The body of a POST arrives complete or not at all.        *)
(***************************************************************************)
EXTENDS ContainerPool

CONSTANTS
    MaxWaits,  \* how many waits reach TIMEOUT_MILLIS
    Old        \* the owner of a file left by an earlier call of a request

ASSUME InvocationAssumption ==
    /\ MaxWaits \in Nat \ {0}
    /\ Old \notin Requests

VARIABLES
    call,    \* what Execute is doing for each request
    drained, \* the bytes.Buffer with the body has been read
    waits,   \* how often the call has waited (totalWaitMillis)
    handler, \* what the handler that has the body of each request is doing
    server,  \* the container that handler runs in
    started, \* history: how often the call had its command started
    params,  \* the request whose parameters are in the container
    result,  \* the request whose result is in the container
    cut      \* history: containers in which a connection was lost

client   == <<call, drained, waits>>
executor == <<handler, server, started>>
files    == <<params, result>>
ivars    == <<vars, client, executor, files, cut>>

Owners == Requests \cup {Old}

InvocationTypeOK ==
    /\ call \in [Requests -> {"none", "post", "sent", "sleep", "success", "failure", "error"}]
    /\ drained \in [Requests -> BOOLEAN]
    /\ waits \in [Requests -> 0..MaxWaits]
    /\ handler \in [Requests -> {"none", "decoded", "ready", "running",
                                "written", "silent", "failed"}]
    /\ server \in [Requests -> ContainerIDs \cup {NoContainer}]
    /\ started \in [Requests -> Nat]
    /\ params \in [ContainerIDs -> Owners] /\ result \in [ContainerIDs -> Owners]
    /\ cut \subseteq ContainerIDs
    /\ \A r \in Requests :
         /\ call[r] # "none" => phase[r] = "running"
         /\ call[r] = "sent" => drained[r]
         /\ server[r] \in IF handler[r] = "none" THEN {NoContainer} ELSE alive

InvocationInit ==
    /\ Init
    /\ call = [r \in Requests |-> "none"] /\ drained = [r \in Requests |-> FALSE]
    /\ waits = [r \in Requests |-> 0]
    /\ handler = [r \in Requests |-> "none"]
    /\ server = [r \in Requests |-> NoContainer]
    /\ started = [r \in Requests |-> 0]
    /\ params = [c \in ContainerIDs |-> Old] /\ result = [c \in ContainerIDs |-> Old]
    /\ cut = {}

(* What Execute returns: a result that says Success or one that does not,   *)
(* or an error.                                                             *)
Returned == {"success", "failure", "error"}

Goes(r, step) == call' = [call EXCEPT ![r] = step]
Handling(r, step) == handler' = [handler EXCEPT ![r] = step]

NoHandler(S) ==
    /\ handler' = [r \in Requests |-> IF r \in S THEN "none" ELSE handler[r]]
    /\ server' = [r \in Requests |-> IF r \in S THEN NoContainer ELSE server[r]]

-----------------------------------------------------------------------------
(* The pool: a new container has no files of its own, and a container that  *)
(* is destroyed takes its handlers with it.                                 *)

Containers ==
    LET new == alive' \ alive IN
    /\ params' = [c \in ContainerIDs |-> IF c \in new THEN Old ELSE params[c]]
    /\ result' = [c \in ContainerIDs |-> IF c \in new THEN Old ELSE result[c]]
    /\ cut' = cut \ new
    /\ NoHandler({r \in Requests : server[r] \notin alive'})
    /\ UNCHANGED started

(* A request that is not executing does what it does in the pool. *)
PoolStep ==
    /\ Next /\ Containers /\ UNCHANGED client
    /\ \A r \in Requests : phase[r] = "running" => phase'[r] = "running"

(* What a request left in the files belongs to an earlier call. *)
Forgotten(f, r) == [c \in ContainerIDs |-> IF f[c] = r THEN Old ELSE f[c]]

(* The call is over: what it left behind is old, and what it knew is gone.  *)
Release(r) ==
    /\ call[r] \in Returned /\ ReleaseContainer(r)
    /\ Goes(r, "none")
    /\ drained' = [drained EXCEPT ![r] = FALSE]
    /\ waits' = [waits EXCEPT ![r] = 0]
    /\ started' = [started EXCEPT ![r] = IF handler[r] = "none" THEN 0 ELSE @]
    /\ params' = Forgotten(params, r) /\ result' = Forgotten(result, r)
    /\ UNCHANGED <<handler, server, cut>>

-----------------------------------------------------------------------------
(* Execute and sendPostRequestWithRetries. *)

(* Bound: a request calls again once no handler of its last call is left. *)
Call(r, step) ==
    /\ phase[r] = "running" /\ call[r] = "none" /\ handler[r] = "none"
    /\ Goes(r, step)
    /\ started' = [started EXCEPT ![r] = 0]
    /\ params' = Forgotten(params, r) /\ result' = Forgotten(result, r)
    /\ UNCHANGED <<vars, drained, waits, handler, server, cut>>

Execute(r) == Call(r, "post")

(* GetIPAddress answers an error. *)
GetIPAddressFails(r) == Call(r, "error")

(* Nobody listens: the body is not read. *)
PostRefused(r) ==
    /\ call[r] = "post"
    /\ Goes(r, "sleep")
    /\ UNCHANGED <<vars, drained, waits, executor, files, cut>>

(* The connection is lost before the body has arrived. *)
PostLost(r) ==
    /\ call[r] = "post" /\ cont[r] \in alive
    /\ Goes(r, "sleep")
    /\ drained' = [drained EXCEPT ![r] = TRUE]
    /\ UNCHANGED <<vars, waits, executor, files, cut>>

(* Mutant of Post: every attempt sends the body anew. *)
PostRewinds(r) ==
    /\ call[r] = "post" /\ cont[r] \in alive
    /\ Goes(r, "sent")
    /\ drained' = [drained EXCEPT ![r] = TRUE]
    /\ Handling(r, "decoded") /\ server' = [server EXCEPT ![r] = cont[r]]
    /\ UNCHANGED <<vars, waits, started, files, cut>>

Post(r) ==
    /\ call[r] = "post" /\ cont[r] \in alive /\ ~drained[r]
    /\ Goes(r, "sent")
    /\ drained' = [drained EXCEPT ![r] = TRUE]
    /\ Handling(r, "decoded") /\ server' = [server EXCEPT ![r] = cont[r]]
    /\ UNCHANGED <<vars, waits, started, files, cut>>

(* A retry after the body was read posts an empty one: the executor cannot  *)
(* decode it, and Execute cannot decode the answer.                         *)
PostEmpty(r) ==
    /\ call[r] = "post" /\ cont[r] \in alive /\ drained[r]
    /\ Goes(r, "error")
    /\ UNCHANGED <<vars, drained, waits, executor, files, cut>>

(* The connection ends without an answer: it is lost, or the handler is     *)
(* gone.                                                                    *)
LoseConnection(r) ==
    /\ call[r] = "sent"
    /\ Goes(r, "sleep")
    /\ cut' = cut \cup {cont[r]}
    /\ UNCHANGED <<vars, drained, waits, executor, files>>

(* Mutant of Sleep: the time waited is not added up. *)
SleepUncounted(r) ==
    /\ call[r] = "sleep"
    /\ Goes(r, "post")
    /\ UNCHANGED <<vars, drained, waits, executor, files, cut>>

(* Mutant of Sleep: the comparison with TIMEOUT_MILLIS is late. *)
SleepOnceMore(r) ==
    /\ call[r] = "sleep"
    /\ waits' = [waits EXCEPT ![r] = @ + 1]
    /\ Goes(r, IF waits[r] + 1 <= MaxWaits THEN "post" ELSE "error")
    /\ UNCHANGED <<vars, drained, executor, files, cut>>

(* A wait; when the time is over, nil and no error are returned, and        *)
(* Execute makes an error of it.                                            *)
Sleep(r) ==
    /\ call[r] = "sleep"
    /\ waits' = [waits EXCEPT ![r] = @ + 1]
    /\ Goes(r, IF waits[r] + 1 < MaxWaits THEN "post" ELSE "error")
    /\ UNCHANGED <<vars, drained, executor, files, cut>>

-----------------------------------------------------------------------------
(* InvokeHandler. *)

(* The handler ends with an answer, which arrives unless the client is gone. *)
Answer(r, step) ==
    /\ NoHandler({r})
    /\ Goes(r, IF call[r] = "sent" THEN step ELSE call[r])

WriteParams(r) ==
    /\ handler[r] = "decoded"
    /\ Handling(r, "ready")
    /\ params' = [params EXCEPT ![server[r]] = r]
    /\ UNCHANGED <<vars, client, server, started, result, cut>>

(* The file cannot be written: status 500, which Execute cannot decode. *)
WriteParamsFails(r) ==
    /\ handler[r] = "decoded"
    /\ Answer(r, "error")
    /\ UNCHANGED <<vars, drained, waits, started, files, cut>>

(* There is no command, nor a CUSTOM_CMD: err is nil, err.Error() panics,   *)
(* and net/http closes the connection.                                      *)
Panic(r) ==
    /\ handler[r] = "decoded"
    /\ NoHandler({r})
    /\ params' = [params EXCEPT ![server[r]] = r]
    /\ UNCHANGED <<vars, client, started, result, cut>>

Start(r) ==
    /\ handler[r] = "ready"
    /\ Handling(r, "running")
    /\ started' = [started EXCEPT ![r] = @ + 1]
    /\ UNCHANGED <<vars, client, server, files, cut>>

(* Mutant of StartFails: the error of CombinedOutput is not looked at. *)
StartFailsUnnoticed(r) ==
    /\ handler[r] = "ready"
    /\ Handling(r, "silent")
    /\ UNCHANGED <<vars, client, server, started, files, cut>>

(* There is no such command: CombinedOutput answers an error, as it does    *)
(* for a command that fails.                                                *)
StartFails(r) ==
    /\ handler[r] = "ready"
    /\ Handling(r, "failed")
    /\ UNCHANGED <<vars, client, server, started, files, cut>>

(* The process ends well, with a result written or without one, or it       *)
(* fails, whatever it has written.                                          *)
Exit(r) ==
    /\ handler[r] = "running"
    /\ \E end \in {"written", "silent", "failed"} : Handling(r, end)
    /\ \/ /\ handler'[r] # "silent"
          /\ result' = [result EXCEPT ![server[r]] = r]
       \/ handler'[r] # "written" /\ result' = result
    /\ UNCHANGED <<vars, client, server, started, params, cut>>

(* Success with what the result file holds: when this process wrote none,   *)
(* the result of an earlier one.  Or no Success after an error.             *)
Respond(r) ==
    /\ \/ handler[r] \in {"written", "silent"} /\ Answer(r, "success")
       \/ handler[r] = "failed" /\ Answer(r, "failure")
    /\ UNCHANGED <<vars, drained, waits, started, files, cut>>

-----------------------------------------------------------------------------
Attempt(r) == PostRefused(r) \/ PostLost(r) \/ Post(r) \/ PostEmpty(r)

Handle(r) ==
    \/ WriteParams(r) \/ WriteParamsFails(r) \/ Panic(r)
    \/ Start(r) \/ StartFails(r) \/ Exit(r) \/ Respond(r)

InvocationNext ==
    \/ PoolStep
    \/ \E r \in Requests :
         \/ Execute(r) \/ GetIPAddressFails(r)
         \/ Attempt(r) \/ LoseConnection(r) \/ Sleep(r)
         \/ Handle(r) \/ Release(r)

(* Besides the fairness of the pool: Execute goes on, commands and the      *)
(* handlers that run them end, and a client notices that its handler is     *)
(* gone.                                                                    *)
InvocationFairness ==
    /\ Fairness
    /\ \A r \in Requests :
         /\ WF_ivars(Attempt(r)) /\ WF_ivars(Sleep(r)) /\ WF_ivars(Handle(r))
         /\ WF_ivars(handler[r] = "none" /\ LoseConnection(r))

InvocationSpec == InvocationInit /\ [][InvocationNext]_ivars /\ InvocationFairness

-----------------------------------------------------------------------------
(* Properties. *)

(* However often a call retries, and whatever is lost, the command of an    *)
(* invocation is started at most once: a body that was read is not sent     *)
(* again.                                                                   *)
AtMostOnce == \A r \in Requests : started[r] <= 1

(* When Execute returns a result that says Success, the command was started *)
(* exactly once; when it returns an error although the command was started, *)
(* a connection to the container was lost.  A result without Success tells  *)
(* nothing: it also comes when the command could not be started.            *)
AnswerIsTrue ==
    \A r \in Requests :
        /\ call[r] = "success" => started[r] = 1
        /\ call[r] = "error" /\ started[r] > 0 => cont[r] \in cut

(* In a container that never lost a connection, the only handler is that of *)
(* the request that holds the container; its command finds its own          *)
(* parameters, and the result it wrote is the one that is read.             *)
OwnFiles ==
    \A r \in Requests :
        handler[r] # "none" /\ server[r] \notin cut =>
            /\ cont[r] = server[r]
            /\ \A q \in Requests \ {r} : handler[q] # "none" => server[q] # server[r]
            /\ handler[r] # "decoded" => params[server[r]] = r
            /\ handler[r] = "written" => result[server[r]] = r

(* Every call of Execute returns, whatever fails.                           *)
ExecuteReturns ==
    \A r \in Requests :
        call[r] \in {"post", "sent", "sleep"} ~> call[r] \in Returned
=============================================================================
