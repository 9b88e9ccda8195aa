# serverledge-solver: formal models and proofs

TLA+ models of the two programs of this repository, checked with TLC on small
instances and, where the property matters for every size, proved with TLAPS:

- the **node** (Go, `client/src`): it keeps containers, takes scheduling
  decisions, stores functions in etcd behind a cache, and watches its
  neighbours;
- the **solver** (Python, `src`): a gRPC server that collects arrival rates and
  service times and answers execution probabilities.

Every definition is translated from the code; `PROJECT.json` ("map") names the
lines of each. Files:

| file | what it is |
|---|---|
| `ContainerPool`, `DecisionEngine`, `FIFOQueue`, `FunctionStore`, `EdgeMonitor`, `SolverServer` | one component each |
| `Invocation` | the execution of an invocation: `ContainerPool` composed with the HTTP client of the node and the executor in the container |
| `BoundedFIFO` | what a queue of the scheduler promises; `FIFOQueue` implements it |
| `ContainerLease` | what the pool promises the requests; `ContainerPool` implements it |
| `Totals` | the total of a function to natural numbers, for the accounts of the pool |
| `MC*.tla`, `MC*.cfg` | instances for TLC |
| `*Proofs.tla` | the theorems about a component; `TotalsProofs` has the laws of totals they cite |

`tlc -config MCContainerPool.cfg MCContainerPool` runs a check,
`tlapm ContainerPoolProofs.tla` the proofs of a module. The definitions that
begin with the comment "Mutant of X" are X with a plausible mistake; they belong to no
specification, and are there to see that each property notices its mistake.

## 1. Inventory

### The node

| component | source (`client/src/`) | state | operations |
|---|---|---|---|
| Container pool | `node/pool.go`, `node.go` | `Resources`: CPU and memory available, per function a busy and a ready list | `AcquireWarmContainer`, `NewContainer`, `ReleaseContainer`, `dismissContainer`, `DeleteExpiredContainer`, `ShutdownWarmContainersFor`, `ShutdownAllContainers` |
| Janitor | `node/janitor_handler.go` | a goroutine, a stop channel | `GetJanitorInstance`, tick, `StopJanitor` |
| Container creation | `container/` | the containers of the factory (external); per call the buffer of the body and the time waited | `NewContainer`, `Destroy`, `GetMemoryMB`, `Execute`, `sendPostRequestWithRetries` |
| Request queue | `scheduling/queue.go` | circular buffer, head, tail, size | `Enqueue`, `Dequeue`, `Front`, `Len` |
| Decision engine | `scheduling/decisionEngineMem.go` | map of function statistics, two channels, two tickers | `Decide`, `Completed`, `handler` |
| Function store | `function/function.go`, `utils/etcd.go` | etcd (external) and the local cache | `GetFunction`, `SaveToEtcd`, `Delete` |
| Item cache | `cache/` | items with expiration and last use, a lock, a janitor | `Set`, `Get`, `Delete`, `DeleteExpired`, `findLRU` |
| Registration | `registration/registry.go` | a key with a lease in etcd | `RegisterToEtcd`, `GetAll`, `Deregister` |
| Edge monitoring | `registration/registryLog.go`, `edgeNetUDPDiscovery.go` | server and neighbour maps, a lock | monitoring loop, `getRank`, UDP status exchange |
| Solver client | `main/solver.go`, `main/classes_config.go` | the map of functions and their probabilities | `solve` |
| Executor | `executor/` | in every container: the environment, the files with the parameters and the result | `InvokeHandler` |

### The solver

| component | source (`src/`) | state | operations |
|---|---|---|---|
| Solver server | `server.py`, `faas.py`, `infrastructure.py` | one `NetworkMetrics` for all calls: lists of functions and classes, dictionaries of rates and times | `Solve` |
| Optimizer | `optimizer.py` | none | `update_probabilities` |

### How they interact

Requests reach the node in goroutines: each asks the engine for a decision,
acquires a container from the pool (warm, or new with a dismissal if memory is
short), posts the invocation to the executor in the container, releases the
container when the answer is there or it has given up, and reports to the engine. The engine
reads the accounts of the pool to see what the node can execute. The
configuration of a function comes from the store. The solver client sends the
node's functions, classes, rates and memory to the solver and waits for the answer.
Nothing in this repository calls `Decide` and `Completed`, or implements the
container `Factory`: they belong to the Serverledge node this code was taken
from. The models take the callers from the interfaces (a request decides
once and completes once; a factory call succeeds, or fails as its signature
allows).

### What is hard, and what makes each part correct

The full list, at the line where each hazard bites and with the properties
aimed at it, is `PROJECT.json` ("hazards"). In short:

- *Pool*: creation leaves the lock between reserving and inserting; destruction
  after a shutdown runs without it; a dismissal may fail half way; an error may come
  after the reservation. Correct when CPU and memory are neither lost nor handed out
  twice, a container serves one invocation at a time, and whatever is in the
  pool exists.
- *Engine*: two channels and two tickers, received in any order; bounded
  channels that block; a map read without a lock; counters reset by a timer
  behind averages. Correct when statistics say what they claim, entries are
  created and forgotten together with what depends on them, and nobody waits for ever.
- *Store and cache*: reading etcd and filling the cache are not atomic with
  writes; other nodes' caches are not told of writes; evictions depend on the order of a map. Correct when a
  stale item has a known cause and goes away, and the cache keeps to its size.
- *Queue*: wrapping indices. Correct when it is a FIFO queue.
- *Solver*: ten calls at once work on lists without a lock; the dictionaries
  must have every couple the optimizer reads. Correct when nothing listed is
  lost or listed twice, and an answer covers what was asked.
- *Registration and monitoring*: leases that end, nodes that fail and start again
  while their old key is there, a rank that keeps old neighbours, a datagram awaited without a
  deadline under a lock. Correct when a node finds the servers that are there, replaces those that are not, and
  does not watch itself.
- *Execution*: a POST that may have run the command and is retried, handlers that outlive their
  client, files shared by all handlers of a container. Correct when a command runs at most once, the answer says
  whether it ran, and it used its own parameters.

## 2. The modules

### ContainerPool

| model | code |
|---|---|
| `AvailableCPUs`, `AvailableMemMB` | the accounts of `Resources`; demands are multiples of a common unit |
| `ready[f]`, `busy[f]`, `expired` | the lists of `ContainerPool`; a list is a set and its front any member; a container past its `Expiration` is in `expired` |
| `alive`, `condemned` | the containers that exist in the factory; those a goroutine of `ShutdownWarmContainersFor` has still to destroy |
| `phase[r]`, `cont[r]` | where the goroutine of request r is, and the container it holds |
| `janitor`, `terminated` | the janitor's goroutine; whether `ShutdownAllContainers` ran |
| `lostCPUs`, `lostMemMB`, `blamed` | history: what the code drops on its error paths (below), and containers on which `Destroy` failed |

An operation that holds the lock throughout is one action. `NewContainer` is
three: `ReserveFree` or `ReserveDismissing` (under the lock), `Spawn` or
`SpawnFails` (outside), and `InsertNewContainer` or `ReleaseAfterFailure` (under
the lock again). `DismissalFails` is a dismissal
whose `Destroy` fails, at any item; one whose memory does not suffice changes nothing. Three error paths of the code lose accounts
and the model counts what they lose instead of hiding it: an unknown runtime returns with
CPU and memory still acquired (`InvalidRuntime`); the item on which a dismissal stops
is out of its list without its memory being given back; and an error of `GetMemoryMB`, which nobody reads, makes the
memory of a container 0 (`GiveBack`, `GiveBackItems`; a dismissal reads it once for a whole list). `CPUConserved`
and `MemConserved` then say that this is *all* that is ever lost. What requests reserve, `ReservedCPUs` and `ReservedMB`, is
a `Total`, which counts units (g[x] of them for each x): the laws of sums become laws of cardinalities, which have proofs.

`ContainerLease` is the pool seen by its users: `lease` (the container each request has), `exists`, and whether
the node is `down`. A request is given a container nobody has, which exists and stays until the request returns it
or the node shuts down. The refinement maps `lease` to `cont`, `exists` to `alive` and `down` to `terminated`. Lists,
accounts, expiration and the factory's failures disappear, so that every sweep,
dismissal and destruction must be shown to be the destruction of containers nobody has.

### DecisionEngine

`stage[r]` and `decision[r]` are the goroutine of a request (`SendArrival`,
`Choose`, `Completed`); `arrivalChannel` and `requestChannel` the channels;
`m`, `invokingClasses`, `arrivalCount`, `slotsWithout`, `info` the map `d.m`
and its entries; `total` and `age` are histories: the sum of the durations that were counted, and the evaluations since the arrival of
a request was handled. Each case of `handler`'s select is an action:
`HandleArrival`, `HandleCompletion`, `Evaluate` (`evaluationTicker`),
`ResetColdStarts` (`pcoldTicker`). Averages are kept in units of `1/Scale`, so
that division is exact (`ScaleAssumption`: `Scale` is a multiple of every count up to the number of requests). `Decide` reads `d.m` while `handler` writes it: Go may stop the
process, which is the action `DataRace` (the requests in flight are lost and
the engine restarts empty). `Decide` also draws from a random generator
that is not safe for concurrent use; what a race in it can do is not modelled.

`Choose` computes the shares as `Decide` does, adjustment by adjustment (`Shares`), in exact fractions: a share that is
overwritten one line before it is used is overwritten here too, and a fraction with denominator 0 is NaN, with which no
comparison is true. The shares it starts from are `startingExecute/Whole` and `startingOffload/Whole`, any two that leave
something or nothing to drops; an entry of the map always holds them too, because `updateProbabilities` does nothing.
A completion of a function that is not in the map is discarded (`HandleCompletion`). `DiscardIsExplained` says when that can
be: when the completion overtook the arrival of its own request, or after more evaluations than it takes to forget a class.

### FIFOQueue and BoundedFIFO

The circular buffer with its indices, and the sequence it stands for. The
refinement maps the sequence to the slots from `head`, `Contents`, and keeps
`ret`, so that the values returned are compared too.

### FunctionStore

A call is one access to etcd and accesses to the cache, each an action: `Hit`
or `Miss`, `GetFromEtcd`, `Fill`; `PutToEtcd`, `SetSaved`; `DeleteFromEtcd`,
`DeleteCached`. A function is its name and the number of the Put that wrote
it. Of time the model keeps which item was set before which (`earlier`), which
was used before which (`older`) and which are past their expiration
(`lapsed`). `FindLRU` is the set of items `findLRU` may name over all orders
of the map: it is not only the oldest, because an expired item replaces the best candidate
found so far and the comparison goes on from its age. So the item evicted may be neither expired nor the oldest,
which the comments of cache.go say it is (run `store_lru`); `LatestSurvives` is what remains of that promise. `excused` and `gone` are histories:
the items a write could not keep up to date, and those a Delete removed while no SaveToEtcd was on its way to them.

### EdgeMonitor

| model | code |
|---|---|
| `registered` | the keys of the area in etcd (external) |
| `Key[s]`, `reg[s]` | the key `RegisterToEtcd` made for the present run of the process of s, and how far its registration is: a lease `granted`, the key put and `kept` alive, or `lapsed` once the keep-alive has ended |
| `serversMap[s]`, `NearbyServersMap[s]` | the maps of `Registry`; an entry is its key |
| `phase[s]`, `etcdServerMap[s]`, `todo[s]`, `asked[s]` | the monitoring goroutine: which function it is in, what `GetAll` answered, the servers left in the loop, the one whose status it waits for |
| `stuck[s]`, `etcdCh[s]` | the goroutine waits for a datagram that was lost; somebody waits to send to `etcdCh` |

`phase` is `monitoring` or `nearby` while `RwMtx` is held. Everything `runMonitor` selects is an action
(`StartMonitoring`, `StartNearbyMonitoring`), and so is every server of the loops (`Ask`, then
`Answered`, `Unreachable`, `UnreachableNeighbour` or `Lose`) and their ends (`EndMonitoring` with `getRank`,
`EndNearbyMonitoring`). Processes end (`Crash`) and register again under a new key, leases end
(`LeaseExpires`), etcd refuses (`PutFails`, `GetAllFails`, `KeepAliveEnds`). The Put and the start of the
keep-alive are one step. `getRank` is the set of maps it may
leave, for any distances. A status that does not fit in the 1024 bytes of the
buffer cannot be unmarshalled; `Oversized` names the nodes this may happen to.

### Invocation

Extends `ContainerPool`: its actions stay what they are (`PoolStep`), and between the acquisition and the
release of a container come the steps of `Execute` (`call[r]`): `Post`, `PostRefused`,
`PostLost`, `PostEmpty`, `LoseConnection`, `Sleep`. `drained[r]` says that the `bytes.Buffer` of the body has been
read: `http.Post` reads it, nobody rewinds it, and a retry sends nothing (`PostEmpty`), which the
executor cannot decode. `handler[r]` is the handler that received the body: `WriteParams`, `WriteParamsFails`,
`Panic` (no command: `Error()` of a nil error), `Start` or `StartFails`, `Exit`, `Respond`. `CombinedOutput` answers an error
both when the process cannot be started and when it fails, and `Execute` returns a result without Success (`failure`)
for both; only Success says that the command ran. The handler runs in
`server[r]` and does not notice that its client is gone; the container may be
released and taken by another request in the meantime, and then two handlers share
`params` (the environment and the parameter file) and `result`. `cut` is a history of the containers in which
a connection was lost, `started` counts how often the command of a call was started.
A container that is destroyed takes its handlers with it (`Containers`).
A goroutine that serves many invocations is one name; it calls again once no handler of its last call is left
(`Call`), so that `handler` needs one entry per request.

### SolverServer

Each `Solve` is a sequence of steps over the shared `NetworkMetrics`: for
every class, then every function of the request, `Scan`, `Pop`, `Insert` or
`AppendNew` (`_insert_if_not_present`), then the couples and invocation times
(`SearchFunction`, `AddCouple`, `UpdateInvocations`), the optimizer (`Solve`:
no optimum, a KeyError, or a result) and the answer (`Respond`). Lists are sequences
of names and dictionaries the sets of their keys (`rates`, `timed`). `Restart` loses
everything. The scan of a list is one step. The constant `Overlap`
says whether calls of different clients may interleave: one solver beside one node,
the default (`localhost:2500`), has a single client, which waits for each answer;
several nodes with one solver have not.

## 3. Runs

| run | instance | distinct states | shows |
|---|---|---|---|
| `pool` | 4 requests of 3 functions (1 CPU/1 MB; 2 CPU/2 MB; 1 CPU/1 MB with an unknown runtime), 3 containers, 2 CPUs, 3 MB; symmetric containers and requests | 843,798 | `TypeOK`, `Exclusive`, `NeverOvercommitted`, `Usable`, `CPUConserved`, `MemConserved`, `EvictedForAReservation`, `ImplementsContract` |
| `invocation` | 2 requests of one function, 1 container, 2 waits until the timeout | 234,045 | `InvocationTypeOK`, `AtMostOnce`, `AnswerIsTrue`, `OwnFiles`, `ExecuteReturns`, `WarmIsReaped` |
| `queue` | 3 slots, 3 values | all positions of head and all sizes | `TypeOK`, `ImplementsFIFO` |
| `engine` | 3 requests, one of which may not be offloaded, 1 function, 2 classes, channels of 1, 2 slots without arrivals to forget a class, shares 1/2 and 1/2, draws in quarters | 135,831 | `TypeOK`, `MeanIsExact`, `ProbColdIsUpperBound`, `EntriesConsistent`, `DecisionAllowed`, `DiscardIsExplained`, `EveryRequestIsServed`, `EventuallyForgotten` |
| `store` | 1 node, 2 goroutines, 3 names with 2, 1, 1 Puts, 2 items, expiring and swept | 855,360 | `TypeOK`, `CacheBounded`, `StaleIsExplained`, `CachesConverge`, `LatestSurvives` |
| `edge` | 1 node that watches and may fail, 1 that only answers, 1 that may fail and whose status may be too long; rank 2, 2 runs of the first | 199,736 | `TypeOK`, `NotMyself`, `KnownForAReason`, `LockReleased`, `ServerIsFound`, `NeighbourIsReplaced` |
| `server` | 2 clients in turn, classes {c1} and {c1, c2}, 2 functions, restarts | 60,551 | `TypeOK`, `NamesUnique`, `NothingLost`, `OnlyForeignMissing`, `AnswerCoversRequest` |

Five more runs check one statement each that the repository makes and the code
does not keep; TLC shows how:

| run | statement | what happens |
|---|---|---|
| `pool_stranded` | pool.go:111, "The acquired container is already in the busy pool." | the warm container moves to the busy list, then the CPU is refused: it stays busy, held by nobody, and neither the janitor nor a release can reach it |
| `pool_orphan` | pool.go:224, "we delete the container" | the items a dismissal takes from one list all carry the identifier of the front: the others leave the pool, exist, and count as free memory |
| `store_lru` | cache.go:82, "find the least used item into the cache or an expired one" (also lines 74 and 90) | three items, one of them expired: the search goes on from the age of the expired one, and evicts an item that is neither expired nor the least recently used |
| `store_deleted` | function.go:111, "Delete removes a function from Etcd and the local cache." | a GetFunction that read etcd before the Delete fills the cache after it |
| `server_overlap` | server.py:64, "mantiene il riferimento alle funzioni in arrivo" | a call pops, at the index it found, the function another call has just put back: its own stays twice, the other is lost |

### Bounds, and why they are enough

- *pool*: two requests of one function are needed for a race on its list, one
  that needs all the CPU and two containers' memory for refusals and for dismissals of more than one item. Three MB hold
  three small containers and nothing else, so a large one needs two of them dismissed. Container identifiers (`ContainerIDs`) are reused
  only after nothing refers to them. The fourth request, of an unknown runtime, takes accounts away.
- *invocation*: one container and two requests make every request meet what the other left in it: its
  handler, its files. Two waits allow one retry, the least that can send the body again; a third repeats it.
- *edge*: `w` watches and runs twice, so that its old key is a server like others. With `p`, `q` and that key it knows one
  more server than the rank, exactly as many, or fewer: the three cases of `getRank`. The others answer and fail but do not
  watch (`Watchers`): nodes only read one another's status. `Failing` leaves one server, `p`, that is always there to be found.
- *engine*: one place per channel makes senders wait at once; two requests of a
  class and one of another put arrivals in and out of a running entry, and three
  completions reach every shape of the counters (warm after cold, cold after warm, across a reset). `Scale` is 6, a
  multiple of 1, 2 and 3. Two idle slots are the least that tells "idle" from "expired".
  The starting shares are those of the code; quarters (`Precision`) draw 0, a share, and what lies between. Other shares are
  covered by the proof.
- *store*: three names on two places force evictions; a second Put of one
  name distinguishes old from new. With one node the causes of staleness
  are the races and failures of one node; what other nodes cause is covered by the proof, for any number of nodes.
- *store_lru*: three places and four names, one goroutine: with two places `findLRU` cannot name an item that is neither.
- *server*: two functions and two classes are enough for a couple that one request
  lacks; two clients for two owners of a list. `Overlap` needs only one class.
- `CHECK_DEADLOCK FALSE` is given for the pool and the invocation (nothing needs to happen once the pool is shut
  down or every container exists), the engine (every request may have been served
  and every entry forgotten) and the monitor (every process may have ended). The other runs check deadlock.

### Fairness

- `ContainerPool`: the tick of a running janitor, the passing of an expiration,
  and the goroutine that destroys containers are weakly fair. Requests are not: nobody has to
  call or to return. `WarmIsReaped` speaks of the time while the janitor runs.
- `Invocation`: besides the pool's, `Execute` goes on (attempts, waits), a command and the handler
  that runs it end, and a client notices that its handler is gone. The last is an assumption about the
  connection: `http.Post` has no timeout, and a client whose peer disappears in silence waits for ever.
- `EdgeMonitor`: the loop goes on, and a request is answered, refused or lost. Strong fairness of
  `StartMonitoring`: select picks at random among the tickers, and etcd answers again and again. Leases end. Nobody has to
  register or to fail. The properties allow for a goroutine that waits for a lost datagram (`stuck`): nothing ends that wait.
- `DecisionEngine`: weak fairness of the three receivers and of `Choose`: select picks
  at random among what is ready, and a goroutine is not suspended for ever.
  Strong fairness of the two sends, because the senders waiting for a Go channel are served in order.
  `ResetColdStarts` and `DataRace` are not fair. `EventuallyForgotten` holds because the model has finitely
  many requests: it says what happens once they stop.
- `FunctionStore`: a call under way goes on, an access to etcd ends (10 s timeout), and items expire. Nobody has to
  call, and the sweep need not run: `CachesConverge` counts an item past its expiration as gone, which `Get` does too.
- `SolverServer` and `FIFOQueue`: none, only safety.

## 4. Theorems

All proofs are for every value of the constants under the named assumption of
the module (`PoolAssumption`, `QueueAssumption`, `EngineAssumption`,
`StoreAssumption`, `EdgeAssumption`, `InvocationAssumption`, `SolverAssumption`), which says what a constant is and nothing more: natural
numbers where the code has sizes, capacities at least 1 where the constructor
demands it, finite sets where cardinalities are taken. Two more are named where they are used. `ScaleAssumption` fixes the unit of
averages: the requests are finitely many, and `Scale` is a multiple of each number up to theirs (a factorial is one), so that the model's
integer divisions are the code's divisions of floats. `EveryFunctionTakesMemory` (no function of 0 MB) is a hypothesis of one theorem.

| module | theorems | argument |
|---|---|---|
| `ContainerPoolProofs` | `TypeCorrect`, `NoOvercommit` | `Typed`: types, no account below 0, and `Holding` (a request has a container exactly from creation or acquisition to release). A subtraction is preceded by its comparison; what a dismissal adds is a natural number that covers the request |
| | `ContainersAreExclusive` | `Exclusive` is inductive relative to `Typed`: a fresh identifier is in no list and in no hand, a container that moves leaves the list it was in |
| | `PooledContainersExist` | `Usable` is inductive relative to both: what is destroyed was taken out of the lists first, or was in the hand of nobody because of `Exclusive` |
| | `CPUIsConserved` | each step changes the account, what is reserved, what runs and what is lost by amounts that cancel. `FinitelyActive`: the requests may be infinitely many, but only finitely many reserve at a time, so that there is a total |
| | `MemoryIsConserved` | `Balanced`: what is available, what the containers in the lists take and what was lost (`OutsideMB`), with what is reserved, make up `MaxMemMB`. It needs all the layers above: memory is given back by asking the factory for the size of a container, which must exist, be counted once, and be in no other list. What a dismissal collects from one list is at most that list (`CollectedPart`) |
| | `EvictionsAreForReservations` | an action property, under `EveryFunctionTakesMemory`. `Unblamed`: until the shutdown, a container on which `Destroy` failed exists but nobody refers to it, so that a dismissal which fails blames a *new* one. With a function of 0 MB the memory lost may be 0, and the property would have nothing to see |
| | `PoolKeepsContract` | refinement of `ContainerLease`: `Init` maps to `Init` and each step to one of its steps or to a stutter. A container destroyed before the shutdown came out of a ready list or from `condemned`, and `Exclusive` says that nobody has it |
| `FIFOQueueProofs` | `TypeCorrect` | with `TailFollows`: `tail = (head + size) % Capacity`, without which an index of an Enqueue could fall on a used slot |
| | `QueueImplementsFIFO` | refinement: `Init` maps to `Init`, and each operation to the operation of the same name, by lemmas on what Enqueue and Dequeue do to `Contents` |
| `DecisionEngineProofs` | `TypeCorrect`, `ProbColdIsSafe`, `MapsAgree` | `IInv` = `TypeOK`, `EntriesOK`, `EntriesConsistent`. The bound on probCold is not inductive alone: a cold start makes it a quotient of counters that is at most 1 only because they are nested (`CountersNested`, part of it) |
| `FunctionStoreProofs` | `TypeCorrect`, `CachesAreBounded` | an eviction precedes every insertion into a full cache |
| | `StaleHasACause` | `IInv` adds `CarriesTheLast`: a call on its way to the cache carries the function in etcd or its item is excused; otherwise a Fill could make an item stale that nothing explains |
| `DecisionEngineProofs` | `DecisionsAreAllowed` | for all starting shares and draws: what remains after an adjustment is divided so that it reaches every draw below 1 (`WholeIsReached`), although the divisor was overwritten; where it is not, the starting shares left something to drops, or everything to the offloading that was taken away (`NothingIsDropped`) |
| | `MeanIsAlwaysExact` | the running mean times the count is the sum of the durations counted. `CountBounded`: no entry counts more completions than there are requests whose completion was sent and is no longer in the channel, and `ChannelOK`: none is there twice; so every quotient exists under `ScaleAssumption` |
| | `DiscardsAreExplained` | `AgeInv`: the class of a request in service whose arrival was handled is in the map and has had fewer idle slots than evaluations since then, because the first one still counts the arrival, unless these are more than `maxTimeSlots` already; an arrival of another request only resets the slots |
| `FunctionStoreProofs` | `LatestIsSpared` | an action property: only a `Set` puts an item where there was none, and the item it evicts was named by `findLRU`; with more than one place, the oldest has a younger one beside it |
| `EdgeMonitorProofs` | `TypeCorrect`, `NeverMyself`, `ServersAreKnownForAReason` | `IInv` carries through the phases what the two properties say between them: what is still to be asked, and what is being asked, came from `GetAll` or from the neighbours |
| `InvocationProofs` | `ImplementsPool` | every step is a step of the pool or leaves it alone; all theorems about the pool, the contract included, hold during executions |
| | `InvocationTypeCorrect`, `StartedAtMostOnce`, `AnswersAreTrue` | `Bounded`: a call that goes on has time left. `Safe`: the body leaves the buffer once, and a handler nobody waits for is in a container that lost a connection |
| | `FilesAreOwn` | `FilesSafe` and `OneHandler`: two handlers in a container that lost no connection would be those of two requests that hold it, which `Exclusive` of the pool excludes |
| `SolverServerProofs` | `TypeCorrect` | however calls overlap |
| | `NamesAreUnique`, `NothingIsLost`, `OnlyForeignEntriesMissing`, `AnswersCoverRequests` | assuming `Overlap = FALSE`. `Alone`: between a scan and the insertion nobody else works on the list, so the position found is that of the name (`Placed`); a step then matters only through the set of listed names (`Effects`), and the loops of `Solve` through what is left of them (`Registered`, `Known`, `Covered`, `Timed`) |

**Only model-checked.** Liveness (`WarmIsReaped`, `ExecuteReturns`, `EveryRequestIsServed`,
`EventuallyForgotten`, `CachesConverge`, `LockReleased`, `ServerIsFound`, `NeighbourIsReplaced`): TLAPS does not prove liveness
under fairness here. Every invariant, action property and refinement that a passing run checks is also a theorem.
The statements of the five runs that find a violation have no proof, of course.

## 5. Limits

- After `ShutdownAllContainers` the accounts and containers are not constrained
  (`CPUConserved`, `MemConserved`, `Usable` are stated until then): the code leaves busy containers
  in their lists and releases give back what was reset. `Exclusive` and `NeverOvercommitted` hold after it too.
- The cache compares the duration of an item with `DefaultExpiration` (2 s), not with 0 as its comment says;
  the store always passes `cache.DefaultExp`, so a model of the store has two cases, expiring or not (`Expiring`).
- The engine's `varianceDuration`, packet size and `OffloadLatency` are data
  no decision of this code reads.
- The values of rates and times in the solver, and the linear program, which an external
  solver answers, are left out: only keys and outcomes remain. Python's `policy.py`
  imports a module that is not in the repository; `expiringList.go` is used by nothing.
- Commands end, and what a command computes is data. A command that writes no result file answers with the result an earlier
  one left: no property speaks of it, because the code promises nothing for it.
- A second `StopJanitor` sends to a channel nobody receives from and blocks its caller; the model has one.
- `NearbyServersMap` keeps the statuses of the last complete monitoring, which `solve` reads; entries are keys in the model,
  statuses, distances and network coordinates are left out.
- In a period without completions `probCold`, which is stored and sent to the solver, is the ratio of an earlier period, while `getProbCold`
  would answer 1 ("there's a high probability that the function execution requires a cold start", decisionEngine.go:100).
  Nothing calls `getProbCold` (it is marked "TODO remove"), so this is a difference of two definitions and not of two outcomes:
  `ProbColdIsUpperBound` compares them only once a completion of the period was counted, and is silent before.
- Shares are exact fractions; the rounding of float64 could leave a sum of shares slightly below 1 where the model has 1.
- A completion that overtakes its own arrival is discarded, and the statistics miss it; `DiscardIsExplained` names this case
  as one of two and does not exclude it.
- `cache.Set` computes the expiration before it takes the lock, so two items may expire in another order than they were inserted;
  the model lets them expire in the order of the insertions (`Lapse`).
- `ShutdownAllContainers` ignores the error of `GetFunction` and would dereference a nil function for a busy container; this
  panic ends the process and is not modelled. `StopsAt` lets a dismissal collect the items of a list in any order.
- The empty status a server sends when it cannot marshal its own, and a UDP server that starts after the first monitoring,
  are not modelled; both look like a server that does not answer.
- The classes of the couples of a request are among the configured classes of its client (`Begin` of `SolverServer`).
  Exceptions of the optimizer other than KeyError (a bandwidth of 0 divides by 0) end a call as the failures in the model do.
- The average of init times in the engine divides by all completions, warm ones included; `info` keeps it, no property is about it.

### Not modelled

- `optimizer.py`: the linear program over floats is solved by an external program; the model has the entries it reads and how it ends.
- The values in the solver (rates, times, bandwidths), and what `solve` computes from the answer: arithmetic on floats.
- `policy.py`, `expiringList.go`: dead code.
- `async.go` (one Put with a lease, no state), `registry.go` in `client/src` (a copy of `registration/registry.go`), `registry.py`
  (a client of etcd used by its test only).
- Configuration, QoS classes and request types, HTTP, network and tar helpers, generated gRPC code: type declarations and pure input and output.
