---------------------------- MODULE DecisionEngine ----------------------------
(***************************************************************************)
(* The decision engine of the scheduler with its data in memory             *)
(* (scheduling/decisionEngineMem.go, declarations in decisionEngine.go).    *)
(* Goroutines that serve requests call Decide and Completed, which send to  *)
(* two bounded channels; one goroutine, handler, receives from both and     *)
(* from two tickers, in an order that select leaves open, and is the only   *)
(* one to write the map d.m.                                                *)
(*                                                                          *)
(* Abstractions.  Times are small integers; meanDuration and initTime are   *)
(* kept in units of 1/Scale, Scale being a multiple of every count that     *)
(* occurs, so that the divisions are exact.  varianceDuration, missed,      *)
(* OffloadLatency, arrivals and the packet size are left out: nothing here  *)
(* reads them.  The probabilities of Decide are exact fractions <<n, d>>,   *)
(* not float64.  Decide finds the starting ones whatever it sees of d.m,    *)
(* because updateProbabilities does nothing and every entry is created with *)
(* them; but it reads d.m without a lock, and the Go runtime stops a        *)
(* program that it catches reading a map while another goroutine writes it: *)
(* that outcome is the action DataRace.                                     *)
(***************************************************************************)
EXTENDS Integers, Sequences, FiniteSets

CONSTANTS
    Requests,        \* the requests, each served once
    Functions, Classes,
    FunOf, ClassOf,  \* r.Fun.Name and r.ClassService.Name
    CanDoOffloading, \* the requests that may be offloaded
    Reports,         \* bound: the ExecReports that occur
    ChannelCap,      \* the capacity of the two channels, 1000
    maxTimeSlots,    \* 20
    startingExecute, \* startingExecuteProb is startingExecute/Whole,
    startingOffload, \* startingOffloadProb is startingOffload/Whole
    Whole,
    Precision,       \* bound: Float64 draws a multiple of 1/Precision
    Scale            \* unit of the averages

ASSUME EngineAssumption ==
    /\ FunOf \in [Requests -> Functions] /\ ClassOf \in [Requests -> Classes]
    /\ CanDoOffloading \subseteq Requests
    /\ Reports \subseteq [warm : BOOLEAN, duration : Nat, init : Nat]
    /\ ChannelCap \in Nat \ {0} /\ maxTimeSlots \in Nat \ {0}
    /\ Scale \in Nat \ {0} /\ Precision \in Nat \ {0} /\ Whole \in Nat \ {0}
    /\ startingExecute \in 0..Whole /\ startingOffload \in 0..(Whole - startingExecute)

(* The divisions are exact: no count exceeds the number of requests.        *)
ASSUME ScaleAssumption ==
    /\ IsFiniteSet(Requests)
    /\ \A n \in 1..Cardinality(Requests) : \E k \in 1..Scale : Scale = n * k

VARIABLES
    stage,           \* where each request is
    decision,        \* what Decide answered, until the request completes
    arrivalChannel,  \* arrivals: requests
    requestChannel,  \* completions: [req, location, report]
    m,               \* the functions in d.m
    invokingClasses, \* the classes of the entry of a function
    arrivalCount,    \* of a function and class
    slotsWithout,    \* timeSlotsWithoutArrivals of a function and class
    info,            \* the counters of the entry of a function
    total,           \* history: sums of the durations counted in an entry
    age              \* history: evaluations since the arrival of each request
                     \* was handled, until its completion is

requestVars == <<stage, decision>>
classVars   == <<m, invokingClasses, arrivalCount, slotsWithout>>
vars == <<requestVars, arrivalChannel, requestChannel, classVars, info, total, age>>

LOCAL_RUN == "LOCAL"
OFFLOADED == "OFFLOADED"
Locations == {LOCAL_RUN, OFFLOADED}
Stages    == {"new", "sent", "decided", "done", "lost"}
Decisions == {"NONE", "DROP_REQUEST", "EXECUTE_REQUEST", "OFFLOAD_REQUEST"}

Zero    == [l \in Locations |-> 0]

(* The counters of a new entry.  probCold is a fraction. *)
NewInfo == [count |-> Zero, timeSlotCount |-> Zero, coldStartCount |-> Zero,
            meanDuration |-> Zero, initTime |-> Zero,
            probCold |-> [l \in Locations |-> <<1, 1>>]]

(* getProbCold, for a location. *)
GetProbCold(i, l) ==
    IF i.timeSlotCount[l] = 0 THEN <<1, 1>> ELSE <<i.coldStartCount[l], i.timeSlotCount[l]>>

FunctionInfo ==
    [count : [Locations -> Nat], timeSlotCount : [Locations -> Nat],
     coldStartCount : [Locations -> Nat],
     meanDuration : [Locations -> Int], initTime : [Locations -> Int],
     probCold : [Locations -> Nat \X Nat]]

Arriving == {arrivalChannel[i] : i \in DOMAIN arrivalChannel}
Pending  == {requestChannel[i].req : i \in DOMAIN requestChannel}

(* The requests whose completion is still to be handled. *)
InService == {r \in Requests : stage[r] \in {"sent", "decided"}} \cup Pending

TypeOK ==
    /\ stage \in [Requests -> Stages]
    /\ decision \in [Requests -> Decisions]
    /\ arrivalChannel \in Seq(Requests) /\ Len(arrivalChannel) <= ChannelCap
    /\ requestChannel \in Seq([req : Requests, location : Locations, report : Reports])
    /\ Len(requestChannel) <= ChannelCap
    /\ m \subseteq Functions
    /\ invokingClasses \in [Functions -> SUBSET Classes]
    /\ arrivalCount \in [Functions -> [Classes -> Nat]]
    /\ slotsWithout \in [Functions -> [Classes -> Nat]]
    /\ info \in [Functions -> FunctionInfo]
    /\ age \in [Requests -> 0..(maxTimeSlots + 1)]

Init ==
    /\ stage = [r \in Requests |-> "new"]
    /\ decision = [r \in Requests |-> "NONE"]
    /\ arrivalChannel = <<>> /\ requestChannel = <<>>
    /\ m = {} /\ invokingClasses = [f \in Functions |-> {}]
    /\ arrivalCount = [f \in Functions |-> [c \in Classes |-> 0]]
    /\ slotsWithout = [f \in Functions |-> [c \in Classes |-> 0]]
    /\ info = [f \in Functions |-> NewInfo]
    /\ total = [f \in Functions |-> Zero]
    /\ age = [r \in Requests |-> 0]

-----------------------------------------------------------------------------
(* The goroutine of a request. *)

(* Mutant of SendArrival: the channel is not bounded. *)
SendArrivalUnbounded(r) ==
    /\ stage[r] = "new"
    /\ arrivalChannel' = Append(arrivalChannel, r)
    /\ stage' = [stage EXCEPT ![r] = "sent"]
    /\ UNCHANGED <<decision, requestChannel, classVars, info, total, age>>

(* Decide, up to the send, which blocks while the channel is full. *)
SendArrival(r) ==
    /\ stage[r] = "new"
    /\ Len(arrivalChannel) < ChannelCap
    /\ arrivalChannel' = Append(arrivalChannel, r)
    /\ stage' = [stage EXCEPT ![r] = "sent"]
    /\ UNCHANGED <<decision, requestChannel, classVars, info, total, age>>

(* Sums and quotients of fractions.  The denominator 0 is NaN: 0 / 0, and   *)
(* whatever is computed from it.  Nothing compares with NaN.                *)
Plus(p, q) == <<p[1] * q[2] + q[1] * p[2], p[2] * q[2]>>
Over(p, q) == IF q[2] = 0 THEN q ELSE <<p[1] * q[2], p[2] * q[1]>>
Reaches(p, prob) == p[2] > 0 /\ prob * p[2] <= p[1] * Precision

Nothing    == <<0, 1>>
Everything == <<1, 1>>

StartingShares ==
    [pe |-> <<startingExecute, Whole>>, po |-> <<startingOffload, Whole>>,
     pd |-> <<Whole - startingExecute - startingOffload, Whole>>]

(* Mutant of Shares: canExecute is asked before CanDoOffloading. *)
SharesSwapped(r, canExecute) ==
    LET s == StartingShares IN
    IF ~canExecute THEN [s EXCEPT !.pe = Nothing, !.po = Everything]
    ELSE IF r \notin CanDoOffloading
    THEN LET drop == Over(s.pd, Plus(s.pd, s.pe))
         IN [pd |-> drop, pe |-> Over(s.pe, Plus(drop, s.pe)), po |-> Nothing]
    ELSE s

(* The probabilities of Decide after the adjustment.  The share of the      *)
(* drops is overwritten before the other share is divided by their sum.     *)
Shares(r, canExecute) ==
    LET s == StartingShares IN
    IF r \notin CanDoOffloading
    THEN LET drop == Over(s.pd, Plus(s.pd, s.pe))
         IN [pd |-> drop, pe |-> Over(s.pe, Plus(drop, s.pe)), po |-> Nothing]
    ELSE IF canExecute THEN s
    ELSE IF s.pd[1] = 0 /\ s.po[1] = 0
    THEN [pd |-> Nothing, po |-> Everything, pe |-> Nothing]
    ELSE LET drop == Over(s.pd, Plus(s.pd, s.po))
         IN [pd |-> drop, po |-> Over(s.po, Plus(drop, s.po)), pe |-> Nothing]

(* The rest of Decide.  canExecute reads the state of the node, which other *)
(* goroutines change at any time.  Float64 draws from [0, 1).               *)
Choose(r) ==
    /\ stage[r] = "sent"
    /\ \E canExecute \in BOOLEAN, prob \in 0..(Precision - 1) :
         LET p == Shares(r, canExecute) IN
         decision' = [decision EXCEPT ![r] =
            IF Reaches(p.pe, prob) THEN "EXECUTE_REQUEST"
            ELSE IF Reaches(Plus(p.pe, p.po), prob) THEN "OFFLOAD_REQUEST"
            ELSE "DROP_REQUEST"]
    /\ stage' = [stage EXCEPT ![r] = "decided"]
    /\ UNCHANGED <<arrivalChannel, requestChannel, classVars, info, total, age>>

(* Completed, called when the request has been executed here or elsewhere;  *)
(* the send blocks while the channel is full.                               *)
Completed(r) ==
    /\ stage[r] = "decided" /\ decision[r] # "DROP_REQUEST"
    /\ Len(requestChannel) < ChannelCap
    /\ \E report \in Reports :
         requestChannel' = Append(requestChannel,
            [req |-> r, report |-> report,
             location |-> IF decision[r] = "EXECUTE_REQUEST" THEN LOCAL_RUN ELSE OFFLOADED])
    /\ stage' = [stage EXCEPT ![r] = "done"]
    /\ decision' = [decision EXCEPT ![r] = "NONE"]
    /\ UNCHANGED <<arrivalChannel, classVars, info, total, age>>

-----------------------------------------------------------------------------
(* The goroutine handler: one case of its select each. *)

(* Mutants of Counted: the mean is divided by the count of the period;      *)
(* probCold by the count of all the completions.                            *)
CountedOverPeriod(i, l, report) ==
    LET slot == i.timeSlotCount[l] + 1
    IN [i EXCEPT !.count[l] = @ + 1, !.timeSlotCount[l] = slot,
                 !.meanDuration[l] = @ + ((report.duration * Scale - @) \div slot)]

ColdOverAll(i, l, report) ==
    LET warm == [i EXCEPT !.count[l] = @ + 1, !.timeSlotCount[l] = @ + 1]
        cold == i.coldStartCount[l] + 1
    IN IF report.warm THEN warm
       ELSE [warm EXCEPT !.coldStartCount[l] = cold,
                         !.probCold[l] = <<cold, i.count[l] + 1>>]

(* updateData: a completion is counted in the entry of its function, if     *)
(* there is one.  initTime is divided by the count of all the completions.  *)
Counted(i, l, report) ==
    LET count == i.count[l] + 1
        slot  == i.timeSlotCount[l] + 1
        cold  == i.coldStartCount[l] + 1
        mean  == i.meanDuration[l] + ((report.duration * Scale - i.meanDuration[l]) \div count)
        warm  == [i EXCEPT !.count[l] = count, !.timeSlotCount[l] = slot,
                           !.meanDuration[l] = mean]
    IN IF report.warm THEN warm
       ELSE [warm EXCEPT
               !.initTime[l] = @ + ((report.init * Scale - @) \div count),
               !.coldStartCount[l] = cold,
               !.probCold[l] = <<cold, slot>>]

(* Mutant of HandleCompletion: a completion waits for the entry of its      *)
(* function instead of being discarded.                                     *)
HandleCompletionWaits ==
    /\ requestChannel # <<>>
    /\ FunOf[Head(requestChannel).req] \in m
    /\ requestChannel' = Tail(requestChannel)
    /\ LET r == Head(requestChannel)
           f == FunOf[r.req]
       IN /\ info' = [info EXCEPT ![f] = Counted(@, r.location, r.report)]
          /\ age' = [age EXCEPT ![r.req] = 0]
    /\ UNCHANGED <<requestVars, arrivalChannel, classVars, total>>

HandleCompletion ==
    /\ requestChannel # <<>>
    /\ requestChannel' = Tail(requestChannel)
    /\ LET r == Head(requestChannel)
           f == FunOf[r.req]
           l == r.location
       IN IF f \in m
          THEN /\ info' = [info EXCEPT ![f] = Counted(@, l, r.report)]
               /\ total' = [total EXCEPT ![f][l] = @ + r.report.duration]
          ELSE UNCHANGED <<info, total>>
    /\ age' = [age EXCEPT ![Head(requestChannel).req] = 0]
    /\ UNCHANGED <<requestVars, arrivalChannel, classVars>>

(* Mutant of HandleArrival: timeSlotsWithoutArrivals is not reset. *)
ArrivalKeepsIdleSlots ==
    /\ arrivalChannel # <<>>
    /\ arrivalChannel' = Tail(arrivalChannel)
    /\ LET f == FunOf[Head(arrivalChannel)]
           c == ClassOf[Head(arrivalChannel)]
       IN /\ m' = m \cup {f}
          /\ invokingClasses' = [invokingClasses EXCEPT ![f] = @ \cup {c}]
          /\ arrivalCount' = [arrivalCount EXCEPT ![f][c] = @ + 1]
    /\ UNCHANGED <<requestVars, requestChannel, slotsWithout, info, total, age>>

(* An arrival creates the entry of its function and of its class if they    *)
(* are missing.                                                             *)
HandleArrival ==
    /\ arrivalChannel # <<>>
    /\ arrivalChannel' = Tail(arrivalChannel)
    /\ LET f == FunOf[Head(arrivalChannel)]
           c == ClassOf[Head(arrivalChannel)]
       IN /\ m' = m \cup {f}
          /\ invokingClasses' = [invokingClasses EXCEPT ![f] = @ \cup {c}]
          /\ arrivalCount' = [arrivalCount EXCEPT ![f][c] = @ + 1]
          /\ slotsWithout' = [slotsWithout EXCEPT ![f][c] = 0]
    /\ UNCHANGED <<requestVars, requestChannel, info, total, age>>

(* The classes without arrivals, and those of them that are deleted. *)
Idle(f, c)    == c \in invokingClasses[f] /\ arrivalCount[f][c] = 0
Expires(f, c) == Idle(f, c) /\ slotsWithout[f][c] + 1 >= maxTimeSlots

Older ==
    age' = [r \in Requests |->
              IF r \in InService \ Arriving /\ age[r] <= maxTimeSlots
              THEN age[r] + 1 ELSE age[r]]

(* Mutant of Evaluate: a function is deleted with the first of its classes. *)
EvaluateDeletesFunction ==
    LET kept == {f \in m : \A c \in invokingClasses[f] : ~Expires(f, c)} IN
    /\ m # {}
    /\ m' = kept
    /\ invokingClasses' = [f \in Functions |-> IF f \in kept THEN invokingClasses[f] ELSE {}]
    /\ slotsWithout' = [f \in Functions |-> [c \in Classes |->
          IF f \notin kept THEN 0
          ELSE slotsWithout[f][c] + IF Idle(f, c) THEN 1 ELSE 0]]
    /\ arrivalCount' = [f \in Functions |-> [c \in Classes |-> 0]]
    /\ info' = [f \in Functions |-> IF f \in kept THEN info[f] ELSE NewInfo]
    /\ total' = [f \in Functions |-> IF f \in kept THEN total[f] ELSE Zero]
    /\ Older
    /\ UNCHANGED <<requestVars, arrivalChannel, requestChannel>>

(* Mutant of Evaluate: arrivalCount is not reset, so no class becomes idle. *)
EvaluateKeepsArrivals ==
    /\ m # {}
    /\ invokingClasses' = [f \in Functions |-> {c \in invokingClasses[f] : ~Expires(f, c)}]
    /\ m' = {f \in m : invokingClasses'[f] # {}}
    /\ slotsWithout' = [f \in Functions |-> [c \in Classes |->
          IF Expires(f, c) THEN 0
          ELSE slotsWithout[f][c] + IF Idle(f, c) THEN 1 ELSE 0]]
    /\ Older
    /\ UNCHANGED <<requestVars, arrivalChannel, requestChannel, arrivalCount, info, total>>

(* A tick of evaluationTicker.  A class without arrivals for maxTimeSlots   *)
(* evaluations is deleted, and its function with the last class; what       *)
(* remains starts a new time slot.  (Deleted counters are set to those of a *)
(* new entry, which is what the next arrival would create.)                 *)
Evaluate ==
    /\ m # {}
    /\ invokingClasses' = [f \in Functions |-> {c \in invokingClasses[f] : ~Expires(f, c)}]
    /\ m' = {f \in m : invokingClasses'[f] # {}}
    /\ slotsWithout' = [f \in Functions |-> [c \in Classes |->
          IF Expires(f, c) THEN 0
          ELSE slotsWithout[f][c] + IF Idle(f, c) THEN 1 ELSE 0]]
    /\ arrivalCount' = [f \in Functions |-> [c \in Classes |-> 0]]
    /\ info' = [f \in Functions |-> IF f \in m' THEN info[f] ELSE NewInfo]
    /\ total' = [f \in Functions |-> IF f \in m' THEN total[f] ELSE Zero]
    /\ Older
    /\ UNCHANGED <<requestVars, arrivalChannel, requestChannel>>

(* A tick of pcoldTicker. *)
ResetColdStarts ==
    /\ m # {}
    /\ info' = [f \in Functions |->
          IF f \in m THEN [info[f] EXCEPT !.coldStartCount = Zero, !.timeSlotCount = Zero]
          ELSE info[f]]
    /\ UNCHANGED <<requestVars, arrivalChannel, requestChannel, classVars, total, age>>

-----------------------------------------------------------------------------
(* A request reads d.m (after its send) while handler inserts into one of   *)
(* the maps or deletes from it.  The process ends, the requests in flight   *)
(* are lost, and it restarts with InitDecisionEngine: empty channels and    *)
(* an empty map.                                                            *)
ArrivalInserts ==
    /\ arrivalChannel # <<>>
    /\ ClassOf[Head(arrivalChannel)] \notin invokingClasses[FunOf[Head(arrivalChannel)]]
EvaluationDeletes == \E f \in m, c \in Classes : Expires(f, c)

DataRace ==
    /\ \E r \in Requests : stage[r] = "sent"
    /\ ArrivalInserts \/ EvaluationDeletes
    /\ stage' = [r \in Requests |-> IF stage[r] \in {"sent", "decided"} THEN "lost" ELSE stage[r]]
    /\ decision' = [r \in Requests |-> "NONE"]
    /\ arrivalChannel' = <<>> /\ requestChannel' = <<>>
    /\ m' = {} /\ invokingClasses' = [f \in Functions |-> {}]
    /\ arrivalCount' = [f \in Functions |-> [c \in Classes |-> 0]]
    /\ slotsWithout' = [f \in Functions |-> [c \in Classes |-> 0]]
    /\ info' = [f \in Functions |-> NewInfo]
    /\ total' = [f \in Functions |-> Zero]
    /\ age' = [r \in Requests |-> 0]

-----------------------------------------------------------------------------
Next ==
    \/ \E r \in Requests : SendArrival(r) \/ Choose(r) \/ Completed(r)
    \/ HandleArrival \/ HandleCompletion \/ Evaluate \/ ResetColdStarts
    \/ DataRace

(* A goroutine that waits to send is served in its turn (the waiting        *)
(* senders of a Go channel are a FIFO queue), and select picks at random    *)
(* among the channels and tickers that are ready.                           *)
Fairness ==
    /\ \A r \in Requests : /\ SF_vars(SendArrival(r))
                           /\ WF_vars(Choose(r))
                           /\ SF_vars(Completed(r))
    /\ WF_vars(HandleArrival) /\ WF_vars(HandleCompletion) /\ WF_vars(Evaluate)

Spec == Init /\ [][Next]_vars /\ Fairness

-----------------------------------------------------------------------------
(* Properties. *)

(* meanDuration, updated one completion at a time, is the mean of the       *)
(* durations counted since the entry was created.                           *)
MeanIsExact ==
    \A f \in Functions, l \in Locations :
        info[f].meanDuration[l] * info[f].count[l] = total[f][l] * Scale

(* A cold start is a completion of the current period of pcoldTicker, which *)
(* is a completion of the entry.                                            *)
CountersNested(i, l) ==
    i.coldStartCount[l] <= i.timeSlotCount[l] /\ i.timeSlotCount[l] <= i.count[l]

(* probCold, which is only written by a cold start, is a probability, and   *)
(* once a completion of the current period of pcoldTicker was counted it is *)
(* not below the share of cold starts in that period (getProbCold),         *)
(* although warm starts and the ticker change that share behind it.  In a   *)
(* period without a completion it may be: getProbCold answers 1 there, and  *)
(* probCold is still the ratio of an earlier period.                        *)
ProbColdIsUpperBound ==
    \A f \in Functions, l \in Locations :
        LET p    == info[f].probCold[l]
            cold == GetProbCold(info[f], l)
        IN /\ CountersNested(info[f], l)
           /\ p[1] \in 1..p[2] /\ cold[1] \in 0..cold[2]
           /\ info[f].timeSlotCount[l] > 0 => p[2] * cold[1] <= p[1] * cold[2]

(* A function is in the map exactly while one of its classes is, and a      *)
(* class with arrivals in this time slot, or idle for too long, is not left *)
(* over from an earlier entry.                                              *)
EntriesConsistent ==
    \A f \in Functions :
        /\ f \in m <=> invokingClasses[f] # {}
        /\ f \notin m => info[f] = NewInfo
        /\ \A c \in Classes :
             /\ slotsWithout[f][c] < maxTimeSlots
             /\ arrivalCount[f][c] > 0 => c \in invokingClasses[f] /\ slotsWithout[f][c] = 0

(* A request that may not be offloaded is never offloaded, and Decide drops *)
(* a request only when the starting shares leave something to drops, or     *)
(* everything to an offloading that the request may not do: dividing by the *)
(* sum of the remaining shares loses none of the range of Float64.          *)
DecisionAllowed ==
    \A r \in Requests :
        /\ decision[r] = "OFFLOAD_REQUEST" => r \in CanDoOffloading
        /\ decision[r] = "DROP_REQUEST" =>
             \/ startingExecute + startingOffload < Whole
             \/ startingExecute = 0 /\ r \notin CanDoOffloading

(* A completion that finds no entry of its function, and so is not counted, *)
(* has overtaken its own arrival, or its function was deleted after more    *)
(* than maxTimeSlots evaluations since that arrival was handled, whatever   *)
(* the other classes of the function did meanwhile.                         *)
DiscardIsExplained ==
    \A r \in Pending : FunOf[r] \in m \/ r \in Arriving \/ age[r] > maxTimeSlots

(* The goroutines of the requests and the handler never wait for one        *)
(* another for ever, whatever the capacity of the channels: a request is    *)
(* served unless it is lost in a crash.                                     *)
EveryRequestIsServed == \A r \in Requests : <>(stage[r] \in {"done", "lost"})

(* Once requests stop, every function is forgotten: no entry stays in the   *)
(* map because of the order in which arrivals, completions and ticks are    *)
(* handled.                                                                 *)
EventuallyForgotten == <>[](m = {})
================================================================================
