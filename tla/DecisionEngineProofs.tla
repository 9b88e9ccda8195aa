------------------------- MODULE DecisionEngineProofs -------------------------
(***************************************************************************)
(* Proofs about DecisionEngine, for every set of requests, functions and    *)
(* classes, every capacity of the channels and every set of reports.        *)
(*                                                                          *)
(* The bound on probCold is not inductive alone: a cold start makes it      *)
(* coldStartCount / timeSlotCount, which is at most 1 only because the      *)
(* counters are nested.  Both are stated of one entry (EntryOK), shown to   *)
(* survive Counted, and then carried through the steps that touch info.     *)
(*                                                                          *)
(* That the mean is exact rests on ScaleAssumption, so on a bound of the    *)
(* counts: no entry counts more completions than there are requests whose   *)
(* completion was sent and is not in the channel any more (CountBounded).   *)
(*                                                                          *)
(* That a discarded completion is explained rests on the age of entries:    *)
(* the class of a request whose completion is awaited has been idle for     *)
(* fewer evaluations than have passed since its arrival (Remembered).       *)
(***************************************************************************)
EXTENDS DecisionEngine, FiniteSetTheorems, TLAPS

EntryOK(i) ==
    \A l \in Locations :
        /\ i.coldStartCount[l] <= i.timeSlotCount[l]
        /\ i.timeSlotCount[l] <= i.count[l]
        /\ i.probCold[l][1] \in 1..i.probCold[l][2]
        /\ i.probCold[l][2] * i.coldStartCount[l] <= i.probCold[l][1] * i.timeSlotCount[l]

EntriesOK == \A f \in Functions : EntryOK(info[f])

-----------------------------------------------------------------------------
(* A new entry has its type and satisfies the bounds. *)
LEMMA NewInfoOK == NewInfo \in FunctionInfo /\ EntryOK(NewInfo)
BY DEF NewInfo, FunctionInfo, EntryOK, Zero, Locations, LOCAL_RUN, OFFLOADED

(* Clearing the counters of a period keeps type and bounds. *)
LEMMA ResetOK ==
    ASSUME NEW i \in FunctionInfo, EntryOK(i)
    PROVE  LET j == [i EXCEPT !.coldStartCount = Zero, !.timeSlotCount = Zero]
           IN j \in FunctionInfo /\ EntryOK(j)
<1> DEFINE j == [i EXCEPT !.coldStartCount = Zero, !.timeSlotCount = Zero]
<1>1. j \in FunctionInfo
  BY DEF FunctionInfo, Zero
<1>2. ASSUME NEW l \in Locations
      PROVE  /\ j.coldStartCount[l] = 0 /\ j.timeSlotCount[l] = 0
             /\ j.count[l] = i.count[l] /\ j.probCold[l] = i.probCold[l]
             /\ i.count[l] \in Nat /\ i.probCold[l] \in Nat \X Nat
  BY DEF FunctionInfo, Zero
<1>3. EntryOK(j)
  BY <1>2 DEF EntryOK
<1> QED BY <1>1, <1>3

(* A running mean stays an integer number of units. *)
LEMMA MeanType ==
    ASSUME NEW mean \in Int, NEW x \in Nat, NEW s \in Nat, NEW n \in Nat
    PROVE  mean + ((x * s - mean) \div (n + 1)) \in Int
<1>1. x * s - mean \in Int /\ n + 1 \in Nat \ {0}
  OBVIOUS
<1>2. \A a \in Int, b \in Nat \ {0} : a \div b \in Int
  OBVIOUS
<1>3. (x * s - mean) \div (n + 1) \in Int
  BY <1>1, <1>2, Zenon
<1> QED BY <1>3

(* Counting a completion keeps type and bounds. *)
LEMMA CountedOK ==
    ASSUME NEW i \in FunctionInfo, EntryOK(i), NEW l \in Locations, NEW report \in Reports
    PROVE  Counted(i, l, report) \in FunctionInfo /\ EntryOK(Counted(i, l, report))
<1> DEFINE j == Counted(i, l, report)
<1>0. report \in [warm : BOOLEAN, duration : Nat, init : Nat] /\ Scale \in Nat
  BY EngineAssumption
<1>1. /\ i.count \in [Locations -> Nat] /\ i.timeSlotCount \in [Locations -> Nat]
      /\ i.coldStartCount \in [Locations -> Nat] /\ i.probCold \in [Locations -> Nat \X Nat]
      /\ i.meanDuration \in [Locations -> Int] /\ i.initTime \in [Locations -> Int]
  BY DEF FunctionInfo
<1>2. /\ i.count[l] + 1 \in Nat \ {0}
      /\ i.meanDuration[l] + ((report.duration * Scale - i.meanDuration[l]) \div (i.count[l] + 1)) \in Int
      /\ i.initTime[l] + ((report.init * Scale - i.initTime[l]) \div (i.count[l] + 1)) \in Int
  <2>1. i.count[l] \in Nat /\ i.meanDuration[l] \in Int /\ i.initTime[l] \in Int
    BY <1>1
  <2>2. report.duration \in Nat /\ report.init \in Nat
    BY <1>0
  <2>3. i.count[l] + 1 \in Nat \ {0}
    BY <2>1
  <2> QED BY <1>0, <2>1, <2>2, <2>3, MeanType
<1>3. j \in FunctionInfo
  <2> DEFINE count == i.count[l] + 1
             slot  == i.timeSlotCount[l] + 1
             cold  == i.coldStartCount[l] + 1
             mean  == i.meanDuration[l] + ((report.duration * Scale - i.meanDuration[l]) \div count)
             init  == i.initTime[l] + ((report.init * Scale - i.initTime[l]) \div count)
             warm  == [i EXCEPT !.count[l] = count, !.timeSlotCount[l] = slot,
                                !.meanDuration[l] = mean]
  <2>1. count \in Nat /\ slot \in Nat /\ cold \in Nat /\ mean \in Int /\ init \in Int
    BY <1>1, <1>2
  <2>2. j = IF report.warm THEN warm
            ELSE [warm EXCEPT !.initTime[l] = init, !.coldStartCount[l] = cold,
                              !.probCold[l] = <<cold, slot>>]
    BY <1>1 DEF Counted, FunctionInfo
  <2> HIDE DEF count, slot, cold, mean, init, j
  <2>3. warm \in FunctionInfo /\ warm.initTime = i.initTime
    BY <2>1 DEF FunctionInfo
  <2> HIDE DEF warm
  <2>4. [warm EXCEPT !.initTime[l] = init, !.coldStartCount[l] = cold,
                     !.probCold[l] = <<cold, slot>>] \in FunctionInfo
    BY <2>1, <2>3 DEF FunctionInfo
  <2> QED BY <2>2, <2>3, <2>4
<1>4. ASSUME NEW k \in Locations, k # l
      PROVE  /\ j.count[k] = i.count[k] /\ j.timeSlotCount[k] = i.timeSlotCount[k]
             /\ j.coldStartCount[k] = i.coldStartCount[k] /\ j.probCold[k] = i.probCold[k]
  BY <1>1, <1>4 DEF Counted, FunctionInfo
<1>5. j.count[l] = i.count[l] + 1 /\ j.timeSlotCount[l] = i.timeSlotCount[l] + 1
  BY <1>1 DEF Counted, FunctionInfo
<1>6. CASE report.warm
  <2>1. j.coldStartCount[l] = i.coldStartCount[l] /\ j.probCold[l] = i.probCold[l]
    BY <1>1, <1>6 DEF Counted, FunctionInfo
  <2>3. i.probCold[l][2] * i.coldStartCount[l] <= i.probCold[l][1] * (i.timeSlotCount[l] + 1)
    <3> DEFINE a == i.probCold[l][1]  t == i.timeSlotCount[l]
    <3>1. a \in Nat /\ t \in Nat /\ i.probCold[l][2] * i.coldStartCount[l] \in Nat
      BY <1>1
    <3>2. i.probCold[l][2] * i.coldStartCount[l] <= a * t
      BY DEF EntryOK
    <3>3. a * (t + 1) = a * t + a /\ a * t \in Nat
      BY <3>1
    <3> HIDE DEF a, t
    <3> QED BY <3>1, <3>2, <3>3 DEF a, t
  <2>4. EntryOK(j)
    <3> SUFFICES ASSUME NEW k \in Locations
                 PROVE  /\ j.coldStartCount[k] <= j.timeSlotCount[k]
                        /\ j.timeSlotCount[k] <= j.count[k]
                        /\ j.probCold[k][1] \in 1..j.probCold[k][2]
                        /\ j.probCold[k][2] * j.coldStartCount[k] <= j.probCold[k][1] * j.timeSlotCount[k]
      BY DEF EntryOK
    <3> HIDE DEF j
    <3>1. CASE k = l
      BY <3>1, <1>1, <1>5, <2>1, <2>3 DEF EntryOK
    <3>2. CASE k # l
      BY <3>2, <1>4 DEF EntryOK
    <3> QED BY <3>1, <3>2
  <2> QED BY <1>3, <2>4
<1>7. CASE ~report.warm
  <2>1. /\ j.coldStartCount[l] = i.coldStartCount[l] + 1
        /\ j.probCold[l] = <<i.coldStartCount[l] + 1, i.timeSlotCount[l] + 1>>
    BY <1>1, <1>7 DEF Counted, FunctionInfo
  <2>2. EntryOK(j)
    <3> SUFFICES ASSUME NEW k \in Locations
                 PROVE  /\ j.coldStartCount[k] <= j.timeSlotCount[k]
                        /\ j.timeSlotCount[k] <= j.count[k]
                        /\ j.probCold[k][1] \in 1..j.probCold[k][2]
                        /\ j.probCold[k][2] * j.coldStartCount[k] <= j.probCold[k][1] * j.timeSlotCount[k]
      BY DEF EntryOK
    <3> HIDE DEF j
    <3>1. CASE k = l
      BY <3>1, <1>1, <1>5, <2>1 DEF EntryOK
    <3>2. CASE k # l
      BY <3>2, <1>4 DEF EntryOK
    <3> QED BY <3>1, <3>2
  <2> QED BY <1>3, <2>2
<1> QED BY <1>6, <1>7

-----------------------------------------------------------------------------
(* The inductive invariant: types, the bounds of every entry, and the       *)
(* agreement of the maps.                                                   *)
IInv == TypeOK /\ EntriesOK /\ EntriesConsistent

LEMMA InitIInv == Init => IInv
<1> SUFFICES ASSUME Init PROVE IInv
  OBVIOUS
<1>1. maxTimeSlots > 0 /\ ChannelCap >= 0 /\ 0 \in 0..(maxTimeSlots + 1)
  BY EngineAssumption
<1>2. TypeOK
  BY <1>1, NewInfoOK DEF Init, TypeOK, Stages, Decisions
<1>3. EntriesOK
  BY NewInfoOK DEF Init, EntriesOK
<1>4. EntriesConsistent
  BY <1>1 DEF Init, EntriesConsistent
<1> QED BY <1>2, <1>3, <1>4 DEF IInv

(* The steps of a request's goroutine leave the maps alone. *)
LEMMA RequestSteps ==
    ASSUME IInv, NEW r \in Requests, SendArrival(r) \/ Choose(r) \/ Completed(r)
    PROVE  IInv'
<1> USE DEF IInv
<1>1. info' = info /\ UNCHANGED classVars
  BY DEF SendArrival, Choose, Completed
<1>2. EntriesOK' /\ EntriesConsistent'
  BY <1>1 DEF EntriesOK, EntriesConsistent, classVars
<1>3. CASE SendArrival(r)
  <2>1. stage' \in [Requests -> Stages] /\ decision' = decision
    BY <1>3 DEF SendArrival, TypeOK, Stages
  <2>2. arrivalChannel' \in Seq(Requests) /\ Len(arrivalChannel') <= ChannelCap
    BY <1>3, EngineAssumption DEF SendArrival, TypeOK
  <2> QED BY <1>1, <1>2, <1>3, <2>1, <2>2 DEF SendArrival, TypeOK, classVars
<1>4. CASE Choose(r)
  <2>1. decision' \in [Requests -> Decisions] /\ stage' \in [Requests -> Stages]
    BY <1>4 DEF Choose, TypeOK, Stages, Decisions
  <2> QED BY <1>1, <1>2, <1>4, <2>1 DEF Choose, TypeOK, classVars
<1>5. CASE Completed(r)
  <2>1. decision' \in [Requests -> Decisions] /\ stage' \in [Requests -> Stages]
    BY <1>5 DEF Completed, TypeOK, Stages, Decisions
  <2>2. requestChannel' \in Seq([req : Requests, location : Locations, report : Reports])
        /\ Len(requestChannel') <= ChannelCap
    BY <1>5, EngineAssumption DEF Completed, TypeOK, Locations
  <2> QED BY <1>1, <1>2, <1>5, <2>1, <2>2 DEF Completed, TypeOK, classVars
<1> QED BY <1>2, <1>3, <1>4, <1>5

LEMMA CompletionStep == ASSUME IInv, HandleCompletion PROVE IInv'
<1> DEFINE r == Head(requestChannel)
           f == FunOf[r.req]
           l == r.location
<1> USE DEF IInv
<1>1. /\ r.req \in Requests /\ l \in Locations /\ r.report \in Reports
      /\ requestChannel' \in Seq([req : Requests, location : Locations, report : Reports])
      /\ Len(requestChannel') <= ChannelCap
      /\ age' \in [Requests -> 0..(maxTimeSlots + 1)]
  <2> DEFINE Completion == [req : Requests, location : Locations, report : Reports]
  <2>1. requestChannel \in Seq(Completion) /\ requestChannel # <<>>
        /\ Len(requestChannel) <= ChannelCap /\ requestChannel' = Tail(requestChannel)
    BY DEF HandleCompletion, TypeOK
  <2> HIDE DEF Completion
  <2>2. r \in Completion
    BY <2>1
  <2>3. requestChannel' \in Seq(Completion) /\ Len(requestChannel') = Len(requestChannel) - 1
        /\ Len(requestChannel) \in Nat
    BY <2>1
  <2>4. Len(requestChannel') <= ChannelCap
    BY <2>1, <2>3, EngineAssumption
  <2> USE DEF Completion
  <2>5. r.req \in Requests /\ l \in Locations /\ r.report \in Reports
    BY <2>2
  <2>6. age' \in [Requests -> 0..(maxTimeSlots + 1)]
    <3>1. 0 \in 0..(maxTimeSlots + 1) /\ age \in [Requests -> 0..(maxTimeSlots + 1)]
      BY EngineAssumption DEF TypeOK
    <3>2. age' = [age EXCEPT ![r.req] = 0]
      BY DEF HandleCompletion
    <3> QED BY <3>1, <3>2
  <2> QED BY <2>3, <2>4, <2>5, <2>6
<1>2. f \in Functions
  BY <1>1, EngineAssumption
<1>3. UNCHANGED <<requestVars, arrivalChannel, classVars>>
  BY DEF HandleCompletion
<1>4. CASE f \in m
  <2>1. info' = [info EXCEPT ![f] = Counted(info[f], l, r.report)]
    BY <1>4 DEF HandleCompletion
  <2>2. info[f] \in FunctionInfo /\ EntryOK(info[f])
    BY <1>2 DEF TypeOK, EntriesOK
  <2>3. Counted(info[f], l, r.report) \in FunctionInfo /\ EntryOK(Counted(info[f], l, r.report))
    BY <1>1, <2>2, CountedOK
  <2> HIDE DEF f, l, r
  <2>4. info' \in [Functions -> FunctionInfo] /\ \A g \in Functions : EntryOK(info'[g])
    BY <1>2, <2>1, <2>3 DEF TypeOK, EntriesOK
  <2>5. \A g \in Functions : g \notin m => info'[g] = info[g]
    BY <1>2, <1>4, <2>1 DEF TypeOK
  <2>6. TypeOK'
    BY <1>1, <1>3, <2>4, EngineAssumption DEF TypeOK, requestVars, classVars
  <2>7. EntriesConsistent'
    BY <1>3, <2>5 DEF EntriesConsistent, classVars
  <2> QED BY <2>4, <2>6, <2>7 DEF EntriesOK
<1>5. CASE f \notin m
  <2>1. info' = info
    BY <1>5 DEF HandleCompletion
  <2> HIDE DEF f, l, r
  <2>2. TypeOK'
    BY <1>1, <1>3, <2>1, EngineAssumption DEF TypeOK, requestVars, classVars
  <2> QED BY <1>3, <2>1, <2>2 DEF EntriesOK, EntriesConsistent, classVars
<1> QED BY <1>4, <1>5

LEMMA ArrivalStep == ASSUME IInv, HandleArrival PROVE IInv'
<1> DEFINE f == FunOf[Head(arrivalChannel)]
           c == ClassOf[Head(arrivalChannel)]
<1> USE DEF IInv
<1>1. /\ Head(arrivalChannel) \in Requests
      /\ arrivalChannel' \in Seq(Requests) /\ Len(arrivalChannel') <= Len(arrivalChannel)
  BY DEF HandleArrival, TypeOK
<1>2. f \in Functions /\ c \in Classes
  BY <1>1, EngineAssumption
<1>3. /\ UNCHANGED <<requestVars, requestChannel, info, age>>
      /\ m' = m \cup {f}
      /\ invokingClasses' = [invokingClasses EXCEPT ![f] = @ \cup {c}]
      /\ arrivalCount' = [arrivalCount EXCEPT ![f][c] = @ + 1]
      /\ slotsWithout' = [slotsWithout EXCEPT ![f][c] = 0]
  BY DEF HandleArrival
<1> HIDE DEF f, c
<1>4. TypeOK'
  <2>1. /\ m' \subseteq Functions /\ invokingClasses' \in [Functions -> SUBSET Classes]
        /\ arrivalCount' \in [Functions -> [Classes -> Nat]]
        /\ slotsWithout' \in [Functions -> [Classes -> Nat]]
    BY <1>2, <1>3 DEF TypeOK
  <2>2. Len(arrivalChannel') <= ChannelCap
    BY <1>1, EngineAssumption DEF TypeOK
  <2> QED BY <1>1, <1>3, <2>1, <2>2 DEF TypeOK, requestVars
<1>5. EntriesOK'
  BY <1>3 DEF EntriesOK
<1>6. EntriesConsistent'
  <2> SUFFICES ASSUME NEW g \in Functions
               PROVE  /\ (g \in m' <=> invokingClasses'[g] # {})
                      /\ g \notin m' => info'[g] = NewInfo
                      /\ \A d \in Classes :
                           /\ slotsWithout'[g][d] < maxTimeSlots
                           /\ arrivalCount'[g][d] > 0
                              => d \in invokingClasses'[g] /\ slotsWithout'[g][d] = 0
    BY DEF EntriesConsistent
  <2>1. (g \in m' <=> invokingClasses'[g] # {}) /\ (g \notin m' => info'[g] = NewInfo)
    BY <1>2, <1>3 DEF EntriesConsistent, TypeOK
  <2>2. ASSUME NEW d \in Classes
        PROVE  /\ slotsWithout'[g][d] < maxTimeSlots
               /\ arrivalCount'[g][d] > 0 => d \in invokingClasses'[g] /\ slotsWithout'[g][d] = 0
    <3>1. CASE g = f /\ d = c
      BY <1>2, <1>3, <3>1, EngineAssumption DEF TypeOK
    <3>2. CASE ~(g = f /\ d = c)
      <4>1. slotsWithout'[g][d] = slotsWithout[g][d] /\ arrivalCount'[g][d] = arrivalCount[g][d]
        BY <1>2, <1>3, <3>2 DEF TypeOK
      <4>2. invokingClasses[g] \subseteq invokingClasses'[g]
        BY <1>2, <1>3 DEF TypeOK
      <4> QED BY <4>1, <4>2 DEF EntriesConsistent
    <3> QED BY <3>1, <3>2
  <2> QED BY <2>1, <2>2
<1> QED BY <1>4, <1>5, <1>6

LEMMA EvaluateStep == ASSUME IInv, Evaluate PROVE IInv'
<1> USE DEF IInv
<1>1. /\ UNCHANGED <<requestVars, arrivalChannel, requestChannel>> /\ Older
      /\ invokingClasses' = [f \in Functions |-> {c \in invokingClasses[f] : ~Expires(f, c)}]
      /\ m' = {f \in m : invokingClasses'[f] # {}}
      /\ slotsWithout' = [f \in Functions |-> [c \in Classes |->
            IF Expires(f, c) THEN 0
            ELSE slotsWithout[f][c] + IF Idle(f, c) THEN 1 ELSE 0]]
      /\ arrivalCount' = [f \in Functions |-> [c \in Classes |-> 0]]
      /\ info' = [f \in Functions |-> IF f \in m' THEN info[f] ELSE NewInfo]
  BY DEF Evaluate
<1>2. ASSUME NEW f \in Functions, NEW c \in Classes
      PROVE  slotsWithout'[f][c] \in Nat /\ slotsWithout'[f][c] < maxTimeSlots
  <2>1. slotsWithout'[f][c] = IF Expires(f, c) THEN 0
                              ELSE slotsWithout[f][c] + IF Idle(f, c) THEN 1 ELSE 0
    BY <1>1
  <2>2. slotsWithout[f][c] \in Nat /\ slotsWithout[f][c] < maxTimeSlots /\ maxTimeSlots \in Nat
    BY EngineAssumption DEF TypeOK, EntriesConsistent
  <2> QED BY <2>1, <2>2 DEF Expires
<1>3. TypeOK'
  <2>1. slotsWithout' \in [Functions -> [Classes -> Nat]]
    BY <1>1, <1>2
  <2>2. invokingClasses' \in [Functions -> SUBSET Classes]
    BY <1>1 DEF TypeOK
  <2>3. info' \in [Functions -> FunctionInfo]
    BY <1>1, NewInfoOK DEF TypeOK
  <2>4. age' \in [Requests -> 0..(maxTimeSlots + 1)]
    <3> SUFFICES ASSUME NEW r \in Requests PROVE age'[r] \in 0..(maxTimeSlots + 1)
      BY <1>1 DEF Older
    <3>1. age[r] \in 0..(maxTimeSlots + 1) /\ maxTimeSlots \in Nat
      BY EngineAssumption DEF TypeOK
    <3> QED BY <1>1, <3>1 DEF Older
  <2> QED BY <1>1, <2>1, <2>2, <2>3, <2>4 DEF TypeOK, requestVars
<1>4. EntriesOK'
  BY <1>1, NewInfoOK DEF EntriesOK
<1>5. EntriesConsistent'
  <2>1. \A f \in Functions : f \notin m => invokingClasses'[f] = {}
    BY <1>1 DEF EntriesConsistent
  <2>2. \A f \in Functions, c \in Classes : arrivalCount'[f][c] = 0
    BY <1>1
  <2> QED BY <1>1, <1>2, <2>1, <2>2 DEF EntriesConsistent
<1> QED BY <1>3, <1>4, <1>5

LEMMA ResetStep == ASSUME IInv, ResetColdStarts PROVE IInv'
<1> USE DEF IInv
<1>1. /\ UNCHANGED <<requestVars, arrivalChannel, requestChannel, classVars, age>>
      /\ info' = [f \in Functions |->
            IF f \in m THEN [info[f] EXCEPT !.coldStartCount = Zero, !.timeSlotCount = Zero]
            ELSE info[f]]
  BY DEF ResetColdStarts
<1>2. ASSUME NEW f \in Functions
      PROVE  info'[f] \in FunctionInfo /\ EntryOK(info'[f]) /\ (f \notin m => info'[f] = info[f])
  BY <1>1, ResetOK DEF TypeOK, EntriesOK
<1>3. TypeOK'
  BY <1>1, <1>2 DEF TypeOK, requestVars, classVars
<1>4. EntriesConsistent'
  BY <1>1, <1>2 DEF EntriesConsistent, classVars
<1> QED BY <1>2, <1>3, <1>4 DEF EntriesOK

LEMMA DataRaceStep == ASSUME IInv, DataRace PROVE IInv'
<1> USE DEF IInv
<1>1. ChannelCap >= 0 /\ maxTimeSlots > 0 /\ 0 \in 0..(maxTimeSlots + 1)
  BY EngineAssumption
<1>2. TypeOK'
  BY <1>1, NewInfoOK DEF DataRace, TypeOK, Stages, Decisions
<1>3. EntriesOK'
  BY NewInfoOK DEF DataRace, EntriesOK
<1>4. EntriesConsistent'
  BY <1>1 DEF DataRace, EntriesConsistent
<1> QED BY <1>2, <1>3, <1>4

LEMMA NextIInv == IInv /\ [Next]_vars => IInv'
<1> SUFFICES ASSUME IInv, [Next]_vars PROVE IInv'
  OBVIOUS
<1>1. CASE \E r \in Requests : SendArrival(r) \/ Choose(r) \/ Completed(r)
  BY <1>1, RequestSteps
<1>2. CASE HandleArrival
  BY <1>2, ArrivalStep
<1>3. CASE HandleCompletion
  BY <1>3, CompletionStep
<1>4. CASE Evaluate
  BY <1>4, EvaluateStep
<1>5. CASE ResetColdStarts
  BY <1>5, ResetStep
<1>6. CASE DataRace
  BY <1>6, DataRaceStep
<1>7. CASE UNCHANGED vars
  BY <1>7 DEF IInv, TypeOK, EntriesOK, EntriesConsistent, vars, requestVars, classVars
<1> QED BY <1>1, <1>2, <1>3, <1>4, <1>5, <1>6, <1>7 DEF Next

LEMMA Invariance == Spec => []IInv
BY InitIInv, NextIInv, PTL DEF Spec

-----------------------------------------------------------------------------
(* Every reachable state is well typed; in particular neither channel holds *)
(* more than its capacity (Decide, Completed and handler).                  *)
THEOREM TypeCorrect == Spec => []TypeOK
<1>1. IInv => TypeOK
  BY DEF IInv
<1> QED BY <1>1, Invariance, PTL

(* coldStartCount <= timeSlotCount <= count in every entry, probCold is a   *)
(* probability, and it is not below getProbCold unless nothing has          *)
(* completed in the current period (updateData, the tick of pcoldTicker and *)
(* Delete).                                                                 *)
THEOREM ProbColdIsSafe == Spec => []ProbColdIsUpperBound
<1>1. ASSUME IInv PROVE ProbColdIsUpperBound
  <2> SUFFICES ASSUME NEW f \in Functions, NEW l \in Locations
               PROVE  LET p    == info[f].probCold[l]
                          cold == GetProbCold(info[f], l)
                      IN /\ CountersNested(info[f], l)
                         /\ p[1] \in 1..p[2] /\ cold[1] \in 0..cold[2]
                         /\ info[f].timeSlotCount[l] > 0 => p[2] * cold[1] <= p[1] * cold[2]
    BY DEF ProbColdIsUpperBound
  <2>1. info[f].coldStartCount[l] \in Nat /\ info[f].timeSlotCount[l] \in Nat
    <3>1. info[f] \in FunctionInfo
      BY <1>1 DEF IInv, TypeOK
    <3> QED BY <3>1 DEF FunctionInfo
  <2>2. /\ CountersNested(info[f], l)
        /\ info[f].probCold[l][1] \in 1..info[f].probCold[l][2]
        /\ info[f].probCold[l][2] * info[f].coldStartCount[l]
             <= info[f].probCold[l][1] * info[f].timeSlotCount[l]
    BY <1>1 DEF IInv, EntriesOK, EntryOK, CountersNested
  <2>3. CASE info[f].timeSlotCount[l] = 0
    BY <2>2, <2>3 DEF GetProbCold
  <2>4. CASE info[f].timeSlotCount[l] > 0
    BY <2>1, <2>2, <2>4 DEF GetProbCold, CountersNested
  <2> QED BY <2>1, <2>3, <2>4
<1> QED BY <1>1, Invariance, PTL

(* d.m and the invokingClasses of its entries agree, and nothing of a       *)
(* deleted entry is left over (handler and Delete).                         *)
THEOREM MapsAgree == Spec => []EntriesConsistent
<1>1. IInv => EntriesConsistent
  BY DEF IInv
<1> QED BY <1>1, Invariance, PTL

-----------------------------------------------------------------------------
(* The decision. *)

(* A fraction of a natural number and a positive one. *)
Fraction == Nat \X (Nat \ {0})

(* Every number that Float64 draws is below 1. *)
LEMMA WholeIsReached ==
    ASSUME NEW p \in Fraction, p[1] = p[2], NEW prob \in 0..(Precision - 1)
    PROVE  Reaches(p, prob)
<1>1. p[1] \in Nat /\ p[2] \in Nat \ {0} /\ Precision \in Nat
  BY EngineAssumption DEF Fraction
<1>2. PICK rest \in Nat : Precision = prob + rest
  <2>1. Precision - prob \in Nat /\ Precision = prob + (Precision - prob)
    BY <1>1
  <2> QED BY <2>1
<1>3. \A a \in Nat, b \in Nat, c \in Nat : b * a <= a * (b + c)
  <2> TAKE a \in Nat, b \in Nat, c \in Nat
  <2>1. a * (b + c) = b * a + a * c /\ a * c \in Nat /\ b * a \in Nat
    OBVIOUS
  <2> QED BY <2>1
<1>4. prob \in Nat
  OBVIOUS
<1>5. prob * p[2] <= p[1] * Precision
  BY <1>1, <1>2, <1>3, <1>4
<1> QED BY <1>1, <1>5 DEF Reaches

(* Nothing of a sum is nothing; what is left is then all of it. *)
LEMMA NothingAndTheRest ==
    ASSUME NEW p \in Fraction, p[1] = 0, NEW q \in Fraction, q[1] > 0
    PROVE  /\ Over(p, Plus(p, q)) \in Fraction /\ Over(p, Plus(p, q))[1] = 0
           /\ Over(q, Plus(p, q)) \in Fraction
           /\ Over(q, Plus(p, q))[1] = Over(q, Plus(p, q))[2]
<1>1. /\ p[2] \in Nat \ {0} /\ q[1] \in Nat \ {0} /\ q[2] \in Nat \ {0}
      /\ Plus(p, q) = <<q[1] * p[2], p[2] * q[2]>>
  BY DEF Plus, Fraction
<1>2. \A a \in Nat \ {0}, b \in Nat \ {0} : a * b \in Nat \ {0}
  OBVIOUS
<1>3. p[2] * q[2] \in Nat \ {0} /\ q[1] * p[2] \in Nat \ {0}
  BY <1>1, <1>2
<1>4. /\ Over(p, Plus(p, q)) = <<0, p[2] * (q[1] * p[2])>>
      /\ Over(q, Plus(p, q)) = <<q[1] * (p[2] * q[2]), q[2] * (q[1] * p[2])>>
  <2>1. p[1] * (p[2] * q[2]) = 0
    BY <1>3
  <2> QED BY <1>1, <1>3, <2>1 DEF Over
<1>5. /\ p[2] * (q[1] * p[2]) \in Nat \ {0} /\ q[1] * (p[2] * q[2]) \in Nat \ {0}
      /\ q[2] * (q[1] * p[2]) \in Nat \ {0}
  BY <1>1, <1>2, <1>3
<1>6. q[1] * (p[2] * q[2]) = q[2] * (q[1] * p[2])
  BY <1>1
<1> QED BY <1>4, <1>5, <1>6 DEF Fraction

LEMMA StartingSharesType ==
    LET s == StartingShares IN s.pe \in Fraction /\ s.po \in Fraction /\ s.pd \in Fraction
<1>1. Whole - startingExecute - startingOffload \in Nat
  BY EngineAssumption
<1> QED BY <1>1, EngineAssumption DEF StartingShares, Fraction

(* Nothing is added. *)
LEMMA NothingAdds == \A p \in (Nat \X Nat) : Plus(p, Nothing) = p
BY DEF Plus, Nothing

(* Without offloading the sum of the shares is that of executing. *)
LEMMA LocalHasNoOffload ==
    ASSUME NEW r \in Requests, r \notin CanDoOffloading, NEW canExecute \in BOOLEAN,
           NEW prob \in 0..(Precision - 1), ~Reaches(Shares(r, canExecute).pe, prob)
    PROVE  ~Reaches(Plus(Shares(r, canExecute).pe, Shares(r, canExecute).po), prob)
<1> DEFINE s == StartingShares
           drop == Over(s.pd, Plus(s.pd, s.pe))
           pe == Over(s.pe, Plus(drop, s.pe))
<1>1. Shares(r, canExecute).pe = pe /\ Shares(r, canExecute).po = Nothing
  BY DEF Shares
<1>2. \A p \in (Nat \X Nat), q \in (Nat \X Nat) : Plus(p, q) \in (Nat \X Nat)
  BY DEF Plus
<1>3. \A p \in (Nat \X Nat), q \in (Nat \X Nat) : Over(p, q) \in (Nat \X Nat)
  BY DEF Over
<1>4. s.pd \in (Nat \X Nat) /\ s.pe \in (Nat \X Nat)
  BY StartingSharesType DEF Fraction
<1> HIDE DEF s
<1>5. pe \in (Nat \X Nat)
  BY <1>2, <1>3, <1>4
<1> HIDE DEF pe, drop
<1>6. Plus(pe, Nothing) = pe
  BY <1>5, NothingAdds
<1> QED BY <1>1, <1>6

(* When no share is left for drops, the shares of executing and offloading  *)
(* make up everything, unless both are NaN.                                 *)
LEMMA NothingIsDropped ==
    ASSUME NEW r \in Requests, NEW canExecute \in BOOLEAN, NEW prob \in 0..(Precision - 1),
           startingExecute + startingOffload >= Whole,
           startingExecute # 0 \/ r \in CanDoOffloading
    PROVE  \/ Reaches(Shares(r, canExecute).pe, prob)
           \/ Reaches(Plus(Shares(r, canExecute).pe, Shares(r, canExecute).po), prob)
<1> DEFINE s == StartingShares
<1>1. /\ s.pd \in Fraction /\ s.pe \in Fraction /\ s.po \in Fraction
      /\ s.pe = <<startingExecute, Whole>> /\ s.po = <<startingOffload, Whole>>
      /\ startingExecute \in Nat /\ startingOffload \in Nat /\ Whole \in Nat \ {0}
  BY StartingSharesType, EngineAssumption DEF StartingShares
<1>2. s.pd[1] = 0 /\ startingExecute + startingOffload = Whole
  BY EngineAssumption DEF StartingShares
<1>3. CASE r \notin CanDoOffloading
  <2> DEFINE drop == Over(s.pd, Plus(s.pd, s.pe))
             pe == Over(s.pe, Plus(drop, s.pe))
  <2>1. Shares(r, canExecute).pe = pe
    BY <1>3 DEF Shares
  <2>2. s.pe[1] > 0
    BY <1>1, <1>3
  <2> HIDE DEF s
  <2>3. drop \in Fraction /\ drop[1] = 0
    BY <1>1, <1>2, <2>2, NothingAndTheRest
  <2> HIDE DEF drop
  <2>4. pe \in Fraction /\ pe[1] = pe[2]
    BY <1>1, <2>2, <2>3, NothingAndTheRest
  <2> HIDE DEF pe
  <2> QED BY <2>1, <2>4, WholeIsReached
<1>4. CASE r \in CanDoOffloading /\ canExecute
  <2>1. Shares(r, canExecute).pe = s.pe /\ Shares(r, canExecute).po = s.po
    BY <1>4 DEF Shares
  <2> DEFINE sum == Plus(s.pe, s.po)
  <2>2. sum = <<startingExecute * Whole + startingOffload * Whole, Whole * Whole>>
    BY <1>1 DEF Plus
  <2>3. startingExecute * Whole + startingOffload * Whole = Whole * Whole
    <3>1. startingExecute * Whole + startingOffload * Whole
            = (startingExecute + startingOffload) * Whole
      BY <1>1
    <3> QED BY <1>2, <3>1
  <2>4. Whole * Whole \in Nat \ {0}
    BY <1>1
  <2>5. sum \in Fraction /\ sum[1] = sum[2]
    BY <2>2, <2>3, <2>4 DEF Fraction
  <2> HIDE DEF sum
  <2>6. Reaches(sum, prob)
    BY <2>5, WholeIsReached
  <2> QED BY <2>1, <2>6 DEF sum
<1>5. CASE r \in CanDoOffloading /\ ~canExecute
  <2> DEFINE po == Shares(r, canExecute).po
  <2>1. Shares(r, canExecute).pe = Nothing
    BY <1>5 DEF Shares
  <2>2. po \in Fraction /\ po[1] = po[2]
    <3>1. CASE s.po[1] = 0
      <4>1. po = Everything
        BY <1>2, <1>5, <3>1 DEF Shares
      <4> QED BY <4>1 DEF Everything, Fraction
    <3>2. CASE s.po[1] > 0
      <4> DEFINE drop == Over(s.pd, Plus(s.pd, s.po))
      <4>1. po = Over(s.po, Plus(drop, s.po))
        BY <1>5, <3>2 DEF Shares
      <4> HIDE DEF s, po
      <4>2. drop \in Fraction /\ drop[1] = 0
        BY <1>1, <1>2, <3>2, NothingAndTheRest
      <4> HIDE DEF drop
      <4> QED BY <1>1, <3>2, <4>1, <4>2, NothingAndTheRest
    <3> QED BY <1>1, <3>1, <3>2
  <2> HIDE DEF po
  <2>3. Plus(Nothing, po) = po
    BY <2>2 DEF Plus, Nothing, Fraction
  <2> QED BY <2>1, <2>2, <2>3, WholeIsReached DEF po
<1> QED BY <1>3, <1>4, <1>5

(* Whatever the starting shares are, whatever the node can execute and      *)
(* whatever number is drawn, a request that may not be offloaded is not,    *)
(* and a request is dropped only when the shares leave something to drops   *)
(* or nothing to a request that may only be executed (Decide).              *)
THEOREM DecisionsAreAllowed == Spec => []DecisionAllowed
<1>1. Init => DecisionAllowed
  BY DEF Init, DecisionAllowed
<1>2. TypeOK /\ DecisionAllowed /\ [Next]_vars => DecisionAllowed'
  <2> SUFFICES ASSUME TypeOK, DecisionAllowed, [Next]_vars PROVE DecisionAllowed'
    OBVIOUS
  <2>0. decision \in [Requests -> Decisions]
    BY DEF TypeOK
  <2>1. ASSUME NEW r \in Requests, Choose(r) PROVE DecisionAllowed'
    <3>1. PICK canExecute \in BOOLEAN, prob \in 0..(Precision - 1), answer \in Decisions :
            /\ decision' = [decision EXCEPT ![r] = answer]
            /\ answer = IF Reaches(Shares(r, canExecute).pe, prob) THEN "EXECUTE_REQUEST"
                        ELSE IF Reaches(Plus(Shares(r, canExecute).pe,
                                             Shares(r, canExecute).po), prob)
                             THEN "OFFLOAD_REQUEST" ELSE "DROP_REQUEST"
      BY <2>1 DEF Choose, Decisions
    <3>2. answer = "OFFLOAD_REQUEST" => r \in CanDoOffloading
      BY <3>1, LocalHasNoOffload
    <3>3. answer = "DROP_REQUEST" =>
            ~(startingExecute + startingOffload >= Whole
              /\ (startingExecute # 0 \/ r \in CanDoOffloading))
      BY <3>1, NothingIsDropped
    <3>4. startingExecute \in Int /\ startingOffload \in Int /\ Whole \in Int
      BY EngineAssumption
    <3>5. answer = "DROP_REQUEST" =>
            \/ startingExecute + startingOffload < Whole
            \/ startingExecute = 0 /\ r \notin CanDoOffloading
      BY <3>3, <3>4
    <3> QED BY <2>0, <3>1, <3>2, <3>5 DEF DecisionAllowed
  <2>2. ASSUME NEW r \in Requests, SendArrival(r) \/ Completed(r) PROVE DecisionAllowed'
    BY <2>0, <2>2 DEF SendArrival, Completed, DecisionAllowed
  <2>3. CASE HandleArrival \/ HandleCompletion \/ Evaluate \/ ResetColdStarts \/ DataRace
    BY <2>3 DEF HandleArrival, HandleCompletion, Evaluate, ResetColdStarts, DataRace,
       requestVars, DecisionAllowed
  <2>4. CASE UNCHANGED vars
    BY <2>4 DEF vars, requestVars, DecisionAllowed
  <2> QED BY <2>1, <2>2, <2>3, <2>4 DEF Next
<1> QED BY <1>1, <1>2, TypeCorrect, PTL DEF Spec

-----------------------------------------------------------------------------
(* The mean.  The divisions are exact because no count exceeds the number   *)
(* of requests: a completion is counted once, and each request has one.     *)

(* Multiplication by a positive number can be undone, by division too. *)
LEMMA Cancel ==
    ASSUME NEW n \in Nat \ {0}, NEW a \in Int, NEW b \in Int, a * n = b * n
    PROVE  a = b
<1>1. CASE a > b
  <2>1. PICK e \in Nat \ {0} : a = b + e
    <3>1. a - b \in Nat \ {0} /\ a = b + (a - b)
      BY <1>1
    <3> QED BY <3>1
  <2>2. (b + e) * n = b * n + e * n
    OBVIOUS
  <2>3. e * n > 0
    OBVIOUS
  <2> QED BY <2>1, <2>2, <2>3
<1>2. CASE a < b
  <2>1. PICK e \in Nat \ {0} : b = a + e
    <3>1. b - a \in Nat \ {0} /\ b = a + (b - a)
      BY <1>2
    <3> QED BY <3>1
  <2>2. (a + e) * n = a * n + e * n
    OBVIOUS
  <2>3. e * n > 0
    OBVIOUS
  <2> QED BY <2>1, <2>2, <2>3
<1> QED BY <1>1, <1>2

LEMMA ExactQuotient ==
    ASSUME NEW n \in Nat \ {0}, NEW e \in Int
    PROVE  (n * e) \div n = e
OBVIOUS

(* One step of a running mean in units of 1/s, s being a multiple of the    *)
(* counts before and after: the division is exact.                          *)
LEMMA RunningMean ==
    ASSUME NEW c \in Nat, NEW s \in Nat, NEW k \in Nat, s = (c + 1) * k,
           NEW j \in Nat, s = c * j,
           c > 0,
           NEW mean \in Int, NEW T \in Nat, NEW d \in Nat, mean * c = T * s
    PROVE  (mean + ((d * s - mean) \div (c + 1))) * (c + 1) = (T + d) * s
<1> DEFINE n == c + 1
           q == T * (j - k)
<1>1. j = n * (j - k)
  <2>1. (c + 1) * j = c * j + j /\ n * (j - k) = n * j - n * k
    OBVIOUS
  <2> QED BY <2>1
<1>2. mean = T * j
  <2>1. T * (c * j) = (T * j) * c
    OBVIOUS
  <2>2. T * j \in Int
    OBVIOUS
  <2> QED BY <2>1, <2>2, Cancel
<1>3. mean = n * q
  <2>1. T * (n * (j - k)) = n * (T * (j - k))
    OBVIOUS
  <2> QED BY <1>1, <1>2, <2>1
<1>4. d * s - mean = n * (d * k - q)
  <2>1. d * (n * k) = n * (d * k) /\ n * (d * k - q) = n * (d * k) - n * q
    OBVIOUS
  <2> QED BY <1>3, <2>1
<1>5. (d * s - mean) \div n = d * k - q
  <2>1. n \in Nat \ {0} /\ d * k - q \in Int
    OBVIOUS
  <2> QED BY <1>4, <2>1, ExactQuotient
<1>6. (mean + (d * k - q)) * n = (T + d) * s
  <2>1. (mean + (d * k - q)) * n = mean * n + n * (d * k - q)
    OBVIOUS
  <2>2. mean * n = mean * c + mean
    OBVIOUS
  <2>3. (T + d) * s = T * s + d * s
    OBVIOUS
  <2> QED BY <1>4, <2>1, <2>2, <2>3
<1> QED BY <1>5, <1>6

(* The first of them: what the mean was before does not matter. *)
LEMMA FirstMean ==
    ASSUME NEW c \in Nat, c = 0, NEW s \in Nat \ {0},
           NEW mean \in Int, NEW T \in Nat, NEW d \in Nat, mean * c = T * s
    PROVE  (mean + ((d * s - mean) \div (c + 1))) * (c + 1) = (T + d) * s
<1>1. T = 0
  <2>1. T * s = 0 * s
    OBVIOUS
  <2> QED BY <2>1, Cancel
<1>2. d * s \in Int /\ d * s - mean \in Int
  OBVIOUS
<1>3. (1 * (d * s - mean)) \div 1 = d * s - mean
  BY <1>2, ExactQuotient
<1>4. (d * s - mean) \div (c + 1) = d * s - mean
  BY <1>2, <1>3
<1> DEFINE x == (d * s - mean) \div (c + 1)
<1> HIDE DEF x
<1>5. (mean + x) * (c + 1) = d * s
  BY <1>2, <1>4 DEF x
<1> QED BY <1>1, <1>2, <1>5 DEF x

(* One completion more keeps the mean exact at its location, whether the    *)
(* start was warm or cold, and leaves the other location alone.             *)
LEMMA CountedMean ==
    ASSUME NEW i \in FunctionInfo, NEW l \in Locations, NEW report \in Reports, NEW T \in Nat,
           i.meanDuration[l] * i.count[l] = T * Scale,
           i.count[l] + 1 \in 1..Cardinality(Requests)
    PROVE  LET j == Counted(i, l, report)
           IN /\ j.count = [i.count EXCEPT ![l] = @ + 1]
              /\ j.meanDuration[l] * j.count[l] = (T + report.duration) * Scale
              /\ \A k \in Locations \ {l} : j.meanDuration[k] = i.meanDuration[k]
<1> DEFINE j == Counted(i, l, report)
           c == i.count[l]
           mean == i.meanDuration[l]
           d == report.duration
           next == mean + ((d * Scale - mean) \div (c + 1))
<1>1. /\ i.count \in [Locations -> Nat] /\ i.meanDuration \in [Locations -> Int]
      /\ c \in Nat /\ mean \in Int
  BY DEF FunctionInfo
<1>2. d \in Nat /\ Scale \in Nat \ {0}
  BY EngineAssumption
<1>3. j.count = [i.count EXCEPT ![l] = c + 1] /\ j.meanDuration = [i.meanDuration EXCEPT ![l] = next]
  <2>1. CASE report.warm
    BY <2>1 DEF Counted, FunctionInfo
  <2>2. CASE ~report.warm
    BY <2>2 DEF Counted, FunctionInfo
  <2> QED BY <2>1, <2>2
<1>4. next * (c + 1) = (T + d) * Scale
  <2>1. mean * c = T * Scale /\ c + 1 \in 1..Cardinality(Requests)
    OBVIOUS
  <2> HIDE DEF c, mean, d
  <2>2. Cardinality(Requests) \in Nat
    BY ScaleAssumption, FS_CardinalityType
  <2>3. ASSUME NEW n \in 1..Cardinality(Requests) PROVE \E k \in Nat : Scale = n * k
    <3>1. PICK k \in 1..Scale : Scale = n * k
      BY ScaleAssumption
    <3> QED BY <1>2, <3>1
  <2>4. PICK k \in Nat : Scale = (c + 1) * k
    BY <2>1, <2>3
  <2>5. CASE c = 0
    BY <1>1, <1>2, <2>1, <2>5, FirstMean
  <2>6. CASE c # 0
    <3>1. c \in 1..Cardinality(Requests) /\ c > 0
      BY <1>1, <2>1, <2>2, <2>6
    <3>2. PICK n \in Nat : Scale = c * n
      BY <2>3, <3>1
    <3>3. Scale \in Nat
      BY <1>2
    <3>4. c \in Nat /\ mean \in Int /\ d \in Nat /\ mean * c = T * Scale /\ c > 0
      BY <1>1, <1>2, <2>1, <3>1
    <3> HIDE DEF next
    <3>5. (mean + ((d * Scale - mean) \div (c + 1))) * (c + 1) = (T + d) * Scale
      BY <2>4, <3>2, <3>3, <3>4, RunningMean, SMTT(60)
    <3> QED BY <3>5 DEF next
  <2> QED BY <2>5, <2>6
<1> HIDE DEF next
<1> QED BY <1>1, <1>3, <1>4

(* The requests whose completion was sent. *)
Served == {r \in Requests : stage[r] = "done"}

ChannelOK ==
    /\ Pending \subseteq Served
    /\ \A i, j \in DOMAIN requestChannel :
         requestChannel[i].req = requestChannel[j].req => i = j

CountBounded ==
    \A f \in Functions, l \in Locations :
        info[f].count[l] <= Cardinality(Served \ Pending)

MeanIInv ==
    /\ total \in [Functions -> [Locations -> Nat]]
    /\ ChannelOK /\ CountBounded /\ MeanIsExact

(* Sets of requests are finite, and larger ones have larger cardinalities. *)
LEMMA RequestSets ==
    ASSUME NEW S, NEW R, S \subseteq R, R \subseteq Requests
    PROVE  /\ Cardinality(S) \in Nat /\ Cardinality(R) \in Nat
           /\ Cardinality(S) <= Cardinality(R)
           /\ Cardinality(R) <= Cardinality(Requests)
<1>1. IsFiniteSet(Requests)
  BY ScaleAssumption
<1>2. IsFiniteSet(R) /\ Cardinality(R) <= Cardinality(Requests)
  BY <1>1, FS_Subset
<1>3. IsFiniteSet(S) /\ Cardinality(S) <= Cardinality(R)
  BY <1>2, FS_Subset
<1> QED BY <1>2, <1>3, FS_CardinalityType

(* Where the counters only lose entries and the completions counted so far  *)
(* stay, nothing is disturbed.                                              *)
LEMMA CountsShrink ==
    ASSUME TypeOK, MeanIInv, ChannelOK',
           Served \ Pending \subseteq (Served \ Pending)',
           \A f \in Functions :
              \/ /\ info'[f].count = info[f].count
                 /\ info'[f].meanDuration = info[f].meanDuration
                 /\ total'[f] = total[f]
              \/ info'[f] = NewInfo /\ total'[f] = Zero,
           total' \in [Functions -> [Locations -> Nat]]
    PROVE  MeanIInv'
<1> DEFINE S == Served \ Pending
           R == (Served \ Pending)'
<1>1. S \subseteq R /\ R \subseteq Requests
  BY DEF Served
<1> HIDE DEF S, R
<1>2. Cardinality(S) \in Nat /\ Cardinality(R) \in Nat /\ Cardinality(S) <= Cardinality(R)
  BY <1>1, RequestSets
<1>3. ASSUME NEW f \in Functions, NEW l \in Locations
      PROVE  /\ info'[f].count[l] <= Cardinality(R)
             /\ info'[f].meanDuration[l] * info'[f].count[l] = total'[f][l] * Scale
  <2>1. /\ info[f].count[l] <= Cardinality(S) /\ info[f].count[l] \in Nat
        /\ info[f].meanDuration[l] * info[f].count[l] = total[f][l] * Scale
    <3>1. info[f] \in FunctionInfo
      BY DEF TypeOK
    <3>2. info[f].count \in [Locations -> Nat]
      BY <3>1 DEF FunctionInfo
    <3> QED BY <3>2 DEF MeanIInv, CountBounded, MeanIsExact, S
  <2>2. CASE info'[f] = NewInfo /\ total'[f] = Zero
    <3>1. info'[f].count[l] = 0 /\ info'[f].meanDuration[l] = 0 /\ total'[f][l] = 0
      BY <2>2 DEF NewInfo, Zero
    <3> QED BY <1>2, <3>1, EngineAssumption
  <2>3. CASE /\ info'[f].count = info[f].count
             /\ info'[f].meanDuration = info[f].meanDuration /\ total'[f] = total[f]
    BY <1>2, <2>1, <2>3
  <2> QED BY <2>2, <2>3
<1> QED BY <1>3 DEF MeanIInv, CountBounded, MeanIsExact, R

(* Receiving from a channel: the others keep their order. *)
LEMMA Received ==
    ASSUME TypeOK, ChannelOK, requestChannel # <<>>, requestChannel' = Tail(requestChannel),
           stage' = stage
    PROVE  /\ Head(requestChannel).req \in Served \ (Served \ Pending)
           /\ ChannelOK'
           /\ (Served \ Pending)' = (Served \ Pending) \cup {Head(requestChannel).req}
<1> DEFINE Completion == [req : Requests, location : Locations, report : Reports]
           r == Head(requestChannel).req
<1>1. requestChannel \in Seq(Completion)
  BY DEF TypeOK
<1> HIDE DEF Completion
<1>2. /\ Len(requestChannel) \in Nat \ {0} /\ r = requestChannel[1].req
      /\ Len(requestChannel') = Len(requestChannel) - 1
      /\ \A i \in DOMAIN requestChannel' : requestChannel'[i] = requestChannel[i + 1]
      /\ DOMAIN requestChannel = 1..Len(requestChannel)
      /\ DOMAIN requestChannel' = 1..(Len(requestChannel) - 1)
  BY <1>1
<1>3. 1 \in DOMAIN requestChannel
  BY <1>2
<1>4. \A i \in DOMAIN requestChannel' : i + 1 \in DOMAIN requestChannel /\ i + 1 # 1 /\ i \in Int
  BY <1>2
<1>5. Served' = Served
  BY DEF Served
<1>6. Pending' = Pending \ {r}
  <2>1. ASSUME NEW p \in Pending' PROVE p \in Pending \ {r}
    <3>1. PICK i \in DOMAIN requestChannel' : p = requestChannel'[i].req
      BY DEF Pending
    <3>2. p = requestChannel[i + 1].req
      BY <1>2, <3>1
    <3>3. p # r
      BY <1>2, <1>3, <1>4, <3>2 DEF ChannelOK
    <3> QED BY <1>4, <3>2, <3>3 DEF Pending
  <2>2. ASSUME NEW p \in Pending \ {r} PROVE p \in Pending'
    <3>1. PICK i \in DOMAIN requestChannel : p = requestChannel[i].req
      BY DEF Pending
    <3>2. i - 1 \in DOMAIN requestChannel' /\ (i - 1) + 1 = i
      BY <1>2, <3>1
    <3>3. p = requestChannel'[i - 1].req
      BY <1>2, <3>1, <3>2
    <3> QED BY <3>2, <3>3 DEF Pending
  <2> QED BY <2>1, <2>2
<1>7. r \in Pending /\ Pending \subseteq Served
  BY <1>2, <1>3 DEF Pending, ChannelOK
<1>8. ASSUME NEW i \in DOMAIN requestChannel', NEW j \in DOMAIN requestChannel',
             requestChannel'[i].req = requestChannel'[j].req
      PROVE  i = j
  <2>1. i + 1 = j + 1
    BY <1>2, <1>4, <1>8 DEF ChannelOK
  <2> QED BY <1>4, <2>1
<1>9. ChannelOK'
  BY <1>5, <1>6, <1>7, <1>8 DEF ChannelOK
<1> QED BY <1>5, <1>6, <1>7, <1>9

(* A completion is sent by a request that had none in the channel. *)
LEMMA Sent ==
    ASSUME TypeOK, ChannelOK, NEW r \in Requests, Completed(r)
    PROVE  ChannelOK' /\ (Served \ Pending)' = Served \ Pending
<1> DEFINE Completion == [req : Requests, location : Locations, report : Reports]
<1>1. requestChannel \in Seq(Completion) /\ stage \in [Requests -> Stages]
  BY DEF TypeOK
<1>2. PICK c \in Completion : requestChannel' = Append(requestChannel, c) /\ c.req = r
  <2>1. PICK report \in Reports :
          requestChannel' = Append(requestChannel,
            [req |-> r, report |-> report,
             location |-> IF decision[r] = "EXECUTE_REQUEST" THEN LOCAL_RUN ELSE OFFLOADED])
    BY DEF Completed
  <2> QED BY <2>1 DEF Locations
<1>3. r \notin Served /\ Served' = Served \cup {r}
  BY <1>1 DEF Completed, Served, Stages
<1> HIDE DEF Completion
<1>4. /\ DOMAIN requestChannel = 1..Len(requestChannel) /\ Len(requestChannel) \in Nat
      /\ DOMAIN requestChannel' = 1..(Len(requestChannel) + 1)
      /\ \A i \in DOMAIN requestChannel : requestChannel'[i] = requestChannel[i]
      /\ requestChannel'[Len(requestChannel) + 1] = c
  BY <1>1, <1>2
<1>5. DOMAIN requestChannel' = DOMAIN requestChannel \cup {Len(requestChannel) + 1}
  BY <1>4
<1>6. Pending' = Pending \cup {r}
  BY <1>2, <1>4, <1>5 DEF Pending
<1>7. Pending \subseteq Served /\ r \notin Pending
  BY <1>3 DEF ChannelOK
<1>8. ASSUME NEW i \in DOMAIN requestChannel', NEW j \in DOMAIN requestChannel',
             requestChannel'[i].req = requestChannel'[j].req
      PROVE  i = j
  <2>1. \A k \in DOMAIN requestChannel : requestChannel'[k].req \in Pending
    BY <1>4 DEF Pending
  <2>2. CASE i \in DOMAIN requestChannel /\ j \in DOMAIN requestChannel
    BY <1>4, <1>8, <2>2 DEF ChannelOK
  <2> QED BY <1>2, <1>4, <1>5, <1>7, <1>8, <2>1, <2>2
<1>9. ChannelOK'
  BY <1>3, <1>6, <1>7, <1>8 DEF ChannelOK
<1> QED BY <1>3, <1>6, <1>7, <1>9

LEMMA MeanInit == Init => MeanIInv
<1> SUFFICES ASSUME Init PROVE MeanIInv
  OBVIOUS
<1>1. requestChannel = <<>> /\ Pending = {}
  BY DEF Init, Pending
<1>2. ChannelOK
  BY <1>1 DEF ChannelOK
<1>3. Cardinality(Served \ Pending) \in Nat
  BY RequestSets DEF Served
<1>4. ASSUME NEW f \in Functions, NEW l \in Locations
      PROVE  info[f].count[l] = 0 /\ info[f].meanDuration[l] = 0 /\ total[f][l] = 0
  BY DEF Init, NewInfo, Zero
<1>5. CountBounded /\ MeanIsExact
  BY <1>3, <1>4, EngineAssumption DEF CountBounded, MeanIsExact
<1>6. total \in [Functions -> [Locations -> Nat]]
  BY DEF Init, Zero
<1> QED BY <1>2, <1>5, <1>6 DEF MeanIInv

LEMMA MeanCompletion == ASSUME TypeOK, MeanIInv, HandleCompletion PROVE MeanIInv'
<1> DEFINE r == Head(requestChannel)
           f == FunOf[r.req]
           l == r.location
           S == Served \ Pending
<1>1. /\ requestChannel # <<>> /\ requestChannel' = Tail(requestChannel) /\ stage' = stage
      /\ \/ /\ f \in m /\ info' = [info EXCEPT ![f] = Counted(info[f], l, r.report)]
            /\ total' = [total EXCEPT ![f][l] = @ + r.report.duration]
         \/ info' = info /\ total' = total
  BY DEF HandleCompletion, requestVars
<1>2. r.req \in Requests /\ l \in Locations /\ r.report \in Reports
  <2> DEFINE Completion == [req : Requests, location : Locations, report : Reports]
  <2>1. requestChannel \in Seq(Completion)
    BY DEF TypeOK
  <2> HIDE DEF Completion
  <2>2. r \in Completion
    BY <1>1, <2>1
  <2> QED BY <2>2 DEF Completion
<1>3. /\ r.req \in Served /\ r.req \notin S /\ ChannelOK'
      /\ (Served \ Pending)' = S \cup {r.req}
  BY <1>1, Received DEF MeanIInv
<1>4. CASE info' = info /\ total' = total
  BY <1>3, <1>4, CountsShrink DEF MeanIInv
<1>5. CASE /\ info' = [info EXCEPT ![f] = Counted(info[f], l, r.report)]
           /\ total' = [total EXCEPT ![f][l] = @ + r.report.duration]
  <2>1. f \in Functions /\ r.report.duration \in Nat
    BY <1>2, EngineAssumption
  <2>2. /\ info[f] \in FunctionInfo /\ info \in [Functions -> FunctionInfo]
        /\ total \in [Functions -> [Locations -> Nat]]
    BY <2>1 DEF TypeOK, MeanIInv
  <2>3. info[f].count \in [Locations -> Nat] /\ total[f][l] \in Nat
    BY <1>2, <2>1, <2>2 DEF FunctionInfo
  <2>4. \A g \in Functions, k \in Locations :
          /\ info[g].count[k] <= Cardinality(S)
          /\ info[g].meanDuration[k] * info[g].count[k] = total[g][k] * Scale
    BY DEF MeanIInv, CountBounded, MeanIsExact
  <2>5. /\ Cardinality(S) \in Nat /\ Cardinality((Served \ Pending)') = Cardinality(S) + 1
        /\ Cardinality(S) + 1 <= Cardinality(Requests) /\ Cardinality(Requests) \in Nat
    <3>1. S \subseteq Requests /\ S \cup {r.req} \subseteq Requests
      BY <1>2 DEF Served
    <3>2. IsFiniteSet(S)
      BY <3>1, ScaleAssumption, FS_Subset
    <3> HIDE DEF S, r
    <3>3. Cardinality(S \cup {r.req}) = Cardinality(S) + 1
      BY <1>3, <3>2, FS_AddElement
    <3>4. /\ Cardinality(S) \in Nat /\ Cardinality(S \cup {r.req}) <= Cardinality(Requests)
          /\ Cardinality(Requests) \in Nat
      BY <3>1, RequestSets
    <3> QED BY <1>3, <3>3, <3>4
  <2> DEFINE j == Counted(info[f], l, r.report)
  <2> HIDE DEF f, l, r, S
  <2>6. info[f].count[l] + 1 \in 1..Cardinality(Requests)
    BY <1>2, <2>1, <2>3, <2>4, <2>5
  <2>7. /\ j.count = [info[f].count EXCEPT ![l] = @ + 1]
        /\ j.meanDuration[l] * j.count[l] = (total[f][l] + r.report.duration) * Scale
        /\ \A k \in Locations \ {l} : j.meanDuration[k] = info[f].meanDuration[k]
    BY <1>2, <2>1, <2>2, <2>3, <2>4, <2>6, CountedMean
  <2> HIDE DEF j
  <2>8. info'[f] = j /\ \A g \in Functions \ {f} : info'[g] = info[g] /\ total'[g] = total[g]
    BY <1>5, <2>1, <2>2 DEF j
  <2>9. /\ total'[f][l] = total[f][l] + r.report.duration
        /\ \A k \in Locations \ {l} : total'[f][k] = total[f][k]
        /\ total' \in [Functions -> [Locations -> Nat]]
    BY <1>2, <1>5, <2>1, <2>2, <2>3
  <2>10. ASSUME NEW g \in Functions, NEW k \in Locations
         PROVE  /\ info'[g].count[k] <= Cardinality((Served \ Pending)')
                /\ info'[g].meanDuration[k] * info'[g].count[k] = total'[g][k] * Scale
    <3>0. info[g] \in FunctionInfo
      BY <2>2
    <3>1. info[g].count[k] \in Nat /\ info[g].count[k] <= Cardinality(S)
      BY <2>4, <3>0 DEF FunctionInfo
    <3>2. CASE g # f
      BY <2>4, <2>5, <2>8, <3>1, <3>2
    <3>3. CASE g = f /\ k = l
      <4>1. j.count[l] = info[f].count[l] + 1
        BY <1>2, <2>3, <2>7
      <4> QED BY <2>5, <2>7, <2>8, <2>9, <3>1, <3>3, <4>1
    <3>4. CASE g = f /\ k # l
      <4>1. j.count[k] = info[f].count[k] /\ j.meanDuration[k] = info[f].meanDuration[k]
            /\ total'[f][k] = total[f][k]
        BY <1>2, <2>3, <2>7, <2>9, <3>4
      <4> QED BY <2>4, <2>5, <2>8, <3>1, <3>4, <4>1
    <3> QED BY <3>2, <3>3, <3>4
  <2> QED BY <1>3, <2>9, <2>10 DEF MeanIInv, CountBounded, MeanIsExact
<1> QED BY <1>1, <1>4, <1>5

LEMMA MeanNext == TypeOK /\ MeanIInv /\ [Next]_vars => MeanIInv'
<1> SUFFICES ASSUME TypeOK, MeanIInv, [Next]_vars PROVE MeanIInv'
  OBVIOUS
<1>0. total \in [Functions -> [Locations -> Nat]] /\ ChannelOK /\ stage \in [Requests -> Stages]
  BY DEF MeanIInv, TypeOK
<1>1. CASE /\ requestChannel' = requestChannel /\ info' = info /\ total' = total
           /\ Served' = Served
  <2>1. Pending' = Pending /\ ChannelOK'
    BY <1>0, <1>1 DEF Pending, ChannelOK
  <2> QED BY <1>0, <1>1, <2>1, CountsShrink
<1>2. ASSUME NEW r \in Requests, SendArrival(r) \/ Choose(r) PROVE MeanIInv'
  <2>1. requestChannel' = requestChannel /\ info' = info /\ total' = total
    BY <1>2 DEF SendArrival, Choose
  <2>2. Served' = Served
    BY <1>0, <1>2 DEF SendArrival, Choose, Served
  <2> QED BY <1>1, <2>1, <2>2
<1>3. ASSUME NEW r \in Requests, Completed(r) PROVE MeanIInv'
  <2>1. ChannelOK' /\ (Served \ Pending)' = Served \ Pending
    BY <1>0, <1>3, Sent
  <2>2. info' = info /\ total' = total
    BY <1>3 DEF Completed
  <2> QED BY <1>0, <2>1, <2>2, CountsShrink
<1>4. CASE HandleArrival
  BY <1>1, <1>4 DEF HandleArrival, requestVars, Served
<1>5. CASE HandleCompletion
  BY <1>5, MeanCompletion
<1>6. CASE Evaluate
  <2>1. Served' = Served /\ Pending' = Pending /\ ChannelOK'
    BY <1>0, <1>6 DEF Evaluate, requestVars, Served, Pending, ChannelOK
  <2>2. \A f \in Functions : \/ info'[f] = info[f] /\ total'[f] = total[f]
                             \/ info'[f] = NewInfo /\ total'[f] = Zero
    BY <1>6 DEF Evaluate
  <2>3. total' \in [Functions -> [Locations -> Nat]]
    BY <1>0, <1>6 DEF Evaluate, Zero
  <2> QED BY <2>1, <2>2, <2>3, CountsShrink
<1>7. CASE ResetColdStarts
  <2>1. Served' = Served /\ Pending' = Pending /\ ChannelOK' /\ total' = total
    BY <1>0, <1>7 DEF ResetColdStarts, requestVars, Served, Pending, ChannelOK
  <2>2. ASSUME NEW f \in Functions
        PROVE  info'[f].count = info[f].count /\ info'[f].meanDuration = info[f].meanDuration
    <3>1. info[f] \in FunctionInfo
      BY DEF TypeOK
    <3>2. LET j == [info[f] EXCEPT !.coldStartCount = Zero, !.timeSlotCount = Zero]
          IN j.count = info[f].count /\ j.meanDuration = info[f].meanDuration
      BY <3>1 DEF FunctionInfo
    <3> QED BY <1>7, <3>2 DEF ResetColdStarts
  <2> QED BY <1>0, <2>1, <2>2, CountsShrink
<1>8. CASE DataRace
  <2>1. Served' = Served
    BY <1>0, <1>8 DEF DataRace, Served
  <2>2. Pending' = {} /\ ChannelOK'
    BY <1>8 DEF DataRace, Pending, ChannelOK
  <2>3. \A f \in Functions : info'[f] = NewInfo /\ total'[f] = Zero
    BY <1>8 DEF DataRace
  <2>4. total' \in [Functions -> [Locations -> Nat]]
    BY <1>8 DEF DataRace, Zero
  <2>5. Served \ Pending \subseteq (Served \ Pending)'
    BY <2>1, <2>2
  <2> QED BY <2>2, <2>3, <2>4, <2>5, CountsShrink
<1>9. CASE UNCHANGED vars
  BY <1>1, <1>9 DEF vars, requestVars, Served
<1> QED BY <1>2, <1>3, <1>4, <1>5, <1>6, <1>7, <1>8, <1>9 DEF Next

(* meanDuration is the mean of the durations counted since the entry was    *)
(* created, in every order of arrivals, completions and ticks (updateData). *)
THEOREM MeanIsAlwaysExact == Spec => []MeanIsExact
<1>1. MeanIInv => MeanIsExact
  BY DEF MeanIInv
<1> QED BY <1>1, MeanInit, MeanNext, TypeCorrect, PTL DEF Spec

-----------------------------------------------------------------------------
(* The age of an entry.  A completion is discarded only without an entry,   *)
(* so what has to be shown is how long an entry stays after an arrival: its *)
(* class is idle at most once per evaluation, and not at the first one.     *)

Remembered(r) ==
    \/ age[r] > maxTimeSlots
    \/ /\ ClassOf[r] \in invokingClasses[FunOf[r]]
       /\ age[r] = 0 => arrivalCount[FunOf[r]][ClassOf[r]] > 0
       /\ age[r] > 0 => slotsWithout[FunOf[r]][ClassOf[r]] < age[r]

AgeInv ==
    /\ \A r \in Requests : stage[r] = "new" => age[r] = 0
    /\ \A r \in Arriving : age[r] = 0
    /\ \A r \in InService \ Arriving : Remembered(r)

(* What is in the channels is of requests; what is sent is added. *)
LEMMA ArrivalsAreRequests == ASSUME TypeOK PROVE Arriving \subseteq Requests
<1>1. arrivalChannel \in Seq(Requests) BY DEF TypeOK
<1> QED BY <1>1 DEF Arriving

LEMMA ArrivalSent ==
    ASSUME TypeOK, NEW r \in Requests, arrivalChannel' = Append(arrivalChannel, r)
    PROVE  Arriving' = Arriving \cup {r}
<1>1. arrivalChannel \in Seq(Requests) BY DEF TypeOK
<1>2. /\ DOMAIN arrivalChannel = 1..Len(arrivalChannel) /\ Len(arrivalChannel) \in Nat
      /\ DOMAIN arrivalChannel' = 1..(Len(arrivalChannel) + 1)
      /\ \A i \in DOMAIN arrivalChannel : arrivalChannel'[i] = arrivalChannel[i]
      /\ arrivalChannel'[Len(arrivalChannel) + 1] = r
  BY <1>1
<1>3. DOMAIN arrivalChannel' = DOMAIN arrivalChannel \cup {Len(arrivalChannel) + 1}
  BY <1>2
<1> QED BY <1>2, <1>3 DEF Arriving

LEMMA ArrivalReceived ==
    ASSUME TypeOK, arrivalChannel # <<>>, arrivalChannel' = Tail(arrivalChannel)
    PROVE  /\ Head(arrivalChannel) \in Requests
           /\ Arriving' \subseteq Arriving /\ Arriving \subseteq Arriving' \cup {Head(arrivalChannel)}
<1>1. arrivalChannel \in Seq(Requests) BY DEF TypeOK
<1>2. /\ Len(arrivalChannel) \in Nat \ {0} /\ Head(arrivalChannel) = arrivalChannel[1]
      /\ Head(arrivalChannel) \in Requests
      /\ DOMAIN arrivalChannel = 1..Len(arrivalChannel)
      /\ DOMAIN arrivalChannel' = 1..(Len(arrivalChannel) - 1)
      /\ \A i \in DOMAIN arrivalChannel' : arrivalChannel'[i] = arrivalChannel[i + 1]
  BY <1>1
<1>3. \A i \in DOMAIN arrivalChannel' : i + 1 \in DOMAIN arrivalChannel
  BY <1>2
<1>4. \A i \in DOMAIN arrivalChannel \ {1} : i - 1 \in DOMAIN arrivalChannel' /\ (i - 1) + 1 = i
  BY <1>2
<1>5. Arriving' \subseteq Arriving BY <1>2, <1>3 DEF Arriving
<1>6. ASSUME NEW q \in Arriving, q # Head(arrivalChannel) PROVE q \in Arriving'
  <2>1. PICK i \in DOMAIN arrivalChannel : q = arrivalChannel[i] BY DEF Arriving
  <2>2. i - 1 \in DOMAIN arrivalChannel' /\ (i - 1) + 1 = i BY <1>2, <1>4, <1>6, <2>1
  <2>3. q = arrivalChannel'[i - 1] BY <1>2, <2>1, <2>2
  <2> QED BY <2>2, <2>3 DEF Arriving
<1> QED BY <1>2, <1>5, <1>6

LEMMA CompletionSent ==
    ASSUME TypeOK, NEW r \in Requests, Completed(r)
    PROVE  Pending' \subseteq Pending \cup {r}
<1> DEFINE Completion == [req : Requests, location : Locations, report : Reports]
<1>1. requestChannel \in Seq(Completion) BY DEF TypeOK
<1>2. PICK c \in Completion : requestChannel' = Append(requestChannel, c) /\ c.req = r
  <2>1. PICK report \in Reports :
          requestChannel' = Append(requestChannel,
            [req |-> r, report |-> report,
             location |-> IF decision[r] = "EXECUTE_REQUEST" THEN LOCAL_RUN ELSE OFFLOADED])
    BY DEF Completed
  <2> QED BY <2>1 DEF Locations
<1> HIDE DEF Completion
<1>3. \A i \in DOMAIN requestChannel' :
        \/ i \in DOMAIN requestChannel /\ requestChannel'[i] = requestChannel[i]
        \/ requestChannel'[i] = c
  BY <1>1, <1>2
<1> QED BY <1>2, <1>3 DEF Pending

(* Where no class is deleted and no count grows, the requests are           *)
(* remembered; a request that is new to InService is still arriving.        *)
LEMMA AgeStays ==
    ASSUME AgeInv, UNCHANGED <<invokingClasses, arrivalCount, slotsWithout, age>>,
           \A r \in Requests : stage'[r] = "new" => stage[r] = "new",
           \A r \in Arriving' : age[r] = 0,
           InService' \ Arriving' \subseteq InService \ Arriving
    PROVE  AgeInv'
BY DEF AgeInv, Remembered

LEMMA AgeArrival ==
    ASSUME TypeOK, ChannelOK, AgeInv, HandleArrival
    PROVE  AgeInv'
<1> DEFINE h == Head(arrivalChannel)
           f == FunOf[h]
           c == ClassOf[h]
<1>1. /\ UNCHANGED <<stage, requestChannel, age>>
      /\ invokingClasses' = [invokingClasses EXCEPT ![f] = @ \cup {c}]
      /\ arrivalCount' = [arrivalCount EXCEPT ![f][c] = @ + 1]
      /\ slotsWithout' = [slotsWithout EXCEPT ![f][c] = 0]
  BY DEF HandleArrival, requestVars
<1>2. /\ h \in Requests /\ Arriving' \subseteq Arriving /\ Arriving \subseteq Arriving' \cup {h}
      /\ InService' = InService
  BY <1>1, ArrivalReceived DEF HandleArrival, InService, Pending
<1>3. f \in Functions /\ c \in Classes BY <1>2, EngineAssumption
<1> HIDE DEF f, c
<1>4. ASSUME NEW g \in Functions, NEW d \in Classes
      PROVE  /\ invokingClasses[g] \subseteq invokingClasses'[g]
             /\ arrivalCount'[g][d] >= arrivalCount[g][d] /\ arrivalCount[g][d] \in Nat
             /\ slotsWithout'[g][d] <= slotsWithout[g][d] /\ slotsWithout[g][d] \in Nat
             /\ arrivalCount'[g][d] \in Nat /\ slotsWithout'[g][d] \in Nat
  BY <1>1, <1>3 DEF TypeOK
<1>5. c \in invokingClasses'[f] /\ arrivalCount'[f][c] > 0
  BY <1>1, <1>3 DEF TypeOK
<1>6. ASSUME NEW q \in InService' \ Arriving' PROVE Remembered(q)'
  <2>0. q \in Requests
    BY <1>2, <1>6 DEF InService, ChannelOK, Served
  <2>1. CASE q \in Arriving
    <3>1. q = h /\ age'[q] = 0 BY <1>1, <1>2, <1>6, <2>1 DEF AgeInv
    <3> QED BY <1>5, <3>1 DEF Remembered, f, c
  <2>2. CASE q \notin Arriving
    <3>1. Remembered(q) /\ age'[q] = age[q] /\ age[q] \in Nat
      BY <1>1, <1>2, <1>6, <2>0, <2>2 DEF AgeInv, TypeOK
    <3>2. FunOf[q] \in Functions /\ ClassOf[q] \in Classes BY <2>0, EngineAssumption
    <3> QED BY <1>4, <3>1, <3>2 DEF Remembered
  <2> QED BY <2>1, <2>2
<1> QED BY <1>1, <1>2, <1>6 DEF AgeInv

LEMMA AgeEvaluate ==
    ASSUME TypeOK, EntriesConsistent, ChannelOK, AgeInv, Evaluate
    PROVE  AgeInv'
<1>1. /\ UNCHANGED <<stage, arrivalChannel, requestChannel>> /\ Older
      /\ invokingClasses' = [f \in Functions |-> {c \in invokingClasses[f] : ~Expires(f, c)}]
      /\ slotsWithout' = [f \in Functions |-> [c \in Classes |->
            IF Expires(f, c) THEN 0
            ELSE slotsWithout[f][c] + IF Idle(f, c) THEN 1 ELSE 0]]
  BY DEF Evaluate, requestVars
<1>2. Arriving' = Arriving /\ InService' = InService /\ Pending \subseteq Requests
  BY <1>1 DEF Arriving, InService, Pending, ChannelOK, Served
<1>3. InService \subseteq Requests BY <1>2 DEF InService
<1>4. ASSUME NEW q \in InService \ Arriving PROVE Remembered(q)'
  <2> DEFINE f == FunOf[q]
             c == ClassOf[q]
  <2>1. /\ q \in Requests /\ f \in Functions /\ c \in Classes
        /\ age[q] \in Nat /\ maxTimeSlots \in Nat
        /\ slotsWithout[f][c] \in Nat /\ arrivalCount[f][c] \in Nat
    BY <1>3, <1>4, EngineAssumption DEF TypeOK
  <2>2. age'[q] = IF age[q] <= maxTimeSlots THEN age[q] + 1 ELSE age[q]
    BY <1>1, <1>4, <2>1 DEF Older
  <2>3. Remembered(q) BY <1>4 DEF AgeInv
  <2>4. /\ c \in invokingClasses'[f] <=> c \in invokingClasses[f] /\ ~Expires(f, c)
        /\ slotsWithout'[f][c] = IF Expires(f, c) THEN 0
                                 ELSE slotsWithout[f][c] + IF Idle(f, c) THEN 1 ELSE 0
    BY <1>1, <2>1
  <2>5. arrivalCount[f][c] > 0 => slotsWithout[f][c] = 0
    BY <2>1 DEF EntriesConsistent
  <2>6. Expires(f, c) => Idle(f, c) /\ slotsWithout[f][c] + 1 >= maxTimeSlots
    BY DEF Expires
  <2>7. Idle(f, c) => arrivalCount[f][c] = 0
    BY DEF Idle
  <2>8. SUFFICES /\ age'[q] > 0
                 /\ \/ age'[q] > maxTimeSlots
                    \/ c \in invokingClasses'[f] /\ slotsWithout'[f][c] < age'[q]
    BY DEF Remembered
  <2> HIDE DEF f, c
  <2>9. CASE age[q] > maxTimeSlots BY <2>1, <2>2, <2>9
  <2>10. CASE age[q] <= maxTimeSlots
    <3>1. /\ c \in invokingClasses[f]
          /\ age[q] = 0 => arrivalCount[f][c] > 0
          /\ age[q] > 0 => slotsWithout[f][c] < age[q]
      BY <2>1, <2>3, <2>10 DEF Remembered, f, c
    <3>2. CASE age[q] = 0
      <4>1. ~Idle(f, c) /\ slotsWithout[f][c] = 0 BY <2>1, <2>5, <2>7, <3>1, <3>2
      <4> QED BY <2>1, <2>2, <2>4, <2>6, <3>1, <3>2, <4>1
    <3>3. CASE age[q] > 0
      BY <2>1, <2>2, <2>4, <2>6, <2>10, <3>1, <3>3
    <3> QED BY <2>1, <3>2, <3>3
  <2> QED BY <2>1, <2>9, <2>10
<1>5. \A q \in Requests : q \notin InService \ Arriving => age'[q] = age[q]
  BY <1>1 DEF Older
<1>6. \A q \in Requests : stage[q] = "new" => q \notin InService
  BY DEF InService, ChannelOK, Served
<1>7. Arriving \subseteq Requests BY ArrivalsAreRequests
<1> QED BY <1>1, <1>2, <1>4, <1>5, <1>6, <1>7 DEF AgeInv

LEMMA AgeCompletion ==
    ASSUME TypeOK, ChannelOK, AgeInv, HandleCompletion
    PROVE  AgeInv'
<1> DEFINE r == Head(requestChannel).req
<1>1. /\ UNCHANGED <<stage, arrivalChannel, classVars>> /\ age' = [age EXCEPT ![r] = 0]
      /\ requestChannel # <<>> /\ requestChannel' = Tail(requestChannel)
  BY DEF HandleCompletion, requestVars
<1>2. r \in Served /\ ChannelOK' /\ (Served \ Pending)' = (Served \ Pending) \cup {r}
  BY <1>1, Received
<1>3. Pending' \subseteq Pending /\ r \notin Pending'
  BY <1>1, <1>2 DEF ChannelOK, Served
<1> HIDE DEF r
<1>4. InService' \subseteq InService \ {r} /\ Arriving' = Arriving
  BY <1>1, <1>2, <1>3 DEF InService, Served, Arriving
<1>5. \A q \in Requests : age'[q] = IF q = r THEN 0 ELSE age[q]
  BY <1>1 DEF TypeOK
<1>6. Arriving \subseteq Requests /\ InService \subseteq Requests
  BY ArrivalsAreRequests DEF InService, ChannelOK, Served
<1>7. \A q \in InService' \ Arriving' : Remembered(q)'
  BY <1>1, <1>4, <1>5, <1>6 DEF AgeInv, Remembered, classVars
<1> QED BY <1>1, <1>4, <1>5, <1>6, <1>7 DEF AgeInv

LEMMA AgeNext ==
    TypeOK /\ EntriesConsistent /\ MeanIInv /\ AgeInv /\ [Next]_vars => AgeInv'
<1> SUFFICES ASSUME TypeOK, EntriesConsistent, ChannelOK, AgeInv, [Next]_vars PROVE AgeInv'
  BY DEF MeanIInv
<1>0. stage \in [Requests -> Stages] BY DEF TypeOK
<1>1. ASSUME NEW r \in Requests, SendArrival(r) PROVE AgeInv'
  <2>1. /\ stage[r] = "new" /\ stage' = [stage EXCEPT ![r] = "sent"]
        /\ Arriving' = Arriving \cup {r} /\ UNCHANGED <<requestChannel, classVars, age>>
    BY <1>1, ArrivalSent DEF SendArrival
  <2>2. InService' \subseteq InService \cup {r} BY <1>0, <2>1 DEF InService, Pending
  <2>3. \A q \in Arriving' : age[q] = 0 BY <2>1 DEF AgeInv
  <2> QED BY <1>0, <2>1, <2>2, <2>3, AgeStays DEF classVars
<1>2. ASSUME NEW r \in Requests, Choose(r) PROVE AgeInv'
  <2>1. /\ stage[r] = "sent" /\ stage' = [stage EXCEPT ![r] = "decided"]
        /\ UNCHANGED <<arrivalChannel, requestChannel, classVars, age>>
    BY <1>2 DEF Choose
  <2>2. InService' = InService /\ Arriving' = Arriving
    BY <1>0, <2>1 DEF InService, Pending, Arriving
  <2> QED BY <1>0, <2>1, <2>2, AgeStays DEF classVars, AgeInv
<1>3. ASSUME NEW r \in Requests, Completed(r) PROVE AgeInv'
  <2>1. /\ stage[r] = "decided" /\ stage' = [stage EXCEPT ![r] = "done"]
        /\ UNCHANGED <<arrivalChannel, classVars, age>>
    BY <1>3 DEF Completed
  <2>2. InService' \subseteq InService /\ Arriving' = Arriving
    BY <1>0, <1>3, <2>1, CompletionSent DEF InService, Arriving
  <2> QED BY <1>0, <2>1, <2>2, AgeStays DEF classVars, AgeInv
<1>4. CASE HandleArrival BY <1>4, AgeArrival
<1>5. CASE HandleCompletion BY <1>5, AgeCompletion
<1>6. CASE Evaluate BY <1>6, AgeEvaluate
<1>7. CASE ResetColdStarts \/ UNCHANGED vars
  <2>1. UNCHANGED <<stage, arrivalChannel, requestChannel, classVars, age>>
    BY <1>7 DEF ResetColdStarts, requestVars, vars
  <2> QED BY <2>1, AgeStays DEF classVars, AgeInv, InService, Pending, Arriving
<1>8. CASE DataRace
  <2>1. /\ stage' = [r \in Requests |->
             IF stage[r] \in {"sent", "decided"} THEN "lost" ELSE stage[r]]
        /\ arrivalChannel' = <<>> /\ requestChannel' = <<>> /\ age' = [r \in Requests |-> 0]
    BY <1>8 DEF DataRace
  <2>2. Arriving' = {} /\ InService' = {}
    BY <2>1 DEF Arriving, InService, Pending
  <2> QED BY <2>1, <2>2 DEF AgeInv
<1> QED BY <1>1, <1>2, <1>3, <1>4, <1>5, <1>6, <1>7, <1>8 DEF Next

LEMMA AgeInit == Init => AgeInv
<1> SUFFICES ASSUME Init PROVE AgeInv OBVIOUS
<1>1. Arriving = {} /\ InService = {}
  BY DEF Init, Arriving, InService, Pending
<1> QED BY <1>1 DEF Init, AgeInv

(* A completion that is not counted has overtaken its own arrival, or its   *)
(* entry has outlived maxTimeSlots evaluations since, whatever order select *)
(* handles arrivals, completions and ticks in and however many classes the  *)
(* function has (handler, updateData and Delete).                           *)
THEOREM DiscardsAreExplained == Spec => []DiscardIsExplained
<1>1. ASSUME TypeOK, EntriesConsistent, MeanIInv, AgeInv PROVE DiscardIsExplained
  <2> SUFFICES ASSUME NEW r \in Pending, r \notin Arriving, ~(age[r] > maxTimeSlots)
               PROVE  FunOf[r] \in m
    BY DEF DiscardIsExplained
  <2>1. r \in Requests /\ FunOf[r] \in Functions
    BY <1>1, EngineAssumption DEF MeanIInv, ChannelOK, Served
  <2>2. ClassOf[r] \in invokingClasses[FunOf[r]]
    BY <1>1 DEF AgeInv, InService, Remembered
  <2> QED BY <1>1, <2>1, <2>2 DEF EntriesConsistent
<1> QED BY <1>1, AgeInit, AgeNext, MeanInit, MeanNext, TypeCorrect, MapsAgree, PTL DEF Spec
================================================================================
