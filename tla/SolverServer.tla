----------------------------- MODULE SolverServer -----------------------------
(***************************************************************************)
(* The solver: src/server.py and the part of src/optimizer.py that decides  *)
(* whether a call succeeds, called by solve of client/src/main/solver.go.   *)
(* Every call of Solve works on the same NetworkMetrics, without a lock on  *)
(* its lists; gRPC runs up to ten calls at once.                            *)
(*                                                                          *)
(* Abstractions.  Functions and classes are their names (their == and hash  *)
(* compare names).  Of a dictionary only the keys are kept; service, init   *)
(* and cold start times are set together, as are arrivals and rates.  The   *)
(* linear program has an optimum or has none.  A scan of a list is one      *)
(* step, as is the search of a function and the update of what it finds.    *)
(***************************************************************************)
EXTENDS Integers, Sequences, SequencesExt

CONSTANTS
    Clients,
    FunctionNames, ClassNames, None,
    ClassesOf,  \* Classes of each client
    Overlap     \* whether calls of different clients may overlap

ASSUME SolverAssumption ==
    /\ None \notin FunctionNames \cup ClassNames
    /\ ClassesOf \in [Clients -> SUBSET ClassNames]
    /\ Overlap \in BOOLEAN

VARIABLES
    lists,  \* metrics.functions and metrics.classes
    rates,  \* the keys of arrival_rates and arrivals
    timed,  \* the keys of service_time, init_time and cold_start
    call,   \* the call of Solve that each client is waiting for
    seen    \* history: functions registered since the server started

metrics == <<lists, rates, timed>>
vars == <<metrics, call, seen>>

functions == lists["functions"]
classes   == lists["classes"]

Empty == [ls \in {"functions", "classes"} |-> <<>>]

Couples == FunctionNames \X ClassNames

(* invoked: the couples of the request, fresh: those with arrivals; todo:   *)
(* the classes, functions and invocations not yet visited; ls, key, at,     *)
(* found: the locals of the method it is in; couples: F_C, then the answer. *)
Idle == [step |-> "idle", invoked |-> {}, fresh |-> {}, couples |-> {},
         todo |-> {}, ls |-> "classes", key |-> None, at |-> 1, found |-> None]

Steps == {"idle", "classes", "functions", "scan", "pop", "insert", "append", "search",
          "couples", "invocations", "solve", "check", "answered",
          "KeyError", "IndexError", "TypeError", "Unavailable"}

Calls == [step : Steps, invoked : SUBSET Couples, fresh : SUBSET Couples,
          couples : SUBSET Couples, todo : SUBSET (FunctionNames \cup ClassNames),
          ls : DOMAIN Empty, key : FunctionNames \cup ClassNames \cup {None},
          at : Nat \ {0}, found : FunctionNames \cup {None}]

TypeOK ==
    /\ lists["functions"] \in Seq(FunctionNames) /\ lists["classes"] \in Seq(ClassNames)
    /\ rates \subseteq (FunctionNames \cup {None}) \X (ClassNames \cup {None})
    /\ timed \subseteq FunctionNames \cup {None}
    /\ call \in [Clients -> Calls]
    /\ seen \subseteq FunctionNames

Init ==
    /\ lists = Empty /\ rates = {} /\ timed = {}
    /\ call = [x \in Clients |-> Idle]
    /\ seen = {}

Goto(x, step) == call' = [call EXCEPT ![x].step = step]

-----------------------------------------------------------------------------
(* The client: solve sends the couples of its map and the classes of its    *)
(* configuration, and waits.  A function is in the map while it has a class. *)
Begin(x, invoked, fresh) ==
    /\ call[x].step = "idle"
    /\ Overlap \/ \A y \in Clients : call[y].step = "idle"
    /\ invoked # {} /\ fresh \subseteq invoked
    /\ call' = [call EXCEPT ![x] =
         [Idle EXCEPT !.step = "classes", !.invoked = invoked, !.fresh = fresh,
                      !.todo = ClassesOf[x]]]
    /\ UNCHANGED <<metrics, seen>>

(* What the answer says of couples that are not in the map is passed over;  *)
(* after an error the probabilities of the map stay what they were.         *)
Return(x) ==
    /\ call[x].step \in {"answered", "KeyError", "IndexError", "TypeError", "Unavailable"}
    /\ call' = [call EXCEPT ![x] = Idle]
    /\ UNCHANGED <<metrics, seen>>

-----------------------------------------------------------------------------
(* _insert_if_not_present on one of the lists, and the append after it. *)

(* Solve goes through the classes of the request, then its functions. *)
TakeClass(x, c) ==
    /\ call[x].step = "classes" /\ c \in call[x].todo
    /\ call' = [call EXCEPT ![x].step = "scan", ![x].ls = "classes", ![x].key = c,
                            ![x].todo = @ \ {c}]
    /\ UNCHANGED <<metrics, seen>>

ClassesDone(x) ==
    /\ call[x].step = "classes" /\ call[x].todo = {}
    /\ call' = [call EXCEPT ![x].step = "functions",
                            ![x].todo = {fc[1] : fc \in call[x].invoked}]
    /\ UNCHANGED <<metrics, seen>>

TakeFunction(x, fn) ==
    /\ call[x].step = "functions" /\ fn \in call[x].todo
    /\ call' = [call EXCEPT ![x].step = "scan", ![x].ls = "functions", ![x].key = fn,
                            ![x].todo = @ \ {fn}]
    /\ UNCHANGED <<metrics, seen>>

FunctionsDone(x) ==
    /\ call[x].step = "functions" /\ call[x].todo = {}
    /\ Goto(x, "solve")
    /\ UNCHANGED <<metrics, seen>>

(* ls.index: the first position of the name. *)
Index(ls, key) == CHOOSE i \in DOMAIN lists[ls] :
    lists[ls][i] = key /\ \A j \in 1..(i - 1) : lists[ls][j] # key

(* Mutant of Scan: positions are counted from 0. *)
ScanFromZero(x) ==
    /\ call[x].step = "scan"
    /\ LET ls == call[x].ls  key == call[x].key IN
       IF key \in Range(lists[ls])
       THEN call' = [call EXCEPT ![x].step = "pop", ![x].at = Index(ls, key) - 1]
       ELSE Goto(x, "append")
    /\ UNCHANGED <<metrics, seen>>

Scan(x) ==
    /\ call[x].step = "scan"
    /\ LET ls == call[x].ls  key == call[x].key IN
       IF key \in Range(lists[ls])
       THEN call' = [call EXCEPT ![x].step = "pop", ![x].at = Index(ls, key)]
       ELSE Goto(x, "append")
    /\ UNCHANGED <<metrics, seen>>

Pop(x) ==
    /\ call[x].step = "pop"
    /\ IF call[x].at \in DOMAIN lists[call[x].ls]
       THEN /\ lists' = [lists EXCEPT ![call[x].ls] = RemoveAt(@, call[x].at)]
            /\ Goto(x, "insert")
       ELSE /\ Goto(x, "IndexError") /\ UNCHANGED lists
    /\ UNCHANGED <<rates, timed, seen>>

(* The name is in the list: on with the next class, or with                 *)
(* update_function_class.                                                   *)
Listed(x) ==
    /\ seen' = IF call[x].ls = "functions" THEN seen \cup {call[x].key} ELSE seen
    /\ Goto(x, IF call[x].ls = "functions" THEN "search" ELSE "classes")

(* Mutant of Insert: the caller is not told that the name was there. *)
InsertThenAppend(x) ==
    /\ call[x].step = "insert"
    /\ lists' = [lists EXCEPT ![call[x].ls] = InsertAt(@, call[x].at, call[x].key)]
    /\ Goto(x, "append")
    /\ UNCHANGED <<rates, timed, seen>>

(* Mutant of Insert: what was taken out is not put back. *)
InsertNothing(x) ==
    /\ call[x].step = "insert"
    /\ Listed(x)
    /\ UNCHANGED metrics

(* list.insert puts at the end what has a position after it. *)
Insert(x) ==
    /\ call[x].step = "insert"
    /\ lists' = [lists EXCEPT ![call[x].ls] =
          IF call[x].at > Len(@) THEN Append(@, call[x].key)
          ELSE InsertAt(@, call[x].at, call[x].key)]
    /\ Listed(x)
    /\ UNCHANGED <<rates, timed>>

AppendNew(x) ==
    /\ call[x].step = "append"
    /\ lists' = [lists EXCEPT ![call[x].ls] = Append(@, call[x].key)]
    /\ Listed(x)
    /\ UNCHANGED <<rates, timed>>

-----------------------------------------------------------------------------
(* update_function_class and the loop over the invocations. *)

(* _search_function and _search_class. *)
Search(ls, key) == IF key \in Range(lists[ls]) THEN key ELSE None

SearchFunction(x) ==
    /\ call[x].step = "search"
    /\ call' = [call EXCEPT ![x].step = "couples", ![x].at = 1,
                            ![x].found = Search("functions", call[x].key)]
    /\ UNCHANGED <<metrics, seen>>

(* Mutant of AddCouple: the last class of the list is left out. *)
AddCoupleButLast(x) ==
    /\ call[x].step = "couples" /\ call[x].at <= Len(classes)
    /\ rates' = rates \cup {<<call[x].found, classes[i]>> : i \in {call[x].at} \ {Len(classes)}}
    /\ call' = [call EXCEPT ![x].at = @ + 1]
    /\ UNCHANGED <<lists, timed, seen>>

AddCouple(x) ==
    /\ call[x].step = "couples" /\ call[x].at <= Len(classes)
    /\ rates' = rates \cup {<<call[x].found, classes[call[x].at]>>}
    /\ call' = [call EXCEPT ![x].at = @ + 1]
    /\ UNCHANGED <<lists, timed, seen>>

InvocationsOf(x) == {fc[2] : fc \in {fc \in call[x].invoked : fc[1] = call[x].key}}

CouplesDone(x) ==
    /\ call[x].step = "couples" /\ call[x].at > Len(classes)
    /\ Goto(x, "invocations")
    /\ UNCHANGED <<metrics, seen>>

(* The rates of the couples with arrivals and the times of the function, of *)
(* all its invocations: their order does not matter to the keys.            *)
UpdateInvocations(x) ==
    /\ call[x].step = "invocations"
    /\ LET fn == Search("functions", call[x].key)
           reported == {c \in InvocationsOf(x) : <<call[x].key, c>> \in call[x].fresh}
       IN /\ rates' = rates \cup {<<fn, Search("classes", c)>> : c \in reported}
          /\ timed' = timed \cup {fn}
    /\ Goto(x, "functions")
    /\ UNCHANGED <<lists, seen>>

-----------------------------------------------------------------------------
(* update_probabilities and the answer. *)

FC == Range(functions) \X Range(classes)

(* Without arrivals the answer names the functions and no class of theirs.  *)
Solve(x) ==
    /\ call[x].step = "solve"
    /\ IF call[x].fresh = {} THEN Goto(x, "answered")
       ELSE call' = [call EXCEPT ![x].step = "check", ![x].couples = FC]
    /\ UNCHANGED <<metrics, seen>>

(* The entries that the linear program reads, of the couples of F_C and of  *)
(* the lists as they are when class_arrival_rates are summed.               *)
Entries(x) ==
    /\ \A fc \in call[x].couples : fc[1] \in timed
    /\ call[x].couples \cup FC \subseteq rates

(* Mutant of Respond: the classes of a function replace each other in the   *)
(* answer.                                                                  *)
RespondLastClass(x) ==
    /\ call[x].step = "check"
    /\ \E last \in [{fc[1] : fc \in call[x].couples} -> Range(classes)] :
         call' = [call EXCEPT ![x].step = "answered",
                     ![x].couples = {<<fn, last[fn]>> : fn \in DOMAIN last}]
    /\ UNCHANGED <<metrics, seen>>

(* A missing entry is a KeyError.  Without an optimum update_probabilities  *)
(* returns None, which Solve cannot unpack.  Otherwise prepare_response has *)
(* an answer for every couple of F_C.                                       *)
Respond(x) ==
    /\ call[x].step = "check"
    /\ \E outcome \in IF Entries(x) THEN {"answered", "TypeError"} ELSE {"KeyError"} :
         Goto(x, outcome)
    /\ UNCHANGED <<metrics, seen>>

(* The server stops and starts again: what it knew is gone, and so are the  *)
(* calls it was serving.                                                    *)
Restart ==
    /\ lists' = Empty /\ rates' = {} /\ timed' = {} /\ seen' = {}
    /\ call' = [x \in Clients |->
          IF call[x].step = "idle" THEN Idle ELSE [Idle EXCEPT !.step = "Unavailable"]]

-----------------------------------------------------------------------------
Step(x) ==
    \/ \E c \in ClassNames : TakeClass(x, c)
    \/ \E fn \in FunctionNames : TakeFunction(x, fn)
    \/ ClassesDone(x) \/ FunctionsDone(x)
    \/ Scan(x) \/ Pop(x) \/ Insert(x) \/ AppendNew(x)
    \/ SearchFunction(x) \/ AddCouple(x) \/ CouplesDone(x) \/ UpdateInvocations(x)
    \/ Solve(x) \/ Respond(x) \/ Return(x)

Next ==
    \/ \E x \in Clients : Step(x)
    \/ \E x \in Clients :
         \E invoked \in SUBSET (FunctionNames \X ClassesOf[x]) :
            \E fresh \in SUBSET invoked : Begin(x, invoked, fresh)
    \/ Restart

Spec == Init /\ [][Next]_vars

-----------------------------------------------------------------------------
(* Properties. *)

(* _insert_if_not_present tells a name that is in the list from one that is *)
(* not: the optimizer counts the memory of every function once.             *)
NamesUnique == \A ls \in DOMAIN lists : IsInjective(lists[ls])

(* "keeps the reference to the arriving functions": a function that was     *)
(* listed stays listed until the server stops, but for the moment in which  *)
(* a call replaces it.                                                      *)
NothingLost ==
    \A fn \in seen :
        \/ fn \in Range(functions)
        \/ \E x \in Clients : call[x].step = "insert" /\ call[x].key = fn

(* "Adds missing couples (function, class)": every function has its times,  *)
(* and every function of the request a rate with every class of the list;   *)
(* only a function that the request does not name can lack an entry, and    *)
(* make the call fail.                                                      *)
OnlyForeignMissing ==
    \A x \in Clients : call[x].step = "check" =>
        /\ Range(functions) \subseteq timed
        /\ \A fc \in FC \ rates : \A inv \in call[x].invoked : inv[1] # fc[1]

(* A client that reports arrivals and gets an answer gets new probabilities *)
(* for every couple of its map.                                             *)
AnswerCoversRequest ==
    \A x \in Clients :
        call[x].step = "answered" /\ call[x].fresh # {}
            => call[x].invoked \subseteq call[x].couples
==============================================================================
