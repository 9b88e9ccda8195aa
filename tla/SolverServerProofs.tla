-------------------------- MODULE SolverServerProofs --------------------------
(***************************************************************************)
(* Theorems about SolverServer, for every set of clients, functions and     *)
(* classes and every choice of the classes of the clients.  The types hold  *)
(* however calls overlap.  The properties of the lists and of the answers   *)
(* are those of calls that do not overlap (Overlap = FALSE): with calls     *)
(* that do, the run server_overlap shows NothingLost violated.              *)
(*                                                                          *)
(* The argument is that between a scan of a list and the insertion nobody   *)
(* else works on it (Alone), so that the position found is that of the name *)
(* (Placed); the steps then only matter through the sets of listed names    *)
(* (Effects), and the loops of Solve through what is left of them (Known,   *)
(* Covered).                                                                *)
(***************************************************************************)
EXTENDS SolverServer, SequenceTheorems, WellFoundedInduction, TLAPS

Listing == {"scan", "pop", "insert", "append"}

(* The element of a list a call works on is one of its kind. *)
KeyOf(x) ==
    /\ call[x].step \in Listing =>
         call[x].key \in IF call[x].ls = "functions" THEN FunctionNames ELSE ClassNames
    /\ call[x].step \in {"search", "couples", "invocations"} => call[x].key \in FunctionNames
    /\ call[x].invoked \subseteq FunctionNames \X ClassesOf[x]
    /\ call[x].fresh \subseteq call[x].invoked

Typed ==
    /\ TypeOK
    /\ lists \in [{"functions", "classes"} -> Seq(FunctionNames \cup ClassNames)]
    /\ \A x \in Clients : KeyOf(x)

LEMMA IdleTyped == Idle \in Calls
BY DEF Idle, Calls, Steps, Empty, Couples

(* A call stays one when a field is assigned. *)
LEMMA CallUpdates ==
    ASSUME NEW rec \in Calls
    PROVE  /\ \A s \in Steps : [rec EXCEPT !.step = s] \in Calls
           /\ \A n \in Nat \ {0} : [rec EXCEPT !.at = n] \in Calls
           /\ \A fn \in FunctionNames \cup {None} : [rec EXCEPT !.found = fn] \in Calls
           /\ \A S \in SUBSET Couples : /\ [rec EXCEPT !.invoked = S] \in Calls
                                       /\ [rec EXCEPT !.fresh = S] \in Calls
           /\ \A S \in SUBSET (FunctionNames \cup ClassNames) :
                [rec EXCEPT !.todo = S] \in Calls
  BY DEF Calls

LEMMA RemoveAtType ==
    ASSUME NEW S, NEW s \in Seq(S), NEW i \in DOMAIN s
    PROVE  /\ RemoveAt(s, i) \in Seq(S)
           /\ Len(RemoveAt(s, i)) = Len(s) - 1
           /\ \A j \in 1..(Len(s) - 1) :
                RemoveAt(s, i)[j] = IF j < i THEN s[j] ELSE s[j + 1]
<1> DEFINE a == SubSeq(s, 1, i - 1)  b == SubSeq(s, i + 1, Len(s))
<1>0. i \in 1..Len(s) /\ Len(s) \in Nat /\ \A j \in 1..Len(s) : s[j] \in S OBVIOUS
<1>1. /\ a \in Seq(S) /\ Len(a) = i - 1
      /\ \A j \in 1..(i - 1) : a[j] = s[j]
  <2>1. \A j \in 1..(i - 1) : s[j] \in S BY <1>0
  <2> QED BY <1>0, <2>1, SubSeqProperties
<1>2. /\ b \in Seq(S) /\ Len(b) = Len(s) - i
      /\ \A j \in 1..(Len(s) - i) : b[j] = s[j + i]
  <2>1. \A j \in (i + 1)..Len(s) : s[j] \in S BY <1>0
  <2> QED BY <1>0, <2>1, SubSeqProperties
<1>3. RemoveAt(s, i) = a \o b BY DEF RemoveAt
<1> HIDE DEF a, b
<1> DEFINE p == a \o b
<1>4. /\ p \in Seq(S) /\ Len(p) = Len(a) + Len(b)
      /\ \A j \in 1..(Len(a) + Len(b)) : p[j] = IF j <= Len(a) THEN a[j] ELSE b[j - Len(a)]
  BY <1>1, <1>2, ConcatProperties
<1> HIDE DEF p
<1>5. ASSUME NEW j \in 1..(Len(s) - 1)
      PROVE  p[j] = IF j < i THEN s[j] ELSE s[j + 1]
  <2>1. CASE j < i BY <1>0, <1>1, <1>2, <1>4, <2>1
  <2>2. CASE j >= i
    <3>1. j - Len(a) \in 1..(Len(s) - i) BY <1>0, <1>1, <2>2
    <3>2. b[j - Len(a)] = s[j - Len(a) + i] /\ j - Len(a) + i = j + 1 BY <1>0, <1>1, <1>2, <3>1
    <3>3. p[j] = b[j - Len(a)] BY <1>0, <1>1, <1>2, <1>4, <2>2
    <3> QED BY <1>0, <2>2, <3>2, <3>3
  <2> QED BY <1>0, <2>1, <2>2
<1>6. RemoveAt(s, i) = p BY <1>3 DEF p
<1> QED BY <1>0, <1>1, <1>2, <1>4, <1>5, <1>6

LEMMA InsertAtType ==
    ASSUME NEW S, NEW s \in Seq(S), NEW e \in S, NEW i \in 1..(Len(s) + 1)
    PROVE  /\ InsertAt(s, i, e) \in Seq(S)
           /\ Len(InsertAt(s, i, e)) = Len(s) + 1
           /\ \A j \in 1..(Len(s) + 1) :
                InsertAt(s, i, e)[j] =
                  IF j < i THEN s[j] ELSE IF j = i THEN e ELSE s[j - 1]
<1> DEFINE a == SubSeq(s, 1, i - 1)  b == SubSeq(s, i, Len(s))  c == a \o <<e>>
<1>0. Len(s) \in Nat /\ \A j \in 1..Len(s) : s[j] \in S OBVIOUS
<1>1. /\ a \in Seq(S) /\ Len(a) = i - 1
      /\ \A j \in 1..(i - 1) : a[j] = s[j]
  <2>1. \A j \in 1..(i - 1) : s[j] \in S BY <1>0
  <2> QED BY <1>0, <2>1, SubSeqProperties
<1>2. /\ b \in Seq(S) /\ Len(b) = Len(s) + 1 - i
      /\ \A j \in 1..(Len(s) + 1 - i) : b[j] = s[j + i - 1]
  <2>1. \A j \in i..Len(s) : s[j] \in S BY <1>0
  <2> QED BY <1>0, <2>1, SubSeqProperties
<1>3. InsertAt(s, i, e) = c \o b BY DEF InsertAt
<1>4. <<e>> \in Seq(S) /\ Len(<<e>>) = 1 /\ <<e>>[1] = e OBVIOUS
<1> HIDE DEF a, b
<1>5. /\ c \in Seq(S) /\ Len(c) = Len(a) + 1
      /\ \A j \in 1..(Len(a) + 1) : c[j] = IF j <= Len(a) THEN a[j] ELSE <<e>>[j - Len(a)]
  BY <1>1, <1>4, ConcatProperties
<1> HIDE DEF c
<1> DEFINE p == c \o b
<1>6. /\ p \in Seq(S) /\ Len(p) = Len(c) + Len(b)
      /\ \A j \in 1..(Len(c) + Len(b)) : p[j] = IF j <= Len(c) THEN c[j] ELSE b[j - Len(c)]
  BY <1>2, <1>5, ConcatProperties
<1>7. InsertAt(s, i, e) = p BY <1>3
<1> HIDE DEF p
<1>8. Len(a) = i - 1 /\ Len(c) = i /\ Len(p) = Len(s) + 1 /\ Len(s) \in Nat /\ i \in Nat \ {0}
  BY <1>0, <1>1, <1>2, <1>5, <1>6
<1>9. \A k \in 1..i : p[k] = c[k]
  BY <1>6, <1>8, <1>2
<1>10. \A k \in 1..(i - 1) : c[k] = s[k]
  BY <1>1, <1>5, <1>8
<1>11. c[i] = e
  <2>1. i \in 1..(Len(a) + 1) /\ ~(i <= Len(a)) /\ i - Len(a) = 1 BY <1>8
  <2> QED BY <1>4, <1>5, <2>1
<1>12. ASSUME NEW k \in (i + 1)..(Len(s) + 1) PROVE p[k] = s[k - 1]
  <2>1. k - i \in 1..(Len(s) + 1 - i) /\ (k - i) + i - 1 = k - 1 BY <1>8
  <2>2. b[k - i] = s[k - 1] BY <1>2, <2>1
  <2>3. k \in 1..(Len(c) + Len(b)) /\ ~(k <= Len(c)) /\ k - Len(c) = k - i BY <1>2, <1>8
  <2> QED BY <1>6, <2>2, <2>3
<1>13. ASSUME NEW j \in 1..(Len(s) + 1)
       PROVE  p[j] = IF j < i THEN s[j] ELSE IF j = i THEN e ELSE s[j - 1]
  <2>1. j < i \/ j = i \/ j \in (i + 1)..(Len(s) + 1) BY <1>8
  <2> QED BY <1>8, <1>9, <1>10, <1>11, <1>12, <2>1
<1> QED BY <1>6, <1>7, <1>8, <1>13

LEMMA TypedInit == Init => Typed
<1> SUFFICES ASSUME Init PROVE Typed OBVIOUS
<1>1. \A S : <<>> \in Seq(S) OBVIOUS
<1> QED BY <1>1, IdleTyped DEF Init, Typed, TypeOK, Empty, KeyOf, Idle, Listing

(* A step of one call leaves the other calls alone. *)
LEMMA Frame ==
    ASSUME Typed, NEW x \in Clients, Step(x)
    PROVE  \A y \in Clients : y # x => call'[y] = call[y]
<1>1. call \in [Clients -> Calls] BY DEF Typed, TypeOK
<1> QED BY <1>1 DEF Step, TakeClass, TakeFunction, ClassesDone, FunctionsDone, Scan, Pop,
   Insert, AppendNew, SearchFunction, AddCouple, CouplesDone, UpdateInvocations, Solve,
   Respond, Return, Goto, Listed

(* What is found in a list. *)
LEMMA IndexProperties ==
    ASSUME NEW ls \in {"functions", "classes"}, NEW key, key \in Range(lists[ls]),
           lists[ls] \in Seq(FunctionNames \cup ClassNames)
    PROVE  /\ Index(ls, key) \in DOMAIN lists[ls] /\ Index(ls, key) \in Nat \ {0}
           /\ lists[ls][Index(ls, key)] = key
<1> DEFINE T == {i \in DOMAIN lists[ls] : lists[ls][i] = key}
<1>1. T \subseteq Nat /\ T # {}
  BY DEF Range
<1>2. PICK n \in T : \A k \in T : ~(<<k, n>> \in OpToRel(<, Nat))
  <2> HIDE DEF T
  <2> QED BY <1>1, WFMin, NatLessThanWellFounded
<1>3. \A j \in 1..(n - 1) : lists[ls][j] # key
  <2> SUFFICES ASSUME NEW j \in 1..(n - 1), lists[ls][j] = key PROVE FALSE OBVIOUS
  <2>1. n \in 1..Len(lists[ls]) /\ Len(lists[ls]) \in Nat OBVIOUS
  <2>2. j \in T /\ j \in Nat /\ n \in Nat /\ j < n BY <2>1
  <2>3. <<j, n>> \in OpToRel(<, Nat) BY <2>2 DEF OpToRel
  <2> QED BY <1>2, <2>2, <2>3
<1>4. n \in DOMAIN lists[ls] /\ lists[ls][n] = key BY <1>2
<1>5. Index(ls, key) \in DOMAIN lists[ls] /\ lists[ls][Index(ls, key)] = key
  <2> HIDE DEF T
  <2> QED BY <1>3, <1>4, Zenon DEF Index
<1> QED BY <1>5

(* The call that makes the step keeps its type. *)
LEMMA CallTyped ==
    ASSUME Typed, NEW x \in Clients, Step(x)
    PROVE  call'[x] \in Calls /\ KeyOf(x)'
<1>1. /\ call \in [Clients -> Calls] /\ call[x] \in Calls
      /\ functions \in Seq(FunctionNames) /\ classes \in Seq(ClassNames)
      /\ KeyOf(x)
  BY DEF Typed, TypeOK, functions, classes
<1>0. lists[call[x].ls] \in Seq(FunctionNames \cup ClassNames)
      /\ call[x].ls \in {"functions", "classes"}
  BY <1>1 DEF Typed, Calls, Empty
<1> USE DEF Calls, Steps, KeyOf, Listing, Empty
<1>2. CASE \E c \in ClassNames : TakeClass(x, c) BY <1>1, <1>2 DEF TakeClass
<1>3. CASE \E fn \in FunctionNames : TakeFunction(x, fn) BY <1>1, <1>3 DEF TakeFunction
<1>4. CASE ClassesDone(x)
  <2>1. {fc[1] : fc \in call[x].invoked} \subseteq FunctionNames \cup ClassNames
    BY <1>1 DEF Couples
  <2> QED BY <1>1, <1>4, <2>1 DEF ClassesDone
<1>5. CASE FunctionsDone(x) BY <1>1, <1>5 DEF FunctionsDone, Goto
<1>6. CASE Scan(x)
  <2>1. CASE call[x].key \in Range(lists[call[x].ls])
    <3>1. Index(call[x].ls, call[x].key) \in Nat \ {0} BY <1>0, <2>1, IndexProperties
    <3>2. call' = [call EXCEPT ![x].step = "pop", ![x].at = Index(call[x].ls, call[x].key)]
          /\ call[x].step = "scan"
      BY <1>6, <2>1 DEF Scan
    <3> QED BY <1>1, <3>1, <3>2
  <2>2. CASE call[x].key \notin Range(lists[call[x].ls])
    <3>1. call' = [call EXCEPT ![x].step = "append"] /\ call[x].step = "scan"
      BY <1>6, <2>2 DEF Scan, Goto
    <3> QED BY <1>1, <3>1
  <2> QED BY <2>1, <2>2
<1>7. CASE Pop(x)
  <2>1. \/ call' = [call EXCEPT ![x].step = "insert"]
        \/ call' = [call EXCEPT ![x].step = "IndexError"]
    BY <1>7 DEF Pop, Goto
  <2>2. call[x].step = "pop" BY <1>7 DEF Pop
  <2>3. CASE call' = [call EXCEPT ![x].step = "insert"] BY <1>1, <2>2, <2>3
  <2>4. CASE call' = [call EXCEPT ![x].step = "IndexError"] BY <1>1, <2>4
  <2> QED BY <2>1, <2>3, <2>4
<1>8. CASE Insert(x) \/ AppendNew(x)
  <2>1. call[x].step \in {"insert", "append"} BY <1>8 DEF Insert, AppendNew
  <2>2. Goto(x, IF call[x].ls = "functions" THEN "search" ELSE "classes")
    BY <1>8 DEF Insert, AppendNew, Listed
  <2>3. CASE call[x].ls = "functions" BY <1>1, <2>1, <2>2, <2>3 DEF Goto
  <2>4. CASE call[x].ls # "functions" BY <1>1, <2>1, <2>2, <2>4 DEF Goto
  <2> QED BY <2>3, <2>4
<1>9. CASE SearchFunction(x)
  <2>1. Search("functions", call[x].key) \in FunctionNames \cup {None}
    BY <1>1, <1>9 DEF SearchFunction, Search
  <2>2. PICK fn \in FunctionNames \cup {None} :
          call' = [call EXCEPT ![x].step = "couples", ![x].at = 1, ![x].found = fn]
    BY <1>9, <2>1 DEF SearchFunction
  <2>3. call[x].key \in FunctionNames BY <1>1, <1>9 DEF SearchFunction
  <2>4. call'[x] \in Calls
    <3>1. call'[x] = [call[x] EXCEPT !.step = "couples", !.at = 1, !.found = fn] BY <1>1, <2>2
    <3>2. 1 \in Nat \ {0} /\ "couples" \in Steps OBVIOUS
    <3> HIDE DEF Calls, Steps
    <3>3. [call[x] EXCEPT !.step = "couples"] \in Calls BY <1>1, <3>2, CallUpdates
    <3>4. [[call[x] EXCEPT !.step = "couples"] EXCEPT !.at = 1] \in Calls
      BY <3>2, <3>3, CallUpdates
    <3> QED BY <2>2, <3>1, <3>4, CallUpdates
  <2>5. KeyOf(x)' BY <1>1, <2>2, <2>3
  <2> QED BY <2>4, <2>5
<1>10. CASE AddCouple(x)
  <2>1. call[x].at + 1 \in Nat \ {0} BY <1>1
  <2> QED BY <1>1, <1>10, <2>1 DEF AddCouple
<1>11. CASE CouplesDone(x) BY <1>1, <1>11 DEF CouplesDone, Goto
<1>12. CASE UpdateInvocations(x)
  <2>1. call' = [call EXCEPT ![x].step = "functions"] BY <1>12 DEF UpdateInvocations, Goto
  <2> QED BY <1>1, <2>1
<1>13. CASE Solve(x)
  <2>1. FC \subseteq Couples BY <1>1 DEF FC, Couples, Range
  <2>2. \/ call' = [call EXCEPT ![x].step = "answered"]
        \/ call' = [call EXCEPT ![x].step = "check", ![x].couples = FC]
    BY <1>13 DEF Solve, Goto
  <2>3. CASE call' = [call EXCEPT ![x].step = "answered"] BY <1>1, <2>3
  <2>4. CASE call' = [call EXCEPT ![x].step = "check", ![x].couples = FC] BY <1>1, <2>1, <2>4
  <2> QED BY <2>2, <2>3, <2>4
<1>14. CASE Respond(x)
  <2>1. PICK o \in {"answered", "TypeError", "KeyError"} : call' = [call EXCEPT ![x].step = o]
    BY <1>14 DEF Respond, Goto
  <2> QED BY <1>1, <2>1
<1>15. CASE Return(x) BY <1>1, <1>15, IdleTyped DEF Return, Idle
<1> QED BY <1>2, <1>3, <1>4, <1>5, <1>6, <1>7, <1>8, <1>9, <1>10, <1>11, <1>12, <1>13,
           <1>14, <1>15, Zenon DEF Step

(* So do the lists. *)
ListsTyped ==
    /\ lists \in [{"functions", "classes"} -> Seq(FunctionNames \cup ClassNames)]
    /\ lists["functions"] \in Seq(FunctionNames) /\ lists["classes"] \in Seq(ClassNames)

LEMMA ListsStep == ASSUME Typed, NEW x \in Clients, Step(x) PROVE ListsTyped'
<1> DEFINE ls == call[x].ls  key == call[x].key  at == call[x].at
<1>1. /\ ListsTyped /\ KeyOf(x)
      /\ call[x].ls \in {"functions", "classes"} /\ call[x].at \in Nat \ {0}
  BY DEF Typed, TypeOK, Calls, Empty, ListsTyped
<1>2. ASSUME NEW s \in Seq(FunctionNames \cup ClassNames),
             lists' = [lists EXCEPT ![ls] = s],
             ls = "functions" => s \in Seq(FunctionNames),
             ls = "classes" => s \in Seq(ClassNames)
      PROVE  ListsTyped'
  BY <1>1, <1>2 DEF ListsTyped
<1>3. CASE UNCHANGED lists
  BY <1>1, <1>3 DEF ListsTyped
<1>4. CASE Pop(x)
  <2>1. CASE at \notin DOMAIN lists[ls] BY <1>3, <1>4, <2>1 DEF Pop
  <2>2. CASE at \in DOMAIN lists[ls]
    <3>1. lists' = [lists EXCEPT ![ls] = RemoveAt(lists[ls], at)] BY <1>4, <2>2 DEF Pop
    <3>2. RemoveAt(lists[ls], at) \in Seq(FunctionNames \cup ClassNames)
      BY <1>1, <2>2, RemoveAtType DEF ListsTyped
    <3>3. ls = "functions" => RemoveAt(lists[ls], at) \in Seq(FunctionNames)
      BY <1>1, <2>2, RemoveAtType DEF ListsTyped
    <3>4. ls = "classes" => RemoveAt(lists[ls], at) \in Seq(ClassNames)
      BY <1>1, <2>2, RemoveAtType DEF ListsTyped
    <3> QED BY <1>2, <3>1, <3>2, <3>3, <3>4
  <2> QED BY <2>1, <2>2
<1>5. CASE Insert(x) \/ AppendNew(x)
  <2> DEFINE s == IF call[x].step = "insert" /\ at <= Len(lists[ls])
                  THEN InsertAt(lists[ls], at, key) ELSE Append(lists[ls], key)
  <2>1. lists' = [lists EXCEPT ![ls] = s]
    <3>1. at \in Int /\ Len(lists[ls]) \in Int BY <1>1 DEF ListsTyped
    <3>2. CASE Insert(x)
      <4>1. call[x].step = "insert" BY <3>2 DEF Insert
      <4> DEFINE t == IF at > Len(lists[ls]) THEN Append(lists[ls], key)
                      ELSE InsertAt(lists[ls], at, key)
      <4>2. lists' = [lists EXCEPT ![ls] = t] BY <1>1, <3>2 DEF Insert, ListsTyped
      <4>3. t = s BY <3>1, <4>1
      <4> QED BY <4>2, <4>3
    <3>3. CASE AppendNew(x) BY <3>3 DEF AppendNew
    <3> QED BY <1>5, <3>2, <3>3
  <2>2. ASSUME NEW S, lists[ls] \in Seq(S), key \in S PROVE s \in Seq(S)
    <3>1. at <= Len(lists[ls]) => at \in 1..(Len(lists[ls]) + 1) BY <1>1, <2>2
    <3>2. at <= Len(lists[ls]) => InsertAt(lists[ls], at, key) \in Seq(S)
      BY <2>2, <3>1, InsertAtType
    <3>3. Append(lists[ls], key) \in Seq(S) BY <2>2
    <3> QED BY <3>2, <3>3
  <2>3. key \in IF ls = "functions" THEN FunctionNames ELSE ClassNames
    BY <1>1, <1>5 DEF Insert, AppendNew, KeyOf, Listing
  <2>4. s \in Seq(FunctionNames \cup ClassNames) BY <1>1, <2>2, <2>3 DEF ListsTyped
  <2>5. ls = "functions" => s \in Seq(FunctionNames) BY <1>1, <2>2, <2>3 DEF ListsTyped
  <2>6. ls = "classes" => s \in Seq(ClassNames) BY <1>1, <2>2, <2>3 DEF ListsTyped
  <2> HIDE DEF s
  <2> QED BY <1>2, <2>1, <2>4, <2>5, <2>6
<1>6. CASE \/ \E c \in ClassNames : TakeClass(x, c)
           \/ \E fn \in FunctionNames : TakeFunction(x, fn)
           \/ ClassesDone(x) \/ FunctionsDone(x) \/ Scan(x)
           \/ SearchFunction(x) \/ AddCouple(x) \/ CouplesDone(x) \/ UpdateInvocations(x)
           \/ Solve(x) \/ Respond(x) \/ Return(x)
  BY <1>3, <1>6 DEF TakeClass, TakeFunction, ClassesDone, FunctionsDone, Scan, SearchFunction,
     AddCouple, CouplesDone, UpdateInvocations, Solve, Respond, Return, metrics
<1> QED BY <1>4, <1>5, <1>6, Zenon DEF Step

(* And the keys of the dictionaries. *)
LEMMA KeysStep ==
    ASSUME Typed, NEW x \in Clients, Step(x)
    PROVE  /\ rates' \subseteq (FunctionNames \cup {None}) \X (ClassNames \cup {None})
           /\ timed' \subseteq FunctionNames \cup {None}
           /\ seen' \subseteq FunctionNames
<1>1. /\ rates \subseteq (FunctionNames \cup {None}) \X (ClassNames \cup {None})
      /\ timed \subseteq FunctionNames \cup {None}
      /\ seen \subseteq FunctionNames
      /\ functions \in Seq(FunctionNames) /\ classes \in Seq(ClassNames)
      /\ call[x] \in Calls /\ KeyOf(x)
  BY DEF Typed, TypeOK, functions, classes
<1>2. CASE Insert(x) \/ AppendNew(x)
  <2>1. call[x].ls = "functions" => call[x].key \in FunctionNames
    BY <1>1, <1>2 DEF Insert, AppendNew, KeyOf, Listing
  <2> QED BY <1>1, <1>2, <2>1 DEF Insert, AppendNew, Listed
<1>3. CASE AddCouple(x)
  <2>1. call[x].at \in 1..Len(classes) BY <1>1, <1>3 DEF AddCouple, Calls
  <2>2. classes[call[x].at] \in ClassNames BY <1>1, <2>1
  <2>3. call[x].found \in FunctionNames \cup {None} BY <1>1 DEF Calls
  <2> QED BY <1>1, <1>3, <2>2, <2>3 DEF AddCouple
<1>4. CASE UpdateInvocations(x)
  <2>1. \A c : Search("classes", c) \in ClassNames \cup {None}
    BY <1>1 DEF Search, Range, classes
  <2>2. Search("functions", call[x].key) \in FunctionNames \cup {None}
    BY <1>1 DEF Search, Range, functions
  <2>3. seen' = seen /\ timed' = timed \cup {Search("functions", call[x].key)}
    BY <1>4 DEF UpdateInvocations
  <2>4. PICK reported :
          rates' = rates \cup {<<Search("functions", call[x].key), Search("classes", c)>> :
                               c \in reported}
    BY <1>4 DEF UpdateInvocations
  <2> QED BY <1>1, <2>1, <2>2, <2>3, <2>4
<1>5. CASE \/ \E c \in ClassNames : TakeClass(x, c)
           \/ \E fn \in FunctionNames : TakeFunction(x, fn)
           \/ ClassesDone(x) \/ FunctionsDone(x) \/ Scan(x) \/ Pop(x)
           \/ SearchFunction(x) \/ CouplesDone(x) \/ Solve(x) \/ Respond(x) \/ Return(x)
  BY <1>1, <1>5 DEF TakeClass, TakeFunction, ClassesDone, FunctionsDone, Scan, Pop,
     SearchFunction, CouplesDone, Solve, Respond, Return, metrics
<1> QED BY <1>2, <1>3, <1>4, <1>5, Zenon DEF Step

LEMMA TypedNext == Typed /\ [Next]_vars => Typed'
<1> SUFFICES ASSUME Typed, [Next]_vars PROVE Typed' OBVIOUS
<1>1. ASSUME NEW x \in Clients, Step(x) PROVE Typed'
  <2>1. call' = [y \in Clients |-> call'[y]]
    <3>1. call \in [Clients -> Calls] BY DEF Typed, TypeOK
    <3> QED BY <1>1, <3>1 DEF Step, TakeClass, TakeFunction, ClassesDone, FunctionsDone, Scan,
       Pop, Insert, AppendNew, SearchFunction, AddCouple, CouplesDone, UpdateInvocations,
       Solve, Respond, Return, Goto, Listed
  <2>2. \A y \in Clients : call'[y] \in Calls /\ KeyOf(y)'
    BY <1>1, Frame, CallTyped DEF Typed, TypeOK, KeyOf
  <2> QED BY <1>1, <2>1, <2>2, ListsStep, KeysStep DEF Typed, TypeOK, ListsTyped
<1>2. ASSUME NEW x \in Clients, NEW invoked \in SUBSET (FunctionNames \X ClassesOf[x]),
             NEW fresh \in SUBSET invoked, Begin(x, invoked, fresh)
      PROVE  Typed'
  <2> DEFINE rec == [Idle EXCEPT !.step = "classes", !.invoked = invoked, !.fresh = fresh,
                                 !.todo = ClassesOf[x]]
  <2>1. call' = [call EXCEPT ![x] = rec] /\ UNCHANGED <<metrics, seen>>
    BY <1>2 DEF Begin
  <2>2. ClassesOf[x] \subseteq ClassNames BY SolverAssumption
  <2>3. rec \in Calls
    <3>1. "classes" \in Steps /\ invoked \in SUBSET Couples /\ fresh \in SUBSET Couples
          /\ ClassesOf[x] \in SUBSET (FunctionNames \cup ClassNames)
      BY <2>2 DEF Steps, Couples
    <3>2. [Idle EXCEPT !.step = "classes"] \in Calls BY <3>1, IdleTyped, CallUpdates
    <3>3. [[Idle EXCEPT !.step = "classes"] EXCEPT !.invoked = invoked] \in Calls
      BY <3>1, <3>2, CallUpdates
    <3>4. [[[Idle EXCEPT !.step = "classes"] EXCEPT !.invoked = invoked]
             EXCEPT !.fresh = fresh] \in Calls
      BY <3>1, <3>3, CallUpdates
    <3> QED BY <3>1, <3>4, CallUpdates
  <2>4. rec.step = "classes" /\ rec.invoked = invoked /\ rec.fresh = fresh
    BY DEF Idle
  <2>5. rec.step \notin Listing \cup {"search", "couples", "invocations"}
    BY <2>4 DEF Listing
  <2> HIDE DEF rec
  <2> QED BY <2>1, <2>3, <2>4, <2>5 DEF Typed, TypeOK, KeyOf, metrics
<1>3. CASE Restart
  <2>1. [Idle EXCEPT !.step = "Unavailable"] \in Calls BY IdleTyped DEF Calls, Steps
  <2>2. call' \in [Clients -> Calls] BY <1>3, <2>1, IdleTyped DEF Restart
  <2>3. \A x \in Clients : call'[x].step \in {"idle", "Unavailable"}
                           /\ call'[x].invoked = {} /\ call'[x].fresh = {}
    BY <1>3 DEF Restart, Idle
  <2>4. \A x \in Clients : KeyOf(x)' BY <2>3 DEF KeyOf, Listing
  <2>5. lists' = Empty /\ rates' = {} /\ timed' = {} /\ seen' = {} BY <1>3 DEF Restart
  <2> QED BY <2>2, <2>4, <2>5 DEF Typed, TypeOK, Empty
<1>4. CASE UNCHANGED vars
  BY <1>4 DEF vars, metrics, Typed, TypeOK, KeyOf
<1> QED BY <1>1, <1>2, <1>3, <1>4 DEF Next

(* Every reachable state is well typed, however calls overlap: the list of  *)
(* functions holds functions and the list of classes holds classes, at      *)
(* whatever index a call takes out or puts back.                            *)
THEOREM TypeCorrect == Spec => []TypeOK
<1>1. Typed => TypeOK BY DEF Typed
<1> QED BY <1>1, TypedInit, TypedNext, PTL DEF Spec
-----------------------------------------------------------------------------
(* What taking out and putting back do to the elements of a list without    *)
(* duplicates.                                                              *)

LEMMA RemoveAtRange ==
    ASSUME NEW S, NEW s \in Seq(S), NEW i \in DOMAIN s, IsInjective(s)
    PROVE  IsInjective(RemoveAt(s, i)) /\ Range(RemoveAt(s, i)) = Range(s) \ {s[i]}
<1> DEFINE t == RemoveAt(s, i)
<1>1. /\ t \in Seq(S) /\ Len(t) = Len(s) - 1
      /\ \A j \in 1..(Len(s) - 1) : t[j] = IF j < i THEN s[j] ELSE s[j + 1]
  BY RemoveAtType
<1> HIDE DEF t
<1>2. i \in 1..Len(s) /\ Len(s) \in Nat /\ DOMAIN s = 1..Len(s) OBVIOUS
<1>3. DOMAIN t = 1..(Len(s) - 1) BY <1>1, <1>2
<1>4. IsInjective(t)
  <2> SUFFICES ASSUME NEW a \in DOMAIN t, NEW b \in DOMAIN t, t[a] = t[b] PROVE a = b
    BY DEF IsInjective
  <2> DEFINE p(j) == IF j < i THEN j ELSE j + 1
  <2>1. \A j \in DOMAIN t : p(j) \in DOMAIN s /\ t[j] = s[p(j)] BY <1>1, <1>2, <1>3
  <2>2. s[p(a)] = s[p(b)] /\ p(a) \in DOMAIN s /\ p(b) \in DOMAIN s BY <2>1
  <2>3. p(a) = p(b)
    <3> HIDE DEF p
    <3> QED BY <2>2 DEF IsInjective
  <2> QED BY <1>2, <1>3, <2>3
<1>5. ASSUME NEW e \in Range(t) PROVE e \in Range(s) \ {s[i]}
  <2>1. PICK j \in DOMAIN t : e = t[j] BY <1>5 DEF Range
  <2>2. CASE j < i
    <3>1. j \in DOMAIN s /\ e = s[j] /\ j # i BY <1>1, <1>2, <1>3, <2>1, <2>2
    <3> QED BY <3>1 DEF Range, IsInjective
  <2>3. CASE j >= i
    <3>1. j + 1 \in DOMAIN s /\ e = s[j + 1] /\ j + 1 # i BY <1>1, <1>2, <1>3, <2>1, <2>3
    <3> QED BY <3>1 DEF Range, IsInjective
  <2> QED BY <1>2, <1>3, <2>2, <2>3
<1>6. ASSUME NEW e \in Range(s) \ {s[i]} PROVE e \in Range(t)
  <2>1. PICK j \in DOMAIN s : e = s[j] BY <1>6 DEF Range
  <2>2. j # i BY <1>6, <2>1
  <2>3. CASE j < i
    <3>1. j \in DOMAIN t /\ t[j] = e BY <1>1, <1>2, <1>3, <2>1, <2>3
    <3> QED BY <3>1 DEF Range
  <2>4. CASE j > i
    <3>1. j - 1 \in 1..(Len(s) - 1) /\ ~(j - 1 < i) /\ (j - 1) + 1 = j BY <1>2, <2>4
    <3>2. t[j - 1] = e BY <1>1, <2>1, <3>1
    <3> QED BY <1>3, <3>1, <3>2 DEF Range
  <2> QED BY <1>2, <2>2, <2>3, <2>4
<1> QED BY <1>4, <1>5, <1>6 DEF t

LEMMA InsertAtRange ==
    ASSUME NEW S, NEW s \in Seq(S), NEW e \in S, NEW i \in 1..(Len(s) + 1),
           IsInjective(s), e \notin Range(s)
    PROVE  IsInjective(InsertAt(s, i, e)) /\ Range(InsertAt(s, i, e)) = Range(s) \cup {e}
<1> DEFINE t == InsertAt(s, i, e)
<1>1. /\ t \in Seq(S) /\ Len(t) = Len(s) + 1
      /\ \A j \in 1..(Len(s) + 1) :
           t[j] = IF j < i THEN s[j] ELSE IF j = i THEN e ELSE s[j - 1]
  BY InsertAtType
<1> HIDE DEF t
<1>2. i \in 1..(Len(s) + 1) /\ Len(s) \in Nat /\ DOMAIN s = 1..Len(s) OBVIOUS
<1>3. DOMAIN t = 1..(Len(s) + 1) BY <1>1, <1>2
<1> DEFINE p(j) == IF j < i THEN j ELSE j - 1
<1>4. \A j \in DOMAIN t : j # i => p(j) \in DOMAIN s /\ t[j] = s[p(j)] BY <1>1, <1>2, <1>3
<1>5. t[i] = e BY <1>1, <1>2
<1>6. \A j \in DOMAIN t : j # i => t[j] # e BY <1>4 DEF Range
<1>7. IsInjective(t)
  <2> SUFFICES ASSUME NEW a \in DOMAIN t, NEW b \in DOMAIN t, t[a] = t[b] PROVE a = b
    BY DEF IsInjective
  <2>1. CASE a = i \/ b = i BY <1>5, <1>6, <2>1
  <2>2. CASE a # i /\ b # i
    <3>1. s[p(a)] = s[p(b)] /\ p(a) \in DOMAIN s /\ p(b) \in DOMAIN s BY <1>4, <2>2
    <3>2. p(a) = p(b)
      <4> HIDE DEF p
      <4> QED BY <3>1 DEF IsInjective
    <3> QED BY <1>2, <1>3, <2>2, <3>2
  <2> QED BY <2>1, <2>2
<1>8. ASSUME NEW d \in Range(t) PROVE d \in Range(s) \cup {e}
  <2>1. PICK j \in DOMAIN t : d = t[j] BY <1>8 DEF Range
  <2> QED BY <1>4, <1>5, <2>1 DEF Range
<1>9. ASSUME NEW d \in Range(s) PROVE d \in Range(t)
  <2>1. PICK j \in DOMAIN s : d = s[j] BY <1>9 DEF Range
  <2>2. CASE j < i
    <3>1. j \in DOMAIN t /\ t[j] = d BY <1>1, <1>2, <1>3, <2>1, <2>2
    <3> QED BY <3>1 DEF Range
  <2>3. CASE j >= i
    <3>1. j + 1 \in 1..(Len(s) + 1) /\ ~(j + 1 < i) /\ j + 1 # i /\ (j + 1) - 1 = j
      BY <1>2, <2>3
    <3>2. t[j + 1] = d BY <1>1, <2>1, <3>1
    <3> QED BY <1>3, <3>1, <3>2 DEF Range
  <2> QED BY <1>2, <2>2, <2>3
<1>10. e \in Range(t) BY <1>2, <1>3, <1>5 DEF Range
<1> QED BY <1>7, <1>8, <1>9, <1>10 DEF t

LEMMA AppendRange ==
    ASSUME NEW S, NEW s \in Seq(S), NEW e \in S, IsInjective(s), e \notin Range(s)
    PROVE  IsInjective(Append(s, e)) /\ Range(Append(s, e)) = Range(s) \cup {e}
<1> DEFINE t == Append(s, e)
<1>1. /\ Len(s) \in Nat /\ DOMAIN s = 1..Len(s) /\ DOMAIN t = 1..(Len(s) + 1)
      /\ t[Len(s) + 1] = e /\ \A j \in 1..Len(s) : t[j] = s[j]
  OBVIOUS
<1> HIDE DEF t
<1>2. \A j \in DOMAIN t : j = Len(s) + 1 \/ (j \in DOMAIN s /\ t[j] = s[j] /\ t[j] # e)
  BY <1>1 DEF Range
<1>3. IsInjective(t) BY <1>1, <1>2 DEF IsInjective
<1>4. Range(t) = Range(s) \cup {e} BY <1>1, <1>2 DEF Range
<1> QED BY <1>3, <1>4 DEF t
-----------------------------------------------------------------------------
(* One call at a time. *)

Alone == \A x, y \in Clients :
    call[x].step # "idle" /\ call[y].step # "idle" => x = y

(* What a call knows of the list between its scan and the end of the        *)
(* insertion.                                                               *)
Placed(x) ==
    LET ls == call[x].ls  key == call[x].key  at == call[x].at IN
    /\ call[x].step = "pop" => at \in DOMAIN lists[ls] /\ lists[ls][at] = key
    /\ call[x].step \in {"insert", "append"} => key \notin Range(lists[ls])

(* A registered function is listed, or the call that took it out is about   *)
(* to put it back.                                                          *)
Registered == \A fn \in seen :
    \/ fn \in Range(lists["functions"])
    \/ \E x \in Clients :
         call[x].step = "insert" /\ call[x].ls = "functions" /\ call[x].key = fn

Placement == Typed /\ Alone /\ NamesUnique /\ \A x \in Clients : Placed(x)

(* The effect of a step on the elements of the lists. *)
Takes(x, k) ==
    /\ call[x].step = "pop" /\ call'[x].step = "insert"
    /\ k = call[x].key
    /\ Range(lists'[call[x].ls]) = Range(lists[call[x].ls]) \ {k}
Gives(x, k) ==
    /\ call[x].step \in {"insert", "append"} /\ k = call[x].key
    /\ Range(lists'[call[x].ls]) = Range(lists[call[x].ls]) \cup {k}

LEMMA Effects ==
    ASSUME Placement, NEW x \in Clients, Step(x)
    PROVE  /\ NamesUnique'
           /\ \/ lists' = lists /\ call[x].step \notin {"pop", "insert", "append"}
              \/ /\ Takes(x, call[x].key) \/ Gives(x, call[x].key)
                 /\ \A l \in {"functions", "classes"} : l # call[x].ls => lists'[l] = lists[l]
<1> DEFINE ls == call[x].ls  key == call[x].key  at == call[x].at
           N == FunctionNames \cup ClassNames
<1>1. /\ lists \in [{"functions", "classes"} -> Seq(N)]
      /\ call[x] \in Calls /\ KeyOf(x) /\ Placed(x)
      /\ \A l \in {"functions", "classes"} : IsInjective(lists[l])
  BY DEF Placement, Typed, TypeOK, NamesUnique
<1>2. ls \in {"functions", "classes"} /\ at \in Nat \ {0} /\ lists[ls] \in Seq(N)
  BY <1>1 DEF Calls, Empty
<1>3. call[x].step \in Listing => key \in N BY <1>1 DEF KeyOf
<1>4. ASSUME NEW t, lists' = [lists EXCEPT ![ls] = t], IsInjective(t)
      PROVE  /\ NamesUnique' /\ lists'[ls] = t
             /\ \A l \in {"functions", "classes"} : l # ls => lists'[l] = lists[l]
  BY <1>1, <1>2, <1>4 DEF NamesUnique
<1>5. CASE Pop(x)
  <2>1. call[x].step = "pop" /\ at \in DOMAIN lists[ls] /\ lists[ls][at] = key
    BY <1>1, <1>5 DEF Pop, Placed
  <2>2. lists' = [lists EXCEPT ![ls] = RemoveAt(lists[ls], at)] /\ Goto(x, "insert")
    BY <1>5, <2>1 DEF Pop
  <2>3. call'[x].step = "insert"
    BY <2>2 DEF Goto, Placement, Typed, TypeOK, Calls
  <2>4. /\ IsInjective(RemoveAt(lists[ls], at))
        /\ Range(RemoveAt(lists[ls], at)) = Range(lists[ls]) \ {key}
    BY <1>1, <1>2, <2>1, RemoveAtRange
  <2> QED BY <1>4, <2>1, <2>2, <2>3, <2>4 DEF Takes
<1>6. CASE Insert(x)
  <2>1. call[x].step = "insert" /\ key \notin Range(lists[ls]) /\ key \in N
    BY <1>1, <1>3, <1>6 DEF Insert, Placed, Listing
  <2> DEFINE t == IF at > Len(lists[ls]) THEN Append(lists[ls], key)
                  ELSE InsertAt(lists[ls], at, key)
  <2>2. lists' = [lists EXCEPT ![ls] = t] BY <1>1, <1>2, <1>6 DEF Insert
  <2>3. IsInjective(t) /\ Range(t) = Range(lists[ls]) \cup {key}
    <3>1. at > Len(lists[ls]) \/ at \in 1..(Len(lists[ls]) + 1) BY <1>2
    <3> QED BY <1>1, <1>2, <2>1, <3>1, InsertAtRange, AppendRange
  <2> HIDE DEF t
  <2> QED BY <1>4, <2>1, <2>2, <2>3 DEF Gives
<1>7. CASE AppendNew(x)
  <2>1. call[x].step = "append" /\ key \notin Range(lists[ls]) /\ key \in N
    BY <1>1, <1>3, <1>7 DEF AppendNew, Placed, Listing
  <2>2. lists' = [lists EXCEPT ![ls] = Append(lists[ls], key)] BY <1>7 DEF AppendNew
  <2>3. /\ IsInjective(Append(lists[ls], key))
        /\ Range(Append(lists[ls], key)) = Range(lists[ls]) \cup {key}
    BY <1>1, <1>2, <2>1, AppendRange
  <2> QED BY <1>4, <2>1, <2>2, <2>3 DEF Gives
<1>8. CASE \/ \E c \in ClassNames : TakeClass(x, c)
           \/ \E fn \in FunctionNames : TakeFunction(x, fn)
           \/ ClassesDone(x) \/ FunctionsDone(x) \/ Scan(x)
           \/ SearchFunction(x) \/ AddCouple(x) \/ CouplesDone(x) \/ UpdateInvocations(x)
           \/ Solve(x) \/ Respond(x) \/ Return(x)
  <2>1. lists' = lists /\ call[x].step \notin {"pop", "insert", "append"}
    BY <1>8 DEF TakeClass, TakeFunction, ClassesDone, FunctionsDone, Scan, SearchFunction,
       AddCouple, CouplesDone, UpdateInvocations, Solve, Respond, Return, metrics
  <2> QED BY <2>1 DEF NamesUnique, Placement
<1> QED BY <1>5, <1>6, <1>7, <1>8, Zenon DEF Step

(* The calls that do not make the step are idle. *)
LEMMA OthersIdle ==
    ASSUME Placement, NEW x \in Clients, Step(x), NEW y \in Clients, y # x
    PROVE  call[x].step # "idle" /\ call[y].step = "idle" /\ call'[y] = call[y]
<1>1. call[x].step # "idle"
  BY DEF Step, TakeClass, TakeFunction, ClassesDone, FunctionsDone, Scan, Pop,
     Insert, AppendNew, SearchFunction, AddCouple, CouplesDone, UpdateInvocations, Solve,
     Respond, Return
<1> QED BY <1>1, Frame DEF Placement, Alone

(* A scan finds the position of the name. *)
LEMMA PlacedStep ==
    ASSUME Placement, NEW x \in Clients, Step(x)
    PROVE  Alone' /\ \A y \in Clients : Placed(y)'
<1>1. Alone' BY OthersIdle DEF Alone
<1>2. \A y \in Clients \ {x} : Placed(y)' BY OthersIdle DEF Placed
<1>3. Placed(x)'
  <2>0. /\ call \in [Clients -> Calls] /\ call[x] \in Calls /\ call'[x] \in Calls
        /\ lists \in [{"functions", "classes"} -> Seq(FunctionNames \cup ClassNames)]
    BY CallTyped DEF Placement, Typed, TypeOK
  <2>1. CASE Scan(x)
    <3>0. lists[call[x].ls] \in Seq(FunctionNames \cup ClassNames)
          /\ call[x].ls \in {"functions", "classes"}
      BY <2>0 DEF Calls, Empty
    <3>1. CASE call[x].key \in Range(lists[call[x].ls])
      <4>1. call' = [call EXCEPT ![x].step = "pop", ![x].at = Index(call[x].ls, call[x].key)]
            /\ lists' = lists
        BY <2>1, <3>1 DEF Scan, metrics
      <4>2. call'[x].step = "pop" /\ call'[x].at = Index(call[x].ls, call[x].key)
            /\ call'[x].ls = call[x].ls /\ call'[x].key = call[x].key
        BY <2>0, <4>1 DEF Calls
      <4> QED BY <3>0, <3>1, <4>1, <4>2, IndexProperties DEF Placed
    <3>2. CASE call[x].key \notin Range(lists[call[x].ls])
      <4>1. call' = [call EXCEPT ![x].step = "append"] /\ lists' = lists
        BY <2>1, <3>2 DEF Scan, metrics, Goto
      <4>2. call'[x].step = "append" /\ call'[x].ls = call[x].ls /\ call'[x].key = call[x].key
        BY <2>0, <4>1 DEF Calls
      <4> QED BY <3>2, <4>1, <4>2 DEF Placed
    <3> QED BY <3>1, <3>2
  <2>2. CASE Pop(x)
    <3>1. Takes(x, call[x].key)
      BY <2>2, Effects DEF Pop, Takes, Gives
    <3>2. call'[x].ls = call[x].ls /\ call'[x].key = call[x].key
      BY <2>0, <2>2 DEF Pop, Goto, Calls
    <3> QED BY <3>1, <3>2 DEF Takes, Placed
  <2>3. ASSUME ~Scan(x), ~Pop(x)
        PROVE  call'[x].step \notin {"pop", "insert", "append"}
    <3>1. CASE \E c \in ClassNames : TakeClass(x, c) BY <2>0, <3>1 DEF TakeClass, Calls
    <3>2. CASE \E fn \in FunctionNames : TakeFunction(x, fn)
      BY <2>0, <3>2 DEF TakeFunction, Calls
    <3>3. CASE ClassesDone(x) \/ FunctionsDone(x) \/ CouplesDone(x) \/ UpdateInvocations(x)
      BY <2>0, <3>3 DEF ClassesDone, FunctionsDone, CouplesDone, UpdateInvocations, Goto, Calls
    <3>4. CASE Insert(x) \/ AppendNew(x)
      BY <2>0, <3>4 DEF Insert, AppendNew, Listed, Goto, Calls
    <3>5. CASE SearchFunction(x) BY <2>0, <3>5 DEF SearchFunction, Calls
    <3>6. CASE AddCouple(x) BY <2>0, <3>6 DEF AddCouple, Calls
    <3>7. CASE Solve(x) \/ Respond(x) BY <2>0, <3>7 DEF Solve, Respond, Goto, Calls
    <3>8. CASE Return(x) BY <2>0, <3>8 DEF Return, Idle, Calls
    <3> QED BY <2>3, <3>1, <3>2, <3>3, <3>4, <3>5, <3>6, <3>7, <3>8, Zenon DEF Step
  <2> QED BY <2>1, <2>2, <2>3 DEF Placed
<1> QED BY <1>1, <1>2, <1>3

LEMMA PlacementInit == Init => Placement
<1> SUFFICES ASSUME Init PROVE Placement OBVIOUS
<1>1. Typed BY TypedInit
<1>2. \A x \in Clients : call[x].step = "idle" BY DEF Init, Idle
<1>3. NamesUnique BY DEF Init, Empty, NamesUnique, IsInjective
<1> QED BY <1>1, <1>2, <1>3 DEF Placement, Alone, Placed

LEMMA PlacementNext ==
    ASSUME Overlap = FALSE, Placement, [Next]_vars PROVE Placement'
<1>0. Typed' BY TypedNext DEF Placement
<1>1. ASSUME NEW x \in Clients, Step(x) PROVE Placement'
  BY <1>0, <1>1, Effects, PlacedStep DEF Placement
<1>2. ASSUME NEW x \in Clients, NEW invoked, NEW fresh, Begin(x, invoked, fresh)
      PROVE  Placement'
  <2>1. /\ \A y \in Clients : call[y].step = "idle"
        /\ \A y \in Clients : y # x => call'[y] = call[y]
        /\ call'[x].step = "classes" /\ lists' = lists
    <3>1. call \in [Clients -> Calls] BY DEF Placement, Typed, TypeOK
    <3> QED BY <1>2, <3>1 DEF Begin, metrics, Idle
  <2> QED BY <1>0, <2>1 DEF Placement, Alone, NamesUnique, Placed
<1>3. CASE Restart
  <2>1. \A y \in Clients : /\ call'[y].step \in {"idle", "Unavailable"}
                           /\ call'[y].step # "idle" => call[y].step # "idle"
    BY <1>3 DEF Restart, Idle
  <2>2. NamesUnique' BY <1>3 DEF Restart, Empty, NamesUnique, IsInjective
  <2> QED BY <1>0, <2>1, <2>2 DEF Placement, Alone, Placed
<1>4. CASE UNCHANGED vars
  BY <1>0, <1>4 DEF vars, metrics, Placement, Alone, NamesUnique, Placed
<1> QED BY <1>1, <1>2, <1>3, <1>4 DEF Next

(* When calls do not overlap, no name is listed twice: what lies between    *)
(* the scan of a list and the insertion is the work of one call, which      *)
(* knows the position it puts the name back to (Placed).                    *)
THEOREM NamesAreUnique == ASSUME Overlap = FALSE PROVE Spec => []NamesUnique
<1>1. Placement /\ [Next]_vars => Placement' BY PlacementNext
<1>2. Placement => NamesUnique BY DEF Placement
<1> QED BY <1>1, <1>2, PlacementInit, PTL DEF Spec

-----------------------------------------------------------------------------
(* No function is lost. *)

LEMMA RegisteredStep ==
    ASSUME Placement, Registered, NEW x \in Clients, Step(x) PROVE Registered'
<1>0. /\ call \in [Clients -> Calls] /\ call[x] \in Calls
      /\ \A y \in Clients : y # x => call[y].step = "idle" /\ call'[y] = call[y]
  BY OthersIdle DEF Placement, Typed, TypeOK
<1>1. CASE Pop(x)
  <2>1. Takes(x, call[x].key) /\ seen' = seen
        /\ (call[x].ls # "functions" => lists'["functions"] = lists["functions"])
    BY <1>1, Effects DEF Pop, Takes, Gives
  <2>2. call'[x].ls = call[x].ls /\ call'[x].key = call[x].key /\ call'[x].step = "insert"
    BY <1>0, <1>1, <2>1 DEF Pop, Takes, Goto, Calls
  <2> QED BY <1>0, <2>1, <2>2 DEF Registered, Takes
<1>2. CASE Insert(x) \/ AppendNew(x)
  <2>1. Gives(x, call[x].key)
        /\ (call[x].ls # "functions" => lists'["functions"] = lists["functions"])
    BY <1>2, Effects DEF Insert, AppendNew, Takes, Gives
  <2>2. seen' = IF call[x].ls = "functions" THEN seen \cup {call[x].key} ELSE seen
    BY <1>2 DEF Insert, AppendNew, Listed
  <2> QED BY <1>0, <2>1, <2>2 DEF Registered, Gives
<1>3. CASE \/ \E c \in ClassNames : TakeClass(x, c)
           \/ \E fn \in FunctionNames : TakeFunction(x, fn)
           \/ ClassesDone(x) \/ FunctionsDone(x) \/ Scan(x)
           \/ SearchFunction(x) \/ AddCouple(x) \/ CouplesDone(x) \/ UpdateInvocations(x)
           \/ Solve(x) \/ Respond(x) \/ Return(x)
  <2>1. lists' = lists /\ seen' = seen /\ call[x].step # "insert"
    BY <1>3 DEF TakeClass, TakeFunction, ClassesDone, FunctionsDone, Scan, SearchFunction,
       AddCouple, CouplesDone, UpdateInvocations, Solve, Respond, Return, metrics
  <2> QED BY <1>0, <2>1 DEF Registered
<1> QED BY <1>1, <1>2, <1>3, Zenon DEF Step

LEMMA RegisteredNext ==
    ASSUME Placement, Registered, [Next]_vars PROVE Registered'
<1>1. ASSUME NEW x \in Clients, Step(x) PROVE Registered'
  BY <1>1, RegisteredStep
<1>2. ASSUME NEW x \in Clients, NEW invoked, NEW fresh, Begin(x, invoked, fresh)
      PROVE  Registered'
  <2>1. /\ call[x].step = "idle" /\ lists' = lists /\ seen' = seen
        /\ \A y \in Clients : y # x => call'[y] = call[y]
    <3>1. call \in [Clients -> Calls] BY DEF Placement, Typed, TypeOK
    <3> QED BY <1>2, <3>1 DEF Begin, metrics
  <2> QED BY <2>1 DEF Registered
<1>3. CASE Restart BY <1>3 DEF Restart, Registered
<1>4. CASE UNCHANGED vars BY <1>4 DEF vars, metrics, Registered
<1> QED BY <1>1, <1>2, <1>3, <1>4 DEF Next

(* When calls do not overlap, a function that was registered stays listed   *)
(* but for the moment in which its call replaces it.                        *)
THEOREM NothingIsLost == ASSUME Overlap = FALSE PROVE Spec => []NothingLost
<1>1. Init => Placement /\ Registered
  BY PlacementInit DEF Init, Registered
<1>2. (Placement /\ Registered) /\ [Next]_vars => (Placement /\ Registered)'
  BY PlacementNext, RegisteredNext
<1>3. Registered => NothingLost
  BY DEF Registered, NothingLost, functions
<1> QED BY <1>1, <1>2, <1>3, PTL DEF Spec
-----------------------------------------------------------------------------
(* What is known when the answer is computed. *)

F == Range(lists["functions"])
C == Range(lists["classes"])

(* The call has listed all its classes. *)
ClassesListed(x) ==
    \/ call[x].step \in {"functions", "search", "couples", "invocations", "solve", "check"}
    \/ call[x].step \in Listing /\ call[x].ls = "functions"

(* The classes and functions of a call are listed, still to do, or being    *)
(* put into the list.                                                       *)
Known(x) ==
    /\ call[x].step = "classes" => ClassesOf[x] \subseteq C \cup call[x].todo
    /\ call[x].step \in Listing /\ call[x].ls = "classes" =>
         ClassesOf[x] \subseteq C \cup call[x].todo \cup {call[x].key}
    /\ ClassesListed(x) => ClassesOf[x] \subseteq C
    /\ ClassesListed(x) => \A fc \in call[x].invoked :
         fc[1] \in F \cup call[x].todo
                     \cup (IF call[x].step \in Listing THEN {call[x].key} ELSE {})
    /\ call[x].step \in {"search", "couples", "invocations"} => call[x].key \in F
    /\ call[x].step \in {"solve", "check"} => call[x].todo = {}
    /\ call[x].step = "check" => call[x].couples = F \X C
    /\ call[x].step = "answered" /\ call[x].fresh # {} => call[x].invoked \subseteq call[x].couples

LEMMA KnownStep ==
    ASSUME Placement, NEW x \in Clients, Known(x), Step(x) PROVE Known(x)'
<1>0. /\ call \in [Clients -> Calls] /\ call[x] \in Calls /\ call'[x] \in Calls
      /\ KeyOf(x)
  BY CallTyped DEF Placement, Typed, TypeOK
<1> USE DEF Listing
<1>1. ASSUME lists' = lists PROVE F' = F /\ C' = C BY <1>1 DEF F, C
<1>2. CASE \E c \in ClassNames : TakeClass(x, c)
  <2>1. PICK c \in ClassNames : TakeClass(x, c) BY <1>2
  <2>2. /\ call[x].step = "classes" /\ lists' = lists
        /\ call'[x].step = "scan" /\ call'[x].ls = "classes" /\ call'[x].key = c
        /\ call'[x].todo = call[x].todo \ {c}
    BY <1>0, <2>1 DEF TakeClass, metrics, Calls
  <2> QED BY <1>1, <2>2 DEF Known, ClassesListed
<1>3. CASE \E fn \in FunctionNames : TakeFunction(x, fn)
  <2>1. PICK fn \in FunctionNames : TakeFunction(x, fn) BY <1>3
  <2>2. /\ call[x].step = "functions" /\ lists' = lists
        /\ call'[x].step = "scan" /\ call'[x].ls = "functions" /\ call'[x].key = fn
        /\ call'[x].todo = call[x].todo \ {fn} /\ call'[x].invoked = call[x].invoked
    BY <1>0, <2>1 DEF TakeFunction, metrics, Calls
  <2> QED BY <1>1, <2>2 DEF Known, ClassesListed
<1>4. CASE ClassesDone(x)
  <2>1. /\ call[x].step = "classes" /\ call[x].todo = {} /\ lists' = lists
        /\ call'[x].step = "functions" /\ call'[x].invoked = call[x].invoked
        /\ call'[x].todo = {fc[1] : fc \in call[x].invoked}
    BY <1>0, <1>4 DEF ClassesDone, metrics, Calls
  <2> QED BY <1>1, <2>1 DEF Known, ClassesListed
<1>5. CASE FunctionsDone(x)
  <2>1. /\ call[x].step = "functions" /\ call[x].todo = {} /\ lists' = lists
        /\ call'[x].step = "solve" /\ call'[x].invoked = call[x].invoked /\ call'[x].todo = {}
    BY <1>0, <1>5 DEF FunctionsDone, Goto, metrics, Calls
  <2> QED BY <1>1, <2>1 DEF Known, ClassesListed
<1>6. CASE Scan(x)
  <2>1. /\ call[x].step = "scan" /\ lists' = lists
        /\ call'[x].step \in {"pop", "append"} /\ call'[x].invoked = call[x].invoked
        /\ call'[x].ls = call[x].ls /\ call'[x].key = call[x].key
        /\ call'[x].todo = call[x].todo
    <3>1. CASE call[x].key \in Range(lists[call[x].ls])
      BY <1>0, <1>6, <3>1 DEF Scan, Goto, metrics, Calls
    <3>2. CASE call[x].key \notin Range(lists[call[x].ls])
      BY <1>0, <1>6, <3>2 DEF Scan, Goto, metrics, Calls
    <3> QED BY <3>1, <3>2
  <2> QED BY <1>1, <2>1 DEF Known, ClassesListed
<1>7. CASE Pop(x)
  <2>1. /\ Takes(x, call[x].key)
        /\ \A l \in {"functions", "classes"} : l # call[x].ls => lists'[l] = lists[l]
    BY <1>7, Effects DEF Pop, Takes, Gives
  <2>2. /\ call[x].step = "pop" /\ call'[x].step = "insert"
        /\ call'[x].invoked = call[x].invoked
        /\ call'[x].ls = call[x].ls /\ call'[x].key = call[x].key
        /\ call'[x].todo = call[x].todo
    BY <1>0, <1>7, <2>1 DEF Pop, Takes, Goto, Calls
  <2>3. call[x].ls \in {"functions", "classes"} BY <1>0 DEF Calls, Empty
  <2>4. CASE call[x].ls = "classes"
    <3>1. C' = C \ {call[x].key} BY <2>1, <2>4 DEF C, Takes
    <3> QED BY <2>2, <2>4, <3>1 DEF Known, ClassesListed
  <2>5. CASE call[x].ls = "functions"
    <3>1. F' = F \ {call[x].key} /\ C' = C BY <2>1, <2>5 DEF C, F, Takes
    <3> QED BY <2>2, <2>5, <3>1 DEF Known, ClassesListed
  <2> QED BY <2>3, <2>4, <2>5
<1>8. CASE Insert(x) \/ AppendNew(x)
  <2>1. /\ Gives(x, call[x].key)
        /\ \A l \in {"functions", "classes"} : l # call[x].ls => lists'[l] = lists[l]
    BY <1>8, Effects DEF Insert, AppendNew, Takes, Gives
  <2>2. /\ call[x].step \in {"insert", "append"}
        /\ call'[x].step = IF call[x].ls = "functions" THEN "search" ELSE "classes"
        /\ call'[x].invoked = call[x].invoked
        /\ call'[x].key = call[x].key /\ call'[x].todo = call[x].todo
    BY <1>0, <1>8, <2>1 DEF Insert, AppendNew, Listed, Goto, Calls
  <2>3. call[x].ls \in {"functions", "classes"} BY <1>0 DEF Calls, Empty
  <2>4. CASE call[x].ls = "classes"
    <3>1. C' = C \cup {call[x].key} BY <2>1, <2>4 DEF C, Gives
    <3> QED BY <2>2, <2>4, <3>1 DEF Known, ClassesListed
  <2>5. CASE call[x].ls = "functions"
    <3>1. F' = F \cup {call[x].key} /\ C' = C BY <2>1, <2>5 DEF C, F, Gives
    <3> QED BY <2>2, <2>5, <3>1 DEF Known, ClassesListed
  <2> QED BY <2>3, <2>4, <2>5
<1>9. CASE SearchFunction(x) \/ AddCouple(x) \/ CouplesDone(x) \/ UpdateInvocations(x)
  <2>1. /\ call[x].step \in {"search", "couples", "invocations"} /\ lists' = lists
        /\ call'[x].step \in {"couples", "invocations", "functions"}
        /\ call'[x].invoked = call[x].invoked
        /\ call'[x].key = call[x].key /\ call'[x].todo = call[x].todo
    <3>1. CASE SearchFunction(x) BY <1>0, <3>1 DEF SearchFunction, metrics, Calls
    <3>2. CASE AddCouple(x) BY <1>0, <3>2 DEF AddCouple, metrics, Calls
    <3>3. CASE CouplesDone(x) \/ UpdateInvocations(x)
      BY <1>0, <3>3 DEF CouplesDone, UpdateInvocations, Goto, metrics, Calls
    <3> QED BY <1>9, <3>1, <3>2, <3>3
  <2> QED BY <1>1, <2>1 DEF Known, ClassesListed
<1>10. CASE Solve(x)
  <2>1. /\ call[x].step = "solve" /\ lists' = lists
        /\ \/ call'[x].step = "answered" /\ call'[x].fresh = {}
           \/ call'[x].step = "check" /\ call'[x].couples = F \X C
        /\ call'[x].invoked = call[x].invoked /\ call'[x].todo = call[x].todo
    BY <1>0, <1>10 DEF Solve, Goto, metrics, Calls, FC, F, C, functions, classes
  <2> QED BY <1>1, <2>1 DEF Known, ClassesListed
<1>11. CASE Respond(x)
  <2>1. /\ call[x].step = "check" /\ lists' = lists
        /\ call'[x].step \in {"answered", "TypeError", "KeyError"}
        /\ call'[x].invoked = call[x].invoked /\ call'[x].couples = call[x].couples
    BY <1>0, <1>11 DEF Respond, Goto, metrics, Calls
  <2>2. call[x].invoked \subseteq F \X C
    <3>1. /\ ClassesOf[x] \subseteq C /\ call[x].invoked \subseteq FunctionNames \X ClassesOf[x]
          /\ \A fc \in call[x].invoked : fc[1] \in F
      BY <1>0, <2>1 DEF Known, ClassesListed, KeyOf
    <3> QED BY <3>1
  <2>3. call[x].couples = F \X C BY <2>1 DEF Known
  <2> QED BY <2>1, <2>2, <2>3 DEF Known, ClassesListed
<1>12. CASE Return(x)
  <2>1. call'[x].step = "idle" BY <1>0, <1>12 DEF Return, Idle
  <2> QED BY <2>1 DEF Known, ClassesListed
<1> QED BY <1>2, <1>3, <1>4, <1>5, <1>6, <1>7, <1>8, <1>9, <1>10, <1>11, <1>12, Zenon DEF Step
(* Every listed function has its times, or they are about to be set. *)
Timed == \A fn \in F :
    \/ fn \in timed
    \/ \E x \in Clients :
         call[x].step \in {"search", "couples", "invocations"} /\ call[x].key = fn

(* The functions of a call that are no longer to do have a rate with every  *)
(* class; the loop that adds them has reached call[x].at.                   *)
Covered(x) ==
    /\ ClassesListed(x) => \A fc \in call[x].invoked :
         \/ fc[1] \in call[x].todo
         \/ call[x].step \in Listing \cup {"search", "couples"} /\ fc[1] = call[x].key
         \/ \A c \in C : <<fc[1], c>> \in rates
    /\ call[x].step = "couples" =>
         /\ call[x].found = call[x].key
         /\ \A i \in DOMAIN lists["classes"] :
              i < call[x].at => <<call[x].key, lists["classes"][i]>> \in rates

LEMMA TimedStep ==
    ASSUME Placement, Timed, NEW x \in Clients, Known(x), Step(x) PROVE Timed'
<1>0. /\ call \in [Clients -> Calls] /\ call[x] \in Calls
      /\ \A y \in Clients : y # x => call[y].step = "idle" /\ call'[y] = call[y]
  BY OthersIdle DEF Placement, Typed, TypeOK
<1>1. CASE UpdateInvocations(x)
  <2>1. call[x].step = "invocations" /\ lists' = lists
        /\ timed' = timed \cup {Search("functions", call[x].key)}
    BY <1>1 DEF UpdateInvocations
  <2>2. Search("functions", call[x].key) = call[x].key
    BY <2>1 DEF Known, F, Search
  <2>3. F' = F BY <2>1 DEF F
  <2> QED BY <1>0, <2>1, <2>2, <2>3 DEF Timed
<1>2. CASE Insert(x) \/ AppendNew(x)
  <2>1. /\ Gives(x, call[x].key)
        /\ (call[x].ls # "functions" => lists'["functions"] = lists["functions"])
    BY <1>2, Effects DEF Insert, AppendNew, Takes, Gives
  <2>2. /\ call'[x].step = IF call[x].ls = "functions" THEN "search" ELSE "classes"
        /\ call'[x].key = call[x].key /\ timed' = timed
    BY <1>0, <1>2 DEF Insert, AppendNew, Listed, Goto, Calls
  <2>3. F' \subseteq F \cup (IF call[x].ls = "functions" THEN {call[x].key} ELSE {})
    BY <2>1 DEF F, Gives
  <2> QED BY <1>0, <1>2, <2>1, <2>2, <2>3 DEF Timed, Gives
<1>3. CASE Pop(x)
  <2>1. /\ Takes(x, call[x].key)
        /\ (call[x].ls # "functions" => lists'["functions"] = lists["functions"])
    BY <1>3, Effects DEF Pop, Takes, Gives
  <2>2. F' \subseteq F BY <2>1 DEF F, Takes
  <2>3. timed' = timed BY <1>3 DEF Pop
  <2> QED BY <1>0, <2>1, <2>2, <2>3 DEF Timed, Takes
<1>4. CASE SearchFunction(x) \/ AddCouple(x) \/ CouplesDone(x)
  <2>1. /\ call'[x].step \in {"couples", "invocations"} /\ call'[x].key = call[x].key
        /\ lists' = lists /\ timed' = timed
    <3>1. CASE SearchFunction(x) BY <1>0, <3>1 DEF SearchFunction, metrics, Calls
    <3>2. CASE AddCouple(x) BY <1>0, <3>2 DEF AddCouple, metrics, Calls
    <3>3. CASE CouplesDone(x) BY <1>0, <3>3 DEF CouplesDone, Goto, metrics, Calls
    <3> QED BY <1>4, <3>1, <3>2, <3>3
  <2> QED BY <1>0, <2>1 DEF Timed, F
<1>5. CASE \/ \E c \in ClassNames : TakeClass(x, c)
           \/ \E fn \in FunctionNames : TakeFunction(x, fn)
           \/ ClassesDone(x) \/ FunctionsDone(x) \/ Scan(x)
           \/ Solve(x) \/ Respond(x) \/ Return(x)
  <2>1. /\ lists' = lists /\ timed' = timed
        /\ call[x].step \notin {"search", "couples", "invocations"}
    BY <1>5 DEF TakeClass, TakeFunction, ClassesDone, FunctionsDone, Scan, Solve, Respond,
       Return, metrics
  <2> QED BY <1>0, <2>1 DEF Timed, F
<1> QED BY <1>1, <1>2, <1>3, <1>4, <1>5, Zenon DEF Step

LEMMA CoveredStep ==
    ASSUME Placement, NEW x \in Clients, Known(x), Covered(x), Step(x) PROVE Covered(x)'
<1>0. /\ call \in [Clients -> Calls] /\ call[x] \in Calls /\ call'[x] \in Calls
      /\ lists["classes"] \in Seq(ClassNames)
  BY CallTyped DEF Placement, Typed, TypeOK
<1> USE DEF Listing
<1>1. ASSUME lists' = lists PROVE C' = C /\ lists'["classes"] = lists["classes"]
  BY <1>1 DEF C
<1>2. CASE (\E c \in ClassNames : TakeClass(x, c)) \/ Respond(x) \/ Return(x)
  <2>1. ~ClassesListed(x)' /\ call'[x].step # "couples"
    <3>1. CASE \E c \in ClassNames : TakeClass(x, c)
      BY <1>0, <3>1 DEF TakeClass, Calls, ClassesListed
    <3>2. CASE Respond(x) BY <1>0, <3>2 DEF Respond, Goto, Calls, ClassesListed
    <3>3. CASE Return(x) BY <1>0, <3>3 DEF Return, Idle, ClassesListed
    <3> QED BY <1>2, <3>1, <3>2, <3>3
  <2> QED BY <2>1 DEF Covered
<1>3. CASE \E fn \in FunctionNames : TakeFunction(x, fn)
  <2>1. PICK fn \in FunctionNames : TakeFunction(x, fn) BY <1>3
  <2>2. /\ call[x].step = "functions" /\ lists' = lists /\ rates' = rates
        /\ call'[x].step = "scan" /\ call'[x].key = fn
        /\ call'[x].todo = call[x].todo \ {fn} /\ call'[x].invoked = call[x].invoked
    BY <1>0, <2>1 DEF TakeFunction, metrics, Calls
  <2> QED BY <1>1, <2>2 DEF Covered, ClassesListed
<1>4. CASE ClassesDone(x)
  <2>1. /\ call'[x].step = "functions" /\ call'[x].invoked = call[x].invoked
        /\ call'[x].todo = {fc[1] : fc \in call[x].invoked}
    BY <1>0, <1>4 DEF ClassesDone, Calls
  <2> QED BY <2>1 DEF Covered
<1>5. CASE FunctionsDone(x) \/ Solve(x)
  <2>1. /\ call[x].step \in {"functions", "solve"} /\ lists' = lists /\ rates' = rates
        /\ call'[x].step \in {"solve", "check", "answered"}
        /\ call'[x].invoked = call[x].invoked /\ call'[x].todo = call[x].todo
    BY <1>0, <1>5 DEF FunctionsDone, Solve, Goto, metrics, Calls
  <2> QED BY <1>1, <2>1 DEF Covered, ClassesListed
<1>6. CASE Scan(x)
  <2>1. /\ call[x].step = "scan" /\ lists' = lists /\ rates' = rates
        /\ call'[x].step \in {"pop", "append"} /\ call'[x].invoked = call[x].invoked
        /\ call'[x].ls = call[x].ls /\ call'[x].key = call[x].key
        /\ call'[x].todo = call[x].todo
    <3>1. CASE call[x].key \in Range(lists[call[x].ls])
      BY <1>0, <1>6, <3>1 DEF Scan, Goto, metrics, Calls
    <3>2. CASE call[x].key \notin Range(lists[call[x].ls])
      BY <1>0, <1>6, <3>2 DEF Scan, Goto, metrics, Calls
    <3> QED BY <3>1, <3>2
  <2> QED BY <1>1, <2>1 DEF Covered, ClassesListed
<1>7. CASE Pop(x)
  <2>1. /\ Takes(x, call[x].key)
        /\ \A l \in {"functions", "classes"} : l # call[x].ls => lists'[l] = lists[l]
    BY <1>7, Effects DEF Pop, Takes, Gives
  <2>2. /\ call[x].step = "pop" /\ call'[x].step = "insert" /\ rates' = rates
        /\ call'[x].invoked = call[x].invoked
        /\ call'[x].ls = call[x].ls /\ call'[x].key = call[x].key
        /\ call'[x].todo = call[x].todo
    BY <1>0, <1>7, <2>1 DEF Pop, Takes, Goto, Calls
  <2>3. call[x].ls = "functions" => C' = C BY <2>1 DEF C
  <2> QED BY <2>2, <2>3 DEF Covered, ClassesListed
<1>8. CASE Insert(x) \/ AppendNew(x)
  <2>1. /\ Gives(x, call[x].key)
        /\ \A l \in {"functions", "classes"} : l # call[x].ls => lists'[l] = lists[l]
    BY <1>8, Effects DEF Insert, AppendNew, Takes, Gives
  <2>2. /\ call[x].step \in {"insert", "append"} /\ rates' = rates
        /\ call'[x].step = IF call[x].ls = "functions" THEN "search" ELSE "classes"
        /\ call'[x].invoked = call[x].invoked
        /\ call'[x].key = call[x].key /\ call'[x].todo = call[x].todo
    BY <1>0, <1>8, <2>1 DEF Insert, AppendNew, Listed, Goto, Calls
  <2>3. call[x].ls = "functions" => C' = C BY <2>1 DEF C
  <2> QED BY <2>2, <2>3 DEF Covered, ClassesListed
<1>9. CASE SearchFunction(x)
  <2>1. /\ call[x].step = "search" /\ lists' = lists /\ rates' = rates
        /\ call'[x].step = "couples" /\ call'[x].at = 1
        /\ call'[x].found = Search("functions", call[x].key)
        /\ call'[x].invoked = call[x].invoked
        /\ call'[x].key = call[x].key /\ call'[x].todo = call[x].todo
    BY <1>0, <1>9 DEF SearchFunction, metrics, Calls
  <2>2. Search("functions", call[x].key) = call[x].key
    BY <2>1 DEF Known, F, Search
  <2>3. \A i \in DOMAIN lists["classes"] : ~(i < 1) BY <1>0
  <2> QED BY <1>1, <2>1, <2>2, <2>3 DEF Covered, ClassesListed
<1>10. CASE AddCouple(x)
  <2>1. /\ call[x].step = "couples" /\ lists' = lists
        /\ rates' = rates \cup {<<call[x].found, lists["classes"][call[x].at]>>}
        /\ call'[x].step = "couples" /\ call'[x].at = call[x].at + 1
        /\ call'[x].found = call[x].found
        /\ call'[x].invoked = call[x].invoked
        /\ call'[x].key = call[x].key /\ call'[x].todo = call[x].todo
    BY <1>0, <1>10 DEF AddCouple, metrics, Calls, classes
  <2>2. \A i \in DOMAIN lists["classes"] : i < call[x].at + 1 => i < call[x].at \/ i = call[x].at
    BY <1>0 DEF Calls
  <2> QED BY <1>1, <2>1, <2>2 DEF Covered, ClassesListed
<1>11. CASE CouplesDone(x)
  <2>1. /\ call[x].step = "couples" /\ lists' = lists /\ rates' = rates
        /\ call[x].at > Len(lists["classes"])
        /\ call'[x].step = "invocations"
        /\ call'[x].invoked = call[x].invoked
        /\ call'[x].key = call[x].key /\ call'[x].todo = call[x].todo
    BY <1>0, <1>11 DEF CouplesDone, Goto, metrics, Calls, classes
  <2>2. \A i \in DOMAIN lists["classes"] : i < call[x].at BY <1>0, <2>1 DEF Calls
  <2>3. \A c \in C : <<call[x].key, c>> \in rates BY <2>1, <2>2 DEF Covered, C, Range
  <2> QED BY <1>1, <2>1, <2>3 DEF Covered, ClassesListed
<1>12. CASE UpdateInvocations(x)
  <2>1. /\ call[x].step = "invocations" /\ lists' = lists /\ rates \subseteq rates'
        /\ call'[x].step = "functions"
        /\ call'[x].invoked = call[x].invoked
        /\ call'[x].key = call[x].key /\ call'[x].todo = call[x].todo
    BY <1>0, <1>12 DEF UpdateInvocations, Goto, metrics, Calls
  <2> QED BY <1>1, <2>1 DEF Covered, ClassesListed
<1> QED BY <1>2, <1>3, <1>4, <1>5, <1>6, <1>7, <1>8, <1>9, <1>10, <1>11, <1>12, Zenon DEF Step
Answering ==
    /\ Placement /\ Timed
    /\ \A x \in Clients : Known(x) /\ Covered(x)

LEMMA AnsweringInit == Init => Answering
<1> SUFFICES ASSUME Init PROVE Answering OBVIOUS
<1>1. \A x \in Clients : call[x].step = "idle" BY DEF Init, Idle
<1>2. F = {} BY DEF Init, Empty, F, Range
<1> QED BY <1>1, <1>2, PlacementInit DEF Answering, Timed, Known, Covered, ClassesListed, Listing

LEMMA AnsweringNext ==
    ASSUME Overlap = FALSE, Answering, [Next]_vars PROVE Answering'
<1>0. Placement' BY PlacementNext DEF Answering
<1>1. ASSUME NEW x \in Clients, Step(x) PROVE Answering'
  <2>1. Placement /\ Timed /\ Known(x) /\ Covered(x) BY DEF Answering
  <2>2. Timed' /\ Known(x)' /\ Covered(x)' BY <1>1, <2>1, TimedStep, KnownStep, CoveredStep
  <2>3. ASSUME NEW y \in Clients, y # x PROVE Known(y)' /\ Covered(y)'
    <3>1. call'[y].step = "idle" BY <1>1, <2>1, <2>3, OthersIdle
    <3> QED BY <3>1 DEF Known, Covered, ClassesListed, Listing
  <2> QED BY <1>0, <2>2, <2>3 DEF Answering
<1>2. ASSUME NEW x \in Clients, NEW invoked, NEW fresh, Begin(x, invoked, fresh)
      PROVE  Answering'
  <2>1. call \in [Clients -> Calls] BY DEF Answering, Placement, Typed, TypeOK
  <2>2. /\ \A y \in Clients : call[y].step = "idle"
        /\ \A y \in Clients : y # x => call'[y] = call[y]
        /\ call'[x].step = "classes" /\ call'[x].todo = ClassesOf[x]
        /\ lists' = lists /\ timed' = timed
    BY <1>2, <2>1 DEF Begin, metrics, Idle
  <2>3. Timed' BY <2>2 DEF Answering, Timed, F
  <2>4. \A y \in Clients : Known(y)' /\ Covered(y)'
    BY <2>2 DEF Known, Covered, ClassesListed, Listing
  <2> QED BY <1>0, <2>3, <2>4 DEF Answering
<1>3. CASE Restart
  <2>1. \A y \in Clients : call'[y].step \in {"idle", "Unavailable"} BY <1>3 DEF Restart, Idle
  <2>2. F' = {} BY <1>3 DEF Restart, Empty, F, Range
  <2> QED BY <1>0, <2>1, <2>2 DEF Answering, Timed, Known, Covered, ClassesListed, Listing
<1>4. CASE UNCHANGED vars
  BY <1>0, <1>4 DEF vars, metrics, Answering, Timed, Known, Covered, ClassesListed, F, C
<1> QED BY <1>1, <1>2, <1>3, <1>4 DEF Next

(* When calls do not overlap, the entries that the linear program finds     *)
(* missing are rates of functions that the request does not name.           *)
THEOREM OnlyForeignEntriesMissing ==
    ASSUME Overlap = FALSE PROVE Spec => []OnlyForeignMissing
<1>1. Answering /\ [Next]_vars => Answering' BY AnsweringNext
<1>2. ASSUME Answering PROVE OnlyForeignMissing
  <2> SUFFICES ASSUME NEW x \in Clients, call[x].step = "check"
               PROVE  /\ Range(functions) \subseteq timed
                      /\ \A fc \in FC \ rates : \A inv \in call[x].invoked : inv[1] # fc[1]
    BY DEF OnlyForeignMissing
  <2>1. \A y \in Clients : y # x => call[y].step = "idle"
    BY <1>2 DEF Answering, Placement, Alone
  <2>2. F \subseteq timed BY <1>2, <2>1 DEF Answering, Timed
  <2>3. \A inv \in call[x].invoked, c \in C : <<inv[1], c>> \in rates
    BY <1>2 DEF Answering, Known, Covered, ClassesListed, Listing
  <2>4. ASSUME NEW fc \in FC \ rates, NEW inv \in call[x].invoked, inv[1] = fc[1] PROVE FALSE
    <3>1. PICK fn \in F, c \in C : fc = <<fn, c>> BY DEF FC, F, C, functions, classes
    <3> QED BY <2>3, <2>4, <3>1
  <2> QED BY <2>2, <2>4 DEF F, functions
<1> QED BY <1>1, <1>2, AnsweringInit, PTL DEF Spec

(* When calls do not overlap, an answer covers every couple of its request. *)
THEOREM AnswersCoverRequests ==
    ASSUME Overlap = FALSE PROVE Spec => []AnswerCoversRequest
<1>1. Answering /\ [Next]_vars => Answering' BY AnsweringNext
<1>2. Answering => AnswerCoversRequest BY DEF Answering, Known, AnswerCoversRequest
<1> QED BY <1>1, <1>2, AnsweringInit, PTL DEF Spec
================================================================================
