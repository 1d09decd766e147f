------------------------- MODULE ReplQueriesProofs -------------------------
(***************************************************************************)
(* Type correctness of the REPL's query threads, and what they execute,    *)
(* for any number of queries of any length.                                *)
(*                                                                         *)
(* A query is mixed when it was in plan at the same time as another.  The  *)
(* argument: while a query that is not mixed is in plan, the planner's     *)
(* list is its own, and no other query is there to add to it; once it has  *)
(* left, the planner's list is another's, or nobody is in plan.            *)
(***************************************************************************)
EXTENDS ReplQueries, SequenceTheorems, TLAPS

Steps == [of : Queries, nth : Nat, index : Nat]

\* The planner's list is that of the query in plan, or plans have overlapped.
OwnPlanner(p) == Planning(p) => current = p \/ (p \in mixed /\ current \in mixed)

\* A query that has not got as far as plan has planned nothing.
NotPlanned(q) ==
    at[q] \in {"new", "parse", "reset"} =>
        current # q /\ planned[q] = 0 /\ executed[q] = <<>> /\ lists[q] = <<>>

\* A query that has not been mixed has made its own plan: of the first
\* planned[q] statements, and in the end of all.
OwnPlan(q) ==
    /\ Len(lists[q]) = planned[q] /\ planned[q] <= Length[q]
    /\ \A i \in 1..planned[q] : lists[q][i] = OwnStep(q, i)
    /\ at[q] = "append" => index[q] = planned[q] /\ planned[q] < Length[q]
    /\ at[q] \in {"run", "return"} => plan[q] = q /\ planned[q] = Length[q]

OwnSteps(q) ==
    /\ Len(executed[q]) <= Length[q]
    /\ \A i \in 1..Len(executed[q]) : executed[q][i] = OwnStep(q, i)

IInv == /\ TypeOK
        /\ \A q \in Queries : OwnPlanner(q) /\ NotPlanned(q)
        /\ \A q \in Queries \ mixed : OwnPlan(q) /\ OwnSteps(q)

USE QueriesAssumption

\* No outcome, and that of a query which has executed nothing.
LEMMA OutcomeType ==
    /\ Nothing \in Outcomes
    /\ \A q \in Queries : [of |-> q, steps |-> <<>>] \in Outcomes
BY EmptySeq DEF Nothing, Outcomes

\* Initially nothing runs and nothing is planned.
LEMMA InitInv == Init => IInv
<1> SUFFICES ASSUME Init PROVE IInv
  OBVIOUS
<1>1. TypeOK
  <2>1. Nothing \in Outcomes /\ <<>> \in Seq([of : Queries, nth : Nat, index : Nat])
    BY OutcomeType, EmptySeq
  <2> QED
    BY <2>1 DEF Init, TypeOK, Places
<1>2. \A q \in Queries : OwnPlanner(q) /\ NotPlanned(q)
  BY DEF Init, OwnPlanner, Planning, NotPlanned
<1>3. \A q \in Queries \ mixed : OwnPlan(q) /\ OwnSteps(q)
  <2> SUFFICES ASSUME NEW q \in Queries PROVE OwnPlan(q) /\ OwnSteps(q)
    OBVIOUS
  <2>1. /\ lists[q] = <<>> /\ executed[q] = <<>> /\ planned[q] = 0 /\ at[q] = "new"
        /\ Len(<<>>) = 0 /\ 0 <= Length[q]
    BY EmptySeq DEF Init
  <2> QED
    BY <2>1 DEF OwnPlan, OwnSteps
<1> QED
  BY <1>1, <1>2, <1>3 DEF IInv

-----------------------------------------------------------------------------
(***************************************************************************)
(* Steps that plan and execute nothing: a thread may move between places   *)
(* of the same kind.                                                       *)
(***************************************************************************)
LEMMA QuietStep ==
    ASSUME IInv, TypeOK', UNCHANGED <<planVars, executed>>,
           \A q \in Queries : \/ at'[q] = at[q]
                              \/ at'[q] \in {"parse", "reset"} /\ at[q] \in {"new", "parse"}
                              \/ at'[q] \in {"return", "dead"} /\ (at'[q] = "return" => at[q] = "run")
    PROVE  IInv'
<1>1. ASSUME NEW q \in Queries PROVE OwnPlanner(q)' /\ NotPlanned(q)'
  BY <1>1 DEF IInv, OwnPlanner, Planning, NotPlanned, planVars
<1>2. ASSUME NEW q \in Queries \ mixed PROVE OwnPlan(q)' /\ OwnSteps(q)'
  BY <1>2 DEF IInv, OwnPlan, OwnSteps, OwnStep, planVars
<1> QED
  BY <1>1, <1>2 DEF IInv, planVars

\* The main thread.
LEMMA MainInv ==
    ASSUME IInv, Main \/ CtrlC \/ \E q \in Queries : Run(q)
    PROVE  IInv'
<1> USE DEF IInv, TypeOK, runnerVars, planVars
<1>1. ASSUME NEW q \in Queries, Run(q) PROVE IInv'
  <2>1. TypeOK'
    BY <1>1, EmptySeq DEF Run, Start, Nothing, Outcomes, Places
  <2> QED
    BY <1>1, <2>1, QuietStep DEF Run, Start
<1>2. CASE CheckAlive
  BY <1>2, QuietStep DEF CheckAlive
<1>3. CASE Join
  <2>1. running \in Queries /\ Len(executed[running]) \in Nat
    BY <1>3, LenProperties DEF Join, Poll
  <2>2. TypeOK'
    <3>1. CASE cancel
      <4>1. /\ main' = "prompt" /\ shown' = [for |-> running, outcome |-> Nothing]
            /\ UNCHANGED <<planVars, at, executed, running, cancel, result, error, alone>>
        BY <1>3, <3>1 DEF Join, Poll, Show
      <4>2. shown' \in [for : Queries \union {NoQuery}, outcome : Outcomes]
        BY <2>1, <4>1, OutcomeType
      <4> QED
        BY <4>1, <4>2
    <3>2. CASE ~cancel
      BY <1>3, <3>2 DEF Join, Poll
    <3> QED
      BY <3>1, <3>2
  <2> QED
    BY <1>3, <2>2, QuietStep DEF Join, Poll
<1>4. CASE ReadError
  <2>1. TypeOK'
    <3>1. CASE error # Nothing
      <4>1. shown' = [for |-> running, outcome |-> error] /\ running \in Queries
        BY <1>4, <3>1 DEF ReadError, Show
      <4>2. shown' \in [for : Queries \union {NoQuery}, outcome : Outcomes]
        BY <4>1
      <4> QED
        BY <1>4, <3>1, <4>2 DEF ReadError
    <3>2. CASE error = Nothing
      BY <1>4, <3>2 DEF ReadError
    <3> QED
      BY <3>1, <3>2
  <2> QED
    BY <1>4, <2>1, QuietStep DEF ReadError
<1>5. CASE ReadResult
  <2>1. TypeOK'
    <3>1. shown' = [for |-> running, outcome |-> result] /\ running \in Queries
      BY <1>5 DEF ReadResult, Show
    <3>2. shown' \in [for : Queries \union {NoQuery}, outcome : Outcomes]
      BY <3>1
    <3> QED
      BY <1>5, <3>2 DEF ReadResult
  <2> QED
    BY <1>5, <2>1, QuietStep DEF ReadResult
<1>6. CASE CtrlC
  BY <1>6, QuietStep DEF CtrlC
<1> QED
  BY <1>1, <1>2, <1>3, <1>4, <1>5, <1>6 DEF Main

\* The query threads.
LEMMA ThreadInv ==
    ASSUME IInv, NEW q \in Queries, Thread(q)
    PROVE  IInv'
<1> USE DEF Goto, runnerVars, planVars
<1>0. /\ at \in [Queries -> Places] /\ planned \in [Queries -> Nat] /\ index \in [Queries -> Nat]
      /\ lists \in [Queries \union {NoQuery} -> Seq(Steps)] /\ executed \in [Queries -> Seq(Steps)]
      /\ plan \in [Queries -> Queries \union {NoQuery}] /\ current \in Queries \union {NoQuery}
      /\ mixed \subseteq Queries
  BY DEF IInv, TypeOK, Steps
<1>1. CASE Parse(q)
  <2>1. TypeOK'
    <3>1. at' \in [Queries -> Places] /\ result' \in Outcomes /\ error' \in Outcomes
      <4>1. at' \in [Queries -> Places]
        BY <1>0, <1>1 DEF Parse, Places
      <4>2. result' \in Outcomes /\ error' \in Outcomes
        BY <1>1, OutcomeType DEF Parse, IInv, TypeOK
      <4> QED
        BY <4>1, <4>2
    <3> QED
      BY <1>1, <3>1 DEF Parse, IInv, TypeOK
  <2> QED
    BY <1>0, <1>1, <2>1, QuietStep DEF Parse
<1>2. CASE Reset(q)
  <2>1. TypeOK'
    BY <1>2, EmptySeq DEF Reset, IInv, TypeOK, Places
  <2>2. /\ \A p \in Queries : at'[p] = IF p = q THEN "index" ELSE at[p]
        /\ \A p \in Queries : lists'[p] = IF p = q THEN <<>> ELSE lists[p]
        /\ current' = q /\ at[q] = "reset" /\ UNCHANGED <<index, planned, plan, executed>>
    BY <1>0, <1>2 DEF Reset
  <2>3. /\ mixed \subseteq mixed'
        /\ \A p \in Queries : Planning(p) => p \in mixed' /\ q \in mixed'
    BY <1>2 DEF Reset
  <2>4. ASSUME NEW p \in Queries PROVE OwnPlanner(p)' /\ NotPlanned(p)'
    BY <2>2, <2>3, <2>4 DEF IInv, OwnPlanner, Planning, NotPlanned
  <2>5. ASSUME NEW p \in Queries \ mixed' PROVE OwnPlan(p)' /\ OwnSteps(p)'
    <3>1. p \notin mixed /\ OwnPlan(p) /\ OwnSteps(p) /\ NotPlanned(q)
      BY <2>3, <2>5 DEF IInv
    <3> QED
      BY <2>2, <3>1 DEF OwnPlan, OwnSteps, OwnStep, NotPlanned
  <2> QED
    BY <2>1, <2>4, <2>5 DEF IInv
<1>3. CASE Index(q)
  <2>1. TypeOK'
    <3>1. NextIndex(lists[current]) \in Nat
      BY <1>0, LenProperties DEF NextIndex
    <3>2. /\ at' \in [Queries -> Places] /\ index' \in [Queries -> Nat]
          /\ plan' \in [Queries -> Queries \union {NoQuery}]
      <4>1. CASE planned[q] < Length[q]
        <5>1. /\ at' = [at EXCEPT ![q] = "append"] /\ plan' = plan
              /\ index' = [index EXCEPT ![q] = NextIndex(lists[current])]
          BY <1>3, <4>1 DEF Index
        <5> QED
          BY <1>0, <3>1, <5>1 DEF Places
      <4>2. CASE ~(planned[q] < Length[q])
        <5>1. /\ at' = [at EXCEPT ![q] = "run"] /\ plan' = [plan EXCEPT ![q] = current]
              /\ index' = index
          BY <1>3, <4>2 DEF Index
        <5> QED
          BY <1>0, <5>1 DEF Places
      <4> QED
        BY <4>1, <4>2
    <3> QED
      BY <1>3, <3>2 DEF Index, IInv, TypeOK
  <2>2. /\ at[q] = "index" /\ at'[q] \in {"append", "run"}
        /\ \A p \in Queries \ {q} : at'[p] = at[p] /\ plan'[p] = plan[p] /\ index'[p] = index[p]
        /\ at'[q] = "append" => planned[q] < Length[q] /\ index'[q] = Len(lists[current])
        /\ at'[q] = "run" => ~(planned[q] < Length[q]) /\ plan'[q] = current
        /\ UNCHANGED <<lists, current, planned, mixed, executed>>
    BY <1>0, <1>3 DEF Index, NextIndex
  <2>3. ASSUME NEW p \in Queries PROVE OwnPlanner(p)' /\ NotPlanned(p)'
    BY <2>2, <2>3 DEF IInv, OwnPlanner, Planning, NotPlanned
  <2>4. ASSUME NEW p \in Queries \ mixed PROVE OwnPlan(p)' /\ OwnSteps(p)'
    <3>1. OwnPlan(p) /\ OwnSteps(p) /\ OwnPlanner(p)
      BY <2>4 DEF IInv
    <3> QED
      BY <1>0, <2>2, <2>4, <3>1 DEF OwnPlan, OwnSteps, OwnStep, OwnPlanner, Planning
  <2> QED
    BY <2>1, <2>2, <2>3, <2>4 DEF IInv
<1>4. CASE AppendStep(q)
  <2> DEFINE s == [of |-> q, nth |-> planned[q] + 1, index |-> index[q]]
  <2>1. /\ Append(lists[current], s) \in Seq(Steps)
        /\ Len(Append(lists[current], s)) = Len(lists[current]) + 1
        /\ \A i \in 1..Len(lists[current]) : Append(lists[current], s)[i] = lists[current][i]
        /\ Append(lists[current], s)[Len(lists[current]) + 1] = s
    <3>1. planned[q] + 1 \in Nat /\ index[q] \in Nat
      BY <1>0
    <3>2. s \in Steps
      BY <3>1 DEF Steps
    <3>3. lists[current] \in Seq(Steps)
      BY <1>0
    <3> QED
      BY <3>2, <3>3, AppendProperties
  <2>2. TypeOK'
    BY <1>0, <1>4, <2>1 DEF AppendStep, IInv, TypeOK, Places, Steps
  <2>3. /\ at[q] = "append" /\ at'[q] = "index" /\ planned'[q] = planned[q] + 1
        /\ \A p \in Queries \ {q} : at'[p] = at[p] /\ planned'[p] = planned[p]
        /\ lists'[current] = Append(lists[current], s)
        /\ \A p \in Queries \ {current} : lists'[p] = lists[p]
        /\ UNCHANGED <<current, index, plan, mixed, executed>>
    BY <1>0, <1>4 DEF AppendStep
  <2>4. ASSUME NEW p \in Queries PROVE OwnPlanner(p)' /\ NotPlanned(p)'
    BY <2>3, <2>4 DEF IInv, OwnPlanner, Planning, NotPlanned
  <2>5. ASSUME NEW p \in Queries \ mixed PROVE OwnPlan(p)' /\ OwnSteps(p)'
    <3>1. OwnPlan(p) /\ OwnSteps(p) /\ OwnPlanner(p) /\ OwnPlanner(q)
      BY <2>5 DEF IInv
    <3>2. OwnSteps(p)'
      BY <2>3, <3>1 DEF OwnSteps, OwnStep
    <3>3. CASE p = q
      <4>1. current = q
        BY <2>3, <2>5, <3>1, <3>3 DEF OwnPlanner, Planning
      <4>2. /\ lists'[q] = Append(lists[q], s) /\ Len(lists[q]) = planned[q] /\ planned[q] \in Nat
            /\ Len(lists'[q]) = planned'[q] /\ planned'[q] = planned[q] + 1
            /\ index[q] = planned[q] /\ planned[q] < Length[q] /\ Length[q] \in Nat
        BY <1>0, <2>1, <2>3, <3>1, <3>3, <4>1 DEF OwnPlan
      <4>3. s = OwnStep(q, planned[q] + 1)
        BY <4>2 DEF OwnStep
      <4>4. ASSUME NEW i \in 1..planned'[q] PROVE lists'[q][i] = OwnStep(q, i)
        <5>1. CASE i = planned[q] + 1
          BY <2>1, <4>1, <4>2, <4>3, <5>1
        <5>2. CASE i \in 1..planned[q]
          BY <2>1, <3>1, <3>3, <4>1, <4>2, <5>2 DEF OwnPlan
        <5> QED
          BY <4>2, <5>1, <5>2
      <4> QED
        BY <2>3, <3>2, <3>3, <4>2, <4>4 DEF OwnPlan, OwnStep
    <3>4. CASE p # q
      <4>1. current # p
        BY <2>3, <2>5, <3>1, <3>4 DEF OwnPlanner, Planning
      <4> QED
        BY <2>3, <3>1, <3>2, <3>4, <4>1 DEF OwnPlan, OwnStep
    <3> QED
      BY <3>3, <3>4
  <2> QED
    BY <2>2, <2>3, <2>4, <2>5 DEF IInv
<1>5. CASE Execute(q)
  <2> DEFINE e == executed[q]
             s == lists[plan[q]][Len(e) + 1]
  <2>1. s \in Steps /\ Len(e) \in Nat /\ e \in Seq(Steps)
    <3>1. e \in Seq(Steps) /\ lists[plan[q]] \in Seq(Steps)
      BY <1>0
    <3> QED
      BY <1>5, <3>1, ElementOfSeq, LenProperties DEF Execute
  <2>2. /\ Append(e, s) \in Seq(Steps) /\ Len(Append(e, s)) = Len(e) + 1
        /\ \A i \in 1..Len(e) : Append(e, s)[i] = e[i]
        /\ Append(e, s)[Len(e) + 1] = s
    BY <2>1, AppendProperties
  <2>3. /\ executed'[q] = Append(e, s) /\ at[q] = "run"
        /\ \A p \in Queries \ {q} : executed'[p] = executed[p]
        /\ UNCHANGED <<at, lists, current, index, planned, plan, mixed>>
    BY <1>0, <1>5 DEF Execute
  <2>4. TypeOK'
    BY <1>0, <1>5, <2>2 DEF Execute, IInv, TypeOK, Steps
  <2>5. ASSUME NEW p \in Queries PROVE OwnPlanner(p)' /\ NotPlanned(p)'
    BY <2>3, <2>5 DEF IInv, OwnPlanner, Planning, NotPlanned
  <2>6. ASSUME NEW p \in Queries \ mixed PROVE OwnPlan(p)' /\ OwnSteps(p)'
    <3>1. OwnPlan(p) /\ OwnSteps(p)
      BY <2>6 DEF IInv
    <3>2. OwnPlan(p)'
      BY <2>3, <3>1 DEF OwnPlan, OwnStep
    <3>3. CASE p = q
      <4>1. Len(e) < planned[q] /\ planned[q] = Length[q] /\ s = OwnStep(q, Len(e) + 1)
        BY <1>0, <1>5, <2>1, <2>3, <3>1, <3>3 DEF Execute, OwnPlan
      <4> QED
        <5>1. /\ Len(executed'[q]) = Len(e) + 1 /\ Len(executed'[q]) <= Length[q]
              /\ \A i \in 1..Len(e) : executed'[q][i] = OwnStep(q, i)
              /\ executed'[q][Len(e) + 1] = OwnStep(q, Len(e) + 1)
          BY <1>0, <2>1, <2>2, <2>3, <3>1, <3>3, <4>1 DEF OwnSteps
        <5>2. \A i \in 1..(Len(e) + 1) : i \in 1..Len(e) \/ i = Len(e) + 1
          BY <2>1
        <5> QED
          BY <3>2, <3>3, <5>1, <5>2 DEF OwnSteps, OwnStep
    <3>4. CASE p # q
      BY <2>3, <3>1, <3>2, <3>4 DEF OwnSteps, OwnStep
    <3> QED
      BY <3>3, <3>4
  <2> QED
    BY <2>3, <2>4, <2>5, <2>6 DEF IInv
<1>6. CASE Exhaust(q)
  <2>1. TypeOK'
    BY <1>6 DEF Exhaust, IInv, TypeOK, Places
  <2> QED
    BY <1>0, <1>6, <2>1, QuietStep DEF Exhaust
<1>7. CASE Return(q)
  <2>1. TypeOK'
    BY <1>7 DEF Return, IInv, TypeOK, Places, Outcomes
  <2> QED
    BY <1>0, <1>7, <2>1, QuietStep DEF Return
<1> QED
  BY <1>1, <1>2, <1>3, <1>4, <1>5, <1>6, <1>7 DEF Thread

-----------------------------------------------------------------------------
\* The invariant holds in every reachable state.
LEMMA Invariance == Spec => []IInv
<1>1. IInv /\ [Next]_vars => IInv'
  <2>1. ASSUME IInv, UNCHANGED vars PROVE IInv'
    <3>1. TypeOK'
      BY <2>1 DEF vars, runnerVars, planVars, IInv, TypeOK
    <3> QED
      BY <2>1, <3>1, QuietStep DEF vars
  <2> QED
    BY <2>1, MainInv, ThreadInv DEF Next
<1> QED
  BY InitInv, <1>1, PTL DEF Spec

\* The runner's, the planner's and the threads' state is well formed; Ctrl+C
\* during a query always finds the thread it is for.
THEOREM TypeCorrect == Spec => []TypeOK
BY Invariance, PTL DEF IInv

\* A query whose planning overlapped no other's executes its own statements,
\* each once and in order, however many abandoned queries share the planner.
THEOREM OwnScriptExecuted == Spec => []ExecutesOwnScript
<1>1. IInv => ExecutesOwnScript
  BY DEF IInv, OwnSteps, ExecutesOwnScript
<1> QED
  BY Invariance, <1>1, PTL
-----------------------------------------------------------------------------
(***************************************************************************)
(* What the user is shown.  A query started with no thread alive is the    *)
(* only one to move until its run ends, so its planning overlaps none, and *)
(* only its thread writes the runner's result and error, once, at its end. *)
(***************************************************************************)

\* The outcome of a query that has ended: of all its steps, or of none.
OutcomeOf(o, q) ==
    /\ o.of = q /\ o.steps = executed[q] /\ at[q] = "dead"
    /\ executed[q] # <<>> => Len(executed[q]) = Length[q]

\* The query waited for, if it is the only one.
OnlyRunning ==
    main # "prompt" /\ alone =>
        /\ running \notin mixed
        /\ \A p \in Queries \ {running} : ~Alive(p)
        /\ result # Nothing => OutcomeOf(result, running)
        /\ error # Nothing => OutcomeOf(error, running)

ShownIsOutcome ==
    main = "prompt" /\ alone /\ shown.outcome # Nothing =>
        shown.for \in Queries /\ OutcomeOf(shown.outcome, shown.for)

\* A query that has not reached plan overlaps none there; one that has ended its
\* plan without overlapping another has executed all of it.
Progress(q) ==
    /\ at[q] \in {"new", "parse", "reset"} => q \notin mixed
    /\ at[q] = "return" /\ q \notin mixed => Len(executed[q]) = Length[q]

OutcomeInv ==
    /\ IInv
    /\ OnlyRunning
    /\ ShownIsOutcome
    /\ \A q \in Queries : Progress(q)

\* Initially nothing is shown.
LEMMA OutcomeInitInv == Init => OutcomeInv
BY InitInv DEF Init, OutcomeInv, OnlyRunning, ShownIsOutcome, Progress, Nothing

\* The main thread starts a query.
LEMMA RunOutcome ==
    ASSUME OutcomeInv, NEW q \in Queries, Run(q)
    PROVE  OutcomeInv'
<1>1. IInv'
  BY MainInv DEF OutcomeInv
<1>2. /\ at \in [Queries -> Places] /\ at[q] = "new" /\ at' = [at EXCEPT ![q] = "parse"]
      /\ main' = "check" /\ running' = q /\ result' = Nothing /\ error' = Nothing
      /\ alone' = \A p \in Queries : ~Alive(p)
      /\ UNCHANGED <<mixed, executed, shown>>
  BY DEF Run, Start, planVars, OutcomeInv, IInv, TypeOK
<1>3. ASSUME NEW p \in Queries PROVE Progress(p)'
  BY <1>2 DEF OutcomeInv, Progress
<1>4. OnlyRunning'
  BY <1>2 DEF OutcomeInv, OnlyRunning, Progress, Alive
<1> QED
  BY <1>1, <1>2, <1>3, <1>4 DEF OutcomeInv, ShownIsOutcome

\* The main thread waits, and shows what it finds.
LEMMA MainOutcome ==
    ASSUME OutcomeInv, Main \/ CtrlC
    PROVE  OutcomeInv'
<1>1. IInv'
  BY MainInv DEF OutcomeInv
<1>2. /\ UNCHANGED <<at, executed, mixed, running, result, error, alone>>
      /\ main # "prompt" /\ running \in Queries
  BY DEF Main, CheckAlive, Join, Poll, ReadError, ReadResult, CtrlC, planVars, OutcomeInv, IInv,
         TypeOK
<1>3. \A q \in Queries : Progress(q)'
  BY <1>2 DEF OutcomeInv, Progress
<1>4. OnlyRunning'
  BY <1>2 DEF OutcomeInv, OnlyRunning, OutcomeOf, Alive
<1>5. main' = "prompt" =>
          \E o \in {Nothing, result, error} : shown' = [for |-> running, outcome |-> o]
  BY <1>2 DEF Main, CheckAlive, Join, Poll, ReadError, ReadResult, CtrlC, Show
<1>6. ShownIsOutcome'
  <2> SUFFICES ASSUME main' = "prompt", alone, shown'.outcome # Nothing
               PROVE  shown'.for \in Queries /\ OutcomeOf(shown.outcome, shown.for)'
    BY <1>2 DEF ShownIsOutcome
  <2>1. PICK o \in {Nothing, result, error} : shown' = [for |-> running, outcome |-> o]
    BY <1>5
  <2>2. shown'.for = running /\ shown'.outcome = o
    BY <2>1
  <2>3. OutcomeOf(o, running)
    BY <1>2, <2>2 DEF OutcomeInv, OnlyRunning
  <2> QED
    BY <1>2, <2>2, <2>3 DEF OutcomeOf
<1> QED
  BY <1>1, <1>3, <1>4, <1>6 DEF OutcomeInv

\* A thread plans and executes: it writes no outcome before its end.
LEMMA WorkOutcome ==
    ASSUME OutcomeInv, NEW q \in Queries,
           Reset(q) \/ Index(q) \/ AppendStep(q) \/ Execute(q) \/ Exhaust(q)
    PROVE  OutcomeInv'
<1>1. IInv'
  BY ThreadInv DEF OutcomeInv, Thread
<1>2. /\ UNCHANGED runnerVars
      /\ at \in [Queries -> Places]
      /\ at[q] \in {"reset", "index", "append", "run"} /\ at'[q] \notin {"new", "parse", "reset", "dead"}
      /\ \A p \in Queries \ {q} : at'[p] = at[p] /\ executed'[p] = executed[p]
  BY DEF Reset, Index, AppendStep, Execute, Exhaust, planVars, Goto, OutcomeInv, IInv, TypeOK
<1>3. /\ mixed \subseteq mixed'
      /\ \A p \in mixed' : p \in mixed \/ p = q \/ Planning(p)
      /\ \A p \in mixed' : p \in mixed \/ \E r \in Queries : r # q /\ Alive(r)
  <2>1. CASE Reset(q)
    <3>1. at[q] = "reset"
          /\ mixed' = LET others == {p \in Queries : Planning(p)}
                      IN  IF others = {} THEN mixed ELSE mixed \union others \union {q}
      BY <2>1 DEF Reset
    <3> QED
      BY <3>1 DEF Planning, Alive
  <2>2. CASE ~Reset(q)
    BY <2>2 DEF Index, AppendStep, Execute, Exhaust, planVars
  <2> QED
    BY <2>1, <2>2
<1>4. ASSUME NEW p \in Queries PROVE Progress(p)'
  <2>1. CASE p # q
    BY <1>2, <1>3, <2>1 DEF OutcomeInv, Progress, Planning
  <2>2. CASE p = q /\ Exhaust(q)
    <3>1. /\ Len(executed[q]) = Len(lists[plan[q]]) /\ at[q] = "run"
          /\ UNCHANGED <<executed, mixed>>
      BY <2>2 DEF Exhaust, planVars
    <3>2. q \notin mixed => plan[q] = q /\ Len(lists[q]) = Length[q]
      BY <3>1 DEF OutcomeInv, IInv, OwnPlan
    <3> QED
      BY <1>2, <2>2, <3>1, <3>2 DEF Progress
  <2>3. CASE p = q /\ ~Exhaust(q)
    <3>1. at'[q] # "return"
      BY <2>3 DEF Reset, Index, AppendStep, Execute, Goto, OutcomeInv, IInv, TypeOK
    <3> QED
      BY <1>2, <2>3, <3>1 DEF Progress
  <2> QED
    BY <2>1, <2>2, <2>3
<1>5. ASSUME NEW p \in Queries, NEW o, OutcomeOf(o, p)
      PROVE  o.of = p /\ o.steps = executed'[p] /\ at'[p] = "dead"
             /\ (executed'[p] # <<>> => Len(executed'[p]) = Length[p])
  BY <1>2, <1>5 DEF OutcomeOf
<1>6. OnlyRunning'
  <2> SUFFICES ASSUME main # "prompt", alone PROVE OnlyRunning'
    BY <1>2 DEF OnlyRunning, runnerVars
  <2>1. q = running /\ running \in Queries
    BY <1>2 DEF OutcomeInv, OnlyRunning, Alive, IInv, TypeOK
  <2>2. running \notin mixed'
    BY <1>3, <2>1 DEF OutcomeInv, OnlyRunning
  <2>3. \A p \in Queries \ {running} : ~Alive(p)'
    BY <1>2, <2>1 DEF OutcomeInv, OnlyRunning, Alive
  <2>4. result = Nothing /\ error = Nothing
    BY <1>2, <2>1 DEF OutcomeInv, OnlyRunning, OutcomeOf
  <2> QED
    BY <1>2, <2>2, <2>3, <2>4 DEF OnlyRunning, runnerVars
<1>7. ShownIsOutcome'
  BY <1>2, <1>5 DEF OutcomeInv, ShownIsOutcome, OutcomeOf, runnerVars
<1> QED
  BY <1>1, <1>4, <1>6, <1>7 DEF OutcomeInv

\* A thread ends and writes its outcome.
LEMMA EndOutcome ==
    ASSUME OutcomeInv, NEW q \in Queries, Parse(q) \/ Return(q)
    PROVE  OutcomeInv'
<1>1. IInv'
  BY ThreadInv DEF OutcomeInv, Thread
<1>2. /\ UNCHANGED <<mixed, executed, main, running, shown, alone>>
      /\ at \in [Queries -> Places] /\ at[q] \in {"parse", "return"}
      /\ at'[q] \in {"reset", "dead"} /\ (at'[q] = "reset" => at[q] = "parse")
      /\ \A p \in Queries \ {q} : at'[p] = at[p]
  BY DEF Parse, Return, planVars, Goto, OutcomeInv, IInv, TypeOK
<1>3. \A p \in Queries : Progress(p)'
  BY <1>2 DEF OutcomeInv, Progress
<1>4. ShownIsOutcome'
  BY <1>2 DEF OutcomeInv, ShownIsOutcome, OutcomeOf
<1>5. at'[q] = "reset" => UNCHANGED <<result, error>>
  BY <1>2 DEF Parse, Return, Goto
<1>6. \A o \in {result', error'} :
          o \in {result, error} \/ o = [of |-> q, steps |-> executed[q]]
  <2>1. CASE Parse(q)
    <3>1. executed[q] = <<>>
      BY <2>1 DEF Parse, OutcomeInv, IInv, NotPlanned
    <3> QED
      BY <2>1, <3>1 DEF Parse
  <2>2. CASE Return(q)
    BY <2>2 DEF Return
  <2> QED
    BY <2>1, <2>2
<1>7. at[q] = "parse" => executed[q] = <<>>
  BY DEF OutcomeInv, IInv, NotPlanned
<1>8. OnlyRunning'
  <2> SUFFICES ASSUME main # "prompt", alone PROVE OnlyRunning'
    BY <1>2 DEF OnlyRunning
  <2>1. q = running /\ running \notin mixed
    BY <1>2 DEF OutcomeInv, OnlyRunning, Alive
  <2>2. \A p \in Queries \ {running} : ~Alive(p)'
    BY <1>2, <2>1 DEF OutcomeInv, OnlyRunning, Alive
  <2>3. result = Nothing /\ error = Nothing
    BY <1>2, <2>1 DEF OutcomeInv, OnlyRunning, OutcomeOf
  <2>4. executed[q] # <<>> => Len(executed[q]) = Length[q]
    BY <1>2, <1>7, <2>1 DEF OutcomeInv, Progress
  <2>5. ASSUME NEW o \in {result', error'}, o # Nothing
        PROVE  o.of = q /\ o.steps = executed[q] /\ at'[q] = "dead"
    BY <1>2, <1>5, <1>6, <2>3, <2>5
  <2> QED
    BY <1>2, <2>1, <2>2, <2>4, <2>5 DEF OnlyRunning, OutcomeOf
<1> QED
  BY <1>1, <1>3, <1>4, <1>8 DEF OutcomeInv

\* The invariant holds in every reachable state.
LEMMA OutcomeInvariance == Spec => []OutcomeInv
<1>1. ASSUME OutcomeInv, UNCHANGED vars PROVE OutcomeInv'
  <2>1. TypeOK'
    BY <1>1 DEF vars, runnerVars, planVars, OutcomeInv, IInv, TypeOK
  <2>2. IInv'
    BY <1>1, <2>1, QuietStep DEF vars, OutcomeInv
  <2> QED
    BY <1>1, <2>2 DEF vars, runnerVars, planVars, OutcomeInv, OnlyRunning, ShownIsOutcome,
                      OutcomeOf, Progress, Alive
<1>2. OutcomeInv /\ [Next]_vars => OutcomeInv'
  BY <1>1, RunOutcome, MainOutcome, WorkOutcome, EndOutcome DEF Next, Thread
<1> QED
  BY OutcomeInitInv, <1>2, PTL DEF Spec

\* The user is never shown the result or the error of another query than the
\* one asked, nor part of its result, if no abandoned query was left then.
THEOREM OwnOutcomeShown == Spec => []ShowsOwnOutcome
<1>1. OutcomeInv => ShowsOwnOutcome
  BY DEF OutcomeInv, ShownIsOutcome, OutcomeOf, ShowsOwnOutcome
<1> QED
  BY OutcomeInvariance, <1>1, PTL
=============================================================================
