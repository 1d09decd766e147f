---------------------------- MODULE ReplQueries ----------------------------
(***************************************************************************)
(* QueryRunner of the REPL with Engine.run_script: the main thread starts  *)
(* each query in a daemon thread, polls it every 0.1 s, and on Ctrl+C      *)
(* stops waiting.  Nothing stops the thread, so an abandoned query goes on *)
(* beside the next ones.  The threads share the runner's _result and       *)
(* _error and the engine's one QueryPlanner; Executors are their own.      *)
(*                                                                         *)
(* QueryPlanner._steps refers to a list.  plan makes a new one each time,  *)
(* so a list is named by the query whose plan made it; the plan a query    *)
(* executes is a list another thread's plan may still be appending to.     *)
(* The steps of a statement's nested blocks are left to ScriptExecution:   *)
(* a statement is one step here.                                           *)
(***************************************************************************)
EXTENDS Integers, Sequences

CONSTANTS
    Queries,    \* the scripts typed, each with the thread that runs it
    Length,     \* Length[q]: the number of statements of q's script
    NoQuery

ASSUME QueriesAssumption ==
    /\ Length \in [Queries -> Nat]
    /\ NoQuery \notin Queries

VARIABLES
    main,       \* where the main thread is: at the prompt or in QueryRunner.run
    running,    \* QueryRunner._thread: the query run last
    cancel,     \* _CANCEL_EVENT
    result,     \* QueryRunner._result
    error,      \* QueryRunner._error
    at,         \* where each thread is in run_script
    lists,      \* the lists plan has made
    current,    \* which of them QueryPlanner._steps is
    index,      \* _add_step's local: the index of the step being added
    planned,    \* how many statements of its script each thread has planned
    plan,       \* the list of the ExecutionPlan each thread has
    executed,   \* the steps each thread has executed, which are its results
    shown,      \* history: what the user was shown for the last query
    mixed,      \* history: queries planned while another query's plan was
    alone       \* history: the last query was started with no thread alive

runnerVars == <<main, running, cancel, result, error, shown, alone>>
planVars == <<lists, current, index, planned, plan, mixed>>
vars == <<runnerVars, planVars, at, executed>>

Places == {"new", "parse", "reset", "index", "append", "run", "return", "dead"}
Alive(q) == at[q] \notin {"new", "dead"}
Planning(q) == at[q] \in {"index", "append"}

\* What run_script returns, or the exception it raises, for query of.
Nothing == [of |-> NoQuery, steps |-> <<>>]
Outcomes == [of : Queries \union {NoQuery},
             steps : Seq([of : Queries, nth : Nat, index : Nat])]

-----------------------------------------------------------------------------
\* The main thread

Start(q) ==
    /\ main = "prompt" /\ at[q] = "new"
    /\ main' = "check" /\ running' = q /\ cancel' = FALSE
    /\ result' = Nothing
    /\ alone' = \A p \in Queries : ~Alive(p)
    /\ at' = [at EXCEPT ![q] = "parse"]
    /\ UNCHANGED <<planVars, executed, shown>>

\* Seeded fault: the error of the query before stays.
RunKeepsError(q) == Start(q) /\ UNCHANGED error

\* run up to the loop: clear the event and both outcomes, start the thread.
Run(q) == Start(q) /\ error' = Nothing

\* while self._thread.is_alive()
CheckAlive ==
    /\ main = "check"
    /\ main' = IF Alive(running) THEN "join" ELSE "error"
    /\ UNCHANGED <<planVars, at, executed, running, cancel, result, error, shown, alone>>

Show(outcome) == shown' = [for |-> running, outcome |-> outcome]

\* If the event is set, run raises KeyboardInterrupt: "Query cancelled."
Poll ==
    /\ main = "join"
    /\ IF cancel
       THEN /\ main' = "prompt"
            /\ Show(Nothing)
       ELSE main' = "check" /\ UNCHANGED shown
    /\ UNCHANGED <<planVars, at, executed, running, cancel, result, error, alone>>

\* Seeded fault: join without a timeout.
JoinUntilDead == Poll /\ ~Alive(running)

\* join(timeout=0.1) returns whether the thread has ended or not.
Join == Poll

\* if self._error: raise
ReadError ==
    /\ main = "error"
    /\ IF error # Nothing
       THEN main' = "prompt" /\ Show(error)
       ELSE main' = "result" /\ UNCHANGED shown
    /\ UNCHANGED <<planVars, at, executed, running, cancel, result, error, alone>>

\* return self._result, which _execute_and_print prints
ReadResult ==
    /\ main = "result"
    /\ main' = "prompt" /\ Show(result)
    /\ UNCHANGED <<planVars, at, executed, running, cancel, result, error, alone>>

\* _sigint_handler; at the prompt Ctrl+C belongs to the line being typed.
CtrlC ==
    /\ main # "prompt"
    /\ cancel' = TRUE
    /\ UNCHANGED <<planVars, at, executed, main, running, result, error, shown, alone>>

-----------------------------------------------------------------------------
\* The query threads: _execute and run_script

Goto(q, place) == at' = [at EXCEPT ![q] = place]

\* Parsing, transforming and type checking succeed, run_script returns a
\* failure without a step executed, or compiling the grammar raises.
Parse(q) ==
    /\ at[q] = "parse"
    /\ \/ Goto(q, "reset") /\ UNCHANGED <<result, error>>
       \/ Goto(q, "dead") /\ result' = [of |-> q, steps |-> <<>>] /\ UNCHANGED error
       \/ Goto(q, "dead") /\ error' = [of |-> q, steps |-> <<>>] /\ UNCHANGED result
    /\ UNCHANGED <<planVars, executed, main, running, cancel, shown, alone>>

\* Seeded fault: the planner empties its list instead of making a new one.
ResetInPlace(q) ==
    /\ at[q] = "reset"
    /\ lists' = [lists EXCEPT ![current] = <<>>]
    /\ LET others == {p \in Queries : Planning(p)}
       IN  mixed' = IF others = {} THEN mixed ELSE mixed \union others \union {q}
    /\ Goto(q, "index")
    /\ UNCHANGED <<runnerVars, current, index, planned, plan, executed>>

\* plan: self._steps = []
Reset(q) ==
    /\ at[q] = "reset"
    /\ current' = q
    /\ lists' = [lists EXCEPT ![q] = <<>>]
    /\ LET others == {p \in Queries : Planning(p)}
       IN  mixed' = IF others = {} THEN mixed ELSE mixed \union others \union {q}
    /\ Goto(q, "index")
    /\ UNCHANGED <<runnerVars, index, planned, plan, executed>>

\* Seeded fault: the index of the step before.
NextIndexOfLast(list) == Len(list) - 1

\* index = len(self._steps)
NextIndex(list) == Len(list)

\* _add_step of the next statement, up to its index; with no statement
\* left, plan returns the list self._steps is by then.
Index(q) ==
    /\ at[q] = "index"
    /\ IF planned[q] < Length[q]
       THEN /\ index' = [index EXCEPT ![q] = NextIndex(lists[current])]
            /\ Goto(q, "append")
            /\ UNCHANGED plan
       ELSE /\ plan' = [plan EXCEPT ![q] = current]
            /\ Goto(q, "run")
            /\ UNCHANGED index
    /\ UNCHANGED <<runnerVars, lists, current, planned, mixed, executed>>

\* self._steps.append(step)
AppendStep(q) ==
    /\ at[q] = "append"
    /\ lists' = [lists EXCEPT ![current] =
                    Append(@, [of |-> q, nth |-> planned[q] + 1, index |-> index[q]])]
    /\ planned' = [planned EXCEPT ![q] = @ + 1]
    /\ Goto(q, "index")
    /\ UNCHANGED <<runnerVars, current, index, plan, mixed, executed>>

\* Executor.execute takes the next step of the list and executes it.
Execute(q) ==
    /\ at[q] = "run" /\ Len(executed[q]) < Len(lists[plan[q]])
    /\ executed' = [executed EXCEPT ![q] = Append(@, lists[plan[q]][Len(@) + 1])]
    /\ UNCHANGED <<runnerVars, planVars, at>>

\* execute is at the end of the list.
Exhaust(q) ==
    /\ at[q] = "run" /\ Len(executed[q]) = Len(lists[plan[q]])
    /\ Goto(q, "return")
    /\ UNCHANGED <<runnerVars, planVars, executed>>

\* self._result = what run_script returned; the thread ends.
Return(q) ==
    /\ at[q] = "return"
    /\ result' = [of |-> q, steps |-> executed[q]]
    /\ Goto(q, "dead")
    /\ UNCHANGED <<planVars, executed, main, running, cancel, error, shown, alone>>

-----------------------------------------------------------------------------
Init ==
    /\ main = "prompt" /\ running = NoQuery /\ cancel = FALSE
    /\ result = Nothing /\ error = Nothing
    /\ at = [q \in Queries |-> "new"]
    /\ lists = [l \in Queries \union {NoQuery} |-> <<>>]
    /\ current = NoQuery
    /\ index = [q \in Queries |-> 0]
    /\ planned = [q \in Queries |-> 0]
    /\ plan = [q \in Queries |-> NoQuery]
    /\ executed = [q \in Queries |-> <<>>]
    /\ shown = [for |-> NoQuery, outcome |-> Nothing]
    /\ mixed = {}
    /\ alone = TRUE

Main == CheckAlive \/ Join \/ ReadError \/ ReadResult
Thread(q) ==
    \/ Parse(q) \/ Reset(q) \/ Index(q) \/ AppendStep(q)
    \/ Execute(q) \/ Exhaust(q) \/ Return(q)

Next ==
    \/ \E q \in Queries : Run(q) \/ Thread(q)
    \/ Main
    \/ CtrlC

Spec == Init /\ [][Next]_vars

\* The main thread never waits longer than a poll.  Nothing is assumed of the
\* query threads: a database call may never return.
FairSpec == Spec /\ WF_vars(Main)

-----------------------------------------------------------------------------
\* Properties

TypeOK ==
    /\ main \in {"prompt", "check", "join", "error", "result"}
    /\ running \in Queries \union {NoQuery} /\ (main # "prompt" => running \in Queries)
    /\ cancel \in BOOLEAN /\ alone \in BOOLEAN
    /\ result \in Outcomes /\ error \in Outcomes
    /\ at \in [Queries -> Places]
    /\ lists \in [Queries \union {NoQuery} -> Seq([of : Queries, nth : Nat, index : Nat])]
    /\ current \in Queries \union {NoQuery}
    /\ index \in [Queries -> Nat]
    /\ planned \in [Queries -> Nat]
    /\ plan \in [Queries -> Queries \union {NoQuery}]
    /\ executed \in [Queries -> Seq([of : Queries, nth : Nat, index : Nat])]
    /\ shown \in [for : Queries \union {NoQuery}, outcome : Outcomes]
    /\ mixed \subseteq Queries

OwnStep(q, i) == [of |-> q, nth |-> i, index |-> i - 1]

\* A query that was not being planned at the same time as another executes its
\* own statements only, each once and in order, whatever abandoned queries do
\* with the shared planner before, meanwhile and after.
ExecutesOwnScript ==
    \A q \in Queries \ mixed :
        /\ Len(executed[q]) <= Length[q]
        /\ \A i \in 1..Len(executed[q]) : executed[q][i] = OwnStep(q, i)

\* What the user is shown for a query that was started when no abandoned query
\* was left is that query's outcome: never the result or the error of another,
\* and not a result with fewer steps than it has executed.
ShowsOwnOutcome ==
    main = "prompt" /\ alone /\ shown.outcome # Nothing =>
        /\ shown.outcome.of = shown.for
        /\ shown.outcome.steps = executed[shown.for]
        /\ executed[shown.for] # <<>> => Len(executed[shown.for]) = Length[shown.for]

\* Ctrl+C brings the prompt back even if no query thread ever moves again.
PromptComesBack == cancel /\ main # "prompt" ~> main = "prompt"
=============================================================================
