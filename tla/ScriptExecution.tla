-------------------------- MODULE ScriptExecution --------------------------
(***************************************************************************)
(* QueryPlanner.plan and Executor.execute: how Engine.run_script turns a   *)
(* type-checked program into a plan and runs it.                           *)
(*                                                                         *)
(* A program is a sequence of statements; a statement is an element of     *)
(* Stmts (its position in the source text) and Ast[s] is its syntax node.  *)
(* The planner flattens the program, bodies of if/for/while included, into *)
(* one list of steps.  The executor runs these steps in order; a           *)
(* control-flow step runs the body of its statement by planning each body  *)
(* statement on its own and running that sub-plan in a child context.      *)
(*                                                                         *)
(* Python's recursion is an explicit stack here: planner.work holds the    *)
(* blocks QueryPlanner is iterating over, and stack holds one frame per    *)
(* live ExecutionContext, innermost last.                                  *)
(***************************************************************************)
EXTENDS Integers, Sequences

CONSTANTS
    Stmts,          \* the statements of the programs
    Vars,           \* names bound by let and for
    Ast,            \* Ast[s]: the syntax node of statement s
    Source,         \* Source[s]: the statements in the text of s, s first
    Programs,       \* the programs considered: sequences of statements
    Accepted,       \* <<block, scope>>: the type checker finds no error in block
                    \* where the names of scope are defined
    DbResults,      \* values a database call may return
    MaxIterations   \* executor's max_iterations (10_000 in the code)

-----------------------------------------------------------------------------
\* Values, expressions and conditions.

\* What a variable may hold: a number, a ResultSet of n rows, one row of it, None.
Values == [t : {"int", "rows", "row", "null"}, n : Nat]
IntV(n) == [t |-> "int", n |-> n]
NullV == [t |-> "null", n |-> 0]
\* A name without a value, and the outcome of an operation that raises.
Undef == [t |-> "undef", n |-> 0]
Raised == [t |-> "raised", n |-> 0]

Exprs == [op : {"lit", "ref", "plus"}, var : Vars, val : Values]
Conds == [op : {"gt", "eq", "is_null"}, var : Vars, val : Values]

Refs(e) == IF e.op = "lit" THEN {} ELSE {e.var}

\* _eval_expression: NameError on an undefined name, TypeError when a
\* ResultSet, a row or None is added to a number.
Eval(e, env) ==
    CASE e.op = "lit"  -> e.val
      [] e.op = "ref"  -> IF env[e.var] = Undef THEN Raised ELSE env[e.var]
      [] e.op = "plus" -> IF env[e.var].t = "int"
                          THEN IntV(env[e.var].n + e.val.n) ELSE Raised

\* _eval_condition: "true", "false", or "raised".
Holds(c, env) ==
    LET v == env[c.var]
        Truth(b) == IF b THEN "true" ELSE "false"
    IN  CASE v = Undef        -> "raised"
          [] v # Undef /\ c.op = "gt" ->
                IF v.t = "int" THEN Truth(v.n > c.val.n) ELSE "raised"
          [] v # Undef /\ c.op = "eq" -> Truth(v = c.val)
          [] v # Undef /\ c.op = "is_null" -> Truth(v.t = "null")

\* The items a for statement iterates over; anything but a list of rows is
\* taken as a list of one.
Items(v) == IF v.t = "rows" THEN [i \in 1..v.n |-> [t |-> "row", n |-> i]]
            ELSE <<v>>

-----------------------------------------------------------------------------
\* Syntax nodes.

\* db and let_db: every statement whose step calls a module (queries, writes,
\* sync_schema, live list_tables, native queries, create_view); system: list
\* dbs and list modules.
LeafKinds == {"let", "let_db", "db", "connect", "output", "system"}
ControlKinds == {"if", "for", "while"}
NoVar == "no variable"

(***************************************************************************)
(* name    the variable bound by let, let_db and for                       *)
(* expr    the value of a let, the iterable of a for, a parameter of        *)
(*         connect                                                         *)
(* conds   the conditions of if and its elifs, of while                    *)
(* blocks  if: one block per condition and the else block (<<>> if there   *)
(*         is none); for and while: the body                               *)
(* fields  the names an output statement reads                             *)
(***************************************************************************)
Nodes == [kind : LeafKinds \union ControlKinds,
          name : Vars \union {NoVar}, expr : Exprs,
          conds : Seq(Conds), blocks : Seq(Seq(Stmts)), fields : SUBSET Vars]

WellFormed(node) ==
    /\ node.kind \in {"let", "let_db", "for"} <=> node.name # NoVar
    /\ node.kind \in LeafKinds => node.blocks = <<>>
    /\ node.kind = "if" => /\ Len(node.conds) >= 1
                           /\ Len(node.blocks) = Len(node.conds) + 1
    /\ node.kind = "for" => Len(node.blocks) = 1
    /\ node.kind = "while" => Len(node.blocks) = 1 /\ Len(node.conds) = 1

ASSUME ScriptAssumption ==
    /\ Ast \in [Stmts -> Nodes]
    /\ \A s \in Stmts : WellFormed(Ast[s])
    /\ Programs \subseteq Seq(Stmts)
    /\ DbResults \subseteq Values
    /\ MaxIterations \in Nat \ {0}
    /\ NoVar \notin Vars

\* Blocks one after the other, and the text of a block: that of its statements.
Concat[blocks \in Seq(Seq(Stmts))] ==
    IF blocks = <<>> THEN <<>> ELSE Head(blocks) \o Concat[Tail(blocks)]

Text[block \in Seq(Stmts)] ==
    IF block = <<>> THEN <<>> ELSE Source[Head(block)] \o Text[Tail(block)]

\* How a syntax tree is the tree of its text: a statement is followed by those
\* of its then, elif and else blocks or its body.  No statement is inside itself.
ASSUME SourceAssumption ==
    /\ Source \in [Stmts -> Seq(Stmts)]
    /\ \A s \in Stmts : Source[s] = <<s>> \o Text[Concat[Ast[s].blocks]]

\* What a statement adds to the scope of its blocks, and of the statements
\* after it.
ScopeInside(s, scope) ==
    IF Ast[s].kind = "for" THEN scope \union {Ast[s].name} ELSE scope

ResultVar(s) == IF Ast[s].kind \in {"let", "let_db"} THEN Ast[s].name ELSE NoVar
ScopeAfter(s, scope) == scope \union ({ResultVar(s)} \ {NoVar})

\* What TypeChecker makes sure of before a program is planned: the names read
\* by the value of a let or the iterable of a for are in scope, and the
\* statement's blocks and the statements after it are checked in their scopes.
ASSUME CheckAssumption ==
    /\ Accepted \subseteq Seq(Stmts) \X SUBSET Vars
    /\ \A p \in Programs : <<p, {}>> \in Accepted
    /\ \A a \in Accepted : a[1] # <<>> =>
          LET s == Head(a[1])
              scope == a[2]
          IN  /\ Ast[s].kind \in {"let", "for"} => Refs(Ast[s].expr) \subseteq scope
              /\ \A i \in DOMAIN Ast[s].blocks :
                    <<Ast[s].blocks[i], ScopeInside(s, scope)>> \in Accepted
              /\ <<Tail(a[1]), ScopeAfter(s, scope)>> \in Accepted

-----------------------------------------------------------------------------
VARIABLES
    program,    \* the program being run
    phase,      \* "plan": a QueryPlanner runs; "run": a step runs; "done"
    planner,    \* the QueryPlanner: work, steps and varToStep
    stack,      \* the live contexts with the plans running in them
    results,    \* Executor.execute's list of StepResults
    failed      \* history: what the steps that have failed, at any depth,
                \* were to bind: a name or NoVar

vars == <<program, phase, planner, stack, results, failed>>

NoStep == -1
Steps == [index : Nat, stmt : Stmts, var : Vars \union {NoVar}, deps : SUBSET Nat]
Envs == [Vars -> Values \union {Undef}]
EmptyEnv == [x \in Vars |-> Undef]

(***************************************************************************)
(* A frame is one ExecutionContext and the loop that runs plans in it.     *)
(* vars   the context's own variables                                      *)
(* plan   the plan running in it, pc the position of its current step      *)
(* block  the statements of the block still to be planned and run          *)
(* items  what a for statement still has to iterate over                   *)
(* iterations   the iterations a while statement has completed             *)
(***************************************************************************)
Frames == [vars : Envs, plan : Seq(Steps), pc : Nat \ {0},
           block : Seq(Stmts), items : Seq(Values), iterations : Nat]

-----------------------------------------------------------------------------
\* QueryPlanner

NewPlanner(block) ==
    [work |-> <<block>>, steps |-> <<>>, varToStep |-> [x \in Vars |-> NoStep]]

\* The names whose steps _resolve_deps and the output case look up.  A
\* condition is neither a VariableRef nor a BinaryOp, so the deps of an if
\* are always empty; a database call is passed over.
PlannedReads(s) ==
    CASE Ast[s].kind \in {"let", "for"} -> Refs(Ast[s].expr)
      [] Ast[s].kind = "output"         -> Ast[s].fields
      [] OTHER                          -> {}

DependsOn(s, varToStep) ==
    {varToStep[x] : x \in {y \in PlannedReads(s) : varToStep[y] # NoStep}}

\* Seeded fault: the name is recorded before the dependencies are resolved.
AddStepRecordsFirst(p, s) ==
    LET index == Len(p.steps)
        var == ResultVar(s)
        recorded == IF var = NoVar THEN p.varToStep ELSE [p.varToStep EXCEPT ![var] = index]
    IN  [p EXCEPT !.steps = Append(@, [index |-> index, stmt |-> s, var |-> var,
                                       deps |-> DependsOn(s, recorded)]),
                  !.varToStep = recorded]

AddStep(p, s) ==
    LET index == Len(p.steps)
        var == ResultVar(s)
    IN  [p EXCEPT
            !.steps = Append(@, [index |-> index, stmt |-> s, var |-> var,
                                 deps |-> DependsOn(s, p.varToStep)]),
            !.varToStep = IF var = NoVar THEN @ ELSE [@ EXCEPT ![var] = index]]

\* Seeded fault: bodies are planned after the block their statement is in.
PlanStatementBodyLast ==
    /\ phase = "plan" /\ planner.work # <<>> /\ Head(planner.work) # <<>>
    /\ LET block == Head(planner.work)
           s == Head(block)
       IN  planner' = [AddStep(planner, s) EXCEPT
                          !.work = <<Tail(block)>> \o Ast[s].blocks \o Tail(@)]
    /\ UNCHANGED <<program, phase, stack, results, failed>>

\* _plan_statement: one step for the statement, then the statements of its
\* blocks, before the rest of the block it is in.
PlanStatement ==
    /\ phase = "plan" /\ planner.work # <<>> /\ Head(planner.work) # <<>>
    /\ LET block == Head(planner.work)
           s == Head(block)
       IN  planner' = [AddStep(planner, s) EXCEPT
                          !.work = Ast[s].blocks \o <<Tail(block)>> \o Tail(@)]
    /\ UNCHANGED <<program, phase, stack, results, failed>>

PlanBlockDone ==
    /\ phase = "plan" /\ planner.work # <<>> /\ Head(planner.work) = <<>>
    /\ planner' = [planner EXCEPT !.work = Tail(@)]
    /\ UNCHANGED <<program, phase, stack, results, failed>>

NewFrame(env, block, items) ==
    [vars |-> env, plan |-> <<>>, pc |-> 1, block |-> block,
     items |-> items, iterations |-> 0]

\* plan() returns: to run_script, which executes it in a fresh context, or
\* to the control-flow step, which executes it in the child context.
PlanReturns ==
    /\ phase = "plan" /\ planner.work = <<>>
    /\ phase' = "run"
    /\ IF stack = <<>>
       THEN stack' = <<[NewFrame(EmptyEnv, <<>>, <<>>) EXCEPT !.plan = planner.steps]>>
       ELSE stack' = [stack EXCEPT
                        ![Len(stack)] = [@ EXCEPT !.plan = planner.steps, !.pc = 1]]
    /\ UNCHANGED <<program, planner, results, failed>>

-----------------------------------------------------------------------------
\* Executor

\* Seeded fault: only the step's own context is looked at.
LookupOwn(stk, d, x) == stk[d].vars[x]

\* ExecutionContext.get: the innermost of the contexts 1..d that has the name.
Innermost(stk, d, x, e) == /\ stk[e].vars[x] # Undef
                           /\ \A f \in (e + 1)..d : stk[f].vars[x] = Undef

Lookup(stk, d, x) ==
    IF \E e \in 1..d : Innermost(stk, d, x, e)
    THEN stk[CHOOSE e \in 1..d : Innermost(stk, d, x, e)].vars[x]
    ELSE Undef

Env(stk, d) == [x \in Vars |-> Lookup(stk, d, x)]

Top == stack[Len(stack)]
CurrentStep == Top.plan[Top.pc]
Running(kinds) ==
    /\ phase = "run" /\ Top.pc <= Len(Top.plan)
    /\ Ast[CurrentStep.stmt].kind \in kinds

\* Seeded fault: a failed step binds its variable too.
BindAlways(env, x, v) == IF x = NoVar THEN env ELSE [env EXCEPT ![x] = v]

Bind(env, x, v) == IF x = NoVar \/ v = Raised THEN env ELSE [env EXCEPT ![x] = v]

\* Seeded fault: a failed step ends the plan.
AdvanceUnlessFailed(frame, v) ==
    [frame EXCEPT !.vars = Bind(@, frame.plan[frame.pc].var, v),
                  !.pc = IF v = Raised THEN Len(frame.plan) + 1 ELSE @ + 1]

Advance(frame, v) ==
    [frame EXCEPT !.vars = Bind(@, frame.plan[frame.pc].var, v), !.pc = @ + 1]

Recorded(step, v) ==
    [index |-> step.index, status |-> IF v = Raised THEN "failed" ELSE "success"]

\* Seeded fault: nested statements bind their variables in the outer contexts too.
StepEndsInAllContexts(stk, v) ==
    LET d == Len(stk)
        step == stk[d].plan[stk[d].pc]
    IN  /\ stack' = [e \in 1..d |->
                        IF e = d THEN Advance(stk[e], v)
                        ELSE [stk[e] EXCEPT !.vars = Bind(@, step.var, v)]]
        /\ results' = IF d = 1 THEN Append(results, Recorded(step, v)) ELSE results
        /\ failed' = IF v = Raised THEN failed \union {step.var} ELSE failed

\* The current step of the last context of stk ends with outcome v.  The
\* results of execute_in_context are dropped by its callers; those of the
\* plan execute was given are returned.
StepEnds(stk, v) ==
    LET d == Len(stk)
        step == stk[d].plan[stk[d].pc]
    IN  /\ stack' = [stk EXCEPT ![d] = Advance(@, v)]
        /\ results' = IF d = 1 THEN Append(results, Recorded(step, v)) ELSE results
        /\ failed' = IF v = Raised THEN failed \union {step.var} ELSE failed

\* _execute_core_compute of a let; connect evaluates its parameters the same way
ExecLet ==
    /\ Running({"let", "connect"})
    /\ StepEnds(stack, Eval(Ast[CurrentStep.stmt].expr, Env(stack, Len(stack))))
    /\ UNCHANGED <<program, phase, planner>>

\* _execute_db_query: the module's call returns a value or raises
ExecDbCall ==
    /\ Running({"let_db", "db"})
    /\ \E v \in DbResults \union {Raised} : StepEnds(stack, v)
    /\ UNCHANGED <<program, phase, planner>>

\* output reads undefined names as None, list dbs / list modules read a
\* registry: neither raises and neither binds a variable
ExecOutput ==
    /\ Running({"output", "system"})
    /\ StepEnds(stack, NullV)
    /\ UNCHANGED <<program, phase, planner>>

Enter(frame) ==
    /\ stack' = Append(stack, frame)
    /\ UNCHANGED <<results, failed>>

\* The position of the block an if statement runs: of its first condition
\* that is not false (which may be one that raises), else of the else block.
FirstHit(conds, env, i) == /\ Holds(conds[i], env) # "false"
                           /\ \A j \in 1..(i - 1) : Holds(conds[j], env) = "false"

Branch(s, env) ==
    LET conds == Ast[s].conds
    IN  IF \E i \in 1..Len(conds) : FirstHit(conds, env, i)
        THEN CHOOSE i \in 1..Len(conds) : FirstHit(conds, env, i)
        ELSE Len(conds) + 1

ExecIf ==
    /\ Running({"if"})
    /\ LET s == CurrentStep.stmt
           env == Env(stack, Len(stack))
           b == Branch(s, env)
           block == Ast[s].blocks[b]
       IN  IF b <= Len(Ast[s].conds) /\ Holds(Ast[s].conds[b], env) = "raised"
           THEN StepEnds(stack, Raised)
           ELSE IF block = <<>> THEN StepEnds(stack, NullV)
           ELSE Enter(NewFrame(EmptyEnv, block, <<>>))
    /\ UNCHANGED <<program, phase, planner>>

\* A child context for one item of a for statement
ItemFrame(s, items) ==
    NewFrame([EmptyEnv EXCEPT ![Ast[s].name] = Head(items)],
             Ast[s].blocks[1], Tail(items))

ExecFor ==
    /\ Running({"for"})
    /\ LET s == CurrentStep.stmt
           v == Eval(Ast[s].expr, Env(stack, Len(stack)))
       IN  IF v = Raised THEN StepEnds(stack, Raised)
           ELSE IF Items(v) = <<>> THEN StepEnds(stack, NullV)
           ELSE Enter(ItemFrame(s, Items(v)))
    /\ UNCHANGED <<program, phase, planner>>

\* Seeded fault: the iteration counter is not carried over.
IterationFrameUncounted(s, iterations) ==
    NewFrame(EmptyEnv, Ast[s].blocks[1], <<>>)

\* A child context for an iteration of a while statement
IterationFrame(s, iterations) ==
    [NewFrame(EmptyEnv, Ast[s].blocks[1], <<>>) EXCEPT !.iterations = iterations]

ExecWhile ==
    /\ Running({"while"})
    /\ LET s == CurrentStep.stmt
           test == Holds(Ast[s].conds[1], Env(stack, Len(stack)))
       IN  IF test = "true" THEN Enter(IterationFrame(s, 0))
           ELSE StepEnds(stack, IF test = "raised" THEN Raised
                                ELSE NullV)
    /\ UNCHANGED <<program, phase, planner>>

-----------------------------------------------------------------------------
\* Inside a block

PlanEnded == phase = "run" /\ Top.pc > Len(Top.plan)

\* The next statement of the block gets a QueryPlanner of its own.
NextInBlock ==
    /\ PlanEnded /\ Top.block # <<>>
    /\ planner' = NewPlanner(<<Head(Top.block)>>)
    /\ phase' = "plan"
    /\ stack' = [stack EXCEPT ![Len(stack)].block = Tail(@)]
    /\ UNCHANGED <<program, results, failed>>

Outer == SubSeq(stack, 1, Len(stack) - 1)
OpenedBy == LET outer == stack[Len(stack) - 1] IN outer.plan[outer.pc].stmt

BlockEnded(kind) ==
    /\ PlanEnded /\ Top.block = <<>> /\ Len(stack) > 1
    /\ Ast[OpenedBy].kind = kind

IfEnds ==
    /\ BlockEnded("if")
    /\ StepEnds(Outer, NullV)
    /\ UNCHANGED <<program, phase, planner>>

\* Seeded fault: the next item is bound in the context of the for as well.
ForNextBindsOutside ==
    /\ BlockEnded("for")
    /\ IF Top.items = <<>> THEN StepEnds(Outer, NullV)
       ELSE /\ stack' = [stack EXCEPT ![Len(stack)] = ItemFrame(OpenedBy, Top.items),
                                      ![Len(stack) - 1].vars[Ast[OpenedBy].name] = Head(Top.items)]
            /\ UNCHANGED <<results, failed>>
    /\ UNCHANGED <<program, phase, planner>>

ForNext ==
    /\ BlockEnded("for")
    /\ IF Top.items = <<>> THEN StepEnds(Outer, NullV)
       ELSE /\ stack' = [stack EXCEPT ![Len(stack)] = ItemFrame(OpenedBy, Top.items)]
            /\ UNCHANGED <<results, failed>>
    /\ UNCHANGED <<program, phase, planner>>

\* Seeded fault: the condition is evaluated in the context of the body.
WhileNextInBody ==
    /\ BlockEnded("while")
    /\ LET test == Holds(Ast[OpenedBy].conds[1], Env(stack, Len(stack)))
           iterations == Top.iterations + 1
       IN  IF test = "true" /\ iterations < MaxIterations
           THEN /\ stack' = [stack EXCEPT
                                ![Len(stack)] = IterationFrame(OpenedBy, iterations)]
                /\ UNCHANGED <<results, failed>>
           ELSE StepEnds(Outer, IF test = "false" THEN NullV ELSE Raised)
    /\ UNCHANGED <<program, phase, planner>>

\* The condition is evaluated in the context the while statement is in.
WhileNext ==
    /\ BlockEnded("while")
    /\ LET test == Holds(Ast[OpenedBy].conds[1], Env(stack, Len(stack) - 1))
           iterations == Top.iterations + 1
       IN  IF test = "true" /\ iterations < MaxIterations
           THEN /\ stack' = [stack EXCEPT
                                ![Len(stack)] = IterationFrame(OpenedBy, iterations)]
                /\ UNCHANGED <<results, failed>>
           ELSE StepEnds(Outer, IF test = "false" THEN NullV
                                ELSE Raised)
    /\ UNCHANGED <<program, phase, planner>>

\* Executor.execute returns.
Finish ==
    /\ PlanEnded /\ Top.block = <<>> /\ Len(stack) = 1
    /\ phase' = "done"
    /\ UNCHANGED <<program, planner, stack, results, failed>>

-----------------------------------------------------------------------------
Init ==
    /\ program \in Programs
    /\ phase = "plan"
    /\ planner = NewPlanner(program)
    /\ stack = <<>>
    /\ results = <<>>
    /\ failed = {}

Next ==
    \/ PlanStatement \/ PlanBlockDone \/ PlanReturns
    \/ ExecLet \/ ExecDbCall \/ ExecOutput \/ ExecIf \/ ExecFor \/ ExecWhile
    \/ NextInBlock \/ IfEnds \/ ForNext \/ WhileNext
    \/ Finish

Spec == Init /\ [][Next]_vars

\* One thread runs the script and nothing in it waits: it keeps taking steps.
FairSpec == Spec /\ WF_vars(Next)

-----------------------------------------------------------------------------
\* Properties

TypeOK ==
    /\ program \in Programs
    /\ phase \in {"plan", "run", "done"}
    /\ planner \in [work : Seq(Seq(Stmts)), steps : Seq(Steps),
                    varToStep : [Vars -> Nat \union {NoStep}]]
    /\ stack \in Seq(Frames)
    /\ results \in Seq([index : Nat, status : {"success", "failed"}])
    /\ failed \subseteq Vars \union {NoVar}

\* The steps an execution plan's step i reads: for each name, the latest
\* earlier step bound to it.
ReadsFrom(steps, i) ==
    {j \in 0..(i - 2) : /\ steps[j + 1].var \in PlannedReads(steps[i].stmt)
                        /\ \A k \in (j + 2)..(i - 1) : steps[k].var # steps[j + 1].var}

DependencyOrder(steps) ==
    \A i \in 1..Len(steps) : /\ steps[i].index = i - 1
                             /\ steps[i].deps = ReadsFrom(steps, i)

\* ExecutionPlan: "a step always appears after all steps it depends on".  In
\* every plan, whole or sub-plan, finished or being built, a step's index is
\* its position and depends_on names exactly the latest earlier step bound to
\* each name the planner looks up, even where the flattened bodies of other
\* statements rebind the name in between.
PlanInDependencyOrder ==
    /\ DependencyOrder(planner.steps)
    /\ \A d \in 1..Len(stack) : DependencyOrder(stack[d].plan)

StmtsOf(steps) == [i \in 1..Len(steps) |-> steps[i].stmt]

\* The plan that is executed holds every statement of the program, nested ones
\* included, exactly as often and in the order the source has them; so do the
\* sub-plans of nested statements.
PlanIsPreorder ==
    /\ stack # <<>> => StmtsOf(stack[1].plan) = Text[program]
    /\ \A d \in 2..Len(stack) :
          LET plan == stack[d].plan
          IN  plan # <<>> => StmtsOf(plan) = Source[plan[1].stmt]

\* Where the statement at position i of block p has its step in a plan of p.
Position(p, i) == Len(Text[SubSeq(p, 1, i - 1)]) + 1

\* The step frame d is at stands where its statement does in the text: it is the
\* statement its sub-plan was made for, or one of the program's own, rather than a
\* copy the flattening made of a statement of some body.
InItsPlace(stk, d) ==
    IF d = 1 THEN \E i \in DOMAIN program : stk[1].pc = Position(program, i)
    ELSE stk[d].pc = 1

\* What "is used before it is defined" is for: in a program the type checker
\* accepts, a name that the value of a let or the iterable of a for reads has a
\* value when the statement is run in its place, within statements run in theirs,
\* through every branch and iteration that leads there, unless a step that should
\* have bound it failed.
NamesResolve ==
    Running({"let", "for"}) /\ (\A d \in 1..Len(stack) : InItsPlace(stack, d)) =>
        \A x \in Refs(Ast[CurrentStep.stmt].expr) :
            Env(stack, Len(stack))[x] # Undef \/ x \in failed

\* the control statement whose child context frame d is
Owner(d) == stack[d - 1].plan[stack[d - 1].pc].stmt

\* Only the innermost context runs: each context around it waits at the
\* control-flow step whose body is being run, and execute has recorded a
\* result for exactly the steps of its plan before that one.
StackDiscipline ==
    /\ stack = <<>> => phase = "plan" /\ results = <<>>
    /\ phase = "plan" => Len(stack) # 1
    /\ stack # <<>> => stack[1].block = <<>> /\ Len(results) = stack[1].pc - 1
    /\ \A d \in 1..Len(stack) : stack[d].pc <= Len(stack[d].plan) + 1
    /\ \A d \in 2..Len(stack) : /\ stack[d - 1].pc <= Len(stack[d - 1].plan)
                                /\ Ast[Owner(d)].kind \in ControlKinds

\* While an iteration of a while statement runs, however deep inside its body
\* the executor is, the condition is still true where the while statement
\* evaluates it: the body runs in a child context and cannot change a variable
\* the condition reads.
WhileConditionFrozen ==
    \A d \in 2..Len(stack) :
        Ast[Owner(d)].kind = "while" =>
            /\ Holds(Ast[Owner(d)].conds[1], Env(stack, d - 1)) = "true"
            /\ stack[d].iterations < MaxIterations

\* So a while step that has run its body ends with the max_iterations error.
WhileEndsOnlyByLimit ==
    [][BlockEnded("while") /\ Len(stack') < Len(stack) =>
           Top.iterations + 1 = MaxIterations /\ NoVar \in failed']_vars

\* A step binds variables in the innermost context only: what a block runs
\* never changes a variable of a context around it, neither while the block
\* runs nor as its statement ends.
OuterContextsUntouched ==
    [][\A d \in 1..Len(stack) :
           d < Len(stack) /\ d <= Len(stack') => stack'[d].vars = stack[d].vars]_vars

\* Every script ends, loops included: no step waits and max_iterations bounds
\* each while statement.
Termination == <>(phase = "done")

\* What execute promises of failures: see PartialFailure.
Promise == INSTANCE PartialFailure WITH
    planned <- IF stack = <<>> THEN -1 ELSE Len(stack[1].plan),
    outcomes <- results,
    returned <- phase = "done"

ImplementsPartialFailure == Promise!Spec

\* executor.py, ExecutionContext: "child contexts so inner variables don't leak
\* into outer scope": when the script has run, the outer scope holds only
\* variables its own statements bind.
InnerVariablesDoNotLeak ==
    phase = "done" =>
        \A x \in Vars : stack[1].vars[x] # Undef =>
            \E i \in 1..Len(program) : ResultVar(program[i]) = x

\* executor.py, execute: "Failed steps are recorded".
FailuresAreRecorded ==
    phase = "done" /\ failed # {} => \E i \in 1..Len(results) : results[i].status = "failed"
=============================================================================
