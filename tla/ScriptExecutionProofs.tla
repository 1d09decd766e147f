----------------------- MODULE ScriptExecutionProofs -----------------------
(***************************************************************************)
(* Proofs about ScriptExecution, for every program, every set of variables *)
(* and database results, and every MaxIterations.                          *)
(***************************************************************************)
EXTENDS ScriptExecution, Induction

-----------------------------------------------------------------------------
\* What the operators on values, conditions and contexts return.

\* A literal, a reference or a sum is a value or raises.
LEMMA EvalType ==
    ASSUME NEW e \in Exprs, NEW env \in Envs
    PROVE  Eval(e, env) \in Values \union {Raised}
<1>1. e.op \in {"lit", "ref", "plus"} /\ e.var \in Vars /\ e.val \in Values
    BY DEF Exprs
<1>2. env[e.var] \in Values \union {Undef}
    BY <1>1 DEF Envs
<1>3. CASE e.op = "lit"
    BY <1>1, <1>3 DEF Eval
<1>4. CASE e.op = "ref"
    BY <1>2, <1>4 DEF Eval
<1>5. CASE e.op = "plus"
    <2>1. CASE env[e.var].t = "int"
        <3>1. env[e.var].n \in Nat /\ e.val.n \in Nat
            BY <1>1, <1>2, <2>1 DEF Values, Undef
        <3>2. IntV(env[e.var].n + e.val.n) \in Values
            BY <3>1 DEF IntV, Values
        <3> QED BY <1>5, <2>1, <3>2 DEF Eval
    <2>2. CASE env[e.var].t # "int"
        BY <1>5, <2>2 DEF Eval
    <2> QED BY <2>1, <2>2
<1> QED BY <1>1, <1>3, <1>4, <1>5

\* What a for statement iterates over is a sequence of values.
LEMMA ItemsType ==
    ASSUME NEW v \in Values
    PROVE  Items(v) \in Seq(Values)
<1>1. CASE v.t = "rows"
    <2>1. v.n \in Nat
        BY DEF Values
    <2>2. \A i \in 1..v.n : [t |-> "row", n |-> i] \in Values
        BY <2>1 DEF Values
    <2>3. [i \in 1..v.n |-> [t |-> "row", n |-> i]] \in [1..v.n -> Values]
        BY <2>2
    <2> QED BY <1>1, <2>1, <2>3, SeqDef DEF Items
<1>2. CASE v.t # "rows"
    BY <1>2 DEF Items
<1> QED BY <1>1, <1>2

\* A condition raises or is a truth value.
LEMMA HoldsType ==
    ASSUME NEW c \in Conds, NEW env
    PROVE  Holds(c, env) \in {"true", "false", "raised"}
<1>1. c.op \in {"gt", "eq", "is_null"}
    BY DEF Conds
<1> QED BY <1>1 DEF Holds

\* What the contexts 1..d of a stack show of the variables is a context.
LEMMA EnvType ==
    ASSUME NEW stk \in Seq(Frames), NEW d \in 0..Len(stk)
    PROVE  Env(stk, d) \in Envs
<1>1. ASSUME NEW x \in Vars
      PROVE  Lookup(stk, d, x) \in Values \union {Undef}
    <2>1. CASE \E e \in 1..d : Innermost(stk, d, x, e)
        <3> DEFINE e == CHOOSE e \in 1..d : Innermost(stk, d, x, e)
        <3>1. e \in 1..d
            BY <2>1
        <3>2. stk[e] \in Frames
            BY <3>1, ElementOfSeq
        <3>3. stk[e].vars[x] \in Values \union {Undef}
            BY <3>2 DEF Frames, Envs
        <3> QED BY <2>1, <3>3 DEF Lookup
    <2>2. CASE ~ \E e \in 1..d : Innermost(stk, d, x, e)
        BY <2>2 DEF Lookup
    <2> QED BY <2>1, <2>2
<1> QED BY <1>1 DEF Env, Envs

\* They depend on the variables of these contexts alone.
LEMMA EnvDependsOnVars ==
    ASSUME NEW s1, NEW s2, NEW d \in Nat,
           \A e \in 1..d : s1[e].vars = s2[e].vars
    PROVE  Env(s1, d) = Env(s2, d)
<1>1. ASSUME NEW x \in Vars
      PROVE  Lookup(s1, d, x) = Lookup(s2, d, x)
    <2>1. \A e \in 1..d : Innermost(s1, d, x, e) <=> Innermost(s2, d, x, e)
        BY DEF Innermost
    <2>2. (CHOOSE e \in 1..d : Innermost(s1, d, x, e))
              = (CHOOSE e \in 1..d : Innermost(s2, d, x, e))
        BY <2>1
    <2> QED BY <2>1, <2>2 DEF Lookup
<1> QED BY <1>1 DEF Env

-----------------------------------------------------------------------------
\* The planner.

\* Every step of a plan binds the variable of its own statement.
BindsOwn(steps) == \A i \in 1..Len(steps) : steps[i].var = ResultVar(steps[i].stmt)

\* varToStep names the last step bound to each variable.
LastStepOf(steps, varToStep) ==
    \A x \in Vars :
        LET j == varToStep[x]
        IN  IF j = NoStep THEN \A k \in 1..Len(steps) : steps[k].var # x
            ELSE /\ j \in 0..(Len(steps) - 1)
                 /\ steps[j + 1].var = x
                 /\ \A k \in (j + 2)..Len(steps) : steps[k].var # x

Planners == [work : Seq(Seq(Stmts)), steps : Seq(Steps),
             varToStep : [Vars -> Nat \union {NoStep}]]

PlannerInv(p) ==
    /\ p \in Planners
    /\ DependencyOrder(p.steps)
    /\ BindsOwn(p.steps)
    /\ LastStepOf(p.steps, p.varToStep)

\* A statement is well formed; what it binds and reads are variables.
LEMMA NodeType ==
    ASSUME NEW s \in Stmts
    PROVE  /\ Ast[s] \in Nodes
           /\ WellFormed(Ast[s])
           /\ ResultVar(s) \in Vars \union {NoVar}
           /\ PlannedReads(s) \subseteq Vars
<1>1. Ast[s] \in Nodes /\ WellFormed(Ast[s])
    BY ScriptAssumption
<1>2. ResultVar(s) \in Vars \union {NoVar}
    BY <1>1 DEF ResultVar, Nodes
<1>3. Refs(Ast[s].expr) \subseteq Vars /\ Ast[s].fields \subseteq Vars
    BY <1>1 DEF Refs, Nodes, Exprs
<1>4. PlannedReads(s) \subseteq Vars
    <2>1. CASE Ast[s].kind \in {"let", "for"}
        BY <2>1, <1>3 DEF PlannedReads
    <2>2. CASE Ast[s].kind = "output"
        BY <2>2, <1>3 DEF PlannedReads
    <2>3. CASE Ast[s].kind \notin {"let", "for", "output"}
        BY <2>3 DEF PlannedReads
    <2> QED BY <2>1, <2>2, <2>3
<1> QED BY <1>1, <1>2, <1>4

\* A fresh planner has nothing planned.
LEMMA NewPlannerInv ==
    ASSUME NEW block \in Seq(Stmts)
    PROVE  PlannerInv(NewPlanner(block))
<1> DEFINE p == NewPlanner(block)
<1>1. p.work = <<block>> /\ p.steps = <<>> /\ p.varToStep = [x \in Vars |-> NoStep]
    BY DEF NewPlanner
<1>2. p \in Planners
    BY DEF NewPlanner, Planners
<1>3. DependencyOrder(p.steps) /\ BindsOwn(p.steps)
    BY <1>1 DEF DependencyOrder, BindsOwn
<1>4. LastStepOf(p.steps, p.varToStep)
    BY <1>1 DEF LastStepOf
<1> QED BY <1>2, <1>3, <1>4 DEF PlannerInv

\* Adding a step keeps the plan in dependency order: looking a name up in
\* varToStep finds the latest step bound to it.
LEMMA AddStepInv ==
    ASSUME NEW p, PlannerInv(p), NEW s \in Stmts
    PROVE  PlannerInv(AddStep(p, s))
<1> DEFINE q == AddStep(p, s)
           n == Len(p.steps)
           new == [index |-> n, stmt |-> s, var |-> ResultVar(s),
                   deps |-> DependsOn(s, p.varToStep)]
<1>1. p \in Planners /\ n \in Nat
    BY DEF PlannerInv, Planners
<1>2. /\ q.work = p.work
      /\ q.steps = Append(p.steps, new)
      /\ q.varToStep = IF ResultVar(s) = NoVar THEN p.varToStep
                       ELSE [p.varToStep EXCEPT ![ResultVar(s)] = n]
    BY <1>1 DEF AddStep, Planners
<1>3. PlannedReads(s) \subseteq Vars /\ ResultVar(s) \in Vars \union {NoVar}
    BY NodeType
<1>4. DependsOn(s, p.varToStep) \subseteq Nat
    BY <1>1, <1>3 DEF DependsOn, Planners
<1>5. new \in Steps
    BY <1>1, <1>3, <1>4 DEF Steps
<1>6. /\ q.steps \in Seq(Steps)
      /\ Len(q.steps) = n + 1
      /\ \A i \in 1..n : q.steps[i] = p.steps[i]
      /\ q.steps[n + 1] = new
    BY <1>1, <1>2, <1>5 DEF Planners
<1>7. q \in Planners
    <2>1. q.varToStep \in [Vars -> Nat \union {NoStep}]
        BY <1>1, <1>2 DEF Planners
    <2>2. q = [p EXCEPT !.steps = q.steps, !.varToStep = q.varToStep]
        BY <1>1 DEF AddStep, Planners
    <2> HIDE DEF q
    <2> QED BY <1>1, <1>6, <2>1, <2>2 DEF Planners
<1>8. ReadsFrom(q.steps, n + 1) = DependsOn(s, p.varToStep)
    <2>1. ASSUME NEW j \in DependsOn(s, p.varToStep)
          PROVE  j \in ReadsFrom(q.steps, n + 1)
        <3>1. PICK x \in PlannedReads(s) : p.varToStep[x] # NoStep /\ j = p.varToStep[x]
            BY DEF DependsOn
        <3>2. /\ j \in 0..(n - 1)
              /\ p.steps[j + 1].var = x
              /\ \A k \in (j + 2)..n : p.steps[k].var # x
            BY <1>3, <3>1 DEF PlannerInv, LastStepOf
        <3>3. q.steps[j + 1] = p.steps[j + 1]
            BY <1>1, <1>6, <3>2
        <3>4. \A k \in (j + 2)..n : q.steps[k] = p.steps[k]
            BY <1>1, <1>6, <3>2
        <3>5. q.steps[n + 1].stmt = s
            BY <1>6
        <3> HIDE DEF q, n, new
        <3> QED BY <1>1, <3>1, <3>2, <3>3, <3>4, <3>5 DEF ReadsFrom
    <2>2. ASSUME NEW j \in ReadsFrom(q.steps, n + 1)
          PROVE  j \in DependsOn(s, p.varToStep)
        <3>1. /\ j \in 0..(n - 1)
              /\ p.steps[j + 1].var \in PlannedReads(s)
              /\ \A k \in (j + 2)..n : p.steps[k].var # p.steps[j + 1].var
            <4>1. j \in 0..(n - 1) /\ q.steps[j + 1].var \in PlannedReads(q.steps[n + 1].stmt)
                BY <1>1 DEF ReadsFrom
            <4>2. \A k \in (j + 2)..n : q.steps[k].var # q.steps[j + 1].var
                BY <1>1 DEF ReadsFrom
            <4>3. q.steps[j + 1] = p.steps[j + 1]
                BY <1>1, <1>6, <4>1
            <4>4. \A k \in (j + 2)..n : q.steps[k] = p.steps[k]
                BY <1>1, <1>6, <4>1
            <4>5. q.steps[n + 1].stmt = s
                BY <1>6
            <4> HIDE DEF q, n, new
            <4> QED BY <4>1, <4>2, <4>3, <4>4, <4>5
        <3> DEFINE x == p.steps[j + 1].var
        <3>2. x \in Vars
            BY <1>3, <3>1
        <3>3. p.varToStep[x] # NoStep
            BY <1>1, <3>1, <3>2 DEF PlannerInv, LastStepOf
        <3>4. /\ p.varToStep[x] \in 0..(n - 1)
              /\ p.steps[p.varToStep[x] + 1].var = x
              /\ \A k \in (p.varToStep[x] + 2)..n : p.steps[k].var # x
            BY <3>2, <3>3 DEF PlannerInv, LastStepOf
        <3>5. p.varToStep[x] = j
            <4> DEFINE m == p.varToStep[x]
            <4>1. m \in 0..(n - 1) /\ p.steps[m + 1].var = x
                BY <3>4
            <4>2. ~ (m < j)
                <5>1. m < j => j + 1 \in (m + 2)..n
                    BY <1>1, <3>1, <4>1
                <5> QED BY <3>4, <5>1
            <4>3. ~ (j < m)
                <5>1. j < m => m + 1 \in (j + 2)..n
                    BY <1>1, <3>1, <4>1
                <5> QED BY <3>1, <4>1, <5>1
            <4>4. m = j
                <5> HIDE DEF m, n
                <5> QED BY <1>1, <3>1, <4>1, <4>2, <4>3
            <4> QED BY <4>4
        <3> QED BY <3>1, <3>3, <3>5 DEF DependsOn
    <2> QED BY <2>1, <2>2
<1>9. DependencyOrder(q.steps)
    <2>1. ASSUME NEW i \in 1..n
          PROVE  ReadsFrom(q.steps, i) = ReadsFrom(p.steps, i)
        <3>1. q.steps[i] = p.steps[i]
            BY <1>6
        <3>2. \A j \in 0..(i - 2) : q.steps[j + 1] = p.steps[j + 1]
            BY <1>1, <1>6
        <3>3. \A j \in 0..(i - 2) : \A k \in (j + 2)..(i - 1) : q.steps[k] = p.steps[k]
            BY <1>1, <1>6
        <3> HIDE DEF q, n, new
        <3> QED BY <3>1, <3>2, <3>3 DEF ReadsFrom
    <2>2. \A i \in 1..n : /\ p.steps[i].index = i - 1
                          /\ p.steps[i].deps = ReadsFrom(p.steps, i)
        BY DEF PlannerInv, DependencyOrder
    <2>3. new.index = (n + 1) - 1 /\ new.deps = ReadsFrom(q.steps, n + 1)
        BY <1>1, <1>8
    <2>4. ASSUME NEW i \in 1..(n + 1)
          PROVE  q.steps[i].index = i - 1 /\ q.steps[i].deps = ReadsFrom(q.steps, i)
        <3>1. CASE i \in 1..n
            BY <1>6, <2>1, <2>2, <3>1
        <3>2. CASE i = n + 1
            BY <1>6, <2>3, <3>2
        <3> QED BY <1>1, <3>1, <3>2
    <2> QED BY <1>6, <2>4 DEF DependencyOrder
<1>10. BindsOwn(q.steps)
    BY <1>1, <1>6 DEF PlannerInv, BindsOwn
<1>11. LastStepOf(q.steps, q.varToStep)
    <2> SUFFICES ASSUME NEW x \in Vars
                 PROVE  LET j == q.varToStep[x]
                        IN  IF j = NoStep THEN \A k \in 1..(n + 1) : q.steps[k].var # x
                            ELSE /\ j \in 0..n
                                 /\ q.steps[j + 1].var = x
                                 /\ \A k \in (j + 2)..(n + 1) : q.steps[k].var # x
        BY <1>1, <1>6 DEF LastStepOf
    <2>1. x # NoVar
        BY ScriptAssumption
    <2>2. CASE ResultVar(s) = x
        <3>1. q.varToStep[x] = n
            BY <1>1, <1>2, <2>1, <2>2 DEF Planners
        <3> QED BY <1>1, <1>6, <2>2, <3>1 DEF NoStep
    <2>3. CASE ResultVar(s) # x
        <3>1. q.varToStep[x] = p.varToStep[x]
            BY <1>1, <1>2, <2>3 DEF Planners
        <3>2. LET j == p.varToStep[x]
              IN  IF j = NoStep THEN \A k \in 1..n : p.steps[k].var # x
                  ELSE /\ j \in 0..(n - 1)
                       /\ p.steps[j + 1].var = x
                       /\ \A k \in (j + 2)..n : p.steps[k].var # x
            BY DEF PlannerInv, LastStepOf
        <3>3. q.steps[n + 1].var # x
            BY <1>6, <2>3
        <3>4. CASE p.varToStep[x] = NoStep
            BY <1>1, <1>6, <3>1, <3>2, <3>3, <3>4
        <3>5. CASE p.varToStep[x] # NoStep
            <4> DEFINE j == p.varToStep[x]
            <4>1. /\ j \in 0..(n - 1)
                  /\ p.steps[j + 1].var = x
                  /\ \A k \in (j + 2)..n : p.steps[k].var # x
                BY <3>2, <3>5
            <4>2. q.steps[j + 1].var = x
                <5>1. j + 1 \in 1..n
                    BY <1>1, <4>1
                <5> HIDE DEF j, q, n
                <5> QED BY <1>6, <4>1, <5>1
            <4>3. ASSUME NEW k \in (j + 2)..(n + 1)
                  PROVE  q.steps[k].var # x
                <5>1. k = n + 1 \/ k \in (j + 2)..n
                    BY <1>1, <4>1
                <5>2. k \in (j + 2)..n => k \in 1..n
                    BY <1>1, <4>1
                <5> QED BY <1>6, <3>3, <4>1, <5>1, <5>2
            <4>4. j \in 0..n
                BY <1>1, <4>1
            <4> HIDE DEF j, q, n
            <4> QED BY <3>1, <3>5, <4>2, <4>3, <4>4 DEF j
        <3> QED BY <3>4, <3>5
    <2> QED BY <2>2, <2>3
<1> QED BY <1>7, <1>9, <1>10, <1>11 DEF PlannerInv

-----------------------------------------------------------------------------
\* The stack of contexts.

GoodFrame(f) ==
    /\ f \in Frames
    /\ DependencyOrder(f.plan)
    /\ BindsOwn(f.plan)
    /\ f.pc <= Len(f.plan) + 1

\* Frame d of stk was opened by the control-flow step frame d - 1 is at.
Waits(stk, d) ==
    LET outer == stk[d - 1]
        s == outer.plan[outer.pc].stmt
    IN  /\ outer.pc <= Len(outer.plan)
        /\ Ast[s].kind \in ControlKinds
        /\ Ast[s].kind = "while" =>
              /\ Holds(Ast[s].conds[1], Env(stk, d - 1)) = "true"
              /\ stk[d].iterations < MaxIterations

GoodStack(stk) ==
    /\ stk \in Seq(Frames)
    /\ \A d \in 1..Len(stk) : GoodFrame(stk[d])
    /\ \A d \in 2..Len(stk) : Waits(stk, d)

\* The control statement whose child context frame d of stk is.
OwnerIn(stk, d) == stk[d - 1].plan[stk[d - 1].pc].stmt

\* Whether frame d waits depends only on the frames around it and, in a while
\* loop, on its own iteration count.
LEMMA WaitsLocal ==
    ASSUME NEW s1, NEW s2, NEW d \in Nat, d >= 2, Waits(s1, d),
           \A e \in 1..(d - 1) : s2[e] = s1[e],
           Ast[OwnerIn(s1, d)].kind = "while" => s2[d].iterations < MaxIterations
    PROVE  Waits(s2, d)
<1>1. d - 1 \in Nat /\ d - 1 \in 1..(d - 1)
    OBVIOUS
<1>2. Env(s1, d - 1) = Env(s2, d - 1)
    BY <1>1, EnvDependsOnVars
<1>3. s2[d - 1] = s1[d - 1]
    BY <1>1
<1> QED BY <1>2, <1>3 DEF Waits, OwnerIn

\* Exchanging the innermost frame.
LEMMA ReplaceTop ==
    ASSUME NEW stk, GoodStack(stk), stk # <<>>, NEW f, GoodFrame(f),
           Len(stk) > 1 /\ Ast[OwnerIn(stk, Len(stk))].kind = "while" =>
               f.iterations < MaxIterations
    PROVE  /\ GoodStack([stk EXCEPT ![Len(stk)] = f])
           /\ Len([stk EXCEPT ![Len(stk)] = f]) = Len(stk)
<1> DEFINE n == Len(stk)
           new == [stk EXCEPT ![n] = f]
<1>1. stk \in Seq(Frames) /\ n \in Nat \ {0} /\ f \in Frames
    BY EmptySeq DEF GoodStack, GoodFrame
<1>2. /\ new \in Seq(Frames)
      /\ Len(new) = n
      /\ \A j \in 1..n : new[j] = IF j = n THEN f ELSE stk[j]
    BY <1>1, ExceptSeq
<1>3. \A d \in 1..n : GoodFrame(new[d])
    BY <1>2 DEF GoodStack
<1>4. ASSUME NEW d \in 2..n
      PROVE  Waits(new, d)
    <2> HIDE DEF new
    <2>1. Waits(stk, d)
        BY DEF GoodStack
    <2>2. \A e \in 1..(d - 1) : new[e] = stk[e]
        BY <1>1, <1>2
    <2>3. Ast[OwnerIn(stk, d)].kind = "while" => new[d].iterations < MaxIterations
        <3>1. CASE d = n
            BY <1>1, <1>2, <3>1
        <3>2. CASE d # n
            <4>1. new[d] = stk[d]
                BY <1>1, <1>2, <3>2
            <4> QED BY <2>1, <4>1 DEF Waits, OwnerIn
        <3> QED BY <3>1, <3>2
    <2>4. d \in Nat /\ d >= 2
        BY <1>1
    <2> HIDE DEF new, n
    <2> QED BY <2>1, <2>2, <2>3, <2>4, WaitsLocal
<1> QED BY <1>2, <1>3, <1>4 DEF GoodStack

\* Opening a child context.
LEMMA Push ==
    ASSUME NEW stk, GoodStack(stk), stk # <<>>, NEW f, GoodFrame(f),
           LET top == stk[Len(stk)]
               s == top.plan[top.pc].stmt
           IN  /\ top.pc <= Len(top.plan)
               /\ Ast[s].kind \in ControlKinds
               /\ Ast[s].kind = "while" =>
                     /\ Holds(Ast[s].conds[1], Env(stk, Len(stk))) = "true"
                     /\ f.iterations < MaxIterations
    PROVE  /\ GoodStack(Append(stk, f))
           /\ Len(Append(stk, f)) = Len(stk) + 1
           /\ Append(stk, f)[1] = stk[1]
<1> DEFINE n == Len(stk)
           new == Append(stk, f)
<1>1. stk \in Seq(Frames) /\ n \in Nat \ {0} /\ f \in Frames
    BY EmptySeq DEF GoodStack, GoodFrame
<1>2. /\ new \in Seq(Frames)
      /\ Len(new) = n + 1
      /\ \A j \in 1..n : new[j] = stk[j]
      /\ new[n + 1] = f
    BY <1>1, AppendProperties
<1>3. \A d \in 1..(n + 1) : GoodFrame(new[d])
    BY <1>1, <1>2 DEF GoodStack
<1>4. ASSUME NEW d \in 2..n
      PROVE  Waits(new, d)
    <2>1. Waits(stk, d)
        BY DEF GoodStack
    <2>2. \A e \in 1..(d - 1) : new[e] = stk[e]
        BY <1>1, <1>2
    <2>3. Ast[OwnerIn(stk, d)].kind = "while" => new[d].iterations < MaxIterations
        <3>1. new[d] = stk[d]
            BY <1>1, <1>2
        <3> QED BY <2>1, <3>1 DEF Waits, OwnerIn
    <2>4. d \in Nat /\ d >= 2
        BY <1>1
    <2> HIDE DEF new, n
    <2> QED BY <2>1, <2>2, <2>3, <2>4, WaitsLocal
<1>5. Waits(new, n + 1)
    <2>1. Env(new, n) = Env(stk, n)
        <3>1. \A e \in 1..n : new[e].vars = stk[e].vars
            BY <1>2
        <3> HIDE DEF new
        <3> QED BY <1>1, <3>1, EnvDependsOnVars
    <2>2. (n + 1) - 1 = n /\ new[n] = stk[n]
        BY <1>1, <1>2
    <2> HIDE DEF new
    <2> QED BY <1>2, <2>1, <2>2 DEF Waits
<1>6. \A d \in 2..(n + 1) : Waits(new, d)
    <2> SUFFICES ASSUME NEW d \in 2..(n + 1)
                 PROVE  Waits(new, d)
        OBVIOUS
    <2>1. d = n + 1 \/ d \in 2..n
        BY <1>1
    <2> QED BY <1>4, <1>5, <2>1
<1> QED BY <1>1, <1>2, <1>3, <1>6 DEF GoodStack

\* Leaving a child context.
LEMMA Pop ==
    ASSUME NEW stk, GoodStack(stk), Len(stk) > 1
    PROVE  LET outer == SubSeq(stk, 1, Len(stk) - 1)
           IN  /\ GoodStack(outer)
               /\ Len(outer) = Len(stk) - 1
               /\ outer # <<>>
               /\ \A e \in 1..(Len(stk) - 1) : outer[e] = stk[e]
               /\ outer[Len(outer)].pc <= Len(outer[Len(outer)].plan)
<1> DEFINE n == Len(stk)
           outer == SubSeq(stk, 1, n - 1)
<1>1. stk \in Seq(Frames) /\ n \in Nat
    BY DEF GoodStack
<1>2. \A i \in 1..(n - 1) : stk[i] \in Frames
    BY <1>1
<1>3. /\ outer \in Seq(Frames)
      /\ Len(outer) = n - 1
      /\ \A e \in 1..(n - 1) : outer[e] = stk[e]
    BY <1>1, <1>2, SubSeqProperties
<1>4. \A d \in 1..(n - 1) : GoodFrame(outer[d])
    BY <1>1, <1>3 DEF GoodStack
<1>5. ASSUME NEW d \in 2..(n - 1)
      PROVE  Waits(outer, d)
    <2>1. Waits(stk, d)
        BY <1>1 DEF GoodStack
    <2>2. \A e \in 1..(d - 1) : outer[e] = stk[e]
        BY <1>1, <1>3
    <2>3. Ast[OwnerIn(stk, d)].kind = "while" => outer[d].iterations < MaxIterations
        <3>1. outer[d] = stk[d]
            BY <1>1, <1>3
        <3> QED BY <2>1, <3>1 DEF Waits, OwnerIn
    <2>4. d \in Nat /\ d >= 2
        BY <1>1
    <2> HIDE DEF outer, n
    <2> QED BY <2>1, <2>2, <2>3, <2>4, WaitsLocal
<1>6. stk[n - 1].pc <= Len(stk[n - 1].plan)
    BY <1>1 DEF GoodStack, Waits
<1>7. GoodStack(outer)
    BY <1>3, <1>4, <1>5 DEF GoodStack
<1>8. outer # <<>> /\ n - 1 \in 1..(n - 1)
    <2> HIDE DEF outer
    <2>1. Len(outer) # 0 /\ n - 1 \in 1..(n - 1)
        BY <1>1, <1>3
    <2> QED BY <2>1, EmptySeq
<1>9. outer[Len(outer)] = stk[n - 1]
    BY <1>3, <1>8
<1> HIDE DEF outer
<1> QED BY <1>3, <1>6, <1>7, <1>8, <1>9 DEF outer

\* A step that ends leaves its context a context, and its plan as it was.
LEMMA AdvanceGood ==
    ASSUME NEW f, GoodFrame(f), f.pc <= Len(f.plan), NEW v \in Values \union {Raised}
    PROVE  /\ GoodFrame(Advance(f, v))
           /\ Advance(f, v).pc = f.pc + 1
           /\ Advance(f, v).plan = f.plan
           /\ Advance(f, v).block = f.block
           /\ Advance(f, v).iterations = f.iterations
<1> DEFINE step == f.plan[f.pc]
           g == Advance(f, v)
<1>1. /\ f \in Frames /\ f.plan \in Seq(Steps) /\ f.pc \in Nat \ {0}
      /\ f.vars \in Envs
    BY DEF GoodFrame, Frames
<1>2. step \in Steps
    BY <1>1
<1>3. Bind(f.vars, step.var, v) \in Envs
    <2>1. step.var \in Vars \union {NoVar}
        BY <1>2 DEF Steps
    <2>2. CASE step.var = NoVar \/ v = Raised
        BY <1>1, <2>2 DEF Bind
    <2>3. CASE step.var # NoVar /\ v # Raised
        <3>1. step.var \in Vars /\ v \in Values
            BY <2>1, <2>3
        <3>2. [f.vars EXCEPT ![step.var] = v] \in [Vars -> Values \union {Undef}]
            BY <1>1, <3>1 DEF Envs
        <3> QED BY <2>3, <3>2 DEF Bind, Envs
    <2> QED BY <2>2, <2>3
<1>4. /\ g \in Frames /\ g.pc = f.pc + 1 /\ g.plan = f.plan
      /\ g.block = f.block /\ g.iterations = f.iterations
    <2> DEFINE B == Bind(f.vars, step.var, v)
    <2>1. g = [f EXCEPT !.vars = B, !.pc = f.pc + 1]
        BY DEF Advance
    <2>2. f.pc + 1 \in Nat \ {0} /\ B \in Envs
        BY <1>1, <1>3
    <2> HIDE DEF B, g
    <2>3. g = [vars |-> B, plan |-> f.plan, pc |-> f.pc + 1, block |-> f.block,
               items |-> f.items, iterations |-> f.iterations]
        BY <1>1, <2>1 DEF Frames
    <2> QED BY <1>1, <2>2, <2>3 DEF Frames
<1> QED BY <1>1, <1>4 DEF GoodFrame

-----------------------------------------------------------------------------
\* The inductive invariant.

ResultTypes == [index : Nat, status : {"success", "failed"}]

\* What execute has recorded matches its own frame, the first of the stack.
Bookkeeping(stk, res) ==
    /\ stk = <<>> => res = <<>>
    /\ stk # <<>> => stk[1].block = <<>> /\ Len(res) = stk[1].pc - 1

IInv ==
    /\ program \in Programs
    /\ phase \in {"plan", "run", "done"}
    /\ failed \subseteq Vars \union {NoVar}
    /\ results \in Seq(ResultTypes)
    /\ PlannerInv(planner)
    /\ GoodStack(stack)
    /\ Bookkeeping(stack, results)
    /\ stack = <<>> => phase = "plan"
    /\ phase = "plan" => Len(stack) # 1

\* The inductive invariant implies the invariants the runs check.
LEMMA IInvImplies ==
    IInv => TypeOK /\ PlanInDependencyOrder /\ StackDiscipline /\ WhileConditionFrozen
<1> SUFFICES ASSUME IInv
             PROVE  TypeOK /\ PlanInDependencyOrder /\ StackDiscipline /\ WhileConditionFrozen
    OBVIOUS
<1> USE DEF IInv
<1>1. TypeOK
    BY DEF TypeOK, PlannerInv, Planners, GoodStack, ResultTypes
<1>2. PlanInDependencyOrder
    BY DEF PlanInDependencyOrder, PlannerInv, GoodStack, GoodFrame
<1>3. StackDiscipline
    BY DEF StackDiscipline, Bookkeeping, GoodStack, GoodFrame, Waits, Owner
<1>4. WhileConditionFrozen
    BY DEF WhileConditionFrozen, GoodStack, Waits, Owner
<1> QED BY <1>1, <1>2, <1>3, <1>4

\* A step ends, in the innermost context or, as a block ends, in the one
\* around it: stk is the stack up to that context.
LEMMA StepEndsInv ==
    ASSUME NEW stk, GoodStack(stk), stk # <<>>, NEW v \in Values \union {Raised},
           stk[Len(stk)].pc <= Len(stk[Len(stk)].plan),
           results \in Seq(ResultTypes), Bookkeeping(stk, results),
           failed \subseteq Vars \union {NoVar}, StepEnds(stk, v)
    PROVE  /\ GoodStack(stack')
           /\ Len(stack') = Len(stk)
           /\ results' \in Seq(ResultTypes)
           /\ Bookkeeping(stack', results')
           /\ failed' \subseteq Vars \union {NoVar}
           /\ \A d \in 1..(Len(stk) - 1) : stack'[d] = stk[d]
           /\ stack'[Len(stk)] = Advance(stk[Len(stk)], v)
<1> DEFINE n == Len(stk)
           top == stk[n]
           f == Advance(top, v)
           step == top.plan[top.pc]
<1>1. /\ stk \in Seq(Frames) /\ n \in Nat \ {0} /\ n \in 1..n
      /\ GoodFrame(top)
    BY EmptySeq DEF GoodStack
<1>2. stack' = [stk EXCEPT ![n] = f]
    BY DEF StepEnds
<1>3. /\ GoodFrame(f) /\ f.pc = top.pc + 1 /\ f.block = top.block
      /\ f.iterations = top.iterations
    BY <1>1, AdvanceGood
<1>4. GoodStack(stack') /\ Len(stack') = n
    <2>1. n > 1 /\ Ast[OwnerIn(stk, n)].kind = "while" => f.iterations < MaxIterations
        <3>1. n > 1 => Waits(stk, n)
            BY <1>1 DEF GoodStack
        <3> QED BY <1>3, <3>1 DEF Waits, OwnerIn
    <2> QED BY <1>2, <1>3, <2>1, ReplaceTop
<1>5. \A d \in 1..n : stack'[d] = IF d = n THEN f ELSE stk[d]
    BY <1>1, <1>2, <1>3, ExceptSeq DEF GoodFrame
<1>6. step \in Steps /\ step.index \in Nat
    <2>1. top.plan \in Seq(Steps) /\ top.pc \in 1..Len(top.plan)
        BY <1>1 DEF GoodFrame, Frames
    <2>2. step \in Steps
        BY <2>1, ElementOfSeq
    <2> QED BY <2>2 DEF Steps
<1>7. results' \in Seq(ResultTypes)
    <2>1. Recorded(step, v) \in ResultTypes
        BY <1>6 DEF Recorded, ResultTypes
    <2>2. results' = IF n = 1 THEN Append(results, Recorded(step, v)) ELSE results
        BY DEF StepEnds
    <2> QED BY <2>1, <2>2, AppendProperties
<1>8. Bookkeeping(stack', results')
    <2>1. stack' # <<>> /\ stk[1].block = <<>> /\ Len(results) = stk[1].pc - 1
        BY <1>1, <1>4, EmptySeq DEF Bookkeeping
    <2>2. CASE n = 1
        <3>1. stack'[1] = f /\ f.pc = stk[1].pc + 1 /\ f.block = stk[1].block
            BY <1>3, <1>5, <2>2
        <3>2. results' = Append(results, Recorded(step, v))
            BY <2>2 DEF StepEnds
        <3>3. Len(results') = Len(results) + 1
            BY <3>2
        <3>4. stk[1].pc \in Nat
            BY <1>1, <2>2 DEF GoodFrame, Frames
        <3> HIDE DEF f, n
        <3> QED BY <2>1, <3>1, <3>3, <3>4 DEF Bookkeeping
    <2>3. CASE n # 1
        <3>1. stack'[1] = stk[1] /\ results' = results
            BY <1>1, <1>5, <2>3 DEF StepEnds
        <3> QED BY <2>1, <3>1 DEF Bookkeeping
    <2> QED BY <2>2, <2>3
<1>9. failed' \subseteq Vars \union {NoVar}
    BY <1>6 DEF StepEnds, Steps
<1>10. \A d \in 1..(n - 1) : stack'[d] = stk[d]
    <2> HIDE DEF f
    <2> QED BY <1>1, <1>5
<1>11. stack'[n] = f
    BY <1>1, <1>5
<1> QED BY <1>4, <1>7, <1>8, <1>9, <1>10, <1>11

\* The step that runs, its statement and what it sees of the variables.
LEMMA CurrentStepType ==
    ASSUME IInv, phase = "run", Top.pc <= Len(Top.plan)
    PROVE  /\ stack # <<>> /\ Len(stack) \in Nat \ {0}
           /\ GoodFrame(Top)
           /\ CurrentStep \in Steps
           /\ CurrentStep.stmt \in Stmts
           /\ CurrentStep.var = ResultVar(CurrentStep.stmt)
           /\ Env(stack, Len(stack)) \in Envs
<1>1. stack # <<>> /\ stack \in Seq(Frames) /\ Len(stack) \in Nat \ {0}
    BY EmptySeq DEF IInv, GoodStack
<1>2. GoodFrame(Top)
    BY <1>1 DEF IInv, GoodStack, Top
<1>3. Top.plan \in Seq(Steps) /\ Top.pc \in 1..Len(Top.plan)
    BY <1>2 DEF GoodFrame, Frames
<1>4. CurrentStep \in Steps
    BY <1>3, ElementOfSeq DEF CurrentStep
<1>5. CurrentStep.stmt \in Stmts
    BY <1>4 DEF Steps
<1>6. CurrentStep.var = ResultVar(CurrentStep.stmt)
    BY <1>2, <1>3 DEF GoodFrame, BindsOwn, CurrentStep
<1>7. Env(stack, Len(stack)) \in Envs
    BY <1>1, EnvType
<1> QED BY <1>1, <1>2, <1>4, <1>5, <1>6, <1>7

\* A leaf step, or a control-flow step that opens no context, ends.
LEMMA TopStepEndsInv ==
    ASSUME IInv, phase = "run", Top.pc <= Len(Top.plan),
           NEW v \in Values \union {Raised}, StepEnds(stack, v),
           UNCHANGED <<program, phase, planner>>
    PROVE  IInv'
<1>1. stack # <<>> /\ Len(stack) \in Nat \ {0}
    BY CurrentStepType
<1>2. /\ GoodStack(stack') /\ Len(stack') = Len(stack)
      /\ results' \in Seq(ResultTypes) /\ Bookkeeping(stack', results')
      /\ failed' \subseteq Vars \union {NoVar}
    BY <1>1, StepEndsInv DEF IInv, Top
<1>3. GoodStack(stack)' /\ Bookkeeping(stack, results)' /\ PlannerInv(planner)'
    BY <1>2 DEF IInv
<1>4. stack' # <<>>
    BY <1>1, <1>2
<1> QED BY <1>2, <1>3, <1>4 DEF IInv

\* A block ends, and with it the control-flow step that opened its context.
LEMMA OuterStepEndsInv ==
    ASSUME IInv, phase = "run", Len(stack) > 1,
           NEW v \in Values \union {Raised}, StepEnds(Outer, v),
           UNCHANGED <<program, phase, planner>>
    PROVE  IInv'
<1>1. /\ GoodStack(Outer) /\ Outer # <<>>
      /\ Len(Outer) = Len(stack) - 1
      /\ Outer[Len(Outer)].pc <= Len(Outer[Len(Outer)].plan)
      /\ \A e \in 1..(Len(stack) - 1) : Outer[e] = stack[e]
    BY Pop DEF IInv, Outer
<1>2. stack \in Seq(Frames) /\ Len(stack) \in Nat /\ stack # <<>>
    BY DEF IInv, GoodStack
<1>3. Bookkeeping(Outer, results)
    <2>1. Outer[1] = stack[1]
        BY <1>1, <1>2
    <2> QED BY <1>1, <1>2, <2>1 DEF IInv, Bookkeeping
<1>4. /\ GoodStack(stack') /\ Len(stack') = Len(Outer)
      /\ results' \in Seq(ResultTypes) /\ Bookkeeping(stack', results')
      /\ failed' \subseteq Vars \union {NoVar}
    BY <1>1, <1>3, StepEndsInv DEF IInv
<1>5. stack' # <<>>
    <2>1. Len(stack') # 0
        BY <1>1, <1>2, <1>4
    <2> QED BY <2>1, EmptySeq
<1>6. GoodStack(stack)' /\ Bookkeeping(stack, results)' /\ PlannerInv(planner)'
    BY <1>4 DEF IInv
<1> QED BY <1>4, <1>5, <1>6 DEF IInv

\* A control-flow step opens a child context.
LEMMA EnterInv ==
    ASSUME IInv, phase = "run", Top.pc <= Len(Top.plan),
           Ast[CurrentStep.stmt].kind \in ControlKinds,
           NEW f, GoodFrame(f), Enter(f),
           Ast[CurrentStep.stmt].kind = "while" =>
               /\ Holds(Ast[CurrentStep.stmt].conds[1], Env(stack, Len(stack))) = "true"
               /\ f.iterations < MaxIterations,
           UNCHANGED <<program, phase, planner>>
    PROVE  IInv'
<1>1. stack # <<>> /\ Len(stack) \in Nat \ {0}
    BY CurrentStepType
<1>2. /\ GoodStack(Append(stack, f))
      /\ Len(Append(stack, f)) = Len(stack) + 1
      /\ Append(stack, f)[1] = stack[1]
    BY <1>1, Push DEF IInv, Top, CurrentStep
<1>3. stack' = Append(stack, f) /\ UNCHANGED <<results, failed>>
    BY DEF Enter
<1>4. stack' # <<>>
    <2>1. Len(stack') # 0
        BY <1>1, <1>2, <1>3
    <2> QED BY <2>1, EmptySeq
<1>5. GoodStack(stack)' /\ PlannerInv(planner)'
    BY <1>2, <1>3 DEF IInv
<1>6. Bookkeeping(stack, results)'
    BY <1>1, <1>2, <1>3, <1>4 DEF IInv, Bookkeeping
<1> QED BY <1>3, <1>4, <1>5, <1>6 DEF IInv

\* A block's next statement, the next item or iteration: the innermost frame
\* is exchanged for one of the same loop.
LEMMA TopFrameInv ==
    ASSUME IInv, Len(stack) > 1, NEW f, GoodFrame(f),
           Ast[OpenedBy].kind = "while" => f.iterations < MaxIterations,
           stack' = [stack EXCEPT ![Len(stack)] = f],
           PlannerInv(planner'), phase' \in {"plan", "run"},
           UNCHANGED <<program, results, failed>>
    PROVE  IInv'
<1>1. stack \in Seq(Frames) /\ Len(stack) \in Nat /\ stack # <<>>
    BY DEF IInv, GoodStack
<1>2. GoodStack(stack') /\ Len(stack') = Len(stack)
    BY <1>1, ReplaceTop DEF IInv, OpenedBy, OwnerIn
<1>3. stack'[1] = stack[1]
    BY <1>1, ExceptSeq DEF GoodFrame
<1>4. stack' # <<>>
    BY <1>2, EmptySeq
<1>5. GoodStack(stack)' /\ PlannerInv(planner)'
    BY <1>2
<1>6. Bookkeeping(stack, results)'
    BY <1>1, <1>3, <1>4 DEF IInv, Bookkeeping
<1> QED BY <1>2, <1>4, <1>5, <1>6 DEF IInv

\* Fresh contexts are good frames: they have no plan yet.
LEMMA NewFrameGood ==
    ASSUME NEW env \in Envs, NEW block \in Seq(Stmts), NEW items \in Seq(Values)
    PROVE  GoodFrame(NewFrame(env, block, items))
<1> DEFINE f == NewFrame(env, block, items)
<1>1. f \in Frames /\ f.plan = <<>> /\ f.pc = 1
    BY DEF NewFrame, Frames
<1>2. DependencyOrder(f.plan) /\ BindsOwn(f.plan)
    BY <1>1 DEF DependencyOrder, BindsOwn
<1>3. f.pc <= Len(f.plan) + 1
    BY <1>1
<1> QED BY <1>1, <1>2, <1>3 DEF GoodFrame

\* A context in which nothing is bound is a context.
LEMMA EmptyEnvType == EmptyEnv \in Envs
    BY DEF EmptyEnv, Envs

\* The child context of a for statement's item is a good frame.
LEMMA ItemFrameGood ==
    ASSUME NEW s \in Stmts, Ast[s].kind = "for", NEW items \in Seq(Values), items # <<>>
    PROVE  GoodFrame(ItemFrame(s, items)) /\ ItemFrame(s, items).iterations = 0
<1>1. /\ Ast[s].name \in Vars
      /\ Ast[s].blocks \in Seq(Seq(Stmts)) /\ Len(Ast[s].blocks) = 1
    BY NodeType DEF Nodes, WellFormed
<1>2. Ast[s].blocks[1] \in Seq(Stmts)
    BY <1>1, ElementOfSeq
<1>3. Head(items) \in Values /\ Tail(items) \in Seq(Values)
    BY HeadTailProperties
<1>4. [EmptyEnv EXCEPT ![Ast[s].name] = Head(items)] \in Envs
    BY <1>1, <1>3 DEF EmptyEnv, Envs
<1> QED BY <1>2, <1>3, <1>4, NewFrameGood DEF ItemFrame, NewFrame

\* The child context of a while statement's iteration is a good frame.
LEMMA IterationFrameGood ==
    ASSUME NEW s \in Stmts, Ast[s].kind = "while", NEW k \in Nat
    PROVE  GoodFrame(IterationFrame(s, k)) /\ IterationFrame(s, k).iterations = k
<1>1. Ast[s].blocks \in Seq(Seq(Stmts)) /\ Len(Ast[s].blocks) = 1
    BY NodeType DEF Nodes, WellFormed
<1>2. Ast[s].blocks[1] \in Seq(Stmts)
    BY <1>1, ElementOfSeq
<1> DEFINE f == NewFrame(EmptyEnv, Ast[s].blocks[1], <<>>)
           g == IterationFrame(s, k)
<1>3. GoodFrame(f)
    <2>1. <<>> \in Seq(Values)
        OBVIOUS
    <2> HIDE DEF f
    <2> QED BY <1>2, <2>1, EmptyEnvType, NewFrameGood DEF f
<1>4. g = [f EXCEPT !.iterations = k]
    BY DEF IterationFrame
<1>5. g \in Frames /\ g.plan = f.plan /\ g.pc = f.pc /\ g.iterations = k
    <2> HIDE DEF f, g
    <2> QED BY <1>3, <1>4 DEF GoodFrame, Frames
<1> QED BY <1>3, <1>5 DEF GoodFrame

\* null, and an exception, are outcomes an expression can have.
LEMMA NullType == NullV \in Values \union {Raised} /\ Raised \in Values \union {Raised}
    BY DEF NullV, Values

\* What is left to plan does not matter to the plan.
LEMMA WorkInv ==
    ASSUME NEW p, PlannerInv(p), NEW w \in Seq(Seq(Stmts))
    PROVE  PlannerInv([p EXCEPT !.work = w])
BY DEF PlannerInv, Planners

-----------------------------------------------------------------------------
\* Each action preserves the invariant.

\* The invariant holds when the program's block is handed to plan.
LEMMA InitInv == Init => IInv
<1> SUFFICES ASSUME Init
             PROVE  IInv
    OBVIOUS
<1>1. program \in Seq(Stmts) /\ program \in Programs
    BY ScriptAssumption DEF Init
<1>2. PlannerInv(planner)
    BY <1>1, NewPlannerInv DEF Init
<1>3. GoodStack(stack) /\ Bookkeeping(stack, results) /\ Len(stack) = 0
    BY DEF Init, GoodStack, Bookkeeping
<1>4. results \in Seq(ResultTypes) /\ failed \subseteq Vars \union {NoVar}
    <2>1. results = <<>>
        BY DEF Init
    <2>2. failed = {}
        BY DEF Init
    <2> QED BY <2>1, <2>2, EmptySeq
<1>5. phase = "plan"
    BY DEF Init
<1> QED BY <1>1, <1>2, <1>3, <1>4, <1>5 DEF IInv

\* Planning a statement keeps the invariant.
LEMMA PlanStatementInv == IInv /\ PlanStatement => IInv'
<1> SUFFICES ASSUME IInv, PlanStatement
             PROVE  IInv'
    OBVIOUS
<1> DEFINE block == Head(planner.work)
           s == Head(block)
           w == Ast[s].blocks \o <<Tail(block)>> \o Tail(planner.work)
<1>1. planner.work \in Seq(Seq(Stmts)) /\ planner.work # <<>> /\ block # <<>>
    BY DEF PlanStatement, IInv, PlannerInv, Planners
<1>2. block \in Seq(Stmts) /\ Tail(planner.work) \in Seq(Seq(Stmts))
    BY <1>1, HeadTailProperties
<1>3. s \in Stmts /\ Tail(block) \in Seq(Stmts)
    BY <1>1, <1>2, HeadTailProperties
<1>4. Ast[s].blocks \in Seq(Seq(Stmts))
    BY <1>3, NodeType DEF Nodes
<1>5. w \in Seq(Seq(Stmts))
    <2>1. <<Tail(block)>> \in Seq(Seq(Stmts))
        BY <1>3
    <2> HIDE DEF block, s
    <2> QED BY <1>2, <1>4, <2>1, ConcatProperties
<1>6. PlannerInv(AddStep(planner, s)) /\ AddStep(planner, s).work = planner.work
    BY <1>3, AddStepInv DEF IInv, AddStep, PlannerInv, Planners
<1>7. planner' = [AddStep(planner, s) EXCEPT !.work = w]
    BY <1>6 DEF PlanStatement
<1>8. PlannerInv(planner')
    BY <1>5, <1>6, <1>7, WorkInv
<1>9. PlannerInv(planner)' /\ GoodStack(stack)' /\ Bookkeeping(stack, results)'
    BY <1>8 DEF PlanStatement, IInv
<1> QED BY <1>9 DEF PlanStatement, IInv

\* So does the end of a nested block in plan.
LEMMA PlanBlockDoneInv == IInv /\ PlanBlockDone => IInv'
<1> SUFFICES ASSUME IInv, PlanBlockDone
             PROVE  IInv'
    OBVIOUS
<1>1. planner.work \in Seq(Seq(Stmts)) /\ planner.work # <<>>
    BY DEF PlanBlockDone, IInv, PlannerInv, Planners
<1>2. Tail(planner.work) \in Seq(Seq(Stmts))
    BY <1>1, HeadTailProperties
<1>3. PlannerInv(planner')
    BY <1>2, WorkInv DEF PlanBlockDone, IInv
<1>4. PlannerInv(planner)' /\ GoodStack(stack)' /\ Bookkeeping(stack, results)'
    BY <1>3 DEF PlanBlockDone, IInv
<1> QED BY <1>4 DEF PlanBlockDone, IInv

\* The plan execute is given is well formed.
LEMMA PlanReturnsInv == IInv /\ PlanReturns => IInv'
<1> SUFFICES ASSUME IInv, PlanReturns
             PROVE  IInv'
    OBVIOUS
<1>1. /\ planner.steps \in Seq(Steps)
      /\ DependencyOrder(planner.steps) /\ BindsOwn(planner.steps)
    BY DEF IInv, PlannerInv, Planners
<1>2. Len(planner.steps) \in Nat
    BY <1>1
<1>3. CASE stack = <<>>
    <2> DEFINE g == NewFrame(EmptyEnv, <<>>, <<>>)
               f == [g EXCEPT !.plan = planner.steps]
    <2>1. GoodFrame(g) /\ g.pc = 1 /\ g.block = <<>>
        <3>1. <<>> \in Seq(Stmts) /\ <<>> \in Seq(Values)
            OBVIOUS
        <3> QED BY <3>1, EmptyEnvType, NewFrameGood DEF NewFrame
    <2>2. f \in Frames /\ f.plan = planner.steps /\ f.pc = 1 /\ f.block = <<>>
        <3> HIDE DEF g
        <3> QED BY <1>1, <2>1 DEF GoodFrame, Frames
    <2>3. GoodFrame(f)
        BY <1>1, <1>2, <2>2 DEF GoodFrame
    <2>4. stack' = <<f>>
        BY <1>3 DEF PlanReturns
    <2> HIDE DEF f
    <2>5. GoodStack(stack') /\ stack' # <<>>
        BY <2>2, <2>3, <2>4 DEF GoodStack
    <2>6. Bookkeeping(stack', results')
        <3>1. results' = <<>> /\ Len(<<>>) = 0
            BY <1>3 DEF IInv, Bookkeeping, PlanReturns
        <3> QED BY <2>2, <2>4, <3>1 DEF Bookkeeping
    <2>7. PlannerInv(planner)' /\ GoodStack(stack)' /\ Bookkeeping(stack, results)'
        BY <2>5, <2>6 DEF PlanReturns, IInv
    <2> QED BY <2>5, <2>7 DEF PlanReturns, IInv
<1>4. CASE stack # <<>>
    <2> DEFINE top == stack[Len(stack)]
               f == [top EXCEPT !.plan = planner.steps, !.pc = 1]
    <2>1. /\ stack \in Seq(Frames) /\ Len(stack) > 1
          /\ GoodFrame(top) /\ Waits(stack, Len(stack))
        <3>1. stack \in Seq(Frames) /\ Len(stack) \in Nat \ {0}
            BY <1>4, EmptySeq DEF IInv, GoodStack
        <3>2. phase = "plan" /\ Len(stack) # 1
            BY DEF IInv, PlanReturns
        <3>3. Len(stack) > 1
            <4>1. \A n \in Nat \ {0} : n # 1 => n > 1
                OBVIOUS
            <4> QED BY <3>1, <3>2, <4>1
        <3> QED BY <3>1, <3>3 DEF IInv, GoodStack
    <2>2. f = [vars |-> top.vars, plan |-> planner.steps, pc |-> 1, block |-> top.block,
               items |-> top.items, iterations |-> top.iterations]
        <3>1. f = [top EXCEPT !.plan = planner.steps, !.pc = 1]
            OBVIOUS
        <3> HIDE DEF top, f
        <3> QED BY <2>1, <3>1 DEF GoodFrame, Frames
    <2>3. /\ f \in Frames /\ f.plan = planner.steps /\ f.pc = 1
          /\ f.iterations = top.iterations
        <3> HIDE DEF top, f
        <3> QED BY <1>1, <2>1, <2>2 DEF GoodFrame, Frames
    <2>4. GoodFrame(f)
        <3> HIDE DEF f
        <3> QED BY <1>1, <1>2, <2>3 DEF GoodFrame
    <2>5. stack' = [stack EXCEPT ![Len(stack)] = f]
        BY <1>4 DEF PlanReturns
    <2>6. Ast[OpenedBy].kind = "while" => f.iterations < MaxIterations
        BY <2>1, <2>3 DEF Waits, OpenedBy
    <2>7. PlannerInv(planner')
        BY DEF PlanReturns, IInv
    <2> HIDE DEF f
    <2> QED BY <2>1, <2>4, <2>5, <2>6, <2>7, TopFrameInv DEF PlanReturns
<1> QED BY <1>3, <1>4

\* A let, a call and an output bind in the innermost context.
LEMMA ExecLeafInv == IInv /\ (ExecLet \/ ExecDbCall \/ ExecOutput) => IInv'
<1> SUFFICES ASSUME IInv, ExecLet \/ ExecDbCall \/ ExecOutput
             PROVE  IInv'
    OBVIOUS
<1>1. phase = "run" /\ Top.pc <= Len(Top.plan)
    BY DEF ExecLet, ExecDbCall, ExecOutput, Running
<1>2. CASE ExecLet
    <2>1. Ast[CurrentStep.stmt].expr \in Exprs /\ Env(stack, Len(stack)) \in Envs
        BY <1>1, CurrentStepType, NodeType DEF Nodes
    <2>2. Eval(Ast[CurrentStep.stmt].expr, Env(stack, Len(stack))) \in Values \union {Raised}
        BY <2>1, EvalType
    <2> QED BY <1>1, <1>2, <2>2, TopStepEndsInv DEF ExecLet
<1>3. CASE ExecDbCall
    <2>1. PICK v \in DbResults \union {Raised} : StepEnds(stack, v)
        BY <1>3 DEF ExecDbCall
    <2>2. v \in Values \union {Raised}
        BY ScriptAssumption
    <2> QED BY <1>1, <1>3, <2>1, <2>2, TopStepEndsInv DEF ExecDbCall
<1>4. CASE ExecOutput
    BY <1>1, <1>4, NullType, TopStepEndsInv DEF ExecOutput
<1> QED BY <1>2, <1>3, <1>4

\* The branch an if statement takes is a sequence of statements.
LEMMA BranchType ==
    ASSUME NEW s \in Stmts, Ast[s].kind = "if", NEW env
    PROVE  /\ Branch(s, env) \in 1..Len(Ast[s].blocks)
           /\ Ast[s].blocks[Branch(s, env)] \in Seq(Stmts)
<1>1. /\ Ast[s].conds \in Seq(Conds) /\ Ast[s].blocks \in Seq(Seq(Stmts))
      /\ Len(Ast[s].blocks) = Len(Ast[s].conds) + 1
    BY NodeType DEF Nodes, WellFormed
<1>2. Branch(s, env) \in 1..(Len(Ast[s].conds) + 1)
    <2> DEFINE conds == Ast[s].conds
    <2>1. CASE \E i \in 1..Len(conds) : FirstHit(conds, env, i)
        <3>1. (CHOOSE i \in 1..Len(conds) : FirstHit(conds, env, i)) \in 1..Len(conds)
            BY <2>1
        <3>2. Branch(s, env) \in 1..Len(conds)
            BY <2>1, <3>1 DEF Branch
        <3> QED BY <1>1, <3>2
    <2>2. CASE ~ \E i \in 1..Len(conds) : FirstHit(conds, env, i)
        <3>1. Branch(s, env) = Len(conds) + 1
            BY <2>2 DEF Branch
        <3> QED BY <1>1, <3>1
    <2> QED BY <2>1, <2>2
<1> QED BY <1>1, <1>2, ElementOfSeq

\* An if statement opens a context for its branch, or ends.
LEMMA ExecIfInv == IInv /\ ExecIf => IInv'
<1> SUFFICES ASSUME IInv, ExecIf
             PROVE  IInv'
    OBVIOUS
<1> DEFINE s == CurrentStep.stmt
           env == Env(stack, Len(stack))
           block == Ast[s].blocks[Branch(s, env)]
           f == NewFrame(EmptyEnv, block, <<>>)
<1>1. /\ phase = "run" /\ Top.pc <= Len(Top.plan)
      /\ Ast[s].kind = "if" /\ UNCHANGED <<program, phase, planner>>
    BY DEF ExecIf, Running
<1>2. s \in Stmts
    BY <1>1, CurrentStepType
<1>3. StepEnds(stack, Raised) \/ StepEnds(stack, NullV) \/ Enter(f)
    BY DEF ExecIf
<1>4. CASE StepEnds(stack, Raised) \/ StepEnds(stack, NullV)
    BY <1>1, <1>4, NullType, TopStepEndsInv
<1>5. CASE Enter(f)
    <2>1. block \in Seq(Stmts) /\ <<>> \in Seq(Values)
        BY <1>1, <1>2, BranchType
    <2> HIDE DEF block
    <2>2. GoodFrame(f)
        BY <2>1, EmptyEnvType, NewFrameGood
    <2>3. Ast[s].kind \in ControlKinds
        BY <1>1 DEF ControlKinds
    <2> HIDE DEF f
    <2> QED BY <1>1, <1>5, <2>2, <2>3, EnterInv
<1> QED BY <1>3, <1>4, <1>5

\* A for statement opens a context for its first item, or ends.
LEMMA ExecForInv == IInv /\ ExecFor => IInv'
<1> SUFFICES ASSUME IInv, ExecFor
             PROVE  IInv'
    OBVIOUS
<1> DEFINE s == CurrentStep.stmt
           v == Eval(Ast[s].expr, Env(stack, Len(stack)))
           f == ItemFrame(s, Items(v))
<1>1. /\ phase = "run" /\ Top.pc <= Len(Top.plan)
      /\ Ast[s].kind = "for" /\ UNCHANGED <<program, phase, planner>>
    BY DEF ExecFor, Running
<1>2. s \in Stmts /\ v \in Values \union {Raised}
    BY <1>1, CurrentStepType, NodeType, EvalType DEF Nodes
<1>3. \/ StepEnds(stack, Raised) \/ StepEnds(stack, NullV)
      \/ Enter(f) /\ v # Raised /\ Items(v) # <<>>
    BY DEF ExecFor
<1>4. CASE StepEnds(stack, Raised) \/ StepEnds(stack, NullV)
    BY <1>1, <1>4, NullType, TopStepEndsInv
<1>5. CASE Enter(f) /\ v # Raised /\ Items(v) # <<>>
    <2>1. Items(v) \in Seq(Values)
        BY <1>2, <1>5, ItemsType
    <2>2. GoodFrame(f)
        BY <1>1, <1>2, <1>5, <2>1, ItemFrameGood
    <2>3. Ast[s].kind \in ControlKinds
        BY <1>1 DEF ControlKinds
    <2> HIDE DEF f
    <2> QED BY <1>1, <1>5, <2>2, <2>3, EnterInv
<1> QED BY <1>3, <1>4, <1>5

\* A while statement opens a context for its first iteration, or ends.
LEMMA ExecWhileInv == IInv /\ ExecWhile => IInv'
<1> SUFFICES ASSUME IInv, ExecWhile
             PROVE  IInv'
    OBVIOUS
<1> DEFINE s == CurrentStep.stmt
           test == Holds(Ast[s].conds[1], Env(stack, Len(stack)))
           f == IterationFrame(s, 0)
<1>1. /\ phase = "run" /\ Top.pc <= Len(Top.plan)
      /\ Ast[s].kind = "while" /\ UNCHANGED <<program, phase, planner>>
    BY DEF ExecWhile, Running
<1>2. s \in Stmts
    BY <1>1, CurrentStepType
<1>3. \/ StepEnds(stack, Raised) \/ StepEnds(stack, NullV)
      \/ Enter(f) /\ test = "true"
    BY DEF ExecWhile
<1>4. CASE StepEnds(stack, Raised) \/ StepEnds(stack, NullV)
    BY <1>1, <1>4, NullType, TopStepEndsInv
<1>5. CASE Enter(f) /\ test = "true"
    <2>1. GoodFrame(f) /\ f.iterations = 0
        BY <1>1, <1>2, IterationFrameGood
    <2>2. Ast[s].kind \in ControlKinds /\ 0 < MaxIterations
        BY <1>1, ScriptAssumption DEF ControlKinds
    <2> HIDE DEF f
    <2> QED BY <1>1, <1>5, <2>1, <2>2, EnterInv
<1> QED BY <1>3, <1>4, <1>5

\* Where a plan has ended there is a context in which it has.
LEMMA InBlock ==
    ASSUME IInv, PlanEnded
    PROVE  /\ phase = "run" /\ stack # <<>> /\ Len(stack) \in Nat \ {0}
           /\ GoodFrame(Top) /\ Top \in Frames
<1>1. stack # <<>> /\ stack \in Seq(Frames) /\ Len(stack) \in Nat \ {0}
    BY EmptySeq DEF IInv, GoodStack, PlanEnded
<1>2. GoodFrame(Top)
    BY <1>1 DEF IInv, GoodStack, Top
<1> QED BY <1>1, <1>2 DEF GoodFrame, PlanEnded

\* A block plans its next statement in the innermost context.
LEMMA NextInBlockInv == IInv /\ NextInBlock => IInv'
<1> SUFFICES ASSUME IInv, NextInBlock
             PROVE  IInv'
    OBVIOUS
<1> DEFINE f == [Top EXCEPT !.block = Tail(Top.block)]
<1>1. /\ stack # <<>> /\ Len(stack) \in Nat \ {0} /\ GoodFrame(Top) /\ Top \in Frames
      /\ Top.block # <<>>
    BY InBlock DEF NextInBlock
<1>2. Len(stack) > 1
    <2>1. Len(stack) # 1
        <3>1. stack[1].block = <<>>
            BY <1>1 DEF IInv, Bookkeeping
        <3> QED BY <1>1, <3>1 DEF Top
    <2>2. \A n \in Nat \ {0} : n # 1 => n > 1
        OBVIOUS
    <2> QED BY <1>1, <2>1, <2>2
<1>3. /\ Top.block \in Seq(Stmts) /\ Head(Top.block) \in Stmts
      /\ Tail(Top.block) \in Seq(Stmts)
    BY <1>1, HeadTailProperties DEF Frames
<1>4. PlannerInv(planner')
    <2>1. <<Head(Top.block)>> \in Seq(Stmts)
        BY <1>3
    <2> QED BY <2>1, NewPlannerInv DEF NextInBlock
<1>5. /\ f \in Frames /\ f.plan = Top.plan /\ f.pc = Top.pc
      /\ f.iterations = Top.iterations
    <2>1. f = [Top EXCEPT !.block = Tail(Top.block)]
        OBVIOUS
    <2> HIDE DEF f
    <2> QED BY <1>1, <1>3, <2>1 DEF Frames
<1>6. GoodFrame(f)
    BY <1>1, <1>5 DEF GoodFrame
<1>7. Ast[OpenedBy].kind = "while" => f.iterations < MaxIterations
    <2>1. Waits(stack, Len(stack))
        BY <1>2 DEF IInv, GoodStack
    <2> QED BY <1>5, <2>1 DEF Waits, OpenedBy, Top
<1>8. stack' = [stack EXCEPT ![Len(stack)] = f]
    BY DEF NextInBlock, Top
<1> HIDE DEF f
<1> QED BY <1>2, <1>4, <1>6, <1>7, <1>8, TopFrameInv DEF NextInBlock

\* A block that ends was opened by a statement of the kind its action is for.
LEMMA BlockEndedType ==
    ASSUME IInv, NEW kind, BlockEnded(kind)
    PROVE  /\ phase = "run" /\ Len(stack) > 1 /\ Top \in Frames
           /\ OpenedBy \in Stmts /\ Ast[OpenedBy].kind = kind
<1>1. phase = "run" /\ Top \in Frames
    BY InBlock DEF BlockEnded
<1>2. Len(stack) > 1 /\ stack \in Seq(Frames) /\ Len(stack) \in Nat
    BY DEF BlockEnded, IInv, GoodStack
<1> DEFINE outer == stack[Len(stack) - 1]
<1>3. GoodFrame(outer) /\ outer.pc <= Len(outer.plan)
    BY <1>2 DEF IInv, GoodStack, Waits
<1>4. outer.plan \in Seq(Steps) /\ outer.pc \in 1..Len(outer.plan)
    BY <1>3 DEF GoodFrame, Frames
<1>5. outer.plan[outer.pc] \in Steps
    BY <1>4, ElementOfSeq
<1> QED BY <1>1, <1>2, <1>5 DEF Steps, OpenedBy, BlockEnded

\* An if statement ends with its branch.
LEMMA IfEndsInv == IInv /\ IfEnds => IInv'
BY BlockEndedType, NullType, OuterStepEndsInv DEF IfEnds

\* A for statement goes on to its next item, or ends.
LEMMA ForNextInv == IInv /\ ForNext => IInv'
<1> SUFFICES ASSUME IInv, ForNext
             PROVE  IInv'
    OBVIOUS
<1>1. /\ phase = "run" /\ Len(stack) > 1 /\ Top \in Frames
      /\ OpenedBy \in Stmts /\ Ast[OpenedBy].kind = "for"
    BY BlockEndedType DEF ForNext
<1>2. CASE Top.items = <<>>
    BY <1>1, <1>2, NullType, OuterStepEndsInv DEF ForNext
<1>3. CASE Top.items # <<>>
    <2> DEFINE f == ItemFrame(OpenedBy, Top.items)
    <2>1. Top.items \in Seq(Values)
        BY <1>1 DEF Frames
    <2>2. GoodFrame(f)
        BY <1>1, <1>3, <2>1, ItemFrameGood
    <2>3. /\ stack' = [stack EXCEPT ![Len(stack)] = f]
          /\ UNCHANGED <<program, phase, planner, results, failed>>
        BY <1>3 DEF ForNext
    <2>4. PlannerInv(planner')
        BY <2>3 DEF IInv
    <2> HIDE DEF f
    <2> QED BY <1>1, <2>2, <2>3, <2>4, TopFrameInv
<1> QED BY <1>2, <1>3

\* A while statement evaluates its condition again, or ends.
LEMMA WhileNextInv == IInv /\ WhileNext => IInv'
<1> SUFFICES ASSUME IInv, WhileNext
             PROVE  IInv'
    OBVIOUS
<1> DEFINE iterations == Top.iterations + 1
           f == IterationFrame(OpenedBy, iterations)
<1>1. /\ phase = "run" /\ Len(stack) > 1 /\ Top \in Frames
      /\ OpenedBy \in Stmts /\ Ast[OpenedBy].kind = "while"
    BY BlockEndedType DEF WhileNext
<1>2. \/ StepEnds(Outer, NullV) \/ StepEnds(Outer, Raised)
      \/ /\ stack' = [stack EXCEPT ![Len(stack)] = f]
         /\ UNCHANGED <<results, failed>>
         /\ iterations < MaxIterations
    BY DEF WhileNext
<1>3. UNCHANGED <<program, phase, planner>>
    BY DEF WhileNext
<1>4. CASE StepEnds(Outer, NullV) \/ StepEnds(Outer, Raised)
    BY <1>1, <1>3, <1>4, NullType, OuterStepEndsInv
<1>5. CASE /\ stack' = [stack EXCEPT ![Len(stack)] = f]
           /\ UNCHANGED <<results, failed>>
           /\ iterations < MaxIterations
    <2>1. iterations \in Nat
        BY <1>1 DEF Frames
    <2>2. GoodFrame(f) /\ f.iterations = iterations
        BY <1>1, <2>1, IterationFrameGood
    <2>3. PlannerInv(planner')
        BY <1>3 DEF IInv
    <2> HIDE DEF f
    <2> QED BY <1>1, <1>3, <1>5, <2>2, <2>3, TopFrameInv
<1> QED BY <1>2, <1>4, <1>5

\* execute returns at the end of its plan.
LEMMA FinishInv == IInv /\ Finish => IInv'
<1> SUFFICES ASSUME IInv, Finish
             PROVE  IInv'
    OBVIOUS
<1>1. stack # <<>>
    BY InBlock DEF Finish
<1>2. PlannerInv(planner)' /\ GoodStack(stack)' /\ Bookkeeping(stack, results)'
    BY DEF Finish, IInv
<1> QED BY <1>1, <1>2 DEF Finish, IInv

\* Stuttering keeps the invariant.
LEMMA StutterInv == IInv /\ UNCHANGED vars => IInv'
<1> SUFFICES ASSUME IInv, UNCHANGED vars
             PROVE  IInv'
    OBVIOUS
<1>1. PlannerInv(planner)' /\ GoodStack(stack)' /\ Bookkeeping(stack, results)'
    BY DEF vars, IInv
<1> QED BY <1>1 DEF vars, IInv

\* Every step keeps the invariant.
LEMMA NextInv == IInv /\ [Next]_vars => IInv'
<1> SUFFICES ASSUME IInv, [Next]_vars
             PROVE  IInv'
    OBVIOUS
<1>1. CASE PlanStatement
    BY <1>1, PlanStatementInv
<1>2. CASE PlanBlockDone
    BY <1>2, PlanBlockDoneInv
<1>3. CASE PlanReturns
    BY <1>3, PlanReturnsInv
<1>4. CASE ExecLet \/ ExecDbCall \/ ExecOutput
    BY <1>4, ExecLeafInv
<1>5. CASE ExecIf
    BY <1>5, ExecIfInv
<1>6. CASE ExecFor
    BY <1>6, ExecForInv
<1>7. CASE ExecWhile
    BY <1>7, ExecWhileInv
<1>8. CASE NextInBlock
    BY <1>8, NextInBlockInv
<1>9. CASE IfEnds
    BY <1>9, IfEndsInv
<1>10. CASE ForNext
    BY <1>10, ForNextInv
<1>11. CASE WhileNext
    BY <1>11, WhileNextInv
<1>12. CASE Finish
    BY <1>12, FinishInv
<1>13. CASE UNCHANGED vars
    BY <1>13, StutterInv
<1> QED BY <1>1, <1>2, <1>3, <1>4, <1>5, <1>6, <1>7, <1>8, <1>9, <1>10, <1>11,
           <1>12, <1>13 DEF Next

\* The invariant holds in every reachable state.
LEMMA Invariance == Spec => []IInv
<1>1. Init => IInv
    BY InitInv
<1>2. IInv /\ [Next]_vars => IInv'
    BY NextInv
<1> QED BY <1>1, <1>2, PTL DEF Spec

\* The state of the planner, of every context and of the results is well formed.
THEOREM TypeCorrect == Spec => []TypeOK
BY Invariance, IInvImplies, PTL

\* Every plan lists its steps after all the steps they depend on, and their
\* dependencies are exactly the latest earlier bindings.
THEOREM DependencyOrderHolds == Spec => []PlanInDependencyOrder
BY Invariance, IInvImplies, PTL

\* Only the innermost context runs, and execute's results count its steps.
THEOREM StackDisciplineHolds == Spec => []StackDiscipline
BY Invariance, IInvImplies, PTL

\* No body of a while statement, however deeply nested its control flow, can
\* make the loop's condition false.
THEOREM WhileConditionNeverChanges == Spec => []WhileConditionFrozen
BY Invariance, IInvImplies, PTL

-----------------------------------------------------------------------------
\* What a step may not do.

\* The control-flow step whose block ends binds no variable.
LEMMA ControlBindsNothing ==
    ASSUME IInv, Len(stack) > 1
    PROVE  Outer[Len(Outer)].plan[Outer[Len(Outer)].pc].var = NoVar
<1> DEFINE m == Len(stack) - 1
           s == Outer[m].plan[Outer[m].pc].stmt
<1>1. /\ Len(Outer) = m /\ Outer[m].pc <= Len(Outer[m].plan)
      /\ \A e \in 1..m : Outer[e] = stack[e]
    BY Pop DEF IInv, Outer
<1>2. stack \in Seq(Frames) /\ m \in Nat \ {0} /\ m \in 1..m
    BY DEF IInv, GoodStack
<1>3. Waits(stack, Len(stack)) /\ GoodFrame(Outer[m]) /\ Outer[m] = stack[m]
    BY <1>1, <1>2 DEF IInv, GoodStack
<1>4. Outer[m].plan[Outer[m].pc].var = ResultVar(s)
    <2>1. Outer[m].pc \in 1..Len(Outer[m].plan)
        BY <1>1, <1>3 DEF GoodFrame, Frames
    <2> QED BY <1>3, <2>1 DEF GoodFrame, BindsOwn
<1>5. Ast[s].kind \in ControlKinds
    BY <1>3 DEF Waits
<1> QED BY <1>1, <1>4, <1>5 DEF ResultVar, ControlKinds

\* A step that ends never touches the contexts around its own.
LEMMA OuterStepEndsVars ==
    ASSUME IInv, Len(stack) > 1, NEW v \in Values \union {Raised}, StepEnds(Outer, v)
    PROVE  /\ Len(stack') = Len(stack) - 1
           /\ \A d \in 1..(Len(stack) - 1) : stack'[d].vars = stack[d].vars
<1> DEFINE m == Len(stack) - 1
<1>1. /\ GoodStack(Outer) /\ Outer # <<>> /\ Len(Outer) = m
      /\ Outer[m].pc <= Len(Outer[m].plan)
      /\ \A e \in 1..m : Outer[e] = stack[e]
    BY Pop DEF IInv, Outer
<1>2. stack \in Seq(Frames) /\ m \in Nat \ {0} /\ m \in 1..m
    BY DEF IInv, GoodStack
<1>3. Bookkeeping(Outer, results)
    <2>1. Outer[1] = stack[1] /\ stack # <<>>
        BY <1>1, <1>2
    <2> QED BY <1>1, <2>1 DEF IInv, Bookkeeping
<1>4. /\ Len(stack') = m
      /\ \A d \in 1..(m - 1) : stack'[d] = Outer[d]
      /\ stack'[m] = Advance(Outer[m], v)
    BY <1>1, <1>3, StepEndsInv DEF IInv
<1>5. Outer[m].plan[Outer[m].pc].var = NoVar
    BY <1>1, ControlBindsNothing
<1>6. stack'[m].vars = Outer[m].vars
    <2>1. Outer[m] \in Frames
        BY <1>1, <1>2 DEF GoodStack
    <2> QED BY <1>4, <1>5, <2>1 DEF Advance, Bind, Frames
<1>7. ASSUME NEW d \in 1..m
      PROVE  stack'[d].vars = stack[d].vars
    <2>1. d = m \/ d \in 1..(m - 1)
        BY <1>2
    <2> HIDE DEF m
    <2> QED BY <1>1, <1>4, <1>6, <2>1
<1> QED BY <1>4, <1>7

\* A change of the innermost frame, or a new one, leaves the others alone.
LEMMA TopStepEndsVars ==
    ASSUME IInv, phase = "run", Top.pc <= Len(Top.plan),
           NEW v \in Values \union {Raised}, StepEnds(stack, v)
    PROVE  \A d \in 1..(Len(stack) - 1) : stack'[d].vars = stack[d].vars
<1>1. stack # <<>>
    BY CurrentStepType
<1>2. \A d \in 1..(Len(stack) - 1) : stack'[d] = stack[d]
    BY <1>1, StepEndsInv DEF IInv, Top
<1> QED BY <1>2

\* A change of the innermost frame's place leaves the other contexts' variables alone.
LEMMA TopFrameVars ==
    ASSUME IInv, NEW f, stack' = [stack EXCEPT ![Len(stack)] = f]
    PROVE  \A d \in 1..(Len(stack) - 1) : stack'[d] = stack[d]
BY DEF IInv, GoodStack

\* Opening a child context leaves the contexts around it alone.
LEMMA EnterVars ==
    ASSUME IInv, NEW f \in Frames, Enter(f)
    PROVE  \A d \in 1..Len(stack) : stack'[d] = stack[d]
BY AppendProperties DEF Enter, IInv, GoodStack

\* How a step changes the stack, the results and the phase.
StackKept == UNCHANGED <<stack, results>> /\ (phase' # phase => phase \in {"plan", "run"})
TopEnds == /\ phase = "run" /\ Top.pc <= Len(Top.plan)
           /\ \E v \in Values \union {Raised} : StepEnds(stack, v)
OuterEnds == /\ phase = "run" /\ Len(stack) > 1
             /\ \E v \in Values \union {Raised} : StepEnds(Outer, v)
Entered == \E f \in Frames : Enter(f)
TopReplaced == /\ Len(stack) > 1 /\ UNCHANGED results
               /\ \E f : stack' = [stack EXCEPT ![Len(stack)] = f]

\* What a step does to the stack: change its innermost frame, open one, or end one.
LEMMA StepCases ==
    ASSUME IInv, [Next]_vars
    PROVE  \/ StackKept /\ phase' # "done"
           \/ UNCHANGED <<stack, results, phase>>
           \/ Finish
           \/ PlanReturns
           \/ phase = "run" /\ phase' # "done" /\ (TopEnds \/ OuterEnds \/ Entered \/ TopReplaced)
<1>1. CASE PlanStatement
    BY <1>1 DEF PlanStatement, StackKept
<1>2. CASE PlanBlockDone
    BY <1>2 DEF PlanBlockDone, StackKept
<1>3. CASE ExecLet
    <2>1. phase = "run" /\ Top.pc <= Len(Top.plan) /\ phase' = phase
        BY <1>3 DEF ExecLet, Running
    <2>2. Ast[CurrentStep.stmt].expr \in Exprs /\ Env(stack, Len(stack)) \in Envs
        BY <2>1, CurrentStepType, NodeType DEF Nodes
    <2>3. Eval(Ast[CurrentStep.stmt].expr, Env(stack, Len(stack))) \in Values \union {Raised}
        BY <2>2, EvalType
    <2> QED BY <1>3, <2>1, <2>3 DEF ExecLet, TopEnds
<1>4. CASE ExecDbCall
    <2>1. PICK v \in DbResults \union {Raised} : StepEnds(stack, v)
        BY <1>4 DEF ExecDbCall
    <2>2. v \in Values \union {Raised}
        BY ScriptAssumption
    <2> QED BY <1>4, <2>1, <2>2 DEF ExecDbCall, Running, TopEnds
<1>5. CASE ExecOutput
    BY <1>5, NullType DEF ExecOutput, Running, TopEnds
<1>6. CASE ExecIf
    <2> DEFINE s == CurrentStep.stmt
               block == Ast[s].blocks[Branch(s, Env(stack, Len(stack)))]
               f == NewFrame(EmptyEnv, block, <<>>)
    <2>1. /\ phase = "run" /\ Top.pc <= Len(Top.plan) /\ phase' = phase
          /\ Ast[s].kind = "if"
        BY <1>6 DEF ExecIf, Running
    <2>2. StepEnds(stack, Raised) \/ StepEnds(stack, NullV) \/ Enter(f)
        BY <1>6 DEF ExecIf
    <2>3. f \in Frames
        <3>1. block \in Seq(Stmts) /\ <<>> \in Seq(Values)
            BY <2>1, CurrentStepType, BranchType
        <3> HIDE DEF block
        <3> QED BY <3>1, EmptyEnvType, NewFrameGood DEF GoodFrame
    <2> HIDE DEF f
    <2> QED BY <2>1, <2>2, <2>3, NullType DEF TopEnds, Entered
<1>7. CASE ExecFor
    <2> DEFINE s == CurrentStep.stmt
               v == Eval(Ast[s].expr, Env(stack, Len(stack)))
               f == ItemFrame(s, Items(v))
    <2>1. /\ phase = "run" /\ Top.pc <= Len(Top.plan) /\ phase' = phase
          /\ Ast[s].kind = "for"
        BY <1>7 DEF ExecFor, Running
    <2>2. s \in Stmts /\ v \in Values \union {Raised}
        BY <2>1, CurrentStepType, NodeType, EvalType DEF Nodes
    <2>3. \/ StepEnds(stack, Raised) \/ StepEnds(stack, NullV)
          \/ Enter(f) /\ v # Raised /\ Items(v) # <<>>
        BY <1>7 DEF ExecFor
    <2>4. v # Raised /\ Items(v) # <<>> => f \in Frames
        BY <2>1, <2>2, ItemsType, ItemFrameGood DEF GoodFrame
    <2> HIDE DEF f
    <2> QED BY <2>1, <2>3, <2>4, NullType DEF TopEnds, Entered
<1>8. CASE ExecWhile
    <2> DEFINE s == CurrentStep.stmt
               f == IterationFrame(s, 0)
    <2>1. /\ phase = "run" /\ Top.pc <= Len(Top.plan) /\ phase' = phase
          /\ Ast[s].kind = "while"
        BY <1>8 DEF ExecWhile, Running
    <2>2. StepEnds(stack, Raised) \/ StepEnds(stack, NullV) \/ Enter(f)
        BY <1>8 DEF ExecWhile
    <2>3. f \in Frames
        BY <2>1, CurrentStepType, IterationFrameGood DEF GoodFrame
    <2> HIDE DEF f
    <2> QED BY <2>1, <2>2, <2>3, NullType DEF TopEnds, Entered
<1>9. CASE NextInBlock
    <2>1. Len(stack) > 1
        <3>1. stack # <<>> /\ Len(stack) \in Nat \ {0} /\ Top.block # <<>>
            BY <1>9, InBlock DEF NextInBlock
        <3>2. stack[1].block = <<>>
            BY <3>1 DEF IInv, Bookkeeping
        <3>3. Len(stack) # 1
            BY <3>1, <3>2 DEF Top
        <3>4. \A n \in Nat \ {0} : n # 1 => n > 1
            OBVIOUS
        <3> QED BY <3>1, <3>3, <3>4
    <2>2. stack' = [stack EXCEPT ![Len(stack)] = [Top EXCEPT !.block = Tail(Top.block)]]
        BY <1>9 DEF NextInBlock, Top
    <2> QED BY <1>9, <2>1, <2>2 DEF NextInBlock, PlanEnded, TopReplaced
<1>10. CASE IfEnds
    BY <1>10, BlockEndedType, NullType DEF IfEnds, OuterEnds
<1>11. CASE ForNext
    <2>1. phase = "run" /\ Len(stack) > 1 /\ phase' = phase
        BY <1>11, BlockEndedType DEF ForNext
    <2>2. CASE Top.items = <<>>
        BY <1>11, <2>1, <2>2, NullType DEF ForNext, OuterEnds
    <2>3. CASE Top.items # <<>>
        BY <1>11, <2>1, <2>3 DEF ForNext, TopReplaced
    <2> QED BY <2>2, <2>3
<1>12. CASE WhileNext
    <2> DEFINE f == IterationFrame(OpenedBy, Top.iterations + 1)
    <2>1. phase = "run" /\ Len(stack) > 1 /\ phase' = phase
        BY <1>12, BlockEndedType DEF WhileNext
    <2>2. \/ StepEnds(Outer, NullV) \/ StepEnds(Outer, Raised)
          \/ stack' = [stack EXCEPT ![Len(stack)] = f] /\ UNCHANGED results
        BY <1>12 DEF WhileNext
    <2> HIDE DEF f
    <2> QED BY <2>1, <2>2, NullType DEF OuterEnds, TopReplaced
<1>13. CASE UNCHANGED vars
    BY <1>13 DEF vars
<1> QED BY <1>1, <1>2, <1>3, <1>4, <1>5, <1>6, <1>7, <1>8, <1>9, <1>10, <1>11,
           <1>12, <1>13 DEF Next

\* A step binds variables in the innermost context only.
THEOREM OuterContextsKept == Spec => OuterContextsUntouched
<1> DEFINE Untouched == \A d \in 1..Len(stack) :
               d < Len(stack) /\ d <= Len(stack') => stack'[d].vars = stack[d].vars
<1>1. IInv /\ [Next]_vars => Untouched
    <2> SUFFICES ASSUME IInv, [Next]_vars, NEW d \in 1..Len(stack),
                        d < Len(stack), d <= Len(stack')
                 PROVE  stack'[d].vars = stack[d].vars
        OBVIOUS
    <2>1. Len(stack) \in Nat /\ d \in 1..(Len(stack) - 1)
        BY DEF IInv, GoodStack
    <2>2. CASE UNCHANGED stack
        BY <2>2
    <2>3. CASE PlanReturns
        <3>1. stack # <<>>
            BY <2>1 DEF IInv, GoodStack
        <3>2. stack' = [stack EXCEPT ![Len(stack)] =
                           [@ EXCEPT !.plan = planner.steps, !.pc = 1]]
            BY <2>3, <3>1 DEF PlanReturns
        <3> QED BY <2>1, <3>2, TopFrameVars
    <2>4. CASE TopEnds
        BY <2>1, <2>4, TopStepEndsVars DEF TopEnds
    <2>5. CASE OuterEnds
        BY <2>1, <2>5, OuterStepEndsVars DEF OuterEnds
    <2>6. CASE Entered
        BY <2>6, EnterVars DEF Entered
    <2>7. CASE TopReplaced
        BY <2>1, <2>7, TopFrameVars DEF TopReplaced
    <2> QED BY <2>2, <2>3, <2>4, <2>5, <2>6, <2>7, StepCases DEF StackKept, Finish
<1>2. IInv /\ [Next]_vars => [Untouched]_vars
    BY <1>1
<1> QED BY <1>2, Invariance, PTL DEF Spec, OuterContextsUntouched

\* Running the body of a while statement never ends it: a while step whose
\* body has run fails, with MaxIterations iterations done.
THEOREM WhileEndsByLimitOnly == Spec => WhileEndsOnlyByLimit
<1> DEFINE Limit == BlockEnded("while") /\ Len(stack') < Len(stack) =>
                        Top.iterations + 1 = MaxIterations /\ NoVar \in failed'
<1>1. IInv /\ [Next]_vars => Limit
    <2> SUFFICES ASSUME IInv, [Next]_vars, BlockEnded("while"), Len(stack') < Len(stack)
                 PROVE  Top.iterations + 1 = MaxIterations /\ NoVar \in failed'
        OBVIOUS
    <2>1. /\ phase = "run" /\ Len(stack) > 1 /\ Top \in Frames
          /\ OpenedBy \in Stmts /\ Ast[OpenedBy].kind = "while"
        BY BlockEndedType
    <2>2. Len(stack) \in Nat /\ stack \in Seq(Frames)
        BY DEF IInv, GoodStack
    <2>3. WhileNext
        <3>1. Top.pc \in Nat /\ Len(Top.plan) \in Nat /\ Top.pc > Len(Top.plan)
            BY <2>1 DEF Frames, BlockEnded, PlanEnded
        <3>2. ~PlanStatement /\ ~PlanBlockDone /\ ~PlanReturns
            BY <2>1 DEF PlanStatement, PlanBlockDone, PlanReturns
        <3>3. ~(Top.pc <= Len(Top.plan))
            BY <3>1
        <3>4. ~ExecLet /\ ~ExecDbCall /\ ~ExecOutput /\ ~ExecIf /\ ~ExecFor /\ ~ExecWhile
            BY <3>3 DEF ExecLet, ExecDbCall, ExecOutput, ExecIf, ExecFor, ExecWhile, Running
        <3>5. ~NextInBlock /\ ~IfEnds /\ ~ForNext
            BY <2>1 DEF NextInBlock, IfEnds, ForNext, BlockEnded
        <3>6. ~Finish
            BY <2>1 DEF Finish
        <3>7. ~UNCHANGED vars
            BY <2>2 DEF vars
        <3> QED BY <3>2, <3>4, <3>5, <3>6, <3>7 DEF Next
    <2> DEFINE test == Holds(Ast[OpenedBy].conds[1], Env(stack, Len(stack) - 1))
               f == IterationFrame(OpenedBy, Top.iterations + 1)
    <2>4. test = "true" /\ Top.iterations < MaxIterations
        <3>1. Len(stack) \in 2..Len(stack)
            BY <2>1, <2>2
        <3>2. Waits(stack, Len(stack))
            BY <3>1 DEF IInv, GoodStack
        <3> QED BY <2>1, <3>2 DEF Waits, OpenedBy, Top
    <2>5. ~(stack' = [stack EXCEPT ![Len(stack)] = f])
        <3> HIDE DEF f
        <3> SUFFICES ASSUME stack' = [stack EXCEPT ![Len(stack)] = f]
                     PROVE  FALSE
            OBVIOUS
        <3>1. Len(stack') = Len(stack)
            BY <2>1, <2>2
        <3> QED BY <2>2, <3>1
    <2>6. /\ ~(Top.iterations + 1 < MaxIterations)
          /\ StepEnds(Outer, IF test = "false" THEN NullV ELSE Raised)
        BY <2>3, <2>4, <2>5 DEF WhileNext
    <2>7. Top.iterations + 1 = MaxIterations
        <3>1. Top.iterations \in Nat /\ MaxIterations \in Nat
            BY <2>1, ScriptAssumption DEF Frames
        <3>2. Top.iterations < MaxIterations /\ ~(Top.iterations + 1 < MaxIterations)
            BY <2>4, <2>6
        <3> HIDE DEF test, f
        <3> QED BY <3>1, <3>2
    <2>8. StepEnds(Outer, Raised)
        BY <2>4, <2>6
    <2>9. NoVar \in failed'
        <3>1. Outer[Len(Outer)].plan[Outer[Len(Outer)].pc].var = NoVar
            BY <2>1, ControlBindsNothing
        <3> QED BY <2>8, <3>1 DEF StepEnds
    <2> QED BY <2>7, <2>9
<1>2. IInv /\ [Next]_vars => [Limit]_vars
    BY <1>1
<1> QED BY <1>2, Invariance, PTL DEF Spec, WhileEndsOnlyByLimit

-----------------------------------------------------------------------------
\* Refinement of PartialFailure.

\* A step that ends adds an outcome exactly when it is a step of the plan
\* execute was given, and then the next one of that plan.
LEMMA OutcomeAdded ==
    ASSUME NEW stk, GoodStack(stk), stk # <<>>, NEW v \in Values \union {Raised},
           stk[Len(stk)].pc <= Len(stk[Len(stk)].plan),
           results \in Seq(ResultTypes), Bookkeeping(stk, results),
           failed \subseteq Vars \union {NoVar}, StepEnds(stk, v)
    PROVE  /\ stack' # <<>>
           /\ stack'[1].plan = stk[1].plan
           /\ \/ results' = results
              \/ /\ Len(results) < Len(stk[1].plan)
                 /\ \E status \in {"success", "failed"} :
                       results' = Append(results, [index |-> Len(results), status |-> status])
<1> DEFINE d == Len(stk)
           step == stk[d].plan[stk[d].pc]
<1>1. d \in Nat \ {0} /\ stk \in Seq(Frames)
    BY DEF GoodStack
<1>2. /\ Len(stack') = d
      /\ \A e \in 1..(d - 1) : stack'[e] = stk[e]
      /\ stack'[d] = Advance(stk[d], v)
    BY StepEndsInv
<1>3. stack' # <<>>
    BY <1>1, <1>2
<1>4. stack'[1].plan = stk[1].plan
    <2>1. stk[d] \in Frames
        BY <1>1
    <2>2. Advance(stk[d], v).plan = stk[d].plan
        BY <2>1 DEF Advance, Frames
    <2>3. CASE d = 1
        BY <1>2, <2>2, <2>3
    <2>4. CASE d # 1
        BY <1>1, <1>2, <2>4
    <2> QED BY <2>3, <2>4
<1>5. results' = IF d = 1 THEN Append(results, Recorded(step, v)) ELSE results
    BY DEF StepEnds
<1>6. CASE d = 1
    <2>1. GoodFrame(stk[1]) /\ Len(results) = stk[1].pc - 1 /\ stk[1].pc <= Len(stk[1].plan)
        BY <1>1, <1>6 DEF GoodStack, Bookkeeping
    <2>2. stk[1].pc \in 1..Len(stk[1].plan)
        BY <2>1 DEF GoodFrame, Frames
    <2>3. step.index = Len(results)
        BY <1>6, <2>1, <2>2 DEF GoodFrame, DependencyOrder
    <2>4. Len(results) < Len(stk[1].plan)
        BY <2>1, <2>2
    <2>5. PICK status \in {"success", "failed"} :
              Recorded(step, v) = [index |-> step.index, status |-> status]
        BY DEF Recorded
    <2> HIDE DEF d, step
    <2> QED BY <1>3, <1>4, <1>5, <1>6, <2>3, <2>4, <2>5
<1>7. CASE d # 1
    BY <1>3, <1>4, <1>5, <1>7
<1> QED BY <1>6, <1>7

\* Every script's run, its plan's outcomes and its return seen from outside,
\* is a behaviour of PartialFailure: one outcome per step of the plan, in
\* order, whatever fails inside and however deep.
THEOREM PartialFailureImplemented == Spec => ImplementsPartialFailure
<1>1. Init => Promise!Init
    BY DEF Init, Promise!Init
<1>2. IInv /\ [Next]_vars => [Promise!Next]_Promise!vars
    <2> SUFFICES ASSUME IInv, [Next]_vars
                 PROVE  [Promise!Next]_Promise!vars
        OBVIOUS
    <2>1. CASE UNCHANGED <<stack, results>> /\ (phase' = "done" <=> phase = "done")
        BY <2>1 DEF Promise!vars
    <2>2. CASE Finish
        <3>1. stack # <<>> /\ stack \in Seq(Frames) /\ GoodFrame(stack[1])
              /\ phase = "run" /\ Len(stack) = 1
            BY <2>2, InBlock DEF Finish, PlanEnded, IInv, GoodStack
        <3>2. Len(results) = Len(stack[1].plan)
            <4>1. stack[1].pc = Len(stack[1].plan) + 1
                BY <2>2, <3>1 DEF Finish, PlanEnded, Top, GoodFrame, Frames
            <4> QED BY <3>1, <4>1 DEF IInv, Bookkeeping, GoodFrame, Frames
        <3>3. Len(stack[1].plan) # -1
            BY <3>1 DEF GoodFrame, Frames
        <3> QED BY <2>2, <3>1, <3>2, <3>3 DEF Finish, Promise!Next, Promise!Return
    <2>3. CASE PlanReturns
        <3>1. phase = "plan" /\ phase' = "run" /\ UNCHANGED results
            BY <2>3 DEF PlanReturns
        <3>2. CASE stack = <<>>
            <4>1. stack' # <<>> /\ stack'[1].plan = planner.steps
                <5> DEFINE g == [NewFrame(EmptyEnv, <<>>, <<>>) EXCEPT !.plan = planner.steps]
                <5>1. stack' = <<g>> /\ g.plan = planner.steps
                    BY <2>3, <3>2 DEF PlanReturns, NewFrame
                <5> HIDE DEF g
                <5> QED BY <5>1
            <4>2. Len(planner.steps) \in Nat
                BY DEF IInv, PlannerInv, Planners
            <4> QED BY <3>1, <3>2, <4>1, <4>2 DEF Promise!Next, Promise!Plan
        <3>3. CASE stack # <<>>
            <4>1. Len(stack) \in Nat \ {0, 1} /\ stack \in Seq(Frames)
                BY <3>1, <3>3 DEF IInv, GoodStack
            <4> DEFINE f == [Top EXCEPT !.plan = planner.steps, !.pc = 1]
            <4>2. stack' = [stack EXCEPT ![Len(stack)] = f]
                BY <2>3, <3>3 DEF PlanReturns, Top
            <4> HIDE DEF f
            <4>3. stack' # <<>> /\ stack'[1] = stack[1]
                BY <4>1, <4>2
            <4> QED BY <3>1, <3>3, <4>3 DEF Promise!vars
        <3> QED BY <3>2, <3>3
    <2>4. ASSUME NEW stk, GoodStack(stk), stk # <<>>, stack # <<>>,
                 stk[1] = stack[1], NEW v \in Values \union {Raised},
                 stk[Len(stk)].pc <= Len(stk[Len(stk)].plan),
                 StepEnds(stk, v), phase = "run", phase' # "done"
          PROVE  [Promise!Next]_Promise!vars
        <3>1. Bookkeeping(stk, results) /\ results \in Seq(ResultTypes)
              /\ failed \subseteq Vars \union {NoVar}
            BY <2>4 DEF IInv, Bookkeeping
        <3>2. /\ stack' # <<>>
              /\ stack'[1].plan = stack[1].plan
              /\ \/ results' = results
                 \/ /\ Len(results) < Len(stack[1].plan)
                    /\ \E status \in {"success", "failed"} :
                          results' = Append(results, [index |-> Len(results), status |-> status])
            BY <2>4, <3>1, OutcomeAdded
        <3>3. Len(stack[1].plan) # -1
            BY <2>4 DEF GoodStack, GoodFrame, Frames
        <3>4. CASE results' = results
            BY <2>4, <3>2, <3>4 DEF Promise!vars
        <3>5. CASE results' # results
            BY <2>4, <3>2, <3>3, <3>5 DEF Promise!Next, Promise!Step
        <3> QED BY <3>4, <3>5
    <2>5. CASE TopEnds /\ phase' # "done"
        <3>1. stack # <<>> /\ GoodStack(stack)
            BY <2>5, CurrentStepType DEF TopEnds, IInv
        <3>2. PICK v \in Values \union {Raised} : StepEnds(stack, v)
            BY <2>5 DEF TopEnds
        <3> QED BY <2>4, <2>5, <3>1, <3>2 DEF TopEnds, Top
    <2>6. CASE OuterEnds /\ phase' # "done"
        <3>1. Len(stack) > 1 /\ phase = "run"
            BY <2>6 DEF OuterEnds
        <3>2. PICK v \in Values \union {Raised} : StepEnds(Outer, v)
            BY <2>6 DEF OuterEnds
        <3>3. /\ GoodStack(Outer) /\ Outer # <<>> /\ Outer[1] = stack[1] /\ stack # <<>>
              /\ Outer[Len(Outer)].pc <= Len(Outer[Len(Outer)].plan)
            BY <3>1, Pop DEF IInv, Outer, GoodStack
        <3> QED BY <2>4, <2>6, <3>1, <3>2, <3>3
    <2>7. CASE Entered /\ phase = "run" /\ phase' # "done"
        <3>1. stack \in Seq(Frames) /\ stack # <<>>
            BY <2>7 DEF IInv, GoodStack
        <3>2. PICK f \in Frames : Enter(f)
            BY <2>7 DEF Entered
        <3>3. stack' # <<>> /\ stack'[1] = stack[1]
            BY <3>1, <3>2, EnterVars, AppendProperties DEF Enter
        <3> QED BY <2>7, <3>1, <3>2, <3>3 DEF Enter, Promise!vars
    <2>8. CASE TopReplaced /\ phase = "run" /\ phase' # "done"
        <3>1. stack \in Seq(Frames) /\ Len(stack) \in Nat \ {0, 1}
            BY <2>8 DEF IInv, GoodStack, TopReplaced
        <3>2. PICK f : stack' = [stack EXCEPT ![Len(stack)] = f]
            BY <2>8 DEF TopReplaced
        <3>3. stack # <<>> /\ stack' # <<>> /\ stack'[1] = stack[1]
            BY <3>1, <3>2
        <3> QED BY <2>8, <3>3 DEF TopReplaced, Promise!vars
    <2> QED BY <2>1, <2>2, <2>3, <2>5, <2>6, <2>7, <2>8, StepCases DEF StackKept
<1> QED BY <1>1, <1>2, Invariance, PTL DEF Spec, ImplementsPartialFailure, Promise!Spec

-----------------------------------------------------------------------------
\* Blocks and their texts.

\* Concatenation of sequences of statements is associative.
LEMMA Associative ==
    \A a, b, c \in Seq(Stmts) : a \o (b \o c) = (a \o b) \o c
BY ConcatAssociative

\* The recursive definition of Concat has a solution.
LEMMA ConcatDef ==
    Concat = [blocks \in Seq(Seq(Stmts)) |->
                IF blocks = <<>> THEN <<>> ELSE Head(blocks) \o Concat[Tail(blocks)]]
<1> DEFINE T == Seq(Stmts)
           op == [p \in T \X T |-> p[1] \o p[2]]
<1>1. op \in [T \X T -> T] /\ <<>> \in T
    BY ConcatProperties
<1> HIDE DEF op
<1>2. PICK F : IsRecursion(F, T, T, <<>>, op)
    <2> HIDE DEF T
    <2> QED BY <1>1, Recursion
<1>3. ASSUME NEW s \in Seq(T), s # <<>>
      PROVE  op[<<Head(s), F[Tail(s)]>>] = Head(s) \o F[Tail(s)]
    <2>1. Head(s) \in T /\ Tail(s) \in Seq(T)
        BY <1>3, HeadTailProperties
    <2>2. <<Head(s), F[Tail(s)]>> \in T \X T
        BY <1>2, <2>1 DEF IsRecursion
    <2> QED BY <2>2 DEF op
<1>4. F = [s \in Seq(T) |-> IF s = <<>> THEN <<>> ELSE Head(s) \o F[Tail(s)]]
    BY <1>2, <1>3 DEF IsRecursion
<1> QED BY <1>4 DEF Concat

\* So has that of Text.
LEMMA TextDef ==
    Text = [block \in Seq(Stmts) |->
                IF block = <<>> THEN <<>> ELSE Source[Head(block)] \o Text[Tail(block)]]
<1> DEFINE V == Seq(Stmts)
           op == [p \in Stmts \X V |-> Source[p[1]] \o p[2]]
<1>1. op \in [Stmts \X V -> V] /\ <<>> \in V
    <2>1. \A s \in Stmts : Source[s] \in V
        BY SourceAssumption
    <2> QED BY <2>1, ConcatProperties
<1> HIDE DEF op
<1>2. PICK F : IsRecursion(F, Stmts, V, <<>>, op)
    <2> HIDE DEF V
    <2> QED BY <1>1, Recursion
<1>3. ASSUME NEW s \in Seq(Stmts), s # <<>>
      PROVE  op[<<Head(s), F[Tail(s)]>>] = Source[Head(s)] \o F[Tail(s)]
    <2>1. Head(s) \in Stmts /\ Tail(s) \in Seq(Stmts)
        BY <1>3, HeadTailProperties
    <2>2. <<Head(s), F[Tail(s)]>> \in Stmts \X V
        BY <1>2, <2>1 DEF IsRecursion
    <2> QED BY <2>2 DEF op
<1>4. F = [s \in Seq(Stmts) |-> IF s = <<>> THEN <<>> ELSE Source[Head(s)] \o F[Tail(s)]]
    BY <1>2, <1>3 DEF IsRecursion
<1> QED BY <1>4 DEF Text

\* What is concatenated statement by statement.
LEMMA ConcatStep ==
    ASSUME NEW b \in Seq(Stmts), NEW bs \in Seq(Seq(Stmts))
    PROVE  Concat[<<b>> \o bs] = b \o Concat[bs]
<1> DEFINE all == <<b>> \o bs
<1>1. all \in Seq(Seq(Stmts)) /\ all # <<>> /\ Head(all) = b /\ Tail(all) = bs
    BY Prefixed
<1> HIDE DEF all
<1>2. Concat[all] = Head(all) \o Concat[Tail(all)]
    BY <1>1, ConcatDef
<1> QED BY <1>1, <1>2 DEF all

\* The text of a block, statement by statement.
LEMMA TextStep ==
    ASSUME NEW s \in Stmts, NEW b \in Seq(Stmts)
    PROVE  Text[<<s>> \o b] = Source[s] \o Text[b]
<1> DEFINE all == <<s>> \o b
<1>1. all \in Seq(Stmts) /\ all # <<>> /\ Head(all) = s /\ Tail(all) = b
    BY Prefixed
<1> HIDE DEF all
<1>2. Text[all] = Source[Head(all)] \o Text[Tail(all)]
    BY <1>1, TextDef
<1> QED BY <1>1, <1>2 DEF all

\* Blocks one after the other are a block; the text of a block is a sequence
\* of statements.
LEMMA BlockTypes ==
    /\ Concat[<<>>] = <<>> /\ Text[<<>>] = <<>>
    /\ \A bs \in Seq(Seq(Stmts)) : Concat[bs] \in Seq(Stmts)
    /\ \A b \in Seq(Stmts) : Text[b] \in Seq(Stmts)
<1>1. Concat[<<>>] = <<>> /\ Text[<<>>] = <<>>
    <2>1. <<>> \in Seq(Seq(Stmts)) /\ <<>> \in Seq(Stmts)
        OBVIOUS
    <2> QED BY <2>1, ConcatDef, TextDef
<1>2. ASSUME NEW bs \in Seq(Seq(Stmts))
      PROVE  Concat[bs] \in Seq(Stmts)
    <2> DEFINE S == {c \in Seq(Seq(Stmts)) : Concat[c] \in Seq(Stmts)}
    <2>1. <<>> \in S
        BY <1>1, EmptySeq
    <2>2. ASSUME NEW b \in Seq(Stmts), NEW c \in S
          PROVE  <<b>> \o c \in S
        <3>1. <<b>> \o c \in Seq(Seq(Stmts)) /\ Concat[<<b>> \o c] = b \o Concat[c]
            BY Prefixed, ConcatStep
        <3>2. b \o Concat[c] \in Seq(Stmts)
            BY ConcatProperties
        <3> QED BY <3>1, <3>2
    <2> HIDE DEF S
    <2>3. S = Seq(Seq(Stmts))
        <3>1. S \subseteq Seq(Seq(Stmts))
            BY DEF S
        <3> QED BY <2>1, <2>2, <3>1, InductSeq
    <2> QED BY <2>3 DEF S
<1>3. ASSUME NEW b \in Seq(Stmts)
      PROVE  Text[b] \in Seq(Stmts)
    <2> DEFINE S == {c \in Seq(Stmts) : Text[c] \in Seq(Stmts)}
    <2>1. <<>> \in S
        BY <1>1, EmptySeq
    <2>2. ASSUME NEW s \in Stmts, NEW c \in S
          PROVE  <<s>> \o c \in S
        <3>1. <<s>> \o c \in Seq(Stmts) /\ Text[<<s>> \o c] = Source[s] \o Text[c]
            BY Prefixed, TextStep
        <3>2. Source[s] \in Seq(Stmts)
            BY SourceAssumption
        <3>3. Source[s] \o Text[c] \in Seq(Stmts)
            BY <3>2, ConcatProperties
        <3> QED BY <3>1, <3>3
    <2> HIDE DEF S
    <2>3. S = Seq(Stmts)
        <3>1. S \subseteq Seq(Stmts)
            BY DEF S
        <3> QED BY <2>1, <2>2, <3>1, InductSeq
    <2> QED BY <2>3 DEF S
<1> QED BY <1>1, <1>2, <1>3

\* The text of two blocks one after the other.
LEMMA TextOfBoth ==
    ASSUME NEW a \in Seq(Stmts), NEW b \in Seq(Stmts)
    PROVE  Text[a \o b] = Text[a] \o Text[b]
<1> DEFINE S == {c \in Seq(Stmts) : Text[c \o b] = Text[c] \o Text[b]}
<1>1. Text[b] \in Seq(Stmts)
    BY BlockTypes
<1>2. <<>> \in S
    <2>1. <<>> \o b = b /\ <<>> \o Text[b] = Text[b]
        BY <1>1, ConcatEmptySeq
    <2> QED BY <2>1, BlockTypes, EmptySeq
<1>3. ASSUME NEW s \in Stmts, NEW c \in S
      PROVE  <<s>> \o c \in S
    <2>1. c \o b \in Seq(Stmts) /\ Text[c \o b] = Text[c] \o Text[b]
        BY ConcatProperties
    <2>2. <<s>> \o c \in Seq(Stmts) /\ (<<s>> \o c) \o b = <<s>> \o (c \o b)
        <3>1. <<s>> \in Seq(Stmts)
            OBVIOUS
        <3> QED BY <3>1, Prefixed, ConcatAssociative
    <2>3. Text[<<s>> \o (c \o b)] = Source[s] \o Text[c \o b]
        BY <2>1, TextStep
    <2>4. Source[s] \in Seq(Stmts) /\ Text[c] \in Seq(Stmts)
        BY SourceAssumption, BlockTypes
    <2>5. Source[s] \o (Text[c] \o Text[b]) = (Source[s] \o Text[c]) \o Text[b]
        BY <1>1, <2>4, Associative
    <2>6. Text[<<s>> \o c] = Source[s] \o Text[c]
        BY TextStep
    <2> QED BY <2>1, <2>2, <2>3, <2>5, <2>6
<1> HIDE DEF S
<1>4. S = Seq(Stmts)
    <2>1. S \subseteq Seq(Stmts)
        BY DEF S
    <2> QED BY <1>2, <1>3, <2>1, InductSeq
<1> QED BY <1>4 DEF S

\* What is concatenated in two parts.
LEMMA ConcatOfBoth ==
    ASSUME NEW a \in Seq(Seq(Stmts)), NEW b \in Seq(Seq(Stmts))
    PROVE  Concat[a \o b] = Concat[a] \o Concat[b]
<1> DEFINE S == {c \in Seq(Seq(Stmts)) : Concat[c \o b] = Concat[c] \o Concat[b]}
<1>1. Concat[b] \in Seq(Stmts)
    BY BlockTypes
<1>2. <<>> \in S
    <2>1. <<>> \o b = b /\ <<>> \o Concat[b] = Concat[b]
        BY <1>1, ConcatEmptySeq
    <2> QED BY <2>1, BlockTypes, EmptySeq
<1>3. ASSUME NEW e \in Seq(Stmts), NEW c \in S
      PROVE  <<e>> \o c \in S
    <2>1. c \o b \in Seq(Seq(Stmts)) /\ Concat[c \o b] = Concat[c] \o Concat[b]
        BY ConcatProperties
    <2>2. <<e>> \o c \in Seq(Seq(Stmts)) /\ (<<e>> \o c) \o b = <<e>> \o (c \o b)
        <3>1. <<e>> \in Seq(Seq(Stmts))
            OBVIOUS
        <3> QED BY <3>1, Prefixed, ConcatAssociative
    <2>3. Concat[<<e>> \o (c \o b)] = e \o Concat[c \o b]
        BY <2>1, ConcatStep
    <2>4. Concat[c] \in Seq(Stmts)
        BY BlockTypes
    <2>5. e \o (Concat[c] \o Concat[b]) = (e \o Concat[c]) \o Concat[b]
        BY <1>1, <2>4, Associative
    <2>6. Concat[<<e>> \o c] = e \o Concat[c]
        BY ConcatStep
    <2> QED BY <2>1, <2>2, <2>3, <2>5, <2>6
<1> HIDE DEF S
<1>4. S = Seq(Seq(Stmts))
    <2>1. S \subseteq Seq(Seq(Stmts))
        BY DEF S
    <2> QED BY <1>2, <1>3, <2>1, InductSeq
<1> QED BY <1>4 DEF S

-----------------------------------------------------------------------------
\* Plans in the order of the source.

\* The statements of a plan's steps, one step at a time.
LEMMA StmtsOfSteps ==
    /\ StmtsOf(<<>>) = <<>>
    /\ \A steps \in Seq(Steps) : StmtsOf(steps) \in Seq(Stmts)
    /\ \A steps \in Seq(Steps), e \in Steps :
          StmtsOf(Append(steps, e)) = StmtsOf(steps) \o <<e.stmt>>
<1>1. StmtsOf(<<>>) = <<>>
    <2>1. DOMAIN StmtsOf(<<>>) = {} /\ DOMAIN <<>> = {}
        BY DEF StmtsOf
    <2> QED BY <2>1 DEF StmtsOf
<1>2. ASSUME NEW steps \in Seq(Steps)
      PROVE  StmtsOf(steps) \in Seq(Stmts) /\ Len(StmtsOf(steps)) = Len(steps)
    <2>1. Len(steps) \in Nat /\ \A i \in 1..Len(steps) : steps[i].stmt \in Stmts
        <3>1. \A i \in 1..Len(steps) : steps[i] \in Steps
            BY ElementOfSeq
        <3> QED BY <3>1, LenProperties DEF Steps
    <2>2. StmtsOf(steps) \in [1..Len(steps) -> Stmts]
        BY <2>1 DEF StmtsOf
    <2> QED BY <2>1, <2>2, SeqDef, LenProperties DEF StmtsOf
<1>3. ASSUME NEW steps \in Seq(Steps), NEW e \in Steps
      PROVE  StmtsOf(Append(steps, e)) = StmtsOf(steps) \o <<e.stmt>>
    <2> DEFINE n == Len(steps)
               more == Append(steps, e)
               a == StmtsOf(more)
               b == StmtsOf(steps) \o <<e.stmt>>
    <2>1. /\ n \in Nat /\ more \in Seq(Steps) /\ Len(more) = n + 1
          /\ \A i \in 1..n : more[i] = steps[i]
          /\ more[n + 1] = e
        BY AppendProperties
    <2>2. /\ a \in Seq(Stmts) /\ Len(a) = n + 1
          /\ \A i \in 1..(n + 1) : a[i] = more[i].stmt
        <3> HIDE DEF more
        <3>1. a \in Seq(Stmts) /\ Len(a) = Len(more)
            BY <1>2, <2>1
        <3> QED BY <2>1, <3>1 DEF StmtsOf
    <2>3. /\ StmtsOf(steps) \in Seq(Stmts) /\ Len(StmtsOf(steps)) = n
          /\ \A i \in 1..n : StmtsOf(steps)[i] = steps[i].stmt
        BY <1>2 DEF StmtsOf
    <2>4. e.stmt \in Stmts
        BY DEF Steps
    <2>5. <<e.stmt>> \in Seq(Stmts) /\ Len(<<e.stmt>>) = 1 /\ <<e.stmt>>[1] = e.stmt
        BY <2>4
    <2>6. /\ b \in Seq(Stmts) /\ Len(b) = n + 1
          /\ \A i \in 1..(n + 1) : b[i] = IF i <= n THEN StmtsOf(steps)[i]
                                          ELSE <<e.stmt>>[i - n]
        <3> HIDE DEF n
        <3> QED BY <2>1, <2>3, <2>5, ConcatProperties
    <2>7. ASSUME NEW i \in 1..(n + 1)
          PROVE  a[i] = b[i]
        <3> HIDE DEF n, more, a, b
        <3>1. CASE i <= n
            BY <2>1, <2>2, <2>3, <2>6, <3>1
        <3>2. CASE i = n + 1
            <4>1. ~(i <= n) /\ i - n = 1
                BY <2>1, <3>2
            <4> QED BY <2>1, <2>2, <2>5, <2>6, <3>2, <4>1
        <3> QED BY <2>1, <3>1, <3>2
    <2> HIDE DEF n, more, a, b
    <2>8. a = b
        BY <2>1, <2>2, <2>6, <2>7, SeqEqual
    <2> QED BY <2>8 DEF a, b, more
<1> QED BY <1>1, <1>2, <1>3

\* What a planner has planned and has still to plan.
Planned(p) == StmtsOf(p.steps) \o Text[Concat[p.work]]

\* Between them they are always the same statements: planning one moves it
\* from the text that is left to the plan, its blocks before what follows it.
LEMMA PlanStatementKeeps ==
    ASSUME IInv, PlanStatement
    PROVE  Planned(planner') = Planned(planner)
<1> DEFINE block == Head(planner.work)
           s == Head(block)
           rest == Tail(planner.work)
           step == [index |-> Len(planner.steps), stmt |-> s, var |-> ResultVar(s),
                    deps |-> DependsOn(s, planner.varToStep)]
           left == Text[Tail(block)] \o Text[Concat[rest]]
           inner == Text[Concat[Ast[s].blocks]]
           done == StmtsOf(planner.steps)
<1>1. planner.work \in Seq(Seq(Stmts)) /\ planner.work # <<>> /\ block # <<>>
      /\ planner.steps \in Seq(Steps) /\ planner \in Planners
    BY DEF PlanStatement, IInv, PlannerInv, Planners
<1>2. block \in Seq(Stmts) /\ rest \in Seq(Seq(Stmts))
    BY <1>1, HeadTailProperties
<1>3. s \in Stmts /\ Tail(block) \in Seq(Stmts)
    BY <1>1, <1>2, HeadTailProperties
<1>4. Ast[s].blocks \in Seq(Seq(Stmts))
    BY <1>3, NodeType DEF Nodes
<1>5. step \in Steps /\ planner'.steps = Append(planner.steps, step)
    <2>1. AddStep(planner, s).steps = Append(planner.steps, step)
        BY <1>1 DEF AddStep, Planners
    <2>2. AddStep(planner, s).steps \in Seq(Steps)
        BY <1>3, AddStepInv DEF IInv, PlannerInv, Planners
    <2>3. planner'.steps = AddStep(planner, s).steps
        <3> HIDE DEF step
        <3> QED BY <1>1 DEF PlanStatement, AddStep, Planners
    <2>4. step \in Steps
        <3>1. PlannedReads(s) \subseteq Vars /\ ResultVar(s) \in Vars \union {NoVar}
            BY <1>3, NodeType
        <3>2. DependsOn(s, planner.varToStep) \subseteq Nat
            BY <1>1, <3>1 DEF DependsOn, Planners
        <3>3. Len(planner.steps) \in Nat
            BY <1>1
        <3> QED BY <1>3, <3>1, <3>2, <3>3 DEF Steps
    <2> QED BY <2>1, <2>3, <2>4
<1>6. planner'.work = Ast[s].blocks \o (<<Tail(block)>> \o rest)
    <2>1. planner'.work = Ast[s].blocks \o <<Tail(block)>> \o rest
        BY <1>1 DEF PlanStatement, AddStep, Planners
    <2>2. <<Tail(block)>> \in Seq(Seq(Stmts))
        BY <1>3
    <2> DEFINE in == Ast[s].blocks
               tb == <<Tail(block)>>
    <2>3. in \in Seq(Seq(Stmts)) /\ tb \in Seq(Seq(Stmts)) /\ planner'.work = (in \o tb) \o rest
        BY <1>4, <2>1, <2>2
    <2> HIDE DEF rest, in, tb
    <2>4. (in \o tb) \o rest = in \o (tb \o rest)
        BY <1>2, <2>3, ConcatAssociative
    <2>5. planner'.work = in \o (tb \o rest)
        BY <2>3, <2>4
    <2> QED BY <2>5 DEF in, tb
<1>7. /\ done \in Seq(Stmts) /\ left \in Seq(Stmts) /\ inner \in Seq(Stmts)
      /\ Source[s] \in Seq(Stmts) /\ <<s>> \in Seq(Stmts)
    <2>1. done \in Seq(Stmts)
        BY <1>1, StmtsOfSteps
    <2>2. Text[Tail(block)] \in Seq(Stmts) /\ Text[Concat[rest]] \in Seq(Stmts)
        BY <1>2, <1>3, BlockTypes
    <2>3. left \in Seq(Stmts)
        BY <2>2, ConcatProperties
    <2>4. inner \in Seq(Stmts)
        BY <1>4, BlockTypes
    <2> QED BY <1>3, <2>1, <2>3, <2>4, SourceAssumption
<1>8. StmtsOf(planner'.steps) = done \o <<s>>
    BY <1>1, <1>5, StmtsOfSteps
<1>9. Text[Concat[planner'.work]] = inner \o left
    <2> DEFINE tb == Tail(block)
               more == <<tb>> \o rest
               in == Ast[s].blocks
    <2>1. more \in Seq(Seq(Stmts)) /\ Concat[more] = tb \o Concat[rest]
        BY <1>2, <1>3, Prefixed, ConcatStep
    <2>2. Text[Concat[more]] = left
        <3>1. Concat[rest] \in Seq(Stmts)
            BY <1>2, BlockTypes
        <3> QED BY <1>3, <2>1, <3>1, TextOfBoth
    <2> HIDE DEF more
    <2>3. Concat[in \o more] = Concat[in] \o Concat[more]
        BY <1>4, <2>1, ConcatOfBoth
    <2>4. Concat[in] \in Seq(Stmts) /\ Concat[more] \in Seq(Stmts)
        BY <1>4, <2>1, BlockTypes
    <2>5. Text[Concat[in] \o Concat[more]] = Text[Concat[in]] \o Text[Concat[more]]
        BY <2>4, TextOfBoth
    <2>6. planner'.work = in \o more
        BY <1>6 DEF more
    <2> HIDE DEF in, left
    <2>7. Text[Concat[planner'.work]] = Text[Concat[in]] \o left
        BY <2>2, <2>3, <2>5, <2>6
    <2> QED BY <2>7 DEF in
<1>10. Text[Concat[planner.work]] = Source[s] \o left
    <2>1. planner.work = <<block>> \o rest /\ block = <<s>> \o Tail(block)
        BY <1>1, <1>2, HeadAndTail
    <2>2. Concat[planner.work] = block \o Concat[rest]
        <3>1. Concat[<<block>> \o rest] = block \o Concat[rest]
            BY <1>2, ConcatStep
        <3> HIDE DEF block, rest
        <3> QED BY <2>1, <3>1
    <2>3. Text[Concat[planner.work]] = Text[block] \o Text[Concat[rest]]
        <3>1. Concat[rest] \in Seq(Stmts)
            BY <1>2, BlockTypes
        <3>2. Text[block \o Concat[rest]] = Text[block] \o Text[Concat[rest]]
            BY <1>2, <3>1, TextOfBoth
        <3> HIDE DEF block, rest
        <3> QED BY <2>2, <3>2
    <2>4. Text[block] = Source[s] \o Text[Tail(block)]
        <3>1. Text[<<s>> \o Tail(block)] = Source[s] \o Text[Tail(block)]
            BY <1>3, TextStep
        <3> HIDE DEF block, s
        <3> QED BY <2>1, <3>1
    <2>5. Text[Tail(block)] \in Seq(Stmts) /\ Text[Concat[rest]] \in Seq(Stmts)
        BY <1>2, <1>3, BlockTypes
    <2> HIDE DEF block, rest, s
    <2>6. Source[s] \o (Text[Tail(block)] \o Text[Concat[rest]])
            = (Source[s] \o Text[Tail(block)]) \o Text[Concat[rest]]
        BY <1>7, <2>5, Associative
    <2> QED BY <2>3, <2>4, <2>6
<1>11. Source[s] = <<s>> \o inner
    BY <1>3, SourceAssumption
<1> HIDE DEF block, s, rest, left, inner, done
<1>12. Planned(planner') = (done \o <<s>>) \o (inner \o left)
    BY <1>8, <1>9 DEF Planned
<1>13. Planned(planner) = done \o ((<<s>> \o inner) \o left)
    BY <1>10, <1>11 DEF Planned, done
<1>14. (<<s>> \o inner) \o left = <<s>> \o (inner \o left)
    BY <1>7, Associative
<1>15. inner \o left \in Seq(Stmts)
    BY <1>7, ConcatProperties
<1>16. done \o (<<s>> \o (inner \o left)) = (done \o <<s>>) \o (inner \o left)
    BY <1>7, <1>15, Associative
<1> QED BY <1>12, <1>13, <1>14, <1>16

\* Nothing is left of a block that is done.
LEMMA PlanBlockDoneKeeps ==
    ASSUME IInv, PlanBlockDone
    PROVE  Planned(planner') = Planned(planner)
<1> DEFINE rest == Tail(planner.work)
<1>1. planner.work \in Seq(Seq(Stmts)) /\ planner.work # <<>> /\ Head(planner.work) = <<>>
    BY DEF PlanBlockDone, IInv, PlannerInv, Planners
<1>2. planner'.work = rest /\ planner'.steps = planner.steps
    BY DEF PlanBlockDone, IInv, PlannerInv, Planners
<1>3. rest \in Seq(Seq(Stmts)) /\ planner.work = <<Head(planner.work)>> \o rest
    BY <1>1, HeadTailProperties, HeadAndTail
<1>4. Concat[<<Head(planner.work)>> \o rest] = Head(planner.work) \o Concat[rest]
    BY <1>1, <1>3, HeadTailProperties, ConcatStep
<1>5. Concat[rest] \in Seq(Stmts)
    BY <1>3, BlockTypes
<1>6. <<>> \o Concat[rest] = Concat[rest]
    BY <1>5, ConcatEmptySeq
<1> HIDE DEF rest
<1>7. Concat[planner.work] = Concat[rest]
    BY <1>1, <1>3, <1>4, <1>6
<1> QED BY <1>2, <1>7 DEF Planned

\* Everything is planned when no work is left.
LEMMA AllPlanned ==
    ASSUME IInv, planner.work = <<>>
    PROVE  Planned(planner) = StmtsOf(planner.steps)
<1>1. Text[Concat[planner.work]] = <<>>
    BY BlockTypes
<1>2. StmtsOf(planner.steps) \in Seq(Stmts)
    BY StmtsOfSteps DEF IInv, PlannerInv, Planners
<1> QED BY <1>1, <1>2, ConcatEmptySeq DEF Planned

\* A new planner has its whole block to plan.
LEMMA NothingPlanned ==
    ASSUME NEW block \in Seq(Stmts)
    PROVE  Planned(NewPlanner(block)) = Text[block]
<1>1. NewPlanner(block).work = <<block>> /\ NewPlanner(block).steps = <<>>
    BY DEF NewPlanner
<1>2. Concat[<<block>>] = block
    <2> DEFINE none == <<>>
    <2>1. none \in Seq(Seq(Stmts)) /\ Concat[none] = <<>>
        BY BlockTypes
    <2>2. <<block>> \in Seq(Seq(Stmts))
        OBVIOUS
    <2> HIDE DEF none
    <2>3. Concat[<<block>> \o none] = block \o Concat[none]
        BY <2>1, ConcatStep
    <2>4. <<block>> \o none = <<block>> /\ block \o <<>> = block
        BY <2>2, ConcatEmptySeq DEF none
    <2> QED BY <2>1, <2>3, <2>4
<1>3. Text[block] \in Seq(Stmts)
    BY BlockTypes
<1>4. <<>> \o Text[block] = Text[block]
    BY <1>3, ConcatEmptySeq
<1> QED BY <1>1, <1>2, <1>4, StmtsOfSteps DEF Planned

\* A sub-plan holds the statements in the text of its first.
IsSubPlan(plan) == plan # <<>> => StmtsOf(plan) = Source[plan[1].stmt]

\* What is planned for the stack: the program, or one statement of a block.
Wanted(stk, text) ==
    IF stk = <<>> THEN text = Text[program] ELSE \E s \in Stmts : text = Source[s]

OrderInv ==
    /\ PlanIsPreorder
    /\ phase = "plan" => Wanted(stack, Planned(planner))

\* Running a plan changes no plan: a frame keeps its own, or has none yet.
PlansKept ==
    /\ stack # <<>> /\ stack' # <<>> /\ stack'[1].plan = stack[1].plan
    /\ Len(stack') \in Nat
    /\ \A d \in 2..Len(stack') :
          \/ stack'[d].plan = <<>>
          \/ d \in 2..Len(stack) /\ stack'[d].plan = stack[d].plan

\* So the plans stay in the order of the source.
LEMMA PlansKeptOrder ==
    ASSUME PlanIsPreorder, PlansKept, UNCHANGED program
    PROVE  PlanIsPreorder'
<1>1. /\ StmtsOf(stack[1].plan) = Text[program]
      /\ \A d \in 2..Len(stack) : IsSubPlan(stack[d].plan)
    BY DEF PlanIsPreorder, PlansKept, IsSubPlan
<1>2. StmtsOf(stack'[1].plan) = Text[program']
    BY <1>1 DEF PlansKept
<1>3. \A d \in 2..Len(stack') : IsSubPlan(stack'[d].plan)
    BY <1>1 DEF PlansKept, IsSubPlan
<1> QED BY <1>2, <1>3 DEF PlanIsPreorder, IsSubPlan

\* A step that ends moves its frame's pc and drops the frames inside.
LEMMA StepEndsPlans ==
    ASSUME IInv, NEW stk, GoodStack(stk), stk # <<>>, stack # <<>>,
           Len(stk) <= Len(stack), \A d \in 1..Len(stk) : stk[d] = stack[d],
           NEW v \in Values \union {Raised},
           stk[Len(stk)].pc <= Len(stk[Len(stk)].plan), StepEnds(stk, v)
    PROVE  PlansKept
<1>1. Len(stk) \in Nat \ {0} /\ stk \in Seq(Frames) /\ Len(stack) \in Nat
    BY EmptySeq DEF GoodStack, IInv
<1>2. Bookkeeping(stk, results) /\ results \in Seq(ResultTypes) /\ failed \subseteq Vars \union {NoVar}
    BY <1>1 DEF IInv, Bookkeeping
<1>3. /\ GoodStack(stack') /\ Len(stack') = Len(stk)
      /\ \A d \in 1..(Len(stk) - 1) : stack'[d] = stk[d]
      /\ stack'[Len(stk)] = Advance(stk[Len(stk)], v)
    BY <1>2, StepEndsInv
<1>4. stk[Len(stk)] \in Frames
    BY <1>1
<1>5. stack'[Len(stk)].plan = stk[Len(stk)].plan
    BY <1>3, <1>4 DEF Advance, Frames
<1>6. \A d \in 1..Len(stk) : stack'[d].plan = stack[d].plan
    BY <1>1, <1>3, <1>5
<1>7. stack' # <<>>
    BY <1>1, <1>3
<1> QED BY <1>1, <1>3, <1>6, <1>7 DEF PlansKept

\* A new child context has no plan yet.
LEMMA EnterPlans ==
    ASSUME IInv, phase = "run", NEW f \in Frames, f.plan = <<>>, Enter(f)
    PROVE  PlansKept
<1>1. stack \in Seq(Frames) /\ stack # <<>> /\ Len(stack) \in Nat \ {0}
    BY EmptySeq DEF IInv, GoodStack
<1>2. /\ Len(stack') = Len(stack) + 1 /\ stack'[Len(stack) + 1] = f
      /\ \A d \in 1..Len(stack) : stack'[d] = stack[d]
    BY <1>1, AppendProperties DEF Enter
<1>3. stack' # <<>>
    BY <1>1, <1>2
<1>4. ASSUME NEW d \in 2..Len(stack')
      PROVE  \/ stack'[d].plan = <<>>
             \/ d \in 2..Len(stack) /\ stack'[d].plan = stack[d].plan
    <2>1. d = Len(stack) + 1 \/ d \in 2..Len(stack)
        BY <1>1, <1>2
    <2> QED BY <1>1, <1>2, <2>1
<1> QED BY <1>1, <1>2, <1>3, <1>4 DEF PlansKept

\* The innermost frame becomes f.
TopBecomes(f) == stack' = [stack EXCEPT ![Len(stack)] = f]

\* The innermost frame is replaced by one with its plan or none.
LEMMA TopReplacedPlans ==
    ASSUME IInv, Len(stack) > 1, NEW f, TopBecomes(f),
           f.plan = <<>> \/ f.plan = Top.plan
    PROVE  PlansKept
<1>1. stack \in Seq(Frames) /\ Len(stack) \in Nat
    BY DEF IInv, GoodStack
<1>2. /\ Len(stack') = Len(stack) /\ stack'[Len(stack)] = f
      /\ \A d \in 1..Len(stack) : d # Len(stack) => stack'[d] = stack[d]
    BY <1>1 DEF TopBecomes
<1>3. stack # <<>> /\ stack' # <<>>
    <2>1. Len(<<>>) = 0
        BY EmptySeq
    <2>2. Len(stack) # 0 /\ Len(stack') # 0
        BY <1>1, <1>2
    <2> QED BY <2>1, <2>2
<1>4. stack'[1].plan = stack[1].plan /\ Len(stack') \in Nat
    BY <1>1, <1>2
<1>5. ASSUME NEW d \in 2..Len(stack')
      PROVE  \/ stack'[d].plan = <<>>
             \/ d \in 2..Len(stack) /\ stack'[d].plan = stack[d].plan
    <2>1. d \in 2..Len(stack) /\ d \in 1..Len(stack)
        BY <1>1, <1>2
    <2>2. CASE d = Len(stack)
        <3>1. stack'[d] = f /\ (f.plan = <<>> \/ f.plan = stack[d].plan)
            BY <1>2, <2>2 DEF Top
        <3> QED BY <2>1, <3>1
    <2>3. CASE d # Len(stack)
        BY <1>2, <2>1, <2>3
    <2> QED BY <2>2, <2>3
<1> QED BY <1>3, <1>4, <1>5 DEF PlansKept

\* No step that runs a plan changes one.
LEMMA RunKeepsPlans ==
    ASSUME IInv, phase = "run",
           \/ ExecLet \/ ExecDbCall \/ ExecOutput \/ ExecIf \/ ExecFor \/ ExecWhile
           \/ NextInBlock \/ IfEnds \/ ForNext \/ WhileNext
    PROVE  PlansKept /\ UNCHANGED program
<1>1. ASSUME NEW v \in Values \union {Raised}, Top.pc <= Len(Top.plan), StepEnds(stack, v)
      PROVE  PlansKept
    <2>1. GoodStack(stack) /\ stack # <<>> /\ Len(stack) \in Nat \ {0}
        BY <1>1, CurrentStepType DEF IInv
    <2>2. stack[Len(stack)].pc <= Len(stack[Len(stack)].plan)
        BY <1>1 DEF Top
    <2>3. Len(stack) <= Len(stack)
        BY <2>1
    <2> QED BY <1>1, <2>1, <2>2, <2>3, StepEndsPlans
<1>2. ASSUME NEW v \in Values \union {Raised}, Len(stack) > 1, StepEnds(Outer, v)
      PROVE  PlansKept
    <2>1. GoodStack(stack) /\ stack # <<>> /\ Len(stack) \in Nat
        BY <1>2 DEF IInv, GoodStack
    <2>2. /\ GoodStack(Outer) /\ Outer # <<>> /\ Len(Outer) = Len(stack) - 1
          /\ \A e \in 1..(Len(stack) - 1) : Outer[e] = stack[e]
          /\ Outer[Len(Outer)].pc <= Len(Outer[Len(Outer)].plan)
        BY <1>2, <2>1, Pop DEF Outer
    <2>3. Len(Outer) <= Len(stack) /\ \A d \in 1..Len(Outer) : Outer[d] = stack[d]
        BY <2>1, <2>2
    <2> QED BY <1>2, <2>1, <2>2, <2>3, StepEndsPlans
<1>3. CASE ExecLet
    <2>1. /\ Top.pc <= Len(Top.plan) /\ UNCHANGED program
          /\ StepEnds(stack, Eval(Ast[CurrentStep.stmt].expr, Env(stack, Len(stack))))
        BY <1>3 DEF ExecLet, Running
    <2>2. CurrentStep.stmt \in Stmts /\ Env(stack, Len(stack)) \in Envs
        BY <2>1, CurrentStepType
    <2>3. Eval(Ast[CurrentStep.stmt].expr, Env(stack, Len(stack))) \in Values \union {Raised}
        BY <2>2, NodeType, EvalType DEF Nodes
    <2> QED BY <1>1, <2>1, <2>3
<1>4. CASE ExecDbCall
    <2>1. /\ Top.pc <= Len(Top.plan) /\ UNCHANGED program
          /\ \E v \in DbResults \union {Raised} : StepEnds(stack, v)
        BY <1>4 DEF ExecDbCall, Running
    <2> QED BY <1>1, <2>1, ScriptAssumption
<1>5. CASE ExecOutput
    <2>1. Top.pc <= Len(Top.plan) /\ UNCHANGED program /\ StepEnds(stack, NullV)
        BY <1>5 DEF ExecOutput, Running
    <2> QED BY <1>1, <2>1, NullType
<1>6. CASE ExecIf
    <2> DEFINE s == CurrentStep.stmt
               block == Ast[s].blocks[Branch(s, Env(stack, Len(stack)))]
               f == NewFrame(EmptyEnv, block, <<>>)
    <2>1. Top.pc <= Len(Top.plan) /\ Ast[s].kind = "if" /\ UNCHANGED program
        BY <1>6 DEF ExecIf, Running
    <2>2. StepEnds(stack, Raised) \/ StepEnds(stack, NullV) \/ Enter(f)
        BY <1>6 DEF ExecIf
    <2>3. f \in Frames
        <3>1. block \in Seq(Stmts) /\ <<>> \in Seq(Values)
            BY <2>1, CurrentStepType, BranchType
        <3> HIDE DEF block
        <3> QED BY <3>1, EmptyEnvType, NewFrameGood DEF GoodFrame
    <2>4. f.plan = <<>>
        BY DEF NewFrame
    <2> HIDE DEF f
    <2> QED BY <1>1, <2>1, <2>2, <2>3, <2>4, NullType, EnterPlans
<1>7. CASE ExecFor
    <2> DEFINE s == CurrentStep.stmt
               v == Eval(Ast[s].expr, Env(stack, Len(stack)))
               f == ItemFrame(s, Items(v))
    <2>1. Top.pc <= Len(Top.plan) /\ Ast[s].kind = "for" /\ UNCHANGED program
        BY <1>7 DEF ExecFor, Running
    <2>2. s \in Stmts /\ v \in Values \union {Raised}
        BY <2>1, CurrentStepType, NodeType, EvalType DEF Nodes
    <2>3. \/ StepEnds(stack, Raised) \/ StepEnds(stack, NullV)
          \/ Enter(f) /\ v # Raised /\ Items(v) # <<>>
        BY <1>7 DEF ExecFor
    <2>4. v # Raised /\ Items(v) # <<>> => f \in Frames
        BY <2>1, <2>2, ItemsType, ItemFrameGood DEF GoodFrame
    <2>5. f.plan = <<>>
        BY DEF ItemFrame, NewFrame
    <2> HIDE DEF f
    <2> QED BY <1>1, <2>1, <2>3, <2>4, <2>5, NullType, EnterPlans
<1>8. CASE ExecWhile
    <2> DEFINE s == CurrentStep.stmt
               f == IterationFrame(s, 0)
    <2>1. Top.pc <= Len(Top.plan) /\ Ast[s].kind = "while" /\ UNCHANGED program
        BY <1>8 DEF ExecWhile, Running
    <2>2. StepEnds(stack, Raised) \/ StepEnds(stack, NullV) \/ Enter(f)
        BY <1>8 DEF ExecWhile
    <2>3. f \in Frames
        BY <2>1, CurrentStepType, IterationFrameGood DEF GoodFrame
    <2>4. f.plan = <<>>
        BY DEF IterationFrame, NewFrame
    <2> HIDE DEF f
    <2> QED BY <1>1, <2>1, <2>2, <2>3, <2>4, NullType, EnterPlans
<1>9. CASE NextInBlock
    <2> DEFINE f == [Top EXCEPT !.block = Tail(Top.block)]
    <2>1. Top \in Frames /\ Len(stack) \in Nat \ {0} /\ stack # <<>>
        BY <1>9, InBlock DEF NextInBlock
    <2>2. Len(stack) > 1
        <3>1. Top.block # <<>> /\ stack[1].block = <<>>
            BY <1>9, <2>1 DEF NextInBlock, IInv, Bookkeeping
        <3>2. Len(stack) # 1
            BY <3>1 DEF Top
        <3>3. \A n \in Nat \ {0} : n # 1 => n > 1
            OBVIOUS
        <3> QED BY <2>1, <3>2, <3>3
    <2>3. stack' = [stack EXCEPT ![Len(stack)] = f] /\ UNCHANGED program
        BY <1>9 DEF NextInBlock, Top
    <2>4. f.plan = Top.plan
        BY <2>1 DEF Frames
    <2> HIDE DEF f
    <2> QED BY <2>2, <2>3, <2>4, TopReplacedPlans DEF TopBecomes
<1>10. CASE IfEnds
    BY <1>2, <1>10, BlockEndedType, NullType DEF IfEnds
<1>11. CASE ForNext
    <2> DEFINE f == ItemFrame(OpenedBy, Top.items)
    <2>1. Len(stack) > 1 /\ UNCHANGED program
        BY <1>11, BlockEndedType DEF ForNext
    <2>2. StepEnds(Outer, NullV) \/ stack' = [stack EXCEPT ![Len(stack)] = f]
        BY <1>11 DEF ForNext
    <2>3. f.plan = <<>>
        BY DEF ItemFrame, NewFrame
    <2> HIDE DEF f
    <2> QED BY <1>2, <2>1, <2>2, <2>3, NullType, TopReplacedPlans DEF TopBecomes
<1>12. CASE WhileNext
    <2> DEFINE f == IterationFrame(OpenedBy, Top.iterations + 1)
    <2>1. Len(stack) > 1 /\ UNCHANGED program
        BY <1>12, BlockEndedType DEF WhileNext
    <2>2. \/ StepEnds(Outer, NullV) \/ StepEnds(Outer, Raised)
          \/ stack' = [stack EXCEPT ![Len(stack)] = f]
        BY <1>12 DEF WhileNext
    <2>3. f.plan = <<>>
        BY DEF IterationFrame, NewFrame
    <2> HIDE DEF f
    <2> QED BY <1>2, <2>1, <2>2, <2>3, NullType, TopReplacedPlans DEF TopBecomes
<1> QED BY <1>3, <1>4, <1>5, <1>6, <1>7, <1>8, <1>9, <1>10, <1>11, <1>12

\* The invariant holds when the program's block is handed to plan.
LEMMA OrderInit == Init => OrderInv
<1> SUFFICES ASSUME Init
             PROVE  OrderInv
    OBVIOUS
<1>1. program \in Seq(Stmts) /\ planner = NewPlanner(program) /\ stack = <<>>
    BY ScriptAssumption DEF Init
<1>2. Planned(planner) = Text[program]
    BY <1>1, NothingPlanned
<1>3. PlanIsPreorder
    <2>1. Len(stack) = 0 /\ 2..0 = {}
        BY <1>1
    <2> QED BY <1>1, <2>1 DEF PlanIsPreorder
<1> QED BY <1>1, <1>2, <1>3 DEF OrderInv, Wanted

\* A plan is returned when nothing of the text it is for is left.
LEMMA OrderPlanReturns ==
    ASSUME IInv, OrderInv, PlanReturns
    PROVE  OrderInv'
<1>1. phase = "plan" /\ phase' = "run" /\ planner.work = <<>> /\ UNCHANGED program
    BY DEF PlanReturns
<1>2. planner.steps \in Seq(Steps)
    BY DEF IInv, PlannerInv, Planners
<1>3. Wanted(stack, StmtsOf(planner.steps))
    BY <1>1, AllPlanned DEF OrderInv
<1>4. CASE stack = <<>>
    <2> DEFINE f == [NewFrame(EmptyEnv, <<>>, <<>>) EXCEPT !.plan = planner.steps]
    <2>1. stack' = <<f>> /\ f.plan = planner.steps
        BY <1>4 DEF PlanReturns, NewFrame
    <2> HIDE DEF f
    <2>2. stack'[1].plan = planner.steps /\ Len(stack') = 1
        BY <2>1
    <2>3. StmtsOf(planner.steps) = Text[program']
        BY <1>1, <1>3, <1>4 DEF Wanted
    <2>4. PlanIsPreorder'
        BY <2>2, <2>3 DEF PlanIsPreorder
    <2> QED BY <1>1, <2>4 DEF OrderInv
<1>5. CASE stack # <<>>
    <2> DEFINE f == [Top EXCEPT !.plan = planner.steps, !.pc = 1]
    <2>1. stack \in Seq(Frames) /\ Len(stack) \in Nat \ {0, 1}
        BY <1>1, <1>5, EmptySeq DEF IInv, GoodStack
    <2>2. stack' = [stack EXCEPT ![Len(stack)] = f]
        BY <1>5 DEF PlanReturns, Top
    <2>3. f.plan = planner.steps
        <3>1. Top \in Frames
            BY <2>1 DEF Top
        <3> QED BY <3>1 DEF Frames
    <2> HIDE DEF f
    <2>4. /\ stack' # <<>> /\ stack'[1] = stack[1] /\ Len(stack') = Len(stack)
          /\ stack'[Len(stack)].plan = planner.steps
          /\ \A d \in 2..Len(stack) : d # Len(stack) => stack'[d] = stack[d]
        BY <2>1, <2>2, <2>3
    <2>5. PICK s \in Stmts : StmtsOf(planner.steps) = Source[s]
        BY <1>3, <1>5 DEF Wanted
    <2>6. IsSubPlan(planner.steps)
        <3> SUFFICES ASSUME planner.steps # <<>>
                     PROVE  planner.steps[1].stmt = s
            BY <2>5 DEF IsSubPlan
        <3> DEFINE inner == Text[Concat[Ast[s].blocks]]
        <3>1. inner \in Seq(Stmts) /\ Source[s] = <<s>> \o inner
            BY NodeType, BlockTypes, SourceAssumption DEF Nodes
        <3> HIDE DEF inner
        <3>2. Source[s][1] = s
            BY <3>1
        <3>3. Len(planner.steps) \in Nat \ {0}
            BY <1>2, EmptySeq
        <3>4. StmtsOf(planner.steps)[1] = planner.steps[1].stmt
            BY <3>3 DEF StmtsOf
        <3> QED BY <2>5, <3>2, <3>4
    <2>7. /\ StmtsOf(stack[1].plan) = Text[program]
          /\ \A d \in 2..Len(stack) : IsSubPlan(stack[d].plan)
        BY <1>5 DEF OrderInv, PlanIsPreorder, IsSubPlan
    <2>8. \A d \in 2..Len(stack') : IsSubPlan(stack'[d].plan)
        <3> HIDE DEF IsSubPlan
        <3> QED BY <2>4, <2>6, <2>7
    <2>9. PlanIsPreorder'
        BY <1>1, <2>4, <2>7, <2>8 DEF PlanIsPreorder, IsSubPlan
    <2> QED BY <1>1, <2>9 DEF OrderInv
<1> QED BY <1>4, <1>5

\* The sub-plan of a block's next statement is made from its text.
LEMMA NextPlanned ==
    ASSUME IInv, NextInBlock
    PROVE  Head(Top.block) \in Stmts /\ Planned(planner') = Source[Head(Top.block)]
<1> DEFINE s == Head(Top.block)
           none == <<>>
<1>1. planner' = NewPlanner(<<s>>) /\ Top.block # <<>>
    BY DEF NextInBlock
<1>2. s \in Stmts
    <2>1. Top.block \in Seq(Stmts)
        BY InBlock DEF NextInBlock, Frames
    <2> QED BY <1>1, <2>1, HeadTailProperties
<1> HIDE DEF s
<1>3. <<s>> \in Seq(Stmts) /\ none \in Seq(Stmts) /\ Text[none] = <<>>
    BY <1>2, BlockTypes
<1>4. Planned(planner') = Text[<<s>>]
    BY <1>1, <1>3, NothingPlanned
<1>5. <<s>> \o none = <<s>>
    BY <1>3, ConcatEmptySeq
<1>6. Source[s] \in Seq(Stmts)
    BY <1>2, SourceAssumption
<1>7. Source[s] \o <<>> = Source[s]
    BY <1>6, ConcatEmptySeq
<1> HIDE DEF none
<1>8. Text[<<s>> \o none] = Source[s] \o Text[none]
    BY <1>2, <1>3, TextStep
<1>9. Planned(planner') = Source[s]
    BY <1>3, <1>4, <1>5, <1>7, <1>8
<1> QED BY <1>2, <1>9 DEF s

\* Every step preserves the invariant.
LEMMA OrderNext == IInv /\ OrderInv /\ [Next]_vars => OrderInv'
<1> SUFFICES ASSUME IInv, OrderInv, [Next]_vars
             PROVE  OrderInv'
    OBVIOUS
<1>1. CASE PlanStatement \/ PlanBlockDone
    <2>1. Planned(planner') = Planned(planner)
        BY <1>1, PlanStatementKeeps, PlanBlockDoneKeeps
    <2>2. UNCHANGED <<program, phase, stack>>
        BY <1>1 DEF PlanStatement, PlanBlockDone
    <2>3. PlanIsPreorder'
        BY <2>2 DEF OrderInv, PlanIsPreorder
    <2>4. phase = "plan" => Wanted(stack, Planned(planner))
        BY DEF OrderInv
    <2>5. phase' = "plan" => Wanted(stack, Planned(planner))'
        BY <2>1, <2>2, <2>4 DEF Wanted
    <2> QED BY <2>3, <2>5 DEF OrderInv
<1>2. CASE PlanReturns
    BY <1>2, OrderPlanReturns
<1>3. CASE \/ ExecLet \/ ExecDbCall \/ ExecOutput \/ ExecIf \/ ExecFor \/ ExecWhile
           \/ IfEnds \/ ForNext \/ WhileNext
    <2>1. phase = "run" /\ UNCHANGED phase
        BY <1>3 DEF ExecLet, ExecDbCall, ExecOutput, ExecIf, ExecFor, ExecWhile,
                    IfEnds, ForNext, WhileNext, Running, BlockEnded, PlanEnded
    <2>2. PlansKept /\ UNCHANGED program
        BY <1>3, <2>1, RunKeepsPlans
    <2>3. PlanIsPreorder'
        BY <2>2, PlansKeptOrder DEF OrderInv
    <2> QED BY <2>1, <2>3 DEF OrderInv
<1>4. CASE NextInBlock
    <2> DEFINE s == Head(Top.block)
    <2>1. phase = "run" /\ planner' = NewPlanner(<<s>>) /\ Top.block # <<>>
        BY <1>4 DEF NextInBlock, PlanEnded
    <2>2. PlansKept /\ UNCHANGED program
        BY <1>4, <2>1, RunKeepsPlans
    <2>3. PlanIsPreorder'
        BY <2>2, PlansKeptOrder DEF OrderInv
    <2>4. s \in Stmts /\ Planned(planner') = Source[s]
        BY <1>4, NextPlanned
    <2> HIDE DEF s
    <2>5. Wanted(stack, Planned(planner))'
        BY <2>2, <2>4 DEF Wanted, PlansKept
    <2> QED BY <2>3, <2>5 DEF OrderInv
<1>5. CASE Finish
    <2>1. UNCHANGED <<program, stack>> /\ phase' = "done"
        BY <1>5 DEF Finish
    <2>2. PlanIsPreorder'
        BY <2>1 DEF OrderInv, PlanIsPreorder
    <2> QED BY <2>1, <2>2 DEF OrderInv
<1>6. CASE UNCHANGED vars
    <2>1. UNCHANGED <<program, phase, planner, stack>>
        BY <1>6 DEF vars
    <2>2. PlanIsPreorder'
        BY <2>1 DEF OrderInv, PlanIsPreorder
    <2> QED BY <2>1, <2>2 DEF OrderInv, Wanted
<1> QED BY <1>1, <1>2, <1>3, <1>4, <1>5, <1>6 DEF Next

\* The plan that is executed holds every statement of the program, however
\* deep its blocks are nested, exactly as often and in the order the source
\* has them.
THEOREM PlansFollowTheSource == Spec => []PlanIsPreorder
<1>1. OrderInv => PlanIsPreorder
    BY DEF OrderInv
<1> QED BY <1>1, OrderInit, OrderNext, Invariance, PTL DEF Spec

-----------------------------------------------------------------------------
\* The names a statement run in its place reads.

\* A name some context has is found.
LEMMA LookupVisible ==
    ASSUME NEW stk, NEW d \in Nat, NEW x, NEW e \in 1..d, stk[e].vars[x] # Undef
    PROVE  Lookup(stk, d, x) # Undef
<1> DEFINE S == {k \in Nat : k < d /\ stk[d - k].vars[x] # Undef}
<1>1. d - e \in S /\ S \subseteq Nat
    <2>1. d - e \in Nat /\ d - e < d /\ d - (d - e) = e
        OBVIOUS
    <2> QED BY <2>1
<1>2. PICK k \in S : \A j \in S : ~(j < k)
    <2> HIDE DEF S
    <2>1. S # {}
        BY <1>1
    <2> QED BY <1>1, <2>1, LeastElement
<1>3. k \in Nat /\ k < d /\ d - k \in 1..d /\ stk[d - k].vars[x] # Undef
    OBVIOUS
<1>4. ASSUME NEW f \in ((d - k) + 1)..d
      PROVE  stk[f].vars[x] = Undef
    <2>1. d - f \in Nat /\ d - f < d /\ d - f < k /\ d - (d - f) = f
        BY <1>3
    <2>2. d - f \notin S
        <3> HIDE DEF S
        <3> QED BY <1>2, <2>1
    <2> QED BY <2>1, <2>2
<1>5. \E i \in 1..d : Innermost(stk, d, x, i)
    <2> HIDE DEF S
    <2>1. Innermost(stk, d, x, d - k)
        BY <1>3, <1>4 DEF Innermost
    <2> QED BY <1>3, <2>1
<1>6. Innermost(stk, d, x, CHOOSE i \in 1..d : Innermost(stk, d, x, i))
    BY <1>5
<1> QED BY <1>5, <1>6 DEF Lookup, Innermost

\* The text of a block starts with its first statement.
LEMMA FirstOfText ==
    ASSUME NEW s \in Stmts, NEW b \in Seq(Stmts)
    PROVE  /\ <<s>> \o b \in Seq(Stmts) /\ <<s>> \o b # <<>>
           /\ Head(<<s>> \o b) = s /\ Tail(<<s>> \o b) = b
           /\ Text[<<s>> \o b] \in Seq(Stmts)
           /\ Len(Text[<<s>> \o b]) \in Nat \ {0}
           /\ Text[<<s>> \o b][1] = s
           /\ Source[s] \in Seq(Stmts) /\ Source[s] # <<>> /\ Source[s][1] = s
<1> DEFINE inner == Text[Concat[Ast[s].blocks]]
<1>1. /\ <<s>> \o b \in Seq(Stmts) /\ <<s>> \o b # <<>>
      /\ Head(<<s>> \o b) = s /\ Tail(<<s>> \o b) = b
    BY Prefixed
<1>2. inner \in Seq(Stmts) /\ Source[s] = <<s>> \o inner
    BY NodeType, BlockTypes, SourceAssumption DEF Nodes
<1> HIDE DEF inner
<1>3. inner \o Text[b] \in Seq(Stmts)
    BY <1>2, BlockTypes, ConcatProperties
<1>4. Text[<<s>> \o b] = <<s>> \o (inner \o Text[b])
    <2>1. <<s>> \in Seq(Stmts) /\ Text[b] \in Seq(Stmts)
        BY BlockTypes
    <2>2. <<s>> \o (inner \o Text[b]) = (<<s>> \o inner) \o Text[b]
        BY <1>2, <2>1, Associative
    <2> QED BY <1>2, <2>2, TextStep
<1>5. ASSUME NEW c \in Seq(Stmts)
      PROVE  /\ <<s>> \o c \in Seq(Stmts) /\ <<s>> \o c # <<>>
             /\ Len(<<s>> \o c) \in Nat \ {0} /\ (<<s>> \o c)[1] = s
    <2>1. /\ <<s>> \o c \in Seq(Stmts) /\ <<s>> \o c # <<>>
          /\ Head(<<s>> \o c) = s
        BY Prefixed
    <2> QED BY <2>1, EmptySeq
<1> QED BY <1>1, <1>2, <1>3, <1>4, <1>5

\* A block is what stands before position i and the rest.
LEMMA BlockAt ==
    ASSUME NEW p \in Seq(Stmts), NEW i \in 1..Len(p)
    PROVE  /\ p[i] \in Stmts
           /\ SubSeq(p, 1, i - 1) \in Seq(Stmts)
           /\ SubSeq(p, i + 1, Len(p)) \in Seq(Stmts)
           /\ SubSeq(p, i, Len(p)) = <<p[i]>> \o SubSeq(p, i + 1, Len(p))
           /\ p = SubSeq(p, 1, i - 1) \o SubSeq(p, i, Len(p))
<1>1. Len(p) \in Nat /\ p[i] \in Stmts
    BY ElementOfSeq
<1>2. \A j \in 1..Len(p) : p[j] \in Stmts
    BY ElementOfSeq
<1>3. SubSeq(p, 1, i - 1) \in Seq(Stmts) /\ SubSeq(p, i + 1, Len(p)) \in Seq(Stmts)
    <2>1. /\ 1 \in Int /\ i - 1 \in Int /\ i + 1 \in Int /\ Len(p) \in Int
          /\ \A j \in 1..(i - 1) : p[j] \in Stmts
          /\ \A j \in (i + 1)..Len(p) : p[j] \in Stmts
        BY <1>1, <1>2
    <2> QED BY <2>1, SubSeqProperties
<1>4. SubSeq(p, i, Len(p)) = <<p[i]>> \o SubSeq(p, i + 1, Len(p))
    <2>1. Len(p) \in i..Len(p)
        BY <1>1
    <2> QED BY <2>1, SubSeqRecursiveFirst
<1>5. p = SubSeq(p, 1, i - 1) \o SubSeq(p, i, Len(p))
    <2>1. /\ 1 \in 1..(Len(p) + 1) /\ i - 1 \in (1 - 1)..Len(p)
          /\ Len(p) \in (i - 1)..Len(p) /\ (i - 1) + 1 = i
        BY <1>1
    <2>2. SubSeq(p, 1, i - 1) \o SubSeq(p, (i - 1) + 1, Len(p)) = SubSeq(p, 1, Len(p))
        BY <2>1, ConcatAdjacentSubSeq
    <2> QED BY <2>1, <2>2, SubSeqFull
<1> QED BY <1>1, <1>3, <1>4, <1>5

\* The text of what is left of a block starts with the next statement.
LEMMA TextOfRest ==
    ASSUME NEW p \in Seq(Stmts), NEW i \in 1..Len(p)
    PROVE  /\ SubSeq(p, 1, i - 1) \in Seq(Stmts) /\ SubSeq(p, i, Len(p)) \in Seq(Stmts)
           /\ p = SubSeq(p, 1, i - 1) \o SubSeq(p, i, Len(p))
           /\ Text[SubSeq(p, i, Len(p))] \in Seq(Stmts)
           /\ Len(Text[SubSeq(p, i, Len(p))]) \in Nat \ {0}
           /\ Text[SubSeq(p, i, Len(p))][1] = p[i]
<1> DEFINE s == p[i]
           b == SubSeq(p, i + 1, Len(p))
           before == SubSeq(p, 1, i - 1)
           rest == SubSeq(p, i, Len(p))
<1>1. /\ s \in Stmts /\ before \in Seq(Stmts) /\ b \in Seq(Stmts)
      /\ rest = <<s>> \o b /\ p = before \o rest
    BY BlockAt
<1> HIDE DEF s, b, rest, before
<1>2. /\ <<s>> \o b \in Seq(Stmts) /\ Text[<<s>> \o b] \in Seq(Stmts)
      /\ Len(Text[<<s>> \o b]) \in Nat \ {0} /\ Text[<<s>> \o b][1] = s
    BY <1>1, FirstOfText
<1>3. /\ rest \in Seq(Stmts) /\ Text[rest] \in Seq(Stmts)
      /\ Len(Text[rest]) \in Nat \ {0} /\ Text[rest][1] = s
    BY <1>1, <1>2
<1> QED BY <1>1, <1>3 DEF s, rest, before

\* The plan of a block has the block's statements at their positions, in order.
LEMMA PositionOfStatement ==
    ASSUME NEW p \in Seq(Stmts), NEW i \in 1..Len(p)
    PROVE  /\ Position(p, i) \in 1..Len(Text[p])
           /\ Text[p][Position(p, i)] = p[i]
           /\ \A j \in 1..(i - 1) : Position(p, j) \in 1..(Position(p, i) - 1)
<1> DEFINE before == SubSeq(p, 1, i - 1)
           rest == SubSeq(p, i, Len(p))
<1>1. /\ before \in Seq(Stmts) /\ rest \in Seq(Stmts) /\ p = before \o rest
      /\ Text[rest] \in Seq(Stmts) /\ Len(Text[rest]) \in Nat \ {0}
      /\ Text[rest][1] = p[i]
    BY TextOfRest
<1>2. Text[before] \in Seq(Stmts) /\ Len(Text[before]) \in Nat
    <2> HIDE DEF before, rest
    <2>1. Text[before] \in Seq(Stmts)
        BY <1>1, BlockTypes
    <2> DEFINE a == Text[before]
    <2>2. a \in Seq(Stmts)
        BY <2>1
    <2> HIDE DEF a
    <2>3. Len(a) \in Nat
        BY <2>2, LenProperties
    <2> QED BY <2>2, <2>3 DEF a
<1>3. /\ Len(Text[p]) = Len(Text[before]) + Len(Text[rest])
      /\ Text[p][Len(Text[before]) + 1] = Text[rest][1]
    <2> DEFINE a == Text[before]
               b == Text[rest]
    <2>1. a \in Seq(Stmts) /\ b \in Seq(Stmts) /\ Text[p] = a \o b /\ Len(b) \in Nat \ {0}
          /\ Len(a) \in Nat
        <3> HIDE DEF before, rest
        <3>1. Text[before \o rest] = Text[before] \o Text[rest]
            BY <1>1, TextOfBoth
        <3> QED BY <1>1, <1>2, <3>1
    <2> HIDE DEF a, b
    <2>2. /\ Len(a \o b) = Len(a) + Len(b)
          /\ \A k \in 1..(Len(a) + Len(b)) :
                (a \o b)[k] = IF k <= Len(a) THEN a[k] ELSE b[k - Len(a)]
        BY <2>1, ConcatProperties
    <2>3. /\ Len(a) + 1 \in 1..(Len(a) + Len(b)) /\ ~(Len(a) + 1 <= Len(a))
          /\ (Len(a) + 1) - Len(a) = 1
        BY <2>1
    <2>4. Len(Text[p]) = Len(a) + Len(b) /\ Text[p][Len(a) + 1] = b[1]
        BY <2>1, <2>2, <2>3
    <2> QED BY <2>4 DEF a, b
<1>4. ASSUME NEW j \in 1..(i - 1)
      PROVE  Position(p, j) \in 1..(Position(p, i) - 1)
    <2> DEFINE first == SubSeq(p, 1, j - 1)
               next == SubSeq(before, j, Len(before))
    <2>1. Len(before) = i - 1 /\ Len(p) \in Nat
        <3>1. 1 \in Int /\ i - 1 \in Int /\ \A k \in 1..(i - 1) : p[k] \in Stmts
            BY ElementOfSeq
        <3> QED BY <3>1, SubSeqProperties
    <2>2. SubSeq(before, 1, j - 1) = first
        <3>1. CASE j = 1
            <4>1. 1 \in Int /\ 0 \in Int /\ 0 < 1
                OBVIOUS
            <4> QED BY <3>1, <4>1, SubSeqEmpty
        <3>2. CASE j # 1
            <4>1. /\ 1 \in 1..Len(p) /\ i - 1 \in 1..Len(p)
                  /\ 1 \in 1..(((i - 1) - 1) + 1) /\ j - 1 \in 1..(((i - 1) - 1) + 1)
                  /\ (1 + 1) - 1 = 1 /\ (1 + (j - 1)) - 1 = j - 1
                BY <2>1, <3>2
            <4> QED BY <1>1, <4>1, SubSeqOfSubSeq
        <3> QED BY <3>1, <3>2
    <2> HIDE DEF first
    <2>3. j \in 1..Len(before)
        BY <2>1
    <2>4. /\ first \in Seq(Stmts) /\ next \in Seq(Stmts) /\ before = first \o next
          /\ Len(Text[next]) \in Nat \ {0}
        <3> HIDE DEF before, rest
        <3>1. before \in Seq(Stmts)
            BY <1>1
        <3> QED BY <3>1, <2>2, <2>3, TextOfRest
    <2> HIDE DEF before, next
    <2>5. Text[before] = Text[first] \o Text[next]
        BY <2>4, TextOfBoth
    <2>6. Text[first] \in Seq(Stmts) /\ Text[next] \in Seq(Stmts)
        BY <2>4, BlockTypes
    <2>7. Len(Text[before]) = Len(Text[first]) + Len(Text[next]) /\ Len(Text[first]) \in Nat
        BY <2>5, <2>6, ConcatProperties
    <2>8. Position(p, j) = Len(Text[first]) + 1 /\ Position(p, i) = Len(Text[before]) + 1
        BY DEF Position, first, before
    <2> DEFINE a == Len(Text[first])
               b == Len(Text[next])
               c == Len(Text[before])
               q == Position(p, j)
               r == Position(p, i)
    <2>9. a \in Nat /\ b \in Nat \ {0} /\ c = a + b /\ q = a + 1 /\ r = c + 1
        BY <2>4, <2>7, <2>8
    <2> HIDE DEF a, b, c, q, r
    <2>10. q \in 1..(r - 1)
        BY <2>9
    <2> QED BY <2>10 DEF q, r
<1>5. Position(p, i) = Len(Text[before]) + 1
    BY DEF Position
<1> HIDE DEF before, rest
<1>6. Position(p, i) \in 1..Len(Text[p]) /\ Text[p][Position(p, i)] = p[i]
    <2> DEFINE a == Len(Text[before])
               b == Len(Text[rest])
               c == Len(Text[p])
               r == Position(p, i)
    <2>1. a \in Nat /\ b \in Nat \ {0} /\ c = a + b /\ r = a + 1
        BY <1>1, <1>2, <1>3, <1>5
    <2>2. Text[p][r] = p[i]
        BY <1>1, <1>3, <1>5
    <2> HIDE DEF a, b, c, r
    <2>3. r \in 1..c
        BY <2>1
    <2> QED BY <2>2, <2>3 DEF r, c
<1> QED BY <1>4, <1>6

\* What is accepted with the first statement of a block.
LEMMA AcceptedFirst ==
    ASSUME NEW s \in Stmts, NEW b \in Seq(Stmts), NEW D, <<<<s>> \o b, D>> \in Accepted
    PROVE  /\ D \subseteq Vars
           /\ Ast[s].kind \in {"let", "for"} => Refs(Ast[s].expr) \subseteq D
           /\ \A i \in DOMAIN Ast[s].blocks :
                 <<Ast[s].blocks[i], ScopeInside(s, D)>> \in Accepted
           /\ <<b, ScopeAfter(s, D)>> \in Accepted
<1> DEFINE block == <<s>> \o b
           a == <<block, D>>
<1>1. block # <<>> /\ Head(block) = s /\ Tail(block) = b
    BY FirstOfText
<1> HIDE DEF block
<1>2. a \in Accepted /\ a[1] = block /\ a[2] = D
    BY DEF block
<1>3. D \subseteq Vars
    BY <1>2, CheckAssumption
<1> HIDE DEF a
<1>4. /\ Ast[Head(a[1])].kind \in {"let", "for"} => Refs(Ast[Head(a[1])].expr) \subseteq a[2]
      /\ \A i \in DOMAIN Ast[Head(a[1])].blocks :
            <<Ast[Head(a[1])].blocks[i], ScopeInside(Head(a[1]), a[2])>> \in Accepted
      /\ <<Tail(a[1]), ScopeAfter(Head(a[1]), a[2])>> \in Accepted
    <2>1. a[1] # <<>>
        BY <1>1, <1>2
    <2> QED BY <1>2, <2>1, CheckAssumption
<1> QED BY <1>1, <1>2, <1>3, <1>4

\* The names the statements of p before position i bind.
BoundBefore(p, i) == {ResultVar(p[j]) : j \in 1..(i - 1)} \ {NoVar}

\* What is left of a program is accepted where the names the statements before
\* it bind are defined.
LEMMA RestAccepted ==
    ASSUME NEW p \in Programs, NEW i \in 1..(Len(p) + 1)
    PROVE  <<SubSeq(p, i, Len(p)), BoundBefore(p, i)>> \in Accepted
<1> DEFINE Good(k) == <<SubSeq(p, k, Len(p)), BoundBefore(p, k)>> \in Accepted
           S == {n \in Nat : n <= Len(p) => Good(n + 1)}
<1>1. p \in Seq(Stmts) /\ Len(p) \in Nat
    BY ScriptAssumption
<1>2. 0 \in S
    <2>1. BoundBefore(p, 1) = {}
        BY DEF BoundBefore
    <2>2. SubSeq(p, 1, Len(p)) = p
        BY <1>1, SubSeqFull
    <2>3. <<p, {}>> \in Accepted
        BY CheckAssumption
    <2>4. Good(0 + 1)
        <3>1. Good(1)
            BY <2>1, <2>2, <2>3
        <3>2. 0 + 1 = 1
            OBVIOUS
        <3> QED BY <3>1, <3>2
    <2> HIDE DEF Good
    <2> QED BY <2>4
<1>3. ASSUME NEW n \in S
      PROVE  n + 1 \in S
    <2> SUFFICES ASSUME n + 1 <= Len(p)
                 PROVE  Good((n + 1) + 1)
        OBVIOUS
    <2> DEFINE k == n + 1
    <2>1. Good(k)
        BY <1>1
    <2>2. k \in 1..Len(p) /\ n = k - 1
        BY <1>1
    <2> HIDE DEF k
    <2>3. /\ p[k] \in Stmts /\ SubSeq(p, k + 1, Len(p)) \in Seq(Stmts)
          /\ SubSeq(p, k, Len(p)) = <<p[k]>> \o SubSeq(p, k + 1, Len(p))
        BY <1>1, <2>2, BlockAt
    <2>4. <<SubSeq(p, k + 1, Len(p)), ScopeAfter(p[k], BoundBefore(p, k))>> \in Accepted
        BY <2>1, <2>3, AcceptedFirst
    <2>5. BoundBefore(p, k + 1) = ScopeAfter(p[k], BoundBefore(p, k))
        <3>1. \A j : j \in 1..((k + 1) - 1) <=> j \in 1..(k - 1) \/ j = k
            BY <2>2
        <3>2. {ResultVar(p[j]) : j \in 1..((k + 1) - 1)}
                  = {ResultVar(p[j]) : j \in 1..(k - 1)} \union {ResultVar(p[k])}
            BY <3>1
        <3> QED BY <3>2 DEF BoundBefore, ScopeAfter
    <2>6. Good(k + 1)
        BY <2>4, <2>5
    <2> HIDE DEF Good
    <2> QED BY <2>6 DEF k
<1>4. S = Nat
    <2>1. S \subseteq Nat
        OBVIOUS
    <2> HIDE DEF S
    <2> QED BY <1>2, <1>3, <2>1, Induct
<1>5. i - 1 \in Nat /\ i - 1 <= Len(p) /\ (i - 1) + 1 = i
    BY <1>1
<1>6. Good((i - 1) + 1)
    <2> HIDE DEF Good
    <2> QED BY <1>4, <1>5
<1> QED BY <1>5, <1>6

-----------------------------------------------------------------------------
\* What the frames know of the names.

\* The names with a value in the contexts 1..d, and those a failed step was to bind.
Known(stk, bad, d) == {x \in Vars : \E e \in 1..d : stk[e].vars[x] # Undef} \union bad

\* Every name a step before frame d's pc binds is known.
StepsBound(stk, bad, d) ==
    \A i \in 1..(stk[d].pc - 1) :
        LET x == stk[d].plan[i].var IN x = NoVar \/ x \in Known(stk, bad, d)

\* The statements of its block a frame has not run in their place: its sub-plan's
\* first step is the statement the sub-plan was made for.
LeftIn(f) == IF f.pc = 1 /\ f.plan # <<>> THEN <<f.plan[1].stmt>> \o f.block ELSE f.block

\* While a sub-plan is being made, its frame is about to run the statement it is for.
LeftNow(stk, mode, p, d) ==
    IF mode = "plan" /\ d = Len(stk) THEN <<Planned(p)[1]>> \o stk[d].block
    ELSE LeftIn(stk[d])

\* The contexts around frame d are at steps that stand in their place.
OuterInPlace(stk, d) == \A e \in 1..(d - 1) : InItsPlace(stk, e)

\* The block is accepted where no more names are defined than frame d knows.
Fits(stk, bad, d, block) == \E D \in SUBSET Known(stk, bad, d) : <<block, D>> \in Accepted

\* Frame d's steps are bound, and what is left of its block is accepted.
FrameNames(stk, bad, mode, p, d) ==
    /\ StepsBound(stk, bad, d)
    /\ d # 1 /\ OuterInPlace(stk, d) => Fits(stk, bad, d, LeftNow(stk, mode, p, d))

NamesInv == \A d \in 1..Len(stack) : FrameNames(stack, failed, phase, planner, d)

\* A block is accepted where more is known.
LEMMA FitsMore ==
    ASSUME NEW s1, NEW b1, NEW d1, NEW s2, NEW b2, NEW d2, NEW block,
           Known(s1, b1, d1) \subseteq Known(s2, b2, d2), Fits(s1, b1, d1, block)
    PROVE  Fits(s2, b2, d2, block)
BY DEF Fits

\* Frames that stay know what they knew; nothing is forgotten of failures.
LEMMA KnownKept ==
    ASSUME NEW s1, NEW s2, NEW b1, NEW b2, b1 \subseteq b2,
           NEW d \in Nat, \A e \in 1..d : s2[e] = s1[e]
    PROVE  Known(s1, b1, d) \subseteq Known(s2, b2, d)
BY DEF Known

\* What is known in a context is known in those inside it.
LEMMA KnownInside ==
    ASSUME NEW stk, NEW bad, NEW d \in Nat
    PROVE  Known(stk, bad, d) \subseteq Known(stk, bad, d + 1)
BY DEF Known

\* Frame d keeps what holds of it in another state of the frames inside it.
LEMMA FrameKept ==
    ASSUME NEW s1, NEW s2, NEW b1, NEW b2, b1 \subseteq b2,
           NEW d \in Nat \ {0}, \A e \in 1..d : s2[e] = s1[e]
    PROVE  /\ StepsBound(s1, b1, d) => StepsBound(s2, b2, d)
           /\ \A block : Fits(s1, b1, d, block) => Fits(s2, b2, d, block)
           /\ OuterInPlace(s2, d) <=> OuterInPlace(s1, d)
<1>1. Known(s1, b1, d) \subseteq Known(s2, b2, d)
    BY KnownKept
<1>2. s2[d] = s1[d] /\ \A e \in 1..(d - 1) : s2[e] = s1[e]
    OBVIOUS
<1>3. OuterInPlace(s2, d) <=> OuterInPlace(s1, d)
    BY <1>2 DEF OuterInPlace, InItsPlace
<1> QED BY <1>1, <1>2, <1>3, FitsMore DEF StepsBound

\* The invariant in the next state, read in this one's program.
LEMMA NamesNext ==
    ASSUME program' = program,
           \A d \in 1..Len(stack') : FrameNames(stack', failed', phase', planner', d)
    PROVE  NamesInv'
<1>1. ASSUME NEW d
      PROVE  OuterInPlace(stack, d)' <=> OuterInPlace(stack', d)
    BY DEF OuterInPlace, InItsPlace
<1>2. ASSUME NEW d \in 1..Len(stack')
      PROVE  FrameNames(stack, failed, phase, planner, d)'
    <2>1. FrameNames(stack', failed', phase', planner', d)
        OBVIOUS
    <2> QED BY <1>1, <2>1 DEF FrameNames, StepsBound, Known, Fits, LeftNow, LeftIn, Planned
<1> QED BY <1>2 DEF NamesInv

\* The statement a frame is at in its place is the first of an accepted block.
LEMMA AcceptedHere ==
    ASSUME IInv, PlanIsPreorder, NamesInv, phase = "run",
           NEW n \in 1..Len(stack), stack[n].pc <= Len(stack[n].plan),
           \A e \in 1..n : InItsPlace(stack, e)
    PROVE  /\ stack[n].plan[stack[n].pc].stmt \in Stmts
           /\ \E b \in Seq(Stmts) :
                 Fits(stack, failed, n, <<stack[n].plan[stack[n].pc].stmt>> \o b)
<1> DEFINE f == stack[n]
           s == f.plan[f.pc].stmt
<1>1. stack \in Seq(Frames) /\ Len(stack) \in Nat /\ n \in Nat \ {0} /\ GoodFrame(f)
    BY DEF IInv, GoodStack
<1>2. /\ f \in Frames /\ f.plan \in Seq(Steps) /\ f.pc \in 1..Len(f.plan)
      /\ f.block \in Seq(Stmts) /\ Len(f.plan) \in Nat
    BY <1>1 DEF GoodFrame, Frames
<1>3. s \in Stmts
    <2> DEFINE q == f.plan
               i == f.pc
    <2>1. q \in Seq(Steps) /\ i \in 1..Len(q)
        BY <1>2
    <2> HIDE DEF q, i
    <2>2. q[i] \in Steps
        BY <2>1, ElementOfSeq
    <2>3. q[i].stmt \in Stmts
        BY <2>2 DEF Steps
    <2> QED BY <2>3 DEF q, i
<1>4. FrameNames(stack, failed, phase, planner, n)
    BY DEF NamesInv
<1>5. CASE n # 1
    <2>1. f.pc = 1
        <3>1. InItsPlace(stack, n)
            BY <1>1
        <3> QED BY <1>5, <3>1 DEF InItsPlace
    <2>2. OuterInPlace(stack, n)
        BY <1>1 DEF OuterInPlace
    <2>3. f.plan # <<>>
        BY <1>2, EmptySeq
    <2>4. LeftNow(stack, phase, planner, n) = <<s>> \o f.block
        BY <2>1, <2>3 DEF LeftNow, LeftIn
    <2>5. Fits(stack, failed, n, LeftNow(stack, phase, planner, n))
        BY <1>4, <1>5, <2>2 DEF FrameNames
    <2> HIDE DEF f, s
    <2>6. \E b \in Seq(Stmts) : Fits(stack, failed, n, <<s>> \o b)
        BY <1>2, <2>4, <2>5
    <2> QED BY <1>3, <2>6 DEF s, f
<1>6. CASE n = 1
    <2>1. program \in Programs /\ program \in Seq(Stmts) /\ Len(program) \in Nat
        BY ScriptAssumption DEF IInv
    <2>2. PICK i \in 1..Len(program) : f.pc = Position(program, i)
        <3>1. InItsPlace(stack, 1)
            BY <1>6
        <3>2. DOMAIN program = 1..Len(program)
            BY <2>1
        <3> QED BY <1>6, <3>1, <3>2 DEF InItsPlace
    <2>3. StmtsOf(f.plan) = Text[program]
        <3>1. stack # <<>>
            BY <1>1, EmptySeq
        <3> QED BY <1>6, <3>1 DEF PlanIsPreorder
    <2>4. \A k \in 1..Len(f.plan) : f.plan[k].stmt = Text[program][k]
        <3>1. \A k \in 1..Len(f.plan) : StmtsOf(f.plan)[k] = f.plan[k].stmt
            BY DEF StmtsOf
        <3> QED BY <2>3, <3>1
    <2>5. s = program[i]
        <3>1. Text[program][f.pc] = program[i]
            BY <2>1, <2>2, PositionOfStatement
        <3> QED BY <1>2, <2>4, <3>1
    <2>6. BoundBefore(program, i) \subseteq Known(stack, failed, 1)
        <3> SUFFICES ASSUME NEW j \in 1..(i - 1), ResultVar(program[j]) # NoVar
                     PROVE  ResultVar(program[j]) \in Known(stack, failed, 1)
            BY DEF BoundBefore
        <3> DEFINE k == Position(program, j)
        <3>1. j \in 1..Len(program)
            BY <2>1
        <3>2. k \in 1..(f.pc - 1) /\ k \in 1..Len(f.plan)
            <4>1. k \in 1..(Position(program, i) - 1)
                BY <2>1, PositionOfStatement
            <4> HIDE DEF k
            <4> QED BY <1>2, <2>2, <4>1
        <3>3. f.plan[k].stmt = program[j]
            <4>1. Text[program][k] = program[j]
                BY <2>1, <3>1, PositionOfStatement
            <4> HIDE DEF k
            <4> QED BY <2>4, <3>2, <4>1
        <3> HIDE DEF k
        <3>4. f.plan[k].var = ResultVar(program[j])
            BY <1>1, <3>2, <3>3 DEF GoodFrame, BindsOwn
        <3>5. f.plan[k].var = NoVar \/ f.plan[k].var \in Known(stack, failed, 1)
            BY <1>4, <1>6, <3>2 DEF FrameNames, StepsBound
        <3> QED BY <3>4, <3>5
    <2>7. SubSeq(program, i + 1, Len(program)) \in Seq(Stmts)
          /\ SubSeq(program, i, Len(program)) = <<s>> \o SubSeq(program, i + 1, Len(program))
        BY <2>1, <2>5, BlockAt
    <2>8. <<SubSeq(program, i, Len(program)), BoundBefore(program, i)>> \in Accepted
        <3>1. i \in 1..(Len(program) + 1)
            BY <2>1
        <3> QED BY <2>1, <3>1, RestAccepted
    <2> HIDE DEF f, s
    <2>9. Fits(stack, failed, 1, <<s>> \o SubSeq(program, i + 1, Len(program)))
        BY <2>6, <2>7, <2>8 DEF Fits
    <2>10. \E b \in Seq(Stmts) : Fits(stack, failed, n, <<s>> \o b)
        BY <1>6, <2>7, <2>9
    <2> QED BY <1>3, <2>10 DEF s, f
<1> QED BY <1>5, <1>6

\* A step that ends binds its name or is recorded as failed, and the statements
\* after it are accepted where its name is defined.
LEMMA StepEndsNames ==
    ASSUME IInv, NamesInv, phase = "run", UNCHANGED <<program, phase>>,
           NEW stk, GoodStack(stk), stk # <<>>,
           Len(stk) <= Len(stack), \A d \in 1..Len(stk) : stk[d] = stack[d],
           NEW v \in Values \union {Raised},
           stk[Len(stk)].pc <= Len(stk[Len(stk)].plan), StepEnds(stk, v)
    PROVE  NamesInv'
<1> DEFINE n == Len(stk)
           f == stk[n]
           g == Advance(f, v)
           step == f.plan[f.pc]
<1>1. /\ n \in Nat \ {0} /\ n \in 1..n /\ stk \in Seq(Frames)
      /\ Len(stack) \in Nat /\ n \in 1..Len(stack) /\ f = stack[n] /\ GoodFrame(f)
    BY EmptySeq DEF GoodStack, IInv
<1>2. Bookkeeping(stk, results) /\ results \in Seq(ResultTypes) /\ failed \subseteq Vars \union {NoVar}
    BY <1>1 DEF IInv, Bookkeeping
<1>3. /\ Len(stack') = n
      /\ \A d \in 1..(n - 1) : stack'[d] = stk[d]
      /\ stack'[n] = g
    BY <1>2, StepEndsInv
<1>4. \A d \in 1..(n - 1) : stack'[d] = stack[d]
    BY <1>1, <1>3
<1>5. /\ f \in Frames /\ f.plan \in Seq(Steps) /\ f.pc \in 1..Len(f.plan)
      /\ f.block \in Seq(Stmts) /\ f.vars \in Envs /\ Len(f.plan) \in Nat
    <2>1. GoodFrame(f) /\ f.pc <= Len(f.plan)
        BY <1>1
    <2> HIDE DEF f, n
    <2>2. f \in Frames
        BY <2>1 DEF GoodFrame
    <2>3. /\ f.plan \in Seq(Steps) /\ f.pc \in Nat \ {0} /\ f.block \in Seq(Stmts)
          /\ f.vars \in Envs
        BY <2>2 DEF Frames
    <2>4. Len(f.plan) \in Nat
        BY <2>3, LenProperties
    <2>5. f.pc \in 1..Len(f.plan)
        BY <2>1, <2>3, <2>4
    <2> QED BY <2>2, <2>3, <2>4, <2>5
<1>6. step \in Steps /\ step.var = ResultVar(step.stmt)
    BY <1>1, <1>5, ElementOfSeq DEF GoodFrame, BindsOwn
<1>7. /\ g.pc = f.pc + 1 /\ g.plan = f.plan /\ g.block = f.block
      /\ g.vars = Bind(f.vars, step.var, v)
    <2>1. g.vars = Bind(f.vars, step.var, v)
        BY <1>5 DEF Advance, Frames
    <2> QED BY <1>1, <2>1, AdvanceGood
<1>8. failed' = IF v = Raised THEN failed \union {step.var} ELSE failed
    BY DEF StepEnds
<1>9. Known(stack, failed, n) \union ({step.var} \ {NoVar}) \subseteq Known(stack', failed', n)
    <2>1. ASSUME NEW x \in Vars, NEW e \in 1..n, stack[e].vars[x] # Undef
          PROVE  stack'[e].vars[x] # Undef
        <3>1. CASE e = n
            <4>1. f.vars[x] # Undef /\ stack'[e].vars = g.vars
                BY <1>1, <1>3, <2>1, <3>1
            <4>2. v # Raised => v # Undef
                BY DEF Values, Undef
            <4>3. g.vars[x] # Undef
                BY <1>5, <1>7, <4>1, <4>2 DEF Bind, Envs
            <4> QED BY <4>1, <4>3
        <3>2. CASE e # n
            <4>1. e \in 1..(n - 1)
                BY <1>1, <3>2
            <4> QED BY <1>4, <2>1, <4>1
        <3> QED BY <3>1, <3>2
    <2>2. step.var # NoVar => step.var \in Known(stack', failed', n)
        <3> SUFFICES ASSUME step.var # NoVar
                     PROVE  step.var \in Known(stack', failed', n)
            OBVIOUS
        <3>1. CASE v = Raised
            BY <1>8, <3>1 DEF Known
        <3>2. CASE v # Raised
            <4>1. step.var \in Vars /\ v # Undef
                BY <1>6, <3>2 DEF Steps, Values, Undef
            <4>2. g.vars[step.var] = v
                BY <1>5, <1>7, <3>2, <4>1 DEF Bind, Envs
            <4>3. stack'[n].vars[step.var] # Undef
                BY <1>3, <4>1, <4>2
            <4> QED BY <1>1, <4>1, <4>3 DEF Known
        <3> QED BY <3>1, <3>2
    <2>3. failed \subseteq failed'
        BY <1>8
    <2>4. Known(stack, failed, n) \subseteq Known(stack', failed', n)
        BY <2>1, <2>3 DEF Known
    <2> QED BY <2>2, <2>4
<1>10. ASSUME NEW d \in 1..(n - 1)
       PROVE  FrameNames(stack', failed', phase', planner', d)
    <2>1. /\ d \in Nat \ {0} /\ d \in 1..Len(stack) /\ failed \subseteq failed'
          /\ \A e \in 1..d : stack'[e] = stack[e]
        BY <1>1, <1>4, <1>8
    <2>2. FrameNames(stack, failed, phase, planner, d)
        BY <2>1 DEF NamesInv
    <2>3. LeftNow(stack', phase', planner', d) = LeftNow(stack, phase, planner, d)
        BY <2>1 DEF LeftNow
    <2> QED BY <2>1, <2>2, <2>3, FrameKept DEF FrameNames
<1>11. FrameNames(stack', failed', phase', planner', n)
    <2>1. FrameNames(stack, failed, phase, planner, n)
        BY <1>1 DEF NamesInv
    <2>2. StepsBound(stack', failed', n)
        <3> SUFFICES ASSUME NEW i \in 1..f.pc, f.plan[i].var # NoVar
                     PROVE  f.plan[i].var \in Known(stack', failed', n)
            BY <1>3, <1>5, <1>7 DEF StepsBound
        <3>1. CASE i = f.pc
            BY <1>9, <3>1
        <3>2. CASE i # f.pc
            <4>1. i \in 1..(f.pc - 1)
                BY <1>5, <3>2
            <4>2. f.plan[i].var \in Known(stack, failed, n)
                BY <1>1, <2>1, <4>1 DEF FrameNames, StepsBound
            <4> QED BY <1>9, <4>2
        <3> QED BY <3>1, <3>2
    <2>3. ASSUME n # 1, OuterInPlace(stack', n)
          PROVE  Fits(stack', failed', n, LeftNow(stack', phase', planner', n))
        <3>1. OuterInPlace(stack, n)
            BY <1>1, <1>4, <2>3 DEF OuterInPlace, InItsPlace
        <3>2. Fits(stack, failed, n, LeftIn(f))
            BY <1>1, <2>1, <2>3, <3>1 DEF FrameNames, LeftNow
        <3>3. LeftNow(stack', phase', planner', n) = f.block
            <4>1. phase' # "plan" /\ stack'[n].pc # 1 /\ stack'[n].block = f.block
                BY <1>3, <1>5, <1>7
            <4> QED BY <4>1 DEF LeftNow, LeftIn
        <3>4. CASE f.pc = 1
            <4>1. f.plan # <<>>
                BY <1>5, EmptySeq
            <4>2. LeftIn(f) = <<step.stmt>> \o f.block
                BY <3>4, <4>1 DEF LeftIn
            <4>3. PICK D \in SUBSET Known(stack, failed, n) : <<LeftIn(f), D>> \in Accepted
                BY <3>2 DEF Fits
            <4>4. step.stmt \in Stmts
                BY <1>6 DEF Steps
            <4> HIDE DEF f, g, step, n
            <4>5. <<f.block, ScopeAfter(step.stmt, D)>> \in Accepted
                BY <1>5, <4>2, <4>3, <4>4, AcceptedFirst
            <4>6. ScopeAfter(step.stmt, D) \subseteq Known(stack', failed', n)
                BY <1>6, <1>9 DEF ScopeAfter
            <4> QED BY <3>3, <4>5, <4>6 DEF Fits
        <3>5. CASE f.pc # 1
            <4>1. LeftIn(f) = f.block
                BY <3>5 DEF LeftIn
            <4> HIDE DEF f, g, step, n
            <4>2. Known(stack, failed, n) \subseteq Known(stack', failed', n)
                BY <1>9
            <4>3. Fits(stack', failed', n, f.block)
                BY <3>2, <4>1, <4>2, FitsMore
            <4> QED BY <3>3, <4>3
        <3> QED BY <3>4, <3>5
    <2> QED BY <2>2, <2>3 DEF FrameNames
<1>12. \A d \in 1..Len(stack') : FrameNames(stack', failed', phase', planner', d)
    <2>1. \A d \in 1..n : d = n \/ d \in 1..(n - 1)
        BY <1>1
    <2> HIDE DEF n, f, g, step
    <2> QED BY <1>3, <1>10, <1>11, <2>1
<1> QED BY <1>12, NamesNext

\* A child context's block is accepted where the names it can see are defined.
LEMMA ChildNames ==
    ASSUME IInv, PlanIsPreorder, NamesInv, phase = "run", UNCHANGED <<program, phase, failed>>,
           NEW n \in 1..Len(stack), stack[n].pc <= Len(stack[n].plan),
           Len(stack') = n + 1, \A e \in 1..n : stack'[e] = stack[e],
           NEW s, s = stack[n].plan[stack[n].pc].stmt,
           NEW f, stack'[n + 1] = f, f.plan = <<>>, f.pc = 1,
           \E i \in DOMAIN Ast[s].blocks : f.block = Ast[s].blocks[i],
           Ast[s].kind = "for" => f.vars[Ast[s].name] # Undef
    PROVE  NamesInv'
<1>1. Len(stack) \in Nat /\ n \in Nat \ {0} /\ failed' = failed
    BY DEF IInv, GoodStack
<1>2. ASSUME NEW d \in 1..n
      PROVE  FrameNames(stack', failed', phase', planner', d)
    <2>1. /\ d \in Nat \ {0} /\ d \in 1..Len(stack) /\ failed \subseteq failed'
          /\ \A e \in 1..d : stack'[e] = stack[e]
        BY <1>1
    <2>2. FrameNames(stack, failed, phase, planner, d)
        BY <2>1 DEF NamesInv
    <2>3. LeftNow(stack', phase', planner', d) = LeftNow(stack, phase, planner, d)
        BY <2>1 DEF LeftNow
    <2> QED BY <2>1, <2>2, <2>3, FrameKept DEF FrameNames
<1>3. FrameNames(stack', failed', phase', planner', n + 1)
    <2>1. StepsBound(stack', failed', n + 1)
        BY DEF StepsBound
    <2>2. ASSUME OuterInPlace(stack', n + 1)
          PROVE  Fits(stack', failed', n + 1, LeftNow(stack', phase', planner', n + 1))
        <3>1. \A e \in 1..n : InItsPlace(stack, e)
            <4>1. ASSUME NEW e \in 1..n
                  PROVE  InItsPlace(stack', e)
                BY <1>1, <2>2 DEF OuterInPlace
            <4> QED BY <1>1, <4>1 DEF InItsPlace
        <3>2. PICK b \in Seq(Stmts) : Fits(stack, failed, n, <<s>> \o b)
            BY <3>1, AcceptedHere
        <3>3. s \in Stmts
            BY <3>1, AcceptedHere
        <3>4. PICK D \in SUBSET Known(stack, failed, n) : <<<<s>> \o b, D>> \in Accepted
            BY <3>2 DEF Fits
        <3>5. <<f.block, ScopeInside(s, D)>> \in Accepted
            BY <3>3, <3>4, AcceptedFirst
        <3>6. Known(stack, failed, n) \subseteq Known(stack', failed', n + 1)
            <4>1. Known(stack, failed, n) \subseteq Known(stack', failed', n)
                BY <1>1, KnownKept
            <4>2. Known(stack', failed', n) \subseteq Known(stack', failed', n + 1)
                BY <1>1, KnownInside
            <4> QED BY <4>1, <4>2
        <3>7. ScopeInside(s, D) \subseteq Known(stack', failed', n + 1)
            <4>1. CASE Ast[s].kind = "for"
                <5>1. Ast[s].name \in Vars
                    BY <3>3, <4>1, NodeType DEF Nodes, WellFormed
                <5>2. Ast[s].name \in Known(stack', failed', n + 1)
                    <6>1. n + 1 \in 1..(n + 1)
                        BY <1>1
                    <6>2. stack'[n + 1].vars[Ast[s].name] # Undef
                        BY <4>1
                    <6> QED BY <5>1, <6>1, <6>2, Zenon DEF Known
                <5> QED BY <3>4, <3>6, <4>1, <5>2 DEF ScopeInside
            <4>2. CASE Ast[s].kind # "for"
                BY <3>4, <3>6, <4>2 DEF ScopeInside
            <4> QED BY <4>1, <4>2
        <3>8. LeftNow(stack', phase', planner', n + 1) = f.block
            BY DEF LeftNow, LeftIn
        <3> QED BY <3>5, <3>7, <3>8 DEF Fits
    <2> QED BY <2>1, <2>2 DEF FrameNames
<1>4. \A d \in 1..Len(stack') : FrameNames(stack', failed', phase', planner', d)
    <2>1. \A d \in 1..(n + 1) : d = n + 1 \/ d \in 1..n
        BY <1>1
    <2> QED BY <1>2, <1>3, <2>1
<1> QED BY <1>4, NamesNext

\* The innermost frame changes, and no other.
LEMMA TopNames ==
    ASSUME IInv, NamesInv, UNCHANGED <<program, failed>>,
           Len(stack) \in Nat \ {0}, Len(stack') = Len(stack),
           \A e \in 1..(Len(stack) - 1) : stack'[e] = stack[e],
           stack'[Len(stack)].vars = stack[Len(stack)].vars,
           StepsBound(stack', failed', Len(stack)),
           LeftNow(stack', phase', planner', Len(stack))
               = LeftNow(stack, phase, planner, Len(stack))
    PROVE  NamesInv'
<1> DEFINE n == Len(stack)
<1>1. ASSUME NEW d \in 1..(n - 1)
      PROVE  FrameNames(stack', failed', phase', planner', d)
    <2>1. /\ d \in Nat \ {0} /\ d \in 1..Len(stack) /\ failed \subseteq failed'
          /\ \A e \in 1..d : stack'[e] = stack[e]
        OBVIOUS
    <2>2. FrameNames(stack, failed, phase, planner, d)
        BY <2>1 DEF NamesInv
    <2>3. LeftNow(stack', phase', planner', d) = LeftNow(stack, phase, planner, d)
        BY <2>1 DEF LeftNow
    <2> QED BY <2>1, <2>2, <2>3, FrameKept DEF FrameNames
<1>2. FrameNames(stack', failed', phase', planner', n)
    <2>1. FrameNames(stack, failed, phase, planner, n)
        BY DEF NamesInv
    <2>2. OuterInPlace(stack', n) => OuterInPlace(stack, n)
        BY DEF OuterInPlace, InItsPlace
    <2>3. Known(stack, failed, n) \subseteq Known(stack', failed', n)
        <3>1. ASSUME NEW e \in 1..n
              PROVE  stack'[e].vars = stack[e].vars
            <4>1. e = n \/ e \in 1..(n - 1)
                OBVIOUS
            <4> QED BY <4>1
        <3> QED BY <3>1 DEF Known
    <2>4. \A block : Fits(stack, failed, n, block) => Fits(stack', failed', n, block)
        BY <2>3, FitsMore
    <2> QED BY <2>1, <2>2, <2>4 DEF FrameNames
<1>3. \A d \in 1..Len(stack') : FrameNames(stack', failed', phase', planner', d)
    <2>1. \A d \in 1..n : d = n \/ d \in 1..(n - 1)
        OBVIOUS
    <2> QED BY <1>1, <1>2, <2>1
<1> QED BY <1>3, NamesNext

\* The step of the innermost context ends.
LEMMA TopEndsNames ==
    ASSUME IInv, NamesInv, phase = "run", Top.pc <= Len(Top.plan), UNCHANGED <<program, phase>>,
           NEW v \in Values \union {Raised}, StepEnds(stack, v)
    PROVE  NamesInv'
<1>1. GoodStack(stack) /\ stack # <<>> /\ Len(stack) \in Nat \ {0} /\ Len(stack) <= Len(stack)
    BY CurrentStepType DEF IInv
<1>2. stack[Len(stack)].pc <= Len(stack[Len(stack)].plan)
    BY DEF Top
<1> QED BY <1>1, <1>2, StepEndsNames

\* A block ends, and with it the step of the context around it.
LEMMA OuterEndsNames ==
    ASSUME IInv, NamesInv, phase = "run", Len(stack) > 1, UNCHANGED <<program, phase>>,
           NEW v \in Values \union {Raised}, StepEnds(Outer, v)
    PROVE  NamesInv'
<1>1. GoodStack(stack) /\ stack # <<>> /\ Len(stack) \in Nat
    BY DEF IInv, GoodStack
<1>2. /\ GoodStack(Outer) /\ Outer # <<>> /\ Len(Outer) = Len(stack) - 1
      /\ \A e \in 1..(Len(stack) - 1) : Outer[e] = stack[e]
      /\ Outer[Len(Outer)].pc <= Len(Outer[Len(Outer)].plan)
    BY <1>1, Pop DEF Outer
<1>3. Len(Outer) <= Len(stack) /\ \A d \in 1..Len(Outer) : Outer[d] = stack[d]
    BY <1>1, <1>2
<1> QED BY <1>2, <1>3, StepEndsNames

\* A control-flow step opens a context for one of its statement's blocks.
LEMMA EnterNames ==
    ASSUME IInv, PlanIsPreorder, NamesInv, phase = "run", Top.pc <= Len(Top.plan),
           UNCHANGED <<program, phase>>,
           NEW f \in Frames, Enter(f), f.plan = <<>>, f.pc = 1,
           \E i \in DOMAIN Ast[CurrentStep.stmt].blocks : f.block = Ast[CurrentStep.stmt].blocks[i],
           Ast[CurrentStep.stmt].kind = "for" => f.vars[Ast[CurrentStep.stmt].name] # Undef
    PROVE  NamesInv'
<1> DEFINE n == Len(stack)
           s == CurrentStep.stmt
<1>1. stack \in Seq(Frames) /\ n \in 1..Len(stack) /\ n \in Nat
    <2>1. Len(stack) \in Nat \ {0}
        BY CurrentStepType
    <2> QED BY <2>1 DEF IInv, GoodStack
<1>2. /\ Len(stack') = n + 1 /\ stack'[n + 1] = f
      /\ \A e \in 1..n : stack'[e] = stack[e]
    BY <1>1, AppendProperties DEF Enter
<1>3. s = stack[n].plan[stack[n].pc].stmt /\ stack[n].pc <= Len(stack[n].plan)
    BY DEF CurrentStep, Top
<1>4. failed' = failed
    BY DEF Enter
<1> HIDE DEF n, s
<1>5. /\ \E i \in DOMAIN Ast[s].blocks : f.block = Ast[s].blocks[i]
      /\ Ast[s].kind = "for" => f.vars[Ast[s].name] # Undef
    BY DEF s
<1> QED BY <1>1, <1>2, <1>3, <1>4, <1>5, ChildNames

\* The context of one iteration is followed by that of the next.
LEMMA IterationNames ==
    ASSUME IInv, PlanIsPreorder, NamesInv, phase = "run", Len(stack) > 1,
           UNCHANGED <<program, phase, failed>>,
           NEW f, TopBecomes(f), f.plan = <<>>, f.pc = 1,
           \E i \in DOMAIN Ast[OpenedBy].blocks : f.block = Ast[OpenedBy].blocks[i],
           Ast[OpenedBy].kind = "for" => f.vars[Ast[OpenedBy].name] # Undef
    PROVE  NamesInv'
<1> DEFINE n == Len(stack) - 1
           s == OpenedBy
<1>1. stack \in Seq(Frames) /\ n \in 1..Len(stack) /\ n \in Nat /\ n + 1 = Len(stack)
    BY DEF IInv, GoodStack
<1>2. /\ Len(stack') = n + 1 /\ stack'[n + 1] = f
      /\ \A e \in 1..n : stack'[e] = stack[e]
    <2> DEFINE m == Len(stack)
    <2>1. stack' = [stack EXCEPT ![m] = f]
        BY DEF TopBecomes
    <2>2. m = Len(stack) /\ m \in 1..m /\ m = n + 1 /\ n \in Nat
        BY <1>1
    <2> HIDE DEF m, n
    <2>3. \A e \in 1..n : e \in 1..Len(stack) /\ e # m
        BY <2>2
    <2>4. Len(stack') = Len(stack) /\ stack'[m] = f
        <3>1. DOMAIN stack = 1..m /\ m \in DOMAIN stack
            <4>1. DOMAIN stack = 1..Len(stack)
                BY <1>1, LenProperties
            <4> QED BY <2>2, <4>1
        <3>2. DOMAIN stack' = 1..m /\ stack'[m] = f
            BY <2>1, <3>1
        <3>3. \A e \in 1..m : stack'[e] \in Frames \union {f}
            BY <1>1, <2>1, <3>1, ElementOfSeq
        <3>4. stack' = [e \in 1..m |-> stack'[e]]
            BY <2>1, <3>1
        <3>5. Len(stack') = m
            BY <2>2, <3>2, <3>3, <3>4, LenProperties
        <3> QED BY <2>2, <3>2, <3>5
    <2>5. \A e \in 1..n : stack'[e] = stack[e]
        BY <1>1, <2>1, <2>3
    <2> QED BY <1>1, <2>2, <2>4, <2>5
<1>3. s = stack[n].plan[stack[n].pc].stmt /\ stack[n].pc <= Len(stack[n].plan)
    <2>1. s = stack[n].plan[stack[n].pc].stmt
        BY DEF OpenedBy
    <2>2. Len(stack) \in 2..Len(stack)
        BY <1>1
    <2>3. Waits(stack, Len(stack))
        BY <2>2 DEF IInv, GoodStack
    <2> HIDE DEF s
    <2> QED BY <2>1, <2>3 DEF Waits
<1> HIDE DEF n, s
<1>4. /\ \E i \in DOMAIN Ast[s].blocks : f.block = Ast[s].blocks[i]
      /\ Ast[s].kind = "for" => f.vars[Ast[s].name] # Undef
    BY DEF s
<1> QED BY <1>1, <1>2, <1>3, <1>4, ChildNames

\* Making a plan changes no frame, and starts with the statement it is for.
LEMMA PlanningNames ==
    ASSUME IInv, NamesInv, PlanStatement \/ PlanBlockDone
    PROVE  NamesInv'
<1>1. Planned(planner') = Planned(planner)
    BY PlanStatementKeeps, PlanBlockDoneKeeps
<1>2. UNCHANGED <<program, phase, stack, failed>>
    BY DEF PlanStatement, PlanBlockDone
<1>3. \A d : FrameNames(stack', failed', phase', planner', d)
                <=> FrameNames(stack, failed, phase, planner, d)
    BY <1>1, <1>2 DEF FrameNames, LeftNow
<1> QED BY <1>2, <1>3, NamesNext DEF NamesInv

\* The sub-plan a frame gets has the statement it is for as its first.
LEMMA PlanReturnsNames ==
    ASSUME IInv, OrderInv, NamesInv, PlanReturns
    PROVE  NamesInv'
<1>1. /\ phase = "plan" /\ phase' = "run" /\ planner.work = <<>>
      /\ UNCHANGED <<program, planner, failed>>
    BY DEF PlanReturns
<1>2. CASE stack = <<>>
    <2> DEFINE f == [NewFrame(EmptyEnv, <<>>, <<>>) EXCEPT !.plan = planner.steps]
    <2>1. stack' = <<f>> /\ f.pc = 1
        BY <1>2 DEF PlanReturns, NewFrame
    <2> HIDE DEF f
    <2>2. Len(stack') = 1 /\ stack'[1].pc = 1
        BY <2>1
    <2>3. StepsBound(stack', failed', 1)
        BY <2>2 DEF StepsBound
    <2>4. FrameNames(stack', failed', phase', planner', 1)
        BY <2>3 DEF FrameNames
    <2>5. \A d \in 1..Len(stack') : d = 1
        BY <2>2
    <2> QED BY <1>1, <2>4, <2>5, NamesNext
<1>3. CASE stack # <<>>
    <2> DEFINE n == Len(stack)
               f == [Top EXCEPT !.plan = planner.steps, !.pc = 1]
    <2>1. stack \in Seq(Frames) /\ n \in Nat \ {0} /\ n \in 1..n
        BY <1>3, EmptySeq DEF IInv, GoodStack
    <2>2. stack' = [stack EXCEPT ![n] = f]
        BY <1>3 DEF PlanReturns, Top
    <2>3. /\ f.plan = planner.steps /\ f.pc = 1 /\ f.block = stack[n].block
          /\ f.vars = stack[n].vars
        <3>1. Top \in Frames
            BY <2>1 DEF Top
        <3> QED BY <3>1 DEF Frames, Top
    <2> HIDE DEF f
    <2>4. /\ Len(stack') = n /\ stack'[n] = f
          /\ \A e \in 1..(n - 1) : stack'[e] = stack[e]
        BY <2>1, <2>2
    <2>5. StepsBound(stack', failed', n)
        BY <2>3, <2>4 DEF StepsBound
    <2>6. Planned(planner) = StmtsOf(planner.steps) /\ planner.steps \in Seq(Steps)
        BY <1>1, AllPlanned DEF IInv, PlannerInv, Planners
    <2>7. PICK s \in Stmts : StmtsOf(planner.steps) = Source[s]
        BY <1>1, <1>3, <2>6 DEF OrderInv, Wanted
    <2>8. planner.steps # <<>>
        <3> SUFFICES ASSUME planner.steps = <<>>
                     PROVE  FALSE
            OBVIOUS
        <3>1. Source[s] = <<>>
            BY <2>7, StmtsOfSteps
        <3>2. <<>> \in Seq(Stmts)
            OBVIOUS
        <3> QED BY <3>1, <3>2, FirstOfText
    <2>9. StmtsOf(planner.steps)[1] = planner.steps[1].stmt
        <3>1. Len(planner.steps) \in Nat \ {0}
            BY <2>6, <2>8, EmptySeq
        <3> QED BY <3>1 DEF StmtsOf
    <2>10. LeftNow(stack', phase', planner', n) = <<planner.steps[1].stmt>> \o stack[n].block
        BY <1>1, <2>3, <2>4, <2>8 DEF LeftNow, LeftIn
    <2>11. LeftNow(stack, phase, planner, n) = <<planner.steps[1].stmt>> \o stack[n].block
        BY <1>1, <2>6, <2>9 DEF LeftNow
    <2> HIDE DEF n
    <2>12. stack'[n].vars = stack[n].vars
        BY <2>3, <2>4
    <2> QED BY <1>1, <2>1, <2>4, <2>5, <2>10, <2>11, <2>12, TopNames DEF n
<1> QED BY <1>2, <1>3

\* The next statement of a block leaves it to be planned.
LEMMA NextInBlockNames ==
    ASSUME IInv, NamesInv, NextInBlock
    PROVE  NamesInv'
<1> DEFINE n == Len(stack)
           f == [Top EXCEPT !.block = Tail(Top.block)]
           s == Head(Top.block)
<1>1. /\ phase' = "plan" /\ Top.block # <<>> /\ Top.pc > Len(Top.plan)
      /\ UNCHANGED <<program, failed>>
    BY DEF NextInBlock, PlanEnded
<1>2. /\ stack \in Seq(Frames) /\ n \in Nat \ {0} /\ n \in 1..n
      /\ Top \in Frames /\ stack[n] = Top
    BY InBlock DEF NextInBlock, IInv, GoodStack, Top
<1>3. stack' = [stack EXCEPT ![n] = f]
    BY DEF NextInBlock, Top
<1>4. f.plan = Top.plan /\ f.pc = Top.pc /\ f.block = Tail(Top.block) /\ f.vars = Top.vars
    BY <1>2 DEF Frames
<1> HIDE DEF f
<1>5. /\ Len(stack') = n /\ stack'[n] = f
      /\ \A e \in 1..(n - 1) : stack'[e] = stack[e]
    BY <1>2, <1>3
<1>6. StepsBound(stack', failed', n)
    <2>1. StepsBound(stack, failed, n)
        BY <1>2 DEF NamesInv, FrameNames
    <2>2. \A e \in 1..n : stack'[e].vars = stack[e].vars
        <3>1. \A e \in 1..n : e = n \/ e \in 1..(n - 1)
            BY <1>2
        <3> QED BY <1>2, <1>4, <1>5, <3>1
    <2>3. stack'[n].pc = stack[n].pc /\ stack'[n].plan = stack[n].plan /\ failed' = failed
        BY <1>1, <1>2, <1>4, <1>5
    <2> QED BY <2>1, <2>2, <2>3 DEF StepsBound, Known
<1>7. Top.block = <<s>> \o Tail(Top.block)
    <2>1. Top.block \in Seq(Stmts)
        BY <1>2 DEF Frames
    <2> QED BY <1>1, <2>1, HeadAndTail
<1>8. Planned(planner')[1] = s
    <2>1. s \in Stmts /\ Planned(planner') = Source[s]
        BY NextPlanned
    <2>2. <<>> \in Seq(Stmts)
        OBVIOUS
    <2> QED BY <2>1, <2>2, FirstOfText
<1>9. LeftNow(stack', phase', planner', n) = Top.block
    BY <1>1, <1>4, <1>5, <1>7, <1>8 DEF LeftNow
<1>10. LeftNow(stack, phase, planner, n) = Top.block
    <2>1. phase # "plan"
        BY DEF NextInBlock, PlanEnded
    <2>2. ~(Top.pc = 1 /\ Top.plan # <<>>)
        <3>1. Top.plan \in Seq(Steps) /\ Len(Top.plan) \in Nat
            BY <1>2 DEF Frames
        <3>2. Top.plan # <<>> => Len(Top.plan) >= 1
            BY <3>1, EmptySeq
        <3> QED BY <1>1, <3>1, <3>2
    <2> QED BY <1>2, <2>1, <2>2 DEF LeftNow, LeftIn
<1>11. stack'[n].vars = stack[n].vars
    BY <1>2, <1>4, <1>5
<1> HIDE DEF n
<1> QED BY <1>1, <1>2, <1>5, <1>6, <1>9, <1>10, <1>11, TopNames DEF n

\* The context of an item has no plan yet, runs the body and binds the item's name.
LEMMA ItemFrameNames ==
    ASSUME NEW s \in Stmts, Ast[s].kind = "for", NEW items \in Seq(Values), items # <<>>
    PROVE  /\ ItemFrame(s, items).plan = <<>> /\ ItemFrame(s, items).pc = 1
           /\ \E i \in DOMAIN Ast[s].blocks : ItemFrame(s, items).block = Ast[s].blocks[i]
           /\ ItemFrame(s, items).vars[Ast[s].name] # Undef
<1>1. /\ Ast[s].name \in Vars
      /\ Ast[s].blocks \in Seq(Seq(Stmts)) /\ Len(Ast[s].blocks) = 1
    BY NodeType DEF Nodes, WellFormed
<1>2. 1 \in DOMAIN Ast[s].blocks
    BY <1>1
<1>3. Head(items) # Undef
    BY HeadTailProperties DEF Values, Undef
<1>4. [EmptyEnv EXCEPT ![Ast[s].name] = Head(items)][Ast[s].name] = Head(items)
    BY <1>1 DEF EmptyEnv
<1> QED BY <1>2, <1>3, <1>4 DEF ItemFrame, NewFrame

\* The context of an iteration has no plan yet and runs the body.
LEMMA IterationFrameNames ==
    ASSUME NEW s \in Stmts, Ast[s].kind = "while", NEW k
    PROVE  /\ IterationFrame(s, k).plan = <<>> /\ IterationFrame(s, k).pc = 1
           /\ \E i \in DOMAIN Ast[s].blocks : IterationFrame(s, k).block = Ast[s].blocks[i]
<1>1. Ast[s].blocks \in Seq(Seq(Stmts)) /\ Len(Ast[s].blocks) = 1
    BY NodeType DEF Nodes, WellFormed
<1>2. 1 \in DOMAIN Ast[s].blocks
    BY <1>1
<1> QED BY <1>2 DEF IterationFrame, NewFrame

\* A step that runs a statement ends, or opens a context for one of its blocks.
LEMMA RunningNames ==
    ASSUME IInv, OrderInv, NamesInv,
           \/ ExecLet \/ ExecDbCall \/ ExecOutput \/ ExecIf \/ ExecFor \/ ExecWhile
    PROVE  NamesInv'
<1> DEFINE s == CurrentStep.stmt
           env == Env(stack, Len(stack))
<1>1. phase = "run" /\ Top.pc <= Len(Top.plan) /\ UNCHANGED <<program, phase>>
    BY DEF ExecLet, ExecDbCall, ExecOutput, ExecIf, ExecFor, ExecWhile, Running
<1>2. s \in Stmts /\ env \in Envs /\ Ast[s].expr \in Exprs
      /\ Ast[s].blocks \in Seq(Seq(Stmts))
    BY <1>1, CurrentStepType, NodeType DEF Nodes
<1>3. Eval(Ast[s].expr, env) \in Values \union {Raised}
    BY <1>2, EvalType
<1>4. PlanIsPreorder
    BY DEF OrderInv
<1>5. CASE ExecLet
    BY <1>1, <1>3, <1>5, TopEndsNames DEF ExecLet
<1>6. CASE ExecDbCall
    BY <1>1, <1>6, TopEndsNames, ScriptAssumption DEF ExecDbCall
<1>7. CASE ExecOutput
    BY <1>1, <1>7, TopEndsNames, NullType DEF ExecOutput
<1>8. CASE ExecIf
    <2> DEFINE b == Branch(s, env)
               f == NewFrame(EmptyEnv, Ast[s].blocks[b], <<>>)
    <2>1. Ast[s].kind = "if" /\ (StepEnds(stack, Raised) \/ StepEnds(stack, NullV) \/ Enter(f))
        BY <1>8 DEF ExecIf, Running
    <2>2. b \in DOMAIN Ast[s].blocks /\ Ast[s].blocks[b] \in Seq(Stmts)
        BY <1>2, <2>1, BranchType
    <2>3. f \in Frames
        <3>1. <<>> \in Seq(Values)
            OBVIOUS
        <3> HIDE DEF b
        <3> QED BY <2>2, <3>1, EmptyEnvType, NewFrameGood DEF GoodFrame
    <2>4. f.plan = <<>> /\ f.pc = 1 /\ f.block = Ast[s].blocks[b]
        BY DEF NewFrame
    <2>5. \E i \in DOMAIN Ast[s].blocks : f.block = Ast[s].blocks[i]
        <3> HIDE DEF f, b
        <3> QED BY <2>2, <2>4
    <2> HIDE DEF f
    <2>6. CASE Enter(f)
        BY <1>1, <1>4, <2>1, <2>3, <2>4, <2>5, <2>6, EnterNames
    <2> QED BY <1>1, <2>1, <2>6, TopEndsNames, NullType
<1>9. CASE ExecFor
    <2> DEFINE v == Eval(Ast[s].expr, env)
               f == ItemFrame(s, Items(v))
    <2>1. /\ Ast[s].kind = "for"
          /\ \/ StepEnds(stack, Raised) \/ StepEnds(stack, NullV)
             \/ Enter(f) /\ v # Raised /\ Items(v) # <<>>
        BY <1>9 DEF ExecFor, Running
    <2>2. CASE Enter(f) /\ v # Raised /\ Items(v) # <<>>
        <3>1. Items(v) \in Seq(Values)
            BY <1>3, <2>2, ItemsType
        <3>2. f \in Frames
            BY <1>2, <2>1, <2>2, <3>1, ItemFrameGood DEF GoodFrame
        <3>3. /\ f.plan = <<>> /\ f.pc = 1
              /\ \E i \in DOMAIN Ast[s].blocks : f.block = Ast[s].blocks[i]
              /\ f.vars[Ast[s].name] # Undef
            BY <1>2, <2>1, <2>2, <3>1, ItemFrameNames
        <3> HIDE DEF f
        <3> QED BY <1>1, <1>4, <2>2, <3>2, <3>3, EnterNames
    <2> QED BY <1>1, <2>1, <2>2, TopEndsNames, NullType
<1>10. CASE ExecWhile
    <2> DEFINE f == IterationFrame(s, 0)
    <2>1. /\ Ast[s].kind = "while"
          /\ StepEnds(stack, Raised) \/ StepEnds(stack, NullV) \/ Enter(f)
        BY <1>10 DEF ExecWhile, Running
    <2>2. f \in Frames
        BY <1>2, <2>1, IterationFrameGood DEF GoodFrame
    <2>3. /\ f.plan = <<>> /\ f.pc = 1
          /\ \E i \in DOMAIN Ast[s].blocks : f.block = Ast[s].blocks[i]
        BY <1>2, <2>1, IterationFrameNames
    <2> HIDE DEF f
    <2>4. CASE Enter(f)
        BY <1>1, <1>4, <2>1, <2>2, <2>3, <2>4, EnterNames
    <2> QED BY <1>1, <2>1, <2>4, TopEndsNames, NullType
<1> QED BY <1>5, <1>6, <1>7, <1>8, <1>9, <1>10

\* A block that ends ends its step, or is run for the next item or iteration.
LEMMA BlockEndsNames ==
    ASSUME IInv, OrderInv, NamesInv, IfEnds \/ ForNext \/ WhileNext
    PROVE  NamesInv'
<1>1. UNCHANGED <<program, phase>> /\ PlanIsPreorder
    BY DEF IfEnds, ForNext, WhileNext, OrderInv
<1>2. CASE IfEnds
    BY <1>1, <1>2, BlockEndedType, OuterEndsNames, NullType DEF IfEnds
<1>3. CASE ForNext
    <2> DEFINE f == ItemFrame(OpenedBy, Top.items)
    <2>1. /\ phase = "run" /\ Len(stack) > 1 /\ Top \in Frames
          /\ OpenedBy \in Stmts /\ Ast[OpenedBy].kind = "for"
        BY <1>3, BlockEndedType DEF ForNext
    <2>2. CASE StepEnds(Outer, NullV)
        BY <1>1, <2>1, <2>2, OuterEndsNames, NullType
    <2>3. CASE Top.items # <<>> /\ TopBecomes(f) /\ failed' = failed
        <3>1. Top.items \in Seq(Values)
            BY <2>1 DEF Frames
        <3>2. /\ f.plan = <<>> /\ f.pc = 1
              /\ \E i \in DOMAIN Ast[OpenedBy].blocks : f.block = Ast[OpenedBy].blocks[i]
              /\ f.vars[Ast[OpenedBy].name] # Undef
            BY <2>1, <2>3, <3>1, ItemFrameNames
        <3> HIDE DEF f
        <3> QED BY <1>1, <2>1, <2>3, <3>2, IterationNames
    <2> QED BY <1>3, <2>2, <2>3 DEF ForNext, TopBecomes
<1>4. CASE WhileNext
    <2> DEFINE f == IterationFrame(OpenedBy, Top.iterations + 1)
    <2>1. /\ phase = "run" /\ Len(stack) > 1
          /\ OpenedBy \in Stmts /\ Ast[OpenedBy].kind = "while"
        BY <1>4, BlockEndedType DEF WhileNext
    <2>2. CASE StepEnds(Outer, NullV) \/ StepEnds(Outer, Raised)
        BY <1>1, <2>1, <2>2, OuterEndsNames, NullType
    <2>3. CASE TopBecomes(f) /\ failed' = failed
        <3>1. /\ f.plan = <<>> /\ f.pc = 1
              /\ \E i \in DOMAIN Ast[OpenedBy].blocks : f.block = Ast[OpenedBy].blocks[i]
            BY <2>1, IterationFrameNames
        <3> HIDE DEF f
        <3> QED BY <1>1, <2>1, <2>3, <3>1, IterationNames
    <2> QED BY <1>4, <2>2, <2>3 DEF WhileNext, TopBecomes
<1> QED BY <1>2, <1>3, <1>4

\* Every step preserves what the frames know of the names.
LEMMA NamesStep == IInv /\ OrderInv /\ NamesInv /\ [Next]_vars => NamesInv'
<1> SUFFICES ASSUME IInv, OrderInv, NamesInv, [Next]_vars
             PROVE  NamesInv'
    OBVIOUS
<1>1. CASE PlanStatement \/ PlanBlockDone
    BY <1>1, PlanningNames
<1>2. CASE PlanReturns
    BY <1>2, PlanReturnsNames
<1>3. CASE \/ ExecLet \/ ExecDbCall \/ ExecOutput \/ ExecIf \/ ExecFor \/ ExecWhile
    BY <1>3, RunningNames
<1>4. CASE NextInBlock
    BY <1>4, NextInBlockNames
<1>5. CASE IfEnds \/ ForNext \/ WhileNext
    BY <1>5, BlockEndsNames
<1>6. CASE Finish
    <2>1. UNCHANGED <<program, stack, failed>> /\ phase = "run" /\ phase' = "done"
        BY <1>6 DEF Finish, PlanEnded
    <2>2. \A d : FrameNames(stack', failed', phase', planner', d)
                    <=> FrameNames(stack, failed, phase, planner, d)
        BY <2>1 DEF FrameNames, LeftNow
    <2> QED BY <2>1, <2>2, NamesNext DEF NamesInv
<1>7. CASE UNCHANGED vars
    <2>1. UNCHANGED <<program, phase, planner, stack, failed>>
        BY <1>7 DEF vars
    <2>2. \A d : FrameNames(stack', failed', phase', planner', d)
                    <=> FrameNames(stack, failed, phase, planner, d)
        BY <2>1
    <2> QED BY <2>1, <2>2, NamesNext DEF NamesInv
<1> QED BY <1>1, <1>2, <1>3, <1>4, <1>5, <1>6, <1>7 DEF Next

\* So a statement that is run in its place, within statements run in theirs,
\* finds every name it reads.
LEMMA NamesInvImplies == IInv /\ OrderInv /\ NamesInv => NamesResolve
<1> SUFFICES ASSUME IInv, OrderInv, NamesInv, Running({"let", "for"}),
                    \A d \in 1..Len(stack) : InItsPlace(stack, d),
                    NEW x \in Refs(Ast[CurrentStep.stmt].expr)
             PROVE  Env(stack, Len(stack))[x] # Undef \/ x \in failed
    BY DEF NamesResolve
<1> DEFINE n == Len(stack)
           s == CurrentStep.stmt
<1>1. /\ phase = "run" /\ Top.pc <= Len(Top.plan) /\ Ast[s].kind \in {"let", "for"}
    BY DEF Running
<1>2. n \in Nat \ {0} /\ n \in 1..n
    BY <1>1, CurrentStepType
<1>3. s = stack[n].plan[stack[n].pc].stmt /\ stack[n].pc <= Len(stack[n].plan)
    BY <1>1 DEF CurrentStep, Top
<1>4. x \in Refs(Ast[s].expr)
    OBVIOUS
<1> HIDE DEF n, s
<1>5. s \in Stmts /\ \E b \in Seq(Stmts) : Fits(stack, failed, n, <<s>> \o b)
    <2>1. PlanIsPreorder /\ \A e \in 1..n : InItsPlace(stack, e)
        BY DEF OrderInv, n
    <2> QED BY <1>1, <1>2, <1>3, <2>1, AcceptedHere DEF n
<1>6. PICK b \in Seq(Stmts) : Fits(stack, failed, n, <<s>> \o b)
    BY <1>5
<1>7. PICK D \in SUBSET Known(stack, failed, n) : <<<<s>> \o b, D>> \in Accepted
    BY <1>6 DEF Fits
<1>8. D \subseteq Vars /\ Refs(Ast[s].expr) \subseteq D
    BY <1>1, <1>5, <1>7, AcceptedFirst
<1>9. x \in Vars /\ x \in Known(stack, failed, n)
    BY <1>4, <1>7, <1>8
<1>10. x \in failed \/ \E e \in 1..n : stack[e].vars[x] # Undef
    BY <1>9 DEF Known
<1>11. x \notin failed => Lookup(stack, n, x) # Undef
    BY <1>2, <1>10, LookupVisible
<1> QED BY <1>9, <1>11 DEF Env, n

\* In every program the type checker accepts, a name the value of a let or the
\* iterable of a for reads has a value whenever the statement is run in its
\* place, within statements run in theirs, unless the step that was to bind it
\* failed: "is used before it is defined" is caught by the check.
THEOREM AcceptedNamesResolve == Spec => []NamesResolve
<1>1. Init => NamesInv
    <2> SUFFICES ASSUME Init
                 PROVE  NamesInv
        OBVIOUS
    <2>1. Len(stack) = 0
        BY DEF Init
    <2> QED BY <2>1 DEF NamesInv
<1> QED BY <1>1, OrderInit, OrderNext, NamesStep, NamesInvImplies, Invariance, PTL DEF Spec
=============================================================================
