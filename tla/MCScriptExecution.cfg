CONSTANTS
    Stmts <- MCStmts
    Vars <- MCVars
    Ast <- MCAst
    Source <- MCSource
    Accepted <- MCAccepted
    Programs <- MCPrograms
    DbResults <- MCDbResults
    MaxIterations = 2
SPECIFICATION FairSpec
INVARIANTS
    TypeOK
    PlanInDependencyOrder
    PlanIsPreorder
    NamesResolve
    StackDiscipline
    WhileConditionFrozen
PROPERTIES
    WhileEndsOnlyByLimit
    OuterContextsUntouched
    ImplementsPartialFailure
    Termination
CHECK_DEADLOCK FALSE
