CONSTANTS
    Stmts <- MCStmts
    Vars <- MCVars
    Ast <- MCAst
    Source <- MCSource
    Accepted <- MCAccepted
    Programs <- MCPrograms
    DbResults <- MCDbResults
    MaxIterations = 2
SPECIFICATION Spec
INVARIANT FailuresAreRecorded
CHECK_DEADLOCK FALSE
