CONSTANTS
    t1 = t1
    t2 = t2
    LeavesIn <- MCLeavesIn
    ValueOf <- MCValueOf
    TruthOf <- MCTruthOf
    SqlOf <- MCSqlOf
    SqlBound <- MCSqlBound
    CypherOf <- MCCypherOf
    CypherBound <- MCCypherBound
    FilterOf <- MCFilterOf
    FilterMatches <- MCFilterMatches
    FilterIsExpression <- MCFilterIsExpression
    ConditionErrors <- MCConditionErrors
    Nodes <- MCNodes
    Height <- MCHeight
    Aliases <- MCAliases
    Fields <- MCFields
    Contents <- MCContents
    OnlyFieldsAndLiterals <- MCOnlyFieldsAndLiterals
    Threads <- MCThreads
    Stmts <- MCStmts
    Stmt <- MCStmt
    Databases <- MCDatabases
    MaxStatements = 2
SYMMETRY MCSymmetry
SPECIFICATION Spec
PROPERTIES
    NeoConditionsMean
CHECK_DEADLOCK FALSE
