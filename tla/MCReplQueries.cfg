CONSTANTS
    q1 = q1
    q2 = q2
    Queries = {q1, q2}
    NoQuery = NoQuery
    Length <- MCLength
SPECIFICATION FairSpec
INVARIANTS
    TypeOK
    ExecutesOwnScript
    ShowsOwnOutcome
PROPERTY PromptComesBack
CHECK_DEADLOCK FALSE
