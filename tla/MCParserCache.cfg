CONSTANTS
    Names <- MCNames
    Classes <- MCClasses
    Class <- MCClass
    Shipped <- MCClasses
    Requests <- MCRequests
    NoClass = NoClass
    Queries = {q1, q2, q3}
    NoQuery = NoQuery
    NoParser <- MCNoParser
    Extending <- MCExtending
    Points <- MCPoints
    BadGrammar <- MCBadGrammar
SPECIFICATION Spec
SYMMETRY Threads
INVARIANTS
    ParserTypeOK
    CacheFiledRightly
PROPERTIES
    ParsesWithRegistered
    LoneBuildsSucceed
