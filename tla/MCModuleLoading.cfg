CONSTANTS
    Names <- MCNames
    Classes <- MCClasses
    Class <- MCClass
    Shipped <- MCShipped
    Requests <- MCRequests
    NoClass = NoClass
SPECIFICATION FairLoadSpec
INVARIANTS
    LoadTypeOK
    RegistryClosed
    DependenciesFirst
    LoadIsComplete
PROPERTIES
    NothingReplaced
    LoadEnds
