\* The operator, the methodologist and a successor; two modules, one of them
\* on the SetToken from the start; one extension that may be listed twice.
CONSTANTS
    op = op
    meth = meth
    next = next
    m1 = m1
    m2 = m2
    e1 = e1
    Self = "BaseManagerV2"
    NewManager = "new manager"
    Operator0 = op
    Methodologist0 = meth
    Accounts <- MCAccounts
    Successors <- MCSuccessors
    Modules <- MCModules
    InitialModules <- MCInitialModules
    Extensions <- MCExtensions
    MaxCopies = 2
    MaxApprovals = 1
SPECIFICATION FairSpec
INVARIANTS
    TypeOK
    AuthorizationsClean
    ProtectedModulesOnSet
PROPERTIES
    ProtectionNeedsMethodologist
    EmergencyFreezesOperator
    EmergencyEnds
