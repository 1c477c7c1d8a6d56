\* One operation, three concurrent executions, skewed clocks, one crash; and a
\* browser with two boots.
CONSTANTS
    Ops = {o1}
    Hashes = {h1}
    None = None
    Workers = {w1, w2, w3}
    LeaseTicks = 3
    TtlTicks = 4
    SecondTicks = 2
    MaxSkew = 1
    MaxAttempts = 3
    MaxTokens = 3
    MaxCrashes = 1
    People = {p1, p2}
    Places = {x, y}
    Domains = {1, 2}
    Boots = {b1, b2}
    Empty = Empty
    MaxMoves = 3
SPECIFICATION ApprovalSpec
SYMMETRY SymmetryOfBoth
CHECK_DEADLOCK FALSE
INVARIANTS
    ApprovalTypeOK
    EffectAtMostOnce
    SucceededIsOnLedger
    AttemptOwnership
    NoOverlapDuringLease
    ConfirmedIsClaimable
    ShownIsOfPerson
    RejectedStaysClosed
PROPERTIES
    
    ImplementsContract
    SavesAreKept
