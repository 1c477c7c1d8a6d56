\* Four turns over three messages, two at a time.
CONSTANTS
    m1 = m1
    m2 = m2
    m3 = m3
    w1 = w1
    w2 = w2
    a1 = a1
    a2 = a2
    Messages = {m1, m2, m3}
    Whats = {w1, w2}
    Accounts = {a1, a2}
    None = None
    Scripts <- Conversations
    Turns = {t1, t2}
    MaxAttempts = 2
    MaxTurns = 4
SPECIFICATION Spec
SYMMETRY Symmetry
CHECK_DEADLOCK FALSE
INVARIANTS
    TypeOK
    HandoffIsTraceable
    CancelIsHonest
    CardIsTrue
    
PROPERTIES
    ClosedStaysClosed
