\* Two overlapping requests over every table of two transactions.
CONSTANTS
    Accounts = {1, 2}
    Ids = {t1, t2}
    MaxAmount = 2
    Opening = 1
    Sessions = {s1, s2}
    MaxRequests = 3
SPECIFICATION Spec
SYMMETRY Symmetry
INVARIANTS
    TypeOK
    BalancesMatchUnlessStale
    OrderedNeverDeadlock
CHECK_DEADLOCK FALSE
