CONSTANTS
    Accounts = {1, 2}
    Ids = {t1}
    MaxAmount = 2
    Opening = 1
    Sessions = {s1, s2}
    MaxRequests = 2
SPECIFICATION Spec
INVARIANT InactiveIsUnused
CHECK_DEADLOCK FALSE
