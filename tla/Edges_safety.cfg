\* Overlapping requests on two keys and on a workspace, and overlapping runs of
\* the reminders.
CONSTANTS
    ClaimKeys = {c1}
    RecordKeys = {r1}
    Hashes = {h1, h2}
    None = None
    Sessions = {s1, s2, s3}
    LeaseTicks = 1
    MaxSkew = 1
    MaxEffects = 3
    Users = {u1, u2, u3}
    Nobody = Nobody
    Newcomers = {u3}
    Officers = {h1, h2}
    Invites = {1}
    Secrets = {1, 2, 3}
    Devices = {1, 2, 3}
    MaxErrands = 3
    MaxFailures = 1
    Endpoints = {1, 2}
    Runners = {h1, h2}
    NoRunner = NoRunner
    MaxRounds = 2
    MaxMishaps = 2
SPECIFICATION EdgesSpec
SYMMETRY Symmetry
VIEW EdgesView
INVARIANTS
    EdgesTypeOK
    EffectAtMostOnce
    
    OwnerRemains
    InviteSettlesOnce
    OneSuccessor
    RemovedHoldNoToken
    PushedOnce
    SentReachesAll
PROPERTIES
    ImplementsKeyedWrite
CHECK_DEADLOCK FALSE
