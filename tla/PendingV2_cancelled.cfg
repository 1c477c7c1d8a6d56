CONSTANTS
    Ops = {o1}
    Hashes = {h1}
    None = None
    Workers = {w1, w2}
    LeaseTicks = 3
    TtlTicks = 4
    SecondTicks = 2
    MaxSkew = 1
    MaxAttempts = 3
    MaxTokens = 3
    MaxCrashes = 1
SPECIFICATION Spec
INVARIANT CancelledHasNoEffect
