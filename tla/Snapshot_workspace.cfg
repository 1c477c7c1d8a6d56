\* One person, a switch of workspace during a boot.
CONSTANTS
    People = {p1}
    Places = {x, y}
    Domains = {1}
    Boots = {b1, b2}
    Empty = Empty
    MaxMoves = 2
SPECIFICATION SnapshotSpec
INVARIANT ShownIsOfWorkspace
CHECK_DEADLOCK FALSE
