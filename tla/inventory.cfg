SPECIFICATION FairSpec
CONSTANTS
    Reqs = {p1, p2}
    Rooms = {r1}
    SetIds = {c1}
    MaxBeds = 2
    MaxClaims = 2
    Declared = {r1}
    StrikeLimit = 0
    Ops = {"type", "create", "update", "archive", "edit", "submit", "cancel", "approve", "intent", "stay"}
    None = None
CHECK_DEADLOCK FALSE
INVARIANTS BedsMatchCapacity
PROPERTIES RequestsAnswered
