SPECIFICATION Spec
CONSTANTS
    Reqs = {p1, p2}
    Rooms = {r1}
    SetIds = {c1}
    MaxBeds = 1
    MaxClaims = 0
    Declared = {}
    StrikeLimit = 1
    Ops = {"type", "create", "submit", "approve", "intent", "manage", "visit", "publish", "review", "remove", "standing", "strike"}
    None = None
SYMMETRY MCSym
CHECK_DEADLOCK FALSE
INVARIANTS TypeOK ShownRoomsWereSeen ListedIsListable
