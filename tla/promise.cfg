SPECIFICATION Spec
CONSTANTS
    Students = {s1, s2}
    Beds = {b1}
    Procs = {p1, p2}
    ReserveKeys = {k1, k2}
    IntakeKeys = {k3}
    PayKeys = {y1, y2}
    Suites = {}
    RoomType <- MCTypes
    LongStay = {}
    Price = 2
    Fees = {0, 1}
    RefundInputs = {"omitted"}
    MaxActive = 1
    Ops <- MCGuardedOps
    None = None
SYMMETRY Sym
CHECK_DEADLOCK FALSE
INVARIANTS TypeOK OneLiveClaimPerBed PromiseInv
PROPERTIES RentFitsBalance Serializable
