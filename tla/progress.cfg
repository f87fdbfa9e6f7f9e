SPECIFICATION FairSpec
CONSTANTS
    Students = {s1, s2}
    Beds = {b1}
    Procs = {p1, p2}
    ReserveKeys = {k1}
    IntakeKeys = {k3}
    PayKeys = {y1}
    Suites = {}
    RoomType <- MCTypes
    LongStay = {}
    Price = 1
    Fees = {0}
    RefundInputs = {"omitted"}
    MaxActive = 1
    Ops <- MCNoPay
    None = None
CHECK_DEADLOCK FALSE
INVARIANTS IInv
PROPERTIES OverdueHoldFreed RequestsFinish
