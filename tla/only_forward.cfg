SPECIFICATION Spec
CONSTANTS
    Students = {s1}
    Beds = {b1}
    Procs = {p1, p2}
    ReserveKeys = {k1}
    IntakeKeys = {}
    PayKeys = {y1}
    Suites = {}
    RoomType <- MCTypes
    LongStay = {}
    Price = 1
    Fees = {0}
    RefundInputs = {"omitted"}
    MaxActive = 1
    Ops <- MCBookCancel
    None = None
SYMMETRY Sym
CHECK_DEADLOCK FALSE
PROPERTIES OnlyForward
