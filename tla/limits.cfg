SPECIFICATION OfferSpec
CONSTANTS
    Students = {s1}
    Beds = {b1, b2, b3}
    Procs = {p1, p2}
    ReserveKeys = {k1}
    IntakeKeys = {o1, o2}
    OfferKeys = {o1, o2}
    PayKeys = {y1}
    Suites = {b3}
    RoomType <- MCTypes
    LongStay = {b3}
    Price = 1
    Fees = {0}
    RefundInputs = {"omitted"}
    MaxActive = 2
    MaxPending = 1
    Ops <- MCLimitOps
    None = None
SYMMETRY MCSym
CHECK_DEADLOCK FALSE
INVARIANTS WithinActiveLimit OneRoomTypePerStudent OfferMatchesBooking FewOffersWait OffersTypeOK LimitInv
