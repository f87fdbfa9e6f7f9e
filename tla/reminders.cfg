SPECIFICATION FairSpec
CONSTANTS
    Runs = {p1, p2}
    Times = {t1, t2}
    Farthest = 2
    MaxMoves = 1
    Ops = {"fail", "crash", "move", "switch"}
CHECK_DEADLOCK FALSE
INVARIANTS TypeOK RemindedOnce NothingForgotten
PROPERTIES CaughtUp
