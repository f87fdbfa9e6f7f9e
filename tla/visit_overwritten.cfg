SPECIFICATION Spec
CONSTANTS
    Loops = {l1}
    Photos = {f1}
    Components = {}
    Leads = {a1}
    MaxPosts = 1
    MaxEditions = 1
    MaxKeys = 1
    Ops = {"approve"}
SYMMETRY MCSym
CHECK_DEADLOCK FALSE
PROPERTIES VisitOnlyAdvances
