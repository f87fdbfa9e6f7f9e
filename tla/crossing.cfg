SPECIFICATION Spec
CONSTANTS
    Loops = {l1, l2}
    Photos = {f1}
    Components = {c1}
    Leads = {a1}
    MaxPosts = 2
    MaxEditions = 2
    MaxKeys = 1
    Ops <- MCCrossing
SYMMETRY MCSym
CHECK_DEADLOCK FALSE
INVARIANTS EditionsWhole PhotosInv
