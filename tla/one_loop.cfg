SPECIFICATION FairSpec
CONSTANTS
    Loops = {l1}
    Photos = {f1, f2}
    Components = {}
    Leads = {a1}
    MaxPosts = 1
    MaxEditions = 2
    MaxKeys = 3
    Ops <- MCPlain
CHECK_DEADLOCK FALSE
INVARIANTS TypeOK SyncedMeansSubmitted
PROPERTIES ForgottenWithBatch DraftSettles
