SPECIFICATION FairSpec
CONSTANTS
    e = e
    Reqs = {p1, p2}
    Accounts = {u1}
    Subs = {s1}
    Contacts = {e}
    Emails = {e}
    Proves <- MCProves
    Attempts = {a1, a2}
    StaffRoles = {"super_admin", "ops_lead"}
    ConsumerRoles = {"student", "property_manager"}
    Invitable = {"ops_lead"}
    Ops = {"roles", "manager", "invite", "expire", "unclaimed", "status", "delete"}
    None = None
CHECK_DEADLOCK FALSE
INVARIANTS TypeOK OneKindOfRole OneUsePerAttempt
PROPERTIES InvitationHonoured CallsEnd DeletionReachesProvider
