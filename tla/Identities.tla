----------------------------- MODULE Identities -----------------------------
(***************************************************************************)
(* Who a person is: identities at the outside provider (Logto), the local    *)
(* accounts they are linked to, the roles an account holds, invitations of   *)
(* staff, sign-in attempts and sessions, and the deletion of an account,     *)
(* which must reach the provider and must not be undone by a sign-in.        *)
(*                                                                           *)
(* A request is a READ COMMITTED transaction.  Where it takes one lock and    *)
(* does all its work behind it, it is one step; sign-ins and deletions, which *)
(* take several, go step by step, and the locks they hold follow from the     *)
(* step they have reached.                                                    *)
(***************************************************************************)
EXTENDS Naturals, FiniteSets

CONSTANTS
    Reqs,           \* requests being served
    Accounts,       \* rows of users
    Subs,           \* subjects at the provider
    Contacts,       \* verified email addresses and phone numbers
    Emails,         \* the email addresses among them
    Proves,         \* the contacts an identity has proved to the provider
    Attempts,       \* sign-in transactions in Redis
    StaffRoles, ConsumerRoles,
    Invitable,      \* staff roles that an invitation may grant
    Ops,            \* what may happen in this instance
    None

Roles == StaffRoles \cup ConsumerRoles

ASSUME ProvesAssumption ==
    /\ Proves \in [Subs -> (SUBSET Contacts) \ {{}}] /\ Emails \subseteq Contacts
    /\ \A s \in Subs : \A c, d \in Proves[s] \cap Emails : c = d
ASSUME RolesAssumption ==
    /\ StaffRoles \cap ConsumerRoles = {} /\ Invitable \subseteq StaffRoles
    /\ "staff" \notin Roles
ASSUME ManagerAssumption == "property_manager" \in ConsumerRoles
ASSUME NoneAssumption == None \notin Subs \cup Accounts \cup Attempts \cup Roles \cup Contacts

VARIABLES
    accounts,    \* rows of users with their active role assignments
    invitations, \* the pending row of auth_invitations for an address
    tombstones,  \* deleted_auth_identities: of a subject, none, pending or done
    provider,    \* identities that exist at the provider
    attempts,    \* sign-in attempts that no callback has used
    sessions,    \* rows of sessions, each with the attempt it came from
    req          \* requests in progress

rows == <<accounts, invitations, tombstones, sessions>>
vars == <<rows, provider, attempts, req>>

Account == [sub : Subs \cup {None}, contacts : SUBSET Contacts, active : BOOLEAN,
            roles : SUBSET Roles]
NoAccount == [sub |-> None, contacts |-> {}, active |-> FALSE, roles |-> {}]

Invitation == [role : Invitable \cup {None}, expired : BOOLEAN]
NoInvitation == [role |-> None, expired |-> FALSE]

\* What somebody signs in for: authIntent.
Intents == (ConsumerRoles \ {"property_manager"}) \cup {"staff"}

Request == [op : {"none", "callback", "delete", "enroll"},
            pc : {"idle", "consume", "lock", "offer", "account", "session", "row", "cascade",
                  "write"},
            sub : Subs \cup {None}, intent : Intents \cup {None},
            attempt : Attempts \cup {None}, account : Accounts \cup {None},
            offer : Invitable \cup {None}]
NoRequest == [op |-> "none", pc |-> "idle", sub |-> None, intent |-> None,
              attempt |-> None, account |-> None, offer |-> None]

TypeOK ==
    /\ accounts \in [Accounts -> Account]
    /\ invitations \in [Emails -> Invitation]
    /\ tombstones \in [Subs -> {"none", "pending", "done"}]
    /\ provider \subseteq Subs
    /\ attempts \subseteq Attempts
    /\ sessions \subseteq Accounts \X Attempts
    /\ req \in [Reqs -> Request]

---------------------------------------------------------------------------
(* Rows and locks.                                                         *)

Exists(u) == accounts[u].contacts # {}
\* A row nobody refers to any more may as well be a new one.
Unused(u) == ~Exists(u) /\ \A p \in Reqs : req[p].account # u
OwnedBy(s) == {u \in Accounts : accounts[u].sub = s}
WithContact(contacts) == {u \in Accounts : accounts[u].contacts \cap contacts # {}}
Pending(c) == invitations[c].role # None
Acceptable(c) == Pending(c) /\ ~invitations[c].expired

At(p, op, pc) == req[p].op = op /\ req[p].pc = pc

\* Advisory locks of a transaction on a subject and its contacts.
HoldsSubject(p, s) ==
    /\ req[p].sub = s
    /\ At(p, "callback", "offer") \/ At(p, "callback", "account")
       \/ At(p, "delete", "row") \/ At(p, "delete", "cascade")
HoldsContact(p, c) ==
    (At(p, "callback", "offer") \/ At(p, "callback", "account")) /\ c \in Proves[req[p].sub]
\* Slip: the invitations are read without FOR UPDATE.
ReadsInvitation(p, c) == FALSE

HoldsInvitation(p, c) ==
    At(p, "callback", "account") /\ req[p].offer # None /\ c \in Proves[req[p].sub]
HoldsAccount(p, u) == At(p, "delete", "cascade") /\ req[p].account = u

IdentityFree(s) ==
    \A q \in Reqs : ~HoldsSubject(q, s) /\ \A c \in Proves[s] : ~HoldsContact(q, c)
InvitationFree(c) == \A q \in Reqs : ~HoldsInvitation(q, c)
AccountFree(u) == \A q \in Reqs : ~HoldsAccount(q, u)

Begin(p, request) == req[p] = NoRequest /\ req' = [req EXCEPT ![p] = request]
Finish(p) == req' = [req EXCEPT ![p] = NoRequest]
Goes(p, pc) == req' = [req EXCEPT ![p].pc = pc]
\* Refused, or broken off: nothing is committed.
Refuse(p) == Finish(p) /\ UNCHANGED <<rows, provider, attempts>>

---------------------------------------------------------------------------
(* Roles.                                                                  *)

\* Slip: another staff role is no obstacle.
ConflictingKinds(role) == IF role \in StaffRoles THEN ConsumerRoles ELSE StaffRoles

\* What assignRoleInTransaction refuses to mix with a role.
Conflicting(role) ==
    IF role \in StaffRoles THEN ConsumerRoles \cup (StaffRoles \ {role}) ELSE StaffRoles

Assignable(account, role) == account.active /\ account.roles \cap Conflicting(role) = {}

\* RoleAssignmentService.grant, by the staff, and the landlord's enroll.
Grant ==
    /\ "roles" \in Ops
    /\ \E u \in Accounts, role \in Roles \ {"property_manager"} :
        /\ Exists(u) /\ AccountFree(u) /\ Assignable(accounts[u], role)
        /\ accounts' = [accounts EXCEPT ![u].roles = @ \cup {role}]
    /\ UNCHANGED <<invitations, tombstones, sessions, provider, attempts, req>>

\* revoke, and the end of a role's validity; for all staff roles of an account,
\* deactivateStaff.
Revoke ==
    /\ "roles" \in Ops
    /\ \E u \in Accounts :
        /\ AccountFree(u)
        /\ \E roles \in {{role} : role \in accounts[u].roles} \cup {StaffRoles} :
            accounts' = [accounts EXCEPT ![u].roles = @ \ roles]
    /\ UNCHANGED <<invitations, tombstones, sessions, provider, attempts, req>>

\* ManagementService.enroll: consumer reads, with no lock on the account; the
\* new assignment's foreign key then shares the account's row.
EnrollRead(p) ==
    /\ "manager" \in Ops
    /\ \E u \in Accounts :
        /\ accounts[u].active /\ accounts[u].roles \cap StaffRoles = {}
        /\ Begin(p, [NoRequest EXCEPT !.op = "enroll", !.pc = "write", !.account = u])
    /\ UNCHANGED <<rows, provider, attempts>>

EnrollWrite(p) ==
    LET u == req[p].account
    IN  /\ At(p, "enroll", "write") /\ AccountFree(u)
        /\ IF Exists(u)
           THEN /\ accounts' = [accounts EXCEPT ![u].roles = @ \cup {"property_manager"}]
                /\ Finish(p)
                /\ UNCHANGED <<invitations, tombstones, sessions, provider, attempts>>
           ELSE Refuse(p)

---------------------------------------------------------------------------
(* Invitations.                                                            *)

\* invite, which takes the place of an expired one.  (An update that changes the
\* address is left out.)
Invite ==
    /\ "invite" \in Ops
    /\ \E c \in Emails, role \in Invitable :
        /\ WithContact({c}) = {} /\ ~Acceptable(c) /\ InvitationFree(c)
        /\ invitations' = [invitations EXCEPT ![c] = [role |-> role, expired |-> FALSE]]
    /\ UNCHANGED <<accounts, tombstones, sessions, provider, attempts, req>>

\* update for the same contact, and retry: another role or the same, for a new
\* day.  An update, but no retry, asks that nobody has registered meanwhile.
Renew ==
    /\ "invite" \in Ops
    /\ \E c \in Emails, role \in Invitable :
        /\ Pending(c) /\ InvitationFree(c)
        /\ role = invitations[c].role \/ WithContact({c}) = {}
        /\ invitations' = [invitations EXCEPT ![c] = [role |-> role, expired |-> FALSE]]
    /\ UNCHANGED <<accounts, tombstones, sessions, provider, attempts, req>>

\* cancel; and remove, for one that has expired.
CancelInvitation ==
    /\ "invite" \in Ops
    /\ \E c \in Emails :
        /\ Pending(c) /\ InvitationFree(c)
        /\ invitations' = [invitations EXCEPT ![c] = NoInvitation]
    /\ UNCHANGED <<accounts, tombstones, sessions, provider, attempts, req>>

\* Time: a day without an answer.
InvitationExpires ==
    /\ "expire" \in Ops
    /\ \E c \in Emails :
        Acceptable(c) /\ invitations' = [invitations EXCEPT ![c].expired = TRUE]
    /\ UNCHANGED <<accounts, tombstones, sessions, provider, attempts, req>>

---------------------------------------------------------------------------
(* Signing in.                                                             *)

\* External: somebody registers at the provider, where a contact is one
\* identity's; a subject is never used again.
SignUp ==
    /\ \E s \in Subs \ provider :
        /\ tombstones[s] = "none"
        /\ \A t \in provider : Proves[t] \cap Proves[s] = {}
        /\ provider' = provider \cup {s}
    /\ UNCHANGED <<rows, attempts, req>>

\* startSignIn: a new state, which nothing refers to yet.
StartSignIn ==
    /\ \E a \in Attempts \ attempts :
        /\ \A p \in Reqs : req[p].attempt # a
        /\ \A u \in Accounts : <<u, a>> \notin sessions
        /\ attempts' = attempts \cup {a}
    /\ UNCHANGED <<rows, provider, req>>

\* The provider sends the browser back; the callback reads the attempt.
CallbackRead(p) ==
    /\ provider # {}
    /\ \E a \in attempts :
        Begin(p, [NoRequest EXCEPT !.op = "callback", !.pc = "consume", !.attempt = a])
    /\ UNCHANGED <<rows, provider, attempts>>

\* Who the provider's tokens say has signed in, and what for.
Claimed(p, s, intent) ==
    req' = [req EXCEPT ![p].pc = "lock", ![p].sub = s, ![p].intent = intent]

\* Slip: the attempt is deleted, whether or not it is still there.
ConsumeAnyway(p) ==
    /\ At(p, "callback", "consume")
    /\ attempts' = attempts \ {req[p].attempt}
    /\ IF provider # {}
       THEN \E s \in provider, intent \in Intents : Claimed(p, s, intent)
       ELSE Finish(p)
    /\ UNCHANGED <<rows, provider>>

\* Slip: a callback whose attempt is gone gets no answer.
ConsumeOrWait(p) ==
    /\ At(p, "callback", "consume") /\ req[p].attempt \in attempts
    /\ attempts' = attempts \ {req[p].attempt}
    /\ IF provider # {}
       THEN \E s \in provider, intent \in Intents : Claimed(p, s, intent)
       ELSE Finish(p)
    /\ UNCHANGED <<rows, provider>>

\* consume: the compare-and-delete in Redis; then the tokens are exchanged.
Consume(p) ==
    /\ At(p, "callback", "consume")
    /\ \/ /\ req[p].attempt \in attempts
          /\ attempts' = attempts \ {req[p].attempt}
          /\ IF provider # {}
             THEN \E s \in provider, intent \in Intents : Claimed(p, s, intent)
             ELSE Finish(p)
          /\ UNCHANGED <<rows, provider>>
       \/ req[p].attempt \notin attempts /\ Refuse(p)

\* provision: lockIdentity, and whether the subject was deleted.
LockIdentity(p) ==
    /\ At(p, "callback", "lock") /\ IdentityFree(req[p].sub)
    /\ IF tombstones[req[p].sub] = "none"
       THEN Goes(p, "offer") /\ UNCHANGED <<rows, provider, attempts>>
       ELSE Refuse(p)

Offers(p) ==
    IF req[p].intent = "staff" THEN {c \in Proves[req[p].sub] \cap Emails : Acceptable(c)} ELSE {}

\* pendingInvitationsForIdentity: FOR UPDATE, for staff sign-ins only.
ReadOffer(p) ==
    /\ At(p, "callback", "offer")
    /\ \A c \in Offers(p) : InvitationFree(c)
    /\ IF Offers(p) = {}
       THEN Goes(p, "account")
       ELSE \E c \in Offers(p) :
            req' = [req EXCEPT ![p].pc = "account", ![p].offer = invitations[c].role]
    /\ UNCHANGED <<rows, provider, attempts>>

\* The rows byLogtoId or else findAndLinkVerifiedCandidate selects FOR UPDATE.
Candidates(s) == IF OwnedBy(s) # {} THEN OwnedBy(s) ELSE WithContact(Proves[s])

\* The account the identity is linked to, or has been made for it.  Nobody
\* becomes staff without an invitation.
Linked(s, u) == [accounts[u] EXCEPT !.sub = s]
\* Slip: whoever is invited becomes what they asked for.
CreatedAsAsked(s, intent) ==
    [sub |-> s, contacts |-> Proves[s], active |-> TRUE, roles |-> {intent}]

Created(s, intent) ==
    [sub |-> s, contacts |-> Proves[s], active |-> TRUE,
     roles |-> IF intent = "staff" THEN {} ELSE {intent}]
LinkedOrCreated(p, u) ==
    LET q == req[p]
        found == Candidates(q.sub)
    IN  IF found = {}
        THEN IF Unused(u) /\ (q.intent = "staff" => q.offer # None)
             THEN {Created(q.sub, q.intent)} ELSE {}
        ELSE IF found = {u} /\ accounts[u].sub \in {q.sub, None}
             THEN {Linked(q.sub, u)} ELSE {}

\* acceptInvitationsInTransaction.
Accepts(p, account) == account.active /\ req[p].offer # None
WithOffer(p, account) ==
    IF Accepts(p, account) THEN [account EXCEPT !.roles = @ \cup {req[p].offer}] ELSE account

Eligible(account, intent) ==
    account.active /\ (intent = "staff" => account.roles \cap StaffRoles # {})

\* The rest of provision, which commits also when the account is not eligible.
\* (Whoever is refused the role of the invitation is refused altogether.)
Provision(p) ==
    LET q == req[p]
    IN  /\ At(p, "callback", "account")
        /\ \A u \in Candidates(q.sub) : AccountFree(u)
        /\ \/ \E u \in Accounts : \E account \in LinkedOrCreated(p, u) :
                LET after == WithOffer(p, account)
                IN  /\ Accepts(p, account) => Assignable(account, q.offer)
                    /\ accounts' = [accounts EXCEPT ![u] = after]
                    /\ invitations' = [c \in Emails |->
                         IF Accepts(p, account) /\ c \in Proves[q.sub]
                         THEN NoInvitation ELSE invitations[c]]
                    /\ IF Eligible(after, q.intent)
                       THEN req' = [req EXCEPT ![p] =
                             [NoRequest EXCEPT !.op = "callback", !.pc = "session",
                                               !.attempt = q.attempt, !.account = u]]
                       ELSE Finish(p)
                    /\ UNCHANGED <<tombstones, sessions, provider, attempts>>
           \/ /\ \A u \in Accounts : \A account \in LinkedOrCreated(p, u) :
                    Accepts(p, account) /\ ~Assignable(account, q.offer)
              /\ Refuse(p)

\* The session is a transaction of its own; its foreign key shares the row.
CreateSession(p) ==
    LET q == req[p]
    IN  /\ At(p, "callback", "session") /\ AccountFree(q.account)
        /\ IF Exists(q.account)
           THEN /\ sessions' = sessions \cup {<<q.account, q.attempt>>}
                /\ Finish(p)
                /\ UNCHANGED <<accounts, invitations, tombstones, provider, attempts>>
           ELSE Refuse(p)

\* signOut, an idle session, or one that has run out.
SessionEnds ==
    /\ \E session \in sessions : sessions' = sessions \ {session}
    /\ UNCHANGED <<accounts, invitations, tombstones, provider, attempts, req>>

---------------------------------------------------------------------------
(* Accounts.                                                               *)

\* create: a student's or a landlord's account with no identity yet, with
\* contacts that nobody has (the unique constraints).
CreateUnclaimed ==
    /\ "unclaimed" \in Ops
    /\ \E u \in Accounts, contacts \in (SUBSET Contacts) \ {{}}, role \in Intents \ {"staff"} :
        /\ Unused(u) /\ WithContact(contacts) = {}
        /\ accounts' = [accounts EXCEPT ![u] =
             [sub |-> None, contacts |-> contacts, active |-> TRUE, roles |-> {role}]]
    /\ UNCHANGED <<invitations, tombstones, sessions, provider, attempts, req>>

\* update of the status.
SetStatus ==
    /\ "status" \in Ops
    /\ \E u \in Accounts :
        /\ Exists(u) /\ AccountFree(u)
        /\ accounts' = [accounts EXCEPT ![u].active = ~@]
        /\ sessions' = IF accounts[u].active THEN {t \in sessions : t[1] # u} ELSE sessions
    /\ UNCHANGED <<invitations, tombstones, provider, attempts, req>>

Supers == {u \in Accounts : accounts[u].active /\ "super_admin" \in accounts[u].roles}

\* deleteUser, which only another Super Admin may do to a Super Admin:
\* lockDeletionIdentity reads the subject, and waits for its lock.
DeleteRead(p) ==
    /\ "delete" \in Ops
    /\ \E u \in Accounts :
        /\ Exists(u)
        /\ "super_admin" \in accounts[u].roles => Supers \ {u} # {}
        /\ Begin(p, [NoRequest EXCEPT !.op = "delete", !.pc = "lock", !.account = u,
                                      !.sub = accounts[u].sub])
    /\ UNCHANGED <<rows, provider, attempts>>

DeleteLock(p) ==
    LET s == req[p].sub
    IN  /\ At(p, "delete", "lock")
        /\ s # None => \A q \in Reqs : ~HoldsSubject(q, s)
        /\ Goes(p, "row")
        /\ UNCHANGED <<rows, provider, attempts>>

\* The account's row FOR UPDATE, and how many Super Admins there are.
DeleteRow(p) ==
    LET u == req[p].account
    IN  /\ At(p, "delete", "row") /\ AccountFree(u)
        /\ IF Exists(u) /\ ("super_admin" \in accounts[u].roles => Cardinality(Supers) > 1)
           THEN Goes(p, "cascade") /\ UNCHANGED <<rows, provider, attempts>>
           ELSE Refuse(p)

\* runPurgeCascade.
DeleteCascade(p) ==
    LET u == req[p].account
        s == accounts[u].sub
        mine == accounts[u].contacts \cap Emails
    IN  /\ At(p, "delete", "cascade")
        /\ \A c \in mine : InvitationFree(c)
        /\ tombstones' = [t \in Subs |->
             IF t = s /\ tombstones[t] = "none" THEN "pending" ELSE tombstones[t]]
        /\ invitations' = [c \in Emails |-> IF c \in mine THEN NoInvitation ELSE invitations[c]]
        /\ sessions' = {t \in sessions : t[1] # u}
        /\ accounts' = [accounts EXCEPT ![u] = NoAccount]
        /\ Finish(p)
        /\ UNCHANGED <<provider, attempts>>

\* deleteLogtoIdentity, called by deleteUser and again every minute; a subject
\* that is gone already counts as deleted.
DeleteIdentity(s) ==
    /\ tombstones[s] = "pending" /\ s \in provider
    /\ provider' = provider \ {s}
    /\ UNCHANGED <<rows, attempts, req>>

\* Slip: a subject that is gone already does not count.
RecordOwnDeletion(s) ==
    /\ tombstones[s] = "pending" /\ s \in provider
    /\ provider' = provider \ {s}
    /\ tombstones' = [tombstones EXCEPT ![s] = "done"]
    /\ UNCHANGED <<accounts, invitations, sessions, attempts, req>>

RecordDeletion(s) ==
    /\ tombstones[s] = "pending" /\ s \notin provider
    /\ tombstones' = [tombstones EXCEPT ![s] = "done"]
    /\ UNCHANGED <<accounts, invitations, sessions, provider, attempts, req>>

---------------------------------------------------------------------------
\* A lost connection or a process that stops.
Fail(p) == req[p] # NoRequest /\ Refuse(p)

\* PostgreSQL ends a transaction that waits for one that waits for it.
DeadlockVictim(p) ==
    /\ \E q \in Reqs \ {p} :
        /\ At(p, "callback", "account") /\ At(q, "delete", "cascade")
        /\ req[q].account \in Candidates(req[p].sub)
        /\ \E c \in accounts[req[q].account].contacts \cap Emails : HoldsInvitation(p, c)
    /\ Refuse(p)

Init ==
    /\ accounts = [u \in Accounts |-> NoAccount]
    /\ invitations = [c \in Emails |-> NoInvitation]
    /\ tombstones = [s \in Subs |-> "none"]
    /\ provider = {} /\ attempts = {} /\ sessions = {}
    /\ req = [p \in Reqs |-> NoRequest]

\* Steps of a request that go on without its caller.
Work(p) ==
    \/ Consume(p) \/ LockIdentity(p) \/ ReadOffer(p) \/ Provision(p) \/ CreateSession(p)
    \/ EnrollWrite(p)
    \/ DeleteLock(p) \/ DeleteRow(p) \/ DeleteCascade(p) \/ DeadlockVictim(p)

Calls(p) == CallbackRead(p) \/ EnrollRead(p) \/ DeleteRead(p) \/ Fail(p)

Office ==
    \/ Grant \/ Revoke \/ Invite \/ Renew \/ CancelInvitation
    \/ CreateUnclaimed \/ SetStatus

Around == SignUp \/ StartSignIn \/ SessionEnds \/ InvitationExpires

Cleanup == \E s \in Subs : DeleteIdentity(s) \/ RecordDeletion(s)

Next == Office \/ Around \/ Cleanup \/ \E p \in Reqs : Work(p) \/ Calls(p)

Spec == Init /\ [][Next]_vars

\* A request that has begun goes on, locks are granted in the order they are
\* asked for, and the clean-up runs every minute.
FairSpec == Spec /\ WF_vars(Cleanup) /\ \A p \in Reqs : SF_vars(Work(p))

---------------------------------------------------------------------------
(* What identities, accounts and roles promise.                            *)

\* "An account holds one staff role, and is never both staff and a student/
\* landlord" (assignRoleInTransaction), whatever grants, accepted invitations,
\* linked accounts and revocations cross.
OneKindOfRole ==
    \A u \in Accounts : \A role, other \in accounts[u].roles \ {"property_manager"} :
        role \in StaffRoles => other = role

\* Whoever becomes staff by signing in does so by an invitation to an address
\* of theirs that is pending at that moment, of that very role, and used up: a
\* cancelled, edited or accepted one grants nothing (pendingInvitationsForIdentity).
InvitationHonoured ==
    [][\A u \in Accounts :
        LET gained == (accounts'[u].roles \ accounts[u].roles) \cap StaffRoles
        IN  gained # {} /\ req' # req =>
                \E c \in Emails \cap Proves[accounts'[u].sub] :
                    {invitations[c].role} = gained /\ invitations'[c] = NoInvitation]_vars

\* A callback that has used its attempt.
Past(p) == req[p].op = "callback" /\ req[p].pc # "consume"

\* A sign-in attempt lets one callback in, whichever callbacks race for it
\* (AuthTransactions.consume).
OneUsePerAttempt ==
    /\ \A p, q \in Reqs : Past(p) /\ Past(q) /\ req[p].attempt = req[q].attempt => p = q
    /\ \A p \in Reqs : Past(p) => \A u \in Accounts : <<u, req[p].attempt>> \notin sessions
    /\ \A u, v \in Accounts : \A a \in Attempts :
        <<u, a>> \in sessions /\ <<v, a>> \in sessions => u = v

\* Every request is answered, also when a staff sign-in and a deletion wait for
\* each other's rows.
CallsEnd == \A p \in Reqs : []<>(req[p] = NoRequest)

\* A deleted account's identity is deleted at the provider in the end, whatever
\* stopped the request that deleted the account (retryIdentityDeletions).
DeletionReachesProvider == \A s \in Subs : []<>(tombstones[s] # "pending")

\* "so a concurrent sign-in cannot recreate the user": no account is linked to
\* a subject whose account was deleted (lockDeletionIdentity).
DeletedStaysDeleted ==
    \A u \in Accounts : accounts[u].sub # None => tombstones[accounts[u].sub] = "none"
============================================================================
