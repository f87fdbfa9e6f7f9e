-------------------------- MODULE IdentitiesProofs --------------------------
(***************************************************************************)
(* For any accounts, subjects, contacts, roles, attempts and requests: every *)
(* value is well typed, an account has one kind of role, an attempt lets one *)
(* callback in, and staff are made by pending invitations only.              *)
(*                                                                           *)
(* The inductive invariant adds three facts.  An attempt that is still in    *)
(* Redis has let nobody in (Fresh).  Two sign-ins past lockIdentity have no   *)
(* contact in common (Apart).  So nobody but its sign-in uses up the          *)
(* invitation that a sign-in has read (OfferStands).                          *)
(*                                                                           *)
(* Last, a deleted subject stays deleted where every account has one from    *)
(* its first day on: a deletion then locks the very subject it records       *)
(* (LinkedInv), so no sign-in of it is past lockIdentity at that time.       *)
(***************************************************************************)
EXTENDS Identities, TLAPS

\* What a request has learnt by the step it has reached.
WellFormed(r) ==
    /\ r \in Request
    /\ r.op = "callback" => r.attempt \in Attempts
    /\ r.op = "callback" /\ r.pc \in {"lock", "offer", "account"} =>
            r.sub \in Subs /\ r.intent \in Intents
    /\ r.op = "callback" /\ r.pc = "session" => r.account \in Accounts
    /\ r.op \in {"delete", "enroll"} => r.account \in Accounts

Typed == TypeOK /\ \A p \in Reqs : WellFormed(req[p])

Kind(roles) ==
    \A role, other \in roles \ {"property_manager"} : role \in StaffRoles => other = role

Fresh ==
    \A a \in attempts :
        /\ \A p \in Reqs : Past(p) => req[p].attempt # a
        /\ \A u \in Accounts : <<u, a>> \notin sessions

Signing(p) == At(p, "callback", "offer") \/ At(p, "callback", "account")
Apart ==
    \A p, q \in Reqs :
        Signing(p) /\ Signing(q) /\ p # q => Proves[req[p].sub] \cap Proves[req[q].sub] = {}
Offered(p) == At(p, "callback", "account") /\ req[p].offer # None
Stands(p, c) == c \in Proves[req[p].sub] \cap Emails /\ invitations[c].role = req[p].offer
OfferStands ==
    \A p \in Reqs :
        /\ Offered(p) => \E c \in Contacts : Stands(p, c)
        /\ ~At(p, "callback", "account") => req[p].offer = None

---------------------------------------------------------------------------
(* Requests.                                                               *)

LEMMA NoRequestWellFormed == WellFormed(NoRequest)
  BY DEF WellFormed, NoRequest, Request

\* Replacing one request by a well-formed one.
LEMMA ReplacedRequest ==
    ASSUME Typed, NEW p \in Reqs, NEW r, WellFormed(r), req' = [req EXCEPT ![p] = r]
    PROVE  /\ req' \in [Reqs -> Request] /\ req'[p] = r
           /\ \A q \in Reqs : q # p => req'[q] = req[q]
           /\ \A q \in Reqs : WellFormed(req'[q])
  BY DEF Typed, TypeOK, WellFormed

LEMMA FinishedRequest ==
    ASSUME Typed, NEW p \in Reqs, Finish(p)
    PROVE  /\ req' \in [Reqs -> Request] /\ req'[p] = NoRequest
           /\ \A q \in Reqs : q # p => req'[q] = req[q]
           /\ \A q \in Reqs : WellFormed(req'[q])
  BY ReplacedRequest, NoRequestWellFormed DEF Finish

\* A request that goes on to a step for which it knows enough.
LEMMA MovedRequest ==
    ASSUME Typed, NEW p \in Reqs, NEW pc, Goes(p, pc),
           \/ req[p].op = "callback" /\ req[p].pc = "lock" /\ pc = "offer"
           \/ req[p].op = "callback" /\ req[p].pc = "offer" /\ pc = "account"
           \/ req[p].op = "delete" /\ pc \in {"row", "cascade"}
    PROVE  /\ req' \in [Reqs -> Request] /\ req'[p] = [req[p] EXCEPT !.pc = pc]
           /\ \A q \in Reqs : q # p => req'[q] = req[q]
           /\ \A q \in Reqs : WellFormed(req'[q])
<1> DEFINE r == [req[p] EXCEPT !.pc = pc]
<1>1. req[p] \in Request /\ WellFormed(req[p])
  BY DEF Typed, TypeOK
<1>2. WellFormed(r)
  BY <1>1 DEF WellFormed, Request
<1>3. req' = [req EXCEPT ![p] = r]
  BY DEF Goes
<1> QED BY <1>2, <1>3, ReplacedRequest

---------------------------------------------------------------------------
(* Types.                                                                  *)

\* Steps that leave the requests alone.
LEMMA OfficeTyped == Typed /\ Office => Typed'
<1> SUFFICES ASSUME Typed, Office PROVE Typed'
  OBVIOUS
<1> USE ProvesAssumption, RolesAssumption, NoneAssumption DEF Typed, TypeOK, Roles
<1>0. \A p \in Reqs : WellFormed(req[p])
  OBVIOUS
<1>1. CASE Grant
  BY <1>1 DEF Grant, Account
<1>2. CASE Revoke
  <2>1. PICK u \in Accounts : \E gone : accounts' = [accounts EXCEPT ![u].roles = @ \ gone]
    BY <1>2 DEF Revoke
  <2>2. PICK gone : accounts' = [accounts EXCEPT ![u].roles = @ \ gone]
    BY <2>1
  <2>3. accounts[u] \in Account /\ [accounts[u] EXCEPT !.roles = @ \ gone] \in Account
    BY DEF Account
  <2> QED BY <1>2, <2>2, <2>3 DEF Revoke
<1>3. CASE Invite
  BY <1>3 DEF Invite, Invitation
<1>4. CASE Renew
  BY <1>4 DEF Renew, Invitation
<1>5. CASE CancelInvitation
  BY <1>5 DEF CancelInvitation, Invitation, NoInvitation
<1>6. CASE CreateUnclaimed
  BY <1>6 DEF CreateUnclaimed, Account, Intents
<1>7. CASE SetStatus
  <2>1. PICK u \in Accounts : accounts' = [accounts EXCEPT ![u].active = ~@]
    BY <1>7 DEF SetStatus
  <2>2. \A b \in BOOLEAN : [accounts EXCEPT ![u].active = b] \in [Accounts -> Account]
    BY DEF Account
  <2>3. accounts' \in [Accounts -> Account]
    BY <2>1, <2>2, (~accounts[u].active) \in BOOLEAN, Zenon
  <2>4. sessions' \subseteq sessions
    BY <1>7 DEF SetStatus
  <2> QED BY <1>7, <2>3, <2>4 DEF SetStatus
<1> QED BY <1>1, <1>2, <1>3, <1>4, <1>5, <1>6, <1>7 DEF Office

LEMMA AroundTyped == Typed /\ (Around \/ Cleanup) => Typed'
<1> SUFFICES ASSUME Typed, Around \/ Cleanup PROVE Typed'
  OBVIOUS
<1> USE DEF Typed, TypeOK, rows
<1>1. CASE SignUp
  BY <1>1 DEF SignUp
<1>2. CASE StartSignIn
  BY <1>2 DEF StartSignIn
<1>3. CASE SessionEnds
  BY <1>3 DEF SessionEnds
<1>4. CASE InvitationExpires
  BY <1>4 DEF InvitationExpires, Invitation
<1>5. ASSUME NEW s \in Subs, DeleteIdentity(s) PROVE Typed'
  BY <1>5 DEF DeleteIdentity
<1>6. ASSUME NEW s \in Subs, RecordDeletion(s) PROVE Typed'
  BY <1>6 DEF RecordDeletion
<1> QED BY <1>1, <1>2, <1>3, <1>4, <1>5, <1>6 DEF Around, Cleanup

LEMMA RefuseTyped == ASSUME Typed, NEW p \in Reqs, Refuse(p) PROVE Typed'
  BY FinishedRequest DEF Refuse, rows, Typed, TypeOK

\* The account a sign-in ends in.
SignedIn(p, u, account) ==
    /\ account \in Account
    /\ \/ account.roles = accounts[u].roles
       \/ account.roles \cap StaffRoles = {} /\ \A r, t \in account.roles : r = t
    /\ account.sub = req[p].sub
    /\ Accepts(p, account) => req[p].offer \in StaffRoles
    /\ WithOffer(p, account) \in Account
    /\ WithOffer(p, account).roles =
         IF Accepts(p, account) THEN account.roles \cup {req[p].offer} ELSE account.roles
    /\ WithOffer(p, account).sub = req[p].sub

LEMMA SignedInAccount ==
    ASSUME Typed, NEW p \in Reqs, At(p, "callback", "account"), NEW u \in Accounts,
           NEW account \in LinkedOrCreated(p, u)
    PROVE  SignedIn(p, u, account)
<1> USE ProvesAssumption, RolesAssumption, NoneAssumption
<1>1. /\ WellFormed(req[p]) /\ req[p].sub \in Subs /\ req[p].intent \in Intents
      /\ req[p].offer \in Invitable \cup {None} /\ accounts[u] \in Account
  BY DEF Typed, TypeOK, WellFormed, Request, At
<1>2. account = Linked(req[p].sub, u) \/ account = Created(req[p].sub, req[p].intent)
  BY DEF LinkedOrCreated
<1>3. /\ Linked(req[p].sub, u) \in Account /\ Linked(req[p].sub, u).sub = req[p].sub
      /\ Linked(req[p].sub, u).roles = accounts[u].roles
  BY <1>1 DEF Linked, Account
<1>4. /\ Created(req[p].sub, req[p].intent) \in Account
      /\ Created(req[p].sub, req[p].intent).sub = req[p].sub
      /\ Created(req[p].sub, req[p].intent).roles \cap StaffRoles = {}
      /\ \A r, t \in Created(req[p].sub, req[p].intent).roles : r = t
  BY <1>1 DEF Created, Account, Intents, Roles
<1>5. Accepts(p, account) => req[p].offer \in StaffRoles
  BY <1>1 DEF Accepts
<1>6. account \in Account /\ account.sub = req[p].sub
  BY <1>2, <1>3, <1>4
<1>7. /\ WithOffer(p, account) \in Account
      /\ WithOffer(p, account).roles =
           IF Accepts(p, account) THEN account.roles \cup {req[p].offer} ELSE account.roles
      /\ WithOffer(p, account).sub = req[p].sub
  BY <1>5, <1>6 DEF WithOffer, Account, Roles
<1> QED BY <1>2, <1>3, <1>4, <1>5, <1>6, <1>7 DEF SignedIn

\* The last step of a callback.
Session(a, u) ==
    [NoRequest EXCEPT !.op = "callback", !.pc = "session", !.attempt = a, !.account = u]

LEMMA SessionRequest ==
    ASSUME NEW a \in Attempts, NEW u \in Accounts
    PROVE  /\ WellFormed(Session(a, u)) /\ Session(a, u).attempt = a
           /\ Session(a, u).pc = "session"
  BY DEF Session, WellFormed, NoRequest, Request

LEMMA ClaimedRequest ==
    ASSUME Typed, NEW p \in Reqs, At(p, "callback", "consume"),
           NEW s \in Subs, NEW intent \in Intents, Claimed(p, s, intent)
    PROVE  \E r : /\ WellFormed(r) /\ req' = [req EXCEPT ![p] = r]
                  /\ r.op = "callback" /\ r.pc = "lock" /\ r.attempt = req[p].attempt
                  /\ r.offer = req[p].offer
<1> DEFINE r == [req[p] EXCEPT !.pc = "lock", !.sub = s, !.intent = intent]
<1>1. req[p] \in Request /\ WellFormed(req[p]) /\ req[p].op = "callback"
  BY DEF Typed, TypeOK, At
<1>2. /\ WellFormed(r) /\ r.op = "callback" /\ r.pc = "lock" /\ r.attempt = req[p].attempt
      /\ r.offer = req[p].offer
  BY <1>1 DEF WellFormed, Request
<1>3. req' = [req EXCEPT ![p] = r]
  BY <1>1 DEF Claimed, Typed, TypeOK, Request
<1> QED BY <1>2, <1>3

\* What a sign-in commits when it is not refused.
Provided(p, u, account) ==
    /\ Accepts(p, account) => Assignable(account, req[p].offer)
    /\ accounts' = [accounts EXCEPT ![u] = WithOffer(p, account)]
    /\ invitations' = [c \in Emails |->
         IF Accepts(p, account) /\ c \in Proves[req[p].sub] THEN NoInvitation ELSE invitations[c]]
    /\ UNCHANGED <<tombstones, sessions, provider, attempts>>
    /\ \/ Finish(p)
       \/ req' = [req EXCEPT ![p] = Session(req[p].attempt, u)]

LEMMA ProvisionRequest ==
    ASSUME Typed, NEW p \in Reqs, Provision(p), ~Refuse(p)
    PROVE  \E u \in Accounts : \E account \in LinkedOrCreated(p, u) : Provided(p, u, account)
  BY DEF Provision, Provided, Session

\* A request that begins.
LEMMA BegunRequest ==
    ASSUME Typed, NEW p \in Reqs, NEW r, Begin(p, r), WellFormed(r)
    PROVE  /\ req' \in [Reqs -> Request] /\ req[p] = NoRequest /\ req'[p] = r
           /\ \A q \in Reqs : q # p => req'[q] = req[q]
           /\ \A q \in Reqs : WellFormed(req'[q])
  BY ReplacedRequest DEF Begin

LEMMA CallsTyped == ASSUME Typed, NEW p \in Reqs, Calls(p) PROVE Typed'
<1>1. CASE CallbackRead(p)
  <2>1. PICK a \in attempts : Begin(p, [NoRequest EXCEPT !.op = "callback", !.pc = "consume",
                                                         !.attempt = a])
    BY <1>1 DEF CallbackRead
  <2>2. WellFormed([NoRequest EXCEPT !.op = "callback", !.pc = "consume", !.attempt = a])
    BY DEF Typed, TypeOK, WellFormed, NoRequest, Request
  <2> QED BY <1>1, <2>1, <2>2, BegunRequest DEF CallbackRead, Typed, TypeOK, rows
<1>2. CASE EnrollRead(p)
  <2>1. PICK u \in Accounts : Begin(p, [NoRequest EXCEPT !.op = "enroll", !.pc = "write",
                                                         !.account = u])
    BY <1>2 DEF EnrollRead
  <2>2. WellFormed([NoRequest EXCEPT !.op = "enroll", !.pc = "write", !.account = u])
    BY DEF WellFormed, NoRequest, Request
  <2> QED BY <1>2, <2>1, <2>2, BegunRequest DEF EnrollRead, Typed, TypeOK, rows
<1>3. CASE DeleteRead(p)
  <2>1. PICK u \in Accounts : Begin(p, [NoRequest EXCEPT !.op = "delete", !.pc = "lock",
                                                  !.account = u, !.sub = accounts[u].sub])
    BY <1>3 DEF DeleteRead
  <2>2. WellFormed([NoRequest EXCEPT !.op = "delete", !.pc = "lock", !.account = u,
                                     !.sub = accounts[u].sub])
    BY DEF Typed, TypeOK, Account, WellFormed, NoRequest, Request
  <2> QED BY <1>3, <2>1, <2>2, BegunRequest DEF DeleteRead, Typed, TypeOK, rows
<1>4. CASE Fail(p)
  BY <1>4, RefuseTyped DEF Fail
<1> QED BY <1>1, <1>2, <1>3, <1>4 DEF Calls

LEMMA WorkTyped == ASSUME Typed, NEW p \in Reqs, Work(p) PROVE Typed'
<1> USE DEF rows
<1>0. CASE Refuse(p)
  BY <1>0, RefuseTyped
<1>1. CASE Consume(p) /\ ~Refuse(p)
  <2>1. attempts' \subseteq attempts /\ UNCHANGED <<rows, provider>> /\ At(p, "callback", "consume")
    BY <1>1 DEF Consume
  <2>2. CASE Finish(p)
    BY <2>1, <2>2, FinishedRequest DEF Typed, TypeOK
  <2>3. CASE \E s \in provider, intent \in Intents : Claimed(p, s, intent)
    <3>1. PICK s \in provider, intent \in Intents : Claimed(p, s, intent)
      BY <2>3
    <3>2. s \in Subs
      BY DEF Typed, TypeOK
    <3>3. PICK r : WellFormed(r) /\ req' = [req EXCEPT ![p] = r]
      BY <2>1, <3>1, <3>2, ClaimedRequest
    <3> QED BY <2>1, <3>3, ReplacedRequest DEF Typed, TypeOK
  <2> QED BY <1>1, <2>2, <2>3 DEF Consume
<1>2. CASE LockIdentity(p) /\ ~Refuse(p)
  BY <1>2, MovedRequest DEF LockIdentity, At, Typed, TypeOK
<1>3. CASE ReadOffer(p)
  <2>1. CASE Goes(p, "account")
    BY <1>3, <2>1, MovedRequest DEF ReadOffer, At, Typed, TypeOK
  <2>2. CASE \E c \in Offers(p) :
               req' = [req EXCEPT ![p].pc = "account", ![p].offer = invitations[c].role]
    <3>1. PICK c \in Offers(p) :
               req' = [req EXCEPT ![p].pc = "account", ![p].offer = invitations[c].role]
      BY <2>2
    <3>2. c \in Emails /\ Pending(c)
      BY DEF Offers, Acceptable
    <3>3. invitations[c].role \in Invitable
      BY <3>2 DEF Typed, TypeOK, Invitation, Pending
    <3> DEFINE r == [req[p] EXCEPT !.pc = "account", !.offer = invitations[c].role]
    <3>4. WellFormed(r)
      BY <1>3, <3>3 DEF ReadOffer, At, Typed, TypeOK, WellFormed, Request
    <3>5. req' = [req EXCEPT ![p] = r]
      BY <3>1 DEF Typed, TypeOK, Request
    <3> QED BY <1>3, <3>4, <3>5, ReplacedRequest DEF ReadOffer, Typed, TypeOK
  <2> QED BY <1>3, <2>1, <2>2 DEF ReadOffer
<1>4. CASE Provision(p) /\ ~Refuse(p)
  <2>0. PICK u \in Accounts : \E account \in LinkedOrCreated(p, u) : Provided(p, u, account)
    BY <1>4, ProvisionRequest
  <2>1. PICK account \in LinkedOrCreated(p, u) : Provided(p, u, account)
    BY <2>0
  <2>2. At(p, "callback", "account") /\ req[p].attempt \in Attempts
    BY <1>4 DEF Provision, At, Typed, WellFormed
  <2>3. accounts' \in [Accounts -> Account]
    BY <2>1, <2>2, SignedInAccount DEF SignedIn, Provided, Typed, TypeOK
  <2>4. invitations' \in [Emails -> Invitation]
    BY <2>1 DEF Provided, Typed, TypeOK, NoInvitation, Invitation
  <2>5. req' \in [Reqs -> Request] /\ \A q \in Reqs : WellFormed(req'[q])
    <3>1. WellFormed(Session(req[p].attempt, u))
      BY <2>2, SessionRequest
    <3>2. CASE Finish(p)
      BY <3>2, FinishedRequest
    <3>3. CASE req' = [req EXCEPT ![p] = Session(req[p].attempt, u)]
      BY <3>1, <3>3, ReplacedRequest
    <3> QED BY <2>1, <3>2, <3>3 DEF Provided
  <2> QED BY <2>1, <2>3, <2>4, <2>5 DEF Provided, Typed, TypeOK
<1>5. CASE CreateSession(p) /\ ~Refuse(p)
  <2>1. req[p].account \in Accounts /\ req[p].attempt \in Attempts
    BY <1>5 DEF CreateSession, At, Typed, WellFormed
  <2> QED BY <1>5, <2>1, FinishedRequest DEF CreateSession, Typed, TypeOK
<1>6. CASE EnrollWrite(p) /\ ~Refuse(p)
  <2>1. req[p].account \in Accounts /\ accounts[req[p].account] \in Account
    BY <1>6 DEF EnrollWrite, At, Typed, TypeOK, WellFormed
  <2>2. /\ accounts' = [accounts EXCEPT ![req[p].account].roles = @ \cup {"property_manager"}]
        /\ Finish(p) /\ UNCHANGED <<invitations, tombstones, sessions, provider, attempts>>
    BY <1>6 DEF EnrollWrite
  <2>3. accounts' \in [Accounts -> Account]
    BY <2>1, <2>2, ManagerAssumption DEF Typed, TypeOK, Account, Roles
  <2> QED BY <2>2, <2>3, FinishedRequest DEF Typed, TypeOK
<1>7. CASE DeleteLock(p)
  BY <1>7, MovedRequest DEF DeleteLock, At, Typed, TypeOK
<1>8. CASE DeleteRow(p) /\ ~Refuse(p)
  BY <1>8, MovedRequest DEF DeleteRow, At, Typed, TypeOK
<1>9. CASE DeleteCascade(p)
  <2>1. accounts' \in [Accounts -> Account]
    BY <1>9 DEF DeleteCascade, Typed, TypeOK, NoAccount, Account
  <2>2. tombstones' \in [Subs -> {"none", "pending", "done"}]
    BY <1>9 DEF DeleteCascade, Typed, TypeOK
  <2>3. invitations' \in [Emails -> Invitation]
    BY <1>9 DEF DeleteCascade, Typed, TypeOK, NoInvitation, Invitation
  <2> QED BY <1>9, <2>1, <2>2, <2>3, FinishedRequest DEF DeleteCascade, Typed, TypeOK
<1> QED
  BY <1>0, <1>1, <1>2, <1>3, <1>4, <1>5, <1>6, <1>7, <1>8, <1>9 DEF Work, DeadlockVictim

LEMMA TypedStep == Typed /\ [Next]_vars => Typed'
<1>1. Typed /\ UNCHANGED vars => Typed'
  BY DEF Typed, TypeOK, vars, rows
<1> QED BY <1>1, OfficeTyped, AroundTyped, WorkTyped, CallsTyped DEF Next

LEMMA TypedInit == Init => Typed
  BY NoRequestWellFormed, NoneAssumption
  DEF Init, Typed, TypeOK, WellFormed, NoAccount, Account, NoInvitation, Invitation

\* Every row, lock and request is always of its type.
THEOREM TypeCorrect == Spec => []TypeOK
<1>1. Typed => TypeOK
  BY DEF Typed
<1> QED BY <1>1, TypedInit, TypedStep, PTL DEF Spec

---------------------------------------------------------------------------
(* Roles.                                                                  *)

LEMMA KindMeans == OneKindOfRole <=> \A u \in Accounts : Kind(accounts[u].roles)
  BY DEF OneKindOfRole, Kind

\* An account's roles keep their kind when assignRoleInTransaction adds one.
LEMMA AssignedKeepsKind ==
    ASSUME NEW account \in Account, NEW role \in Roles, Kind(account.roles),
           Assignable(account, role)
    PROVE  Kind(account.roles \cup {role})
  BY RolesAssumption DEF Kind, Assignable, Conflicting, Account, Roles

LEMMA FewerKeepsKind ==
    ASSUME NEW more, Kind(more), NEW few \in SUBSET more PROVE Kind(few)
  BY DEF Kind

LEMMA KindStep == Typed /\ OneKindOfRole /\ [Next]_vars => OneKindOfRole'
<1> SUFFICES ASSUME Typed, OneKindOfRole, [Next]_vars
             PROVE  \A u \in Accounts : Kind(accounts'[u].roles)
  BY DEF OneKindOfRole, Kind
<1>0. \A u \in Accounts : Kind(accounts[u].roles) /\ accounts[u] \in Account
  BY KindMeans DEF Typed, TypeOK
<1>1. CASE UNCHANGED accounts
  BY <1>0, <1>1
<1>2. CASE Grant
  <2>1. PICK u \in Accounts, role \in Roles :
            /\ Assignable(accounts[u], role)
            /\ accounts' = [accounts EXCEPT ![u].roles = @ \cup {role}]
    BY <1>2 DEF Grant
  <2>2. Kind(accounts[u].roles \cup {role})
    BY <1>0, <2>1, AssignedKeepsKind
  <2> QED BY <1>0, <2>1, <2>2 DEF Typed, TypeOK, Account
<1>3. CASE Revoke
  <2>1. PICK u \in Accounts : \E gone : accounts' = [accounts EXCEPT ![u].roles = @ \ gone]
    BY <1>3 DEF Revoke
  <2>2. PICK gone : accounts' = [accounts EXCEPT ![u].roles = @ \ gone]
    BY <2>1
  <2>3. Kind(accounts[u].roles \ gone)
    BY <1>0, FewerKeepsKind
  <2> QED BY <1>0, <2>2, <2>3 DEF Typed, TypeOK, Account
<1>4. CASE CreateUnclaimed
  BY <1>0, <1>4, RolesAssumption DEF CreateUnclaimed, Kind, Intents, Typed, TypeOK
<1>5. CASE SetStatus
  BY <1>0, <1>5 DEF SetStatus, Typed, TypeOK, Account
<1>6. ASSUME NEW p \in Reqs, Provision(p), ~Refuse(p) PROVE \A u \in Accounts : Kind(accounts'[u].roles)
  <2>1. PICK u \in Accounts : \E account \in LinkedOrCreated(p, u) : Provided(p, u, account)
    BY <1>6, ProvisionRequest
  <2>2. PICK account \in LinkedOrCreated(p, u) : Provided(p, u, account)
    BY <2>1
  <2>3. At(p, "callback", "account")
    BY <1>6 DEF Provision
  <2>4. SignedIn(p, u, account)
    BY <2>2, <2>3, SignedInAccount
  <2>5. Kind(account.roles)
    BY <1>0, <2>4 DEF Kind, SignedIn
  <2>6. Accepts(p, account) => Kind(account.roles \cup {req[p].offer})
    BY <2>2, <2>4, <2>5, AssignedKeepsKind DEF Provided, SignedIn, Roles
  <2>7. Kind(WithOffer(p, account).roles)
    BY <2>4, <2>5, <2>6 DEF SignedIn
  <2> QED BY <1>0, <2>2, <2>7 DEF Provided, Typed, TypeOK
<1>7. ASSUME NEW p \in Reqs, EnrollWrite(p), ~Refuse(p) PROVE \A u \in Accounts : Kind(accounts'[u].roles)
  <2> DEFINE v == req[p].account
  <2>1. accounts' = [accounts EXCEPT ![v].roles = @ \cup {"property_manager"}]
    BY <1>7 DEF EnrollWrite
  <2>2. \A u \in Accounts : accounts'[u].roles \ {"property_manager"} = accounts[u].roles \ {"property_manager"}
    BY <1>0, <2>1 DEF Typed, TypeOK, Account
  <2> QED BY <1>0, <2>2 DEF Kind
<1>8. ASSUME NEW p \in Reqs, DeleteCascade(p) PROVE \A u \in Accounts : Kind(accounts'[u].roles)
  <2>1. Kind(NoAccount.roles)
    BY DEF Kind, NoAccount
  <2> QED BY <1>0, <1>8, <2>1 DEF DeleteCascade, Typed, TypeOK
<1>9. Office => UNCHANGED accounts \/ Grant \/ Revoke \/ CreateUnclaimed \/ SetStatus
  BY DEF Office, Invite, Renew, CancelInvitation
<1>10. Around \/ Cleanup => UNCHANGED accounts
  BY DEF Around, Cleanup, SignUp, StartSignIn, SessionEnds, InvitationExpires, DeleteIdentity,
         RecordDeletion, rows
<1>11. ASSUME NEW p \in Reqs, Work(p) \/ Calls(p)
       PROVE  UNCHANGED accounts \/ (Provision(p) /\ ~Refuse(p)) \/ (EnrollWrite(p) /\ ~Refuse(p)) \/ DeleteCascade(p)
  BY <1>11 DEF Work, Calls, Consume, LockIdentity, ReadOffer, CreateSession, DeleteLock, DeleteRow,
         DeadlockVictim, CallbackRead, EnrollRead, DeleteRead, Fail, Refuse, rows
<1> QED
  BY <1>1, <1>2, <1>3, <1>4, <1>5, <1>6, <1>7, <1>8, <1>9, <1>10, <1>11 DEF Next, vars, rows

\* No grant, invitation, sign-in or revocation gives an account two staff roles,
\* or a staff role beside a student's or a landlord's.
THEOREM KeepsOneKindOfRole == Spec => []OneKindOfRole
<1>1. Init => OneKindOfRole
  BY DEF Init, OneKindOfRole, NoAccount
<1> QED BY <1>1, TypedInit, TypedStep, KindStep, PTL DEF Spec

---------------------------------------------------------------------------
(* Attempts.                                                               *)

Uses == OneUsePerAttempt /\ Fresh

\* A step that neither starts an attempt nor uses one.
LEMMA SameUses ==
    ASSUME Typed, Uses, attempts' \subseteq attempts, sessions' \subseteq sessions,
           \A q \in Reqs : Past(q)' => Past(q) /\ req'[q].attempt = req[q].attempt
    PROVE  Uses'
<1>1. OneUsePerAttempt'
  BY DEF Uses, OneUsePerAttempt
<1>2. Fresh'
  BY DEF Uses, Fresh
<1> QED BY <1>1, <1>2 DEF Uses

LEMMA UsesWork == ASSUME Typed, Uses, NEW p \in Reqs, Work(p) PROVE Uses'
<1> USE DEF rows, Past
<1> DEFINE Keeps == \A q \in Reqs : Past(q)' => Past(q) /\ req'[q].attempt = req[q].attempt
<1>0. Finish(p) => Keeps
  BY FinishedRequest DEF NoRequest
<1>1. CASE Refuse(p)
  BY <1>0, <1>1, SameUses DEF Refuse
<1>2. CASE Consume(p) /\ ~Refuse(p)
  <2> DEFINE a == req[p].attempt
  <2>1. /\ a \in attempts /\ attempts' = attempts \ {a} /\ sessions' = sessions
        /\ req[p].op = "callback" /\ req[p].pc = "consume"
    BY <1>2 DEF Consume, At
  <2>2. CASE Finish(p)
    BY <1>0, <2>1, <2>2, SameUses
  <2>3. CASE \E s \in provider, intent \in Intents : Claimed(p, s, intent)
    <3>1. PICK s \in provider, intent \in Intents : Claimed(p, s, intent)
      BY <2>3
    <3>2. s \in Subs /\ At(p, "callback", "consume")
      BY <2>1 DEF Typed, TypeOK, At
    <3>3. /\ req'[p].op = "callback" /\ req'[p].pc = "lock" /\ req'[p].attempt = a
          /\ \A q \in Reqs : q # p => req'[q] = req[q]
      <4>1. PICK r : /\ WellFormed(r) /\ req' = [req EXCEPT ![p] = r]
                     /\ r.op = "callback" /\ r.pc = "lock" /\ r.attempt = a
        BY <3>1, <3>2, ClaimedRequest
      <4> QED BY <4>1, ReplacedRequest
    <3>4. /\ \A q \in Reqs : Past(q) => req[q].attempt # a
          /\ \A u \in Accounts : <<u, a>> \notin sessions
      BY <2>1 DEF Uses, Fresh
    <3>5. OneUsePerAttempt'
      BY <2>1, <3>3, <3>4 DEF Uses, OneUsePerAttempt
    <3>6. Fresh'
      BY <2>1, <3>3 DEF Uses, Fresh
    <3> QED BY <3>5, <3>6 DEF Uses
  <2> QED BY <1>2, <2>2, <2>3 DEF Consume
<1>3. CASE (LockIdentity(p) /\ ~Refuse(p)) \/ DeleteLock(p) \/ (DeleteRow(p) /\ ~Refuse(p))
  <2>1. PICK pc : Goes(p, pc) /\ (req[p].op = "callback" => req[p].pc = "lock")
    BY <1>3 DEF LockIdentity, DeleteLock, DeleteRow, At
  <2>2. Keeps
    BY <2>1 DEF Goes, Typed, TypeOK, Request
  <2> QED BY <1>3, <2>2, SameUses DEF LockIdentity, DeleteLock, DeleteRow
<1>4. CASE ReadOffer(p)
  <2>1. Keeps
    BY <1>4 DEF ReadOffer, Goes, At, Typed, TypeOK, Request
  <2> QED BY <1>4, <2>1, SameUses DEF ReadOffer
<1>5. CASE Provision(p) /\ ~Refuse(p)
  <2>1. PICK u \in Accounts : \E account \in LinkedOrCreated(p, u) : Provided(p, u, account)
    BY <1>5, ProvisionRequest
  <2>2. PICK account \in LinkedOrCreated(p, u) : Provided(p, u, account)
    BY <2>1
  <2>3. Past(p)
    BY <1>5 DEF Provision, At
  <2>4. Keeps
    <3>1. /\ WellFormed(Session(req[p].attempt, u))
          /\ Session(req[p].attempt, u).attempt = req[p].attempt
      BY <2>3, SessionRequest DEF Typed, WellFormed
    <3>2. CASE Finish(p)
      BY <1>0, <3>2
    <3>3. CASE req' = [req EXCEPT ![p] = Session(req[p].attempt, u)]
      BY <2>3, <3>1, <3>3, ReplacedRequest
    <3> QED BY <2>2, <3>2, <3>3 DEF Provided
  <2> QED BY <2>2, <2>4, SameUses DEF Provided
<1>6. CASE CreateSession(p) /\ ~Refuse(p)
  <2> DEFINE a == req[p].attempt
  <2>1. /\ Past(p) /\ a \in Attempts /\ req[p].account \in Accounts
        /\ sessions' = sessions \cup {<<req[p].account, a>>} /\ Finish(p) /\ attempts' = attempts
    BY <1>6 DEF CreateSession, At, Typed, WellFormed
  <2>2. ~Past(p)' /\ \A q \in Reqs : q # p => req'[q] = req[q]
    BY <2>1, FinishedRequest DEF NoRequest
  <2>3. /\ \A q \in Reqs : Past(q)' => req'[q].attempt # a
        /\ \A u \in Accounts : <<u, a>> \notin sessions
        /\ a \notin attempts
    BY <2>1, <2>2 DEF Uses, OneUsePerAttempt, Fresh
  <2>4. OneUsePerAttempt'
    BY <2>1, <2>2, <2>3 DEF Uses, OneUsePerAttempt
  <2>5. Fresh'
    BY <2>1, <2>2, <2>3 DEF Uses, Fresh
  <2> QED BY <2>4, <2>5 DEF Uses
<1>7. CASE EnrollWrite(p) /\ ~Refuse(p)
  BY <1>0, <1>7, SameUses DEF EnrollWrite
<1>8. CASE DeleteCascade(p)
  BY <1>0, <1>8, SameUses DEF DeleteCascade
<1> QED
  BY <1>1, <1>2, <1>3, <1>4, <1>5, <1>6, <1>7, <1>8 DEF Work, DeadlockVictim

LEMMA UsesStep == Typed /\ Uses /\ [Next]_vars => Uses'
<1> SUFFICES ASSUME Typed, Uses, [Next]_vars PROVE Uses'
  OBVIOUS
<1> USE DEF rows, Past
<1>1. CASE UNCHANGED vars \/ Office \/ Cleanup \/ SignUp \/ SessionEnds \/ InvitationExpires
  BY <1>1, SameUses
  DEF vars, Office, Cleanup, Grant, Revoke, Invite, Renew, CancelInvitation, CreateUnclaimed,
      SetStatus, DeleteIdentity, RecordDeletion, SignUp, SessionEnds, InvitationExpires
<1>2. CASE StartSignIn
  <2>1. OneUsePerAttempt'
    BY <1>2 DEF StartSignIn, Uses, OneUsePerAttempt
  <2>2. Fresh'
    BY <1>2 DEF StartSignIn, Uses, Fresh
  <2> QED BY <2>1, <2>2 DEF Uses
<1>3. ASSUME NEW p \in Reqs, Calls(p) PROVE Uses'
  <2>1. \E r : req' = [req EXCEPT ![p] = r] /\ ~(r.op = "callback" /\ r.pc # "consume")
    <3>1. CASE CallbackRead(p)
      <4>1. PICK a : Begin(p, [NoRequest EXCEPT !.op = "callback", !.pc = "consume", !.attempt = a])
        BY <3>1 DEF CallbackRead
      <4>2. [NoRequest EXCEPT !.op = "callback", !.pc = "consume", !.attempt = a].pc = "consume"
        BY DEF NoRequest
      <4> QED BY <4>1, <4>2 DEF Begin
    <3>2. CASE EnrollRead(p)
      <4>1. PICK u : Begin(p, [NoRequest EXCEPT !.op = "enroll", !.pc = "write", !.account = u])
        BY <3>2 DEF EnrollRead
      <4>2. [NoRequest EXCEPT !.op = "enroll", !.pc = "write", !.account = u].op = "enroll"
        BY DEF NoRequest
      <4> QED BY <4>1, <4>2 DEF Begin
    <3>3. CASE DeleteRead(p)
      <4>1. PICK u : Begin(p, [NoRequest EXCEPT !.op = "delete", !.pc = "lock", !.account = u, !.sub = accounts[u].sub])
        BY <3>3 DEF DeleteRead
      <4>2. [NoRequest EXCEPT !.op = "delete", !.pc = "lock", !.account = u, !.sub = accounts[u].sub].op = "delete"
        BY DEF NoRequest
      <4> QED BY <4>1, <4>2 DEF Begin
    <3>4. CASE Fail(p)
      <4>1. req' = [req EXCEPT ![p] = NoRequest] /\ NoRequest.op # "callback"
        BY <3>4 DEF Fail, Refuse, Finish, NoRequest
      <4> QED BY <4>1
    <3> QED BY <1>3, <3>1, <3>2, <3>3, <3>4 DEF Calls
  <2>2. \A q \in Reqs : Past(q)' => Past(q) /\ req'[q].attempt = req[q].attempt
    BY <2>1 DEF Typed, TypeOK
  <2> QED BY <1>3, <2>2, SameUses DEF Calls, CallbackRead, EnrollRead, DeleteRead, Fail, Refuse
<1> QED BY <1>1, <1>2, <1>3, UsesWork DEF Next, Around

\* Whichever callbacks race for it, a sign-in attempt lets one in, which makes
\* one session.
THEOREM AttemptsUsedOnce == Spec => []OneUsePerAttempt
<1>1. Init => Uses
  BY DEF Init, Uses, OneUsePerAttempt, Fresh, Past, NoRequest
<1>2. Uses => OneUsePerAttempt
  BY DEF Uses
<1> QED BY <1>1, <1>2, TypedInit, TypedStep, UsesStep, PTL DEF Spec

---------------------------------------------------------------------------
(* Invitations.                                                            *)

Standing == Apart /\ OfferStands

\* A request as it was, or no sign-in that has read its invitation.
Leaves(q) == req'[q] = req[q] \/ (~Signing(q)' /\ req'[q].offer = None)
Undisturbed(q) ==
    Offered(q) /\ req'[q] = req[q] =>
        \A c \in Contacts : Stands(q, c) => invitations'[c].role = invitations[c].role

\* A step that neither begins a sign-in's work nor takes another's invitation.
LEMMA KeepsStanding ==
    ASSUME Standing, \A q \in Reqs : Leaves(q), \A q \in Reqs : Undisturbed(q)
    PROVE  Standing'
<1> USE DEF Standing, Leaves, Undisturbed, Signing, Offered, Stands, At
<1>1. Apart'
  BY DEF Apart
<1>2. OfferStands'
  <2> SUFFICES ASSUME NEW q \in Reqs
               PROVE  /\ Offered(q)' => \E c \in Contacts : Stands(q, c)'
                      /\ ~At(q, "callback", "account")' => req'[q].offer = None
    BY DEF OfferStands
  <2>1. Leaves(q) /\ Undisturbed(q)
    OBVIOUS
  <2> QED BY <2>1 DEF OfferStands
<1> QED BY <1>1, <1>2

LEMMA SameStanding ==
    ASSUME Standing, \A q \in Reqs : Leaves(q), invitations' = invitations PROVE Standing'
  BY KeepsStanding DEF Undisturbed

\* Finishing, failing and handing over to the session give up the invitation.
LEMMA FinishLeaves ==
    ASSUME Typed, NEW p \in Reqs, Finish(p) PROVE \A q \in Reqs : Leaves(q)
  BY FinishedRequest DEF Leaves, Signing, At, NoRequest

\* Nobody changes an invitation somebody's sign-in has read.
LEMMA FreeUndisturbed ==
    ASSUME \A c \in Emails : InvitationFree(c) \/ invitations'[c].role = invitations[c].role
    PROVE  \A q \in Reqs : Undisturbed(q)
  BY DEF Undisturbed, Offered, Stands, InvitationFree, HoldsInvitation, At

LEMMA OfficeStanding == ASSUME Typed, Standing, Office PROVE Standing'
<1>1. UNCHANGED req /\ \A c \in Emails : InvitationFree(c) \/ invitations'[c] = invitations[c]
  BY DEF Office, Grant, Revoke, Invite, Renew, CancelInvitation, CreateUnclaimed, SetStatus,
         Typed, TypeOK
<1> QED BY <1>1, FreeUndisturbed, KeepsStanding DEF Leaves

LEMMA AroundStanding == ASSUME Typed, Standing, Around \/ Cleanup PROVE Standing'
<1>1. UNCHANGED req /\ \A c \in Emails : invitations'[c].role = invitations[c].role
  BY DEF Around, Cleanup, SignUp, StartSignIn, SessionEnds, InvitationExpires, DeleteIdentity,
         RecordDeletion, rows, Typed, TypeOK, Invitation
<1> QED BY <1>1, FreeUndisturbed, KeepsStanding DEF Leaves

LEMMA CallsStanding == ASSUME Typed, Standing, NEW p \in Reqs, Calls(p) PROVE Standing'
<1>1. CASE CallbackRead(p)
  <2>1. PICK a : Begin(p, [NoRequest EXCEPT !.op = "callback", !.pc = "consume", !.attempt = a])
    BY <1>1 DEF CallbackRead
  <2>2. [NoRequest EXCEPT !.op = "callback", !.pc = "consume", !.attempt = a].pc = "consume"
    BY DEF NoRequest
  <2>3. [NoRequest EXCEPT !.op = "callback", !.pc = "consume", !.attempt = a].offer = None
    BY DEF NoRequest
  <2>4. \A q \in Reqs : Leaves(q)
    BY <2>1, <2>2, <2>3 DEF Begin, Leaves, Signing, At, Typed, TypeOK
  <2> QED BY <1>1, <2>4, SameStanding DEF CallbackRead, rows
<1>2. CASE EnrollRead(p)
  <2>1. PICK u : Begin(p, [NoRequest EXCEPT !.op = "enroll", !.pc = "write", !.account = u])
    BY <1>2 DEF EnrollRead
  <2>2. [NoRequest EXCEPT !.op = "enroll", !.pc = "write", !.account = u].op = "enroll"
    BY DEF NoRequest
  <2>3. [NoRequest EXCEPT !.op = "enroll", !.pc = "write", !.account = u].offer = None
    BY DEF NoRequest
  <2>4. \A q \in Reqs : Leaves(q)
    BY <2>1, <2>2, <2>3 DEF Begin, Leaves, Signing, At, Typed, TypeOK
  <2> QED BY <1>2, <2>4, SameStanding DEF EnrollRead, rows
<1>3. CASE DeleteRead(p)
  <2>1. PICK u : Begin(p, [NoRequest EXCEPT !.op = "delete", !.pc = "lock", !.account = u,
                                            !.sub = accounts[u].sub])
    BY <1>3 DEF DeleteRead
  <2>2. [NoRequest EXCEPT !.op = "delete", !.pc = "lock", !.account = u,
                          !.sub = accounts[u].sub].op = "delete"
    BY DEF NoRequest
  <2>3. [NoRequest EXCEPT !.op = "delete", !.pc = "lock", !.account = u,
                          !.sub = accounts[u].sub].offer = None
    BY DEF NoRequest
  <2>4. \A q \in Reqs : Leaves(q)
    BY <2>1, <2>2, <2>3 DEF Begin, Leaves, Signing, At, Typed, TypeOK
  <2> QED BY <1>3, <2>4, SameStanding DEF DeleteRead, rows
<1>4. CASE Fail(p)
  BY <1>4, FinishLeaves, SameStanding DEF Fail, Refuse, rows
<1> QED BY <1>1, <1>2, <1>3, <1>4 DEF Calls

LEMMA LockStanding ==
    ASSUME Typed, Standing, NEW p \in Reqs, LockIdentity(p), ~Refuse(p) PROVE Standing'
<1>1. /\ Goes(p, "offer") /\ At(p, "callback", "lock") /\ IdentityFree(req[p].sub)
      /\ UNCHANGED invitations
  BY DEF LockIdentity, rows
<1>2. req'[p] = [req[p] EXCEPT !.pc = "offer"] /\ \A q \in Reqs : q # p => req'[q] = req[q]
  BY <1>1, MovedRequest DEF At
<1>3. /\ req'[p].pc = "offer" /\ req'[p].sub = req[p].sub /\ req'[p].offer = req[p].offer
  BY <1>2 DEF Typed, TypeOK, Request
<1>4. \A q \in Reqs : Signing(q) => Proves[req[q].sub] \cap Proves[req[p].sub] = {}
  BY <1>1 DEF IdentityFree, HoldsContact, Signing
<1>5. Apart'
  <2> SUFFICES ASSUME NEW q \in Reqs, NEW t \in Reqs, Signing(q)', Signing(t)', q # t
               PROVE  Proves[req'[q].sub] \cap Proves[req'[t].sub] = {}
    BY DEF Apart
  <2>1. CASE q # p /\ t # p
    BY <1>2, <2>1 DEF Standing, Apart, Signing, At
  <2>2. CASE q = p
    BY <1>2, <1>3, <1>4, <2>2 DEF Signing, At
  <2>3. CASE t = p
    BY <1>2, <1>3, <1>4, <2>3 DEF Signing, At
  <2> QED BY <2>1, <2>2, <2>3
<1>6. OfferStands'
  <2> SUFFICES ASSUME NEW q \in Reqs
               PROVE  /\ Offered(q)' => \E c \in Contacts : Stands(q, c)'
                      /\ ~At(q, "callback", "account")' => req'[q].offer = None
    BY DEF OfferStands
  <2>1. CASE q = p
    BY <1>1, <1>3, <2>1 DEF Standing, OfferStands, Offered, At
  <2>2. CASE q # p
    BY <1>1, <1>2, <2>2 DEF Standing, OfferStands, Offered, Stands, At
  <2> QED BY <2>1, <2>2
<1> QED BY <1>5, <1>6 DEF Standing

LEMMA ReadOfferStanding ==
    ASSUME Typed, Standing, NEW p \in Reqs, ReadOffer(p) PROVE Standing'
<1> DEFINE Reads(c) == /\ c \in Proves[req[p].sub] \cap Emails
                       /\ req'[p].offer = invitations[c].role
<1>1. At(p, "callback", "offer") /\ UNCHANGED invitations
  BY DEF ReadOffer, rows
<1>2. /\ \A q \in Reqs : q # p => req'[q] = req[q]
      /\ req'[p].op = "callback" /\ req'[p].pc = "account" /\ req'[p].sub = req[p].sub
      /\ req'[p].offer = req[p].offer \/ \E c \in Contacts : Reads(c)
  <2>1. CASE Goes(p, "account")
    BY <1>1, <2>1 DEF Goes, At, Typed, TypeOK, Request
  <2>2. CASE \E c \in Offers(p) :
               req' = [req EXCEPT ![p].pc = "account", ![p].offer = invitations[c].role]
    BY <1>1, <2>2, ProvesAssumption DEF Offers, At, Typed, TypeOK, Request
  <2> QED BY <2>1, <2>2 DEF ReadOffer
<1>3. Apart'
  BY <1>1, <1>2 DEF Standing, Apart, Signing, At
<1>4. req[p].offer = None
  BY <1>1 DEF Standing, OfferStands, At
<1>5. OfferStands'
  BY <1>1, <1>2, <1>4 DEF Standing, OfferStands, Offered, Stands, At
<1> QED BY <1>3, <1>5 DEF Standing

LEMMA WorkStanding == ASSUME Typed, Standing, NEW p \in Reqs, Work(p) PROVE Standing'
<1> USE DEF rows
<1>0. CASE Refuse(p)
  BY <1>0, FinishLeaves, SameStanding DEF Refuse
<1>1. CASE Consume(p) /\ ~Refuse(p)
  <2>1. At(p, "callback", "consume") /\ UNCHANGED invitations
    BY <1>1 DEF Consume
  <2>2. CASE Finish(p)
    BY <2>1, <2>2, FinishLeaves, SameStanding
  <2>3. CASE \E s \in provider, intent \in Intents : Claimed(p, s, intent)
    <3>1. PICK s \in provider, intent \in Intents : Claimed(p, s, intent)
      BY <2>3
    <3>2. s \in Subs
      BY DEF Typed, TypeOK
    <3>3. PICK r : /\ WellFormed(r) /\ req' = [req EXCEPT ![p] = r]
                   /\ r.pc = "lock" /\ r.offer = req[p].offer
      BY <2>1, <3>1, <3>2, ClaimedRequest
    <3>4. r.offer = None
      BY <2>1, <3>3 DEF Standing, OfferStands, At
    <3>5. \A q \in Reqs : Leaves(q)
      BY <3>3, <3>4, ReplacedRequest DEF Leaves, Signing, At
    <3> QED BY <2>1, <3>5, SameStanding
  <2> QED BY <1>1, <2>2, <2>3 DEF Consume
<1>2. CASE Provision(p) /\ ~Refuse(p)
  <2>1. PICK u \in Accounts : \E account \in LinkedOrCreated(p, u) : Provided(p, u, account)
    BY <1>2, ProvisionRequest
  <2>2. PICK account \in LinkedOrCreated(p, u) : Provided(p, u, account)
    BY <2>1
  <2>3. At(p, "callback", "account") /\ req[p].attempt \in Attempts
    BY <1>2 DEF Provision, At, Typed, WellFormed
  <2>4. \A q \in Reqs : Leaves(q)
    <3>1. WellFormed(Session(req[p].attempt, u))
      BY <2>3, SessionRequest
    <3>2. Session(req[p].attempt, u).pc = "session" /\ Session(req[p].attempt, u).offer = None
      BY DEF Session, NoRequest
    <3>3. CASE Finish(p)
      BY <3>3, FinishLeaves
    <3>4. CASE req' = [req EXCEPT ![p] = Session(req[p].attempt, u)]
      BY <3>1, <3>2, <3>4, ReplacedRequest DEF Leaves, Signing, At
    <3> QED BY <2>2, <3>3, <3>4 DEF Provided
  <2>5. req'[p] # req[p]
    <3>1. /\ Session(req[p].attempt, u).pc = "session" /\ NoRequest.pc = "idle"
          /\ req[p].pc = "account"
      BY <2>3 DEF Session, NoRequest, At
    <3> QED BY <2>2, <3>1 DEF Provided, Finish, Typed, TypeOK
  <2>6. \A q \in Reqs : Undisturbed(q)
    <3> SUFFICES ASSUME NEW q \in Reqs, Offered(q), req'[q] = req[q], NEW c \in Contacts, Stands(q, c)
                 PROVE  invitations'[c].role = invitations[c].role
      BY DEF Undisturbed
    <3>1. Proves[req[p].sub] \cap Proves[req[q].sub] = {}
      BY <2>3, <2>5 DEF Standing, Apart, Signing, Offered
    <3> QED BY <2>2, <3>1 DEF Provided, Stands
  <2> QED BY <2>4, <2>6, KeepsStanding
<1>3. CASE (CreateSession(p) \/ EnrollWrite(p)) /\ ~Refuse(p)
  BY <1>3, FinishLeaves, SameStanding DEF CreateSession, EnrollWrite
<1>4. CASE DeleteLock(p) \/ (DeleteRow(p) /\ ~Refuse(p))
  <2>1. /\ req[p].op = "delete" /\ UNCHANGED invitations
        /\ Goes(p, "row") \/ Goes(p, "cascade")
    BY <1>4 DEF DeleteLock, DeleteRow, At
  <2>2. /\ req'[p].op = "delete" /\ req'[p].offer = req[p].offer
        /\ \A q \in Reqs : q # p => req'[q] = req[q]
    BY <2>1 DEF Goes, Typed, TypeOK, Request
  <2>3. \A q \in Reqs : Leaves(q)
    BY <2>1, <2>2 DEF Leaves, Signing, At, Standing, OfferStands
  <2> QED BY <2>1, <2>3, SameStanding
<1>5. CASE DeleteCascade(p)
  <2>1. \A c \in Emails : InvitationFree(c) \/ invitations'[c].role = invitations[c].role
    BY <1>5 DEF DeleteCascade
  <2> QED BY <1>5, <2>1, FinishLeaves, FreeUndisturbed, KeepsStanding DEF DeleteCascade
<1> QED
  BY <1>0, <1>1, <1>2, <1>3, <1>4, <1>5, LockStanding, ReadOfferStanding DEF Work, DeadlockVictim

LEMMA StandingStep == Typed /\ Standing /\ [Next]_vars => Standing'
<1>1. Standing /\ UNCHANGED vars => Standing'
  BY SameStanding DEF vars, rows, Leaves
<1> QED BY <1>1, OfficeStanding, AroundStanding, WorkStanding, CallsStanding DEF Next

\* A sign-in that makes somebody staff finds the invitation it has read still there.
LEMMA HonouredStep ==
    ASSUME Typed, Standing, [Next]_vars, NEW u \in Accounts, req' # req,
           (accounts'[u].roles \ accounts[u].roles) \cap StaffRoles # {}
    PROVE  \E c \in Emails \cap Proves[accounts'[u].sub] :
               /\ {invitations[c].role} = (accounts'[u].roles \ accounts[u].roles) \cap StaffRoles
               /\ invitations'[c] = NoInvitation
<1> DEFINE gained == (accounts'[u].roles \ accounts[u].roles) \cap StaffRoles
<1>1. accounts' # accounts
  OBVIOUS
<1>2. PICK p \in Reqs : (Provision(p) /\ ~Refuse(p)) \/ (EnrollWrite(p) /\ ~Refuse(p)) \/ DeleteCascade(p)
  BY <1>1
  DEF Next, vars, rows, Office, Grant, Revoke, Invite, Renew, CancelInvitation, CreateUnclaimed,
      SetStatus, Around, Cleanup, SignUp, StartSignIn, SessionEnds, InvitationExpires,
      DeleteIdentity, RecordDeletion, Work, Calls, Consume, LockIdentity, ReadOffer, CreateSession,
      DeleteLock, DeleteRow, DeadlockVictim, CallbackRead, EnrollRead, DeleteRead, Fail, Refuse
<1>3. ~DeleteCascade(p)
  BY DEF DeleteCascade, NoAccount, Typed, TypeOK
<1>4. ~(EnrollWrite(p) /\ ~Refuse(p))
  BY ManagerAssumption, RolesAssumption DEF EnrollWrite, Typed, TypeOK, Account
<1>5. Provision(p) /\ ~Refuse(p)
  BY <1>2, <1>3, <1>4
<1>6. PICK v \in Accounts : \E account \in LinkedOrCreated(p, v) : Provided(p, v, account)
  BY <1>5, ProvisionRequest
<1>7. PICK account \in LinkedOrCreated(p, v) : Provided(p, v, account)
  BY <1>6
<1>8. At(p, "callback", "account")
  BY <1>5 DEF Provision
<1>9. SignedIn(p, v, account)
  BY <1>7, <1>8, SignedInAccount
<1>10. v = u /\ accounts'[u] = WithOffer(p, account)
  BY <1>7 DEF Provided, Typed, TypeOK
<1>11. Accepts(p, account) /\ gained = {req[p].offer}
  BY <1>9, <1>10 DEF SignedIn
<1>12. PICK c \in Contacts : Stands(p, c)
  BY <1>8, <1>11 DEF Standing, OfferStands, Offered, Accepts
<1>13. accounts'[u].sub = req[p].sub
  BY <1>9, <1>10 DEF SignedIn
<1>14. invitations'[c] = NoInvitation
  BY <1>7, <1>11, <1>12 DEF Provided, Stands
<1> QED BY <1>11, <1>12, <1>13, <1>14 DEF Stands

\* Whoever becomes staff by signing in was invited, at that moment, to that role.
THEOREM StaffAreInvited == Spec => InvitationHonoured
<1>1. Init => Standing
  BY DEF Init, Standing, Apart, OfferStands, Offered, Signing, At, NoRequest
<1>2. Typed /\ Standing /\ [Next]_vars =>
        [\A u \in Accounts :
            LET gained == (accounts'[u].roles \ accounts[u].roles) \cap StaffRoles
            IN  gained # {} /\ req' # req =>
                \E c \in Emails \cap Proves[accounts'[u].sub] :
                    {invitations[c].role} = gained /\ invitations'[c] = NoInvitation]_vars
  BY HonouredStep
<1> QED BY <1>1, <1>2, TypedInit, TypedStep, StandingStep, PTL DEF Spec, InvitationHonoured

---------------------------------------------------------------------------
(* Deletions.  An account that is linked from its first day on has the      *)
(* subject that its deletion read and locked, so no sign-in of that subject  *)
(* is under way when the account goes.                                       *)

\* A request that holds the advisory lock of its subject.
Holding(r) ==
    \/ r.op = "callback" /\ r.pc \in {"offer", "account"}
    \/ r.op = "delete" /\ r.pc \in {"row", "cascade"}

SubjectsExclude ==
    \A p, q \in Reqs :
        Holding(req[p]) /\ Holding(req[q]) /\ req[p].sub = req[q].sub => p = q
OneOwner ==
    \A u, v \in Accounts : accounts[u].sub # None /\ accounts[u].sub = accounts[v].sub => u = v
AllLinked == \A u \in Accounts : Exists(u) <=> accounts[u].sub # None
\* A deletion has the subject of its account.
Aimed(r) ==
    r.op = "delete" =>
        r.sub \in Subs /\ (Exists(r.account) => accounts[r.account].sub = r.sub)
\* A sign-in past lockIdentity is not of a deleted subject.
Vetted(r) ==
    r.op = "callback" /\ r.pc \in {"offer", "account"} =>
        r.sub \in Subs /\ tombstones[r.sub] = "none"

LinkedInv ==
    /\ SubjectsExclude /\ OneOwner /\ AllLinked
    /\ \A p \in Reqs : Aimed(req[p]) /\ Vetted(req[p])
    /\ DeletedStaysDeleted

\* A request that holds no subject's lock and deletes nothing.
Light(r) == ~Holding(r) /\ r.op # "delete"

LEMMA NoRequestLight == Light(NoRequest)
  BY DEF Light, Holding, NoRequest

\* Steps that leave open who is linked to what and which subjects are deleted.
LEMMA QuietLinked ==
    ASSUME LinkedInv,
           \A u \in Accounts : accounts'[u].sub = accounts[u].sub
                               /\ accounts'[u].contacts = accounts[u].contacts,
           \A s \in Subs : tombstones'[s] = "none" <=> tombstones[s] = "none",
           \A p \in Reqs : req'[p] = req[p] \/ Light(req'[p]),
           Typed
    PROVE  LinkedInv'
<1>1. \A u \in Accounts : Exists(u)' <=> Exists(u)
  BY DEF Exists
<1>2. \A u \in Accounts : accounts[u].sub \in Subs \cup {None}
  BY DEF Typed, TypeOK, Account
<1>3. SubjectsExclude'
  BY DEF LinkedInv, SubjectsExclude, Light
<1>4. OneOwner' /\ AllLinked' /\ DeletedStaysDeleted'
  BY <1>1, <1>2 DEF LinkedInv, OneOwner, AllLinked, DeletedStaysDeleted
<1>5. ASSUME NEW p \in Reqs PROVE (Aimed(req[p]) /\ Vetted(req[p]))'
  <2>1. CASE req'[p] = req[p]
    <3>1. req[p].op = "delete" => req[p].account \in Accounts
      BY DEF Typed, WellFormed
    <3> QED BY <1>1, <2>1, <3>1 DEF LinkedInv, Aimed, Vetted
  <2>2. CASE Light(req'[p])
    BY <2>2 DEF Light, Holding, Aimed, Vetted
  <2> QED BY <2>1, <2>2
<1> QED BY <1>3, <1>4, <1>5 DEF LinkedInv

\* A request goes on under the same subject, and takes its lock if it is free.
LEMMA MoveLinked ==
    ASSUME Typed, LinkedInv, UNCHANGED <<accounts, tombstones>>, NEW p \in Reqs,
           \A q \in Reqs : q # p => req'[q] = req[q],
           req'[p].sub = req[p].sub, req'[p].op = req[p].op, req'[p].account = req[p].account,
           Holding(req[p]) \/ \A q \in Reqs : ~HoldsSubject(q, req[p].sub),
           Vetted(req'[p])
    PROVE  LinkedInv'
<1>1. SubjectsExclude'
  <2> SUFFICES ASSUME NEW q \in Reqs, NEW t \in Reqs, Holding(req'[q]), Holding(req'[t]),
                      req'[q].sub = req'[t].sub, q # t
               PROVE  FALSE
    BY DEF SubjectsExclude
  <2>1. ASSUME NEW o \in Reqs, o # p, Holding(req[o]), req[o].sub = req[p].sub PROVE FALSE
    BY <2>1 DEF LinkedInv, SubjectsExclude, HoldsSubject, Holding, At
  <2>2. CASE q = p
    BY <2>1, <2>2
  <2>3. CASE t = p
    BY <2>1, <2>3
  <2>4. CASE q # p /\ t # p
    BY <2>4 DEF LinkedInv, SubjectsExclude
  <2> QED BY <2>2, <2>3, <2>4
<1>2. OneOwner' /\ AllLinked' /\ DeletedStaysDeleted'
  BY DEF LinkedInv, OneOwner, AllLinked, DeletedStaysDeleted, Exists
<1>3. ASSUME NEW q \in Reqs PROVE (Aimed(req[q]) /\ Vetted(req[q]))'
  <2>1. Aimed(req[q]) /\ Vetted(req[q])
    BY DEF LinkedInv
  <2> QED BY <2>1 DEF Aimed, Vetted, Exists
<1> QED BY <1>1, <1>2, <1>3 DEF LinkedInv

LEMMA RefuseLinked == ASSUME Typed, LinkedInv, NEW p \in Reqs, Refuse(p) PROVE LinkedInv'
  BY FinishedRequest, NoRequestLight, QuietLinked DEF Refuse, rows

LEMMA OfficeLinked ==
    ASSUME Typed, LinkedInv, Office, "unclaimed" \notin Ops
    PROVE  LinkedInv'
<1>1. UNCHANGED <<req, tombstones>> /\ ~CreateUnclaimed
  BY DEF Office, Grant, Revoke, Invite, Renew, CancelInvitation, CreateUnclaimed, SetStatus
<1>2. \A u \in Accounts : accounts'[u].sub = accounts[u].sub /\ accounts'[u].contacts = accounts[u].contacts
  BY <1>1 DEF Office, Grant, Revoke, Invite, Renew, CancelInvitation, SetStatus, Typed, TypeOK, Account
<1> QED BY <1>1, <1>2, QuietLinked

LEMMA AroundLinked == ASSUME Typed, LinkedInv, Around \/ Cleanup PROVE LinkedInv'
<1>1. UNCHANGED <<req, accounts>>
  BY DEF Around, Cleanup, SignUp, StartSignIn, SessionEnds, InvitationExpires, DeleteIdentity,
         RecordDeletion, rows
<1>2. \A s \in Subs : tombstones'[s] = "none" <=> tombstones[s] = "none"
  BY DEF Around, Cleanup, SignUp, StartSignIn, SessionEnds, InvitationExpires, DeleteIdentity,
         RecordDeletion, rows, Typed, TypeOK
<1> QED BY <1>1, <1>2, QuietLinked

LEMMA CallsLinked == ASSUME Typed, LinkedInv, NEW p \in Reqs, Calls(p) PROVE LinkedInv'
<1>0. UNCHANGED <<accounts, tombstones>>
  BY DEF Calls, CallbackRead, EnrollRead, DeleteRead, Fail, Refuse, rows
<1>1. ASSUME NEW r, Begin(p, r), Light(r) PROVE LinkedInv'
  <2>1. \A q \in Reqs : req'[q] = req[q] \/ Light(req'[q])
    BY <1>1 DEF Begin, Typed, TypeOK
  <2> QED BY <1>0, <2>1, QuietLinked
<1>2. CASE CallbackRead(p)
  <2>1. PICK a : Begin(p, [NoRequest EXCEPT !.op = "callback", !.pc = "consume", !.attempt = a])
    BY <1>2 DEF CallbackRead
  <2>2. Light([NoRequest EXCEPT !.op = "callback", !.pc = "consume", !.attempt = a])
    BY DEF Light, Holding, NoRequest
  <2> QED BY <1>1, <2>1, <2>2
<1>3. CASE EnrollRead(p)
  <2>1. PICK u : Begin(p, [NoRequest EXCEPT !.op = "enroll", !.pc = "write", !.account = u])
    BY <1>3 DEF EnrollRead
  <2>2. Light([NoRequest EXCEPT !.op = "enroll", !.pc = "write", !.account = u])
    BY DEF Light, Holding, NoRequest
  <2> QED BY <1>1, <2>1, <2>2
<1>4. CASE DeleteRead(p)
  <2>1. PICK u \in Accounts : Exists(u) /\ Begin(p, [NoRequest EXCEPT !.op = "delete", !.pc = "lock",
                                                     !.account = u, !.sub = accounts[u].sub])
    BY <1>4 DEF DeleteRead
  <2> DEFINE r == [NoRequest EXCEPT !.op = "delete", !.pc = "lock", !.account = u,
                                    !.sub = accounts[u].sub]
  <2>2. r.op = "delete" /\ r.pc = "lock" /\ r.account = u /\ r.sub = accounts[u].sub
    BY DEF NoRequest
  <2>3. accounts[u].sub \in Subs
    BY <2>1 DEF LinkedInv, AllLinked, Typed, TypeOK, Account
  <2>4. req'[p] = r /\ \A q \in Reqs : q # p => req'[q] = req[q]
    BY <2>1 DEF Begin, Typed, TypeOK
  <2> HIDE DEF r
  <2>5. ~Holding(r) /\ Vetted(req[p])' /\ Aimed(req[p])'
    BY <1>0, <2>2, <2>3, <2>4 DEF Holding, Vetted, Aimed, Exists
  <2>6. SubjectsExclude'
    BY <2>4, <2>5 DEF LinkedInv, SubjectsExclude
  <2>7. OneOwner' /\ AllLinked' /\ DeletedStaysDeleted'
    BY <1>0 DEF LinkedInv, OneOwner, AllLinked, DeletedStaysDeleted, Exists
  <2>8. ASSUME NEW q \in Reqs PROVE (Aimed(req[q]) /\ Vetted(req[q]))'
    BY <1>0, <2>4, <2>5 DEF LinkedInv, Aimed, Vetted, Exists
  <2> QED BY <2>6, <2>7, <2>8 DEF LinkedInv
<1>5. CASE Fail(p)
  BY <1>5, RefuseLinked DEF Fail
<1> QED BY <1>2, <1>3, <1>4, <1>5 DEF Calls

\* A sign-in links the subject it holds to an account that has it already, or to
\* a row nobody knew.
LEMMA ProvisionLinked ==
    ASSUME Typed, LinkedInv, NEW p \in Reqs, At(p, "callback", "account"),
           NEW u \in Accounts, NEW account \in LinkedOrCreated(p, u), Provided(p, u, account)
    PROVE  LinkedInv'
<1> DEFINE s == req[p].sub
<1>1. s \in Subs /\ tombstones[s] = "none" /\ Holding(req[p]) /\ WellFormed(req[p])
  BY DEF LinkedInv, Vetted, Holding, At, Typed
<1>2. \A q \in Reqs : q # p => req'[q] = req[q]
  BY FinishedRequest, ReplacedRequest, SessionRequest, <1>1 DEF Provided, WellFormed, At
<1>3. Light(req'[p])
  <2>1. CASE Finish(p)
    BY <2>1, FinishedRequest, NoRequestLight
  <2>2. CASE req' = [req EXCEPT ![p] = Session(req[p].attempt, u)]
    <3>1. Light(Session(req[p].attempt, u))
      BY DEF Light, Holding, Session, NoRequest
    <3> QED BY <2>2, <3>1 DEF Typed, TypeOK
  <2> QED BY <2>1, <2>2 DEF Provided
<1>4. /\ UNCHANGED tombstones
      /\ accounts'[u] = WithOffer(p, account) /\ \A v \in Accounts : v # u => accounts'[v] = accounts[v]
  BY DEF Provided, Typed, TypeOK
<1>5. accounts'[u].sub = s /\ s # None
  <2>1. SignedIn(p, u, account)
    BY SignedInAccount
  <2>2. accounts'[u].sub = req[p].sub
    BY <1>4, <2>1, Zenon DEF SignedIn
  <2>3. req[p].sub # None
    BY <1>1, NoneAssumption
  <2> QED BY <2>2, <2>3
<1>6. accounts'[u].contacts = account.contacts
  BY <1>4, SignedInAccount DEF SignedIn, WithOffer, Account
<1>7. CASE Candidates(s) = {}
  <2>1. Unused(u) /\ account = Created(s, req[p].intent)
    BY <1>7 DEF LinkedOrCreated
  <2>2. \A v \in Accounts : accounts[v].sub # s
    BY <1>7 DEF Candidates, OwnedBy
  <2>3. Exists(u)' /\ ~Exists(u) /\ \A q \in Reqs : req[q].account # u
    BY <1>1, <1>6, <2>1, ProvesAssumption DEF Exists, Unused, Created
  <2>4. SubjectsExclude'
    BY <1>2, <1>3 DEF LinkedInv, SubjectsExclude, Light
  <2>5. OneOwner'
    BY <1>4, <1>5, <2>2 DEF LinkedInv, OneOwner
  <2>6. AllLinked'
    BY <1>4, <1>5, <2>3 DEF LinkedInv, AllLinked, Exists
  <2>7. DeletedStaysDeleted'
    BY <1>1, <1>4, <1>5 DEF LinkedInv, DeletedStaysDeleted
  <2>8. ASSUME NEW q \in Reqs PROVE (Aimed(req[q]) /\ Vetted(req[q]))'
    <3>1. CASE q = p
      BY <1>3, <3>1 DEF Light, Holding, Aimed, Vetted
    <3>2. CASE q # p
      <4>1. req'[q] = req[q] /\ (req[q].op = "delete" => req[q].account \in Accounts) /\ req[q].account # u
        BY <1>2, <2>3, <3>2 DEF Typed, WellFormed
      <4> QED BY <1>4, <4>1 DEF LinkedInv, Aimed, Vetted, Exists
    <3> QED BY <3>1, <3>2
  <2> QED BY <2>4, <2>5, <2>6, <2>7, <2>8 DEF LinkedInv
<1>8. CASE Candidates(s) # {}
  <2>1. u \in Candidates(s) /\ accounts[u].sub \in {s, None} /\ account = Linked(s, u)
    BY <1>8 DEF LinkedOrCreated
  <2>2. accounts[u].sub = s
    BY <1>5, <2>1 DEF Candidates, OwnedBy, WithContact, LinkedInv, AllLinked, Exists
  <2>3. account.contacts = accounts[u].contacts
    BY <2>1 DEF Linked, Typed, TypeOK, Account
  <2>4. \A v \in Accounts : accounts'[v].sub = accounts[v].sub
                            /\ accounts'[v].contacts = accounts[v].contacts
    BY <1>4, <1>5, <1>6, <2>2, <2>3
  <2> QED BY <1>2, <1>3, <1>4, <2>4, QuietLinked
<1> QED BY <1>7, <1>8

\* The account goes while its deletion holds its subject.
LEMMA DeleteCascadeLinked ==
    ASSUME Typed, LinkedInv, NEW p \in Reqs, DeleteCascade(p)
    PROVE  LinkedInv'
<1> DEFINE u == req[p].account
           s == accounts[u].sub
<1>1. u \in Accounts /\ Holding(req[p]) /\ Aimed(req[p]) /\ s \in Subs \cup {None}
  BY DEF DeleteCascade, At, Holding, LinkedInv, Typed, TypeOK, WellFormed, Account
<1>2. /\ req'[p] = NoRequest /\ \A q \in Reqs : q # p => req'[q] = req[q]
      /\ accounts'[u] = NoAccount /\ \A v \in Accounts : v # u => accounts'[v] = accounts[v]
      /\ \A t \in Subs : t # s => tombstones'[t] = tombstones[t]
  BY <1>1, FinishedRequest DEF DeleteCascade, Typed, TypeOK
<1>3. NoAccount.sub = None /\ NoAccount.contacts = {}
  BY DEF NoAccount
<1>4. \A q \in Reqs : q # p /\ Holding(req[q]) /\ s # None => req[q].sub # s
  <2>1. s # None => req[p].sub = s
    BY <1>1 DEF LinkedInv, AllLinked, Aimed, DeleteCascade, At
  <2> QED BY <1>1, <2>1 DEF LinkedInv, SubjectsExclude
<1> HIDE DEF s, u
<1>5. SubjectsExclude'
  BY <1>2, NoRequestLight DEF LinkedInv, SubjectsExclude, Light
<1>6. OneOwner' /\ AllLinked'
  BY <1>2, <1>3 DEF LinkedInv, OneOwner, AllLinked, Exists
<1>7. DeletedStaysDeleted'
  <2> SUFFICES ASSUME NEW v \in Accounts, accounts'[v].sub # None
               PROVE  tombstones'[accounts'[v].sub] = "none"
    BY DEF DeletedStaysDeleted
  <2>1. v # u /\ accounts'[v] = accounts[v]
    BY <1>2, <1>3
  <2>2. accounts[v].sub \in Subs /\ accounts[v].sub # s
    BY <1>1, <2>1 DEF LinkedInv, OneOwner, Typed, TypeOK, Account, s
  <2> QED BY <1>2, <2>1, <2>2 DEF LinkedInv, DeletedStaysDeleted
<1>8. ASSUME NEW q \in Reqs PROVE (Aimed(req[q]) /\ Vetted(req[q]))'
  <2>1. CASE q = p
    BY <1>2, <2>1, NoRequestLight DEF Light, Holding, Aimed, Vetted
  <2>2. CASE q # p
    <3>1. req'[q] = req[q] /\ Aimed(req[q]) /\ Vetted(req[q])
          /\ (req[q].op = "delete" => req[q].account \in Accounts)
      BY <1>2, <2>2 DEF LinkedInv, Typed, WellFormed
    <3>2. Aimed(req[q])'
      BY <1>2, <1>3, <3>1 DEF Aimed, Exists
    <3>3. Vetted(req[q])'
      BY <1>1, <1>2, <1>4, <2>2, <3>1, NoneAssumption DEF Vetted, Holding
    <3> QED BY <3>2, <3>3
  <2> QED BY <2>1, <2>2
<1> QED BY <1>5, <1>6, <1>7, <1>8 DEF LinkedInv

LEMMA WorkLinked == ASSUME Typed, LinkedInv, NEW p \in Reqs, Work(p) PROVE LinkedInv'
<1> USE DEF rows
<1>0. CASE Refuse(p)
  BY <1>0, RefuseLinked
<1>1. CASE Consume(p) /\ ~Refuse(p)
  <2>1. UNCHANGED <<accounts, tombstones>>
    BY <1>1 DEF Consume
  <2>2. \A q \in Reqs : req'[q] = req[q] \/ Light(req'[q])
    <3>1. CASE Finish(p)
      BY <3>1, FinishedRequest, NoRequestLight
    <3>2. CASE \E s \in provider, intent \in Intents : Claimed(p, s, intent)
      <4>1. PICK s \in Subs, intent \in Intents : Claimed(p, s, intent)
        BY <3>2 DEF Typed, TypeOK
      <4>2. PICK r : WellFormed(r) /\ req' = [req EXCEPT ![p] = r] /\ r.op = "callback" /\ r.pc = "lock"
        BY <1>1, <4>1, ClaimedRequest DEF Consume
      <4>3. Light(r)
        BY <4>2 DEF Light, Holding
      <4> QED BY <4>2, <4>3, ReplacedRequest
    <3> QED BY <1>1, <3>1, <3>2 DEF Consume
  <2> QED BY <2>1, <2>2, QuietLinked
<1>2. CASE LockIdentity(p) /\ ~Refuse(p)
  <2>1. Goes(p, "offer") /\ At(p, "callback", "lock") /\ IdentityFree(req[p].sub)
        /\ tombstones[req[p].sub] = "none" /\ UNCHANGED <<accounts, tombstones>>
    BY <1>2 DEF LockIdentity
  <2>2. req'[p] = [req[p] EXCEPT !.pc = "offer"] /\ \A q \in Reqs : q # p => req'[q] = req[q]
    BY <2>1, MovedRequest DEF At
  <2>3. /\ req'[p].sub = req[p].sub /\ req'[p].op = req[p].op /\ req'[p].account = req[p].account
        /\ req[p].sub \in Subs
    BY <2>1, <2>2 DEF Typed, TypeOK, Request, WellFormed, At
  <2>4. Vetted(req'[p]) /\ \A q \in Reqs : ~HoldsSubject(q, req[p].sub)
    BY <2>1, <2>3 DEF Vetted, IdentityFree
  <2> QED BY <2>1, <2>2, <2>3, <2>4, MoveLinked
<1>3. CASE ReadOffer(p)
  <2>1. At(p, "callback", "offer") /\ UNCHANGED <<accounts, tombstones>>
    BY <1>3 DEF ReadOffer
  <2>2. /\ \A q \in Reqs : q # p => req'[q] = req[q]
        /\ req'[p].sub = req[p].sub /\ req'[p].op = req[p].op /\ req'[p].account = req[p].account
    <3>1. CASE Goes(p, "account")
      BY <3>1 DEF Goes, Typed, TypeOK, Request
    <3>2. CASE \E c \in Offers(p) :
                 req' = [req EXCEPT ![p].pc = "account", ![p].offer = invitations[c].role]
      BY <3>2 DEF Typed, TypeOK, Request
    <3> QED BY <1>3, <3>1, <3>2 DEF ReadOffer
  <2>3. Holding(req[p]) /\ Vetted(req'[p])
    BY <2>1, <2>2 DEF Holding, At, LinkedInv, Vetted
  <2> QED BY <2>1, <2>2, <2>3, MoveLinked
<1>4. CASE Provision(p) /\ ~Refuse(p)
  BY <1>4, ProvisionRequest, ProvisionLinked DEF Provision
<1>5. CASE (CreateSession(p) \/ EnrollWrite(p)) /\ ~Refuse(p)
  <2>1. Finish(p) /\ UNCHANGED tombstones
    BY <1>5 DEF CreateSession, EnrollWrite
  <2>2. \A u \in Accounts : accounts'[u].sub = accounts[u].sub
                            /\ accounts'[u].contacts = accounts[u].contacts
    BY <1>5 DEF CreateSession, EnrollWrite, Typed, TypeOK, Account
  <2> QED BY <2>1, <2>2, FinishedRequest, NoRequestLight, QuietLinked
<1>6. CASE (DeleteLock(p) \/ DeleteRow(p)) /\ ~Refuse(p)
  <2>1. PICK pc \in {"row", "cascade"} : Goes(p, pc) /\ req[p].op = "delete"
    BY <1>6 DEF DeleteLock, DeleteRow, At
  <2>2. req'[p] = [req[p] EXCEPT !.pc = pc] /\ \A q \in Reqs : q # p => req'[q] = req[q]
    BY <2>1, MovedRequest
  <2>3. req'[p].sub = req[p].sub /\ req'[p].op = req[p].op /\ req'[p].account = req[p].account
    BY <2>2 DEF Typed, TypeOK, Request
  <2>4. Vetted(req'[p]) /\ UNCHANGED <<accounts, tombstones>>
    BY <1>6, <2>1, <2>3 DEF Vetted, DeleteLock, DeleteRow
  <2>5. Holding(req[p]) \/ \A q \in Reqs : ~HoldsSubject(q, req[p].sub)
    <3>1. req[p].sub # None
      BY <2>1, NoneAssumption DEF LinkedInv, Aimed
    <3> QED BY <1>6, <3>1 DEF DeleteLock, DeleteRow, Holding, At
  <2> QED BY <2>2, <2>3, <2>4, <2>5, MoveLinked
<1>7. CASE DeleteCascade(p)
  BY <1>7, DeleteCascadeLinked
<1> QED BY <1>0, <1>1, <1>2, <1>3, <1>4, <1>5, <1>6, <1>7 DEF Work, DeadlockVictim

LEMMA LinkedStep ==
    ASSUME Typed, LinkedInv, "unclaimed" \notin Ops, [Next]_vars
    PROVE  LinkedInv'
<1>1. CASE UNCHANGED vars
  BY <1>1, QuietLinked DEF vars, rows
<1> QED BY <1>1, OfficeLinked, AroundLinked, WorkLinked, CallsLinked DEF Next

\* Where every account is linked to an identity from its first day on, no sign-in
\* brings a deleted subject back, however deletions, sign-ins, failures and the
\* clean-up cross: lockDeletionIdentity has read the subject that is deleted.
THEOREM LinkedStayDeleted == "unclaimed" \notin Ops => (Spec => []DeletedStaysDeleted)
<1> SUFFICES ASSUME "unclaimed" \notin Ops PROVE Spec => []DeletedStaysDeleted
  OBVIOUS
<1>1. Init => LinkedInv
  <2> SUFFICES ASSUME Init PROVE LinkedInv
    OBVIOUS
  <2>1. \A p \in Reqs : Light(req[p])
    BY NoRequestLight DEF Init
  <2>2. SubjectsExclude /\ \A p \in Reqs : Aimed(req[p]) /\ Vetted(req[p])
    BY <2>1 DEF Light, Holding, SubjectsExclude, Aimed, Vetted
  <2>3. OneOwner /\ AllLinked /\ DeletedStaysDeleted
    BY DEF Init, NoAccount, OneOwner, AllLinked, Exists, DeletedStaysDeleted
  <2> QED BY <2>2, <2>3 DEF LinkedInv
<1>2. Typed /\ LinkedInv /\ [Next]_vars => LinkedInv'
  BY LinkedStep
<1>3. LinkedInv => DeletedStaysDeleted
  BY DEF LinkedInv
<1> QED BY <1>1, <1>2, <1>3, TypedInit, TypedStep, PTL DEF Spec
============================================================================
