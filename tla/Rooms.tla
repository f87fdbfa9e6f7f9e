------------------------------- MODULE Rooms -------------------------------
(***************************************************************************)
(* The rooms of one property and the change sets its landlord submits for   *)
(* review: RoomManagementService, for one semester and one room type.       *)
(*                                                                          *)
(* A request is a READ COMMITTED transaction of a few steps; what it        *)
(* changes is written in its last step, when it holds every row lock it     *)
(* takes.  Two rows are fought over: the property's, and that of its open   *)
(* change set (with the unique index that allows only one).  A room stands  *)
(* for its code; the label, photos and price of a room are left out.        *)
(***************************************************************************)
EXTENDS Naturals, FiniteSets

CONSTANTS
    Reqs,      \* requests being served
    Rooms,     \* room codes
    SetIds,    \* rows of room_inventory_change_sets that somebody may refer to
    MaxBeds,   \* bound: beds of a room
    MaxClaims, \* bound: reservations of a room's beds, live or on their way
    Declared,  \* rooms the landlord declared on the property form
    Ops,       \* what may happen in this instance
    None

ASSUME BedsAssumption == MaxBeds \in Nat \ {0} /\ MaxClaims \in Nat
ASSUME RoomsAssumption ==
    /\ Declared \subseteq Rooms /\ None \notin SetIds \cup Rooms \cup Reqs
    /\ {"listed", "submitted"} \cap (Rooms \cup {None}) = {}

VARIABLES
    property,     \* row of properties
    sets,         \* rows of room_inventory_change_sets with their changes
    rooms,        \* rows of units, with how many beds each has
    stay,         \* how many reservations each room's beds have
    spec,         \* capacity in the room type's approved version, 0: none
    passed,       \* what an approved visit was completed after
    awaiting,     \* what a visit was completed after that no lead approved yet
    req,          \* requests in progress
    propertyLock, \* the request that holds the property's row FOR UPDATE
    setLock       \* the request that holds the open set's row, or inserts one

table == <<property, sets, rooms, stay, spec>>
visits == <<passed, awaiting>>
locks == <<propertyLock, setLock>>
roomVars == <<table, visits, req, locks>>

Property == [intent : {"list", "manage_only"}, review : {"pending", "approved", "rejected"}]

InReview == {"pending_review", "visit_required"}
Editable == {"draft", "rejected"}
Open == InReview \cup Editable

\* closed: approved, cancelled or not there yet; nobody reads its changes then.
\* changes: what the set does with which room; capacity: of the pending
\* version of the room type, 0 when the set leaves the type alone.
ChangeSet == [status : Open \cup {"closed"},
              changes : SUBSET (Rooms \X {"create", "update", "archive"}),
              capacity : 0 .. MaxBeds]
ClosedSet == [status |-> "closed", changes |-> {}, capacity |-> 0]

\* typed: the room is of the room type; capacity: the column units.capacity;
\* beds: beds not retired; used: one of its beds had a reservation at any time.
Room == [state : {"none", "live", "archived"}, typed : BOOLEAN,
         capacity : 0 .. MaxBeds, beds : Nat, used : BOOLEAN]
NoRoom == [state |-> "none", typed |-> FALSE, capacity |-> 0, beds |-> 0, used |-> FALSE]

\* taken: live reservations; coming: transactions that found a bed not blocked
\* and will insert one.  The others are those whose bed was retired after that.
Stay == [coming : Nat, taken : Nat, comingRetired : Nat, takenRetired : Nat]
NoStay == [coming |-> 0, taken |-> 0, comingRetired |-> 0, takenRetired |-> 0]

Things == {"listed", "submitted"} \cup Rooms

Request == [op : {"none", "type", "create", "update", "archive", "edit", "submit",
                  "cancel", "approve", "approveManaged", "intent", "publish"},
            pc : {"idle", "set", "property", "write"},
            set : SetIds \cup {None}, room : Rooms \cup {None},
            capacity : 0 .. MaxBeds, intent : {"list", "manage_only"}, managed : BOOLEAN]
NoRequest == [op |-> "none", pc |-> "idle", set |-> None, room |-> None,
              capacity |-> 0, intent |-> "list", managed |-> FALSE]

RoomsTypeOK ==
    /\ property \in Property
    /\ sets \in [SetIds -> ChangeSet]
    /\ rooms \in [Rooms -> Room]
    /\ stay \in [Rooms -> Stay]
    /\ spec \in 0 .. MaxBeds
    /\ passed \subseteq Things /\ awaiting \subseteq Things
    /\ req \in [Reqs -> Request]
    /\ propertyLock \in Reqs \cup {None} /\ setLock \in Reqs \cup {None}

---------------------------------------------------------------------------
(* Rows and locks.                                                         *)

OpenSets == {s \in SetIds : sets[s].status \in Open}
\* What is on the property now or proposed in its open set.
Staged(r) == \E s \in OpenSets : <<r, "create">> \in sets[s].changes
Live(r) == rooms[r].state = "live"
Managed == property.intent = "manage_only" /\ property.review = "approved"
\* The room type has a version: an approved one or one in the open set.
TypeExists == spec > 0 \/ \E s \in OpenSets : sets[s].capacity > 0

\* A set not committed yet: its foreign key shares the property's row.
Inserting(q) == setLock = q /\ req[q].pc = "write" /\ sets[req[q].set] = ClosedSet
PropertyShareable(p) == propertyLock \in {None, p}
PropertyFree(p) == PropertyShareable(p) /\ \A q \in Reqs \ {p} : ~Inserting(q)
SetFree(p) == setLock \in {None, p}

Begin(p, request) == req[p] = NoRequest /\ req' = [req EXCEPT ![p] = request]

\* Commit or rollback: the request is over and its locks are free.
Finish(p) ==
    /\ req' = [req EXCEPT ![p] = NoRequest]
    /\ propertyLock' = IF propertyLock = p THEN None ELSE propertyLock
    /\ setLock' = IF setLock = p THEN None ELSE setLock

\* Slip: an error is answered before the transaction is rolled back.
RefuseOpen(p) == req' = [req EXCEPT ![p] = NoRequest] /\ UNCHANGED <<table, visits, locks>>

\* A conflict answered to the caller, or a lost connection.
Refuse(p) == Finish(p) /\ UNCHANGED <<table, visits>>

Stamp(things) == passed' = passed \ things /\ awaiting' = awaiting \ things

---------------------------------------------------------------------------
(* Applying a change set: applyChangeSet and the functions it calls.        *)

\* Slip: the difference is taken to the room type's capacity so far.
ResizeFromType(room, n) == [room EXCEPT !.beds = (@ + n) - spec, !.capacity = n]

\* Slip: units.capacity is raised by the new capacity.
ResizeRaised(room, n) == [room EXCEPT !.beds = (@ + n) - room.capacity, !.capacity = @ + n]

\* resizeBeds: by the difference to the capacity column.
Resize(room, n) == [room EXCEPT !.beds = (@ + n) - room.capacity, !.capacity = n]
\* As many beds without a live reservation are there as are to be retired.
Resizable(r, n) == rooms[r].capacity <= n + (rooms[r].beds - stay[r].taken)

\* The beds are looked for with no lock, and retired by their ids afterwards: a
\* reservation that commits in between is one on its way at this step.  So some
\* of the beds that are being claimed may go, all if no others are left.
Hits(r, beds) ==
    {h \in 0 .. stay[r].coming :
        /\ h > 0 => h + beds <= rooms[r].beds
        /\ h < stay[r].coming => stay[r].taken + stay[r].coming <= h + beds}

\* What becomes of the reservations when the rooms become new.
Retire(new) ==
    \E hit \in [Rooms -> 0 .. MaxClaims] :
        /\ \A r \in Rooms : hit[r] \in Hits(r, new[r].beds)
        /\ stay' = [r \in Rooms |-> [stay[r] EXCEPT !.coming = @ - hit[r],
                                                    !.comingRetired = @ + hit[r]]]

\* No live reservation in the room, on whichever bed.
Vacant(r) == stay[r].taken = 0 /\ stay[r].takenRetired = 0

Create(room, n) == [room EXCEPT !.state = "live", !.typed = TRUE, !.capacity = n,
                                !.beds = n]

NewSpec(set) == IF set.capacity > 0 THEN set.capacity ELSE spec

\* applyRoomTypeVersion: every room of the type gets the new capacity.
ApplyRoomTypeVersion(r, n) ==
    IF Live(r) /\ rooms[r].typed THEN Resize(rooms[r], n) ELSE rooms[r]

\* applyUnitChange, for the changes of room r.
ApplyUnitChanges(set, r) ==
    LET n == NewSpec(set)
        typed == ApplyRoomTypeVersion(r, n)
        made == IF <<r, "create">> \in set.changes THEN Create(typed, n) ELSE typed
        moved == IF <<r, "update">> \in set.changes
                 THEN Resize([made EXCEPT !.typed = TRUE], n) ELSE made
    IN  IF <<r, "archive">> \in set.changes THEN [moved EXCEPT !.state = "archived"] ELSE moved

\* Whether it goes through without a conflict.
Applicable(set) ==
    /\ (\E c \in set.changes : c[2] # "archive") => NewSpec(set) > 0
    /\ \A r \in Rooms :
        /\ <<r, "archive">> \in set.changes => Vacant(r)
        /\ ((Live(r) /\ rooms[r].typed) \/ <<r, "update">> \in set.changes)
            => Resizable(r, NewSpec(set))

ApplyChangeSet(s, set) ==
    /\ rooms' = [r \in Rooms |-> ApplyUnitChanges(set, r)]
    /\ Retire(rooms')
    /\ spec' = NewSpec(set)
    /\ sets' = [sets EXCEPT ![s] = ClosedSet]

---------------------------------------------------------------------------
(* The landlord stages changes.                                            *)

\* createRoomType and updateRoomType: assertDistinctRoomTypeDescription locks
\* the property before getOrCreateDraft.
TypeBegin(p) ==
    /\ "type" \in Ops
    /\ PropertyFree(p)
    /\ \E n \in 1 .. MaxBeds :
        Begin(p, [NoRequest EXCEPT !.op = "type", !.pc = "set", !.capacity = n])
    /\ propertyLock' = p
    /\ UNCHANGED <<table, visits, setLock>>

\* createRoom and bulkCreateRooms.
CreateBegin(p) ==
    /\ "create" \in Ops
    /\ TypeExists
    /\ \E r \in Rooms : Begin(p, [NoRequest EXCEPT !.op = "create", !.pc = "set", !.room = r])
    /\ UNCHANGED <<table, visits, locks>>

\* updateRoom and batchUpdateRooms, for a room that is there.
UpdateBegin(p) ==
    /\ "update" \in Ops
    /\ TypeExists
    /\ \E r \in Rooms :
        Live(r) /\ Begin(p, [NoRequest EXCEPT !.op = "update", !.pc = "set", !.room = r])
    /\ UNCHANGED <<table, visits, locks>>

\* deleteRooms, for a room that is there: the check comes before the lock.
ArchiveBegin(p) ==
    /\ "archive" \in Ops
    /\ \E r \in Rooms :
        /\ Live(r) /\ Vacant(r)
        /\ Begin(p, [NoRequest EXCEPT !.op = "archive", !.pc = "set", !.room = r])
    /\ UNCHANGED <<table, visits, locks>>

Staging == {"type", "create", "update", "archive"}

\* A row nobody refers to any more may as well be forgotten.
Forgotten(s) == sets[s] = ClosedSet /\ \A q \in Reqs : req[q].set # s

\* getOrCreateDraft, then whether the change applies at once.
GetOrCreateDraft(p) ==
    /\ req[p].op \in Staging /\ req[p].pc = "set"
    /\ SetFree(p)
    /\ \/ /\ \E s \in OpenSets : sets[s].status \in InReview
          /\ Refuse(p)
       \/ /\ \E s \in SetIds :
              /\ IF OpenSets = {} THEN Forgotten(s) /\ PropertyShareable(p)
                                  ELSE sets[s].status \in Editable
              /\ req' = [req EXCEPT ![p].pc = "write", ![p].set = s, ![p].managed = Managed]
          /\ setLock' = p
          /\ UNCHANGED <<table, visits, propertyLock>>

\* The set with the change of request q in it.
WithChange(set, q) ==
    LET others == {c \in set.changes : c[1] # q.room}
        changes == CASE q.op = "type" -> set.changes
                     [] q.op = "archive" -> others \cup {<<q.room, "archive">>}
                     [] OTHER -> set.changes \cup {<<q.room, q.op>>}
    IN  [status |-> "draft", changes |-> changes,
         capacity |-> IF q.op = "type" THEN q.capacity ELSE set.capacity]

\* assertRoomCodeAvailable, which createRoom asks after it has the lock.  (The
\* code of a room that is gone stays unused here; the next code stands for it.)
CodeAvailable(r) == rooms[r].state = "none" /\ ~Staged(r)

\* Rows of units refer to the property, whose row their insertion shares.
AddsRooms(set) == \E r \in Rooms : <<r, "create">> \in set.changes

\* The change, and applyIfManaged, which reads the property some time after the
\* lock is granted and applies the set without looking again.
StageWrite(p) ==
    LET q == req[p]
        set == WithChange(sets[q.set], q)
    IN  /\ q.op \in Staging /\ q.pc = "write"
        /\ \E managed \in {q.managed, Managed} :
            IF (q.op = "create" /\ ~CodeAvailable(q.room)) \/ (managed /\ ~Applicable(set))
            THEN Refuse(p)
            ELSE /\ IF managed
                    THEN (AddsRooms(set) => PropertyShareable(p)) /\ ApplyChangeSet(q.set, set)
                    ELSE sets' = [sets EXCEPT ![q.set] = set] /\ UNCHANGED <<rooms, stay, spec>>
                 /\ Stamp(IF q.op = "create" THEN {q.room} ELSE {})
                 /\ Finish(p) /\ UNCHANGED property

\* updateRoom, for a room that is only proposed: the set's status is read, and
\* the change is written with no lock on the set.
EditBegin(p) ==
    /\ "edit" \in Ops
    /\ \E s \in SetIds, r \in Rooms :
        /\ sets[s].status \in Editable /\ <<r, "create">> \in sets[s].changes
        /\ Begin(p, [NoRequest EXCEPT !.op = "edit", !.pc = "write", !.set = s, !.room = r])
    /\ UNCHANGED <<table, visits, locks>>

EditWrite(p) ==
    LET q == req[p]
        s == q.set
    IN  /\ q.op = "edit" /\ q.pc = "write"
        /\ \/ Refuse(p)
           \/ \E r \in Rooms :
                LET set == [sets[s] EXCEPT !.changes =
                              (@ \ {<<q.room, "create">>}) \cup {<<r, "create">>}]
                IN  /\ <<q.room, "create">> \in sets[s].changes /\ CodeAvailable(r)
                    /\ IF Managed /\ set.status = "draft"
                       THEN /\ SetFree(p) /\ (AddsRooms(set) => PropertyShareable(p))
                            /\ Applicable(set) /\ ApplyChangeSet(s, set)
                       ELSE sets' = [sets EXCEPT ![s] = set] /\ UNCHANGED <<rooms, stay, spec>>
                    /\ Stamp({r})
                    /\ Finish(p) /\ UNCHANGED property

\* deleteRooms, for a room that is only proposed: one statement.
Discard ==
    /\ "edit" \in Ops
    /\ \E s \in SetIds, r \in Rooms :
        /\ sets[s].status \in Editable /\ <<r, "create">> \in sets[s].changes
        /\ sets' = [sets EXCEPT ![s].changes = @ \ {<<r, "create">>}]
    /\ UNCHANGED <<property, rooms, stay, spec, visits, req, locks>>

---------------------------------------------------------------------------
(* The set is submitted, cancelled and reviewed.                           *)

\* A SELECT ... JOIN properties ... FOR UPDATE locks the set's row, then the
\* property's.
SetBegin(p) ==
    /\ \E s \in SetIds, op \in {"submit", "cancel", "approve"} \cap Ops :
        /\ sets[s].status \in Open
        /\ Begin(p, [NoRequest EXCEPT !.op = op, !.pc = "set", !.set = s])
    /\ UNCHANGED <<table, visits, locks>>

Expected(op) == IF op = "approve" THEN InReview ELSE Editable

LockSet(p) ==
    LET q == req[p]
    IN  /\ q.op \in {"submit", "cancel", "approve"} /\ q.pc = "set"
        /\ SetFree(p)
        /\ IF sets[q.set].status \in Expected(q.op)
           THEN /\ setLock' = p
                /\ req' = [req EXCEPT ![p].pc = "property"]
                /\ UNCHANGED <<table, visits, propertyLock>>
           ELSE Refuse(p)

LockProperty(p) ==
    /\ req[p].op \in {"submit", "cancel", "approve"} /\ req[p].pc = "property"
    /\ PropertyFree(p)
    /\ propertyLock' = p
    /\ req' = [req EXCEPT ![p].pc = "write"]
    /\ UNCHANGED <<table, visits, setLock>>

SetWrites(p, op) == req[p].op = op /\ req[p].pc = "write"

\* Slip: a set that also changes the room type is taken for a mere revision.
RequiresVisitRoomsOnly(set) ==
    property.intent = "list" /\ set.capacity = 0 /\ AddsRooms(set)

RequiresVisit(set) ==
    property.intent = "list" /\ AddsRooms(set)

Submit(p) ==
    LET s == req[p].set
        set == sets[s]
    IN  /\ SetWrites(p, "submit")
        /\ IF set.changes = {} /\ set.capacity = 0
           THEN Refuse(p)
           ELSE /\ sets' = [sets EXCEPT ![s].status =
                              IF RequiresVisit(set) THEN "visit_required" ELSE "pending_review"]
                /\ Stamp({"submitted"})
                /\ Finish(p) /\ UNCHANGED <<property, rooms, stay, spec>>

Cancel(p) ==
    /\ SetWrites(p, "cancel")
    /\ sets' = [sets EXCEPT ![req[p].set] = ClosedSet]
    /\ Finish(p) /\ UNCHANGED <<property, rooms, stay, spec, visits>>

Approve(p) ==
    LET s == req[p].set
        set == sets[s]
    IN  /\ SetWrites(p, "approve")
        /\ IF (set.status = "visit_required" /\ "submitted" \notin passed) \/ ~Applicable(set)
           THEN Refuse(p)
           ELSE ApplyChangeSet(s, set) /\ Finish(p) /\ UNCHANGED <<property, visits>>

\* One guarded UPDATE behind a lock on the set alone.
Reject ==
    /\ "review" \in Ops
    /\ setLock = None
    /\ \E s \in SetIds :
        /\ sets[s].status \in InReview
        /\ sets' = [sets EXCEPT ![s].status = "rejected"]
    /\ UNCHANGED <<property, rooms, stay, spec, visits, req, locks>>

---------------------------------------------------------------------------
(* Managed properties, and the switch between managing and listing.        *)

ApproveManagedBegin(p) ==
    /\ "manage" \in Ops
    /\ PropertyFree(p)
    /\ property.intent = "manage_only" /\ property.review # "approved"
    /\ Begin(p, [NoRequest EXCEPT !.op = "approveManaged", !.pc = "set"])
    /\ propertyLock' = p
    /\ UNCHANGED <<table, visits, setLock>>

\* createDeclaredRooms: only on a property that never had a room or room type.
DeclaredRooms ==
    IF TypeExists \/ \E r \in Rooms : rooms[r].state # "none" THEN {} ELSE Declared
DeclaredRoom == [NoRoom EXCEPT !.state = "live", !.capacity = 1, !.beds = 1]

\* Each open set but a rejected one is applied, once its row is free.
ApproveManaged(p) ==
    LET waiting == {s \in OpenSets : sets[s].status # "rejected"}
    IN  /\ req[p].op = "approveManaged"
        /\ \/ /\ waiting = {}
              /\ rooms' = [r \in Rooms |-> IF r \in DeclaredRooms THEN DeclaredRoom ELSE rooms[r]]
              /\ UNCHANGED <<sets, stay, spec>>
              /\ property' = [property EXCEPT !.review = "approved"]
              /\ Stamp(DeclaredRooms) /\ Finish(p)
           \/ /\ SetFree(p)
              /\ \E s \in waiting :
                  IF Applicable(sets[s])
                  THEN /\ rooms' = [r \in Rooms |-> IF r \in DeclaredRooms THEN DeclaredRoom
                                                    ELSE ApplyUnitChanges(sets[s], r)]
                       /\ Retire(rooms')
                       /\ spec' = NewSpec(sets[s])
                       /\ sets' = [sets EXCEPT ![s] = ClosedSet]
                       /\ property' = [property EXCEPT !.review = "approved"]
                       /\ Stamp(DeclaredRooms) /\ Finish(p)
                  ELSE Refuse(p)

RejectManaged ==
    /\ "manage" \in Ops
    /\ propertyLock = None
    /\ property.intent = "manage_only" /\ property.review = "pending"
    /\ property' = [property EXCEPT !.review = "rejected"]
    /\ UNCHANGED <<sets, rooms, stay, spec, visits, req, locks>>

\* setListingIntent, the landlord's and the staff's: first the property's row.
IntentBegin(p) ==
    /\ "intent" \in Ops
    /\ PropertyFree(p)
    /\ \E to \in {"list", "manage_only"} :
        Begin(p, [NoRequest EXCEPT !.op = "intent", !.pc = "set", !.intent = to])
    /\ propertyLock' = p
    /\ UNCHANGED <<table, visits, setLock>>

\* dropVisitRequirement.
DropVisitRequirement ==
    [s \in SetIds |-> IF sets[s].status = "visit_required"
                      THEN [sets[s] EXCEPT !.status = "pending_review"] ELSE sets[s]]

\* enforce_listing_intent_change stamps a return to listing.
SetListingIntent(p) ==
    LET to == req[p].intent
    IN  /\ req[p].op = "intent"
        /\ IF to = "manage_only"
           THEN /\ (\E s \in SetIds : sets[s].status = "visit_required") => SetFree(p)
                /\ sets' = DropVisitRequirement
                /\ UNCHANGED visits
           ELSE /\ UNCHANGED sets
                /\ IF property.intent = "list" THEN UNCHANGED visits ELSE Stamp({"listed"})
        /\ property' = [property EXCEPT !.intent = to]
        /\ Finish(p) /\ UNCHANGED <<rooms, stay, spec>>

---------------------------------------------------------------------------
(* What goes on around the service.                                        *)

Quiet == req = [p \in Reqs |-> NoRequest]

\* An inspector passes the property as it stands and as proposed.  A visit
\* takes hours, so no request spans one.
CompleteVisit ==
    /\ "visit" \in Ops
    /\ Quiet
    /\ awaiting' = {"listed", "submitted"} \cup {r \in Rooms : Live(r) \/ Staged(r)}
    /\ UNCHANGED <<table, passed, req, locks>>

ApproveVisit ==
    /\ "visit" \in Ops
    /\ Quiet /\ awaiting # {}
    /\ passed' = passed \cup awaiting
    /\ awaiting' = {}
    /\ UNCHANGED <<table, req, locks>>

\* A student, or the intake, finds the bed not blocked; whether the room is
\* archived is not asked.  (Of several who are after one bed the index lets one
\* through, so each is after a bed of its own here.)
ClaimBed(r) ==
    LET it == stay[r]
    IN  /\ "stay" \in Ops
        /\ it.coming + it.taken < rooms[r].beds
        /\ it.coming + it.taken + it.comingRetired + it.takenRetired < MaxClaims
        /\ stay' = [stay EXCEPT ![r].coming = @ + 1]
        /\ UNCHANGED <<property, sets, rooms, spec, visits, req, locks>>

\* The reservation is inserted and committed; neither the bed nor the room is
\* looked at again.
TakeBed(r) ==
    /\ \/ /\ stay[r].coming > 0
          /\ stay' = [stay EXCEPT ![r].coming = @ - 1, ![r].taken = @ + 1]
       \/ /\ stay[r].comingRetired > 0
          /\ stay' = [stay EXCEPT ![r].comingRetired = @ - 1, ![r].takenRetired = @ + 1]
    /\ rooms' = [rooms EXCEPT ![r].used = TRUE]
    /\ UNCHANGED <<property, sets, spec, visits, req, locks>>

\* A claim is refused or rolled back, or a reservation comes to its end.
LeaveBed(r) ==
    /\ \E kind \in DOMAIN NoStay :
        stay[r][kind] > 0 /\ stay' = [stay EXCEPT ![r][kind] = @ - 1]
    /\ UNCHANGED <<property, sets, rooms, spec, visits, req, locks>>

\* A connection breaks, and the transaction with it.
Fail(p) == req[p] # NoRequest /\ Refuse(p)

\* PostgreSQL ends a transaction that waits for one that waits for it.
WaitsForProperty(p) ==
    \/ req[p].pc = "property"
    \/ /\ req[p].op \in Staging /\ req[p].pc = "write"
       /\ AddsRooms(WithChange(sets[req[p].set], req[p]))
WaitsForSet(q) ==
    \/ req[q].op = "type" /\ req[q].pc = "set"
    \/ req[q].op = "approveManaged"
    \/ req[q].op = "intent" /\ \E s \in SetIds : sets[s].status = "visit_required"
DeadlockVictim(p) ==
    /\ setLock = p /\ WaitsForProperty(p)
    /\ \E q \in Reqs \ {p} : propertyLock = q /\ WaitsForSet(q)
    /\ Refuse(p)

---------------------------------------------------------------------------
RoomsInit ==
    /\ property \in [intent : {"list", "manage_only"}, review : {"pending"}]
    /\ sets = [s \in SetIds |-> ClosedSet]
    /\ rooms = [r \in Rooms |-> NoRoom]
    /\ stay = [r \in Rooms |-> NoStay]
    /\ spec = 0
    /\ passed = {} /\ awaiting = {}
    /\ req = [p \in Reqs |-> NoRequest]
    /\ propertyLock = None /\ setLock = None

\* Steps of a request that go on without its caller.
RoomsWork(p) ==
    \/ GetOrCreateDraft(p) \/ StageWrite(p) \/ EditWrite(p)
    \/ LockSet(p) \/ LockProperty(p) \/ Submit(p) \/ Cancel(p) \/ Approve(p)
    \/ ApproveManaged(p) \/ DeadlockVictim(p)

RoomsCalls(p) ==
    \/ TypeBegin(p) \/ CreateBegin(p) \/ UpdateBegin(p) \/ ArchiveBegin(p)
    \/ EditBegin(p) \/ SetBegin(p) \/ ApproveManagedBegin(p) \/ IntentBegin(p)

RoomsAround ==
    \/ Discard \/ Reject \/ RejectManaged \/ CompleteVisit \/ ApproveVisit
    \/ \E r \in Rooms : ClaimBed(r) \/ TakeBed(r) \/ LeaveBed(r)

---------------------------------------------------------------------------
(* What room management promises.                                          *)

\* A room has as many beds as it says, and says what its room type says,
\* whichever of several paths resized it last and whichever change set a
\* landlord, a reviewer and the approval of the property applied it from; and
\* a smaller capacity retires no bed whose reservation has been committed when
\* the beds are looked for (resizeBeds, applyUnitChange).  A reservation that
\* commits just after that keeps a retired bed, and is not counted in taken.
BedsMatchCapacity ==
    \A r \in Rooms :
        /\ rooms[r].beds = rooms[r].capacity /\ stay[r].taken <= rooms[r].beds
        /\ Live(r) /\ rooms[r].typed => rooms[r].capacity = spec
============================================================================
