# Campus-Homes: verification project

Campus-Homes lists student hostels around Ugandan campuses. Landlords put
properties up, Campus-Homes staff inspect and publish them, students hold and
book beds, and landlords confirm payment and move-in outside the app. One
NestJS API (`src/apps/api`) on PostgreSQL and Redis serves one Next.js web
application (`src/apps/web`). This directory holds TLA+ models of that code, the
TLC runs that check them and the TLAPS proofs about them.

Contents: [1 inventory](#1-inventory) · [2 modules](#2-the-modules) ·
[3 runs](#3-the-runs) · [4 fairness](#4-fairness) · [5 proofs](#5-the-proofs) ·
[6 findings](#6-where-the-code-and-its-words-disagree) ·
[7 left out](#7-what-is-not-modelled) · [8 plan](#8-plan)

Abbreviations: RS = `reservations.service.ts`, JM = `jobs.module.ts`, OPS =
`ops.service.ts`, RM = `room-management.service.ts`, AU =
`admin-users.service.ts`, IV = `invitations.service.ts`, RA =
`role-assignment.service.ts`, CR = `calendar-reminders.ts`, all under
`src/apps/api/src/modules`; FM = `inspection-form.tsx`, SY = `sync-manager.ts`,
DB = `inspection-db.ts`, under `src/apps/web/src`.

## 1 Inventory

How the parts run. Every HTTP handler that touches data runs its body in one
PostgreSQL transaction (`RlsDb.run`, `db/rls-context.ts:22-58`) under the
caller's row-level-security context. The isolation level is never set, so it is
READ COMMITTED: each statement sees what was committed when *it* began, an
UPDATE waits for a row another transaction has written, and only the unique
indexes, `FOR UPDATE` clauses, advisory locks and triggers the code names keep
two handlers apart. Sessions are rows of PostgreSQL; Redis holds short locks and
sign-in attempts, BullMQ on Redis delayed jobs, and several API instances may run.

| Component | State | Operations | Interacts with | What is hard | What makes it correct |
|---|---|---|---|---|---|
| **Reservations** (RS, JM) | `reservations`, `payment_receipts`, `move_ins`, `reservation_releases`; Redis bed mutex; expiry jobs | reserve, book, release, cancel, requestBooking, confirmMoveIn, recordPayment, expiry job, minute sweep | intake (same write path), rooms (beds), notifications | READ COMMITTED interleavings on one row; unlocked read then update by id; two orders of the same locks; the mutex that times out; a job lost between commit and enqueue | a bed has one live claim; a student keeps to their limits; a status only moves along the lifecycle; money stays within the rent; holds end |
| **Tenant intake and assignment requests** (RS 287-895, `tenant-import.ts`) | `tenant_assignment_requests`, intake keys | walk-in, recorded tenant, offer, accept, decline | reservations, accounts | counts taken by transactions that have not committed; an answer that is a whole booking and may be refused at its end; an offer that runs out | an accepted offer and its reservation stand or fall together; few offers wait |
| **Verification visits and offline inspection** (OPS 235-676, FM, SY, DB) | `verification_visits`; drafts in the inspector's IndexedDB | schedule, capture, sync, correct, approve | photo store, publication | a sync loop that runs next to itself; tabs closed mid-upload; copies of one draft in form, autosave and loops; an approval between the check and the write | a checklist travels with its photos; "synced" is true; an approved visit stays what was approved |
| **Listing publication** (OPS publishListing, `0001`/`0076` triggers) | `listings`, `listing_photos`, `rooms`, `beds` | create, publish, switch between listing and manage-only | visits, strikes, rooms | reads without a lock before a write behind triggers; several transactions in one handler | what is listed may be listed, and every room shown was seen |
| **Strikes and suspension** (OPS issueStrike, `0001` triggers) | `strikes`, `landlords`, `listings` | issue | publication | a trigger that counts what is committed | three strikes suspend |
| **Room inventory changes** (RM) | change sets, `units`, `beds`, room types | stage, edit, submit, cancel, approve, reject, approve a managed property, block a bed | visits, publication, reservations | one open set per semester; two orders of two row locks; sizes given as differences; beds looked for without a lock and retired by id | a room has the beds it says; a bed that is reserved when it is looked for is not retired; every request is answered |
| **Identity provisioning, invitations, roles** (`auth/provisioning`, IV, RA) | `users`, `user_role_assignments`, `auth_invitations` | first sign-in, link, invite, change, cancel, accept, grant, revoke | identity provider, deletion | invitations, grants, links and deletions of one person at once, behind different locks | one kind of role; only an invitation makes staff |
| **Sessions and sign-in** (`auth/session.store`, `auth-transactions`, web `idle-timeout.ts`) | table `sessions`; sign-in attempts in Redis; browser tabs | begin, callback, touch, expire, sign out | provisioning | several tabs, one session | an attempt is used once; idle ends the session |
| **Accounts and deletion** (AU) | `users`, `deleted_auth_identities` | create, suspend, delete, retry | identity provider | the provider fails or the process stops half-way; a sign-in during the deletion | a deletion reaches the provider, and is not undone |
| **Management mandates** (`management/*`) | engagements, teams | engage, assign, revoke | who may act on a property | all behind one advisory lock, but for the revocation of a role | one active mandate per property |
| **Calendar reminders** (CR) | `calendar_events.reminders_sent` | create, update, remove; read, claim, mail, hand back | email | several API instances; a stop after the claim; an event that moves meanwhile | at most once, and in the end |
| **Chat and presence** | messages, marks | send, poll, read | | delivery marks against heartbeats | marks only move forward |
| **Inquiries and leads**, **ledger**, **tenant agreements**, **landlord ratings**, **uploads**, **notifications and audit**, **dashboards and exports**, **RLS policies**, **phase-2 payments**, **web pages** | see `PROJECT.json` | | | little or nothing interleaves | |

`PROJECT.json` lists every component with its files and, under `hazards`, every
place found so far where the code is hard to test, at the line where it bites.

## 2 The modules

| Module | What it is |
|---|---|
| `Reservations` | the reservation handlers and jobs, one action per statement that can be told apart |
| `Tenancies` | the promise: the same life of a bed, one indivisible step per request |
| `ReservationsInv` | the inductive invariants: `IInv` (locks), `LimitInv` (a student's rooms), `PromiseInv` (requests that go on) |
| `ReservationsProofs`, `LimitsProofs`, `PromiseProofs` | theorems and proofs: beds and money; what each statement does to a student's rooms; the refinement of `Tenancies` |
| `Assignments`, `AssignmentsProofs` | offers of beds to students who have an account; EXTENDS `Reservations`, whose intake an acceptance is |
| `Inspections`, `InspectionsProofs` | one verification visit: form, draft, sync loops, server |
| `Rooms` | change sets of one property's rooms, and what approving them does |
| `Listings`, `ListingsProofs` | publishing, standing and strikes; EXTENDS `Rooms` |
| `Identities`, `IdentitiesProofs` | people: accounts, roles, invitations, sign-ins, deletions |
| `Reminders`, `RemindersProofs` | the reminder job and the owner of an event |
| `MCReservations`, `MCAssignments`, `MCInspections`, `MCListings`, `MCIdentities`, `MCReminders` | constants for TLC |

### Reservations

*State.* `res` is the `reservations` table with a row named by its idempotency
key (the column is unique): status, student, bed, whether the hold's window has
passed (`due`, the only thing the code asks of `reserved_expires_at`), and the
booking money (`booking_fee_ugx`). `paid` is the sum of a row's receipts, `rent`
its rent receipts by payment key, `moveIns` and `releases` their tables,
`asked` the notifications a booking request sent, `job` the BullMQ queue,
`redisLock` the bed mutexes. `tx` is what each request or worker in flight is
doing: the statement it has reached and what it carries from the ones before.

*Locks* are not state of their own. Which transaction holds the student's
advisory lock, the bed's row lock, a reservation's row lock or an uncommitted
index entry follows from the statement it has reached (`HoldsStudent`,
`HoldsBed`, `HoldsRow`, `HoldsSlot`), because PostgreSQL gives all of them up at
the end of the transaction. A statement that must wait is an action whose
guard is false until the other transaction has ended.

*Actions and code.*

| Action | Code |
|---|---|
| `ReserveStart` | RS reserve: Redis `SET NX`, replay by key, lock-in check |
| `ReserveSweep`, `ReserveLimits`, `ReserveInsert`, `ReserveCommit` | the four statements of its transaction: expire overdue holds, advisory lock and student rules, insert into the unique indexes, foreign keys and COMMIT |
| `ReserveAfter` | audit record, delayed job, and the `finally` that deletes the Redis key |
| `IntakeStart` .. `IntakeInsert` | bookInTransaction with an `intake`: bed `FOR UPDATE`, sweep of that bed, student rules, insert, receipt, move-in |
| `BookRead`/`BookWrite`, `CancelRead`/`CancelWrite`, `ReleaseRead`/`ReleaseWrite`, `AskRead`/`AskWrite` | the handlers that read without a lock and update by id |
| `ExpireRead`/`ExpireWrite` | the `reservation_expiry` worker |
| `MoveInRead`/`MoveInWrite`, `PayRead`/`PayWrite` | the handlers that read `FOR UPDATE` |
| `Sweep` | the every-minute `UPDATE` |
| `HoldEnds`, `LockTimesOut` | time: a hold's window, the Redis key's ten seconds |
| `Fail` | a lost connection, process or failed audit write at any statement |
| `DeadlockVictim` | PostgreSQL's deadlock detector |

*What is abstracted.* Times become the flag `due`. Room, property and category
become `RoomType`; semesters become `LongStay`. A caller is always authorised
and a bed always eligible (active listing, not blocked): those checks read other
tables and refuse before anything is written. A request refused before its
first write leaves no trace and is no action. The profile snapshot, receipts'
files, wording, notifications other than the landlord's booking request, the
mode without Redis and the receipts older than migration `0075` are left out.

### Tenancies

The abstract specification: `Take`, `Cancel`, `MoveIn`, `Pay` and `Expire`, each
one step. `Reservations` implements it (property `Serializable`) when `book`,
`release` are out of play. What the other handlers decided on is locked, guarded or
indexed, or is a hold that can only have ended meanwhile, and `Cancel` allows for
that. It does not implement it with `book` or `release`; section 6 shows why. The
run `promise` shows it on an instance, `RequestsAreSerializable` for every one.

### Inspections

*State.* On the device: `stored`, the draft in IndexedDB; `form`, the copy in the
open form's React state; `timer`, the copy the 300 ms autosave will put;
`reread`, whether the form is about to read the store again; and `loop`, what
each run of `syncQueuedDrafts` is doing with the copy it read. Under way:
`requests`, each with the loop that still waits for it. On the server: `visit`,
the row of `verification_visits`; `fixer`, the requests that resolve a
correction, with the row they read; `visits` and `lead`, for the assignment. A
draft or a row is its status, its idempotency key, its edition of the checklist
(a number that grows with every change), the photos it still has to upload and
those it has uploaded. A loop holds two drafts: `d` is syncOne's `current`, `up` is
uploadPendingPhotos' own, which becomes syncOne's only when that function
returns (SY 13, 75). `album` is a history: the photos the form showed in each edition.

*Steps.* The device runs one JavaScript thread, so an action is the code between
two awaits; the server's is one statement of a READ COMMITTED transaction.
Nothing keeps two loops apart, and nothing keeps a loop from outliving the form.

| Action | Code |
|---|---|
| `OpenForm`, `Edit`, `Autosave`, `Submit`, `RetrySync`, `ReopenForEdit`, `Reread` | FM: the mount effect, `persist` and its callers, `submit`, `retrySync`, `reopenForEdit`, the settled event |
| `CloseTab`, `OtherDevice` | a reload or a closed tab; a device or browser without the draft |
| `LoopRead`, `LoopStart` | SY syncQueuedDrafts, and syncOne putting the draft as `syncing` |
| `Changes` | FM addPhotos (any number of new files), removePhoto, removeUploadedPhoto, or a change of the answers; each is an edition, at any time before the draft is synced |
| `UploadPhoto` | uploadPendingPhotos: one upload, and the put that records it |
| `PostChecklist`, `Post` | what the uploads return, toSyncPayload and the POST |
| `SyncAnswered`, `SyncInterrupted`, `SyncDropped` | syncOne's outcome, by what was thrown: nothing or a 409; a TypeError, 401, 429 or 5xx; a plain Error (storageFetch) or a DOMException (timeout). What is put is `d`: while photos are uploaded, the draft as it was before them (SY 92) |
| `SyncVisitRead`, `SyncVisitWrite` | OPS syncVisit: key known, approved or not; then the update by id |
| `ApproveVisit` | OPS approveVisit |
| `ResolveRead`, `ResolveWrite` | OPS resolveVisitCorrection: the row read, and the whole checklist written back by id; neither asks whether a correction is open, or the visit submitted or approved |
| `ScheduleRead`, `ScheduleInsert` | OPS scheduleVisit |
| `Lost` | a request that never arrives |

*What may happen* is the constant `Ops`, so that a run can say under which
disturbances a property holds: `touch` (the form is used while its draft is in
flight), `late` (a POST may still be on its way when the next is sent), `drop`
(failures that are no TypeError), `crash`, `device`, `reopen`, `approve`,
`correct`.

*What is abstracted.* One visit: other drafts on the device only delay it. The
checklist is its edition number; `Edit` leaves it complete, because `canSubmit`
refuses less. Photos are a set; their order, category and label are left out, and
the change of one is a change of the checklist. `MaxPosts` bounds the POSTs under
way at once; two identical requests nobody waits for are one. The rows of
`visit_corrections` (raiseVisitCorrection, and resolveVisitCorrection's second
transaction) are left out: no handler modelled here decides on them. So are
authorisation, the GPS checks and the coordinates approval copies to the
property, the photos a correction may add, and 4xx answers other than the 409
and the refusal of a checklist without photos (`Parsed`).

### Assignments

*State.* `offers` is `tenant_assignment_requests` by idempotency key: status,
student, bed, fee, moved-in flag, and whether it has run out (`expired`, what the
code asks of `expires_at`). `desk` says which statement of an offer or an answer
a request has reached, beside `tx`.

| Action | Code |
|---|---|
| `OfferStart`, `OfferBed`, `OfferCount`, `OfferInsert` | RS requestTenantAssignment: replay, bed `FOR UPDATE` and sweep; live claim on it; the advisory lock and the count of waiting offers; insert and COMMIT |
| `OfferExpires` | time: no statement, the row stays pending and `expires_at` is compared where it is read (RS 835, 860, 871) |
| `AcceptRead` | RS respondTenantAssignment: the offer `FOR UPDATE`; from there the intake of `Reservations` runs under the offer's key, and `CarryOn` commits both |
| `DeclineRead`, `DeclineWrite` | the other answer |
| `BreaksOff` | a refusal, failure or deadlock of the transaction: the offer stays as it was |

*What is abstracted.* A student is found by contact beforehand. The price is fixed:
RS 884 compares it with the offered one and bookInTransaction reads it again, so
a change of price between the two books at a price nobody agreed to; that needs
a price as state and is left out. A batch is its entries, one by one.

### Rooms and Listings

*State.* One property, one semester, one room type. `sets` holds the rows of
`room_inventory_change_sets` with their changes (a pair of a room and what is
done to it) and the capacity of the pending version of the room type; `rooms`
the `units` with the column `capacity` and the number of beds beside it, which
the code keeps apart; `spec` the approved capacity of the type. `stay` counts the
reservations of a room's beds: those that live and those on their way, and of
either the ones whose bed was retired since they looked at it. `passed` and
`awaiting` say what a visit was completed after, approved or still waiting for
the lead: the last switch to listing (`"listed"`), the submission of the open
set (`"submitted"`), the birth of a room. `listing` is the listing's status,
`landlord` the standing and strikes. `propertyLock` and `setLock` are the two row
locks requests fight over; what else a request knows is in `req`.

| Action | Code |
|---|---|
| `TypeBegin`, `CreateBegin`, `UpdateBegin`, `ArchiveBegin`, `GetOrCreateDraft`, `StageWrite` | RM createRoomType/updateRoomType, createRoom, updateRoom, deleteRooms: the open set found, locked or inserted, then the change |
| `EditBegin`, `EditWrite`, `Discard` | RM stageRoomUpdate of a room that is only proposed, whose set was read without a lock; deleteRooms of one |
| `SetBegin`, `LockSet`, `LockProperty`, `Submit`, `Cancel`, `Approve`, `Reject` | RM submitChangeSet, cancelChangeSet, approveChangeSet, rejectChangeSet |
| `ApplyChangeSet`, `Resize`, `Create`, `DropVisitRequirement` | applyRoomTypeVersion, applyUnitChange, resizeBeds; `visit-requirement.ts` |
| `Retire`, `Hits` | resizeBeds looks for beds with no live reservation and retires them by id: every choice of how many of them reservations on their way are after |
| `ApproveManagedBegin`, `ApproveManaged`, `RejectManaged`, `IntentBegin`, `SetListingIntent`, `SwitchIntent` | the way of a managed property, and the switches |
| `CompleteVisit`, `ApproveVisit` | what `Inspections` tells in detail, as two steps |
| `ClaimBed`, `TakeBed`, `LeaveBed` | what `Reservations` does to a bed: it is found not blocked (RS 189-197); the reservation is inserted and committed, with no second look; it is refused, rolled back, or ends |
| `CreateDraftListing`, `DeleteRemovedUnits`, `PublishRead`, `PublishWrite` | OPS createDraftListing; publishListing's own transaction, its unlocked reads, and its write behind `ListingGuard`, the two triggers |
| `DecideStanding`, `IssueStrike` | OPS decideKyc and account status; issueStrike and its trigger under the rights it runs with |
| `Fail`, `DeadlockVictim` | any failure; PostgreSQL's detector when one waits for the property and the other for the set |

*What is abstracted.* A room stands for its code; labels, prices and photos are
left out, and so are rooms of other types. A request's writes are one step at its
end, where it holds the locks it takes; what it read before without a lock is a
step of its own. Beds that are looked for and then retired, or a room that is looked
at and then archived, are that one step, too: what may commit in between is a
reservation, and one that does is on its way before the step (`ClaimBed`) and
committed after it (`TakeBed`). Of several who are after one bed the unique index
lets one through (`Reservations`), so each is after a bed of its own here.

### Identities

*State.* `accounts` are rows of `users` with the identity linked to them, their
contacts, whether they are active (one flag for the statuses) and their active
role assignments; `invitations` the pending invitation to an address; `tombstones`
the rows of `deleted_auth_identities`; `provider` the identities that exist at
the provider; `attempts` the sign-in transactions nobody has used; `sessions`;
and `req`, what a request has reached and carries. Locks follow from `req`
(`HoldsSubject`, `HoldsContact`, `HoldsInvitation`, `HoldsAccount`).

| Action | Code |
|---|---|
| `CallbackRead`, `Consume`, `LockIdentity`, `ReadOffer`, `Provision`, `CreateSession` | the callback: the attempt deleted from Redis, the advisory locks on subject and contacts, the invitation `FOR UPDATE`, the account found, linked or made with what it is granted, the session |
| `Grant`, `Revoke`, `EnrollRead`, `EnrollWrite` | RA assignRole, revokeRole, deactivateStaff; the property manager's enrolment, with its unlocked read |
| `Invite`, `Renew`, `CancelInvitation`, `InvitationExpires` | IV invite, update and retry, cancel, and the day an invitation lasts |
| `CreateUnclaimed`, `SetStatus` | AU create, update |
| `DeleteRead`, `DeleteLock`, `DeleteRow`, `DeleteCascade` | AU deleteUser: the subject read, its lock, the row `FOR UPDATE`, the cascade with the record |
| `DeleteIdentity`, `RecordDeletion` | the provider deletes; the record is closed, by the request or the minute's retry |
| `SignUp`, `StartSignIn`, `SessionEnds`, `Fail`, `DeadlockVictim` | the rest of the world |

*What is abstracted.* The subject and the intent of an attempt are chosen when its
tokens are exchanged. A pending invitation is its role. An identity's contacts
do not change.

### Reminders

*State.* One event: on (to be reminded of, not done, owner active), its start, how
near the start is (`before`, counted in offsets), the offsets marked as `sent`,
and how often it was moved (`edition`, history). `runs` is what each run of the
job carries; `mailed`, `lost` and `strayed` are histories.

| Action | Code |
|---|---|
| `ReadDue`, `Claim`, `Deliver`, `MailFails`, `Release` | CR run: `SELECT` and dueReminder, the guarded `UPDATE`, deliver, the hand-back |
| `Crash` | an API instance stops |
| `Move`, `Switch` | calendar.service update with and without a new start, remove |
| `TimePasses` | the next offset's time comes |

A mail counts as sent or failed; one that is sent and reported as failed would be
sent again, and no code could know better.

## 3 The runs

Every run sets `CHECK_DEADLOCK FALSE`: idempotency keys, change sets, attempts
and moves are finite in a model, and when they are used up and nothing is in
flight the system may rest.

| Run | Question | Instance |
|---|---|---|
| `promise` | Does every interleaving of the guarded handlers do what indivisible requests would (`Serializable`)? Can a bed have two live claims, or two instalments exceed the rent? Is `PromiseInv` an invariant? | two students, one bed, two requests at once, two holds and an intake, two payment keys, rent 2, fee 0 or 1, failures, time |
| `progress` | Is an overdue hold freed, and does every request end? Is `IInv` an invariant? | one hold and one intake, every handler that takes a bed, failures; no symmetry |
| `limits` | Can one student's racing requests, or theirs and a landlord's, exceed `MAX_ACTIVE_RESERVATIONS` or hold two rooms of one type? Is an accepted offer the reservation it was to be, and do few wait? Is `LimitInv` an invariant? | one student, three beds of two types, one on a long stay, a hold and two offers, limit 2, one waiting offer allowed |
| `crossing` | Can loops, tabs, devices, late answers and corrections that cross part an edition of the checklist from its photos? Is `PhotosInv` an invariant? | two loops, two POSTs at once, one photo that is added and removed, two editions, one correction, one key; a form in use all along |
| `one_loop` | Is "synced" true? How can a recorded upload be forgotten? Does a submitted draft stay on the device for ever? | one loop, fair, batches of two photos, two editions, three keys; every failure, crashes, another device, reopening, approval; no symmetry |
| `catalogue` | Is a room shown that no visit saw, or a property listed that may not be? | two requests, one room, one set, one bed, no reservations (publishing does not ask for them); every handler that matters to publishing, visits, switches, strikes |
| `inventory` | Do beds match capacities while sets are staged, edited, applied and cancelled, with reservations on their way, committed and ended? Is every request answered, with two orders of locks? | two requests, one declared room, one set, up to two beds, up to two reservations; no symmetry |
| `people` | Does an account get two kinds of role, a cancelled invitation make staff, an attempt let two callbacks in? Does every request end and every deletion reach the provider? | two requests, two attempts, one identity with one address, one account row, two staff and two consumer roles; no symmetry |
| `reminders` | Does a reminder go out twice, or is one forgotten? | two runs, two offsets, one move; failing mails, stops, an owner who changes their mind; no symmetry |
| `only_forward`, `visit_overwritten`, `recreated` | three statements of the code's own comments and texts that its behaviour violates | the smallest instance that shows it |

*Why the bounds are enough.* A conflict in this code is between two transactions
over one row, one bed, one student or one lock; a third in flight only adds more
of the same pairs, and the invariants whose proofs have no bounds at all relate
pairs. Three keys give a bed a past (expired, cancelled), a present and a
challenger. Two payment keys are two instalments that fit alone and not
together; rent 2 with fees 0 and 1 makes the fee matter. In `limits` three beds
are one more than the limit, two of them of one type and one counted otherwise,
and two offers are one more than may wait. In the inspection runs two loops are
the fewest that can hold different copies, two POSTs the fewest that can arrive
in the wrong order, and two editions and keys the fewest with an older and a
newer submission. In `crossing` one photo is enough for a loss: it is in an
edition or not, uploaded or not, in every copy; batches are the matter of `one_loop`,
where two photos are the fewest of which one is up when the other fails.
`one_loop` leaves out `touch` and `late` on purpose (section 6).
One change set is enough for any number: only one is open at a time, and a closed
one is forgotten as soon as nobody refers to it and may be opened anew. One room
goes through every state a room can be in; what two rooms do to each other is the
set they are in, whose status the other cannot change. Two beds are the fewest
with a difference to add twice, and two reservations the fewest of which one is
committed and one on its way when a bed is retired. One account row stands empty, is made, deleted and
made again, by two sign-ins of one identity; with two accounts the run does not
finish in five minutes, and the proofs cover any number. Two offsets are the
fewest that can be due together or one after the other, and one move the fewest
that leaves a run with an old claim.

Every property of a passing run has a mutant (`PROJECT.json`): a plausible slip
in the code, kept in the module under a comment that begins with "Slip", with
which TLC finds the property violated.

## 4 Fairness

`FairSpec` assumes strong fairness of `Proceed(p)`, a request that was accepted
and is waiting or working: PostgreSQL queues lock waiters first come first
served, so a waiter whose lock is free again and again gets it, and the Node
process keeps running what it started. Strong fairness of `Sweep`: the job runs
every minute, and its `UPDATE` queues for the rows it must wait for. Weak
fairness of `LockTimesOut`: the Redis key has a ten-second expiry. Nothing is
assumed of students, landlords, time, failures or the delayed job: in
particular the job may never be queued, which is what the sweep is for.

In `Inspections`, `FairSpec` assumes of each loop strong fairness of its steps:
the 30 s interval starts loops for ever, the browser runs what it started, and a
network that fails again and again lets a step through again and again (a
permanent failure would be no sync at all); strong fairness of the server's
answer to a request a loop waits for, and weak fairness of the others; weak
fairness of `GiveUp`: `fetch` has a 15 s timeout. Nothing is assumed of the
inspector, the lead, the autosave or the tab. `DraftSettles` has a premise of its
own: from some time on no batch breaks off after some of its photos (`BatchLost`).
Without it TLC shows a draft in flight for ever, although each upload goes through
again and again: a batch that fails at its second photo starts at its first (section 6).

In `Listings` and `Identities`, `FairSpec` assumes strong fairness of each
request's steps, `Work(p)`: a request that began goes on, and PostgreSQL grants
row and advisory locks in the order they were asked for. A deadlock ends because
`DeadlockVictim` is among these steps: the detector runs after a second. In
`Identities` the minute's retry (`Cleanup`) is weakly fair: nothing disables it
but having nothing to do. Nobody has to make a request, and `Fail` is never fair.

In `Reminders`, weak fairness of `ReadDue` (the job runs every minute) and strong
fairness of a run's further steps, of which that of `Deliver` is an assumption
about the mail server: of mails tried again and again one is delivered.

Elsewhere liveness is stated as `[]<>`: again and again, nothing is left to do. A
`~>` would be discharged by a request that fails, and says no more there.

## 5 The proofs

`ReservationsProofs` proves for every value of the constants

- `Inductive`: `Spec => []IInv`
- `TypeCorrect`: `Spec => []TypeOK`
- `NeverDoubleBooked`: `Spec => []OneLiveClaimPerBed`
- `InstalmentsFit`: `Spec => RentFitsBalance`
- `OnlyUnlockedWritesGoBack`: `Spec => [][(\A k \in Keys : Forward(k)) \/ \E p \in Procs : WritesById(p)]_vars`
- `OthersOnlyForward`: `{"book", "cancel", "release", "job"} \cap Ops = {} => (Spec => OnlyForward)`

from the named assumptions of `Reservations` (key sets disjoint, `None` not a
value, amounts natural numbers).

*The argument.* `OneLiveClaimPerBed` is not inductive: between the check of the
unique index and the COMMIT the new row is nowhere in `res`. The invariant
therefore says what a transaction may rely on while it holds its locks:
`SlotIsMine` (an uncommitted insert has its bed and key to itself, and the
only live rows on the bed are holds it is about to expire itself),
`LockedRowsHold` (a row this transaction expired but has not committed is still
an overdue hold; a row locked by a move-in or a payment still has the status and
the balance it was read with), `RowLocksExclude`, `IntakeKeyIsMine` and
`TxCarries`. Each action has a lemma `<Action>Keeps`. The four update-by-id
handlers share `RowWriteKeeps`: whatever such a handler does to a row it has
waited for, no other transaction relied on that row; this is also where one
sees that nothing but the index protects the bed when `book` writes.
`CommitKeeps` covers the two inserts. `InstalmentsFit` needs `LockedRowsHold`:
the balance read under `FOR UPDATE` is the balance at the write.
`OnlyUnlockedWritesGoBack` has no condition: whatever is in play, a step that
cancels or expires a booking, puts out a tenant or revives what ended is one of
the four updates by id after an unlocked read. `OthersOnlyForward` is its reading
when those four do not run. Together they say where finding 1 of section 6 ends:
the sweep, the intake, move-ins, payments, failures and deadlocks have no part in it.

`LimitsProofs` and `PromiseProofs` prove, from the same assumptions and `MaxActive`'s,

- `CountStands`: `"book" \notin Ops => (Spec => []LimitInv)`
- `RoomsWithinLimits`: `"book" \notin Ops => (Spec => [](WithinActiveLimit /\ OneRoomTypePerStudent))`
- `GoesOnOnlyAsPromised`: `{"book", "release"} \cap Ops = {} => (Spec => []PromiseInv)`
- `RequestsAreSerializable`: `{"book", "release"} \cap Ops = {} => (Spec => Serializable)`

*The argument.* A student's rooms are counted at one statement and added to two or
three statements later. `LimitInv` says that what was counted is still so at
the commit (`RoomStillFits`), since whoever has counted holds that student's
advisory lock (`StudentLocksExclude`). `LimitsProofs` sorts the steps: a step that
gives nobody a room (`FewerStep`), which leaves every count as small as it was, and
a commit (`CommitStep`), which adds the one row the count allowed. Counts are the
library's cardinalities of finite sets, so `LimitInv` also says that a student's
rooms are finitely many. The condition on `book` is needed: book reads a hold
as reserved and writes it booked when it may have expired and the student
may have moved on, and TLC finds the limit exceeded as soon as `book` is in play.

The refinement maps the rows to `[status, s, b]` (`Claims`) and the money to
itself. Every statement before a commit is a stutter; a commit is one `Take` of
`Tenancies`, with the holds it swept lapsing in the same step, because
`SlotIsMine` says that the bed is otherwise free and `RoomStillFits` that the
student may have it. A cancellation or the expiry job writes by id, and is a
step of `Tenancies` only because, without `book` and `release`, a row that once was
reserved can be nothing by then but reserved, expired or cancelled: that is
what `PromiseInv` carries.

`InspectionsProofs` proves for every value of the constants, from `BoundsAssumption`
(the bounds are natural numbers)

- `PhotosInductive`: `Spec => []PhotosInv`
- `EditionsStayWhole`: `Spec => []EditionsWhole`
- `VisitTypes`: `Spec => []TypeOK`

and from the condition `Plain`

- `SyncedIsSubmitted`: `Spec => []SyncedMeansSubmitted`
- `UploadsForgottenWithBatch`: `Spec => ForgottenWithBatch`
- `VisitAdvancesUnapproved`: `"approve" \notin Ops` and `Plain` give `Spec => VisitOnlyAdvances`

*The argument.* A checklist passes from the form to the store, to a loop's copy, to a
request, to the visit, and from the visit back to a correction or to another
device's form. `EditionsWhole` compares each copy with the `album`: wherever an
edition is, it has the photos the form showed in it. It does not say that an edition
arrives: a loop that puts its older copy over a newer one loses the newer one,
photos and answers together (section 6). `PhotosInv` adds that a draft past the form
is filled in, that no copy is of an edition to come, that what a correction or a
checked request will write is whole, and that only a loop that has posted is
ever answered (without which an answer could wake an idle loop). `Good` restates
`PhotosInv` place by place, and each action has a lemma that it keeps it; `Edit` is the
one that changes the album, at an edition nobody has a copy of. Nothing in the
proof keeps two loops apart: each step is safe whatever copies the others hold.

`Plain` says that at most one loop runs, that the form is not used while its draft
is in flight, that no POST arrives after its loop has given it up, that the
inspector keeps the device and that no lead sends the checklist back. Crashes, dropped
connections, failures of every kind, reopening and (but for the last theorem)
approval may all happen. The run `one_loop` also lets the inspector change the
device, which is therefore only model-checked. What two loops, a form in use or a
late POST break is listed in section 6. `PlainInv` then follows a draft: what the loop
at work holds is the stored draft, in syncOne or in uploadPendingPhotos (`Flying`), the
form and its autosave have the uploads the store has or are newer (`Following`), a key stands for one
checklist (`KeysTell`), at most one request is under way (`OneRequest`), and a
settled draft has nothing under way (`Settled`). `VisitAdvancesUnapproved` adds
`Climbing`: editions only grow along the way from visit to request, to
store, to form.

`AssignmentsProofs` proves, from `OffersAssumption` and those of `Reservations`,

- `OffersMatchBookings`: `OfferSpec => []OfferMatchesBooking`
- `OffersAreFew`: `OfferSpec => []FewOffersWait`
- `OffersTyped`: `OfferSpec => []OffersTypeOK`
- `OffersWithinLimit`: `"book" \notin Ops => (OfferSpec => []WithinActiveLimit)`
- `OffersOneRoomType`: `"book" \notin Ops => (OfferSpec => []OneRoomTypePerStudent)`

*The argument.* Neither is inductive. While an acceptance is under way its offer
waits and its reservation is uncommitted; `DeskOK` says what each statement of
`desk` goes with in `tx`: that an answer carries the student, bed and fee of its
offer (`Carries`, `Fits`), and that two answers to one offer exclude each other
(`AnswersExclude`). The invariant is `OInv == TransOK /\ DeskOK /\
OfferMatchesBooking`, where `TransOK` keeps from `Reservations` the types of
`tx`. `OffersAreFew` rests on `CountInv`: whoever has counted holds the
student's lock until they insert, so what was counted still stands. Counting is
done with the library's theorems on finite sets. The two limits are those of
`Reservations` with acceptances in play, and rest on the lemmas of `LimitsProofs`,
which speak of steps and not of a specification: an acceptance is an intake whose
commit also writes the offer.

`ListingsProofs` proves, from the assumptions of `Rooms` and `Listings`,

- `TypeCorrect`: `Spec => []TypeOK`
- `RoomsKeepTheirBeds`: `Spec => []BedsMatchCapacity`
- `ListingsAreListable`: `Spec => []ListedIsListable`
- `ShownRoomsSeen`: `Spec => []ShownRoomsWereSeen`

*The argument.* `Inv == TableOK /\ RestOK /\ LocksOK /\ HoldsInv`. `HoldsInv` is
the strengthening: at most one set is open (`OneOpen`), a closed one is empty
(`ClosedEmpty`), what an open one proposes fits the rooms there are (`Fitting`), and
a request knows and holds what its step implies (`Knows`, `Holds`). Without it a
set could be applied to rooms it no longer describes. `BedsForAll`, within `TableOK`,
says that every reservation has a bed that is not retired, but those whose bed was
retired under them: a retirement spares what is committed when the beds are
looked for (`Spared`), and `RoomsKeepTheirBeds` says no more than that. A reservation that
commits between that look and the update keeps a retired bed (section 6). `ListedIsListable` then
follows from who may switch the intent (the holder of the property's row) and
from `ListingGuard`, which shares that row. `ShownRoomsSeen` has no condition either. Its
invariant `SeenInv` follows a visit from the day it is made: while the property is
to be listed, every live room is covered by the visit the last switch asked for
(`LiveSeen`), every room a set in review would add is covered by the visit its
submission asked for (`ReviewedSeen`), visits are of this turn of listing
(`VisitsOnList`), and a request in flight already knows what its write will
need (`Careful`). Most steps make no visit and show no room (`SeenStep`); submit,
approve, the switches and the approval of a managed property are the rest.

`IdentitiesProofs` proves, from the assumptions of `Identities`,

- `TypeCorrect`: `Spec => []TypeOK`
- `KeepsOneKindOfRole`: `Spec => []OneKindOfRole`
- `AttemptsUsedOnce`: `Spec => []OneUsePerAttempt`
- `StaffAreInvited`: `Spec => InvitationHonoured`
- `LinkedStayDeleted`: `"unclaimed" \notin Ops => (Spec => []DeletedStaysDeleted)`

*The argument.* `OneKindOfRole` needs the types and that a grant looks at the roles
of the row it writes (`Kind`, with `Conflicting`). `AttemptsUsedOnce` needs that
an attempt still in Redis has let nobody in (`Fresh`). `StaffAreInvited` needs
that two sign-ins past their advisory locks have no contact in common (`Apart`),
and so `OfferStands`: what a sign-in has read of an invitation is still so when
it grants the role, since whoever else would change it waits for the row.
`LinkedStayDeleted` shows that finding 3 of section 6 is the only way: it needs an
account that staff made without an identity (`CreateUnclaimed`). Where there is none,
`LinkedInv` says that an account has a subject and each subject one account
(`OneOwner`, `AllLinked`), that a deletion aims at the subject it has locked
(`Aimed`), that nobody else holds that lock (`SubjectsExclude`), and that a
sign-in past `lockIdentity` is of no deleted subject (`Vetted`).

`RemindersProofs` proves, for any number of runs, offsets, times and moves,

- `TypeCorrect`: `Spec => []TypeOK`
- `ForgetsNothing`: `Spec => []NothingForgotten`
- `RemindsOnce`: `Spec => []RemindedOnce`

*The argument.* `NothingForgotten` is inductive with the types. `RemindedOnce` is
not: `Tracked` adds, for each edition and offset, that in an edition no stray
hand-back touched, what is in a run's hands was not mailed and is in no other's,
that what was mailed or is in hand is marked as long as the edition is current,
and that nothing has been done about editions to come.

*Conditions.* A condition on `Ops`, and `Plain`, is met by the constants of the run
that checks the property. For `OnlyForward`, `VisitOnlyAdvances` and
`DeletedStaysDeleted`, which no passing run checks, it leaves out what the run of
section 6 needs to violate them. `IInv`, `PhotosInv`, `LimitInv` and `PromiseInv` are also invariants of
runs; the strengthenings that live in proof modules held in TLC, on instances of that
size, before they were proved.

*Only model-checked:* liveness (`OverdueHoldFreed`, `RequestsFinish`, `DraftSettles`,
`RequestsAnswered`, `CallsEnd`, `DeletionReachesProvider`, `CaughtUp`), since the provers handle neither fairness nor
ENABLED. Every invariant and every action property of a passing run is a
theorem, those with a condition under the condition.

## 6 Where the code and its words disagree

Three are runs with `expect: violation`; `PROJECT.json` quotes the lines. A theorem of
section 5 says for each what it takes: `OnlyUnlockedWritesGoBack`,
`VisitAdvancesUnapproved`, `LinkedStayDeleted`.

1. `OnlyForward`: cancel reads without a lock and updates by id, over a booking
   (RS 938-951). So do the expiry job (JM 93-110), release against a move-in
   (RS 898-930) and book against a cancel (RS 356): with `Ops` set to the pair
   in question, TLC shows each of them.
2. `VisitOnlyAdvances`: syncVisit writes to a visit approved since it read it
   (OPS 591, 603). Three more ways to violate it need more `Ops`: a POST given
   up on that arrives after a newer one, since only the last key is remembered
   (OPS 575); two corrections at once, each writing back the whole checklist
   (OPS 299); and a correction resolved after the approval.
3. `DeletedStaysDeleted`: deleteUser locks the subject it reads; an account that
   is linked to one after that read is deleted without its lock, and a second
   sign-in of that identity makes the account again (AU 122).

Cases 1 and 2 have one cure, the one confirmMoveIn and recordPayment already
have: `FOR UPDATE`, or the expected state in the `WHERE` clause. Case 3 needs the
subject read again behind the row's lock.

The following were seen while modelling. TLC reaches those marked (M) when the
instance allows them; none has a run of its own.

- (M) CR 94 hands offsets back by the event's id alone. If the owner moved the start
  while the mail was failing, and another run has claimed the same offsets for the
  new start, they are freed and mailed a second time. Migration `0070` says "so
  the per-minute job never sends one twice". `RemindedOnce` says exactly when it
  does (`strayed`); comparing `starts_at`, as the claim does, would mend it.
- RM 471 asks for a visit when a set adds a room or has a `capacity_change`, and
  nothing writes `capacity_change`: a listed property's rooms grow through a new
  version of their type with no visit, where RM 466 says "New rooms or capacity
  changes on a listed property need a site visit". (M)
- A landlord with three strikes can be listed again: the trigger takes the
  listings down, but its update of the account matches no row under the lead's
  rights (migration `0001`, 158 and 311). (M)
- The enrolment of a property manager reads, with no lock, that the account has no
  staff role; a grant in between leaves both. `OneKindOfRole` therefore leaves
  `property_manager` out. (M)
- Two Super Admins deleted at once each count the other (AU 629). (M, with two accounts)
- The request schema's default for `refundRequired` makes the service's own
  default, which depends on the money taken, unreachable.
- A batch of photos that fails half-way forgets the photos that are up. In syncOne
  `current` takes the progress of the uploads only when all have returned (SY 75), so
  the error handler (SY 92) puts the draft from before them over what SY 25 stored. SY
  67-70 says the catch block "always saves the latest state — not the pre-upload
  snapshot, which would otherwise silently erase any photos that did finish
  uploading", SY 8 that "a network drop mid-batch loses at most the file in
  flight", DB 23 that "a retried sync never re-uploads an already-uploaded photo".
  `ForgottenWithBatch` shows that this is the only way; repeated, it keeps the draft
  in flight for ever, which is why `DraftSettles` has its premise. Assigning
  `current` as each photo is up would mend it. (M)
- A photo added, or an answer changed, while a loop holds an older copy of the draft is
  overwritten by the loop's next put (SY 25, 72, 81, 92), and the form then reads the
  store again: the form stays open to changes until the draft is synced (FM 275, 352). A comment on
  the schema says "sync-manager.ts uploads every queued offline photo before this
  POST, so a visit captured offline still arrives with its photos here"
  (`packages/shared/src/ops.ts:142`). (M)
- A bed is retired under a reservation: resizeBeds looks for beds without one, with
  no lock, and retires them by id in a later statement (RM 1412-1421); a reserve that
  has read the bed as not blocked (RS 189-197) inserts in between, where RM 1418
  says "Capacity cannot be reduced while affected bedspaces have live
  reservations". A room is archived under a reservation the same way (RM 1363-1366, against
  "A room gained a live reservation and can no longer be archived"), and a reserve
  that comes after does not ask whether it is. Locking the beds in both would mend it. (M)
- `storageFetch` hides the TypeError that syncOne looks for, and a timeout is none
  (SY 91): a dropped connection marks the draft failed, not queued. (M)
- An edit saved under a key already sent is taken for a replay (FM 256). (M)
- Two requests to book both notify the landlord (RS 1024); a photo is uploaded by
  two loops (SY 17); two identical assignments make two visits (OPS 528). (M)
- A mandate accepted while the role it stands on is revoked: the revocation does
  not take the advisory lock of `management.service.ts`.

## 7 What is not modelled

Components with status `not_modelled` in `PROJECT.json`, with the reason. In
short: read-only reports and layouts, single-statement upserts, messages sent
after the commit on which nothing depends, row-level-security policies (a
relation of SQL, tested by the repository under `test/rls`), and the dormant
payments adapter. Management mandates run behind one advisory lock for all of
them, so little is left to interleave; chat marks only move forward by
`WHERE ... IS NULL` updates.

Most of the 67,000 lines the coverage is measured against are pages of the web
application, layouts, legal texts, seeds and reports, in which nothing
interleaves and no state is kept beyond a form.

Within the modelled components, what section 2 abstracts, and:

- Reservations: the accounts that onboardWalkIn and recordTenant make, and the
  replays, which change nothing;
- Listings: rooms that staff enter directly (`admin-properties.service.ts`),
  several listings of one property, edits of facts, prices and photos;
- Rooms: blocking a room or a bed by hand, labels, several semesters and room types,
  and the import template;
- Identities: an edit that changes an invitation's address, invitations by phone
  and their delivery, the second factor, passwords, edits of contacts, accounts
  soft-deleted before migration `0085`, the clocks of the idle timeout;
- Reminders: the text of the mail, and the in-app notice, which is logged and never
  retried.

## 8 Plan

What could come next, in order of what can go wrong:

1. `Mandates`: engagement, assignment and revocation, with the role revocation that
   does not take their lock.
2. Blocking beds by hand, and a composition of `Rooms` with `Reservations` in place of
   the transactions that `ClaimBed` and `TakeBed` stand for.
3. `Conversations`: sent, delivered and read marks over heartbeats and polls.
4. Theorems: that a booked claim is never ended with `cancel` and the job in play but
   not `book`; `VisitOnlyAdvances` with several loops, from what keeps their requests
   apart; the order of locks, as an invariant from which no cycle of waiting
   transactions follows where the code has one order.
