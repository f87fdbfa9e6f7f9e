--------------------------- MODULE Reservations ---------------------------
(***************************************************************************)
(* The life of a bed reservation in the API: ReservationsService, the      *)
(* intake write path it shares with walk-ins and accepted assignments, and *)
(* the expiry jobs of JobsModule.                                          *)
(*                                                                         *)
(* Every handler body is one PostgreSQL transaction at READ COMMITTED      *)
(* (RlsDb.run), so a handler is a sequence of statements and two handlers  *)
(* interleave between statements.  An action is one statement, or a run of *)
(* statements between which no other transaction can be told apart; the    *)
(* statement that writes and the COMMIT that publishes it are one action   *)
(* unless something can wait in between.  A handler that refuses before it *)
(* wrote anything leaves no trace and is no action at all.                 *)
(*                                                                         *)
(* Locks are not variables: which transaction holds which lock follows     *)
(* from the statement it has reached (HoldsStudent, HoldsBed, HoldsRow,    *)
(* HoldsSlot), and PostgreSQL frees them when the transaction ends.        *)
(***************************************************************************)
EXTENDS Naturals, FiniteSets

CONSTANTS
    Students, Beds, Procs,   \* Procs: requests and job workers in flight
    ReserveKeys, IntakeKeys, \* idempotency keys; a row is named by its key
    PayKeys,                 \* idempotency keys of later payments
    RoomType,                \* [Beds -> ...]: property, category, self-contained
    LongStay,                \* beds whose semester ends outside the rebook window
    Price,                   \* rent per term, snapshotted on every row
    Fees,                    \* amounts a landlord may record at booking
    RefundInputs,            \* refundRequired in the body of a release request
    MaxActive,               \* MAX_ACTIVE_RESERVATIONS
    Ops,                     \* the handlers in play
    None

Keys == ReserveKeys \cup IntakeKeys

AllOps == {"reserve", "intake", "book", "cancel", "release", "moveIn", "pay",
           "ask", "job", "sweep", "time", "fail"}

ASSUME KeysAssumption == ReserveKeys \cap IntakeKeys = {} /\ None \notin Keys
ASSUME NoneAssumption == None \notin Students \cup Beds \cup PayKeys
ASSUME BedsAssumption == LongStay \subseteq Beds
ASSUME MoneyAssumption == Price \in Nat /\ Fees \subseteq Nat /\ MaxActive \in Nat
ASSUME OpsAssumption == Ops \subseteq AllOps /\ RefundInputs \subseteq {"yes", "no", "omitted"}

VARIABLES
    res,        \* table reservations: the row each idempotency key names
    paid,       \* sum of a row's payment_receipts
    rent,       \* rent receipts of a row by payment key (0: none)
    moveIns,    \* rows with a move_ins record
    releases,   \* a row's reservation_releases: what was asked, what was flagged
    asked,      \* times the landlord was told of a booking request
    job,        \* rows with a reservation_expiry job in the queue
    redisLock,  \* beds whose reserve-lock key is set in Redis
    tx          \* what each request or worker is doing

vars == <<res, paid, rent, moveIns, releases, asked, job, redisLock, tx>>
tables == <<res, paid, rent, moveIns, releases, asked>>

Live == {"reserved", "booked", "occupied"}
Active == {"reserved", "booked"}
Ended == {"released", "expired", "cancelled"}

Row == [status : Live \cup Ended \cup {"none"}, s : Students \cup {None},
        b : Beds \cup {None}, due : BOOLEAN, fee : Nat]
NoRow == [status |-> "none", s |-> None, b |-> None, due |-> FALSE, fee |-> 0]

PCs == {"idle", "sweep", "limits", "insert", "fk", "after",
        "intakeSweep", "intakeLimits", "intakeInsert",
        "book", "cancel", "release", "moveIn", "pay", "ask", "expire"}
Reserving == {"sweep", "limits", "insert", "fk", "after"}
Tx == [pc : PCs, k : Keys \cup {None}, s : Students \cup {None},
       b : Beds \cup {None}, amt : Nat, pay : PayKeys \cup {None},
       moved : BOOLEAN, swept : SUBSET Keys]
NoTx == [pc |-> "idle", k |-> None, s |-> None, b |-> None, amt |-> 0,
         pay |-> None, moved |-> FALSE, swept |-> {}]

TypeOK ==
    /\ res \in [Keys -> Row]
    /\ paid \in [Keys -> Nat]
    /\ rent \in [Keys -> [PayKeys -> Nat]]
    /\ moveIns \subseteq Keys
    /\ releases \in [Keys -> SUBSET [input : {"yes", "no", "omitted"}, flag : BOOLEAN]]
    /\ asked \in [Keys -> Nat]
    /\ job \subseteq Keys
    /\ redisLock \subseteq Beds
    /\ tx \in [Procs -> Tx]

---------------------------------------------------------------------------
(* Locks and waiting.                                                      *)

\* Definitions whose comment begins with "Slip" are what a mistake in the code
\* would make of the definition after them; no action uses them.

\* Slip: only the intake path serializes a student's requests.
HoldsStudentIntakeOnly(p, s) == tx[p].pc = "intakeInsert" /\ tx[p].s = s

\* pg_advisory_xact_lock taken by assertStudentCanTakeRoom.
HoldsStudent(p, s) == tx[p].pc \in {"insert", "fk", "intakeInsert"} /\ tx[p].s = s

\* SELECT ... FROM beds FOR UPDATE in bookableIntakeBed.
HoldsBed(p, b) ==
    tx[p].pc \in {"intakeSweep", "intakeLimits", "intakeInsert"} /\ tx[p].b = b

\* Slip: confirmMoveIn and recordPayment read the row without FOR UPDATE.
HoldsRowOnlyWritten(p, k) == k \in tx[p].swept

\* A row the transaction has updated but not committed, or locked FOR UPDATE.
HoldsRow(p, k) ==
    k \in tx[p].swept \/ (tx[p].pc \in {"moveIn", "pay"} /\ tx[p].k = k)

\* An uncommitted entry in reservations_one_live_hold_per_bed.
HoldsSlot(p, b) == tx[p].pc = "fk" /\ tx[p].b = b

Others(p) == Procs \ {p}
RowFree(p, k) == \A q \in Others(p) : ~HoldsRow(q, k)
BedFree(p, b) == \A q \in Others(p) : ~HoldsBed(q, b)
StudentFree(p, s) == \A q \in Others(p) : ~HoldsStudent(q, s)

\* A unique check waits for a transaction whose outcome decides it: one
\* inserting on the bed, one inserting the same key, one expiring the claim.
IndexBusy(q, k, b) ==
    \/ HoldsSlot(q, b)
    \/ tx[q].pc = "fk" /\ tx[q].k = k
    \/ \E j \in tx[q].swept : res[j].b = b
IndexSettled(p, k, b) == \A q \in Others(p) : ~IndexBusy(q, k, b)

---------------------------------------------------------------------------
(* What a statement of transaction p reads.                                *)

StatusSeenBy(p, k) == IF k \in tx[p].swept THEN "expired" ELSE res[k].status

Overdue == {k \in Keys : res[k].status = "reserved" /\ res[k].due}

\* Slip: the partial index leaves 'occupied' out of its predicate.
IndexAllowsOverOccupied(p, k, b) ==
    \A j \in Keys \ {k} : res[j].b = b => StatusSeenBy(p, j) \notin Active

\* reservations_one_live_hold_per_bed, seen by p about to make k live on b.
IndexAllows(p, k, b) ==
    \A j \in Keys \ {k} : res[j].b = b => StatusSeenBy(p, j) \notin Live

\* Slip: rooms on hold do not count, only confirmed ones.
CanTakeRoomBesideHolds(p, s, b) ==
    LET booked == {k \in Keys : res[k].s = s /\ res[k].status = "booked"}
    IN  Cardinality(booked) < MaxActive /\ \A k \in booked : RoomType[res[k].b] # RoomType[b]

CanTakeRoom(p, s, b) ==
    LET active == {k \in Keys : res[k].s = s /\ StatusSeenBy(p, k) \in Active}
    IN  /\ Cardinality(active) < MaxActive
        /\ \A k \in active : RoomType[res[k].b] # RoomType[b]

LockedIn(s) ==
    \E k \in Keys : res[k].s = s /\ res[k].status = "occupied" /\ res[k].b \in LongStay

---------------------------------------------------------------------------
(* Beginning and ending a transaction.                                     *)

Begin(p, r) == tx[p].pc = "idle" /\ tx' = [tx EXCEPT ![p] = r]
Goto(p, pc) == tx' = [tx EXCEPT ![p].pc = pc]
End(p) == tx' = [tx EXCEPT ![p] = NoTx]

\* The finally block of reserve deletes the key whoever set it.
DropRedisLock(p) ==
    redisLock' = IF tx[p].pc \in Reserving THEN redisLock \ {tx[p].b} ELSE redisLock

\* ROLLBACK, and the request answers with an error.
Abort(p) == End(p) /\ DropRedisLock(p) /\ UNCHANGED <<tables, job>>

SetStatus(k, st) == res' = [res EXCEPT ![k].status = st]

\* Slip: the sweep runs outside the transaction that inserts, and is lost.
CommitRowAlone(p, row) == res' = [res EXCEPT ![tx[p].k] = row]

\* COMMIT of a new row k together with the overdue holds p expired.
CommitRow(p, row) ==
    res' = [k \in Keys |->
              IF k = tx[p].k THEN row
              ELSE IF k \in tx[p].swept THEN [res[k] EXCEPT !.status = "expired"]
              ELSE res[k]]

---------------------------------------------------------------------------
(* reserve: Redis lock, sweep, student rules, insert, job.                 *)

\* An existing key is a replay that answers with the row and changes nothing.
ReserveStart(p) ==
    /\ "reserve" \in Ops
    /\ \E s \in Students, b \in Beds \ redisLock, k \in ReserveKeys :
        /\ res[k].status = "none"
        /\ ~LockedIn(s)
        /\ redisLock' = redisLock \cup {b}
        /\ Begin(p, [NoTx EXCEPT !.pc = "sweep", !.s = s, !.b = b, !.k = k])
    /\ UNCHANGED <<tables, job>>

ReserveSweep(p) ==
    /\ tx[p].pc = "sweep"
    /\ \A k \in Overdue : RowFree(p, k)
    /\ tx' = [tx EXCEPT ![p].swept = Overdue, ![p].pc = "limits"]
    /\ UNCHANGED <<tables, job, redisLock>>

\* Slip: a student at the limit is kept waiting instead of being refused.
ReserveLimitsWaits(p) ==
    /\ tx[p].pc = "limits"
    /\ StudentFree(p, tx[p].s)
    /\ CanTakeRoom(p, tx[p].s, tx[p].b)
    /\ Goto(p, "insert")
    /\ UNCHANGED <<tables, job, redisLock>>

ReserveLimits(p) ==
    /\ tx[p].pc = "limits"
    /\ StudentFree(p, tx[p].s)
    /\ IF CanTakeRoom(p, tx[p].s, tx[p].b)
       THEN Goto(p, "insert") /\ UNCHANGED <<tables, job, redisLock>>
       ELSE Abort(p)

\* The row enters the unique indexes before its foreign keys are checked.
ReserveInsert(p) ==
    /\ tx[p].pc = "insert"
    /\ IndexSettled(p, tx[p].k, tx[p].b)
    /\ IF IndexAllows(p, tx[p].k, tx[p].b) /\ res[tx[p].k].status = "none"
       THEN Goto(p, "fk") /\ UNCHANGED <<tables, job, redisLock>>
       ELSE Abort(p)

\* The foreign key needs KEY SHARE on the bed, which FOR UPDATE keeps away.
ReserveCommit(p) ==
    /\ tx[p].pc = "fk"
    /\ BedFree(p, tx[p].b)
    /\ CommitRow(p, [NoRow EXCEPT !.status = "reserved", !.s = tx[p].s, !.b = tx[p].b])
    /\ tx' = [tx EXCEPT ![p].pc = "after", ![p].swept = {}]
    /\ UNCHANGED <<paid, rent, moveIns, releases, asked, job, redisLock>>

\* Slip: the job's payload is built after the request's record is gone.
ReserveAfterLate(p) ==
    /\ tx[p].pc = "after"
    /\ DropRedisLock(p)
    /\ End(p)
    /\ job' = job \cup {tx'[p].k}
    /\ UNCHANGED tables

\* Audit record, delayed job, and the finally block.
ReserveAfter(p) ==
    /\ tx[p].pc = "after"
    /\ job' = job \cup {tx[p].k}
    /\ DropRedisLock(p)
    /\ End(p)
    /\ UNCHANGED tables

---------------------------------------------------------------------------
(* The intake path of bookInTransaction: a walk-in, a recorded tenant or   *)
(* an accepted assignment books a free bed directly.                       *)

IntakeStart(p) ==
    /\ "intake" \in Ops
    /\ \E s \in Students, b \in Beds, k \in IntakeKeys, f \in Fees, m \in BOOLEAN :
        /\ res[k].status = "none"
        /\ \A q \in Procs : tx[q].k # k
        /\ BedFree(p, b)
        /\ f <= Price
        /\ Begin(p, [NoTx EXCEPT !.pc = "intakeSweep", !.s = s, !.b = b, !.k = k,
                                 !.amt = f, !.moved = m])
    /\ UNCHANGED <<tables, job, redisLock>>

\* Expires the bed's overdue hold, then asks INTAKE_BEDS_SQL for the bed.
IntakeSweep(p) ==
    LET b == tx[p].b
        overdue == {k \in Overdue : res[k].b = b}
    IN  /\ tx[p].pc = "intakeSweep"
        /\ \A k \in overdue : RowFree(p, k)
        /\ IF \A k \in Keys \ overdue : res[k].b = b => res[k].status \notin Live
           THEN /\ tx' = [tx EXCEPT ![p].swept = overdue, ![p].pc = "intakeLimits"]
                /\ UNCHANGED <<tables, job, redisLock>>
           ELSE Abort(p)

IntakeLimits(p) ==
    /\ tx[p].pc = "intakeLimits"
    /\ StudentFree(p, tx[p].s)
    /\ IF CanTakeRoom(p, tx[p].s, tx[p].b) /\ ~LockedIn(tx[p].s)
       THEN Goto(p, "intakeInsert") /\ UNCHANGED <<tables, job, redisLock>>
       ELSE Abort(p)

\* Row, booking receipt and, for a tenant already there, the move-in.
IntakeInsert(p) ==
    LET k == tx[p].k
    IN  /\ tx[p].pc = "intakeInsert"
        /\ IndexSettled(p, k, tx[p].b)
        /\ IF IndexAllows(p, k, tx[p].b)
           THEN /\ CommitRow(p, [NoRow EXCEPT !.s = tx[p].s, !.b = tx[p].b, !.fee = tx[p].amt,
                                 !.status = IF tx[p].moved THEN "occupied" ELSE "booked"])
                /\ paid' = [paid EXCEPT ![k] = @ + tx[p].amt]
                /\ moveIns' = IF tx[p].moved THEN moveIns \cup {k} ELSE moveIns
                /\ End(p)
                /\ UNCHANGED <<rent, releases, asked, job, redisLock>>
           ELSE Abort(p)

---------------------------------------------------------------------------
(* Handlers that read a row without locking it, decide, and then update it *)
(* by id whatever it has become.  The update waits for the row's lock.     *)

Decide(p, k, pc, amt) ==
    /\ Begin(p, [NoTx EXCEPT !.pc = pc, !.k = k, !.amt = amt])
    /\ UNCHANGED <<tables, job, redisLock>>

BookRead(p) ==
    /\ "book" \in Ops
    /\ \E k \in Keys, f \in Fees : res[k].status = "reserved" /\ Decide(p, k, "book", f)

\* Making the row live again is a write into the bed's unique index.
BookWrite(p) ==
    LET k == tx[p].k
    IN  /\ tx[p].pc = "book"
        /\ RowFree(p, k)
        /\ IndexSettled(p, k, res[k].b)
        /\ IF IndexAllows(p, k, res[k].b)
           THEN /\ res' = [res EXCEPT ![k] = [@ EXCEPT !.status = "booked", !.due = FALSE,
                                                       !.fee = tx[p].amt]]
                /\ paid' = [paid EXCEPT ![k] = @ + tx[p].amt]
                /\ End(p)
                /\ UNCHANGED <<rent, moveIns, releases, asked, job, redisLock>>
           ELSE Abort(p)

\* Slip: a student may cancel as long as the bed is theirs.
CancelReadLive(p) ==
    /\ "cancel" \in Ops
    /\ \E k \in Keys : res[k].status \in Live /\ Decide(p, k, "cancel", 0)

CancelRead(p) ==
    /\ "cancel" \in Ops
    /\ \E k \in Keys : res[k].status = "reserved" /\ Decide(p, k, "cancel", 0)

CancelWrite(p) ==
    /\ tx[p].pc = "cancel"
    /\ RowFree(p, tx[p].k)
    /\ SetStatus(tx[p].k, "cancelled")
    /\ End(p)
    /\ UNCHANGED <<paid, rent, moveIns, releases, asked, job, redisLock>>

\* amt keeps the booking money the unlocked read saw.
ReleaseRead(p) ==
    /\ "release" \in Ops
    /\ \E k \in Keys : res[k].status \in Active /\ Decide(p, k, "release", res[k].fee)

\* The request body as releaseReservationSchema hands it to the service.
Parsed(input) == IF input = "omitted" THEN "no" ELSE input

\* input.refundRequired ?? hadMoneyCollected, from the money the read saw.
RefundFlag(input, seen) ==
    Parsed(input) = "yes" \/ (Parsed(input) = "omitted" /\ seen > 0)

ReleaseWrite(p) ==
    LET k == tx[p].k
    IN  /\ tx[p].pc = "release"
        /\ RowFree(p, k)
        /\ SetStatus(k, "released")
        /\ \E input \in RefundInputs :
            releases' = [releases EXCEPT
                ![k] = @ \cup {[input |-> input, flag |-> RefundFlag(input, tx[p].amt)]}]
        /\ End(p)
        /\ UNCHANGED <<paid, rent, moveIns, asked, job, redisLock>>

AskRead(p) ==
    /\ "ask" \in Ops
    /\ \E k \in Keys : res[k].status = "reserved" /\ asked[k] = 0 /\ Decide(p, k, "ask", 0)

AskWrite(p) ==
    /\ tx[p].pc = "ask"
    /\ RowFree(p, tx[p].k)
    /\ asked' = [asked EXCEPT ![tx[p].k] = @ + 1]
    /\ End(p)
    /\ UNCHANGED <<res, paid, rent, moveIns, releases, job, redisLock>>

\* The delayed job runs no earlier than the end of the hold it was made for.
ExpireRead(p) ==
    /\ "job" \in Ops
    /\ \E k \in job :
        /\ res[k].due \/ res[k].status # "reserved"
        /\ IF res[k].status = "reserved"
           THEN Decide(p, k, "expire", 0)
           ELSE tx[p].pc = "idle" /\ job' = job \ {k} /\ UNCHANGED <<tables, redisLock, tx>>

ExpireWrite(p) ==
    LET k == tx[p].k
    IN  /\ tx[p].pc = "expire"
        /\ RowFree(p, k)
        /\ SetStatus(k, "expired")
        /\ job' = job \ {k}
        /\ End(p)
        /\ UNCHANGED <<paid, rent, moveIns, releases, asked, redisLock>>

---------------------------------------------------------------------------
(* Handlers that lock the row FOR UPDATE before they read it.              *)

MoveInRead(p) ==
    /\ "moveIn" \in Ops
    /\ \E k \in Keys : RowFree(p, k) /\ res[k].status = "booked" /\ Decide(p, k, "moveIn", 0)

MoveInWrite(p) ==
    /\ tx[p].pc = "moveIn"
    /\ SetStatus(tx[p].k, "occupied")
    /\ moveIns' = moveIns \cup {tx[p].k}
    /\ End(p)
    /\ UNCHANGED <<paid, rent, releases, asked, job, redisLock>>

\* A used payment key is a replay, or a conflict, and records nothing.
PayRead(p) ==
    /\ "pay" \in Ops
    /\ \E k \in Keys, y \in PayKeys, a \in 1..Price :
        /\ RowFree(p, k)
        /\ rent[k][y] = 0
        /\ res[k].status \in {"booked", "occupied"}
        /\ paid[k] + a <= Price
        /\ Begin(p, [NoTx EXCEPT !.pc = "pay", !.k = k, !.pay = y, !.amt = a])
    /\ UNCHANGED <<tables, job, redisLock>>

PayWrite(p) ==
    LET k == tx[p].k
    IN  /\ tx[p].pc = "pay"
        /\ rent' = [rent EXCEPT ![k][tx[p].pay] = tx[p].amt]
        /\ paid' = [paid EXCEPT ![k] = @ + tx[p].amt]
        /\ End(p)
        /\ UNCHANGED <<res, moveIns, releases, asked, job, redisLock>>

---------------------------------------------------------------------------
(* The minute sweep, time, and failures.                                   *)

\* Slip: the backstop only looks at holds whose job is still queued.
SweepQueued ==
    /\ "sweep" \in Ops
    /\ Overdue \cap job # {}
    /\ \A k \in Overdue, q \in Procs : ~HoldsRow(q, k)
    /\ res' = [k \in Keys |-> IF k \in Overdue \cap job THEN [res[k] EXCEPT !.status = "expired"]
                                                        ELSE res[k]]
    /\ UNCHANGED <<paid, rent, moveIns, releases, asked, job, redisLock, tx>>

\* One guarded UPDATE: PostgreSQL checks the condition again on each row it
\* had to wait for, so it is atomic once no overdue row is locked.
Sweep ==
    /\ "sweep" \in Ops
    /\ Overdue # {}
    /\ \A k \in Overdue, q \in Procs : ~HoldsRow(q, k)
    /\ res' = [k \in Keys |-> IF k \in Overdue THEN [res[k] EXCEPT !.status = "expired"]
                                               ELSE res[k]]
    /\ UNCHANGED <<paid, rent, moveIns, releases, asked, job, redisLock, tx>>

HoldEnds(k) ==
    /\ "time" \in Ops
    /\ res[k].status = "reserved" /\ ~res[k].due
    /\ res' = [res EXCEPT ![k].due = TRUE]
    /\ UNCHANGED <<paid, rent, moveIns, releases, asked, job, redisLock, tx>>

\* The Redis key's ten seconds run out while the request is still at work.
LockTimesOut(b) ==
    /\ "time" \in Ops
    /\ b \in redisLock
    /\ redisLock' = redisLock \ {b}
    /\ UNCHANGED <<tables, job, tx>>

\* The connection, the process or the audit write fails.  Nothing uncommitted
\* survives; the finally block may or may not have run, the worker may or may
\* not have handed its job back.
Fail(p) ==
    /\ "fail" \in Ops
    /\ tx[p].pc # "idle"
    /\ End(p)
    /\ DropRedisLock(p) \/ UNCHANGED redisLock
    /\ job' = job \/ (tx[p].pc = "expire" /\ job' = job \ {tx[p].k})
    /\ UNCHANGED tables

\* p is blocked by q.
WaitsFor(p, q) ==
    LET pc == tx[p].pc
        k == tx[p].k
    IN  /\ p # q
        /\ \/ pc = "sweep" /\ \E j \in Overdue : HoldsRow(q, j)
           \/ pc = "intakeSweep" /\ \E j \in Overdue : res[j].b = tx[p].b /\ HoldsRow(q, j)
           \/ pc \in {"limits", "intakeLimits"} /\ HoldsStudent(q, tx[p].s)
           \/ pc = "fk" /\ HoldsBed(q, tx[p].b)
           \/ pc \in {"insert", "intakeInsert"} /\ IndexBusy(q, k, tx[p].b)
           \/ pc \in {"book", "cancel", "release", "ask", "expire"} /\ HoldsRow(q, k)
           \/ pc = "book" /\ IndexBusy(q, k, res[k].b)

\* A set of transactions each of which waits for another of the set.
Deadlocked ==
    {p \in Procs : \E S \in SUBSET Procs :
        p \in S /\ \A q \in S : \E h \in S : WaitsFor(q, h)}

\* PostgreSQL finds the cycle after deadlock_timeout and aborts a victim.
DeadlockVictim(p) == p \in Deadlocked /\ Abort(p)

---------------------------------------------------------------------------
Init ==
    /\ res = [k \in Keys |-> NoRow]
    /\ paid = [k \in Keys |-> 0]
    /\ rent = [k \in Keys |-> [y \in PayKeys |-> 0]]
    /\ moveIns = {}
    /\ releases = [k \in Keys |-> {}]
    /\ asked = [k \in Keys |-> 0]
    /\ job = {}
    /\ redisLock = {}
    /\ tx = [p \in Procs |-> NoTx]

Reserve(p) == \/ ReserveSweep(p) \/ ReserveLimits(p) \/ ReserveInsert(p)
              \/ ReserveCommit(p) \/ ReserveAfter(p)
Intake(p) == IntakeSweep(p) \/ IntakeLimits(p) \/ IntakeInsert(p)
Write(p) == \/ BookWrite(p) \/ CancelWrite(p) \/ ReleaseWrite(p) \/ AskWrite(p)
            \/ ExpireWrite(p) \/ MoveInWrite(p) \/ PayWrite(p)
Request(p) == \/ ReserveStart(p) \/ IntakeStart(p) \/ BookRead(p) \/ CancelRead(p)
              \/ ReleaseRead(p) \/ AskRead(p) \/ MoveInRead(p) \/ PayRead(p)

\* A request that was accepted, carried on to its answer.
Proceed(p) == Reserve(p) \/ Intake(p) \/ Write(p) \/ DeadlockVictim(p)

Next ==
    \/ \E p \in Procs : Request(p) \/ ExpireRead(p) \/ Proceed(p) \/ Fail(p)
    \/ Sweep
    \/ \E k \in Keys : HoldEnds(k)
    \/ \E b \in Beds : LockTimesOut(b)

Spec == Init /\ [][Next]_vars

\* Lock waiters are queued first come first served and the API keeps running
\* what it started; the sweep runs every minute.
Fairness ==
    /\ \A p \in Procs : SF_vars(Proceed(p))
    /\ SF_vars(Sweep)
    /\ \A b \in Beds : WF_vars(LockTimesOut(b))

FairSpec == Spec /\ Fairness

---------------------------------------------------------------------------
(* What the reservation code promises.                                     *)

\* A bed is never held, booked or lived in by two reservations at once, in any
\* interleaving of every handler: the promise of the partial unique index.
OneLiveClaimPerBed ==
    \A j, k \in Keys :
        res[j].b = res[k].b /\ res[j].status \in Live /\ res[k].status \in Live => j = k

Promise == INSTANCE Tenancies WITH
    claim <- [k \in Keys |-> [status |-> res[k].status, s |-> res[k].s, b |-> res[k].b]]

\* With the handlers that lock or guard what they decide on, a request split
\* into statements does what one indivisible step would have done.
Serializable == Promise!Spec

ActiveOf(s) == {k \in Keys : res[k].s = s /\ res[k].status \in Active}

\* A student never holds more than MaxActive beds, however their own requests
\* and the landlord's interleave (the count in assertStudentCanTakeRoom).
WithinActiveLimit == \A s \in Students : Cardinality(ActiveOf(s)) <= MaxActive

\* A student never holds two beds of one room type in a hostel, however their
\* requests and the landlord's interleave.
OneRoomTypePerStudent ==
    \A s \in Students : \A j, k \in ActiveOf(s) :
        RoomType[res[j].b] = RoomType[res[k].b] => j = k

\* A rent instalment never takes what was paid above the rent (recordPayment).
RentFitsBalance == [][\A k \in Keys : rent'[k] # rent[k] => paid'[k] <= Price]_vars

\* A hold past its window frees the bed, even when its job was never queued.
OverdueHoldFreed == \A k \in Keys : k \in Overdue ~> res[k].status # "reserved"

\* Every request ends: no lock is left behind and no cycle of waits stays.
RequestsFinish == \A p \in Procs : tx[p].pc # "idle" ~> tx[p].pc = "idle"

\* A claim only moves forward: a booking is neither cancelled nor expired, a
\* student who moved in is not put out, a claim that ended is not revived.
OnlyForward ==
    [][\A k \in Keys :
        /\ res[k].status = "booked" => res'[k].status \in {"booked", "occupied", "released"}
        /\ res[k].status \in {"occupied", "cancelled", "expired", "released"} =>
               res'[k].status = res[k].status]_vars
===========================================================================
