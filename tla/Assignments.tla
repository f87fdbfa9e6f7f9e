---------------------------- MODULE Assignments ----------------------------
(***************************************************************************)
(* A landlord offers a bed to a student who already has an account, and the *)
(* student accepts or declines: tenant_assignment_requests, on top of the    *)
(* reservations (module Reservations) that an accepted offer becomes one of. *)
(*                                                                           *)
(* An offer's transaction takes the bed like an intake, but asks about the    *)
(* student under a lock of its own; an acceptance is an intake that holds the *)
(* offer's row.  One landlord; an offer is named by its idempotency key,     *)
(* which also names the reservation it becomes.                              *)
(***************************************************************************)
EXTENDS Reservations

CONSTANTS
    OfferKeys,   \* idempotency keys of entries for existing students
    MaxPending   \* offers to one student that may wait for an answer

ASSUME OffersAssumption ==
    OfferKeys \subseteq IntakeKeys /\ IsFiniteSet(OfferKeys) /\ MaxPending \in Nat

VARIABLES
    offers,  \* rows of tenant_assignment_requests
    desk     \* what a request does with an offer, beside its transaction in tx

offerVars == <<vars, offers, desk>>

Offer == [status : {"none", "pending", "accepted", "declined"}, s : Students \cup {None},
          b : Beds \cup {None}, fee : Nat, moved : BOOLEAN, expired : BOOLEAN]
NoOffer == [status |-> "none", s |-> None, b |-> None, fee |-> 0,
            moved |-> FALSE, expired |-> FALSE]

\* offer, bed, counted: the statements of an offer; accept, decline: an answer.
Desk == [step : {"none", "offer", "bed", "counted", "accept", "decline"}, k : OfferKeys \cup {None}]
AtRest == [step |-> "none", k |-> None]

OffersTypeOK ==
    TypeOK /\ offers \in [OfferKeys -> Offer] /\ desk \in [Procs -> Desk]

---------------------------------------------------------------------------
Sits(p, step) == desk' = [desk EXCEPT ![p].step = step]
Leaves(p) == desk' = [desk EXCEPT ![p] = AtRest]

\* Slip: the offer is read without FOR UPDATE.
AnswerAnyway(p, k) == TRUE

\* SELECT ... FOR UPDATE of the offer.
OfferFree(p, k) ==
    \A q \in Others(p) : ~(desk[q].step \in {"accept", "decline"} /\ desk[q].k = k)

\* Slip: nothing serializes a student's offers.
CountAnyway(p, s) == TRUE

\* The advisory lock on the landlord and the student.
CountFree(p, s) == \A q \in Others(p) : ~(desk[q].step = "counted" /\ tx[q].s = s)

Waiting(s) == {k \in OfferKeys : offers[k].status = "pending" /\ ~offers[k].expired /\ offers[k].s = s}

Commit(p) ==
    res' = [k \in Keys |-> IF k \in tx[p].swept THEN [res[k] EXCEPT !.status = "expired"] ELSE res[k]]

---------------------------------------------------------------------------
(* requestTenantAssignment.                                                *)

\* Looks for an earlier request of the key, then locks the bed.
OfferStart(p) ==
    /\ "intake" \in Ops
    /\ desk[p] = AtRest
    /\ \E k \in OfferKeys, s \in Students, b \in Beds, f \in Fees, m \in BOOLEAN :
        /\ offers[k] = NoOffer
        /\ BedFree(p, b) /\ f <= Price
        /\ Begin(p, [NoTx EXCEPT !.pc = "intakeSweep", !.s = s, !.b = b, !.k = k,
                                 !.amt = f, !.moved = m])
        /\ desk' = [desk EXCEPT ![p] = [step |-> "offer", k |-> k]]
    /\ UNCHANGED <<tables, job, redisLock, offers>>

\* bookableIntakeBed, as for an intake.
OfferBed(p) ==
    LET b == tx[p].b
        overdue == {k \in Overdue : res[k].b = b}
    IN  /\ desk[p].step = "offer"
        /\ \A k \in overdue : RowFree(p, k)
        /\ IF \A k \in Keys \ overdue : res[k].b = b => res[k].status \notin Live
           THEN /\ tx' = [tx EXCEPT ![p].swept = overdue]
                /\ Sits(p, "bed")
                /\ UNCHANGED <<tables, job, redisLock>>
           ELSE Abort(p) /\ Leaves(p)
        /\ UNCHANGED offers

\* The lock and the count.  Too many waiting: nothing is offered, and the
\* transaction commits.
OfferCount(p) ==
    /\ desk[p].step = "bed"
    /\ CountFree(p, tx[p].s)
    /\ IF Cardinality(Waiting(tx[p].s)) < MaxPending
       THEN Sits(p, "counted") /\ UNCHANGED <<res, tx>>
       ELSE Commit(p) /\ End(p) /\ Leaves(p)
    /\ UNCHANGED <<paid, rent, moveIns, releases, asked, job, redisLock, offers>>

\* ON CONFLICT DO NOTHING.
OfferInsert(p) ==
    LET k == tx[p].k
    IN  /\ desk[p].step = "counted"
        /\ offers' = IF offers[k] = NoOffer
                     THEN [offers EXCEPT ![k] = [status |-> "pending", s |-> tx[p].s, b |-> tx[p].b,
                                                 fee |-> tx[p].amt, moved |-> tx[p].moved,
                                                 expired |-> FALSE]]
                     ELSE offers
        /\ Commit(p) /\ End(p) /\ Leaves(p)
        /\ UNCHANGED <<paid, rent, moveIns, releases, asked, job, redisLock>>

\* Slip: an offer that has run out gets a status the table does not know.
OfferLapses(k) ==
    /\ "time" \in Ops
    /\ offers[k].status = "pending"
    /\ offers' = [offers EXCEPT ![k].status = "expired"]
    /\ UNCHANGED <<vars, desk>>

\* Seven days: no statement, but the column expires_at.
OfferExpires(k) ==
    /\ "time" \in Ops
    /\ offers[k].status = "pending" /\ ~offers[k].expired
    /\ offers' = [offers EXCEPT ![k].expired = TRUE]
    /\ UNCHANGED <<vars, desk>>

---------------------------------------------------------------------------
(* respondTenantAssignment.  An answer that comes again is a replay, or a   *)
(* conflict, and changes nothing.                                           *)

Answerable(p, k) ==
    desk[p] = AtRest /\ OfferFree(p, k) /\ offers[k].status = "pending" /\ ~offers[k].expired

\* With the offer's row locked, an intake begins as soon as it has the bed.
AcceptRead(p) ==
    /\ \E k \in OfferKeys :
        LET o == offers[k]
        IN  /\ Answerable(p, k)
            /\ BedFree(p, o.b)
            /\ Begin(p, [NoTx EXCEPT !.pc = "intakeSweep", !.s = o.s, !.b = o.b, !.k = k,
                                     !.amt = o.fee, !.moved = o.moved])
            /\ desk' = [desk EXCEPT ![p] = [step |-> "accept", k |-> k]]
    /\ UNCHANGED <<tables, job, redisLock, offers>>

DeclineRead(p) ==
    /\ tx[p].pc = "idle"
    /\ \E k \in OfferKeys :
        /\ Answerable(p, k)
        /\ desk' = [desk EXCEPT ![p] = [step |-> "decline", k |-> k]]
    /\ UNCHANGED <<vars, offers>>

DeclineWrite(p) ==
    /\ desk[p].step = "decline"
    /\ offers' = [offers EXCEPT ![desk[p].k].status = "declined"]
    /\ Leaves(p)
    /\ UNCHANGED vars

---------------------------------------------------------------------------
OfferInit == Init /\ offers = [k \in OfferKeys |-> NoOffer] /\ desk = [p \in Procs |-> AtRest]

\* What is not about an offer.  Each entry of a batch has a key of its own.
Elsewhere(p) ==
    /\ desk[p] = AtRest
    /\ Request(p) \/ ExpireRead(p)
    /\ tx'[p].pc = "intakeSweep" => tx'[p].k \notin OfferKeys
    /\ UNCHANGED <<offers, desk>>

\* A transaction goes on; an acceptance that commits its reservation commits
\* the answer with it.
CarryOn(p) ==
    /\ desk[p].step \in {"none", "accept"}
    /\ Reserve(p) \/ Intake(p) \/ Write(p)
    /\ offers' = IF desk[p].step = "accept" /\ res'[desk[p].k] # res[desk[p].k]
                 THEN [offers EXCEPT ![desk[p].k].status = "accepted"] ELSE offers
    /\ IF tx'[p] = NoTx THEN Leaves(p) ELSE UNCHANGED desk

BreaksOff(p) == (Fail(p) \/ DeadlockVictim(p)) /\ Leaves(p) /\ UNCHANGED offers

Passes == Sweep \/ (\E k \in Keys : HoldEnds(k)) \/ (\E b \in Beds : LockTimesOut(b))

OfferNext ==
    \/ \E p \in Procs :
        \/ OfferStart(p) \/ OfferBed(p) \/ OfferCount(p) \/ OfferInsert(p)
        \/ AcceptRead(p) \/ DeclineRead(p) \/ DeclineWrite(p)
        \/ Elsewhere(p) \/ CarryOn(p) \/ BreaksOff(p)
    \/ \E k \in OfferKeys : OfferExpires(k)
    \/ Passes /\ UNCHANGED <<offers, desk>>

OfferSpec == OfferInit /\ [][OfferNext]_offerVars

---------------------------------------------------------------------------
(* What an offer promises.                                                 *)

\* An accepted offer is the reservation its student was offered, and no other
\* offer is one: also when the student accepts and declines at once, accepts
\* twice, or stops half-way (respondTenantAssignment).
OfferMatchesBooking ==
    \A k \in OfferKeys :
        LET o == offers[k]
        IN  IF o.status = "accepted"
            THEN res[k].status # "none" /\ <<res[k].s, res[k].b>> = <<o.s, o.b>>
            ELSE res[k] = NoRow

\* However many entries a landlord sends at once, only so many offers wait for
\* one student (the count in requestTenantAssignment).
FewOffersWait == \A s \in Students : Cardinality(Waiting(s)) <= MaxPending
============================================================================
