-------------------------- MODULE ReservationsInv --------------------------
(***************************************************************************)
(* The inductive invariants of Reservations: IInv, what the locks a        *)
(* transaction holds guarantee about the rows it relies on until it        *)
(* commits; LimitInv, what the lock on a student guarantees about the      *)
(* rooms that were counted behind it; PromiseInv, what a handler that goes *)
(* on may still do in one step of Tenancies.                               *)
(***************************************************************************)
EXTENDS Reservations

Intaking == {"intakeSweep", "intakeLimits", "intakeInsert"}
Sweeping == {"limits", "insert", "fk", "intakeLimits", "intakeInsert"}
Deciding == {"book", "cancel", "release", "moveIn", "pay", "ask", "expire"}

\* What a transaction carries at the statement it has reached.
TxCarries ==
    \A p \in Procs :
        /\ tx[p].pc \in Reserving => tx[p].k \in ReserveKeys /\ tx[p].s \in Students /\ tx[p].b \in Beds
        /\ tx[p].pc \in Intaking => tx[p].k \in IntakeKeys /\ tx[p].s \in Students /\ tx[p].b \in Beds
        /\ tx[p].pc \in Deciding => tx[p].k \in Keys /\ res[tx[p].k].status # "none"
        /\ tx[p].pc = "pay" => tx[p].pay \in PayKeys
        /\ tx[p].pc \notin Sweeping => tx[p].swept = {}

\* A row is locked by one transaction at a time.
RowLocksExclude ==
    \A p, q \in Procs : \A k \in Keys : HoldsRow(p, k) /\ HoldsRow(q, k) => p = q

\* A locked row is still what it was when the lock was taken.
LockedRowsHold ==
    \A p \in Procs :
        /\ tx[p].swept \subseteq Overdue
        /\ tx[p].pc = "moveIn" => res[tx[p].k].status = "booked"
        /\ tx[p].pc = "pay" => /\ res[tx[p].k].status \in {"booked", "occupied"}
                               /\ paid[tx[p].k] + tx[p].amt <= Price

\* The row an intake will insert is not there, and nobody else names it.
IntakeKeyIsMine ==
    \A p \in Procs : tx[p].pc \in Intaking =>
        /\ res[tx[p].k].status = "none"
        /\ \A q \in Others(p) : tx[q].k # tx[p].k

\* An uncommitted reserve has its bed and its key to itself.
SlotIsMine ==
    \A p \in Procs : tx[p].pc = "fk" =>
        /\ res[tx[p].k].status = "none"
        /\ \A j \in Keys : res[j].b = tx[p].b /\ res[j].status \in Live => j \in tx[p].swept
        /\ \A q \in Others(p) : tx[q].pc = "fk" => tx[q].b # tx[p].b /\ tx[q].k # tx[p].k

IInv == /\ TypeOK
        /\ TxCarries
        /\ RowLocksExclude
        /\ LockedRowsHold
        /\ IntakeKeyIsMine
        /\ SlotIsMine
        /\ OneLiveClaimPerBed

---------------------------------------------------------------------------
(* What the lock on a student guarantees from the count to the commit.     *)

Granted == {"insert", "fk", "intakeInsert"}

\* One transaction at a time has counted a student's rooms.
StudentLocksExclude ==
    \A p, q \in Procs :
        tx[p].pc \in Granted /\ tx[q].pc \in Granted /\ tx[p].s = tx[q].s => p = q

\* What assertStudentCanTakeRoom found is still so when the row is inserted.
RoomStillFits == \A p \in Procs : tx[p].pc \in Granted => CanTakeRoom(p, tx[p].s, tx[p].b)

\* No request is about to make a hold that ended live again.
NothingRevived == \A p \in Procs : tx[p].pc # "book"

LimitInv == /\ StudentLocksExclude
            /\ RoomStillFits
            /\ NothingRevived
            /\ \A s \in Students : IsFiniteSet(ActiveOf(s))
            /\ WithinActiveLimit
            /\ OneRoomTypePerStudent

---------------------------------------------------------------------------
(* What a handler that carries on may still do in one step of Tenancies.   *)

PromiseInv ==
    /\ \A k \in Keys : res[k].status = "none" => paid[k] = 0
    /\ \A p \in Procs :
        /\ tx[p].pc \in Intaking => tx[p].amt \in 0..Price
        /\ tx[p].pc = "pay" => tx[p].amt \in 1..Price
        /\ tx[p].pc \in {"cancel", "expire"} =>
               res[tx[p].k].status \in {"reserved", "expired", "cancelled"}
        /\ tx[p].pc \notin {"book", "release"}
============================================================================
