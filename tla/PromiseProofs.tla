---------------------------- MODULE PromiseProofs ----------------------------
(***************************************************************************)
(* Reservations implements Tenancies: what a request split into statements  *)
(* does to the claims and to the money is what one indivisible step of the   *)
(* abstract service does, or nothing, for every number of students, beds,    *)
(* requests and keys.  The two handlers that decide on a row they do not     *)
(* lock and write it whatever it has become, book and release, are left out: *)
(* with them the promise does not hold.                                      *)
(*                                                                         *)
(* A commit is a Take of Tenancies because the bed is still free of all but   *)
(* the holds it expires (SlotIsMine), and the student's rooms are still the   *)
(* ones that were counted (RoomStillFits).                                   *)
(***************************************************************************)
EXTENDS ReservationsProofs, LimitsProofs

Ready == IInv /\ LimitInv /\ PromiseInv
Guarded == {"book", "release"} \cap Ops = {}

Claims == [k \in Keys |-> [status |-> res[k].status, s |-> res[k].s, b |-> res[k].b]]

\* The claims once the holds in D have lapsed.
Lapsed(D) ==
    [k \in Keys |-> [status |-> IF k \in D THEN "expired" ELSE res[k].status,
                     s |-> res[k].s, b |-> res[k].b]]

---------------------------------------------------------------------------
(* The refinement mapping.                                                 *)

LEMMA LapseIs == \A D : Promise!Lapse(D) = Lapsed(D)
BY DEF Promise!Lapse, Lapsed

LEMMA HeldIs == Promise!Held = {k \in Keys : res[k].status = "reserved"}
BY DEF Promise!Held

LEMMA InitMaps == Init => Promise!Init
BY DEF Init, Promise!Init, Promise!NoClaim, NoRow

LEMMA SameClaims ==
    ASSUME \A k \in Keys : res'[k].status = res[k].status /\ res'[k].s = res[k].s /\ res'[k].b = res[k].b
    PROVE  Claims' = Claims
BY DEF Claims

LEMMA ExpireMaps ==
    ASSUME NEW D \in SUBSET Overdue, UNCHANGED paid, Claims' = Lapsed(D)
    PROVE  Promise!Next
<1>1. D \in SUBSET Promise!Held
    BY HeldIs DEF Overdue
<1>2. Promise!Expire
    BY <1>1, LapseIs DEF Promise!Expire, Claims
<1> QED BY <1>2 DEF Promise!Next

LEMMA SameCount == \A S : Promise!Cardinality(S) = Cardinality(S)
BY DEF Promise!Cardinality, Cardinality

\* A commit is a Take: the bed is free, and the student may have the room.
LEMMA TakeMaps ==
    ASSUME Ready, NEW p \in Procs, tx[p].pc \in {"fk", "intakeInsert"},
           NEW row \in Row, CommitRow(p, row), row.s = tx[p].s, row.b = tx[p].b,
           \A j \in Keys : res[j].b = tx[p].b /\ res[j].status \in Live => j \in tx[p].swept,
           res[tx[p].k].status = "none",
           NEW amt, paid' = [paid EXCEPT ![tx[p].k] = amt]
    PROVE  Promise!Take(tx[p].k, tx[p].s, tx[p].b, row.status, amt)
<1> DEFINE k == tx[p].k
           s == tx[p].s
           b == tx[p].b
           D == tx[p].swept
           now == Lapsed(D)
           mine == {j \in Keys : now[j].s = s /\ now[j].status \in Active}
<1>1. k \in Keys /\ D \subseteq Overdue /\ k \notin D /\ D \in SUBSET Promise!Held
    <2>1. k \in Keys
        BY DEF Ready, IInv, TxCarries, Reserving, Intaking, Keys
    <2>2. D \subseteq Overdue
        BY DEF Ready, IInv, LockedRowsHold
    <2> QED BY <2>1, <2>2, HeldIs DEF Overdue
<1>2. \A j \in Keys : res'[j] = IF j = k THEN row
                                ELSE IF j \in D THEN [res[j] EXCEPT !.status = "expired"] ELSE res[j]
    BY DEF CommitRow
<1>3. \A j \in Keys : j \in D =>
        /\ [res[j] EXCEPT !.status = "expired"].status = "expired"
        /\ [res[j] EXCEPT !.status = "expired"].s = res[j].s
        /\ [res[j] EXCEPT !.status = "expired"].b = res[j].b
    BY DEF Ready, IInv, TypeOK, Row
<1>4. Claims'[k] = [status |-> row.status, s |-> s, b |-> b]
    <2> HIDE DEF k
    <2>1. Claims'[k] = [status |-> res'[k].status, s |-> res'[k].s, b |-> res'[k].b]
        BY <1>1 DEF Claims
    <2> QED BY <1>1, <1>2, <2>1
<1>5. Claims' = [now EXCEPT ![k] = Claims'[k]]
    <2> HIDE DEF k, D
    <2>1. \A j \in Keys : j # k => Claims'[j] = now[j]
        BY <1>2, <1>3 DEF Claims, Lapsed
    <2>2. /\ Claims' = [j \in Keys |-> Claims'[j]]
          /\ now = [j \in Keys |-> now[j]]
        BY DEF Claims, Lapsed
    <2> HIDE DEF now
    <2> QED BY <1>1, <2>1, <2>2
<1>6. \A j \in Keys : now[j].b = b => now[j].status \notin Live
    BY DEF Lapsed, Live
<1>7. mine = CountedBy(p, s) /\ \A j \in Keys : now[j].b = res[j].b
    BY DEF Lapsed, CountedBy, StatusSeenBy
<1>8. CanTakeRoom(p, s, b)
    BY DEF Ready, LimitInv, RoomStillFits, Granted
<1>9. Cardinality(mine) < MaxActive /\ \A j \in mine : RoomType[now[j].b] # RoomType[b]
    BY <1>7, <1>8, CountIs
<1>10. Claims[k].status = "none"
    BY <1>1 DEF Claims
<1>11. Promise!Lapse(D) = now
    BY LapseIs
<1> HIDE DEF k, s, b, D, now, mine
<1>12. mine = {j \in Keys : now[j].s = s /\ now[j].status \in Promise!Active}
    BY DEF mine, Active, Promise!Active
<1>13. Promise!Cardinality(mine) < MaxActive /\ \A j \in mine : RoomType[now[j].b] # RoomType[b]
    BY <1>9, SameCount
<1>14. \A j \in Keys : now[j].b = b => now[j].status \notin Promise!Live
    BY <1>6 DEF Live, Promise!Live
<1>15. paid' = [paid EXCEPT ![k] = amt]
    BY DEF k
<1>. QED
    BY <1>1, <1>4, <1>5, <1>10, <1>11, <1>12, <1>13, <1>14, <1>15 DEF Promise!Take, Claims, k, s, b

\* One status changes, and no more.
LEMMA StatusClaims ==
    ASSUME Ready, NEW k \in Keys, NEW st, SetStatus(k, st)
    PROVE  Claims' = [Claims EXCEPT ![k].status = st]
<1>1. \A j \in Keys : j # k => res'[j] = res[j]
    BY DEF SetStatus, Ready, IInv, TypeOK
<1>2. res'[k].status = st /\ res'[k].s = res[k].s /\ res'[k].b = res[k].b
    BY DEF SetStatus, Ready, IInv, TypeOK, Row
<1> QED BY <1>1, <1>2 DEF Claims

LEMMA CancelMaps ==
    ASSUME Ready, NEW k \in Keys, NEW st \in {"expired", "cancelled"}, SetStatus(k, st),
           res[k].status \in {"reserved", "expired", "cancelled"}, UNCHANGED paid
    PROVE  Promise!Next
<1>1. Claims[k].status = res[k].status
    BY DEF Claims
<1>2. Promise!Cancel(k)
    BY <1>1, StatusClaims DEF Promise!Cancel, Claims
<1> QED BY <1>2 DEF Promise!Next

LEMMA MoveInMaps ==
    ASSUME Ready, NEW k \in Keys, SetStatus(k, "occupied"), res[k].status = "booked",
           UNCHANGED paid
    PROVE  Promise!Next
<1>1. Claims[k].status = res[k].status
    BY DEF Claims
<1>2. Promise!MoveIn(k)
    BY <1>1, StatusClaims DEF Promise!MoveIn, Claims
<1> QED BY <1>2 DEF Promise!Next

LEMMA PayMaps ==
    ASSUME Ready, NEW k \in Keys, NEW a \in 1..Price, res[k].status \in {"booked", "occupied"},
           paid[k] + a <= Price, paid' = [paid EXCEPT ![k] = @ + a], UNCHANGED res
    PROVE  Promise!Next
<1>1. Claims[k].status = res[k].status /\ Claims' = Claims
    BY DEF Claims
<1>2. Promise!Pay(k, a)
    BY <1>1 DEF Promise!Pay, Claims
<1> QED BY <1>2 DEF Promise!Next

---------------------------------------------------------------------------
(* PromiseInv is kept.                                                     *)

Yielding == {"reserved", "expired", "cancelled"}

\* Holds only end, and money is only on rows that are there.
RowsLapse ==
    \A k \in Keys :
        /\ res[k].status \in Yielding => res'[k].status \in Yielding
        /\ res'[k].status = "none" => paid'[k] = 0

LEMMA PromiseStep ==
    ASSUME Ready, NEW p \in Procs, NEW r, Onward(p, r), RowsLapse,
           r.pc \in Intaking => r.amt \in 0..Price,
           r.pc = "pay" => r.amt \in 1..Price,
           r.pc \in {"cancel", "expire"} => res'[r.k].status \in Yielding,
           r.pc \notin {"book", "release"}
    PROVE  PromiseInv'
<1>1. tx'[p] = r /\ \A q \in Procs : q # p => tx'[q] = tx[q]
    BY DEF Onward, Ready, IInv, TypeOK
<1>2. ASSUME NEW q \in Procs, tx[q].pc \in {"cancel", "expire"}
      PROVE  res'[tx[q].k].status \in Yielding
    <2>1. tx[q].k \in Keys
        BY <1>2 DEF Ready, IInv, TxCarries, Deciding
    <2> QED BY <1>2, <2>1 DEF Ready, PromiseInv, RowsLapse, Yielding
<1> QED BY <1>1, <1>2 DEF Ready, PromiseInv, RowsLapse, Yielding

LEMMA StillLapse ==
    ASSUME Ready, UNCHANGED <<res, paid>> PROVE RowsLapse
BY DEF RowsLapse, Ready, PromiseInv

LEMMA IdleRecord == NoTx.pc = "idle" /\ "idle" \notin Intaking \cup {"pay", "cancel", "expire", "book", "release"}
BY DEF NoTx, Intaking

LEMMA EndPromise ==
    ASSUME Ready, NEW p \in Procs, End(p), RowsLapse PROVE PromiseInv'
<1>1. Onward(p, NoTx)
    BY DEF End, Onward
<1> QED BY <1>1, IdleRecord, PromiseStep

LEMMA OutsidePromise ==
    ASSUME Ready, UNCHANGED tx, RowsLapse PROVE PromiseInv'
<1>1. ASSUME NEW q \in Procs, tx[q].pc \in {"cancel", "expire"}
      PROVE  res'[tx[q].k].status \in Yielding
    <2>1. tx[q].k \in Keys
        BY <1>1 DEF Ready, IInv, TxCarries, Deciding
    <2> QED BY <1>1, <2>1 DEF Ready, PromiseInv, RowsLapse, Yielding
<1> QED BY <1>1 DEF Ready, PromiseInv, RowsLapse, Yielding

\* The record goes on to another statement of the same handler.
LEMMA OnwardPromise ==
    ASSUME Ready, NEW p \in Procs, NEW r, Onward(p, r), RowsLapse,
           r.amt = tx[p].amt,
           r.pc \notin {"pay", "cancel", "expire", "book", "release"},
           r.pc \in Intaking => tx[p].pc \in Intaking
    PROVE  PromiseInv'
BY PromiseStep DEF Ready, PromiseInv

LEMMA BeginPromise ==
    ASSUME Ready, NEW p \in Procs, NEW r, Begin(p, r), UNCHANGED <<res, paid>>,
           r.pc \in Intaking => r.amt \in 0..Price,
           r.pc = "pay" => r.amt \in 1..Price,
           r.pc \in {"cancel", "expire"} => res[r.k].status \in Yielding,
           r.pc \notin {"book", "release"}
    PROVE  PromiseInv'
BY StillLapse, PromiseStep DEF Begin, Onward

LEMMA DecidePromise ==
    ASSUME Ready, NEW p \in Procs, NEW k, NEW c, NEW a, Decide(p, k, c, a),
           c \notin Intaking \cup {"pay", "book", "release"},
           c \in {"cancel", "expire"} => res[k].status \in Yielding
    PROVE  PromiseInv'
<1> DEFINE r == [NoTx EXCEPT !.pc = c, !.k = k, !.amt = a]
<1>1. r.pc = c /\ r.k = k /\ r.amt = a
    BY DEF NoTx
<1>2. Begin(p, r) /\ UNCHANGED <<res, paid>>
    BY DEF Decide, tables
<1> HIDE DEF r
<1> QED BY <1>1, <1>2, BeginPromise

LEMMA RequestPromise ==
    ASSUME Ready, Guarded, NEW p \in Procs, Request(p) \/ ExpireRead(p)
    PROVE  PromiseInv'
<1>1. CASE ReserveStart(p)
    <2>1. PICK s \in Students, b \in Beds, k \in ReserveKeys :
            Begin(p, [NoTx EXCEPT !.pc = "sweep", !.s = s, !.b = b, !.k = k])
        BY <1>1 DEF ReserveStart
    <2> DEFINE r == [NoTx EXCEPT !.pc = "sweep", !.s = s, !.b = b, !.k = k]
    <2>2. r.pc = "sweep" /\ Begin(p, r) /\ UNCHANGED <<res, paid>>
        BY <1>1, <2>1 DEF NoTx, ReserveStart, tables
    <2> HIDE DEF r
    <2> QED BY <2>2, BeginPromise DEF Intaking
<1>2. CASE IntakeStart(p)
    <2>1. PICK s \in Students, b \in Beds, k \in IntakeKeys, f \in Fees, m \in BOOLEAN :
            f <= Price /\ Begin(p, [NoTx EXCEPT !.pc = "intakeSweep", !.s = s, !.b = b, !.k = k,
                                                !.amt = f, !.moved = m])
        BY <1>2 DEF IntakeStart
    <2> DEFINE r == [NoTx EXCEPT !.pc = "intakeSweep", !.s = s, !.b = b, !.k = k,
                                 !.amt = f, !.moved = m]
    <2>2. r.pc = "intakeSweep" /\ r.amt = f /\ Begin(p, r) /\ UNCHANGED <<res, paid>>
        BY <1>2, <2>1 DEF NoTx, IntakeStart, tables
    <2>3. f \in 0..Price
        BY <2>1, MoneyAssumption
    <2> HIDE DEF r
    <2> QED BY <2>2, <2>3, BeginPromise
<1>3. CASE PayRead(p)
    <2>1. PICK k \in Keys, y \in PayKeys, a \in 1..Price :
            Begin(p, [NoTx EXCEPT !.pc = "pay", !.k = k, !.pay = y, !.amt = a])
        BY <1>3 DEF PayRead
    <2> DEFINE r == [NoTx EXCEPT !.pc = "pay", !.k = k, !.pay = y, !.amt = a]
    <2>2. r.pc = "pay" /\ r.amt = a /\ Begin(p, r) /\ UNCHANGED <<res, paid>>
        BY <1>3, <2>1 DEF NoTx, PayRead, tables
    <2> HIDE DEF r
    <2> QED BY <2>2, BeginPromise DEF Intaking
<1>4. CASE CancelRead(p) \/ AskRead(p) \/ MoveInRead(p)
    BY <1>4, DecidePromise DEF CancelRead, AskRead, MoveInRead, Intaking, Yielding
<1>5. CASE ExpireRead(p)
    <2>1. CASE \E k \in job : res[k].status = "reserved" /\ Decide(p, k, "expire", 0)
        BY <2>1, DecidePromise DEF Intaking, Yielding
    <2>2. CASE UNCHANGED <<tables, tx>>
        BY <2>2, StillLapse, OutsidePromise DEF tables
    <2> QED BY <1>5, <2>1, <2>2 DEF ExpireRead
<1> QED BY <1>1, <1>2, <1>3, <1>4, <1>5 DEF Request, Guarded, BookRead, ReleaseRead

---------------------------------------------------------------------------
(* Every step keeps PromiseInv, and is one step of Tenancies or none.      *)

Maps == Promise!Next \/ UNCHANGED <<Claims, paid>>

LEMMA StillMaps == ASSUME UNCHANGED <<res, paid>> PROVE Maps
BY SameClaims DEF Maps

LEMMA AbortPromise ==
    ASSUME Ready, NEW p \in Procs, Abort(p) \/ Fail(p) PROVE PromiseInv' /\ Maps
<1>1. End(p) /\ UNCHANGED <<res, paid>>
    BY DEF Abort, Fail, tables
<1> QED BY <1>1, StillLapse, EndPromise, StillMaps

LEMMA GotoPromise ==
    ASSUME Ready, NEW p \in Procs, UNCHANGED <<res, paid>>,
           NEW c, NEW D, \/ Goto(p, c)
                         \/ tx' = [tx EXCEPT ![p].swept = D, ![p].pc = c],
           c \notin {"pay", "cancel", "expire", "book", "release"},
           c \in Intaking => tx[p].pc \in Intaking
    PROVE  PromiseInv' /\ Maps
<1>1. tx[p] \in Tx
    BY DEF Ready, IInv, TypeOK
<1>2. \E r : Onward(p, r) /\ r.pc = c /\ r.amt = tx[p].amt
    <2>1. CASE Goto(p, c)
        <3> DEFINE r == [tx[p] EXCEPT !.pc = c]
        <3>1. Onward(p, r) /\ r.pc = c /\ r.amt = tx[p].amt
            BY <1>1, <2>1 DEF Goto, Onward, Tx, Ready, IInv, TypeOK
        <3> HIDE DEF r
        <3> QED BY <3>1
    <2>2. CASE tx' = [tx EXCEPT ![p].swept = D, ![p].pc = c]
        <3> DEFINE r == [tx[p] EXCEPT !.swept = D, !.pc = c]
        <3>1. Onward(p, r) /\ r.pc = c /\ r.amt = tx[p].amt
            BY <1>1, <2>2 DEF Onward, Tx, Ready, IInv, TypeOK
        <3> HIDE DEF r
        <3> QED BY <3>1
    <2> QED BY <2>1, <2>2
<1> QED BY <1>2, StillLapse, OnwardPromise, StillMaps

\* The rows as a commit leaves them.
LEMMA CommitLapse ==
    ASSUME Ready, NEW p \in Procs, tx[p].k \in Keys, NEW row, CommitRow(p, row),
           row.status # "none", res[tx[p].k].status = "none",
           \A k \in Keys : k # tx[p].k => paid'[k] = paid[k]
    PROVE  RowsLapse
<1>1. \A k \in Keys : [res[k] EXCEPT !.status = "expired"].status = "expired"
    BY DEF Ready, IInv, TypeOK, Row
<1>2. \A k \in Keys : res'[k] = IF k = tx[p].k THEN row
                                ELSE IF k \in tx[p].swept THEN [res[k] EXCEPT !.status = "expired"]
                                ELSE res[k]
    BY DEF CommitRow
<1>3. "none" \notin Yielding /\ "expired" \in Yielding
    BY DEF Yielding
<1>4. \A k \in Keys : res[k].status = "none" => paid[k] = 0
    BY DEF Ready, PromiseInv
<1>5. \A k \in Keys : k = tx[p].k \/ res'[k] = res[k] \/ res'[k].status = "expired"
    BY <1>1, <1>2
<1>6. res'[tx[p].k].status # "none"
    BY <1>2
<1> QED BY <1>3, <1>4, <1>5, <1>6 DEF RowsLapse

LEMMA ReservePromise ==
    ASSUME Ready, NEW p \in Procs, Reserve(p)
    PROVE  PromiseInv' /\ Maps
<1>1. CASE Abort(p)
    BY <1>1, AbortPromise
<1>2. CASE ReserveSweep(p) \/ (ReserveLimits(p) /\ ~Abort(p)) \/ (ReserveInsert(p) /\ ~Abort(p))
    <2>1. UNCHANGED <<res, paid>>
        BY <1>2 DEF ReserveSweep, ReserveLimits, ReserveInsert, tables
    <2>2. \E c \in {"limits", "insert", "fk"} : \E D :
            Goto(p, c) \/ tx' = [tx EXCEPT ![p].swept = D, ![p].pc = c]
        BY <1>2 DEF ReserveSweep, ReserveLimits, ReserveInsert
    <2>3. PICK c \in {"limits", "insert", "fk"} : \E D :
            Goto(p, c) \/ tx' = [tx EXCEPT ![p].swept = D, ![p].pc = c]
        BY <2>2
    <2>4. c \notin Intaking \cup {"pay", "cancel", "expire", "book", "release"}
        BY DEF Intaking
    <2> QED BY <2>1, <2>3, <2>4, GotoPromise
<1>3. CASE ReserveCommit(p)
    <2> DEFINE row == [NoRow EXCEPT !.status = "reserved", !.s = tx[p].s, !.b = tx[p].b]
               r == [tx[p] EXCEPT !.pc = "after", !.swept = {}]
               k == tx[p].k
    <2>1. tx[p].pc = "fk" /\ CommitRow(p, row) /\ UNCHANGED paid
        BY <1>3 DEF ReserveCommit
    <2>2. k \in Keys /\ tx[p].s \in Students /\ tx[p].b \in Beds
        BY <2>1 DEF Ready, IInv, TxCarries, Reserving, Keys
    <2>3. row \in Row /\ row.status = "reserved" /\ row.s = tx[p].s /\ row.b = tx[p].b
        BY <2>2 DEF Row, NoRow, Live
    <2>4. /\ res[k].status = "none"
          /\ \A j \in Keys : res[j].b = tx[p].b /\ res[j].status \in Live => j \in tx[p].swept
        BY <2>1 DEF Ready, IInv, SlotIsMine
    <2>5. paid' = [paid EXCEPT ![k] = 0]
        BY <2>1, <2>2, <2>4 DEF Ready, PromiseInv, IInv, TypeOK
    <2>6. Onward(p, r) /\ r.pc = "after" /\ r.amt = tx[p].amt
        BY <1>3 DEF ReserveCommit, Onward, Ready, IInv, TypeOK, Tx
    <2> HIDE DEF row, r
    <2>7. Promise!Take(k, tx[p].s, tx[p].b, "reserved", 0)
        BY <2>1, <2>3, <2>4, <2>5, TakeMaps
    <2>8. Promise!Next
        BY <2>2, <2>7 DEF Promise!Next
    <2>9. RowsLapse
        BY <2>1, <2>2, <2>3, <2>4, CommitLapse
    <2> QED BY <2>6, <2>8, <2>9, OnwardPromise DEF Maps, Intaking
<1>4. CASE ReserveAfter(p)
    <2>1. End(p) /\ UNCHANGED <<res, paid>>
        BY <1>4 DEF ReserveAfter, tables
    <2> QED BY <2>1, StillLapse, EndPromise, StillMaps
<1> QED BY <1>1, <1>2, <1>3, <1>4 DEF Reserve

LEMMA IntakePromise ==
    ASSUME Ready, NEW p \in Procs, Intake(p)
    PROVE  PromiseInv' /\ Maps
<1>1. CASE Abort(p)
    BY <1>1, AbortPromise
<1>2. CASE (IntakeSweep(p) \/ IntakeLimits(p)) /\ ~Abort(p)
    <2>1. UNCHANGED <<res, paid>> /\ tx[p].pc \in Intaking
        BY <1>2 DEF IntakeSweep, IntakeLimits, tables, Intaking
    <2>2. \E c \in {"intakeLimits", "intakeInsert"} : \E D :
            Goto(p, c) \/ tx' = [tx EXCEPT ![p].swept = D, ![p].pc = c]
        BY <1>2 DEF IntakeSweep, IntakeLimits
    <2> QED BY <2>1, <2>2, GotoPromise
<1>3. CASE IntakeInsert(p) /\ ~Abort(p)
    <2> DEFINE row == [NoRow EXCEPT !.s = tx[p].s, !.b = tx[p].b, !.fee = tx[p].amt,
                                    !.status = IF tx[p].moved THEN "occupied" ELSE "booked"]
               k == tx[p].k
    <2>1. /\ tx[p].pc = "intakeInsert" /\ CommitRow(p, row) /\ End(p)
          /\ paid' = [paid EXCEPT ![k] = @ + tx[p].amt]
          /\ IndexAllows(p, k, tx[p].b)
        BY <1>3 DEF IntakeInsert
    <2>2. k \in Keys /\ tx[p].s \in Students /\ tx[p].b \in Beds /\ tx[p].amt \in 0..Price
        BY <2>1 DEF Ready, IInv, TxCarries, Intaking, Keys, PromiseInv
    <2>3. tx[p].amt \in Nat
        BY DEF Ready, IInv, TypeOK, Tx
    <2>4. row \in Row /\ row.status \in {"booked", "occupied"} /\ row.s = tx[p].s /\ row.b = tx[p].b
        BY <2>2, <2>3 DEF Row, NoRow, Live
    <2>5. res[k].status = "none"
        BY <2>1 DEF Ready, IInv, IntakeKeyIsMine, Intaking
    <2>6. \A j \in Keys : res[j].b = tx[p].b /\ res[j].status \in Live => j \in tx[p].swept
        BY <2>1, <2>5 DEF IndexAllows, StatusSeenBy, Live
    <2>7. PICK amt \in 0..Price : amt = tx[p].amt /\ paid' = [paid EXCEPT ![k] = amt]
        <3>1. paid[k] + tx[p].amt = tx[p].amt
            BY <2>2, <2>3, <2>5 DEF Ready, PromiseInv
        <3> QED BY <2>1, <2>2, <3>1
    <2>. HIDE DEF row
    <2>8. Promise!Take(k, tx[p].s, tx[p].b, row.status, amt)
        BY <2>1, <2>4, <2>5, <2>6, <2>7, TakeMaps
    <2>9. Promise!Next
        <3> HIDE DEF k
        <3>1. \E st \in {"booked", "occupied"}, a \in 0..Price : Promise!Take(k, tx[p].s, tx[p].b, st, a)
            BY <2>4, <2>7, <2>8
        <3> QED BY <2>2, <3>1 DEF Promise!Next
    <2>10. \A j \in Keys : j # k => paid'[j] = paid[j]
        BY <2>7 DEF Ready, IInv, TypeOK
    <2>11. RowsLapse
        BY <2>1, <2>2, <2>4, <2>5, <2>10, CommitLapse
    <2> QED BY <2>1, <2>9, <2>11, EndPromise DEF Maps
<1> QED BY <1>1, <1>2, <1>3 DEF Intake

LEMMA StatusLapse ==
    ASSUME Ready, NEW k \in Keys, NEW st, SetStatus(k, st), UNCHANGED paid,
           st # "none", res[k].status \in Yielding => st \in Yielding
    PROVE  RowsLapse
<1>1. \A j \in Keys : j # k => res'[j] = res[j]
    BY DEF SetStatus, Ready, IInv, TypeOK
<1>2. res'[k].status = st
    BY DEF SetStatus, Ready, IInv, TypeOK, Row
<1>3. \A j \in Keys : res[j].status = "none" => paid[j] = 0
    BY DEF Ready, PromiseInv
<1> QED BY <1>1, <1>2, <1>3 DEF RowsLapse

LEMMA WritePromise ==
    ASSUME Ready, NEW p \in Procs, Write(p)
    PROVE  PromiseInv' /\ Maps
<1>0. /\ tx[p].pc \in Deciding => tx[p].k \in Keys
      /\ tx[p].pc \in {"cancel", "expire"} => res[tx[p].k].status \in {"reserved", "expired", "cancelled"}
      /\ tx[p].pc = "moveIn" => res[tx[p].k].status = "booked"
      /\ tx[p].pc = "pay" => /\ res[tx[p].k].status \in {"booked", "occupied"}
                             /\ paid[tx[p].k] + tx[p].amt <= Price
                             /\ tx[p].amt \in 1..Price
      /\ tx[p].pc \notin {"book", "release"}
    BY DEF Ready, IInv, TxCarries, LockedRowsHold, PromiseInv
<1>1. CASE BookWrite(p) \/ ReleaseWrite(p)
    BY <1>0, <1>1 DEF BookWrite, ReleaseWrite
<1>2. CASE CancelWrite(p) \/ ExpireWrite(p)
    <2>1. PICK st \in {"expired", "cancelled"} :
            tx[p].pc \in {"cancel", "expire"} /\ SetStatus(tx[p].k, st) /\ End(p) /\ UNCHANGED paid
        BY <1>2 DEF CancelWrite, ExpireWrite
    <2>2. tx[p].k \in Keys /\ res[tx[p].k].status \in {"reserved", "expired", "cancelled"}
        BY <1>0, <2>1 DEF Deciding
    <2>3. Promise!Next
        BY <2>1, <2>2, CancelMaps
    <2>4. RowsLapse
        BY <2>1, <2>2, StatusLapse DEF Yielding
    <2> QED BY <2>1, <2>3, <2>4, EndPromise DEF Maps
<1>3. CASE MoveInWrite(p)
    <2>1. SetStatus(tx[p].k, "occupied") /\ End(p) /\ UNCHANGED paid
        BY <1>3 DEF MoveInWrite
    <2>2. tx[p].k \in Keys /\ res[tx[p].k].status = "booked"
        BY <1>0, <1>3 DEF MoveInWrite, Deciding
    <2>3. Promise!Next
        BY <2>1, <2>2, MoveInMaps
    <2>4. RowsLapse
        BY <2>1, <2>2, StatusLapse DEF Yielding
    <2> QED BY <2>1, <2>3, <2>4, EndPromise DEF Maps
<1>4. CASE PayWrite(p)
    <2>1. paid' = [paid EXCEPT ![tx[p].k] = @ + tx[p].amt] /\ End(p) /\ UNCHANGED res
        BY <1>4 DEF PayWrite
    <2>2. /\ tx[p].k \in Keys /\ res[tx[p].k].status \in {"booked", "occupied"}
          /\ paid[tx[p].k] + tx[p].amt <= Price /\ tx[p].amt \in 1..Price
        BY <1>0, <1>4 DEF PayWrite, Deciding
    <2>3. Promise!Next
        BY <2>1, <2>2, PayMaps
    <2>4. RowsLapse
        BY <2>1, <2>2 DEF RowsLapse, Ready, PromiseInv, IInv, TypeOK
    <2> QED BY <2>1, <2>3, <2>4, EndPromise DEF Maps
<1>5. CASE AskWrite(p)
    <2>1. End(p) /\ UNCHANGED <<res, paid>>
        BY <1>5 DEF AskWrite
    <2> QED BY <2>1, StillLapse, EndPromise, StillMaps
<1> QED BY <1>1, <1>2, <1>3, <1>4, <1>5 DEF Write

LEMMA SweepPromise == ASSUME Ready, Sweep PROVE PromiseInv' /\ Maps
<1>1. \A k \in Keys : /\ [res[k] EXCEPT !.status = "expired"].status = "expired"
                      /\ [res[k] EXCEPT !.status = "expired"].s = res[k].s
                      /\ [res[k] EXCEPT !.status = "expired"].b = res[k].b
    BY DEF Ready, IInv, TypeOK, Row
<1>2. \A k \in Keys : IF k \in Overdue
                      THEN res'[k].status = "expired" /\ res'[k].s = res[k].s /\ res'[k].b = res[k].b
                      ELSE res'[k] = res[k]
    BY <1>1 DEF Sweep
<1>3. UNCHANGED <<paid, tx>>
    BY DEF Sweep
<1>4. RowsLapse
    <2>1. \A k \in Keys : res[k].status = "none" => paid[k] = 0
        BY DEF Ready, PromiseInv
    <2> QED BY <1>2, <1>3, <2>1 DEF RowsLapse, Yielding
<1>5. Claims' = Lapsed(Overdue)
    <2> HIDE DEF Overdue
    <2> QED BY <1>2 DEF Claims, Lapsed
<1>6. Maps
    BY <1>3, <1>5, ExpireMaps DEF Maps
<1> QED BY <1>3, <1>4, <1>6, OutsidePromise

LEMMA HoldEndsPromise == ASSUME Ready, NEW k \in Keys, HoldEnds(k) PROVE PromiseInv' /\ Maps
<1>1. res' = [res EXCEPT ![k].due = TRUE] /\ UNCHANGED <<paid, tx>>
    BY DEF HoldEnds
<1>2. \A j \in Keys : res'[j].status = res[j].status /\ res'[j].s = res[j].s /\ res'[j].b = res[j].b
    BY <1>1 DEF Ready, IInv, TypeOK, Row
<1>3. RowsLapse
    BY <1>1, <1>2 DEF RowsLapse, Ready, PromiseInv
<1> QED BY <1>1, <1>2, <1>3, SameClaims, OutsidePromise DEF Maps

LEMMA StepPromise ==
    ASSUME Ready, Guarded, [Next]_vars
    PROVE  PromiseInv' /\ Maps
<1>1. ASSUME NEW p \in Procs, Request(p) \/ ExpireRead(p) PROVE PromiseInv' /\ Maps
    <2>1. UNCHANGED <<res, paid>>
        BY <1>1 DEF Request, ExpireRead, ReserveStart, IntakeStart, BookRead, CancelRead,
           ReleaseRead, AskRead, MoveInRead, PayRead, Decide, tables
    <2> QED BY <1>1, <2>1, RequestPromise, StillMaps
<1>2. CASE \E b \in Beds : LockTimesOut(b)
    BY <1>2, StillLapse, OutsidePromise, StillMaps DEF LockTimesOut, tables
<1>3. CASE UNCHANGED vars
    BY <1>3, StillLapse, OutsidePromise, StillMaps DEF vars
<1> QED BY <1>1, <1>2, <1>3, ReservePromise, IntakePromise, WritePromise, AbortPromise,
           SweepPromise, HoldEndsPromise DEF Next, Proceed, DeadlockVictim

---------------------------------------------------------------------------
(* The theorems.                                                           *)

LEMMA RowsTyped == IInv => Typed
<1>1. {"limits", "insert", "fk"} \subseteq Reserving /\ {"intakeLimits", "intakeInsert"} \subseteq Intaking
      /\ Granted = {"insert", "fk", "intakeInsert"}
    BY DEF Reserving, Intaking, Granted
<1> QED BY <1>1 DEF IInv, TypeOK, TxCarries, Typed

LEMMA InitPromise == Init => PromiseInv
BY IdleRecord DEF Init, PromiseInv

LEMMA AlwaysReady ==
    ASSUME Guarded
    PROVE  Spec => []Ready
<1>1. Init => Ready
    BY InitIInv, InitLimits, InitPromise DEF Ready
<1>2. Ready /\ [Next]_vars => Ready'
    <2> SUFFICES ASSUME Ready, [Next]_vars PROVE Ready'
        OBVIOUS
    <2>1. IInv'
        BY NextKeeps DEF Ready
    <2>2. LimitInv'
        BY RowsTyped, NextLimits DEF Ready, Guarded, Revivable
    <2>3. PromiseInv'
        BY StepPromise
    <2> QED BY <2>1, <2>2, <2>3 DEF Ready
<1> QED BY <1>1, <1>2, PTL DEF Spec

\* What a request split into statements does to claims and money is what one
\* indivisible step of Tenancies does, in any interleaving with any other
\* requests, expiries, payments and failures, unless a handler that decides on
\* a row it does not lock is in play (book, release).
THEOREM RequestsAreSerializable == {"book", "release"} \cap Ops = {} => (Spec => Serializable)
<1> SUFFICES ASSUME Guarded PROVE Spec => Serializable
    BY DEF Guarded
<1>1. Init => Promise!Init
    BY InitMaps
<1>2. Ready /\ [Next]_vars => [Promise!Next]_<<Claims, paid>>
    BY StepPromise DEF Maps
<1> QED BY <1>1, <1>2, AlwaysReady, PTL DEF Spec, Serializable, Promise!Spec, Claims

\* A cancellation or the expiry job, which write a row they read without a lock,
\* find a hold there or what was one, and an instalment or an intake has an amount
\* within the rent, whatever else but book and release goes on meanwhile.
THEOREM GoesOnOnlyAsPromised == {"book", "release"} \cap Ops = {} => (Spec => []PromiseInv)
<1> SUFFICES ASSUME Guarded PROVE Spec => []PromiseInv
    BY DEF Guarded
<1> QED BY AlwaysReady, PTL DEF Ready

\* What was counted behind the lock on a student still stands when the row it
\* allows is committed, and one transaction at a time has counted, unless a hold
\* that ended may be booked (assertStudentCanTakeRoom, tenantIntake).
THEOREM CountStands == "book" \notin Ops => (Spec => []LimitInv)
<1> SUFFICES ASSUME ~Revivable PROVE Spec => []LimitInv
    BY DEF Revivable
<1>1. Init => IInv /\ LimitInv
    BY InitIInv, InitLimits
<1>2. (IInv /\ LimitInv) /\ [Next]_vars => (IInv /\ LimitInv)'
    <2> SUFFICES ASSUME IInv, LimitInv, [Next]_vars PROVE IInv' /\ LimitInv'
        OBVIOUS
    <2> QED BY RowsTyped, NextKeeps, NextLimits
<1> QED BY <1>1, <1>2, PTL DEF Spec

\* However requests, walk-ins, releases, expiries and failures interleave, a
\* student never holds or has booked more beds than MaxActive, nor two of one
\* room type, unless a hold that ended may be booked (assertStudentCanTakeRoom).
THEOREM RoomsWithinLimits ==
    "book" \notin Ops => (Spec => [](WithinActiveLimit /\ OneRoomTypePerStudent))
<1>1. LimitInv => WithinActiveLimit /\ OneRoomTypePerStudent
    BY DEF LimitInv
<1> QED BY <1>1, CountStands, PTL
=============================================================================
