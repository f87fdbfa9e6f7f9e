---------------------------- MODULE LimitsProofs ----------------------------
(***************************************************************************)
(* What every statement of Reservations does to the rooms a student may     *)
(* have: the steps of the proofs that a student never holds more beds than  *)
(* MaxActive, nor two of one room type, in Reservations and in Assignments. *)
(*                                                                         *)
(* The count is made under a lock on the student, and the row it allows is  *)
(* inserted statements later.  What the count found stays so (LimitInv)     *)
(* because meanwhile nobody else's commit can give this student a room      *)
(* (CommitStep), and any other step only takes rooms away (FewerStep).      *)
(* A booking may not bring an ended hold back to life (Revivable).          *)
(***************************************************************************)
EXTENDS ReservationsInv, FiniteSetTheorems, TLAPS

Typed ==
    /\ res \in [Keys -> Row] /\ tx \in [Procs -> Tx]
    /\ \A p \in Procs : tx[p].pc \in Granted \cup {"limits", "intakeLimits"} => tx[p].s \in Students

Revivable == "book" \in Ops

\* The rows that p counts as rooms student s has.
CountedBy(p, s) == {k \in Keys : res[k].s = s /\ StatusSeenBy(p, k) \in Active}

\* No claim becomes a room somebody has.
NoneGained ==
    \A k \in Keys : res'[k].status \in Active =>
        res[k].status \in Active /\ res'[k].s = res[k].s /\ res'[k].b = res[k].b

\* The transaction of p goes on as r.
Onward(p, r) == tx' = [tx EXCEPT ![p] = r]

LEMMA Distinct ==
    /\ "expired" \notin Active /\ NoTx.pc \notin Granted \cup {"book"}
    /\ Granted \subseteq PCs
BY DEF Active, NoTx, Granted, PCs

LEMMA CountedAreActive ==
    ASSUME NEW p, NEW s
    PROVE  CountedBy(p, s) \subseteq ActiveOf(s)
           /\ \A k \in ActiveOf(s) : k \in CountedBy(p, s) \/ k \in tx[p].swept
BY Distinct DEF CountedBy, ActiveOf, StatusSeenBy

LEMMA CountIs ==
    \A p, s, b : CanTakeRoom(p, s, b) <=>
        /\ Cardinality(CountedBy(p, s)) < MaxActive
        /\ \A k \in CountedBy(p, s) : RoomType[res[k].b] # RoomType[b]
BY DEF CanTakeRoom, CountedBy

---------------------------------------------------------------------------
(* A step that gives nobody a room keeps every count good.                 *)

LEMMA FewerRows ==
    ASSUME LimitInv, NoneGained, NEW s \in Students
    PROVE  /\ ActiveOf(s)' \subseteq ActiveOf(s)
           /\ IsFiniteSet(ActiveOf(s)') /\ Cardinality(ActiveOf(s)') <= MaxActive
           /\ \A j, k \in ActiveOf(s)' : RoomType[res'[j].b] = RoomType[res'[k].b] => j = k
<1>1. ActiveOf(s)' \subseteq ActiveOf(s)
    BY DEF NoneGained, ActiveOf
<1>2. IsFiniteSet(ActiveOf(s)) /\ Cardinality(ActiveOf(s)) <= MaxActive
    BY DEF LimitInv, WithinActiveLimit
<1>3. IsFiniteSet(ActiveOf(s)') /\ Cardinality(ActiveOf(s)') <= Cardinality(ActiveOf(s))
    BY <1>1, <1>2, FS_Subset
<1>4. Cardinality(ActiveOf(s)) \in Nat /\ Cardinality(ActiveOf(s)') \in Nat
    BY <1>2, <1>3, FS_CardinalityType
<1>5. \A k \in ActiveOf(s)' : res'[k].b = res[k].b
    BY DEF NoneGained, ActiveOf
<1>6. \A j, k \in ActiveOf(s) : RoomType[res[j].b] = RoomType[res[k].b] => j = k
    BY DEF LimitInv, OneRoomTypePerStudent
<1> QED BY <1>1, <1>2, <1>3, <1>4, <1>5, <1>6, MoneyAssumption

\* What q counted, while its record keeps the student, the bed and the sweep.
LEMMA CountKept ==
    ASSUME Typed, LimitInv, NEW q \in Procs, tx[q].s \in Students,
           CanTakeRoom(q, tx[q].s, tx[q].b),
           tx'[q].s = tx[q].s, tx'[q].b = tx[q].b, tx'[q].swept = tx[q].swept,
           \A k \in Keys : res'[k].status \in Active /\ res'[k].s = tx[q].s =>
               res[k].status \in Active /\ res[k].s = tx[q].s /\ res'[k].b = res[k].b
    PROVE  CanTakeRoom(q, tx[q].s, tx[q].b)'
<1> DEFINE s == tx[q].s
           b == tx[q].b
           old == CountedBy(q, s)
           new == {k \in Keys : res'[k].s = s /\ (IF k \in tx[q].swept THEN "expired" ELSE res'[k].status) \in Active}
<1>2. Cardinality(old) < MaxActive /\ \A k \in old : RoomType[res[k].b] # RoomType[b]
    BY CountIs
<1>3. old \subseteq ActiveOf(s) /\ IsFiniteSet(ActiveOf(s))
    BY CountedAreActive DEF LimitInv
<1>4. new \subseteq old /\ \A k \in new : res'[k].b = res[k].b
    BY Distinct DEF CountedBy, StatusSeenBy
<1>5. IsFiniteSet(old)
    BY <1>3, FS_Subset
<1>6. IsFiniteSet(new) /\ Cardinality(new) <= Cardinality(old)
    BY <1>4, <1>5, FS_Subset
<1>7. Cardinality(old) \in Nat /\ Cardinality(new) \in Nat
    BY <1>5, <1>6, FS_CardinalityType
<1>8. Cardinality(new) < MaxActive
    BY <1>2, <1>6, <1>7, MoneyAssumption
<1>9. \A k \in new : RoomType[res'[k].b] # RoomType[b]
    BY <1>2, <1>4
<1>10. new = CountedBy(q, tx[q].s)' /\ tx'[q].s = s /\ tx'[q].b = b
    BY DEF CountedBy, StatusSeenBy
<1> HIDE DEF new, s, b
<1> QED BY <1>8, <1>9, <1>10 DEF CanTakeRoom, CountedBy

\* The same of a transaction that has counted and does not move.
LEMMA CountStays ==
    ASSUME Typed, LimitInv, NEW q \in Procs, tx'[q] = tx[q], tx[q].pc \in Granted,
           \A k \in Keys : res'[k].status \in Active /\ res'[k].s = tx[q].s =>
               res[k].status \in Active /\ res[k].s = tx[q].s /\ res'[k].b = res[k].b
    PROVE  CanTakeRoom(q, tx[q].s, tx[q].b)'
<1>1. tx[q].s \in Students /\ CanTakeRoom(q, tx[q].s, tx[q].b)
    BY DEF Typed, LimitInv, RoomStillFits
<1> QED BY <1>1, CountKept

\* p goes on as r, and nobody gained a room.
LEMMA FewerStep ==
    ASSUME Typed, LimitInv, NEW p \in Procs, NEW r, Onward(p, r), NoneGained,
           r.pc # "book",
           r.pc \in Granted => /\ r.s \in Students /\ r.s = tx[p].s /\ r.b = tx[p].b /\ r.swept = tx[p].swept
                              /\ StudentFree(p, r.s) /\ CanTakeRoom(p, r.s, r.b)
    PROVE  LimitInv'
<1>1. tx'[p] = r /\ \A q \in Procs : q # p => tx'[q] = tx[q]
    BY DEF Onward, Typed
<1>2. StudentLocksExclude'
    <2>1. \A q \in Procs : q # p /\ r.pc \in Granted /\ tx[q].pc \in Granted => tx[q].s # r.s
        BY DEF StudentFree, Others, HoldsStudent, Granted
    <2> QED BY <1>1, <2>1 DEF LimitInv, StudentLocksExclude
<1>3. NothingRevived'
    BY <1>1 DEF LimitInv, NothingRevived
<1>4. RoomStillFits'
    <2> SUFFICES ASSUME NEW q \in Procs, tx'[q].pc \in Granted
                 PROVE  CanTakeRoom(q, tx[q].s, tx[q].b)'
        BY DEF RoomStillFits
    <2>1. CASE q # p
        <3>1. tx'[q] = tx[q]
            BY <1>1, <2>1
        <3> QED BY <3>1, CountStays DEF NoneGained
    <2>2. CASE q = p
        <3>1. /\ tx'[q].s = tx[q].s /\ tx'[q].b = tx[q].b /\ tx'[q].swept = tx[q].swept
              /\ CanTakeRoom(q, tx[q].s, tx[q].b) /\ r.pc \in Granted
            BY <1>1, <2>2
        <3>2. tx[q].s \in Students
            BY <1>1, <2>2, <3>1
        <3> QED BY <3>1, <3>2, CountKept DEF NoneGained
    <2> QED BY <2>1, <2>2
<1>5. \A s \in Students : IsFiniteSet(ActiveOf(s)')
    BY FewerRows
<1>6. WithinActiveLimit'
    BY FewerRows DEF WithinActiveLimit
<1>7. OneRoomTypePerStudent'
    BY FewerRows DEF OneRoomTypePerStudent
<1> QED BY <1>2, <1>3, <1>4, <1>5, <1>6, <1>7 DEF LimitInv
\* The commit that p's count was made for.
LEMMA CommitStep ==
    ASSUME Typed, LimitInv, NEW p \in Procs, tx[p].pc \in Granted,
           NEW row \in Row, CommitRow(p, row), row.s = tx[p].s, row.b = tx[p].b,
           NEW r, Onward(p, r), r.pc \notin Granted \cup {"book"}
    PROVE  LimitInv'
<1>0. PICK me : me = tx[p].s
    OBVIOUS
<1> DEFINE b == tx[p].b
           kNew == tx[p].k
           mine == CountedBy(p, me)
<1>1. tx'[p] = r /\ \A q \in Procs : q # p => tx'[q] = tx[q]
    BY DEF Onward, Typed
<1>2. me \in Students /\ CanTakeRoom(p, me, b)
    BY <1>0 DEF Typed, LimitInv, RoomStillFits
<1>3. \A k \in Keys : /\ k = kNew => res'[k] = row
                      /\ k # kNew /\ k \in tx[p].swept => res'[k].status = "expired"
                      /\ k # kNew /\ k \notin tx[p].swept => res'[k] = res[k]
    <2>1. \A k \in Keys : [res[k] EXCEPT !.status = "expired"].status = "expired"
        BY DEF Typed, Row
    <2>2. \A k \in Keys : res'[k] = IF k = kNew THEN row
                                     ELSE IF k \in tx[p].swept THEN [res[k] EXCEPT !.status = "expired"]
                                     ELSE res[k]
        BY DEF CommitRow
    <2> HIDE DEF kNew
    <2> QED BY <2>1, <2>2
<1>4. \A k \in Keys : k # kNew /\ res'[k].status \in Active =>
        k \notin tx[p].swept /\ res'[k] = res[k]
    BY <1>3, Distinct
<1>5. IsFiniteSet(ActiveOf(me)) /\ mine \subseteq ActiveOf(me)
    BY <1>2, CountedAreActive DEF LimitInv
<1>6. /\ Cardinality(mine) < MaxActive /\ IsFiniteSet(mine) /\ Cardinality(mine) \in Nat
      /\ \A k \in mine : RoomType[res[k].b] # RoomType[b]
    <2>1. IsFiniteSet(mine)
        BY <1>5, FS_Subset
    <2> QED BY <2>1, <1>2, CountIs, FS_CardinalityType
<1>7. ActiveOf(me)' \subseteq mine \cup {kNew}
    BY <1>4 DEF ActiveOf, CountedBy, StatusSeenBy
<1>8. IsFiniteSet(ActiveOf(me)') /\ Cardinality(ActiveOf(me)') <= MaxActive
    <2>1. /\ IsFiniteSet(mine \cup {kNew}) /\ Cardinality(mine \cup {kNew}) <= MaxActive
          /\ Cardinality(mine \cup {kNew}) \in Nat
        <3> HIDE DEF mine, kNew
        <3>1. /\ IsFiniteSet(mine \cup {kNew})
              /\ Cardinality(mine \cup {kNew}) =
                    IF kNew \in mine THEN Cardinality(mine) ELSE Cardinality(mine) + 1
            BY <1>6, FS_AddElement
        <3> QED BY <1>6, <3>1, MoneyAssumption
    <2>2. IsFiniteSet(ActiveOf(me)') /\ Cardinality(ActiveOf(me)') <= Cardinality(mine \cup {kNew})
        BY <1>7, <2>1, FS_Subset
    <2>3. Cardinality(ActiveOf(me)') \in Nat
        BY <2>2, FS_CardinalityType
    <2> QED BY <2>1, <2>2, <2>3, MoneyAssumption
<1>9. \A k \in ActiveOf(me)' : IF k = kNew THEN res'[k].b = b
                               ELSE k \in mine /\ res'[k].b = res[k].b
    BY <1>3, <1>4, <1>7 DEF ActiveOf
<1>10. \A j, k \in ActiveOf(me)' : RoomType[res'[j].b] = RoomType[res'[k].b] => j = k
    <2>1. \A j, k \in mine : RoomType[res[j].b] = RoomType[res[k].b] => j = k
        BY <1>2, <1>5 DEF LimitInv, OneRoomTypePerStudent
    <2> HIDE DEF mine, kNew, b
    <2> QED BY <1>6, <1>9, <2>1
<1>11. \A k \in Keys, s \in Students : s # me /\ res'[k].status \in Active /\ res'[k].s = s =>
            res[k].status \in Active /\ res[k].s = s /\ res'[k].b = res[k].b
    BY <1>0, <1>3, <1>4
<1>12. ASSUME NEW s \in Students, s # me
       PROVE  /\ ActiveOf(s)' \subseteq ActiveOf(s)
              /\ \A k \in ActiveOf(s)' : res'[k].b = res[k].b
    BY <1>11, <1>12 DEF ActiveOf
<1>13. ASSUME NEW s \in Students, s # me
       PROVE  IsFiniteSet(ActiveOf(s)') /\ Cardinality(ActiveOf(s)') <= MaxActive
    <2>1. IsFiniteSet(ActiveOf(s)) /\ Cardinality(ActiveOf(s)) <= MaxActive
        BY DEF LimitInv, WithinActiveLimit
    <2>2. IsFiniteSet(ActiveOf(s)') /\ Cardinality(ActiveOf(s)') <= Cardinality(ActiveOf(s))
        BY <1>12, <1>13, <2>1, FS_Subset
    <2>3. Cardinality(ActiveOf(s)) \in Nat /\ Cardinality(ActiveOf(s)') \in Nat
        BY <2>1, <2>2, FS_CardinalityType
    <2> QED BY <2>1, <2>2, <2>3, MoneyAssumption
<1>14. ASSUME NEW s \in Students, s # me
       PROVE  \A j, k \in ActiveOf(s)' : RoomType[res'[j].b] = RoomType[res'[k].b] => j = k
    BY <1>12, <1>14 DEF LimitInv, OneRoomTypePerStudent
<1>15. RoomStillFits'
    <2> SUFFICES ASSUME NEW q \in Procs, tx'[q].pc \in Granted
                 PROVE  CanTakeRoom(q, tx[q].s, tx[q].b)'
        BY DEF RoomStillFits
    <2>1. q # p /\ tx'[q] = tx[q] /\ tx[q].pc \in Granted
        BY <1>1
    <2>2. tx[q].s \in Students /\ tx[q].s # me
        BY <1>0, <2>1 DEF Typed, LimitInv, StudentLocksExclude
    <2>3. \A k \in Keys : res'[k].status \in Active /\ res'[k].s = tx[q].s =>
               res[k].status \in Active /\ res[k].s = tx[q].s /\ res'[k].b = res[k].b
        BY <1>11, <2>2
    <2> QED BY <2>1, <2>3, CountStays
<1>16. StudentLocksExclude' /\ NothingRevived'
    BY <1>1 DEF LimitInv, StudentLocksExclude, NothingRevived
<1>17. WithinActiveLimit' /\ OneRoomTypePerStudent' /\ \A s \in Students : IsFiniteSet(ActiveOf(s)')
    <2> QED BY <1>8, <1>10, <1>13, <1>14 DEF WithinActiveLimit, OneRoomTypePerStudent
<1> QED BY <1>15, <1>16, <1>17 DEF LimitInv
---------------------------------------------------------------------------
(* The statements of the handlers.                                         *)

LEMMA NoRowWritten == ASSUME UNCHANGED res PROVE NoneGained
BY DEF NoneGained

LEMMA EndStep ==
    ASSUME Typed, LimitInv, NEW p \in Procs, End(p), NoneGained
    PROVE  LimitInv'
BY Distinct, FewerStep DEF End, Onward

LEMMA OutsideStep ==
    ASSUME Typed, LimitInv, UNCHANGED tx, NoneGained
    PROVE  LimitInv'
<1>1. CASE Procs = {}
    <2>1. \A s \in Students : /\ IsFiniteSet(ActiveOf(s)') /\ Cardinality(ActiveOf(s)') <= MaxActive
                             /\ \A j, k \in ActiveOf(s)' : RoomType[res'[j].b] = RoomType[res'[k].b] => j = k
        BY FewerRows
    <2> QED BY <1>1, <2>1 DEF LimitInv, StudentLocksExclude, RoomStillFits, NothingRevived,
               WithinActiveLimit, OneRoomTypePerStudent
<1>2. ASSUME NEW p \in Procs PROVE LimitInv'
    <2>1. Onward(p, tx[p]) /\ tx[p].pc # "book"
        BY DEF Typed, Onward, LimitInv, NothingRevived
    <2>2. tx[p].pc \in Granted => /\ tx[p].s \in Students /\ StudentFree(p, tx[p].s)
                                  /\ CanTakeRoom(p, tx[p].s, tx[p].b)
        BY DEF Typed, LimitInv, StudentLocksExclude, RoomStillFits, StudentFree, Others,
               HoldsStudent, Granted
    <2> QED BY <2>1, <2>2, FewerStep
<1> QED BY <1>1, <1>2

LEMMA AbortStep == ASSUME Typed, LimitInv, NEW p \in Procs, Abort(p) PROVE LimitInv'
BY NoRowWritten, EndStep DEF Abort, tables

LEMMA FailStep == ASSUME Typed, LimitInv, NEW p \in Procs, Fail(p) PROVE LimitInv'
BY NoRowWritten, EndStep DEF Fail, tables

LEMMA BeginStep ==
    ASSUME Typed, LimitInv, NEW p \in Procs, NEW r, Begin(p, r), r.pc \notin Granted \cup {"book"},
           UNCHANGED res
    PROVE  LimitInv'
BY NoRowWritten, FewerStep DEF Begin, Onward

LEMMA DecideStep ==
    ASSUME Typed, LimitInv, NEW p \in Procs, NEW k, NEW c, NEW a, Decide(p, k, c, a),
           c \notin Granted \cup {"book"}
    PROVE  LimitInv'
BY BeginStep DEF Decide, NoTx, tables

LEMMA RequestStep ==
    ASSUME Typed, LimitInv, ~Revivable, NEW p \in Procs, Request(p) \/ ExpireRead(p)
    PROVE  LimitInv'
<1>1. CASE ReserveStart(p)
    <2>1. PICK s \in Students, b \in Beds, k \in ReserveKeys :
            Begin(p, [NoTx EXCEPT !.pc = "sweep", !.s = s, !.b = b, !.k = k])
        BY <1>1 DEF ReserveStart
    <2> QED BY <1>1, <2>1, BeginStep DEF ReserveStart, tables, NoTx, Granted
<1>2. CASE IntakeStart(p)
    <2>1. PICK s \in Students, b \in Beds, k \in IntakeKeys, f \in Fees, m \in BOOLEAN :
            Begin(p, [NoTx EXCEPT !.pc = "intakeSweep", !.s = s, !.b = b, !.k = k,
                                  !.amt = f, !.moved = m])
        BY <1>2 DEF IntakeStart
    <2> QED BY <1>2, <2>1, BeginStep DEF IntakeStart, tables, NoTx, Granted
<1>3. CASE PayRead(p)
    <2>1. PICK k \in Keys, y \in PayKeys, a \in 1 .. Price :
            Begin(p, [NoTx EXCEPT !.pc = "pay", !.k = k, !.pay = y, !.amt = a])
        BY <1>3 DEF PayRead
    <2> QED BY <1>3, <2>1, BeginStep DEF PayRead, tables, NoTx, Granted
<1>4. CASE CancelRead(p) \/ ReleaseRead(p) \/ AskRead(p) \/ MoveInRead(p)
    BY <1>4, DecideStep DEF CancelRead, ReleaseRead, AskRead, MoveInRead, Granted
<1>5. CASE ExpireRead(p)
    <2>1. CASE \E k \in job : Decide(p, k, "expire", 0)
        BY <2>1, DecideStep DEF Granted
    <2>2. CASE UNCHANGED <<tables, tx>>
        BY <2>2, NoRowWritten, OutsideStep DEF tables
    <2> QED BY <1>5, <2>1, <2>2 DEF ExpireRead
<1> QED BY <1>1, <1>2, <1>3, <1>4, <1>5 DEF Request, Revivable, BookRead

\* The next statement of a transaction whose count, if it is made, is good.
LEMMA GotoStep ==
    ASSUME Typed, LimitInv, NEW p \in Procs, NEW c \in Granted, Goto(p, c), UNCHANGED res,
           tx[p].s \in Students, StudentFree(p, tx[p].s), CanTakeRoom(p, tx[p].s, tx[p].b)
    PROVE  LimitInv'
<1> DEFINE r == [tx[p] EXCEPT !.pc = c]
<1>1. /\ r.pc = c /\ r.s = tx[p].s /\ r.b = tx[p].b /\ r.swept = tx[p].swept
    BY DEF Typed, Tx
<1>2. Onward(p, r)
    BY DEF Onward, Goto, Typed
<1> HIDE DEF r
<1>3. r.pc # "book"
    BY <1>1 DEF Granted
<1> QED BY <1>1, <1>2, <1>3, NoRowWritten, FewerStep

\* A student who has been counted is nobody else's to count.
LEMMA AlreadyFree ==
    ASSUME Typed, LimitInv, NEW p \in Procs, tx[p].pc \in Granted
    PROVE  /\ tx[p].s \in Students /\ StudentFree(p, tx[p].s)
           /\ CanTakeRoom(p, tx[p].s, tx[p].b)
BY DEF Typed, LimitInv, StudentLocksExclude, RoomStillFits, StudentFree, Others, HoldsStudent, Granted

\* A sweep marks the holds it found; the student is not counted yet.
LEMMA SweptStep ==
    ASSUME Typed, LimitInv, NEW p \in Procs, NEW D, NEW c, c \notin Granted \cup {"book"},
           tx' = [tx EXCEPT ![p].swept = D, ![p].pc = c], UNCHANGED res
    PROVE  LimitInv'
<1> DEFINE r == [tx[p] EXCEPT !.swept = D, !.pc = c]
<1>1. r.pc = c
    BY DEF Typed, Tx
<1>2. Onward(p, r)
    BY DEF Onward, Typed
<1> HIDE DEF r
<1> QED BY <1>1, <1>2, NoRowWritten, FewerStep

LEMMA ReserveStep ==
    ASSUME Typed, LimitInv, NEW p \in Procs, Reserve(p)
    PROVE  LimitInv'
<1>1. CASE Abort(p)
    BY <1>1, AbortStep
<1>2. CASE ReserveSweep(p)
    <2>1. tx' = [tx EXCEPT ![p].swept = Overdue, ![p].pc = "limits"] /\ UNCHANGED res
        BY <1>2 DEF ReserveSweep, tables
    <2>2. "limits" \notin Granted \cup {"book"}
        BY DEF Granted
    <2> QED BY <2>1, <2>2, SweptStep
<1>3. CASE ReserveLimits(p) /\ ~Abort(p)
    <2>1. /\ tx[p].pc = "limits" /\ StudentFree(p, tx[p].s) /\ CanTakeRoom(p, tx[p].s, tx[p].b)
          /\ Goto(p, "insert") /\ UNCHANGED res
        BY <1>3 DEF ReserveLimits, tables
    <2>2. tx[p].s \in Students
        BY <2>1 DEF Typed
    <2> QED BY <2>1, <2>2, GotoStep DEF Granted
<1>4. CASE ReserveInsert(p) /\ ~Abort(p)
    <2>1. tx[p].pc \in Granted /\ Goto(p, "fk") /\ UNCHANGED res
        BY <1>4 DEF ReserveInsert, tables, Granted
    <2> QED BY <2>1, AlreadyFree, GotoStep DEF Granted
<1>5. CASE ReserveCommit(p)
    <2> DEFINE row == [NoRow EXCEPT !.status = "reserved", !.s = tx[p].s, !.b = tx[p].b]
               r == [tx[p] EXCEPT !.pc = "after", !.swept = {}]
    <2>1. tx[p].pc \in Granted /\ CommitRow(p, row)
        BY <1>5 DEF ReserveCommit, Granted
    <2>2. row \in Row /\ row.s = tx[p].s /\ row.b = tx[p].b
        BY DEF Row, NoRow, Live, Typed, Tx
    <2>3. Onward(p, r) /\ r.pc = "after"
        BY <1>5 DEF ReserveCommit, Onward, Typed, Tx
    <2> HIDE DEF row, r
    <2>4. r.pc \notin Granted \cup {"book"}
        BY <2>3 DEF Granted
    <2> QED BY <2>1, <2>2, <2>3, <2>4, CommitStep
<1>6. CASE ReserveAfter(p)
    BY <1>6, NoRowWritten, EndStep DEF ReserveAfter, tables
<1> QED BY <1>1, <1>2, <1>3, <1>4, <1>5, <1>6 DEF Reserve

LEMMA IntakeStep ==
    ASSUME Typed, LimitInv, NEW p \in Procs, Intake(p)
    PROVE  LimitInv'
<1>1. CASE Abort(p)
    BY <1>1, AbortStep
<1>2. CASE IntakeSweep(p) /\ ~Abort(p)
    <2>1. PICK D : tx' = [tx EXCEPT ![p].swept = D, ![p].pc = "intakeLimits"] /\ UNCHANGED res
        BY <1>2 DEF IntakeSweep, tables
    <2>2. "intakeLimits" \notin Granted \cup {"book"}
        BY DEF Granted
    <2> QED BY <2>1, <2>2, SweptStep
<1>3. CASE IntakeLimits(p) /\ ~Abort(p)
    <2>1. /\ tx[p].pc = "intakeLimits" /\ StudentFree(p, tx[p].s) /\ CanTakeRoom(p, tx[p].s, tx[p].b)
          /\ Goto(p, "intakeInsert") /\ UNCHANGED res
        BY <1>3 DEF IntakeLimits, tables
    <2>2. tx[p].s \in Students
        BY <2>1 DEF Typed
    <2> QED BY <2>1, <2>2, GotoStep DEF Granted
<1>4. CASE IntakeInsert(p) /\ ~Abort(p)
    <2> DEFINE row == [NoRow EXCEPT !.s = tx[p].s, !.b = tx[p].b, !.fee = tx[p].amt,
                                    !.status = IF tx[p].moved THEN "occupied" ELSE "booked"]
    <2>1. tx[p].pc \in Granted /\ CommitRow(p, row) /\ End(p)
        BY <1>4 DEF IntakeInsert, Granted
    <2>2. row \in Row /\ row.s = tx[p].s /\ row.b = tx[p].b
        BY DEF Row, NoRow, Live, Typed, Tx
    <2> HIDE DEF row
    <2>3. Onward(p, NoTx)
        BY <2>1 DEF End, Onward
    <2> QED BY <2>1, <2>2, <2>3, Distinct, CommitStep
<1> QED BY <1>1, <1>2, <1>3, <1>4 DEF Intake

\* A row that is given up, ends, or is moved into is no room on hold.
LEMMA RowEnds ==
    ASSUME Typed, NEW k, NEW st, st \notin Active, SetStatus(k, st)
    PROVE  NoneGained
<1>1. \A j \in Keys : j # k => res'[j] = res[j]
    BY DEF SetStatus, Typed
<1>2. k \in Keys => res'[k].status = st
    BY DEF SetStatus, Typed, Row
<1> QED BY <1>1, <1>2 DEF NoneGained

LEMMA WriteStep ==
    ASSUME Typed, LimitInv, NEW p \in Procs, Write(p)
    PROVE  LimitInv'
<1>1. CASE BookWrite(p)
    BY <1>1 DEF BookWrite, LimitInv, NothingRevived
<1>2. CASE CancelWrite(p) \/ ReleaseWrite(p) \/ ExpireWrite(p) \/ MoveInWrite(p)
    <2>1. \E k, st : st \notin Active /\ SetStatus(k, st)
        BY <1>2 DEF CancelWrite, ReleaseWrite, ExpireWrite, MoveInWrite, Active
    <2>2. NoneGained
        BY <2>1, RowEnds
    <2> QED BY <1>2, <2>2, EndStep DEF CancelWrite, ReleaseWrite, ExpireWrite, MoveInWrite
<1>3. CASE AskWrite(p) \/ PayWrite(p)
    BY <1>3, NoRowWritten, EndStep DEF AskWrite, PayWrite
<1> QED BY <1>1, <1>2, <1>3 DEF Write

LEMMA SweepStep == ASSUME Typed, LimitInv, Sweep PROVE LimitInv'
<1>1. \A k \in Keys : IF k \in Overdue THEN res'[k].status = "expired" ELSE res'[k] = res[k]
    BY DEF Sweep, Typed, Row
<1>2. NoneGained
    BY <1>1, Distinct DEF NoneGained
<1> QED BY <1>2, OutsideStep DEF Sweep

LEMMA HoldEndsStep == ASSUME Typed, LimitInv, NEW k \in Keys, HoldEnds(k) PROVE LimitInv'
<1>1. res[k] \in Row /\ res' = [res EXCEPT ![k].due = TRUE]
    BY DEF HoldEnds, Typed
<1>2. NoneGained
    BY <1>1 DEF NoneGained, Typed, Row
<1> QED BY <1>2, OutsideStep DEF HoldEnds

\* Time: the minute sweep, the end of a hold's window, the key in Redis.
LEMMA TimeStep ==
    ASSUME Typed, LimitInv,
           Sweep \/ (\E k \in Keys : HoldEnds(k)) \/ (\E b \in Beds : LockTimesOut(b))
    PROVE  LimitInv'
<1>1. CASE \E b \in Beds : LockTimesOut(b)
    BY <1>1, NoRowWritten, OutsideStep DEF LockTimesOut, tables
<1> QED BY <1>1, SweepStep, HoldEndsStep

LEMMA InitLimits == Init => LimitInv
<1> SUFFICES ASSUME Init PROVE LimitInv
    OBVIOUS
<1>1. \A s \in Students : ActiveOf(s) = {}
    BY DEF Init, ActiveOf, NoRow, Active
<1>2. IsFiniteSet({}) /\ Cardinality({}) <= MaxActive
    BY FS_EmptySet, MoneyAssumption
<1>3. \A p \in Procs : tx[p].pc \notin Granted \cup {"book"}
    BY Distinct DEF Init
<1> QED BY <1>1, <1>2, <1>3 DEF LimitInv, StudentLocksExclude, RoomStillFits, NothingRevived,
           WithinActiveLimit, OneRoomTypePerStudent

\* Every step of a request or of time.
LEMMA NextLimits ==
    ASSUME Typed, LimitInv, ~Revivable, [Next]_vars
    PROVE  LimitInv'
<1>1. CASE \E p \in Procs : Request(p) \/ ExpireRead(p) \/ Proceed(p) \/ Fail(p)
    BY <1>1, RequestStep, ReserveStep, IntakeStep, WriteStep, AbortStep, FailStep
       DEF Proceed, DeadlockVictim
<1>2. CASE UNCHANGED vars
    BY <1>2, NoRowWritten, OutsideStep DEF vars
<1> QED BY <1>1, <1>2, TimeStep DEF Next
=============================================================================
