------------------------- MODULE ReservationsProofs -------------------------
(***************************************************************************)
(* Proofs about Reservations, for every set of students, beds, requests    *)
(* and keys, every rent and every set of handlers in play.                 *)
(***************************************************************************)
EXTENDS ReservationsInv, TLAPS

USE KeysAssumption DEF Keys

\* The sets of statements, for leaves that have to tell them apart.
LEMMA Statements ==
    /\ Reserving \cap Intaking = {} /\ Reserving \cap Deciding = {} /\ Intaking \cap Deciding = {}
    /\ "idle" \notin Reserving \cup Intaking \cup Deciding \cup Sweeping
    /\ Sweeping \subseteq Reserving \cup Intaking
BY DEF Reserving, Intaking, Deciding, Sweeping

---------------------------------------------------------------------------
(* Steps that change only a transaction's own record.                      *)

\* What r has to satisfy to be the record of transaction p.
Sound(p, r) ==
    /\ r \in Tx
    /\ r.pc \in Reserving => r.k \in ReserveKeys /\ r.s \in Students /\ r.b \in Beds
    /\ r.pc \in Intaking => /\ r.k \in IntakeKeys /\ r.s \in Students /\ r.b \in Beds
                            /\ res[r.k].status = "none"
                            /\ \A q \in Others(p) : tx[q].k # r.k
    /\ r.pc \in Deciding => r.k \in Keys /\ res[r.k].status # "none"
    /\ r.pc \notin Sweeping => r.swept = {}
    /\ \A k \in r.swept : k \in Overdue /\ RowFree(p, k)
    /\ r.pc = "moveIn" => RowFree(p, r.k) /\ res[r.k].status = "booked"
    /\ r.pc = "pay" => /\ RowFree(p, r.k)
                       /\ r.pay \in PayKeys
                       /\ res[r.k].status \in {"booked", "occupied"}
                       /\ paid[r.k] + r.amt <= Price
    /\ \A q \in Others(p) : tx[q].pc \in Intaking => tx[q].k # r.k
    /\ r.pc = "fk" =>
        /\ res[r.k].status = "none"
        /\ \A j \in Keys : res[j].b = r.b /\ res[j].status \in Live => j \in r.swept
        /\ \A q \in Others(p) : tx[q].pc = "fk" => tx[q].b # r.b /\ tx[q].k # r.k

LEMMA TxStepKeeps ==
    ASSUME IInv, TypeOK', NEW p \in Procs, NEW r, Sound(p, r),
           tx' = [tx EXCEPT ![p] = r], res' = res, paid' = paid
    PROVE  IInv'
<1>1. tx'[p] = r /\ \A q \in Procs : q # p => tx'[q] = tx[q]
  BY DEF IInv, TypeOK
<1>2. TxCarries'
  BY <1>1 DEF IInv, TxCarries, Sound
<1>3. RowLocksExclude'
  BY <1>1 DEF IInv, RowLocksExclude, HoldsRow, RowFree, Others, Sound
<1>4. LockedRowsHold'
  BY <1>1 DEF IInv, LockedRowsHold, Overdue, Sound
<1>5. IntakeKeyIsMine'
  BY <1>1 DEF IInv, IntakeKeyIsMine, Others, Sound
<1>6. SlotIsMine'
  BY <1>1 DEF IInv, SlotIsMine, Others, Sound
<1>7. OneLiveClaimPerBed'
  BY DEF IInv, OneLiveClaimPerBed
<1>. QED
  BY <1>2, <1>3, <1>4, <1>5, <1>6, <1>7 DEF IInv

LEMMA NoTxSound == ASSUME IInv, NEW p \in Procs PROVE Sound(p, NoTx)
<1>1. NoTx \in Tx /\ NoTx.pc = "idle" /\ NoTx.swept = {} /\ NoTx.k = None
  BY DEF NoTx, Tx, PCs
<1>2. \A q \in Procs : tx[q].pc \in Intaking => tx[q].k # None
  BY DEF IInv, TxCarries
<1>. QED
  BY <1>1, <1>2, Statements DEF Sound, Others

LEMMA EndKeeps ==
    ASSUME IInv, TypeOK', NEW p \in Procs, End(p), res' = res, paid' = paid
    PROVE  IInv'
BY NoTxSound, TxStepKeeps DEF End

LEMMA EndType ==
    ASSUME IInv, NEW p \in Procs, End(p)
    PROVE  tx' \in [Procs -> Tx] /\ \A q \in Procs : tx'[q] = IF q = p THEN NoTx ELSE tx[q]
BY DEF IInv, TypeOK, End, NoTx, Tx, PCs

LEMMA AbortKeeps == ASSUME IInv, NEW p \in Procs, Abort(p) PROVE IInv'
<1>1. TypeOK'
  BY EndType DEF IInv, TypeOK, Abort, DropRedisLock, tables
<1>. QED
  BY <1>1, EndKeeps DEF Abort, tables

LEMMA FailKeeps == ASSUME IInv, NEW p \in Procs, Fail(p) PROVE IInv'
<1>1. TypeOK'
  BY EndType DEF IInv, TypeOK, Fail, DropRedisLock, tables
<1>. QED
  BY <1>1, EndKeeps DEF Fail, tables

---------------------------------------------------------------------------
(* The statements of reserve and of the intake that write nothing.         *)

LEMMA ReserveStartKeeps == ASSUME IInv, NEW p \in Procs, ReserveStart(p) PROVE IInv'
<1>1. PICK s \in Students, b \in Beds, k \in ReserveKeys :
        /\ redisLock' = redisLock \cup {b}
        /\ Begin(p, [NoTx EXCEPT !.pc = "sweep", !.s = s, !.b = b, !.k = k])
  BY DEF ReserveStart
<1>. DEFINE r == [NoTx EXCEPT !.pc = "sweep", !.s = s, !.b = b, !.k = k]
<1>2. r \in Tx /\ r.pc = "sweep" /\ r.s = s /\ r.b = b /\ r.k = k /\ r.swept = {}
  BY DEF NoTx, Tx, PCs
<1>. HIDE DEF r
<1>3. TypeOK' /\ res' = res /\ paid' = paid
  BY <1>1, <1>2 DEF IInv, TypeOK, ReserveStart, Begin, tables, r
<1>4. Sound(p, r)
  BY <1>2 DEF Sound, Reserving, Intaking, Deciding, Sweeping, Others, IInv, TxCarries
<1>. QED
  BY <1>1, <1>3, <1>4, TxStepKeeps DEF Begin, r

LEMMA ReserveSweepKeeps == ASSUME IInv, NEW p \in Procs, ReserveSweep(p) PROVE IInv'
<1>. DEFINE r == [tx[p] EXCEPT !.swept = Overdue, !.pc = "limits"]
<1>1. tx[p] \in Tx /\ tx[p].pc = "sweep"
  BY DEF IInv, TypeOK, ReserveSweep
<1>2. r \in Tx /\ r.pc = "limits" /\ r.s = tx[p].s /\ r.b = tx[p].b /\ r.k = tx[p].k /\ r.swept = Overdue
  BY <1>1 DEF Tx, PCs, Overdue
<1>3. tx' = [tx EXCEPT ![p] = r]
  BY DEF ReserveSweep, IInv, TypeOK
<1>. HIDE DEF r
<1>4. TypeOK' /\ res' = res /\ paid' = paid
  BY <1>2, <1>3 DEF IInv, TypeOK, ReserveSweep, tables
<1>5. Sound(p, r)
  BY <1>1, <1>2 DEF Sound, Reserving, Intaking, Deciding, Sweeping, Others, IInv, TxCarries, ReserveSweep
<1>. QED
  BY <1>3, <1>4, <1>5, TxStepKeeps

\* Moving on to the next statement changes nothing else in the record.
LEMMA GotoRecord ==
    ASSUME IInv, NEW p \in Procs, NEW c \in PCs, Goto(p, c)
    PROVE  \E r \in Tx : /\ tx' = [tx EXCEPT ![p] = r]
                         /\ r.pc = c /\ r.k = tx[p].k /\ r.s = tx[p].s /\ r.b = tx[p].b
                         /\ r.amt = tx[p].amt /\ r.pay = tx[p].pay /\ r.swept = tx[p].swept
<1>. DEFINE r == [tx[p] EXCEPT !.pc = c]
<1>1. tx[p] \in Tx
  BY DEF IInv, TypeOK
<1>2. r \in Tx /\ r.pc = c /\ r.k = tx[p].k /\ r.s = tx[p].s /\ r.b = tx[p].b
      /\ r.amt = tx[p].amt /\ r.pay = tx[p].pay /\ r.swept = tx[p].swept
  BY <1>1 DEF Tx
<1>3. tx' = [tx EXCEPT ![p] = r]
  BY DEF Goto, IInv, TypeOK
<1>. QED
  BY <1>2, <1>3

\* What p has swept it still holds.
LEMMA SweptIsHeld ==
    ASSUME IInv, NEW p \in Procs, NEW k \in tx[p].swept
    PROVE  k \in Overdue /\ RowFree(p, k)
<1>1. k \in Keys
  BY DEF IInv, LockedRowsHold, Overdue
<1>. QED
  BY <1>1 DEF IInv, LockedRowsHold, RowLocksExclude, HoldsRow, RowFree, Others

LEMMA ReserveLimitsKeeps == ASSUME IInv, NEW p \in Procs, ReserveLimits(p) PROVE IInv'
<1>1. CASE CanTakeRoom(p, tx[p].s, tx[p].b)
  <2>1. tx[p].pc = "limits" /\ Goto(p, "insert") /\ UNCHANGED <<tables, job, redisLock>>
    BY <1>1 DEF ReserveLimits
  <2>2. PICK r \in Tx : /\ tx' = [tx EXCEPT ![p] = r]
                        /\ r.pc = "insert" /\ r.k = tx[p].k /\ r.s = tx[p].s
                        /\ r.b = tx[p].b /\ r.swept = tx[p].swept
    BY <2>1, GotoRecord DEF PCs
  <2>3. TypeOK' /\ res' = res /\ paid' = paid
    BY <2>1, <2>2 DEF IInv, TypeOK, tables
  <2>4. Sound(p, r)
    BY <2>1, <2>2, SweptIsHeld
       DEF Sound, Reserving, Intaking, Deciding, Sweeping, Others, IInv, TxCarries
  <2>. QED
    BY <2>2, <2>3, <2>4, TxStepKeeps
<1>2. CASE ~CanTakeRoom(p, tx[p].s, tx[p].b)
  BY <1>2, AbortKeeps DEF ReserveLimits
<1>. QED
  BY <1>1, <1>2

\* The unique checks that pass give the reserve its bed and its key.
LEMMA ReserveInsertKeeps == ASSUME IInv, NEW p \in Procs, ReserveInsert(p) PROVE IInv'
<1>. DEFINE ok == IndexAllows(p, tx[p].k, tx[p].b) /\ res[tx[p].k].status = "none"
<1>1. CASE ok
  <2>1. tx[p].pc = "insert" /\ Goto(p, "fk") /\ UNCHANGED <<tables, job, redisLock>>
    BY <1>1 DEF ReserveInsert
  <2>2. PICK r \in Tx : /\ tx' = [tx EXCEPT ![p] = r]
                        /\ r.pc = "fk" /\ r.k = tx[p].k /\ r.s = tx[p].s
                        /\ r.b = tx[p].b /\ r.swept = tx[p].swept
    BY <2>1, GotoRecord DEF PCs
  <2>3. TypeOK' /\ res' = res /\ paid' = paid
    BY <2>1, <2>2 DEF IInv, TypeOK, tables
  <2>4. \A j \in Keys : res[j].b = r.b /\ res[j].status \in Live => j \in r.swept
    BY <1>1, <2>2 DEF IndexAllows, StatusSeenBy, Live
  <2>5. \A q \in Others(p) : tx[q].pc = "fk" => tx[q].b # r.b /\ tx[q].k # r.k
    BY <2>2 DEF ReserveInsert, IndexSettled, IndexBusy, HoldsSlot
  <2>6. Sound(p, r)
    BY <1>1, <2>1, <2>2, <2>4, <2>5, SweptIsHeld
       DEF Sound, Reserving, Intaking, Deciding, Sweeping, Others, IInv, TxCarries
  <2>. QED
    BY <2>2, <2>3, <2>6, TxStepKeeps
<1>2. CASE ~ok
  BY <1>2, AbortKeeps DEF ReserveInsert
<1>. QED
  BY <1>1, <1>2

LEMMA ReserveAfterKeeps == ASSUME IInv, NEW p \in Procs, ReserveAfter(p) PROVE IInv'
<1>1. TypeOK'
  BY EndType DEF IInv, TypeOK, ReserveAfter, DropRedisLock, tables, TxCarries, Reserving
<1>. QED
  BY <1>1, EndKeeps DEF ReserveAfter, tables

LEMMA IntakeStartKeeps == ASSUME IInv, NEW p \in Procs, IntakeStart(p) PROVE IInv'
<1>1. PICK s \in Students, b \in Beds, k \in IntakeKeys, f \in Fees, m \in BOOLEAN :
        /\ res[k].status = "none"
        /\ \A q \in Procs : tx[q].k # k
        /\ Begin(p, [NoTx EXCEPT !.pc = "intakeSweep", !.s = s, !.b = b, !.k = k,
                                 !.amt = f, !.moved = m])
  BY DEF IntakeStart
<1>. DEFINE r == [NoTx EXCEPT !.pc = "intakeSweep", !.s = s, !.b = b, !.k = k,
                              !.amt = f, !.moved = m]
<1>2. r \in Tx /\ r.pc = "intakeSweep" /\ r.s = s /\ r.b = b /\ r.k = k /\ r.swept = {}
  BY MoneyAssumption DEF NoTx, Tx, PCs
<1>. HIDE DEF r
<1>3. TypeOK' /\ res' = res /\ paid' = paid
  BY <1>1, <1>2 DEF IInv, TypeOK, IntakeStart, Begin, tables, r
<1>4. Sound(p, r)
  BY <1>1, <1>2 DEF Sound, Reserving, Intaking, Deciding, Sweeping, Others, IInv, TxCarries
<1>. QED
  BY <1>1, <1>3, <1>4, TxStepKeeps DEF Begin, r

LEMMA IntakeSweepKeeps == ASSUME IInv, NEW p \in Procs, IntakeSweep(p) PROVE IInv'
<1>. DEFINE D == {k \in Overdue : res[k].b = tx[p].b}
            free == \A k \in Keys \ D : res[k].b = tx[p].b => res[k].status \notin Live
            r == [tx[p] EXCEPT !.swept = D, !.pc = "intakeLimits"]
<1>1. CASE free
  <2>1. tx[p] \in Tx /\ tx[p].pc = "intakeSweep" /\ D \subseteq Overdue
    BY DEF IInv, TypeOK, IntakeSweep
  <2>2. r \in Tx /\ r.pc = "intakeLimits" /\ r.s = tx[p].s /\ r.b = tx[p].b /\ r.k = tx[p].k /\ r.swept = D
    BY <2>1 DEF Tx, PCs, Overdue
  <2>3. tx' = [tx EXCEPT ![p] = r] /\ \A k \in D : RowFree(p, k)
    BY <1>1 DEF IntakeSweep, IInv, TypeOK
  <2>. HIDE DEF r, D, free
  <2>4. TypeOK' /\ res' = res /\ paid' = paid
    BY <1>1, <2>2, <2>3 DEF IInv, TypeOK, IntakeSweep, tables, free, D
  <2>5. Sound(p, r)
    BY <2>1, <2>2, <2>3
       DEF Sound, Reserving, Intaking, Deciding, Sweeping, Others, IInv, TxCarries, IntakeKeyIsMine
  <2>. QED
    BY <2>3, <2>4, <2>5, TxStepKeeps
<1>2. CASE ~free
  BY <1>2, AbortKeeps DEF IntakeSweep
<1>. QED
  BY <1>1, <1>2

LEMMA IntakeLimitsKeeps == ASSUME IInv, NEW p \in Procs, IntakeLimits(p) PROVE IInv'
<1>. DEFINE ok == CanTakeRoom(p, tx[p].s, tx[p].b) /\ ~LockedIn(tx[p].s)
<1>1. CASE ok
  <2>1. tx[p].pc = "intakeLimits" /\ Goto(p, "intakeInsert") /\ UNCHANGED <<tables, job, redisLock>>
    BY <1>1 DEF IntakeLimits
  <2>2. PICK r \in Tx : /\ tx' = [tx EXCEPT ![p] = r]
                        /\ r.pc = "intakeInsert" /\ r.k = tx[p].k /\ r.s = tx[p].s
                        /\ r.b = tx[p].b /\ r.swept = tx[p].swept
    BY <2>1, GotoRecord DEF PCs
  <2>3. TypeOK' /\ res' = res /\ paid' = paid
    BY <2>1, <2>2 DEF IInv, TypeOK, tables
  <2>4. Sound(p, r)
    BY <2>1, <2>2, SweptIsHeld
       DEF Sound, Reserving, Intaking, Deciding, Sweeping, Others, IInv, TxCarries, IntakeKeyIsMine
  <2>. QED
    BY <2>2, <2>3, <2>4, TxStepKeeps
<1>2. CASE ~ok
  BY <1>2, AbortKeeps DEF IntakeLimits
<1>. QED
  BY <1>1, <1>2

---------------------------------------------------------------------------
(* Reading the row a handler will write.                                   *)

LEMMA DecideKeeps ==
    ASSUME IInv, NEW p \in Procs, NEW k \in Keys, NEW c \in Deciding \ {"pay"}, NEW a \in Nat,
           res[k].status # "none", Decide(p, k, c, a),
           c = "moveIn" => RowFree(p, k) /\ res[k].status = "booked"
    PROVE  IInv'
<1>. DEFINE r == [NoTx EXCEPT !.pc = c, !.k = k, !.amt = a]
<1>1. r \in Tx /\ r.pc = c /\ r.k = k /\ r.swept = {}
  BY DEF NoTx, Tx, PCs, Deciding
<1>2. tx' = [tx EXCEPT ![p] = r]
  BY DEF Decide, Begin
<1>. HIDE DEF r
<1>3. TypeOK' /\ res' = res /\ paid' = paid
  BY <1>1, <1>2 DEF IInv, TypeOK, Decide, tables
<1>4. Sound(p, r)
  BY <1>1, Statements DEF Sound, Others, IInv, IntakeKeyIsMine, Deciding
<1>. QED
  BY <1>2, <1>3, <1>4, TxStepKeeps

LEMMA PayReadKeeps == ASSUME IInv, NEW p \in Procs, PayRead(p) PROVE IInv'
<1>1. PICK k \in Keys, y \in PayKeys, a \in 1..Price :
        /\ RowFree(p, k)
        /\ res[k].status \in {"booked", "occupied"}
        /\ paid[k] + a <= Price
        /\ Begin(p, [NoTx EXCEPT !.pc = "pay", !.k = k, !.pay = y, !.amt = a])
  BY DEF PayRead
<1>. DEFINE r == [NoTx EXCEPT !.pc = "pay", !.k = k, !.pay = y, !.amt = a]
<1>0. a \in Nat
  BY MoneyAssumption
<1>2. r \in Tx /\ r.pc = "pay" /\ r.k = k /\ r.pay = y /\ r.amt = a /\ r.swept = {}
  BY <1>0 DEF NoTx, Tx, PCs
<1>3. tx' = [tx EXCEPT ![p] = r]
  BY <1>1 DEF Begin
<1>. HIDE DEF r
<1>4. TypeOK' /\ res' = res /\ paid' = paid
  BY <1>2, <1>3 DEF IInv, TypeOK, PayRead, tables
<1>5. Sound(p, r)
  BY <1>1, <1>2
     DEF Sound, Reserving, Intaking, Deciding, Sweeping, Others, IInv, IntakeKeyIsMine
<1>. QED
  BY <1>3, <1>4, <1>5, TxStepKeeps

LEMMA RequestKeeps == ASSUME IInv, NEW p \in Procs, Request(p) PROVE IInv'
<1>1. CASE BookRead(p)
  BY <1>1, DecideKeeps, MoneyAssumption DEF BookRead, Deciding
<1>2. CASE CancelRead(p)
  BY <1>2, DecideKeeps DEF CancelRead, Deciding
<1>3. CASE ReleaseRead(p)
  <2>1. PICK k \in Keys : res[k].status \in Active /\ Decide(p, k, "release", res[k].fee)
    BY <1>3 DEF ReleaseRead
  <2>2. res[k].fee \in Nat /\ res[k].status # "none"
    BY <2>1 DEF IInv, TypeOK, Row, Active
  <2>. QED
    BY <2>1, <2>2, DecideKeeps DEF Deciding
<1>4. CASE AskRead(p)
  BY <1>4, DecideKeeps DEF AskRead, Deciding
<1>5. CASE MoveInRead(p)
  BY <1>5, DecideKeeps DEF MoveInRead, Deciding
<1>. QED
  BY <1>1, <1>2, <1>3, <1>4, <1>5, ReserveStartKeeps, IntakeStartKeeps, PayReadKeeps DEF Request

LEMMA ExpireReadKeeps == ASSUME IInv, NEW p \in Procs, ExpireRead(p) PROVE IInv'
<1>1. PICK k \in job :
        IF res[k].status = "reserved"
        THEN Decide(p, k, "expire", 0)
        ELSE tx[p].pc = "idle" /\ job' = job \ {k} /\ UNCHANGED <<tables, redisLock, tx>>
  BY DEF ExpireRead
<1>2. k \in Keys
  BY DEF IInv, TypeOK
<1>3. CASE res[k].status = "reserved"
  BY <1>1, <1>2, <1>3, DecideKeeps DEF Deciding
<1>4. CASE res[k].status # "reserved"
  BY <1>1, <1>4 DEF IInv, TypeOK, tables, TxCarries, RowLocksExclude, HoldsRow, LockedRowsHold,
     Overdue, IntakeKeyIsMine, SlotIsMine, OneLiveClaimPerBed
<1>. QED
  BY <1>3, <1>4

---------------------------------------------------------------------------
(* Writes by id to a row nobody else has locked.                           *)

\* The handler may revive the row only where the unique index allows it.
LEMMA RowWriteKeeps ==
    ASSUME IInv, TypeOK', NEW p \in Procs, NEW k \in Keys, NEW row, End(p), RowFree(p, k),
           res' = [res EXCEPT ![k] = row], row.b = res[k].b,
           res[k].status # "none", row.status # "none",
           \A j \in Keys : j # k => paid'[j] = paid[j],
           \/ row.status \notin Live
           \/ res[k].status \in Live
           \/ /\ \A j \in Keys \ {k} : res[j].b = row.b => res[j].status \notin Live
              /\ \A q \in Others(p) : tx[q].pc = "fk" => tx[q].b # row.b
    PROVE  IInv'
<1>1. /\ \A q \in Procs : tx'[q] = IF q = p THEN NoTx ELSE tx[q]
      /\ NoTx.pc = "idle" /\ NoTx.swept = {} /\ NoTx.k = None
  BY EndType DEF NoTx
<1>2. res'[k] = row /\ \A j \in Keys : j # k => res'[j] = res[j]
  BY DEF IInv, TypeOK
<1>3. TxCarries'
  BY <1>1, <1>2, Statements DEF IInv, TxCarries
<1>4. RowLocksExclude'
  BY <1>1 DEF IInv, RowLocksExclude, HoldsRow
<1>5. LockedRowsHold'
  <2>. SUFFICES ASSUME NEW q \in Procs \ {p}
                PROVE  /\ tx[q].swept \subseteq Overdue'
                       /\ tx[q].pc = "moveIn" => res'[tx[q].k].status = "booked"
                       /\ tx[q].pc = "pay" => /\ res'[tx[q].k].status \in {"booked", "occupied"}
                                              /\ paid'[tx[q].k] + tx[q].amt <= Price
    BY <1>1 DEF LockedRowsHold
  <2>1. k \notin tx[q].swept /\ (tx[q].pc \in {"moveIn", "pay"} => tx[q].k # k)
    BY DEF RowFree, HoldsRow, Others
  <2>2. tx[q].pc \in {"moveIn", "pay"} => tx[q].k \in Keys
    BY DEF IInv, TxCarries, Deciding
  <2>. QED
    BY <1>2, <2>1, <2>2 DEF IInv, LockedRowsHold, Overdue
<1>6. IntakeKeyIsMine'
  BY <1>1, <1>2 DEF IInv, IntakeKeyIsMine, TxCarries, Intaking, Others
<1>7. SlotIsMine'
  BY <1>1, <1>2 DEF IInv, SlotIsMine, TxCarries, Reserving, Others
<1>8. OneLiveClaimPerBed'
  BY <1>2 DEF IInv, OneLiveClaimPerBed
<1>. QED
  BY <1>3, <1>4, <1>5, <1>6, <1>7, <1>8 DEF IInv

LEMMA BookWriteKeeps == ASSUME IInv, NEW p \in Procs, BookWrite(p) PROVE IInv'
<1>. DEFINE k == tx[p].k
            row == [res[k] EXCEPT !.status = "booked", !.due = FALSE, !.fee = tx[p].amt]
<1>1. CASE IndexAllows(p, k, res[k].b)
  <2>1. /\ k \in Keys /\ res[k] \in Row /\ tx[p].amt \in Nat /\ paid[k] \in Nat
        /\ res[k].status # "none" /\ tx[p].swept = {} /\ tx[p].pc = "book"
    BY DEF BookWrite, IInv, TypeOK, TxCarries, Deciding, Sweeping, Tx
  <2>2. row \in Row /\ row.status = "booked" /\ row.b = res[k].b
    BY <2>1 DEF Row, Live
  <2>3. /\ res' = [res EXCEPT ![k] = row] /\ paid' = [paid EXCEPT ![k] = @ + tx[p].amt]
        /\ End(p) /\ UNCHANGED <<rent, moveIns, releases, asked, job, redisLock>>
        /\ RowFree(p, k)
    BY <1>1 DEF BookWrite
  <2>4. \A j \in Keys \ {k} : res[j].b = row.b => res[j].status \notin Live
    BY <1>1, <2>1, <2>2 DEF IndexAllows, StatusSeenBy
  <2>5. \A q \in Others(p) : tx[q].pc = "fk" => tx[q].b # row.b
    BY <2>2 DEF BookWrite, IndexSettled, IndexBusy, HoldsSlot
  <2>. HIDE DEF row, k
  <2>6. TypeOK'
    BY <2>1, <2>2, <2>3, EndType DEF IInv, TypeOK
  <2>7. \A j \in Keys : j # k => paid'[j] = paid[j]
    BY <2>3 DEF IInv, TypeOK
  <2>8. row.status # "none"
    BY <2>2
  <2>. QED
    BY <2>1, <2>2, <2>3, <2>4, <2>5, <2>6, <2>7, <2>8, RowWriteKeeps
<1>2. CASE ~IndexAllows(p, k, res[k].b)
  BY <1>2, AbortKeeps DEF BookWrite
<1>. QED
  BY <1>1, <1>2

\* Cancel, release and expiry end the row.
LEMMA EndRowKeeps ==
    ASSUME IInv, NEW p \in Procs, tx[p].pc \in {"cancel", "release", "expire"},
           NEW st \in Ended, RowFree(p, tx[p].k), SetStatus(tx[p].k, st), End(p),
           UNCHANGED <<paid, rent, moveIns, asked, redisLock>>,
           job' \subseteq job, releases' \in [Keys -> SUBSET [input : {"yes", "no", "omitted"}, flag : BOOLEAN]]
    PROVE  IInv'
<1>. DEFINE k == tx[p].k
            row == [res[k] EXCEPT !.status = st]
<1>1. k \in Keys /\ res[k] \in Row /\ res[k].status # "none"
  BY DEF IInv, TypeOK, TxCarries, Deciding
<1>2. row \in Row /\ row.status = st /\ row.b = res[k].b /\ st \notin Live /\ st # "none"
  BY <1>1 DEF Row, Live, Ended
<1>3. res' = [res EXCEPT ![k] = row]
  BY DEF SetStatus, IInv, TypeOK
<1>. HIDE DEF row
<1>4. TypeOK'
  BY <1>1, <1>2, <1>3, EndType DEF IInv, TypeOK
<1>. QED
  BY <1>1, <1>2, <1>3, <1>4, RowWriteKeeps

LEMMA MoveInWriteKeeps == ASSUME IInv, NEW p \in Procs, MoveInWrite(p) PROVE IInv'
<1>. DEFINE k == tx[p].k
            row == [res[k] EXCEPT !.status = "occupied"]
<1>1. k \in Keys /\ res[k] \in Row /\ res[k].status = "booked" /\ tx[p].pc = "moveIn"
  BY DEF IInv, TypeOK, TxCarries, Deciding, LockedRowsHold, MoveInWrite
<1>2. row \in Row /\ row.status = "occupied" /\ row.b = res[k].b
  BY <1>1 DEF Row, Live
<1>3. res' = [res EXCEPT ![k] = row] /\ End(p) /\ moveIns' = moveIns \cup {k}
      /\ UNCHANGED <<paid, rent, releases, asked, job, redisLock>>
  BY DEF MoveInWrite, SetStatus, IInv, TypeOK
<1>4. RowFree(p, k)
  BY <1>1 DEF IInv, RowLocksExclude, HoldsRow, RowFree, Others
<1>. HIDE DEF row
<1>5. TypeOK'
  BY <1>1, <1>2, <1>3, EndType DEF IInv, TypeOK
<1>6. res[k].status \in Live /\ res[k].status # "none" /\ row.status # "none"
  BY <1>1, <1>2 DEF Live
<1>. QED
  BY <1>1, <1>2, <1>3, <1>4, <1>5, <1>6, RowWriteKeeps

\* The row lock keeps the balance the payment was checked against.
LEMMA PayWriteFits ==
    ASSUME IInv, NEW p \in Procs, PayWrite(p)
    PROVE  /\ tx[p].k \in Keys /\ RowFree(p, tx[p].k) /\ res[tx[p].k].status # "none"
           /\ paid[tx[p].k] \in Nat /\ tx[p].amt \in Nat
           /\ paid' = [paid EXCEPT ![tx[p].k] = paid[tx[p].k] + tx[p].amt]
           /\ paid[tx[p].k] + tx[p].amt <= Price
<1>1. tx[p].pc = "pay" /\ tx[p].k \in Keys
  BY DEF IInv, TxCarries, Deciding, PayWrite
<1>2. RowFree(p, tx[p].k)
  BY <1>1 DEF IInv, RowLocksExclude, HoldsRow, RowFree, Others
<1>. QED
  BY <1>1, <1>2 DEF IInv, TypeOK, Tx, TxCarries, Deciding, LockedRowsHold, PayWrite

LEMMA PayWriteKeeps == ASSUME IInv, NEW p \in Procs, PayWrite(p) PROVE IInv'
<1>. DEFINE k == tx[p].k
<1>1. k \in Keys /\ RowFree(p, k) /\ paid[k] \in Nat /\ tx[p].amt \in Nat
      /\ paid' = [paid EXCEPT ![k] = paid[k] + tx[p].amt] /\ res[k].status # "none"
  BY PayWriteFits
<1>2. res' = [res EXCEPT ![k] = res[k]]
  BY DEF PayWrite, IInv, TypeOK
<1>3. rent' \in [Keys -> [PayKeys -> Nat]]
  BY <1>1 DEF PayWrite, IInv, TypeOK
<1>4. TypeOK' /\ End(p)
  BY <1>1, <1>3, EndType DEF IInv, TypeOK, PayWrite
<1>5. \A j \in Keys : j # k => paid'[j] = paid[j]
  BY <1>1 DEF IInv, TypeOK
<1>6. res[k].status \in Live \/ res[k].status \notin Live
  OBVIOUS
<1>. QED
  BY <1>1, <1>2, <1>4, <1>5, <1>6, RowWriteKeeps

LEMMA WriteKeeps == ASSUME IInv, NEW p \in Procs, Write(p) PROVE IInv'
<1>1. CASE CancelWrite(p)
  BY <1>1, EndRowKeeps DEF CancelWrite, Ended, IInv, TypeOK
<1>2. CASE ExpireWrite(p)
  BY <1>2, EndRowKeeps DEF ExpireWrite, Ended, IInv, TypeOK
<1>3. CASE ReleaseWrite(p)
  <2>1. PICK input \in RefundInputs :
            releases' = [releases EXCEPT
                ![tx[p].k] = @ \cup {[input |-> input, flag |-> RefundFlag(input, tx[p].amt)]}]
    BY <1>3 DEF ReleaseWrite
  <2>2. input \in {"yes", "no", "omitted"}
    BY OpsAssumption
  <2>3. RefundFlag(input, tx[p].amt) \in BOOLEAN
    BY DEF RefundFlag
  <2>. DEFINE x == [input |-> input, flag |-> RefundFlag(input, tx[p].amt)]
  <2>4. x \in [input : {"yes", "no", "omitted"}, flag : BOOLEAN]
    BY <2>2, <2>3
  <2>5. releases' = [releases EXCEPT ![tx[p].k] = @ \cup {x}]
    BY <2>1
  <2>. HIDE DEF x
  <2>6. tx[p].k \in Keys
    BY <1>3 DEF IInv, TxCarries, Deciding, ReleaseWrite
  <2>7. releases' \in [Keys -> SUBSET [input : {"yes", "no", "omitted"}, flag : BOOLEAN]]
    BY <2>4, <2>5, <2>6 DEF IInv, TypeOK
  <2>. QED
    BY <1>3, <2>7, EndRowKeeps DEF ReleaseWrite, Ended
<1>4. CASE AskWrite(p)
  <2>1. TypeOK'
    BY <1>4, EndType DEF AskWrite, IInv, TypeOK, TxCarries, Deciding
  <2>. QED
    BY <1>4, <2>1, EndKeeps DEF AskWrite
<1>. QED
  BY <1>1, <1>2, <1>3, <1>4, BookWriteKeeps, MoveInWriteKeeps, PayWriteKeeps DEF Write

---------------------------------------------------------------------------
(* Committing a new row.                                                   *)

LEMMA CommitKeeps ==
    ASSUME IInv, TypeOK', NEW p \in Procs, NEW row, NEW r, CommitRow(p, row),
           tx' = [tx EXCEPT ![p] = r], r.swept = {},
           r = NoTx \/ (tx[p].pc = "fk" /\ r.pc = "after" /\ r.k = tx[p].k /\ r.s = tx[p].s /\ r.b = tx[p].b),
           tx[p].pc \in {"fk", "intakeInsert"},
           res[tx[p].k].status = "none", row.b = tx[p].b, row.status # "none",
           \A j \in Keys : res[j].b = row.b /\ res[j].status \in Live => j \in tx[p].swept,
           \A q \in Others(p) : tx[q].pc = "fk" => tx[q].b # row.b /\ tx[q].k # tx[p].k,
           \A q \in Others(p) : tx[q].pc \in Intaking => tx[q].k # tx[p].k,
           \A j \in Keys : j # tx[p].k => paid'[j] = paid[j]
    PROVE  IInv'
<1>1. /\ tx'[p] = r /\ \A q \in Procs : q # p => tx'[q] = tx[q]
      /\ NoTx.pc = "idle" /\ NoTx.swept = {} /\ NoTx.k = None
  BY DEF IInv, TypeOK, NoTx
<1>2. /\ tx[p].k \in Keys /\ tx[p].k \notin tx[p].swept /\ tx[p].swept \subseteq Overdue
  BY DEF IInv, TxCarries, LockedRowsHold, Overdue, Reserving, Intaking
<1>3. \A j \in Keys : j \in tx[p].swept =>
        res'[j].status = "expired" /\ res'[j].b = res[j].b
  <2>. SUFFICES ASSUME NEW j \in Keys, j \in tx[p].swept
                PROVE  res'[j].status = "expired" /\ res'[j].b = res[j].b
    OBVIOUS
  <2>1. res'[j] = [res[j] EXCEPT !.status = "expired"] /\ res[j] \in Row
    BY <1>2 DEF CommitRow, IInv, TypeOK
  <2>. QED
    BY <2>1 DEF Row
<1>4. res'[tx[p].k] = row /\ \A j \in Keys \ tx[p].swept : j # tx[p].k => res'[j] = res[j]
  BY <1>2 DEF CommitRow
<1>5. \A q \in Procs \ {p} : \A j \in Keys : HoldsRow(q, j) => j \notin tx[p].swept
  <2>1. \A j \in Keys : j \in tx[p].swept => HoldsRow(p, j)
    BY DEF HoldsRow
  <2>. QED
    BY <2>1 DEF IInv, RowLocksExclude
<1>6. TxCarries'
  <2>1. tx[p].pc = "fk" => tx[p].k \in ReserveKeys /\ tx[p].s \in Students /\ tx[p].b \in Beds
    BY DEF IInv, TxCarries, Reserving
  <2>2. r.pc = "after" => tx[p].pc = "fk"
    BY <1>1
  <2>3. \A j \in Keys : res[j].status # "none" => res'[j].status # "none"
    BY <1>3, <1>4
  <2>. QED
    BY <1>1, <2>1, <2>2, <2>3, Statements
       DEF IInv, TxCarries, Reserving, Intaking, Deciding, Sweeping
<1>7. RowLocksExclude'
  BY <1>1 DEF IInv, RowLocksExclude, HoldsRow
<1>8. LockedRowsHold'
  <2>. SUFFICES ASSUME NEW q \in Procs \ {p}
                PROVE  /\ tx[q].swept \subseteq Overdue'
                       /\ tx[q].pc = "moveIn" => res'[tx[q].k].status = "booked"
                       /\ tx[q].pc = "pay" => /\ res'[tx[q].k].status \in {"booked", "occupied"}
                                              /\ paid'[tx[q].k] + tx[q].amt <= Price
    BY <1>1 DEF LockedRowsHold
  <2>1. tx[q].swept \subseteq Overdue /\ tx[p].k \notin tx[q].swept
    BY DEF IInv, LockedRowsHold, Overdue
  <2>2. \A j \in tx[q].swept : j \in Keys /\ j \notin tx[p].swept
    BY <1>5, <2>1 DEF HoldsRow, Overdue
  <2>3. \A j \in tx[q].swept : res'[j] = res[j]
    BY <1>4, <2>1, <2>2
  <2>4. tx[q].pc \in {"moveIn", "pay"} =>
            /\ tx[q].k \in Keys /\ tx[q].k \notin tx[p].swept
            /\ tx[q].k # tx[p].k /\ res'[tx[q].k] = res[tx[q].k]
    BY <1>4, <1>5 DEF IInv, TxCarries, Deciding, HoldsRow
  <2>. QED
    BY <2>1, <2>2, <2>3, <2>4 DEF IInv, LockedRowsHold, Overdue
<1>9. IntakeKeyIsMine'
  <2>. SUFFICES ASSUME NEW q \in Procs \ {p}, tx[q].pc \in Intaking
                PROVE  /\ res'[tx[q].k].status = "none"
                       /\ \A o \in Procs \ {q} : tx'[o].k # tx[q].k
    BY <1>1 DEF IntakeKeyIsMine, Others, Intaking
  <2>1. tx[q].k \in Keys /\ tx[q].k # tx[p].k /\ res[tx[q].k].status = "none"
    BY DEF IInv, TxCarries, IntakeKeyIsMine, Others
  <2>2. tx[q].k \notin tx[p].swept
    BY <1>2, <2>1 DEF Overdue
  <2>3. \A o \in Procs \ {q} : tx[o].k # tx[q].k
    BY DEF IInv, IntakeKeyIsMine, Others
  <2>. QED
    BY <1>1, <1>4, <2>1, <2>2, <2>3
<1>10. SlotIsMine'
  <2>. SUFFICES ASSUME NEW q \in Procs \ {p}, tx[q].pc = "fk"
                PROVE  /\ res'[tx[q].k].status = "none"
                       /\ \A j \in Keys : res'[j].b = tx[q].b /\ res'[j].status \in Live => j \in tx[q].swept
                       /\ \A o \in Procs \ {q} : tx'[o].pc = "fk" => tx'[o].b # tx[q].b /\ tx'[o].k # tx[q].k
    BY <1>1 DEF SlotIsMine, Others
  <2>1. tx[q].k \in Keys /\ tx[q].k # tx[p].k /\ tx[q].b # row.b /\ res[tx[q].k].status = "none"
    BY DEF IInv, TxCarries, SlotIsMine, Others, Reserving
  <2>2. tx[q].k \notin tx[p].swept
    BY <1>2, <2>1 DEF Overdue
  <2>3. \A j \in Keys : res[j].b = tx[q].b /\ res[j].status \in Live => j \in tx[q].swept
    BY DEF IInv, SlotIsMine
  <2>4. \A j \in Keys : res'[j].b = tx[q].b /\ res'[j].status \in Live => res'[j] = res[j]
    BY <1>3, <1>4, <2>1 DEF Live
  <2>5. \A o \in Procs \ {q} : tx[o].pc = "fk" => tx[o].b # tx[q].b /\ tx[o].k # tx[q].k
    BY DEF IInv, SlotIsMine, Others
  <2>. QED
    BY <1>1, <1>4, <2>1, <2>2, <2>3, <2>4, <2>5
<1>11. OneLiveClaimPerBed'
  <2>1. \A j \in Keys : res'[j].status \in Live /\ j # tx[p].k => res'[j] = res[j] /\ res[j].b # row.b
    BY <1>3, <1>4 DEF Live
  <2>. QED
    BY <1>4, <2>1 DEF IInv, OneLiveClaimPerBed
<1>. QED
  BY <1>6, <1>7, <1>8, <1>9, <1>10, <1>11 DEF IInv

LEMMA CommitRowType ==
    ASSUME IInv, NEW p \in Procs, NEW row \in Row, CommitRow(p, row)
    PROVE  res' \in [Keys -> Row]
<1>. SUFFICES ASSUME NEW k \in Keys
              PROVE  (IF k = tx[p].k THEN row
                      ELSE IF k \in tx[p].swept THEN [res[k] EXCEPT !.status = "expired"]
                      ELSE res[k]) \in Row
  BY DEF CommitRow
<1>1. res[k] \in Row
  BY DEF IInv, TypeOK
<1>2. [res[k] EXCEPT !.status = "expired"] \in Row
  BY <1>1 DEF Row, Ended
<1>. QED
  BY <1>1, <1>2

LEMMA ReserveCommitKeeps == ASSUME IInv, NEW p \in Procs, ReserveCommit(p) PROVE IInv'
<1>. DEFINE row == [NoRow EXCEPT !.status = "reserved", !.s = tx[p].s, !.b = tx[p].b]
            r == [tx[p] EXCEPT !.pc = "after", !.swept = {}]
<1>1. tx[p] \in Tx /\ tx[p].pc = "fk"
  BY DEF IInv, TypeOK, ReserveCommit
<1>2. r \in Tx /\ r.pc = "after" /\ r.k = tx[p].k /\ r.s = tx[p].s /\ r.b = tx[p].b /\ r.swept = {}
  BY <1>1 DEF Tx, PCs
<1>3. row \in Row /\ row.status = "reserved" /\ row.b = tx[p].b
  BY <1>1 DEF Tx, Row, NoRow, Live
<1>4. CommitRow(p, row) /\ UNCHANGED <<paid, rent, moveIns, releases, asked, job, redisLock>>
  BY DEF ReserveCommit
<1>5. tx' = [tx EXCEPT ![p] = r]
  BY DEF ReserveCommit, IInv, TypeOK
<1>. HIDE DEF row, r
<1>6. TypeOK'
  BY <1>2, <1>3, <1>4, <1>5, CommitRowType DEF IInv, TypeOK
<1>7. /\ res[tx[p].k].status = "none"
      /\ \A j \in Keys : res[j].b = row.b /\ res[j].status \in Live => j \in tx[p].swept
      /\ \A q \in Others(p) : tx[q].pc = "fk" => tx[q].b # row.b /\ tx[q].k # tx[p].k
  BY <1>1, <1>3 DEF IInv, SlotIsMine
<1>8. \A q \in Others(p) : tx[q].pc \in Intaking => tx[q].k # tx[p].k
  BY <1>1 DEF IInv, TxCarries, Reserving, Others
<1>9. row.status # "none" /\ \A j \in Keys : j # tx[p].k => paid'[j] = paid[j]
  BY <1>3, <1>4
<1>. QED
  BY <1>1, <1>2, <1>3, <1>4, <1>5, <1>6, <1>7, <1>8, <1>9, CommitKeeps

LEMMA IntakeInsertKeeps == ASSUME IInv, NEW p \in Procs, IntakeInsert(p) PROVE IInv'
<1>. DEFINE k == tx[p].k
            row == [NoRow EXCEPT !.s = tx[p].s, !.b = tx[p].b, !.fee = tx[p].amt,
                                 !.status = IF tx[p].moved THEN "occupied" ELSE "booked"]
<1>1. CASE IndexAllows(p, k, tx[p].b)
  <2>1. tx[p] \in Tx /\ tx[p].pc = "intakeInsert" /\ k \in IntakeKeys
    BY DEF IInv, TypeOK, IntakeInsert, TxCarries, Intaking
  <2>2. row \in Row /\ row.status \in {"occupied", "booked"} /\ row.b = tx[p].b
    BY <2>1 DEF Tx, Row, NoRow, Live
  <2>3. /\ CommitRow(p, row) /\ End(p) /\ paid' = [paid EXCEPT ![k] = @ + tx[p].amt]
        /\ moveIns' \in {moveIns, moveIns \cup {k}}
        /\ UNCHANGED <<rent, releases, asked, job, redisLock>>
    BY <1>1 DEF IntakeInsert
  <2>4. paid[k] \in Nat /\ tx[p].amt \in Nat
    BY <2>1 DEF IInv, TypeOK, Tx
  <2>5. res[k].status = "none" /\ \A q \in Others(p) : tx[q].k # k
    BY <2>1 DEF IInv, IntakeKeyIsMine, Intaking
  <2>6. \A j \in Keys : res[j].b = tx[p].b /\ res[j].status \in Live => j \in tx[p].swept
    BY <1>1, <2>5 DEF IndexAllows, StatusSeenBy, Live
  <2>7. \A q \in Others(p) : tx[q].pc = "fk" => tx[q].b # tx[p].b
    BY DEF IntakeInsert, IndexSettled, IndexBusy, HoldsSlot
  <2>. HIDE DEF row, k
  <2>8. TypeOK'
    BY <2>1, <2>2, <2>3, <2>4, CommitRowType, EndType DEF IInv, TypeOK
  <2>9. row.status # "none" /\ \A j \in Keys : j # k => paid'[j] = paid[j]
    BY <2>2, <2>3 DEF IInv, TypeOK
  <2>10. tx' = [tx EXCEPT ![p] = NoTx] /\ NoTx.swept = {}
    BY <2>3 DEF End, NoTx
  <2>. QED
    BY <2>1, <2>2, <2>3, <2>5, <2>6, <2>7, <2>8, <2>9, <2>10, CommitKeeps DEF k
<1>2. CASE ~IndexAllows(p, k, tx[p].b)
  BY <1>2, AbortKeeps DEF IntakeInsert
<1>. QED
  BY <1>1, <1>2

---------------------------------------------------------------------------
(* Time and the sweep.                                                     *)

LEMMA SweepKeeps == ASSUME IInv, Sweep PROVE IInv'
<1>1. \A k \in Keys : res[k] \in Row
  BY DEF IInv, TypeOK
<1>2. \A k \in Keys : k \in Overdue =>
        res'[k] \in Row /\ res'[k].status = "expired" /\ res'[k].b = res[k].b /\ res[k].status = "reserved"
  <2>. SUFFICES ASSUME NEW k \in Keys, k \in Overdue
                PROVE  res'[k] \in Row /\ res'[k].status = "expired" /\ res'[k].b = res[k].b
                       /\ res[k].status = "reserved"
    OBVIOUS
  <2>1. res'[k] = [res[k] EXCEPT !.status = "expired"]
    BY DEF Sweep
  <2>. QED
    BY <1>1, <2>1 DEF Row, Ended, Overdue
<1>3. \A k \in Keys : k \notin Overdue => res'[k] = res[k]
  BY DEF Sweep
<1>4. /\ UNCHANGED <<paid, rent, moveIns, releases, asked, job, redisLock, tx>>
      /\ \A k \in Overdue, q \in Procs : ~HoldsRow(q, k)
      /\ res' = [k \in Keys |-> res'[k]]
  BY DEF Sweep
<1>5. TypeOK'
  BY <1>1, <1>2, <1>3, <1>4 DEF IInv, TypeOK
<1>6. TxCarries'
  BY <1>2, <1>3, <1>4 DEF IInv, TxCarries
<1>7. RowLocksExclude'
  BY <1>4 DEF IInv, RowLocksExclude, HoldsRow
<1>8. LockedRowsHold'
  <2>1. \A q \in Procs : tx[q].swept = {}
    BY <1>4 DEF IInv, LockedRowsHold, HoldsRow
  <2>2. \A q \in Procs : tx[q].pc \in {"moveIn", "pay"} => tx[q].k \in Keys /\ tx[q].k \notin Overdue
    BY DEF IInv, LockedRowsHold, TxCarries, Deciding, Overdue
  <2>. QED
    BY <1>3, <1>4, <2>1, <2>2 DEF IInv, LockedRowsHold
<1>9. IntakeKeyIsMine'
  BY <1>3, <1>4 DEF IInv, IntakeKeyIsMine, TxCarries, Overdue, Others
<1>10. SlotIsMine'
  <2>1. \A j \in Keys : res'[j].status \in Live => res'[j] = res[j]
    BY <1>2, <1>3 DEF Live
  <2>2. \A q \in Procs : tx[q].pc = "fk" =>
          tx[q].k \in Keys /\ res[tx[q].k].status = "none" /\ tx[q].k \notin Overdue
    BY DEF IInv, SlotIsMine, TxCarries, Reserving, Overdue
  <2>. QED
    BY <1>3, <1>4, <2>1, <2>2 DEF IInv, SlotIsMine, Others
<1>11. OneLiveClaimPerBed'
  BY <1>2, <1>3 DEF IInv, OneLiveClaimPerBed, Live
<1>. QED
  BY <1>5, <1>6, <1>7, <1>8, <1>9, <1>10, <1>11 DEF IInv

LEMMA HoldEndsKeeps == ASSUME IInv, NEW k \in Keys, HoldEnds(k) PROVE IInv'
<1>1. /\ res[k] \in Row /\ res[k].status = "reserved" /\ ~res[k].due
      /\ res' = [res EXCEPT ![k].due = TRUE]
      /\ UNCHANGED <<paid, rent, moveIns, releases, asked, job, redisLock, tx>>
  BY DEF HoldEnds, IInv, TypeOK
<1>2. \A j \in Keys : res'[j].status = res[j].status /\ res'[j].b = res[j].b
  BY <1>1 DEF IInv, TypeOK, Row
<1>3. res' \in [Keys -> Row] /\ Overdue \subseteq Overdue'
  BY <1>1 DEF IInv, TypeOK, Row, Overdue
<1>4. TypeOK'
  BY <1>1, <1>3 DEF IInv, TypeOK
<1>5. TxCarries' /\ RowLocksExclude'
  BY <1>1, <1>2 DEF IInv, TxCarries, RowLocksExclude, HoldsRow
<1>6. LockedRowsHold'
  BY <1>1, <1>2, <1>3 DEF IInv, LockedRowsHold, TxCarries, Deciding
<1>7. IntakeKeyIsMine'
  BY <1>1, <1>2 DEF IInv, IntakeKeyIsMine, Others, TxCarries
<1>8. SlotIsMine'
  BY <1>1, <1>2 DEF IInv, SlotIsMine, Others, TxCarries, Reserving
<1>9. OneLiveClaimPerBed'
  BY <1>2 DEF IInv, OneLiveClaimPerBed
<1>. QED
  BY <1>4, <1>5, <1>6, <1>7, <1>8, <1>9 DEF IInv

\* Steps that touch none of the variables the invariant speaks of but Redis.
LEMMA StillKeeps ==
    ASSUME IInv, UNCHANGED <<tables, job, tx>>, redisLock' \subseteq redisLock
    PROVE  IInv'
BY DEF IInv, TypeOK, tables, TxCarries, RowLocksExclude, HoldsRow, LockedRowsHold,
   Overdue, IntakeKeyIsMine, SlotIsMine, OneLiveClaimPerBed

---------------------------------------------------------------------------
(* The theorems.                                                           *)

LEMMA InitIInv == Init => IInv
BY DEF Init, IInv, TypeOK, NoRow, Row, NoTx, Tx, PCs, Live, TxCarries, RowLocksExclude, HoldsRow,
   LockedRowsHold, Overdue, IntakeKeyIsMine, SlotIsMine, OneLiveClaimPerBed,
   Reserving, Intaking, Deciding, Sweeping

LEMMA NextKeeps == IInv /\ [Next]_vars => IInv'
<1>. SUFFICES ASSUME IInv, [Next]_vars PROVE IInv'
  OBVIOUS
<1>1. ASSUME NEW p \in Procs, Proceed(p) PROVE IInv'
  <2>1. CASE Reserve(p)
    BY <2>1, ReserveSweepKeeps, ReserveLimitsKeeps, ReserveInsertKeeps, ReserveCommitKeeps,
       ReserveAfterKeeps DEF Reserve
  <2>2. CASE Intake(p)
    BY <2>2, IntakeSweepKeeps, IntakeLimitsKeeps, IntakeInsertKeeps DEF Intake
  <2>. QED
    BY <1>1, <2>1, <2>2, WriteKeeps, AbortKeeps DEF Proceed, DeadlockVictim
<1>2. CASE \E b \in Beds : LockTimesOut(b)
  BY <1>2, StillKeeps DEF LockTimesOut
<1>3. CASE UNCHANGED vars
  BY <1>3, StillKeeps DEF vars, tables
<1>. QED
  BY <1>1, <1>2, <1>3, RequestKeeps, ExpireReadKeeps, FailKeeps, SweepKeeps, HoldEndsKeeps DEF Next

\* In every interleaving of every handler, the locks a transaction holds keep
\* true what it relies on until it commits (reservations.service.ts, jobs.module.ts).
THEOREM Inductive == Spec => []IInv
BY InitIInv, NextKeeps, PTL DEF Spec

\* Every value a handler writes is one the schema allows.
THEOREM TypeCorrect == Spec => []TypeOK
BY Inductive, PTL DEF IInv

\* However many students, beds and requests, a bed is never held, booked or
\* lived in twice: reserve, book, the intake, every sweep and every crash included.
THEOREM NeverDoubleBooked == Spec => []OneLiveClaimPerBed
BY Inductive, PTL DEF IInv

\* However payments race each other and the booking writes, a rent instalment
\* never takes what was paid above the rent (recordPayment's FOR UPDATE).
THEOREM InstalmentsFit == Spec => RentFitsBalance
<1>1. IInv /\ [Next]_vars => [\A k \in Keys : rent'[k] # rent[k] => paid'[k] <= Price]_vars
  <2>. SUFFICES ASSUME IInv, Next, NEW k \in Keys, rent'[k] # rent[k]
                PROVE  paid'[k] <= Price
    BY DEF vars
  <2>1. PICK p \in Procs : PayWrite(p)
    BY DEF Next, Request, Proceed, Reserve, Intake, Write, ReserveStart, IntakeStart, BookRead,
       CancelRead, ReleaseRead, AskRead, MoveInRead, PayRead, Decide, ExpireRead, ReserveSweep,
       ReserveLimits, ReserveInsert, ReserveCommit, ReserveAfter, IntakeSweep, IntakeLimits,
       IntakeInsert, BookWrite, CancelWrite, ReleaseWrite, AskWrite, ExpireWrite, MoveInWrite,
       DeadlockVictim, Abort, Fail, Sweep, HoldEnds, LockTimesOut, tables
  <2>2. k = tx[p].k
    BY <2>1 DEF PayWrite, IInv, TypeOK
  <2>. QED
    BY <2>1, <2>2, PayWriteFits DEF IInv, TypeOK
<1>. QED
  BY <1>1, Inductive, PTL DEF Spec, RentFitsBalance

---------------------------------------------------------------------------
(* Which statements move a claim back.                                     *)

Forward(k) ==
    /\ res[k].status = "booked" => res'[k].status \in {"booked", "occupied", "released"}
    /\ res[k].status \in {"occupied", "cancelled", "expired", "released"} =>
           res'[k].status = res[k].status

\* The updates by id of a row that was read without a lock.
WritesById(p) == BookWrite(p) \/ CancelWrite(p) \/ ReleaseWrite(p) \/ ExpireWrite(p)

LEMMA CommitForward ==
    ASSUME IInv, NEW p \in Procs, tx[p].k \in Keys, res[tx[p].k].status = "none",
           NEW row, CommitRow(p, row), NEW k \in Keys
    PROVE  Forward(k)
<1>1. CASE k \in tx[p].swept /\ k # tx[p].k
  <2>1. res[k].status = "reserved"
    BY <1>1 DEF IInv, LockedRowsHold, Overdue
  <2>. QED
    BY <2>1 DEF Forward
<1>. QED
  BY <1>1 DEF CommitRow, Forward

LEMMA StepForward ==
    ASSUME IInv, Next, NEW k \in Keys, \A p \in Procs : ~WritesById(p)
    PROVE  Forward(k)
<1>1. CASE UNCHANGED res
  BY <1>1 DEF Forward
<1>2. ASSUME NEW p \in Procs, ReserveCommit(p) PROVE Forward(k)
  BY <1>2, CommitForward DEF ReserveCommit, IInv, TxCarries, Reserving, SlotIsMine, Keys
<1>3. ASSUME NEW p \in Procs, IntakeInsert(p), ~UNCHANGED res PROVE Forward(k)
  <2>1. tx[p].k \in Keys /\ res[tx[p].k].status = "none"
    BY <1>3 DEF IntakeInsert, IInv, TxCarries, Intaking, IntakeKeyIsMine, Keys
  <2>. QED
    BY <1>3, <2>1, CommitForward DEF IntakeInsert, Abort, tables
<1>4. ASSUME NEW p \in Procs, MoveInWrite(p) PROVE Forward(k)
  <2>1. tx[p].k \in Keys /\ res[tx[p].k].status = "booked" /\ SetStatus(tx[p].k, "occupied")
    BY <1>4 DEF MoveInWrite, IInv, TxCarries, LockedRowsHold, Deciding
  <2>. QED
    BY <2>1 DEF SetStatus, Forward, IInv, TypeOK, Row
<1>5. CASE Sweep
  BY <1>5 DEF Sweep, Overdue, Forward
<1>6. ASSUME NEW j \in Keys, HoldEnds(j) PROVE Forward(k)
  BY <1>6 DEF HoldEnds, Forward
<1>7. ASSUME ~UNCHANGED res
      PROVE  \/ \E p \in Procs : ReserveCommit(p) \/ IntakeInsert(p) \/ MoveInWrite(p)
             \/ Sweep
             \/ \E j \in Keys : HoldEnds(j)
  BY <1>7 DEF Next, Request, Proceed, Reserve, Intake, Write, WritesById, ReserveStart, IntakeStart,
     BookRead, CancelRead, ReleaseRead, AskRead, MoveInRead, PayRead, Decide, ExpireRead,
     ReserveSweep, ReserveLimits, ReserveInsert, ReserveAfter, IntakeSweep, IntakeLimits,
     AskWrite, PayWrite, DeadlockVictim, Abort, Fail, LockTimesOut, tables
<1>. QED
  BY <1>1, <1>2, <1>3, <1>4, <1>5, <1>6, <1>7

\* In every interleaving of every handler, whoever moves a claim back, that is,
\* cancels or expires a booking, puts out a student who moved in or revives what
\* ended, is one of the four updates by id after an unlocked read: book, cancel,
\* release and the expiry job.
THEOREM OnlyUnlockedWritesGoBack ==
    Spec => [][(\A k \in Keys : Forward(k)) \/ \E p \in Procs : WritesById(p)]_vars
<1>1. IInv /\ [Next]_vars => [(\A k \in Keys : Forward(k)) \/ \E p \in Procs : WritesById(p)]_vars
  BY StepForward
<1>. QED
  BY <1>1, Inductive, PTL DEF Spec

NoneById == \A p \in Procs : tx[p].pc \notin {"book", "cancel", "release", "expire"}

LEMMA NextNoneById ==
    ASSUME {"book", "cancel", "release", "job"} \cap Ops = {}, IInv, NoneById, [Next]_vars
    PROVE  NoneById'
<1>. DEFINE ById == {"book", "cancel", "release", "expire"}
<1>1. ASSUME NEW p \in Procs, NEW r, tx' = [tx EXCEPT ![p] = r], r.pc \notin ById
      PROVE  NoneById'
  BY <1>1 DEF NoneById, IInv, TypeOK
<1>2. ASSUME NEW p \in Procs, NEW c, NEW D, c \notin ById,
             Goto(p, c) \/ tx' = [tx EXCEPT ![p].swept = D, ![p].pc = c]
                        \/ tx' = [tx EXCEPT ![p].pc = c, ![p].swept = D]
      PROVE  NoneById'
  BY <1>2 DEF Goto, NoneById, IInv, TypeOK, Tx
<1>3. ASSUME NEW p \in Procs, End(p) PROVE NoneById'
  BY <1>1, <1>3 DEF End, NoTx
<1>4. CASE UNCHANGED tx
  BY <1>4 DEF NoneById
<1>5. ASSUME NEW p \in Procs, Request(p) \/ ExpireRead(p) PROVE NoneById'
  <2>1. ~BookRead(p) /\ ~CancelRead(p) /\ ~ReleaseRead(p) /\ ~ExpireRead(p)
    BY DEF BookRead, CancelRead, ReleaseRead, ExpireRead
  <2>2. CASE AskRead(p) \/ MoveInRead(p)
    <3>1. PICK k \in Keys, c \in {"ask", "moveIn"} : tx' = [tx EXCEPT ![p] = [NoTx EXCEPT !.pc = c, !.k = k, !.amt = 0]]
      BY <2>2 DEF AskRead, MoveInRead, Decide, Begin
    <3>2. [NoTx EXCEPT !.pc = c, !.k = k, !.amt = 0].pc = c
      BY DEF NoTx
    <3>. QED
      BY <1>1, <3>1, <3>2
  <2>3. CASE ReserveStart(p)
    <3>1. PICK s \in Students, b \in Beds, k \in ReserveKeys :
            tx' = [tx EXCEPT ![p] = [NoTx EXCEPT !.pc = "sweep", !.s = s, !.b = b, !.k = k]]
      BY <2>3 DEF ReserveStart, Begin
    <3>2. [NoTx EXCEPT !.pc = "sweep", !.s = s, !.b = b, !.k = k].pc = "sweep"
      BY DEF NoTx
    <3>. QED
      BY <1>1, <3>1, <3>2
  <2>4. CASE IntakeStart(p)
    <3>1. PICK s \in Students, b \in Beds, k \in IntakeKeys, f \in Fees, m \in BOOLEAN :
            Begin(p, [NoTx EXCEPT !.pc = "intakeSweep", !.s = s, !.b = b, !.k = k,
                                  !.amt = f, !.moved = m])
      BY <2>4 DEF IntakeStart
    <3>2. [NoTx EXCEPT !.pc = "intakeSweep", !.s = s, !.b = b, !.k = k,
                       !.amt = f, !.moved = m].pc = "intakeSweep"
      BY DEF NoTx
    <3>. QED
      BY <1>1, <3>1, <3>2 DEF Begin
  <2>5. CASE PayRead(p)
    <3>1. PICK k \in Keys, y \in PayKeys, a \in 1..Price :
            tx' = [tx EXCEPT ![p] = [NoTx EXCEPT !.pc = "pay", !.k = k, !.pay = y, !.amt = a]]
      BY <2>5 DEF PayRead, Begin
    <3>2. [NoTx EXCEPT !.pc = "pay", !.k = k, !.pay = y, !.amt = a].pc = "pay"
      BY DEF NoTx
    <3>. QED
      BY <1>1, <3>1, <3>2
  <2>. QED
    BY <1>5, <2>1, <2>2, <2>3, <2>4, <2>5 DEF Request
<1>6. ASSUME NEW p \in Procs, Reserve(p) \/ Intake(p) PROVE NoneById'
  <2>1. CASE Abort(p) \/ ReserveAfter(p) \/ IntakeInsert(p)
    BY <1>3, <2>1 DEF Abort, ReserveAfter, IntakeInsert
  <2>2. CASE \E c \in PCs \ ById : Goto(p, c)
    BY <1>2, <2>2
  <2>3. CASE \E c \in PCs \ ById : \E D \in SUBSET Keys : tx' = [tx EXCEPT ![p].swept = D, ![p].pc = c]
    BY <1>2, <2>3
  <2>4. CASE ReserveCommit(p)
    <3>1. \E c \in {"after"} : \E D \in {{}} : tx' = [tx EXCEPT ![p].pc = c, ![p].swept = D]
      BY <2>4 DEF ReserveCommit
    <3>. QED
      BY <1>2, <3>1
  <2>5. CASE ReserveSweep(p) \/ IntakeSweep(p)
    <3>1. CASE ReserveSweep(p)
      <4>1. Overdue \in SUBSET Keys /\ "limits" \in PCs \ ById
        BY DEF Overdue, PCs
      <4>. QED
        BY <2>3, <3>1, <4>1 DEF ReserveSweep
    <3>2. CASE IntakeSweep(p) /\ ~Abort(p)
      <4>1. {k \in Overdue : res[k].b = tx[p].b} \in SUBSET Keys /\ "intakeLimits" \in PCs \ ById
        BY DEF Overdue, PCs
      <4>. QED
        BY <2>3, <3>2, <4>1 DEF IntakeSweep
    <3>. QED
      BY <2>1, <2>5, <3>1, <3>2
  <2>6. CASE ReserveLimits(p) \/ ReserveInsert(p) \/ IntakeLimits(p)
    <3>1. {"insert", "fk", "intakeInsert"} \subseteq PCs \ ById
      BY DEF PCs
    <3>. QED
      BY <2>1, <2>2, <2>6, <3>1 DEF ReserveLimits, ReserveInsert, IntakeLimits
  <2>. QED
    BY <1>6, <2>1, <2>4, <2>5, <2>6 DEF Reserve, Intake
<1>7. ASSUME NEW p \in Procs, Write(p) \/ DeadlockVictim(p) \/ Fail(p) PROVE NoneById'
  BY <1>3, <1>7 DEF Write, BookWrite, CancelWrite, ReleaseWrite, AskWrite, ExpireWrite, MoveInWrite,
     PayWrite, DeadlockVictim, Fail, Abort
<1>. QED
  BY <1>4, <1>5, <1>6, <1>7 DEF Next, Proceed, Sweep, HoldEnds, LockTimesOut, vars

\* Without those four, claims only move forward: reserve, the intake, move-ins,
\* payments, the minute sweep, failures and deadlocks included.
THEOREM OthersOnlyForward ==
    {"book", "cancel", "release", "job"} \cap Ops = {} => (Spec => OnlyForward)
<1>. SUFFICES ASSUME {"book", "cancel", "release", "job"} \cap Ops = {}
              PROVE  Spec => OnlyForward
  OBVIOUS
<1>1. Init => NoneById
  BY DEF Init, NoneById, NoTx
<1>2. IInv /\ NoneById /\ [Next]_vars => NoneById'
  BY NextNoneById
<1>3. IInv /\ NoneById /\ [Next]_vars
      => [\A k \in Keys :
            /\ res[k].status = "booked" => res'[k].status \in {"booked", "occupied", "released"}
            /\ res[k].status \in {"occupied", "cancelled", "expired", "released"} =>
                   res'[k].status = res[k].status]_vars
  <2>. SUFFICES ASSUME IInv, NoneById, Next
                PROVE  \A k \in Keys : Forward(k)
    BY DEF Forward
  <2>1. \A p \in Procs : ~WritesById(p)
    BY DEF NoneById, WritesById, BookWrite, CancelWrite, ReleaseWrite, ExpireWrite
  <2>. QED
    BY <2>1, StepForward
<1>. QED
  BY <1>1, <1>2, <1>3, Inductive, PTL DEF Spec, OnlyForward
=============================================================================
