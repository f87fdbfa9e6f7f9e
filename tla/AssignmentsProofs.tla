-------------------------- MODULE AssignmentsProofs --------------------------
(***************************************************************************)
(* For any number of students, beds, requests and offers: an accepted offer *)
(* is the reservation its student was offered, no other offer is one, and no *)
(* more offers wait for a student than may.                                  *)
(*                                                                           *)
(* The inductive invariant follows an answer from the offer's row lock to     *)
(* the commit: the row stays pending under the request that holds it         *)
(* (Fits), nobody else answers it (AnswersExclude), and no other          *)
(* transaction inserts a row of its key (Carries).                           *)
(***************************************************************************)
EXTENDS Assignments, LimitsProofs

\* What a transaction carries at the statement it has reached.
Carries(t) ==
    /\ t.pc \in Reserving => t.k \in ReserveKeys /\ t.s \in Students /\ t.b \in Beds
    /\ t.pc \in Intaking => t.k \in IntakeKeys /\ t.s \in Students /\ t.b \in Beds
    /\ t.pc \in Deciding => t.k \in Keys /\ res[t.k].status # "none"
    /\ \A k \in t.swept : k \in Keys /\ res[k].status # "none"

TransOK ==
    /\ res \in [Keys -> Row] /\ job \subseteq Keys /\ tx \in [Procs -> Tx]
    /\ \A p \in Procs : Carries(tx[p])

\* What a request at an offer's desk holds, whose transaction is t.
Fits(d, t) ==
    /\ d.step \in {"offer", "bed", "counted"} => t.pc = "intakeSweep" /\ t.k \in OfferKeys
    /\ d.step = "none" /\ t.pc \in Intaking => t.k \notin OfferKeys
    /\ d.step = "decline" => t.pc = "idle"
    /\ d.step \in {"accept", "decline"} => d.k \in OfferKeys /\ offers[d.k].status = "pending"
    /\ d.step = "accept" => /\ t.pc \in Intaking /\ t.k = d.k
                            /\ t.s = offers[d.k].s /\ t.b = offers[d.k].b

Answers(d) == d.step \in {"accept", "decline"}

AnswersExclude ==
    \A p, q \in Procs : Answers(desk[p]) /\ Answers(desk[q]) /\ desk[p].k = desk[q].k => p = q

OffersNamed ==
    \A k \in OfferKeys : offers[k].status # "none" => offers[k].s \in Students /\ offers[k].b \in Beds

DeskOK ==
    /\ offers \in [OfferKeys -> Offer] /\ desk \in [Procs -> Desk]
    /\ OffersNamed /\ AnswersExclude /\ \A p \in Procs : Fits(desk[p], tx[p])

OInv == TransOK /\ DeskOK /\ OfferMatchesBooking

\* No row is forgotten, and outside K the rows that offers name stay whose they
\* are.
RowsKept(K) ==
    /\ \A k \in Keys : res[k].status # "none" => res'[k].status # "none"
    /\ \A k \in OfferKeys \ K :
        IF res[k].status = "none" THEN res'[k] = res[k]
        ELSE res'[k].s = res[k].s /\ res'[k].b = res[k].b

\* The transaction of p goes on as t.
Becomes(p, t) == t \in Tx /\ tx' = [tx EXCEPT ![p] = t]

---------------------------------------------------------------------------
(* Transactions.                                                           *)

LEMMA Apart ==
    /\ Reserving \cap Intaking = {} /\ Reserving \cap Deciding = {} /\ Intaking \cap Deciding = {}
    /\ "idle" \notin Reserving \cup Intaking \cup Deciding
    /\ OfferKeys \subseteq Keys /\ OfferKeys \cap ReserveKeys = {}
BY KeysAssumption, OffersAssumption DEF Reserving, Intaking, Deciding, Keys

LEMMA IdleFits == NoTx \in Tx /\ NoTx.pc = "idle" /\ NoTx.swept = {} /\ Carries(NoTx)'
BY Apart DEF NoTx, Tx, PCs, Carries

LEMMA TransStep ==
    ASSUME TransOK, NEW p \in Procs, NEW t, Becomes(p, t), Carries(t)',
           res' \in [Keys -> Row], RowsKept(OfferKeys), job' \subseteq Keys
    PROVE  TransOK'
<1>1. tx' \in [Procs -> Tx] /\ tx'[p] = t /\ \A q \in Procs \ {p} : tx'[q] = tx[q]
    BY DEF TransOK, Becomes
<1>2. ASSUME NEW q \in Procs PROVE Carries(tx[q])'
    <2>1. CASE q = p
        <3>1. tx'[q] = t
            BY <1>1, <2>1
        <3> QED BY <3>1 DEF Carries
    <2>2. CASE q # p
        <3>1. tx'[q] = tx[q] /\ Carries(tx[q])
            BY <1>1, <2>2 DEF TransOK
        <3> QED BY <3>1 DEF Carries, RowsKept
    <2> QED BY <2>1, <2>2
<1> QED BY <1>1, <1>2 DEF TransOK

LEMMA SameRows ==
    ASSUME UNCHANGED res PROVE \A K : RowsKept(K)
BY DEF RowsKept

LEMMA Finishing ==
    ASSUME TransOK, NEW p \in Procs, End(p), res' \in [Keys -> Row], RowsKept(OfferKeys),
           job' \subseteq Keys
    PROVE  TransOK' /\ Becomes(p, NoTx)
<1>1. Becomes(p, NoTx)
    BY IdleFits DEF Becomes, End
<1> QED BY <1>1, IdleFits, TransStep

\* A transaction that does not write goes on.
LEMMA GoingOn ==
    ASSUME TransOK, NEW p \in Procs, NEW t, Becomes(p, t), Carries(t), UNCHANGED <<res, job>>
    PROVE  TransOK'
<1>1. Carries(t)'
    BY DEF Carries
<1> QED BY <1>1, SameRows, TransStep DEF TransOK

\* Rows of D expire.
LEMMA Expiring ==
    ASSUME TransOK, NEW D \in SUBSET Keys, \A k \in D : res[k].status # "none",
           res' = [k \in Keys |-> IF k \in D THEN [res[k] EXCEPT !.status = "expired"] ELSE res[k]]
    PROVE  res' \in [Keys -> Row] /\ \A K : RowsKept(K)
<1>1. \A k \in Keys : res[k] \in Row
    BY DEF TransOK
<1>2. \A k \in Keys : /\ [res[k] EXCEPT !.status = "expired"] \in Row
                      /\ [res[k] EXCEPT !.status = "expired"].status = "expired"
                      /\ [res[k] EXCEPT !.status = "expired"].s = res[k].s
                      /\ [res[k] EXCEPT !.status = "expired"].b = res[k].b
    BY <1>1 DEF Row, Ended
<1> QED BY <1>1, <1>2, Apart DEF RowsKept

LEMMA OneRow ==
    ASSUME TransOK, NEW k \in Keys, res[k].status # "none", NEW row \in Row,
           row.status # "none", row.s = res[k].s, row.b = res[k].b, res' = [res EXCEPT ![k] = row]
    PROVE  res' \in [Keys -> Row] /\ \A K : RowsKept(K)
<1>1. res' \in [Keys -> Row] /\ res'[k] = row /\ \A j \in Keys \ {k} : res'[j] = res[j]
    BY DEF TransOK
<1> QED BY <1>1, Apart DEF RowsKept

LEMMA StatusSet ==
    ASSUME TransOK, NEW k \in Keys, res[k].status # "none", NEW st \in Live \cup Ended,
           SetStatus(k, st)
    PROVE  res' \in [Keys -> Row] /\ \A K : RowsKept(K)
<1> DEFINE row == [res[k] EXCEPT !.status = st]
<1>1. res[k] \in Row
    BY DEF TransOK
<1>2. row \in Row /\ row.status = st /\ row.s = res[k].s /\ row.b = res[k].b
    BY <1>1 DEF Row
<1>3. st # "none"
    BY DEF Live, Ended
<1>4. res' = [res EXCEPT ![k] = row]
    BY <1>1 DEF SetStatus, TransOK
<1> HIDE DEF row
<1> QED BY <1>2, <1>3, <1>4, OneRow

\* The row a transaction inserts, with the holds it expired.
LEMMA Committing ==
    ASSUME TransOK, NEW p \in Procs, NEW row \in Row, row.status # "none",
           tx[p].k \in Keys, CommitRow(p, row)
    PROVE  res' \in [Keys -> Row] /\ res'[tx[p].k] = row /\ RowsKept({tx[p].k})
<1>1. \A k \in Keys : res[k] \in Row /\ [res[k] EXCEPT !.status = "expired"] \in Row
                      /\ [res[k] EXCEPT !.status = "expired"].status = "expired"
                      /\ [res[k] EXCEPT !.status = "expired"].s = res[k].s
                      /\ [res[k] EXCEPT !.status = "expired"].b = res[k].b
    <2>1. \A k \in Keys : res[k] \in Row
        BY DEF TransOK
    <2> QED BY <2>1 DEF Row, Ended
<1>2. \A k \in tx[p].swept : res[k].status # "none"
    BY DEF TransOK, Carries
<1>3. res' \in [Keys -> Row] /\ res'[tx[p].k] = row
    BY <1>1 DEF CommitRow
<1>4. \A k \in Keys : res[k].status # "none" => res'[k].status # "none"
    BY <1>1 DEF CommitRow
<1>5. \A k \in OfferKeys \ {tx[p].k} :
        IF res[k].status = "none" THEN res'[k] = res[k]
        ELSE res'[k].s = res[k].s /\ res'[k].b = res[k].b
    BY <1>1, <1>2, Apart DEF CommitRow
<1> QED BY <1>3, <1>4, <1>5 DEF RowsKept

LEMMA KeptAnyway == \A K : RowsKept(K) => RowsKept(OfferKeys)
BY DEF RowsKept

---------------------------------------------------------------------------
(* The statements of the handlers.                                         *)

LEMMA FreshTx ==
    /\ NoTx \in Tx /\ NoTx.swept = {} /\ NoTx.k = None
    /\ \A t \in Tx : t.pc \in PCs /\ t.k \in Keys \cup {None}
BY DEF NoTx, Tx, PCs

LEMMA Deciding1 ==
    ASSUME TransOK, NEW p \in Procs, NEW k \in Keys, NEW c \in Deciding, NEW a \in Nat,
           res[k].status # "none", Decide(p, k, c, a)
    PROVE  TransOK' /\ res' = res /\ \E t : Becomes(p, t) /\ t.pc = c
<1> DEFINE t == [NoTx EXCEPT !.pc = c, !.k = k, !.amt = a]
<1>1. t \in Tx /\ t.pc = c /\ t.k = k /\ t.swept = {}
    BY FreshTx DEF Tx, PCs, Deciding
<1>2. Becomes(p, t) /\ UNCHANGED <<res, job>>
    BY <1>1 DEF Becomes, Decide, Begin, tables
<1> HIDE DEF t
<1>3. Carries(t)
    BY <1>1, Apart DEF Carries
<1> QED BY <1>1, <1>2, <1>3, GoingOn

\* A request begins, and takes no row yet.
LEMMA Requests ==
    ASSUME TransOK, NEW p \in Procs, Request(p) \/ ExpireRead(p)
    PROVE  TransOK' /\ res' = res
           /\ \E t : Becomes(p, t) /\ t.pc \notin {"intakeLimits", "intakeInsert"}
<1>0. Deciding \cap {"intakeLimits", "intakeInsert"} = {}
    BY DEF Deciding
<1>1. CASE ReserveStart(p)
    <2>1. PICK s \in Students, b \in Beds, k \in ReserveKeys :
            Begin(p, [NoTx EXCEPT !.pc = "sweep", !.s = s, !.b = b, !.k = k])
        BY <1>1 DEF ReserveStart
    <2> DEFINE t == [NoTx EXCEPT !.pc = "sweep", !.s = s, !.b = b, !.k = k]
    <2>2. t \in Tx /\ t.pc = "sweep" /\ t.k = k /\ t.s = s /\ t.b = b /\ t.swept = {}
        BY FreshTx DEF Tx, PCs, Keys
    <2>3. Becomes(p, t) /\ UNCHANGED <<res, job>>
        BY <1>1, <2>1, <2>2 DEF Becomes, Begin, ReserveStart, tables
    <2> HIDE DEF t
    <2>4. Carries(t)
        BY <2>2 DEF Carries, Intaking, Deciding
    <2> QED BY <2>2, <2>3, <2>4, GoingOn
<1>2. CASE IntakeStart(p)
    <2>1. PICK s \in Students, b \in Beds, k \in IntakeKeys, f \in Fees, m \in BOOLEAN :
            Begin(p, [NoTx EXCEPT !.pc = "intakeSweep", !.s = s, !.b = b, !.k = k,
                                  !.amt = f, !.moved = m])
        BY <1>2 DEF IntakeStart
    <2> DEFINE t == [NoTx EXCEPT !.pc = "intakeSweep", !.s = s, !.b = b, !.k = k,
                                 !.amt = f, !.moved = m]
    <2>2. t \in Tx /\ t.pc = "intakeSweep" /\ t.k = k /\ t.s = s /\ t.b = b /\ t.swept = {}
        BY FreshTx, MoneyAssumption DEF Tx, PCs, Keys
    <2>3. Becomes(p, t) /\ UNCHANGED <<res, job>>
        BY <1>2, <2>1, <2>2 DEF Becomes, Begin, IntakeStart, tables
    <2> HIDE DEF t
    <2>4. Carries(t)
        BY <2>2 DEF Carries, Reserving, Deciding
    <2> QED BY <2>2, <2>3, <2>4, GoingOn
<1>3. CASE PayRead(p)
    <2>1. PICK k \in Keys, y \in PayKeys, a \in 1 .. Price :
            /\ res[k].status \in {"booked", "occupied"}
            /\ Begin(p, [NoTx EXCEPT !.pc = "pay", !.k = k, !.pay = y, !.amt = a])
        BY <1>3 DEF PayRead
    <2> DEFINE t == [NoTx EXCEPT !.pc = "pay", !.k = k, !.pay = y, !.amt = a]
    <2>2. t \in Tx /\ t.pc = "pay" /\ t.k = k /\ t.swept = {}
        <3>1. a \in Nat
            BY MoneyAssumption
        <3> QED BY FreshTx, <3>1 DEF Tx, PCs
    <2>3. Becomes(p, t) /\ UNCHANGED <<res, job>>
        BY <1>3, <2>1, <2>2 DEF Becomes, Begin, PayRead, tables
    <2> HIDE DEF t
    <2>4. Carries(t)
        BY <2>1, <2>2 DEF Carries, Reserving, Intaking
    <2> QED BY <2>2, <2>3, <2>4, GoingOn
<1>4. CASE \E k \in Keys, c \in Deciding, a \in Nat : res[k].status # "none" /\ Decide(p, k, c, a)
    <2>1. PICK k \in Keys, c \in Deciding, a \in Nat : res[k].status # "none" /\ Decide(p, k, c, a)
        BY <1>4
    <2>2. TransOK' /\ res' = res /\ \E t : Becomes(p, t) /\ t.pc = c
        BY <2>1, Deciding1
    <2> QED BY <1>0, <2>2
<1>5. CASE tx' = tx /\ tx[p].pc = "idle" /\ res' = res /\ job' \subseteq job
    <2>1. Becomes(p, tx[p]) /\ Carries(tx[p])
        BY <1>5 DEF Becomes, TransOK
    <2>2. Carries(tx[p])'
        BY <1>5, <2>1 DEF Carries
    <2>3. job' \subseteq Keys /\ res' \in [Keys -> Row]
        BY <1>5 DEF TransOK
    <2>4. TransOK'
        BY <1>5, <2>3 DEF TransOK, Carries
    <2> QED BY <1>5, <2>1, <2>4
<1>6. CASE BookRead(p) \/ CancelRead(p) \/ ReleaseRead(p) \/ AskRead(p) \/ MoveInRead(p)
    <2>1. \A k \in Keys : res[k].fee \in Nat
        BY DEF TransOK, Row
    <2>2. "none" \notin Active /\ {"book", "cancel", "release", "ask", "moveIn"} \subseteq Deciding
        BY DEF Active, Deciding
    <2>3. \E k \in Keys, c \in Deciding, a \in Nat : res[k].status # "none" /\ Decide(p, k, c, a)
        <3>1. CASE BookRead(p)
            BY <2>2, <3>1, MoneyAssumption DEF BookRead
        <3>2. CASE CancelRead(p)
            BY <2>2, <3>2 DEF CancelRead
        <3>3. CASE ReleaseRead(p)
            BY <2>1, <2>2, <3>3 DEF ReleaseRead
        <3>4. CASE AskRead(p)
            BY <2>2, <3>4 DEF AskRead
        <3>5. CASE MoveInRead(p)
            BY <2>2, <3>5 DEF MoveInRead
        <3> QED BY <1>6, <3>1, <3>2, <3>3, <3>4, <3>5
    <2> QED BY <1>4, <2>3
<1>7. CASE ExpireRead(p)
    <2>1. PICK k \in job :
            IF res[k].status = "reserved" THEN Decide(p, k, "expire", 0)
            ELSE tx[p].pc = "idle" /\ job' = job \ {k} /\ UNCHANGED <<tables, redisLock, tx>>
        BY <1>7 DEF ExpireRead
    <2>2. CASE res[k].status = "reserved"
        BY <1>4, <2>1, <2>2 DEF Deciding, TransOK
    <2>3. CASE res[k].status # "reserved"
        BY <1>5, <2>1, <2>3 DEF tables
    <2> QED BY <2>2, <2>3
<1> QED BY <1>1, <1>2, <1>3, <1>6, <1>7 DEF Request

\* One statement to another, nothing written yet.
LEMMA GotoNext ==
    ASSUME TransOK, NEW p \in Procs, NEW c \in PCs, Goto(p, c)
    PROVE  \E t : /\ Becomes(p, t) /\ t.pc = c /\ t.swept = tx[p].swept
                  /\ t.k = tx[p].k /\ t.s = tx[p].s /\ t.b = tx[p].b
<1> DEFINE t == [tx[p] EXCEPT !.pc = c]
<1>1. tx[p] \in Tx
    BY DEF TransOK
<1>2. /\ t \in Tx /\ t.pc = c /\ t.swept = tx[p].swept
      /\ t.k = tx[p].k /\ t.s = tx[p].s /\ t.b = tx[p].b
    BY <1>1 DEF Tx
<1>3. tx' = [tx EXCEPT ![p] = t]
    BY <1>1 DEF Goto, TransOK
<1> HIDE DEF t
<1> QED BY <1>2, <1>3 DEF Becomes

LEMMA Aborting ==
    ASSUME TransOK, NEW p \in Procs, Abort(p)
    PROVE  TransOK' /\ res' = res /\ Becomes(p, NoTx)
<1>1. End(p) /\ res' = res /\ job' = job
    BY DEF Abort, tables
<1> QED BY <1>1, Finishing, SameRows DEF TransOK

LEMMA Reserves ==
    ASSUME TransOK, NEW p \in Procs, Reserve(p)
    PROVE  /\ TransOK' /\ RowsKept({}) /\ tx[p].pc \in Reserving
           /\ \E t : Becomes(p, t) /\ t.pc \notin Intaking
<1>0. NoTx.pc \notin Intaking
    BY IdleFits, Apart
<1>00. tx[p] \in Tx /\ Carries(tx[p])
    BY DEF TransOK
<1>1. CASE Abort(p) /\ tx[p].pc \in Reserving
    BY <1>0, <1>1, Aborting, SameRows
<1>2. CASE ReserveSweep(p)
    <2> DEFINE t == [tx[p] EXCEPT !.swept = Overdue, !.pc = "limits"]
    <2>1. Overdue \subseteq Keys /\ \A k \in Overdue : res[k].status # "none"
        BY DEF Overdue
    <2>2. /\ t \in Tx /\ t.pc = "limits" /\ t.swept = Overdue
          /\ t.k = tx[p].k /\ t.s = tx[p].s /\ t.b = tx[p].b
        BY <1>00, <2>1 DEF Tx, PCs
    <2>3. tx' = [tx EXCEPT ![p] = t]
        BY <1>00, <1>2 DEF ReserveSweep, TransOK
    <2> HIDE DEF t
    <2>4. UNCHANGED <<res, job>> /\ tx[p].pc \in Reserving
        BY <1>2 DEF ReserveSweep, tables, Reserving
    <2>5. Carries(t)
        BY <1>00, <2>1, <2>2, <2>4 DEF Carries, Intaking, Deciding
    <2>6. Becomes(p, t) /\ t.pc \notin Intaking
        BY <2>2, <2>3 DEF Becomes, Intaking
    <2> QED BY <2>4, <2>5, <2>6, GoingOn, SameRows
<1>3. CASE ReserveLimits(p) /\ ~Abort(p)
    <2>1. Goto(p, "insert") /\ UNCHANGED <<res, job>> /\ tx[p].pc = "limits"
        BY <1>3 DEF ReserveLimits, tables
    <2>2. PICK t : /\ Becomes(p, t) /\ t.pc = "insert" /\ t.swept = tx[p].swept
                   /\ t.k = tx[p].k /\ t.s = tx[p].s /\ t.b = tx[p].b
        BY <2>1, GotoNext DEF PCs
    <2>3. Carries(t) /\ t.pc \notin Intaking /\ tx[p].pc \in Reserving
        BY <1>00, <2>1, <2>2 DEF Carries, Reserving, Intaking, Deciding
    <2> QED BY <2>1, <2>2, <2>3, GoingOn, SameRows
<1>4. CASE ReserveInsert(p) /\ ~Abort(p)
    <2>1. Goto(p, "fk") /\ UNCHANGED <<res, job>> /\ tx[p].pc = "insert"
        BY <1>4 DEF ReserveInsert, tables
    <2>2. PICK t : /\ Becomes(p, t) /\ t.pc = "fk" /\ t.swept = tx[p].swept
                   /\ t.k = tx[p].k /\ t.s = tx[p].s /\ t.b = tx[p].b
        BY <2>1, GotoNext DEF PCs
    <2>3. Carries(t) /\ t.pc \notin Intaking /\ tx[p].pc \in Reserving
        BY <1>00, <2>1, <2>2 DEF Carries, Reserving, Intaking, Deciding
    <2> QED BY <2>1, <2>2, <2>3, GoingOn, SameRows
<1>5. CASE ReserveCommit(p)
    <2> DEFINE row == [NoRow EXCEPT !.status = "reserved", !.s = tx[p].s, !.b = tx[p].b]
    <2>1. tx[p].pc = "fk" /\ CommitRow(p, row) /\ job' = job
          /\ tx' = [tx EXCEPT ![p].pc = "after", ![p].swept = {}]
        BY <1>5 DEF ReserveCommit
    <2>2. tx[p].k \in ReserveKeys /\ tx[p].s \in Students /\ tx[p].b \in Beds
        BY <1>00, <2>1 DEF Carries, Reserving
    <2>3. row \in Row /\ row.status # "none"
        BY <2>2 DEF Row, NoRow, Live
    <2>4. PICK t \in Tx : /\ t.pc = "after" /\ t.swept = {} /\ t.k = tx[p].k /\ t.s = tx[p].s
                          /\ t.b = tx[p].b /\ tx' = [tx EXCEPT ![p] = t]
        <3> DEFINE u == [tx[p] EXCEPT !.pc = "after", !.swept = {}]
        <3>1. /\ u \in Tx /\ u.pc = "after" /\ u.swept = {}
              /\ u.k = tx[p].k /\ u.s = tx[p].s /\ u.b = tx[p].b
            BY <1>00 DEF Tx, PCs
        <3>2. tx' = [tx EXCEPT ![p] = u]
            BY <1>00, <2>1 DEF TransOK
        <3> HIDE DEF u
        <3> QED BY <3>1, <3>2
    <2> HIDE DEF row
    <2>6. res' \in [Keys -> Row] /\ RowsKept({tx[p].k})
        BY <2>1, <2>2, <2>3, Committing DEF Keys
    <2>7. RowsKept({})
        BY <2>2, <2>6, Apart DEF RowsKept
    <2>8. Carries(t)'
        BY <2>2, <2>4 DEF Carries, Reserving, Intaking, Deciding
    <2>9. Becomes(p, t) /\ t.pc \notin Intaking /\ tx[p].pc \in Reserving
        BY <2>1, <2>4 DEF Becomes, Intaking, Reserving
    <2> QED BY <2>1, <2>6, <2>7, <2>8, <2>9, KeptAnyway, TransStep DEF TransOK
<1>6. CASE ReserveAfter(p)
    <2>1. End(p) /\ res' = res /\ job' = job \cup {tx[p].k} /\ tx[p].pc \in Reserving
        BY <1>6 DEF ReserveAfter, tables, Reserving
    <2>2. tx[p].k \in Keys
        BY <1>00, <2>1 DEF Carries, Keys
    <2>3. job' \subseteq Keys /\ res' \in [Keys -> Row]
        BY <2>1, <2>2 DEF TransOK
    <2> QED BY <1>0, <2>1, <2>3, Finishing, SameRows
<1> QED BY <1>1, <1>2, <1>3, <1>4, <1>5, <1>6
        DEF Reserve, ReserveLimits, ReserveInsert, Reserving

LEMMA Writes ==
    ASSUME TransOK, NEW p \in Procs, Write(p)
    PROVE  TransOK' /\ RowsKept({}) /\ tx[p].pc \in Deciding /\ Becomes(p, NoTx)
<1> DEFINE k == tx[p].k
<1>1. tx[p].pc \in Deciding
    BY DEF Write, BookWrite, CancelWrite, ReleaseWrite, AskWrite, ExpireWrite, MoveInWrite,
           PayWrite, Deciding
<1>2. k \in Keys /\ res[k].status # "none" /\ res[k] \in Row /\ tx[p].amt \in Nat
    BY <1>1 DEF TransOK, Carries, Tx
<1>3. CASE Abort(p)
    BY <1>1, <1>3, Aborting, SameRows
<1>4. CASE ~Abort(p)
    <2>1. End(p) /\ job' \subseteq job
        BY <1>4 DEF Write, BookWrite, CancelWrite, ReleaseWrite, AskWrite, ExpireWrite,
                    MoveInWrite, PayWrite
    <2>2. res' \in [Keys -> Row] /\ RowsKept({}) /\ RowsKept(OfferKeys)
        <3>1. CASE res' = res
            BY <3>1, SameRows DEF TransOK
        <3>2. CASE \E st \in Live \cup Ended : SetStatus(k, st)
            BY <1>2, <3>2, StatusSet
        <3>3. CASE res' = [res EXCEPT ![k] = [@ EXCEPT !.status = "booked", !.due = FALSE,
                                                       !.fee = tx[p].amt]]
            <4> DEFINE row == [res[k] EXCEPT !.status = "booked", !.due = FALSE,
                                             !.fee = tx[p].amt]
            <4>1. row \in Row /\ row.status = "booked" /\ row.s = res[k].s /\ row.b = res[k].b
                BY <1>2 DEF Row, Live
            <4>2. res' = [res EXCEPT ![k] = row]
                BY <1>2, <3>3
            <4> HIDE DEF row, k
            <4> QED BY <1>2, <4>1, <4>2, OneRow
        <3>4. {"cancelled", "released", "expired", "occupied"} \subseteq Live \cup Ended
            BY DEF Live, Ended
        <3> QED BY <1>4, <3>1, <3>2, <3>3, <3>4
                DEF Write, BookWrite, CancelWrite, ReleaseWrite, AskWrite, ExpireWrite,
                    MoveInWrite, PayWrite
    <2>3. job' \subseteq Keys
        BY <2>1 DEF TransOK
    <2> QED BY <1>1, <2>1, <2>2, <2>3, Finishing
<1> QED BY <1>3, <1>4

\* An intake goes on, is given up, or is booked for its student.
LEMMA Intakes ==
    ASSUME TransOK, NEW p \in Procs, Intake(p)
    PROVE  /\ TransOK' /\ tx[p].pc \in Intaking /\ RowsKept({tx[p].k})
           /\ \/ /\ res' = res
                 /\ \E t : /\ Becomes(p, t) /\ t.pc \in Intaking
                           /\ t.k = tx[p].k /\ t.s = tx[p].s /\ t.b = tx[p].b
              \/ res' = res /\ Becomes(p, NoTx)
              \/ /\ Becomes(p, NoTx) /\ res'[tx[p].k].status # "none"
                 /\ res'[tx[p].k].s = tx[p].s /\ res'[tx[p].k].b = tx[p].b
<1>0. tx[p] \in Tx /\ Carries(tx[p])
    BY DEF TransOK
<1>00. tx[p].pc \in Intaking
    BY DEF Intake, IntakeSweep, IntakeLimits, IntakeInsert, Intaking
<1>1. CASE Abort(p)
    BY <1>00, <1>1, Aborting, SameRows
<1>2. CASE IntakeSweep(p) /\ ~Abort(p)
    <2> DEFINE D == {k \in Overdue : res[k].b = tx[p].b}
               t == [tx[p] EXCEPT !.swept = D, !.pc = "intakeLimits"]
    <2>1. D \subseteq Keys /\ \A k \in D : res[k].status # "none"
        BY DEF Overdue
    <2>2. /\ t \in Tx /\ t.pc = "intakeLimits" /\ t.swept = D
          /\ t.k = tx[p].k /\ t.s = tx[p].s /\ t.b = tx[p].b
        BY <1>0, <2>1 DEF Tx, PCs
    <2>3. tx' = [tx EXCEPT ![p].swept = D, ![p].pc = "intakeLimits"] /\ UNCHANGED <<res, job>>
        BY <1>2 DEF IntakeSweep, tables
    <2>4. tx' = [tx EXCEPT ![p] = t]
        BY <1>0, <2>3 DEF TransOK
    <2> HIDE DEF t, D
    <2>5. Carries(t) /\ t.pc \in Intaking
        BY <1>0, <1>00, <2>1, <2>2 DEF Carries, Reserving, Intaking, Deciding
    <2>6. Becomes(p, t)
        BY <2>2, <2>4 DEF Becomes
    <2> QED BY <1>00, <2>2, <2>3, <2>5, <2>6, GoingOn, SameRows
<1>3. CASE IntakeLimits(p) /\ ~Abort(p)
    <2>1. Goto(p, "intakeInsert") /\ UNCHANGED <<res, job>>
        BY <1>3 DEF IntakeLimits, tables
    <2>2. PICK t : /\ Becomes(p, t) /\ t.pc = "intakeInsert" /\ t.swept = tx[p].swept
                   /\ t.k = tx[p].k /\ t.s = tx[p].s /\ t.b = tx[p].b
        BY <2>1, GotoNext DEF PCs
    <2>3. Carries(t) /\ t.pc \in Intaking
        BY <1>0, <1>00, <2>2 DEF Carries, Reserving, Intaking, Deciding
    <2> QED BY <1>00, <2>1, <2>2, <2>3, GoingOn, SameRows
<1>4. CASE IntakeInsert(p) /\ ~Abort(p)
    <2> DEFINE row == [NoRow EXCEPT !.s = tx[p].s, !.b = tx[p].b, !.fee = tx[p].amt,
                                    !.status = IF tx[p].moved THEN "occupied" ELSE "booked"]
    <2>1. CommitRow(p, row) /\ End(p) /\ job' = job
        BY <1>4 DEF IntakeInsert
    <2>2. tx[p].k \in IntakeKeys /\ tx[p].s \in Students /\ tx[p].b \in Beds /\ tx[p].amt \in Nat
        BY <1>0, <1>00 DEF Carries, Tx
    <2>3. row \in Row /\ row.status # "none" /\ row.s = tx[p].s /\ row.b = tx[p].b
        BY <2>2 DEF Row, NoRow, Live
    <2> HIDE DEF row
    <2>4. res' \in [Keys -> Row] /\ res'[tx[p].k] = row /\ RowsKept({tx[p].k})
        BY <2>1, <2>2, <2>3, Committing DEF Keys
    <2> QED BY <1>00, <2>1, <2>3, <2>4, KeptAnyway, Finishing DEF TransOK
<1> QED BY <1>1, <1>2, <1>3, <1>4 DEF Intake

\* The sweep and time.
LEMMA PassesKeep ==
    ASSUME TransOK, Passes
    PROVE  TransOK' /\ RowsKept({}) /\ tx' = tx
<1>1. tx' = tx /\ job' = job
    BY DEF Passes, Sweep, HoldEnds, LockTimesOut
<1>2. res' \in [Keys -> Row] /\ RowsKept({})
    <2>1. CASE Sweep
        <3>1. Overdue \in SUBSET Keys /\ \A k \in Overdue : res[k].status # "none"
            BY DEF Overdue
        <3>2. res' = [k \in Keys |-> IF k \in Overdue THEN [res[k] EXCEPT !.status = "expired"]
                                                     ELSE res[k]]
            BY <2>1 DEF Sweep
        <3> QED BY <3>1, <3>2, Expiring
    <2>2. ASSUME NEW k \in Keys, HoldEnds(k) PROVE res' \in [Keys -> Row] /\ RowsKept({})
        <3> DEFINE row == [res[k] EXCEPT !.due = TRUE]
        <3>1. res[k] \in Row /\ res[k].status = "reserved"
            BY <2>2 DEF TransOK, HoldEnds
        <3>2. row \in Row /\ row.status # "none" /\ row.s = res[k].s /\ row.b = res[k].b
            BY <3>1 DEF Row
        <3>3. res' = [res EXCEPT ![k] = row]
            BY <2>2, <3>1 DEF HoldEnds, TransOK
        <3> HIDE DEF row
        <3> QED BY <3>1, <3>2, <3>3, OneRow
    <2>3. ASSUME NEW b \in Beds, LockTimesOut(b) PROVE res' \in [Keys -> Row] /\ RowsKept({})
        BY <2>3, SameRows DEF LockTimesOut, tables, TransOK
    <2> QED BY <2>1, <2>2, <2>3 DEF Passes
<1>3. \A p \in Procs : Carries(tx[p])'
    BY <1>1, <1>2 DEF TransOK, Carries, RowsKept
<1> QED BY <1>1, <1>2, <1>3 DEF TransOK

---------------------------------------------------------------------------
(* Offers.                                                                 *)

\* An offer outside K stays as it was answered, and as it was offered.
OffersKept(K) ==
    \A k \in OfferKeys \ K :
        /\ offers[k].status = "accepted" <=> offers'[k].status = "accepted"
        /\ offers[k].status # "none" => offers'[k].s = offers[k].s /\ offers'[k].b = offers[k].b

LEMMA MatchStep ==
    ASSUME OInv, TransOK', NEW K, RowsKept(K), OffersKept(K),
           \A k \in OfferKeys \cap K :
                \/ /\ offers'[k].status = "accepted" /\ res'[k].status # "none"
                   /\ res'[k].s = offers'[k].s /\ res'[k].b = offers'[k].b
                \/ offers'[k].status # "accepted" /\ res'[k] = NoRow
    PROVE  OfferMatchesBooking'
<1> SUFFICES ASSUME NEW k \in OfferKeys, k \notin K
    PROVE  IF offers'[k].status = "accepted"
           THEN res'[k].status # "none" /\ <<res'[k].s, res'[k].b>> = <<offers'[k].s, offers'[k].b>>
           ELSE res'[k] = NoRow
    BY DEF OfferMatchesBooking
<1>1. IF offers[k].status = "accepted"
      THEN res[k].status # "none" /\ <<res[k].s, res[k].b>> = <<offers[k].s, offers[k].b>>
      ELSE res[k] = NoRow
    BY DEF OInv, OfferMatchesBooking
<1>2. CASE offers[k].status = "accepted"
    BY <1>1, <1>2, Apart DEF RowsKept, OffersKept
<1>3. CASE offers[k].status # "accepted"
    <2>1. res[k] = NoRow /\ NoRow.status = "none"
        BY <1>1, <1>3 DEF NoRow
    <2> QED BY <1>3, <2>1 DEF RowsKept, OffersKept
<1> QED BY <1>2, <1>3

LEMMA DeskStep ==
    ASSUME OInv, NEW p \in Procs, NEW t, Becomes(p, t), NEW d \in Desk,
           desk' = [desk EXCEPT ![p] = d], offers' \in [OfferKeys -> Offer], OffersNamed',
           \A q \in Procs \ {p} : Answers(desk[q]) =>
                /\ offers'[desk[q].k].status = "pending"
                /\ offers'[desk[q].k].s = offers[desk[q].k].s
                /\ offers'[desk[q].k].b = offers[desk[q].k].b,
           Answers(d) => \A q \in Procs \ {p} : Answers(desk[q]) => desk[q].k # d.k,
           Fits(d, t)'
    PROVE  DeskOK'
<1>1. /\ tx'[p] = t /\ \A q \in Procs \ {p} : tx'[q] = tx[q]
    BY DEF OInv, TransOK, Becomes
<1>2. /\ desk' \in [Procs -> Desk] /\ desk'[p] = d /\ \A q \in Procs \ {p} : desk'[q] = desk[q]
    BY DEF OInv, DeskOK
<1>3. AnswersExclude'
    <2> SUFFICES ASSUME NEW a \in Procs, NEW c \in Procs, Answers(desk'[a]), Answers(desk'[c]),
                        desk'[a].k = desk'[c].k
        PROVE  a = c
        BY DEF AnswersExclude, Answers
    <2> QED BY <1>2 DEF OInv, DeskOK, AnswersExclude
<1>4. ASSUME NEW q \in Procs PROVE Fits(desk[q], tx[q])'
    <2>1. CASE q = p
        <3>1. desk'[q] = d /\ tx'[q] = t
            BY <1>1, <1>2, <2>1
        <3> QED BY <3>1 DEF Fits
    <2>2. CASE q # p
        <3>1. desk'[q] = desk[q] /\ tx'[q] = tx[q] /\ Fits(desk[q], tx[q])
            BY <1>1, <1>2, <2>2 DEF OInv, DeskOK
        <3>2. Answers(desk[q]) =>
                /\ offers'[desk[q].k].status = "pending"
                /\ offers'[desk[q].k].s = offers[desk[q].k].s
                /\ offers'[desk[q].k].b = offers[desk[q].k].b
            BY <2>2
        <3> QED BY <3>1, <3>2 DEF Fits, Answers
    <2> QED BY <2>1, <2>2
<1> QED BY <1>2, <1>3, <1>4 DEF DeskOK

\* No offer changes while p goes on.
LEMMA QuietStep ==
    ASSUME OInv, NEW p \in Procs, NEW t, Becomes(p, t), NEW d \in Desk,
           desk' = [desk EXCEPT ![p] = d], UNCHANGED offers,
           Answers(d) => \A q \in Procs \ {p} : Answers(desk[q]) => desk[q].k # d.k,
           Fits(d, t), TransOK', RowsKept({})
    PROVE  OInv'
<1>1. Fits(d, t)' /\ OffersNamed' /\ OffersKept({})
    BY DEF Fits, OInv, DeskOK, OffersNamed, OffersKept
<1>2. \A q \in Procs : Answers(desk[q]) => offers[desk[q].k].status = "pending"
    BY DEF OInv, DeskOK, Fits, Answers
<1>3. DeskOK'
    BY <1>1, <1>2, DeskStep DEF OInv, DeskOK
<1>4. OfferMatchesBooking'
    BY <1>1, MatchStep DEF OInv
<1> QED BY <1>3, <1>4 DEF OInv

LEMMA Rest == /\ AtRest \in Desk /\ AtRest.step = "none" /\ ~Answers(AtRest)
              /\ Fits(AtRest, NoTx) /\ Fits(AtRest, NoTx)'
BY IdleFits, Apart DEF AtRest, Desk, Answers, Fits

\* p gives up.
LEMMA Leaving ==
    ASSUME OInv, NEW p \in Procs, Becomes(p, NoTx), Leaves(p), UNCHANGED offers,
           TransOK', RowsKept({})
    PROVE  OInv'
BY Rest, QuietStep DEF Leaves

LEMMA CommitKeeps ==
    ASSUME TransOK, NEW p \in Procs, Commit(p), End(p), UNCHANGED job
    PROVE  TransOK' /\ Becomes(p, NoTx) /\ RowsKept({})
<1>1. \A k \in tx[p].swept : k \in Keys /\ res[k].status # "none"
    BY DEF TransOK, Carries
<1>2. res' \in [Keys -> Row] /\ RowsKept({}) /\ RowsKept(OfferKeys)
    BY <1>1, Expiring DEF Commit
<1> QED BY <1>2, Finishing DEF TransOK

LEMMA OfferStartStep == ASSUME OInv, NEW p \in Procs, OfferStart(p) PROVE OInv'
<1>1. PICK k \in OfferKeys, s \in Students, b \in Beds, f \in Fees, m \in BOOLEAN :
        /\ Begin(p, [NoTx EXCEPT !.pc = "intakeSweep", !.s = s, !.b = b, !.k = k,
                                 !.amt = f, !.moved = m])
        /\ desk' = [desk EXCEPT ![p] = [step |-> "offer", k |-> k]]
    BY DEF OfferStart
<1> DEFINE t == [NoTx EXCEPT !.pc = "intakeSweep", !.s = s, !.b = b, !.k = k,
                             !.amt = f, !.moved = m]
           d == [step |-> "offer", k |-> k]
<1>2. t \in Tx /\ t.pc = "intakeSweep" /\ t.k = k /\ t.s = s /\ t.b = b /\ t.swept = {}
    <2>1. f \in Nat /\ k \in Keys
        BY MoneyAssumption, Apart
    <2> QED BY <2>1, FreshTx DEF Tx, PCs
<1>3. Becomes(p, t) /\ UNCHANGED <<res, job, offers>>
    BY <1>1, <1>2 DEF Becomes, Begin, OfferStart, tables
<1>4. d \in Desk /\ d.step = "offer" /\ ~Answers(d)
    BY DEF Desk, Answers
<1> HIDE DEF t, d
<1>5. Carries(t) /\ Fits(d, t)
    BY <1>2, <1>4, OffersAssumption DEF Carries, Reserving, Deciding, Fits
<1>6. TransOK' /\ RowsKept({})
    BY <1>3, <1>5, GoingOn, SameRows DEF OInv
<1> QED BY <1>1, <1>3, <1>4, <1>5, <1>6, QuietStep DEF d

\* The desk goes on to another statement.
LEMMA Seated ==
    ASSUME OInv, NEW p \in Procs, NEW step \in {"bed", "counted"}, Sits(p, step)
    PROVE  \E d \in Desk : desk' = [desk EXCEPT ![p] = d] /\ d.step = step
<1> DEFINE d == [desk[p] EXCEPT !.step = step]
<1>1. desk[p] \in Desk
    BY DEF OInv, DeskOK
<1>2. d \in Desk /\ d.step = step
    BY <1>1 DEF Desk
<1>3. desk' = [desk EXCEPT ![p] = d]
    BY <1>1 DEF Sits, OInv, DeskOK
<1> HIDE DEF d
<1> QED BY <1>2, <1>3

\* The transaction of an offer holds what an intake holds.
LEMMA OfferTx ==
    ASSUME OInv, NEW p \in Procs, desk[p].step \in {"offer", "bed", "counted"}
    PROVE  /\ tx[p] \in Tx /\ tx[p].pc = "intakeSweep" /\ tx[p].k \in OfferKeys
           /\ tx[p].s \in Students /\ tx[p].b \in Beds /\ Carries(tx[p])
BY DEF OInv, DeskOK, Fits, TransOK, Carries, Intaking

LEMMA OfferBedStep == ASSUME OInv, NEW p \in Procs, OfferBed(p) PROVE OInv'
<1>1. CASE Abort(p) /\ Leaves(p)
    BY <1>1, Aborting, SameRows, Leaving DEF OInv, OfferBed
<1>2. CASE ~(Abort(p) /\ Leaves(p))
    <2> DEFINE D == {k \in Overdue : res[k].b = tx[p].b}
    <2>1. /\ tx' = [tx EXCEPT ![p].swept = D] /\ Sits(p, "bed")
          /\ UNCHANGED <<res, job, offers>>
        BY <1>2 DEF OfferBed, tables
    <2>2. PICK d \in Desk : desk' = [desk EXCEPT ![p] = d] /\ d.step = "bed"
        BY <2>1, Seated
    <2>3. /\ tx[p] \in Tx /\ tx[p].pc = "intakeSweep" /\ tx[p].k \in OfferKeys
          /\ tx[p].s \in Students /\ tx[p].b \in Beds /\ Carries(tx[p])
        BY OfferTx DEF OfferBed
    <2>4. D \subseteq Keys /\ \A k \in D : res[k].status # "none"
        BY DEF Overdue
    <2> DEFINE t == [tx[p] EXCEPT !.swept = D]
    <2>5. /\ t \in Tx /\ t.pc = "intakeSweep" /\ t.swept = D
          /\ t.k = tx[p].k /\ t.s = tx[p].s /\ t.b = tx[p].b
        BY <2>3, <2>4 DEF Tx
    <2>6. tx' = [tx EXCEPT ![p] = t]
        BY <2>1, <2>3 DEF OInv, TransOK
    <2> HIDE DEF t, D
    <2>7. Becomes(p, t) /\ Carries(t) /\ Fits(d, t) /\ ~Answers(d)
        BY <2>2, <2>3, <2>4, <2>5, <2>6, OffersAssumption
        DEF Becomes, Carries, Fits, Answers, Reserving, Deciding
    <2>8. TransOK' /\ RowsKept({})
        BY <2>1, <2>7, GoingOn, SameRows DEF OInv
    <2> QED BY <2>1, <2>2, <2>7, <2>8, QuietStep
<1> QED BY <1>1, <1>2

LEMMA OfferCountStep == ASSUME OInv, NEW p \in Procs, OfferCount(p) PROVE OInv'
<1>1. CASE Commit(p) /\ End(p) /\ Leaves(p)
    BY <1>1, CommitKeeps, Leaving DEF OInv, OfferCount
<1>2. CASE ~(Commit(p) /\ End(p) /\ Leaves(p))
    <2>1. Sits(p, "counted") /\ UNCHANGED <<res, tx, job, offers>>
        BY <1>2 DEF OfferCount
    <2>2. PICK d \in Desk : desk' = [desk EXCEPT ![p] = d] /\ d.step = "counted"
        BY <2>1, Seated
    <2>3. tx[p] \in Tx /\ tx[p].pc = "intakeSweep" /\ tx[p].k \in OfferKeys /\ Carries(tx[p])
        BY OfferTx DEF OfferCount
    <2>4. Becomes(p, tx[p]) /\ Fits(d, tx[p]) /\ ~Answers(d)
        BY <2>1, <2>2, <2>3 DEF Becomes, Fits, Answers, OInv, TransOK
    <2>5. TransOK' /\ RowsKept({})
        BY <2>1, <2>3, <2>4, GoingOn, SameRows DEF OInv
    <2> QED BY <2>1, <2>2, <2>4, <2>5, QuietStep
<1> QED BY <1>1, <1>2

LEMMA OfferInsertStep == ASSUME OInv, NEW p \in Procs, OfferInsert(p) PROVE OInv'
<1> DEFINE k == tx[p].k
           o == [status |-> "pending", s |-> tx[p].s, b |-> tx[p].b,
                 fee |-> tx[p].amt, moved |-> tx[p].moved, expired |-> FALSE]
<1>1. /\ tx[p] \in Tx /\ k \in OfferKeys /\ tx[p].s \in Students /\ tx[p].b \in Beds
    BY OfferTx DEF OfferInsert
<1>2. Commit(p) /\ End(p) /\ Leaves(p) /\ UNCHANGED job
    BY DEF OfferInsert
<1>3. TransOK' /\ Becomes(p, NoTx) /\ RowsKept({})
    BY <1>2, CommitKeeps DEF OInv
<1>4. CASE UNCHANGED offers
    BY <1>2, <1>3, <1>4, Leaving
<1>5. CASE offers[k] = NoOffer /\ offers' = [offers EXCEPT ![k] = o]
    <2>1. o \in Offer /\ o.status = "pending" /\ o.s \in Students /\ o.b \in Beds
        BY <1>1 DEF Offer, Tx
    <2> HIDE DEF o, k
    <2>2. /\ offers' \in [OfferKeys -> Offer] /\ offers'[k] = o
          /\ \A j \in OfferKeys \ {k} : offers'[j] = offers[j]
        BY <1>1, <1>5, <2>1 DEF OInv, DeskOK
    <2>3. offers[k].status = "none"
        BY <1>5 DEF NoOffer
    <2>4. OffersNamed' /\ OffersKept({})
        BY <2>1, <2>2, <2>3 DEF OffersNamed, OffersKept, OInv, DeskOK
    <2>5. \A q \in Procs : Answers(desk[q]) =>
            desk[q].k \in OfferKeys /\ offers[desk[q].k].status = "pending"
        BY DEF OInv, DeskOK, Fits, Answers
    <2>6. DeskOK'
        BY <1>2, <1>3, <2>2, <2>3, <2>4, <2>5, Rest, DeskStep DEF Leaves
    <2>7. OfferMatchesBooking'
        BY <1>3, <2>4, MatchStep
    <2> QED BY <1>3, <2>6, <2>7 DEF OInv
<1> QED BY <1>4, <1>5 DEF OfferInsert

\* An offer runs out and stays what it is.
LEMMA OfferExpiresStep == ASSUME OInv, NEW k \in OfferKeys, OfferExpires(k) PROVE OInv'
<1> DEFINE o == [offers[k] EXCEPT !.expired = TRUE]
<1>1. offers[k] \in Offer
    BY DEF OInv, DeskOK
<1>2. o \in Offer /\ o.status = offers[k].status /\ o.s = offers[k].s /\ o.b = offers[k].b
    BY <1>1 DEF Offer
<1>3. offers' = [offers EXCEPT ![k] = o] /\ UNCHANGED <<vars, desk>>
    BY <1>1 DEF OfferExpires, OInv, DeskOK
<1> HIDE DEF o
<1>4. /\ offers' \in [OfferKeys -> Offer]
      /\ \A j \in OfferKeys : /\ offers'[j].status = offers[j].status
                              /\ offers'[j].s = offers[j].s /\ offers'[j].b = offers[j].b
    BY <1>2, <1>3 DEF OInv, DeskOK
<1>5. TransOK'
    BY <1>3 DEF OInv, TransOK, Carries, vars
<1>6. OffersNamed' /\ AnswersExclude' /\ OffersKept({})
    BY <1>3, <1>4 DEF OInv, DeskOK, OffersNamed, AnswersExclude, Answers, OffersKept
<1>7. ASSUME NEW q \in Procs PROVE Fits(desk[q], tx[q])'
    <2>1. Fits(desk[q], tx[q]) /\ desk'[q] = desk[q] /\ tx'[q] = tx[q]
        BY <1>3 DEF OInv, DeskOK, vars
    <2> QED BY <1>4, <2>1 DEF Fits
<1>8. DeskOK'
    BY <1>3, <1>4, <1>6, <1>7 DEF OInv, DeskOK
<1>9. RowsKept({})
    BY <1>3, SameRows DEF vars
<1>10. OfferMatchesBooking'
    BY <1>5, <1>6, <1>9, MatchStep
<1> QED BY <1>5, <1>8, <1>10 DEF OInv

\* With the offer's row locked nobody else is answering it.
LEMMA Alone ==
    ASSUME NEW p \in Procs, NEW k \in OfferKeys, OfferFree(p, k)
    PROVE  \A q \in Procs \ {p} : Answers(desk[q]) => desk[q].k # k
BY DEF OfferFree, Others, Answers

LEMMA AcceptReadStep == ASSUME OInv, NEW p \in Procs, AcceptRead(p) PROVE OInv'
<1>1. PICK k \in OfferKeys :
        /\ Answerable(p, k)
        /\ Begin(p, [NoTx EXCEPT !.pc = "intakeSweep", !.s = offers[k].s, !.b = offers[k].b,
                                 !.k = k, !.amt = offers[k].fee, !.moved = offers[k].moved])
        /\ desk' = [desk EXCEPT ![p] = [step |-> "accept", k |-> k]]
    BY DEF AcceptRead
<1> DEFINE o == offers[k]
           t == [NoTx EXCEPT !.pc = "intakeSweep", !.s = o.s, !.b = o.b,
                             !.k = k, !.amt = o.fee, !.moved = o.moved]
           d == [step |-> "accept", k |-> k]
<1>2. o \in Offer /\ o.status = "pending" /\ OfferFree(p, k)
    BY <1>1 DEF OInv, DeskOK, Answerable
<1>3. o.s \in Students /\ o.b \in Beds
    BY <1>2 DEF OInv, DeskOK, OffersNamed
<1>4. t \in Tx /\ t.pc = "intakeSweep" /\ t.k = k /\ t.s = o.s /\ t.b = o.b /\ t.swept = {}
    <2> HIDE DEF o
    <2> QED BY <1>2, <1>3, FreshTx, Apart DEF Tx, PCs, Offer
<1>5. Becomes(p, t) /\ UNCHANGED <<res, job, offers>>
    BY <1>1, <1>4 DEF Becomes, Begin, AcceptRead, tables
<1>6. d \in Desk /\ d.step = "accept" /\ d.k = k /\ Answers(d)
    BY DEF Desk, Answers
<1> HIDE DEF t, d
<1>7. Carries(t) /\ Fits(d, t)
    BY <1>2, <1>3, <1>4, <1>6, OffersAssumption DEF Carries, Reserving, Deciding, Intaking, Fits
<1>8. TransOK' /\ RowsKept({})
    BY <1>5, <1>7, GoingOn, SameRows DEF OInv
<1>9. \A q \in Procs \ {p} : Answers(desk[q]) => desk[q].k # d.k
    BY <1>2, <1>6, Alone
<1> QED BY <1>1, <1>5, <1>6, <1>7, <1>8, <1>9, QuietStep DEF d

LEMMA DeclineReadStep == ASSUME OInv, NEW p \in Procs, DeclineRead(p) PROVE OInv'
<1>1. PICK k \in OfferKeys :
        Answerable(p, k) /\ desk' = [desk EXCEPT ![p] = [step |-> "decline", k |-> k]]
    BY DEF DeclineRead
<1> DEFINE d == [step |-> "decline", k |-> k]
<1>2. d \in Desk /\ d.step = "decline" /\ d.k = k
    BY DEF Desk
<1>3. UNCHANGED <<res, job, tx, offers>> /\ tx[p].pc = "idle"
    BY DEF DeclineRead, vars
<1> HIDE DEF d
<1>4. Becomes(p, tx[p]) /\ Carries(tx[p])
    BY <1>3 DEF Becomes, OInv, TransOK
<1>5. Fits(d, tx[p])
    BY <1>1, <1>2, <1>3 DEF Fits, Answerable
<1>6. TransOK' /\ RowsKept({})
    BY <1>3, <1>4, GoingOn, SameRows DEF OInv
<1>7. \A q \in Procs \ {p} : Answers(desk[q]) => desk[q].k # d.k
    BY <1>1, <1>2, Alone DEF Answerable
<1> QED BY <1>1, <1>2, <1>3, <1>4, <1>5, <1>6, <1>7, QuietStep DEF d

\* An answer is written to the row it locked.
LEMMA Answered ==
    ASSUME OInv, NEW p \in Procs, Answers(desk[p]), NEW status \in {"accepted", "declined"},
           offers' = [offers EXCEPT ![desk[p].k].status = status]
    PROVE  /\ offers' \in [OfferKeys -> Offer] /\ OffersNamed' /\ OffersKept({desk[p].k})
           /\ desk[p].k \in OfferKeys /\ offers[desk[p].k].status = "pending"
           /\ offers'[desk[p].k].status = status
           /\ offers'[desk[p].k].s = offers[desk[p].k].s
           /\ offers'[desk[p].k].b = offers[desk[p].k].b
           /\ \A q \in Procs \ {p} : Answers(desk[q]) =>
                /\ offers'[desk[q].k].status = "pending"
                /\ offers'[desk[q].k].s = offers[desk[q].k].s
                /\ offers'[desk[q].k].b = offers[desk[q].k].b
<1> DEFINE k == desk[p].k
           o == [offers[k] EXCEPT !.status = status]
<1>1. k \in OfferKeys /\ offers[k].status = "pending"
    BY DEF OInv, DeskOK, Fits, Answers
<1>2. offers[k] \in Offer
    BY <1>1 DEF OInv, DeskOK
<1>3. o \in Offer /\ o.status = status /\ o.s = offers[k].s /\ o.b = offers[k].b
    BY <1>2 DEF Offer
<1>4. offers' = [offers EXCEPT ![k] = o]
    BY <1>2 DEF OInv, DeskOK
<1>5. \A q \in Procs \ {p} : Answers(desk[q]) =>
        desk[q].k \in OfferKeys /\ desk[q].k # k /\ offers[desk[q].k].status = "pending"
    BY DEF OInv, DeskOK, AnswersExclude, Fits, Answers
<1> HIDE DEF k, o
<1>6. /\ offers' \in [OfferKeys -> Offer] /\ offers'[k] = o
      /\ \A j \in OfferKeys \ {k} : offers'[j] = offers[j]
    BY <1>1, <1>3, <1>4 DEF OInv, DeskOK
<1>7. OffersNamed' /\ OffersKept({k})
    BY <1>1, <1>3, <1>6 DEF OffersNamed, OffersKept, OInv, DeskOK
<1> QED BY <1>1, <1>3, <1>5, <1>6, <1>7 DEF k

LEMMA DeclineWriteStep == ASSUME OInv, NEW p \in Procs, DeclineWrite(p) PROVE OInv'
<1> DEFINE k == desk[p].k
<1>1. /\ Answers(desk[p]) /\ offers' = [offers EXCEPT ![k].status = "declined"]
      /\ Leaves(p) /\ UNCHANGED <<res, job, tx>>
    BY DEF DeclineWrite, Answers, vars
<1>2. /\ offers' \in [OfferKeys -> Offer] /\ OffersNamed' /\ OffersKept({k})
      /\ k \in OfferKeys /\ offers[k].status = "pending"
      /\ offers'[k].status = "declined"
      /\ \A q \in Procs \ {p} : Answers(desk[q]) =>
                /\ offers'[desk[q].k].status = "pending"
                /\ offers'[desk[q].k].s = offers[desk[q].k].s
                /\ offers'[desk[q].k].b = offers[desk[q].k].b
    BY <1>1, Answered
<1>3. res'[k] = NoRow
    BY <1>1, <1>2 DEF OInv, OfferMatchesBooking
<1>4. Becomes(p, tx[p]) /\ Carries(tx[p])
    BY <1>1 DEF Becomes, OInv, TransOK
<1>5. TransOK' /\ RowsKept({k})
    BY <1>1, <1>4, GoingOn, SameRows DEF OInv
<1>6. OfferMatchesBooking'
    <2> HIDE DEF k
    <2> QED BY <1>2, <1>3, <1>5, MatchStep
<1>7. PICK t : t = tx[p]
    OBVIOUS
<1>8. Becomes(p, t) /\ t.pc \notin Intaking
    <2>1. desk[p].step = "decline" /\ t.pc = "idle"
        BY <1>7 DEF DeclineWrite, OInv, DeskOK, Fits
    <2> QED BY <1>4, <1>7, <2>1, Apart
<1>9. DeskOK'
    BY <1>1, <1>2, <1>8, Rest, DeskStep DEF Leaves, Fits, AtRest
<1> QED BY <1>5, <1>6, <1>9 DEF OInv

LEMMA ElsewhereStep == ASSUME OInv, NEW p \in Procs, Elsewhere(p) PROVE OInv'
<1>1. /\ TransOK' /\ res' = res
      /\ \E t : Becomes(p, t) /\ t.pc \notin {"intakeLimits", "intakeInsert"}
    BY Requests DEF OInv, Elsewhere
<1>2. PICK t : Becomes(p, t) /\ t.pc \notin {"intakeLimits", "intakeInsert"}
    BY <1>1
<1>3. tx'[p] = t
    BY <1>2 DEF Becomes, OInv, TransOK
<1>4. Fits(AtRest, t)
    BY <1>2, <1>3 DEF Elsewhere, Fits, AtRest, Intaking
<1>5. desk' = [desk EXCEPT ![p] = AtRest] /\ UNCHANGED offers
    BY DEF Elsewhere, OInv, DeskOK
<1> QED BY <1>1, <1>2, <1>4, <1>5, Rest, SameRows, QuietStep

LEMMA CarryOnStep == ASSUME OInv, NEW p \in Procs, CarryOn(p) PROVE OInv'
<1>0. Fits(desk[p], tx[p]) /\ desk[p] \in Desk
    BY DEF OInv, DeskOK
<1>1. CASE desk[p].step = "none"
    <2>1. UNCHANGED offers
        BY <1>1 DEF CarryOn
    <2>2. TransOK' /\ RowsKept({}) /\ \E t : Becomes(p, t) /\ (t.pc \in Intaking => t.k \notin OfferKeys)
        <3>1. CASE Reserve(p)
            BY <3>1, Reserves DEF OInv
        <3>2. CASE Write(p)
            BY <3>2, Writes, IdleFits, Apart DEF OInv
        <3>3. CASE Intake(p)
            <4>1. TransOK' /\ tx[p].pc \in Intaking /\ RowsKept({tx[p].k})
                  /\ \E t : Becomes(p, t) /\ (t = NoTx \/ t.k = tx[p].k)
                BY <3>3, Intakes DEF OInv
            <4>2. tx[p].k \notin OfferKeys
                BY <1>0, <1>1, <4>1 DEF Fits
            <4>3. RowsKept({})
                BY <4>1, <4>2 DEF RowsKept
            <4>4. NoTx.pc \notin Intaking
                BY IdleFits, Apart
            <4> QED BY <4>1, <4>2, <4>3, <4>4
        <3> QED BY <3>1, <3>2, <3>3 DEF CarryOn
    <2>3. PICK t : Becomes(p, t) /\ (t.pc \in Intaking => t.k \notin OfferKeys)
        BY <2>2
    <2>4. PICK d \in Desk : desk' = [desk EXCEPT ![p] = d] /\ d.step = "none"
        <3>1. CASE Leaves(p)
            BY <3>1, Rest DEF Leaves
        <3>2. CASE UNCHANGED desk
            BY <1>0, <1>1, <3>2 DEF OInv, DeskOK
        <3> QED BY <3>1, <3>2 DEF CarryOn
    <2>5. Fits(d, t) /\ ~Answers(d)
        BY <2>3, <2>4 DEF Fits, Answers
    <2> QED BY <2>1, <2>2, <2>3, <2>4, <2>5, QuietStep
<1>2. CASE desk[p].step = "accept"
    <2> DEFINE k == desk[p].k
    <2>1. /\ tx[p].pc \in Intaking /\ tx[p].k = k /\ k \in OfferKeys
          /\ offers[k].status = "pending" /\ tx[p].s = offers[k].s /\ tx[p].b = offers[k].b
        BY <1>0, <1>2 DEF Fits
    <2>2. Intake(p)
        BY <2>1, Reserves, Writes, Apart DEF CarryOn, OInv
    <2>3. TransOK' /\ RowsKept({k})
        BY <2>1, <2>2, Intakes DEF OInv
    <2>4. res[k] = NoRow
        BY <2>1 DEF OInv, OfferMatchesBooking
    <2>5. CASE res' = res /\ \E t : /\ Becomes(p, t) /\ t.pc \in Intaking
                                    /\ t.k = tx[p].k /\ t.s = tx[p].s /\ t.b = tx[p].b
        <3>1. PICK t : /\ Becomes(p, t) /\ t.pc \in Intaking
                       /\ t.k = tx[p].k /\ t.s = tx[p].s /\ t.b = tx[p].b
            BY <2>5
        <3>2. tx'[p] = t /\ t # NoTx
            BY <3>1, IdleFits, Apart DEF Becomes, OInv, TransOK
        <3>3. UNCHANGED <<desk, offers>>
            BY <2>5, <3>2 DEF CarryOn
        <3>4. Fits(desk[p], t)
            BY <1>0, <1>2, <2>1, <3>1 DEF Fits
        <3>5. \A q \in Procs \ {p} : Answers(desk[q]) => desk[q].k # desk[p].k
            BY <1>2 DEF Answers, OInv, DeskOK, AnswersExclude
        <3>6. desk' = [desk EXCEPT ![p] = desk[p]]
            BY <3>3 DEF OInv, DeskOK
        <3> QED BY <1>0, <2>3, <2>5, <3>1, <3>3, <3>4, <3>5, <3>6, SameRows, QuietStep
    <2>6. CASE res' = res /\ Becomes(p, NoTx)
        <3>1. UNCHANGED offers /\ Leaves(p)
            BY <2>6 DEF CarryOn, Becomes, OInv, TransOK
        <3> QED BY <2>3, <2>6, <3>1, SameRows, Leaving
    <2>7. CASE /\ Becomes(p, NoTx) /\ res'[k].status # "none"
               /\ res'[k].s = tx[p].s /\ res'[k].b = tx[p].b
        <3>1. res'[k] # res[k]
            BY <2>4, <2>7 DEF NoRow
        <3>2. offers' = [offers EXCEPT ![k].status = "accepted"] /\ Leaves(p) /\ Answers(desk[p])
            BY <1>2, <2>7, <3>1 DEF CarryOn, Becomes, OInv, TransOK, Answers
        <3>3. /\ offers' \in [OfferKeys -> Offer] /\ OffersNamed' /\ OffersKept({k})
              /\ offers'[k].status = "accepted"
              /\ offers'[k].s = offers[k].s /\ offers'[k].b = offers[k].b
              /\ \A q \in Procs \ {p} : Answers(desk[q]) =>
                /\ offers'[desk[q].k].status = "pending"
                /\ offers'[desk[q].k].s = offers[desk[q].k].s
                /\ offers'[desk[q].k].b = offers[desk[q].k].b
            BY <3>2, Answered
        <3>4. DeskOK'
            BY <2>7, <3>2, <3>3, Rest, DeskStep DEF Leaves
        <3>5. OfferMatchesBooking'
            <4> HIDE DEF k
            <4> QED BY <2>1, <2>3, <2>7, <3>3, MatchStep
        <3> QED BY <2>3, <3>4, <3>5 DEF OInv
    <2> QED BY <2>1, <2>2, <2>5, <2>6, <2>7, Intakes DEF OInv
<1> QED BY <1>1, <1>2 DEF CarryOn

LEMMA BreaksOffStep == ASSUME OInv, NEW p \in Procs, BreaksOff(p) PROVE OInv'
<1>1. End(p) /\ res' = res /\ job' \subseteq job /\ Leaves(p) /\ UNCHANGED offers
    BY DEF BreaksOff, Fail, DeadlockVictim, Abort, tables
<1>2. job' \subseteq Keys /\ res' \in [Keys -> Row]
    BY <1>1 DEF OInv, TransOK
<1>3. TransOK' /\ Becomes(p, NoTx) /\ RowsKept({})
    BY <1>1, <1>2, Finishing, SameRows DEF OInv
<1> QED BY <1>1, <1>3, Leaving

LEMMA AsideStep ==
    ASSUME OInv, TransOK', RowsKept({}), UNCHANGED <<tx, offers, desk>>
    PROVE  OInv'
<1>1. DeskOK'
    BY DEF OInv, DeskOK, OffersNamed, AnswersExclude, Answers, Fits
<1>2. OffersKept({})
    BY DEF OffersKept
<1>3. OfferMatchesBooking'
    BY <1>2, MatchStep
<1> QED BY <1>1, <1>3 DEF OInv

---------------------------------------------------------------------------
LEMMA OfferInitInv == OfferInit => OInv
<1> SUFFICES ASSUME OfferInit PROVE OInv
    OBVIOUS
<1>1. NoRow \in Row /\ NoRow.status = "none"
    BY DEF NoRow, Row
<1>2. NoTx \in Tx /\ NoTx.pc = "idle" /\ Carries(NoTx)
    BY IdleFits, Apart DEF Carries
<1>3. TransOK
    BY <1>1, <1>2 DEF OfferInit, Init, TransOK
<1>4. NoOffer \in Offer /\ NoOffer.status = "none"
    BY DEF NoOffer, Offer
<1>5. DeskOK
    BY <1>2, <1>4, Rest DEF OfferInit, Init, DeskOK, OffersNamed, AnswersExclude
<1>6. OfferMatchesBooking
    BY <1>4, Apart DEF OfferInit, Init, OfferMatchesBooking
<1> QED BY <1>3, <1>5, <1>6 DEF OInv

LEMMA OfferNextInv == OInv /\ [OfferNext]_offerVars => OInv'
<1> SUFFICES ASSUME OInv, [OfferNext]_offerVars PROVE OInv'
    OBVIOUS
<1>1. ASSUME NEW p \in Procs,
             \/ OfferStart(p) \/ OfferBed(p) \/ OfferCount(p) \/ OfferInsert(p)
             \/ AcceptRead(p) \/ DeclineRead(p) \/ DeclineWrite(p)
             \/ Elsewhere(p) \/ CarryOn(p) \/ BreaksOff(p)
      PROVE  OInv'
    BY <1>1, OfferStartStep, OfferBedStep, OfferCountStep, OfferInsertStep, AcceptReadStep,
       DeclineReadStep, DeclineWriteStep, ElsewhereStep, CarryOnStep, BreaksOffStep
<1>2. CASE \E k \in OfferKeys : OfferExpires(k)
    BY <1>2, OfferExpiresStep
<1>3. CASE Passes /\ UNCHANGED <<offers, desk>>
    BY <1>3, PassesKeep, AsideStep DEF OInv
<1>4. CASE UNCHANGED offerVars
    <2>1. TransOK' /\ RowsKept({})
        BY <1>4, SameRows DEF OInv, TransOK, Carries, offerVars, vars
    <2> QED BY <1>4, <2>1, AsideStep DEF offerVars, vars
<1> QED BY <1>1, <1>2, <1>3, <1>4 DEF OfferNext

\* However often and however concurrently an offer is accepted, declined or
\* left half-way, an accepted one is exactly the reservation its student was
\* offered, and no other is one (respondTenantAssignment).
THEOREM OffersMatchBookings == OfferSpec => []OfferMatchesBooking
<1>1. OInv => OfferMatchesBooking
    BY DEF OInv
<1> QED BY <1>1, OfferInitInv, OfferNextInv, PTL DEF OfferSpec

---------------------------------------------------------------------------
(* How many offers wait.                                                   *)

\* What the advisory lock is for: one request at a time has counted a student's
\* offers, and there is still room for the one it is about to insert.
Counted(p) == desk[p].step = "counted"
CountInv ==
    /\ \A p \in Procs : Counted(p) => Cardinality(Waiting(tx[p].s)) < MaxPending
    /\ \A p, q \in Procs : Counted(p) /\ Counted(q) /\ tx[p].s = tx[q].s => p = q

\* Fewer offers wait for s.
Fewer(s) == Waiting(s)' \subseteq Waiting(s)

LEMMA FewerWait ==
    ASSUME NEW s, Fewer(s)
    PROVE  /\ Cardinality(Waiting(s)) \in Nat /\ Cardinality(Waiting(s))' \in Nat
           /\ Cardinality(Waiting(s))' <= Cardinality(Waiting(s))
<1>1. IsFiniteSet(Waiting(s)) /\ IsFiniteSet(Waiting(s)')
    BY OffersAssumption, FS_Subset DEF Waiting
<1>2. Cardinality(Waiting(s)) \in Nat /\ Cardinality(Waiting(s)') \in Nat
    BY <1>1, FS_CardinalityType
<1>3. Cardinality(Waiting(s)') <= Cardinality(Waiting(s))
    BY <1>1, FS_Subset DEF Fewer
<1> QED BY <1>2, <1>3

\* A step of p that counts nothing and adds no offer.
LEMMA Uncounted ==
    ASSUME OInv, CountInv, FewOffersWait, NEW p \in Procs, NEW t, Becomes(p, t),
           \A q \in Procs \ {p} : desk'[q] = desk[q], desk'[p].step # "counted",
           \A s : Fewer(s)
    PROVE  CountInv' /\ FewOffersWait'
<1>1. \A q \in Procs \ {p} : tx'[q] = tx[q]
    BY DEF Becomes, OInv, TransOK
<1>2. ASSUME NEW q \in Procs, Counted(q)' PROVE Cardinality(Waiting(tx[q].s))' < MaxPending
    <2>1. q # p /\ tx'[q] = tx[q] /\ Counted(q)
        BY <1>1, <1>2 DEF Counted
    <2>2. PICK s : s = tx[q].s
        OBVIOUS
    <2>3. Cardinality(Waiting(s)) < MaxPending
        BY <2>1, <2>2 DEF CountInv
    <2>4. Cardinality(Waiting(s))' < MaxPending
        BY <2>3, FewerWait, OffersAssumption
    <2>5. tx'[q].s = s
        BY <2>1, <2>2
    <2> QED BY <2>4, <2>5 DEF Waiting
<1>3. \A a, b \in Procs : Counted(a)' /\ Counted(b)' /\ tx'[a].s = tx'[b].s => a = b
    BY <1>1 DEF CountInv, Counted
<1>4. ASSUME NEW s \in Students PROVE Cardinality(Waiting(s))' <= MaxPending
    BY FewerWait, OffersAssumption DEF FewOffersWait
<1> QED BY <1>2, <1>3, <1>4 DEF CountInv, FewOffersWait

LEMMA SameOffers == UNCHANGED offers => \A s : Fewer(s)
BY DEF Fewer, Waiting

LEMMA CountStep ==
    ASSUME OInv, CountInv, FewOffersWait, NEW p \in Procs,
           \/ OfferStart(p) \/ OfferBed(p) \/ AcceptRead(p) \/ DeclineRead(p) \/ DeclineWrite(p)
           \/ Elsewhere(p) \/ CarryOn(p) \/ BreaksOff(p)
    PROVE  CountInv' /\ FewOffersWait'
<1>0. desk \in [Procs -> Desk] /\ tx \in [Procs -> Tx] /\ offers \in [OfferKeys -> Offer]
    BY DEF OInv, DeskOK, TransOK
<1>00. AtRest.step = "none"
    BY DEF AtRest
<1>1. CASE OfferStart(p) \/ AcceptRead(p) \/ DeclineRead(p)
    <2>1. PICK d : desk' = [desk EXCEPT ![p] = d] /\ d.step # "counted"
        <3>1. CASE OfferStart(p)
            <4>1. PICK k : desk' = [desk EXCEPT ![p] = [step |-> "offer", k |-> k]]
                BY <3>1 DEF OfferStart
            <4>2. [step |-> "offer", k |-> k].step # "counted"
                OBVIOUS
            <4> QED BY <4>1, <4>2, Zenon
        <3>2. CASE AcceptRead(p)
            <4>1. PICK k : desk' = [desk EXCEPT ![p] = [step |-> "accept", k |-> k]]
                BY <3>2 DEF AcceptRead
            <4>2. [step |-> "accept", k |-> k].step # "counted"
                OBVIOUS
            <4> QED BY <4>1, <4>2, Zenon
        <3>3. CASE DeclineRead(p)
            <4>1. PICK k : desk' = [desk EXCEPT ![p] = [step |-> "decline", k |-> k]]
                BY <3>3 DEF DeclineRead
            <4>2. [step |-> "decline", k |-> k].step # "counted"
                OBVIOUS
            <4> QED BY <4>1, <4>2, Zenon
        <3> QED BY <1>1, <3>1, <3>2, <3>3
    <2>2. UNCHANGED offers
        BY <1>1 DEF OfferStart, AcceptRead, DeclineRead
    <2>3. PICK t : tx' = [tx EXCEPT ![p] = t]
        <3>1. CASE OfferStart(p)
            BY <3>1 DEF OfferStart, Begin
        <3>2. CASE AcceptRead(p)
            BY <3>2 DEF AcceptRead, Begin
        <3>3. CASE DeclineRead(p)
            BY <1>0, <3>3 DEF DeclineRead, vars
        <3> QED BY <1>1, <3>1, <3>2, <3>3
    <2>4. t \in Tx
        <3>1. OInv'
            BY <1>1, OfferStartStep, AcceptReadStep, DeclineReadStep
        <3> QED BY <1>0, <2>3, <3>1 DEF OInv, TransOK
    <2>5. Becomes(p, t)
        BY <1>0, <2>3, <2>4 DEF Becomes
    <2> QED BY <1>0, <2>1, <2>2, <2>5, SameOffers, Uncounted
<1>2. CASE OfferBed(p)
    <2>1. /\ \A q \in Procs \ {p} : desk'[q] = desk[q]
          /\ desk'[p].step # "counted" /\ UNCHANGED offers
        BY <1>0, <1>00, <1>2 DEF OfferBed, Sits, Leaves, Desk
    <2>2. \E t : Becomes(p, t)
        <3>1. tx'[p] \in Tx
            BY <1>2, OfferBedStep DEF OInv, TransOK
        <3>2. \E t : tx' = [tx EXCEPT ![p] = t]
            BY <1>0, <1>2 DEF OfferBed, Abort, End
        <3> QED BY <1>0, <3>1, <3>2 DEF Becomes
    <2> QED BY <2>1, <2>2, SameOffers, Uncounted
<1>3. CASE DeclineWrite(p)
    <2>1. /\ \A q \in Procs \ {p} : desk'[q] = desk[q]
          /\ desk'[p].step # "counted" /\ tx' = tx
        BY <1>0, <1>00, <1>3 DEF DeclineWrite, Leaves, vars
    <2>2. Becomes(p, tx[p])
        BY <1>0, <2>1 DEF Becomes
    <2>3. desk[p].k \in OfferKeys
        BY <1>3 DEF DeclineWrite, OInv, DeskOK, Fits
    <2>4. \A s : Fewer(s)
        BY <1>0, <1>3, <2>3 DEF DeclineWrite, Fewer, Waiting, Offer
    <2>5. PICK t : Becomes(p, t)
        BY <2>2
    <2> QED BY <2>1, <2>4, <2>5, Uncounted
<1>4. CASE Elsewhere(p)
    <2>1. \E t : Becomes(p, t)
        BY <1>4, Requests DEF OInv, Elsewhere
    <2>2. UNCHANGED <<desk, offers>> /\ desk[p].step = "none"
        BY <1>4, <1>00 DEF Elsewhere
    <2> QED BY <2>1, <2>2, SameOffers, Uncounted
<1>5. CASE CarryOn(p)
    <2>1. \E t : Becomes(p, t)
        BY <1>5, Reserves, Writes, Intakes DEF OInv, CarryOn
    <2>2. \A q \in Procs \ {p} : desk'[q] = desk[q]
        BY <1>0, <1>5 DEF CarryOn, Leaves
    <2>3. desk'[p].step # "counted"
        BY <1>0, <1>00, <1>5 DEF CarryOn, Leaves
    <2>4. \A s : Fewer(s)
        <3>1. CASE UNCHANGED offers
            BY <3>1, SameOffers
        <3>2. CASE ~UNCHANGED offers
            <4>1. /\ offers' = [offers EXCEPT ![desk[p].k].status = "accepted"]
                  /\ desk[p].k \in OfferKeys
                BY <1>5, <3>2 DEF CarryOn, OInv, DeskOK, Fits
            <4> QED BY <1>0, <4>1 DEF Fewer, Waiting, Offer
        <3> QED BY <3>1, <3>2
    <2> QED BY <2>1, <2>2, <2>3, <2>4, Uncounted
<1>6. CASE BreaksOff(p)
    <2>1. Becomes(p, NoTx)
        BY <1>6, IdleFits DEF BreaksOff, Fail, DeadlockVictim, Abort, End, Becomes
    <2>2. /\ \A q \in Procs \ {p} : desk'[q] = desk[q]
          /\ desk'[p].step # "counted" /\ UNCHANGED offers
        BY <1>0, <1>00, <1>6 DEF BreaksOff, Leaves
    <2> QED BY <2>1, <2>2, SameOffers, Uncounted
<1> QED BY <1>1, <1>2, <1>3, <1>4, <1>5, <1>6

LEMMA CountingStep ==
    ASSUME OInv, CountInv, FewOffersWait, NEW p \in Procs, OfferCount(p)
    PROVE  CountInv' /\ FewOffersWait'
<1>0. desk \in [Procs -> Desk] /\ tx \in [Procs -> Tx] /\ UNCHANGED offers
    BY DEF OInv, DeskOK, TransOK, OfferCount
<1>1. CASE Commit(p) /\ End(p) /\ Leaves(p)
    <2>1. Becomes(p, NoTx)
        BY <1>1, IdleFits DEF End, Becomes
    <2>2. /\ \A q \in Procs \ {p} : desk'[q] = desk[q]
          /\ desk'[p].step # "counted"
        BY <1>0, <1>1 DEF Leaves, AtRest
    <2> QED BY <1>0, <2>1, <2>2, SameOffers, Uncounted
<1>2. CASE ~(Commit(p) /\ End(p) /\ Leaves(p))
    <2>1. /\ Cardinality(Waiting(tx[p].s)) < MaxPending
          /\ Sits(p, "counted") /\ UNCHANGED tx /\ CountFree(p, tx[p].s)
        BY <1>2 DEF OfferCount
    <2>2. \A q \in Procs \ {p} : desk'[q] = desk[q] /\ ~(Counted(q) /\ tx[q].s = tx[p].s)
        BY <1>0, <2>1 DEF Sits, CountFree, Others, Counted
    <2>3. \A q \in Procs : Counted(q)' => Cardinality(Waiting(tx[q].s))' < MaxPending
        BY <1>0, <2>1, <2>2 DEF Counted, CountInv, Waiting
    <2>4. \A a, b \in Procs : Counted(a)' /\ Counted(b)' /\ tx'[a].s = tx'[b].s => a = b
        BY <2>1, <2>2 DEF CountInv, Counted
    <2>5. FewOffersWait'
        BY <1>0 DEF FewOffersWait, Waiting
    <2> QED BY <2>3, <2>4, <2>5 DEF CountInv
<1> QED BY <1>1, <1>2

LEMMA InsertingStep ==
    ASSUME OInv, CountInv, FewOffersWait, NEW p \in Procs, OfferInsert(p)
    PROVE  CountInv' /\ FewOffersWait'
<1>0. desk \in [Procs -> Desk] /\ tx \in [Procs -> Tx] /\ offers \in [OfferKeys -> Offer]
    BY DEF OInv, DeskOK, TransOK
<1>1. Becomes(p, NoTx)
    BY IdleFits DEF OfferInsert, End, Becomes
<1>2. /\ \A q \in Procs \ {p} : desk'[q] = desk[q] /\ tx'[q] = tx[q]
      /\ desk'[p].step # "counted" /\ Counted(p)
    BY <1>0, <1>1 DEF OfferInsert, Leaves, AtRest, Becomes, Counted
<1>3. PICK s : s = tx[p].s
    OBVIOUS
<1>4. PICK k : k = tx[p].k /\ k \in OfferKeys
    BY OfferTx DEF OfferInsert
<1>5. Waiting(s)' \subseteq Waiting(s) \cup {k} /\ \A r : r # s => Fewer(r)
    BY <1>0, <1>3, <1>4 DEF OfferInsert, Fewer, Waiting
<1>6. Cardinality(Waiting(s))' <= MaxPending
    <2>1. IsFiniteSet(Waiting(s)) /\ Cardinality(Waiting(s)) \in Nat
        BY OffersAssumption, FS_Subset, FS_CardinalityType DEF Waiting
    <2>2. /\ IsFiniteSet(Waiting(s) \cup {k})
          /\ Cardinality(Waiting(s) \cup {k}) <= Cardinality(Waiting(s)) + 1
        <3>1. /\ IsFiniteSet(Waiting(s) \cup {k})
              /\ Cardinality(Waiting(s) \cup {k})
                 = IF k \in Waiting(s) THEN Cardinality(Waiting(s)) ELSE Cardinality(Waiting(s)) + 1
            BY <2>1, FS_AddElement, Zenon
        <3> QED BY <2>1, <3>1
    <2>3. /\ Cardinality(Waiting(s)') <= Cardinality(Waiting(s) \cup {k})
          /\ Cardinality(Waiting(s)') \in Nat /\ Cardinality(Waiting(s) \cup {k}) \in Nat
        BY <1>5, <2>2, FS_Subset, FS_CardinalityType
    <2>4. Cardinality(Waiting(s)) < MaxPending
        BY <1>2, <1>3 DEF CountInv
    <2> QED BY <2>1, <2>2, <2>3, <2>4, OffersAssumption
<1>7. ASSUME NEW q \in Procs, Counted(q)' PROVE Cardinality(Waiting(tx[q].s))' < MaxPending
    <2>1. q # p /\ Counted(q) /\ tx'[q] = tx[q]
        BY <1>2, <1>7 DEF Counted
    <2>2. PICK r : r = tx[q].s
        OBVIOUS
    <2>3. r # s /\ Cardinality(Waiting(r)) < MaxPending
        BY <1>2, <1>3, <2>1, <2>2 DEF CountInv
    <2>4. Cardinality(Waiting(r))' < MaxPending
        BY <1>5, <2>3, FewerWait, OffersAssumption
    <2> QED BY <2>1, <2>2, <2>4 DEF Waiting
<1>8. \A a, b \in Procs : Counted(a)' /\ Counted(b)' /\ tx'[a].s = tx'[b].s => a = b
    BY <1>2 DEF CountInv, Counted
<1>9. ASSUME NEW r \in Students PROVE Cardinality(Waiting(r))' <= MaxPending
    <2>1. CASE r = s
        BY <1>6, <2>1 DEF Waiting
    <2>2. CASE r # s
        BY <1>5, <2>2, FewerWait, OffersAssumption DEF FewOffersWait
    <2> QED BY <2>1, <2>2
<1> QED BY <1>7, <1>8, <1>9 DEF CountInv, FewOffersWait

LEMMA CountAside ==
    ASSUME CountInv, FewOffersWait, UNCHANGED <<tx, desk>>, \A s : Fewer(s)
    PROVE  CountInv' /\ FewOffersWait'
<1>1. ASSUME NEW s, Cardinality(Waiting(s)) < MaxPending
      PROVE  Cardinality(Waiting(s))' < MaxPending
    BY <1>1, FewerWait, OffersAssumption
<1>2. ASSUME NEW q \in Procs, Counted(q)' PROVE Cardinality(Waiting(tx[q].s))' < MaxPending
    <2>1. PICK s : s = tx[q].s
        OBVIOUS
    <2>2. Cardinality(Waiting(s)) < MaxPending
        BY <1>2, <2>1 DEF CountInv, Counted
    <2> QED BY <1>1, <2>1, <2>2 DEF Waiting
<1>3. \A a, b \in Procs : Counted(a)' /\ Counted(b)' /\ tx'[a].s = tx'[b].s => a = b
    BY DEF CountInv, Counted
<1>4. FewOffersWait'
    BY FewerWait, OffersAssumption DEF FewOffersWait
<1> QED BY <1>2, <1>3, <1>4 DEF CountInv

\* However many entries a landlord sends at once, no more offers wait for a
\* student than may (the count and the lock in requestTenantAssignment).
THEOREM OffersAreFew == OfferSpec => []FewOffersWait
<1>1. OfferInit => CountInv /\ FewOffersWait
    <2> SUFFICES ASSUME OfferInit PROVE CountInv /\ FewOffersWait
        OBVIOUS
    <2>1. AtRest.step # "counted" /\ NoOffer.status # "pending"
        BY DEF AtRest, NoOffer
    <2>2. \A s : Waiting(s) = {}
        BY <2>1 DEF OfferInit, Waiting
    <2>3. \A s : Cardinality(Waiting(s)) = 0
        BY <2>2, FS_EmptySet
    <2> QED BY <2>1, <2>3, OffersAssumption DEF OfferInit, CountInv, Counted, FewOffersWait
<1>2. OInv /\ (CountInv /\ FewOffersWait) /\ [OfferNext]_offerVars => (CountInv /\ FewOffersWait)'
    <2> SUFFICES ASSUME OInv, CountInv, FewOffersWait, [OfferNext]_offerVars
                 PROVE  CountInv' /\ FewOffersWait'
        OBVIOUS
    <2>1. ASSUME NEW p \in Procs,
                 \/ OfferStart(p) \/ OfferBed(p) \/ OfferCount(p) \/ OfferInsert(p)
                 \/ AcceptRead(p) \/ DeclineRead(p) \/ DeclineWrite(p)
                 \/ Elsewhere(p) \/ CarryOn(p) \/ BreaksOff(p)
          PROVE  CountInv' /\ FewOffersWait'
        BY <2>1, CountStep, CountingStep, InsertingStep
    <2>2. ASSUME NEW k \in OfferKeys, OfferExpires(k) PROVE CountInv' /\ FewOffersWait'
        <3>1. UNCHANGED <<tx, desk>>
            BY <2>2 DEF OfferExpires, vars
        <3>2. \A s : Fewer(s)
            BY <2>2 DEF OfferExpires, Fewer, Waiting, OInv, DeskOK, Offer
        <3> QED BY <3>1, <3>2, CountAside
    <2>3. CASE Passes /\ UNCHANGED <<offers, desk>>
        <3>1. tx' = tx
            BY <2>3, PassesKeep DEF OInv
        <3> QED BY <2>3, <3>1, SameOffers, CountAside
    <2>4. CASE UNCHANGED offerVars
        BY <2>4, SameOffers, CountAside DEF offerVars, vars
    <2> QED BY <2>1, <2>2, <2>3, <2>4 DEF OfferNext
<1> QED BY <1>1, <1>2, OfferInitInv, OfferNextInv, PTL DEF OfferSpec

---------------------------------------------------------------------------
(* The types of what an offer does not touch.                              *)

RestOK ==
    /\ paid \in [Keys -> Nat] /\ rent \in [Keys -> [PayKeys -> Nat]] /\ moveIns \subseteq Keys
    /\ releases \in [Keys -> SUBSET [input : {"yes", "no", "omitted"}, flag : BOOLEAN]]
    /\ asked \in [Keys -> Nat] /\ redisLock \subseteq Beds

LEMMA RestStays ==
    ASSUME RestOK, UNCHANGED <<paid, rent, moveIns, releases, asked>>, redisLock' \subseteq Beds
    PROVE  RestOK'
BY DEF RestOK

LEMMA DropStays == ASSUME RestOK, NEW p, DropRedisLock(p) PROVE redisLock' \subseteq Beds
BY DEF RestOK, DropRedisLock

LEMMA RequestRest ==
    ASSUME RestOK, NEW p \in Procs, Request(p) \/ ExpireRead(p)
    PROVE  RestOK'
<1>1. UNCHANGED tables
    BY DEF Request, ExpireRead, ReserveStart, IntakeStart, BookRead, CancelRead, ReleaseRead,
           AskRead, MoveInRead, PayRead, Decide
<1>2. redisLock' = redisLock \/ \E b \in Beds : redisLock' = redisLock \cup {b}
    BY DEF Request, ExpireRead, ReserveStart, IntakeStart, BookRead, CancelRead, ReleaseRead,
           AskRead, MoveInRead, PayRead, Decide
<1>3. redisLock' \subseteq Beds
    BY <1>2 DEF RestOK
<1> QED BY <1>1, <1>3, RestStays DEF tables

LEMMA ReserveRest ==
    ASSUME RestOK, NEW p \in Procs, Reserve(p)
    PROVE  RestOK'
<1>1. UNCHANGED <<paid, rent, moveIns, releases, asked>>
      /\ (redisLock' = redisLock \/ DropRedisLock(p))
    BY DEF Reserve, ReserveSweep, ReserveLimits, ReserveInsert, ReserveCommit, ReserveAfter,
           Abort, tables
<1> QED BY <1>1, DropStays, RestStays DEF RestOK

LEMMA IntakeRest ==
    ASSUME TransOK, RestOK, NEW p \in Procs, Intake(p)
    PROVE  RestOK'
<1>1. CASE UNCHANGED tables /\ (redisLock' = redisLock \/ DropRedisLock(p))
    BY <1>1, DropStays, RestStays DEF tables, RestOK
<1>2. CASE /\ paid' = [paid EXCEPT ![tx[p].k] = @ + tx[p].amt]
           /\ moveIns' = IF tx[p].moved THEN moveIns \cup {tx[p].k} ELSE moveIns
           /\ tx[p].pc = "intakeInsert"
           /\ UNCHANGED <<rent, releases, asked, redisLock>>
    <2>1. tx[p].k \in Keys /\ tx[p].amt \in Nat
        BY <1>2 DEF TransOK, Carries, Intaking, Keys, Tx
    <2>2. paid' \in [Keys -> Nat] /\ moveIns' \subseteq Keys
        BY <1>2, <2>1 DEF RestOK
    <2> QED BY <1>2, <2>2 DEF RestOK
<1> QED BY <1>1, <1>2 DEF Intake, IntakeSweep, IntakeLimits, IntakeInsert, Abort, tables

LEMMA WriteRest ==
    ASSUME TransOK, RestOK, NEW p \in Procs, Write(p)
    PROVE  RestOK'
<1>0. tx[p].pc \in Deciding /\ tx[p].k \in Keys /\ tx[p].amt \in Nat
    <2>1. tx[p].pc \in Deciding
        BY DEF Write, BookWrite, CancelWrite, ReleaseWrite, AskWrite, ExpireWrite, MoveInWrite,
               PayWrite, Deciding
    <2> QED BY <2>1 DEF TransOK, Carries, Tx
<1>1. CASE BookWrite(p)
    <2>1. CASE Abort(p)
        BY <2>1, DropStays, RestStays DEF Abort, tables
    <2>2. CASE /\ paid' = [paid EXCEPT ![tx[p].k] = @ + tx[p].amt]
               /\ UNCHANGED <<rent, moveIns, releases, asked, redisLock>>
        <3>1. paid' \in [Keys -> Nat]
            BY <1>0, <2>2 DEF RestOK
        <3> QED BY <2>2, <3>1 DEF RestOK
    <2> QED BY <1>1, <2>1, <2>2 DEF BookWrite
<1>2. CASE CancelWrite(p) \/ ExpireWrite(p)
    BY <1>2 DEF CancelWrite, ExpireWrite, RestOK
<1>3. CASE ReleaseWrite(p)
    <2>1. PICK input \in RefundInputs :
            releases' = [releases EXCEPT
                ![tx[p].k] = @ \cup {[input |-> input, flag |-> RefundFlag(input, tx[p].amt)]}]
        BY <1>3 DEF ReleaseWrite
    <2>2. [input |-> input, flag |-> RefundFlag(input, tx[p].amt)]
            \in [input : {"yes", "no", "omitted"}, flag : BOOLEAN]
        BY OpsAssumption DEF RefundFlag
    <2>3. releases' \in [Keys -> SUBSET [input : {"yes", "no", "omitted"}, flag : BOOLEAN]]
        BY <1>0, <2>1, <2>2 DEF RestOK
    <2> QED BY <1>3, <2>3 DEF ReleaseWrite, RestOK
<1>4. CASE AskWrite(p)
    BY <1>0, <1>4 DEF AskWrite, RestOK
<1>5. CASE MoveInWrite(p)
    BY <1>0, <1>5 DEF MoveInWrite, RestOK
<1>6. CASE PayWrite(p)
    <2>1. rent' \in [Keys -> [PayKeys -> Nat]]
        BY <1>0, <1>6 DEF PayWrite, RestOK
    <2>2. paid' \in [Keys -> Nat]
        BY <1>0, <1>6 DEF PayWrite, RestOK
    <2> QED BY <1>6, <2>1, <2>2 DEF PayWrite, RestOK
<1> QED BY <1>1, <1>2, <1>3, <1>4, <1>5, <1>6 DEF Write

LEMMA BreakRest ==
    ASSUME RestOK, NEW p \in Procs, Fail(p) \/ Abort(p)
    PROVE  RestOK'
<1>1. UNCHANGED tables /\ (redisLock' = redisLock \/ DropRedisLock(p))
    BY DEF Fail, Abort
<1> QED BY <1>1, DropStays, RestStays DEF tables, RestOK

LEMMA RestStep ==
    ASSUME OInv, RestOK, [OfferNext]_offerVars
    PROVE  RestOK'
<1>1. ASSUME NEW p \in Procs,
             OfferStart(p) \/ OfferCount(p) \/ OfferInsert(p) \/ AcceptRead(p)
                \/ DeclineRead(p) \/ DeclineWrite(p)
      PROVE  RestOK'
    BY <1>1, RestStays DEF OfferStart, OfferCount, OfferInsert, AcceptRead, DeclineRead,
       DeclineWrite, tables, vars, RestOK
<1>2. ASSUME NEW p \in Procs, OfferBed(p) PROVE RestOK'
    BY <1>2, BreakRest, RestStays DEF OfferBed, tables, RestOK
<1>3. ASSUME NEW p \in Procs, Elsewhere(p) \/ CarryOn(p) \/ BreaksOff(p) PROVE RestOK'
    BY <1>3, RequestRest, ReserveRest, IntakeRest, WriteRest, BreakRest
       DEF Elsewhere, CarryOn, BreaksOff, DeadlockVictim, OInv
<1>4. CASE \E k \in OfferKeys : OfferExpires(k)
    BY <1>4 DEF OfferExpires, vars, RestOK
<1>5. CASE Passes
    BY <1>5, RestStays DEF Passes, Sweep, HoldEnds, LockTimesOut, tables, RestOK
<1>6. CASE UNCHANGED offerVars
    BY <1>6 DEF offerVars, vars, RestOK
<1> QED BY <1>1, <1>2, <1>3, <1>4, <1>5, <1>6 DEF OfferNext

\* Every value that an offer, its answer or any other handler writes is one the
\* schema allows, whatever else is going on.
THEOREM OffersTyped == OfferSpec => []OffersTypeOK
<1>1. OfferInit => RestOK
    BY DEF OfferInit, Init, RestOK
<1>2. OInv /\ RestOK /\ [OfferNext]_offerVars => RestOK'
    BY RestStep
<1>3. OInv /\ RestOK => OffersTypeOK
    BY DEF OInv, TransOK, DeskOK, RestOK, OffersTypeOK, TypeOK
<1> QED BY <1>1, <1>2, <1>3, OfferInitInv, OfferNextInv, PTL DEF OfferSpec

---------------------------------------------------------------------------
(* The rooms a student has.                                                *)

LEMMA OfferTyped == OInv => Typed
<1>1. {"limits", "insert", "fk"} \subseteq Reserving /\ {"intakeLimits", "intakeInsert"} \subseteq Intaking
      /\ Granted = {"insert", "fk", "intakeInsert"}
    BY DEF Reserving, Intaking, Granted
<1> QED BY <1>1 DEF OInv, TransOK, Carries, Typed

\* What an offer's transaction expired, it only takes away.
LEMMA CommitLimits ==
    ASSUME OInv, LimitInv, NEW p \in Procs, Commit(p), End(p)
    PROVE  LimitInv'
<1>1. \A k \in Keys : IF k \in tx[p].swept THEN res'[k].status = "expired" ELSE res'[k] = res[k]
    <2>1. \A k \in Keys : [res[k] EXCEPT !.status = "expired"].status = "expired"
        BY DEF OInv, TransOK, Row
    <2> QED BY <2>1 DEF Commit
<1>2. NoneGained
    BY <1>1, Distinct DEF NoneGained
<1> QED BY <1>2, OfferTyped, EndStep

LEMMA OfferLimits ==
    ASSUME OInv, LimitInv, ~Revivable, [OfferNext]_offerVars
    PROVE  LimitInv'
<1>0. Typed
    BY OfferTyped
<1>1. ASSUME NEW p \in Procs, OfferStart(p) PROVE LimitInv'
    <2>0. PICK k \in OfferKeys, s \in Students, b \in Beds, f \in Fees, m \in BOOLEAN :
            Begin(p, [NoTx EXCEPT !.pc = "intakeSweep", !.s = s, !.b = b, !.k = k,
                                  !.amt = f, !.moved = m])
        BY <1>1 DEF OfferStart
    <2> DEFINE r == [NoTx EXCEPT !.pc = "intakeSweep", !.s = s, !.b = b, !.k = k,
                            !.amt = f, !.moved = m]
    <2>1. Begin(p, r) /\ r.pc = "intakeSweep"
        BY <2>0 DEF NoTx
    <2> HIDE DEF r
    <2> QED BY <1>0, <1>1, <2>1, BeginStep DEF OfferStart, tables, Granted
<1>2. ASSUME NEW p \in Procs, AcceptRead(p) PROVE LimitInv'
    <2>0. PICK k \in OfferKeys :
            Begin(p, [NoTx EXCEPT !.pc = "intakeSweep", !.s = offers[k].s, !.b = offers[k].b, !.k = k,
                                  !.amt = offers[k].fee, !.moved = offers[k].moved])
        BY <1>2 DEF AcceptRead
    <2> DEFINE r == [NoTx EXCEPT !.pc = "intakeSweep", !.s = offers[k].s, !.b = offers[k].b, !.k = k,
                            !.amt = offers[k].fee, !.moved = offers[k].moved]
    <2>1. Begin(p, r) /\ r.pc = "intakeSweep"
        BY <2>0 DEF NoTx
    <2> HIDE DEF r
    <2> QED BY <1>0, <1>2, <2>1, BeginStep DEF AcceptRead, tables, Granted
<1>3. ASSUME NEW p \in Procs, OfferBed(p) PROVE LimitInv'
    <2>1. CASE Abort(p)
        BY <1>0, <2>1, AbortStep
    <2>2. CASE UNCHANGED res /\ \E D : tx' = [tx EXCEPT ![p].swept = D]
        <3>1. PICK D : tx' = [tx EXCEPT ![p].swept = D]
            BY <2>2
        <3> DEFINE r == [tx[p] EXCEPT !.swept = D]
        <3>2. tx[p].pc = "intakeSweep"
            BY <1>3, OfferTx DEF OfferBed
        <3>3. r.pc = "intakeSweep" /\ Onward(p, r)
            BY <3>1, <3>2 DEF Onward, OInv, TransOK, Tx
        <3> HIDE DEF r
        <3>4. r.pc \notin Granted \cup {"book"}
            BY <3>3 DEF Granted
        <3> QED BY <1>0, <2>2, <3>3, <3>4, NoRowWritten, FewerStep
    <2> QED BY <1>3, <2>1, <2>2 DEF OfferBed, tables
<1>4. ASSUME NEW p \in Procs, OfferCount(p) PROVE LimitInv'
    BY <1>0, <1>4, CommitLimits, NoRowWritten, OutsideStep DEF OfferCount
<1>5. ASSUME NEW p \in Procs, OfferInsert(p) PROVE LimitInv'
    BY <1>5, CommitLimits DEF OfferInsert
<1>6. ASSUME NEW p \in Procs, DeclineRead(p) \/ DeclineWrite(p) PROVE LimitInv'
    BY <1>0, <1>6, NoRowWritten, OutsideStep DEF DeclineRead, DeclineWrite, vars
<1>7. ASSUME NEW p \in Procs, Elsewhere(p) \/ CarryOn(p) \/ BreaksOff(p) PROVE LimitInv'
    BY <1>0, <1>7, RequestStep, ReserveStep, IntakeStep, WriteStep, FailStep, AbortStep
       DEF Elsewhere, CarryOn, BreaksOff, DeadlockVictim
<1>8. CASE \E k \in OfferKeys : OfferExpires(k)
    BY <1>0, <1>8, NoRowWritten, OutsideStep DEF OfferExpires, vars
<1>9. CASE Passes
    BY <1>0, <1>9, TimeStep DEF Passes
<1>10. CASE UNCHANGED offerVars
    BY <1>0, <1>10, NoRowWritten, OutsideStep DEF offerVars, vars
<1> QED BY <1>1, <1>2, <1>3, <1>4, <1>5, <1>6, <1>7, <1>8, <1>9, <1>10 DEF OfferNext

LEMMA OfferLimited ==
    ASSUME ~Revivable
    PROVE  OfferSpec => []LimitInv
<1>1. OfferInit => LimitInv
    BY InitLimits DEF OfferInit
<1>2. OInv /\ LimitInv /\ [OfferNext]_offerVars => LimitInv'
    BY OfferLimits
<1> QED BY <1>1, <1>2, OfferInitInv, OfferNextInv, PTL DEF OfferSpec

\* However the student's own requests, the landlord's walk-ins and offers, the
\* answers to them, expiries and failures interleave, a student never holds or
\* has booked more beds than MaxActive, as long as no hold is booked that may
\* have ended meanwhile (the lock and the count in assertStudentCanTakeRoom).
THEOREM OffersWithinLimit == "book" \notin Ops => (OfferSpec => []WithinActiveLimit)
<1> SUFFICES ASSUME ~Revivable PROVE OfferSpec => []WithinActiveLimit
    BY DEF Revivable
<1> QED BY OfferLimited, PTL DEF LimitInv

\* Nor two beds of one room type in a hostel (assertStudentCanTakeRoom).
THEOREM OffersOneRoomType == "book" \notin Ops => (OfferSpec => []OneRoomTypePerStudent)
<1> SUFFICES ASSUME ~Revivable PROVE OfferSpec => []OneRoomTypePerStudent
    BY DEF Revivable
<1> QED BY OfferLimited, PTL DEF LimitInv
==============================================================================
