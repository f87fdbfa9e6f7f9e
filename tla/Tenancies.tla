----------------------------- MODULE Tenancies -----------------------------
(***************************************************************************)
(* What the reservation service promises students and landlords, one       *)
(* indivisible step per request: no locks, no transactions, no statements. *)
(* The rules are those of reserve, bookInTransaction's intake path,        *)
(* cancel, confirmMoveIn, recordPayment and the expiry of holds.           *)
(***************************************************************************)
EXTENDS Naturals, FiniteSets

CONSTANTS Students, Beds, Keys, RoomType, Price, MaxActive, None

VARIABLES
    claim,  \* [status, s, b] of the reservation each key names
    paid    \* money recorded for it

Live == {"reserved", "booked", "occupied"}
Active == {"reserved", "booked"}
NoClaim == [status |-> "none", s |-> None, b |-> None]

\* The claims once the holds in D have lapsed.
Lapse(D) == [k \in Keys |-> IF k \in D THEN [claim[k] EXCEPT !.status = "expired"]
                                       ELSE claim[k]]

Held == {k \in Keys : claim[k].status = "reserved"}

Init == claim = [k \in Keys |-> NoClaim] /\ paid = [k \in Keys |-> 0]

\* Holds in D lapse and the student takes the bed, if it is then free and
\* nothing the student still holds forbids it.
Take(k, s, b, st, amt) ==
    /\ claim[k].status = "none"
    /\ claim'[k] = [status |-> st, s |-> s, b |-> b]
    /\ paid' = [paid EXCEPT ![k] = amt]
    /\ \E D \in SUBSET Held :
        LET now == Lapse(D)
            mine == {j \in Keys : now[j].s = s /\ now[j].status \in Active}
        IN  /\ claim' = [now EXCEPT ![k] = claim'[k]]
            /\ \A j \in Keys : now[j].b = b => now[j].status \notin Live
            /\ Cardinality(mine) < MaxActive
            /\ \A j \in mine : RoomType[now[j].b] # RoomType[b]

\* Holds lapse on their own.
Expire == \E D \in SUBSET Held : claim' = Lapse(D) /\ UNCHANGED paid

\* The student gives a hold up; giving up one that just lapsed only renames it.
Cancel(k) ==
    /\ claim[k].status \in {"reserved", "expired", "cancelled"}
    /\ \E st \in {"expired", "cancelled"} : claim' = [claim EXCEPT ![k].status = st]
    /\ UNCHANGED paid

MoveIn(k) ==
    /\ claim[k].status = "booked"
    /\ claim' = [claim EXCEPT ![k].status = "occupied"]
    /\ UNCHANGED paid

Pay(k, amt) ==
    /\ claim[k].status \in {"booked", "occupied"}
    /\ paid[k] + amt <= Price
    /\ paid' = [paid EXCEPT ![k] = @ + amt]
    /\ UNCHANGED claim

Next ==
    \/ \E k \in Keys, s \in Students, b \in Beds :
        \/ Take(k, s, b, "reserved", 0)
        \/ \E st \in {"booked", "occupied"}, amt \in 0..Price : Take(k, s, b, st, amt)
    \/ Expire
    \/ \E k \in Keys : Cancel(k) \/ MoveIn(k) \/ \E amt \in 1..Price : Pay(k, amt)

Spec == Init /\ [][Next]_<<claim, paid>>
============================================================================
