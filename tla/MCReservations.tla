-------------------------- MODULE MCReservations --------------------------
(* Small instances of Reservations for TLC.                                *)
EXTENDS ReservationsInv, TLC

CONSTANT Suites  \* beds in rooms each of a type of its own; the rest share one

MCTypes == [b \in Beds |-> IF b \in Suites THEN b ELSE None]

\* Handlers that lock, guard or index what they decided on.
MCGuardedOps == AllOps \ {"book", "release", "ask"}
\* Every handler but the payments, which take no bed.
MCNoPay == AllOps \ {"pay"}

\* Two handlers that do not lock what they decide on.
MCBookCancel == {"reserve", "book", "cancel"}

Sym == Permutations(Procs) \cup Permutations(Students) \cup Permutations(ReserveKeys)
===========================================================================
