--------------------------- MODULE MCAssignments ---------------------------
(* Small instances of Assignments for TLC.                                  *)
EXTENDS Assignments, ReservationsInv, TLC

CONSTANT Suites  \* beds in rooms each of a type of its own; the rest share one

MCTypes == [b \in Beds |-> IF b \in Suites THEN b ELSE None]

\* Handlers that give a student a room, and one that makes way for one.
MCLimitOps == {"reserve", "intake", "cancel", "time"}

MCSym == Permutations(Procs) \cup Permutations(OfferKeys) \cup Permutations(Beds \ Suites)
============================================================================
