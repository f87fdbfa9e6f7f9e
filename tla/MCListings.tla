----------------------------- MODULE MCListings -----------------------------
(* Small instances of Listings for TLC.                                     *)
EXTENDS Listings, TLC

MCSym == Permutations(Reqs) \cup Permutations(Rooms) \cup Permutations(SetIds)
=============================================================================
