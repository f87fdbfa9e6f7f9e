--------------------------- MODULE MCInspections ---------------------------
(* Small instances of Inspections for TLC.                                 *)
EXTENDS Inspections, TLC

\* Two loops, late answers and a form nobody keeps still.
MCCrossing == {"touch", "late", "crash", "device", "correct"}
\* Each request is over before the next, and nobody touches a draft in flight.
MCPlain == {"drop", "crash", "device", "reopen", "approve"}

MCSym == Permutations(Loops) \cup Permutations(Photos)
    \cup Permutations(Components) \cup Permutations(Leads)
============================================================================
