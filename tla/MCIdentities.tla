---------------------------- MODULE MCIdentities ----------------------------
(* Small instances of Identities for TLC.                                   *)
EXTENDS Identities, TLC

CONSTANTS e

\* An address that one identity after the other proves.
MCProves == [s \in Subs |-> {e}]

MCSym == Permutations(Reqs) \cup Permutations(Attempts)
=============================================================================
