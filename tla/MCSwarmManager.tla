--------------------------- MODULE MCSwarmManager ---------------------------
(* Values for the constants of SwarmManager.                               *)
EXTENDS SwarmManager

DistinctIps == [e \in Entry |-> e]
SameIp      == [e \in Entry |-> 1]

\* A connection learns of every piece, as of a seed, or of the lowest one only.
Seeds    == {Piece}
Partials == {Piece, {0}}
=============================================================================
