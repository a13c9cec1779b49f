---------------------------- MODULE MCAppRunner -----------------------------
(* Values for the constants of AppRunner.                                  *)
EXTENDS AppRunner

DistinctIps == [e \in Entry |-> e]

\* A connection learns of every piece, as of a seed.
Seeds == {Piece}
=============================================================================
