----------------------------- MODULE PieceBoard -----------------------------
(***************************************************************************)
(* What a swarm promises about the pieces of a torrent, without peers or   *)
(* sockets: a piece is missing, claimed by somebody, or done for good, and *)
(* the download is complete only when every piece is done.                 *)
(***************************************************************************)
CONSTANT Piece

VARIABLES
  piece,    \* the state of each piece
  outcome   \* how the download ended, or "running"

PieceStates == {"missing", "claimed", "done"}
Outcomes    == {"running", "complete", "stuck", "aborted"}

PieceBoardTypeOK == piece \in [Piece -> PieceStates] /\ outcome \in Outcomes

BoardInit ==
  /\ piece = [p \in Piece |-> "missing"]
  /\ outcome = "running"

Turns(p, from, to) == piece[p] = from /\ piece'[p] = to

\* The pieces a step takes out of somebody's hands, and those it hands out.
Settled == {p \in Piece : Turns(p, "claimed", "done")
                            \/ Turns(p, "claimed", "missing")}
Claimed == {p \in Piece : Turns(p, "missing", "claimed")}

AtMostOne(S) == \A p, q \in S : p = q

\* One connection settles the piece it holds, or is handed a new one, or both.
Work ==
  /\ outcome = "running"
  /\ AtMostOne(Settled)
  /\ AtMostOne(Claimed)
  /\ piece' = [p \in Piece |-> IF p \in Settled \cup Claimed THEN piece'[p]
                                                             ELSE piece[p]]
  /\ UNCHANGED outcome

Complete ==
  /\ outcome = "running"
  /\ \A p \in Piece : piece[p] = "done"
  /\ outcome' = "complete"
  /\ UNCHANGED piece

\* Nobody is left to work: some piece is missing, and none is claimed.
Stuck ==
  /\ outcome = "running"
  /\ \E p \in Piece : piece[p] = "missing"
  /\ \A p \in Piece : piece[p] # "claimed"
  /\ outcome' = "stuck"
  /\ UNCHANGED piece

Abort ==
  /\ outcome = "running"
  /\ outcome' = "aborted"
  /\ UNCHANGED piece

BoardNext == Work \/ Complete \/ Stuck \/ Abort

BoardSpec == BoardInit /\ [][BoardNext]_<<piece, outcome>>
=============================================================================
