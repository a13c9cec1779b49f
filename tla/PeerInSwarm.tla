---------------------------- MODULE PeerInSwarm -----------------------------
(***************************************************************************)
(* The connection of PeerClient, as SwarmManager sees it: a swarm of one   *)
(* entry that is dialled once.  What SwarmManager leaves open about a      *)
(* connection (how many requests a handler starts, which block completes a *)
(* piece, what a have leaves in the bitfield) covers what peer.cpp does.   *)
(***************************************************************************)
EXTENDS MCPeerClient

\* The handler that leaves nothing pending destroys the PeerClient.
Gone == chain = "none" /\ writes = 0 /\ doomed = 0

Worker == {<<1, 1>>}

ReadingView ==
  IF chain \in {"header", "payload"} THEN "message" ELSE chain

PoolView ==
  IF socket = "none" THEN "UNTOUCHED"
  ELSE IF disconnects = 0 THEN "CONNECTING" ELSE "DEAD"

MainView ==
  CASE socket = "none" -> "created" [] thrown -> "aborted" [] OTHER -> "running"

HeldView  == IF Gone THEN NoPiece ELSE active_piece
KnownView == IF Gone THEN {} ELSE KnownPieces

Swarm == INSTANCE SwarmManager WITH
  NumPeers          <- 1,
  Ip                <- [e \in {1} |-> 1],
  NumConnections    <- 1,
  MaxRetry          <- 1,
  Offers            <- SUBSET Piece,
  main              <- MainView,
  pool_state        <- [e \in {1} |-> PoolView],
  retry_count       <- [e \in {1} |-> disconnects],
  made              <- [e \in {1} |-> IF socket = "none" THEN 0 ELSE 1],
  active_workers    <- IF socket = "open" THEN Worker ELSE {},
  socket            <- [w \in Worker |-> socket],
  reading           <- [w \in Worker |-> ReadingView],
  writes            <- [w \in Worker |-> writes],
  doomed            <- [w \in Worker |-> doomed],
  active_piece      <- [w \in Worker |-> HeldView],
  has               <- [w \in Worker |-> KnownView]

\* Every step of the connection is a step of the swarm, or none.
ImplementsSwarm == Swarm!Spec
=============================================================================
