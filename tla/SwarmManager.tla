---------------------------- MODULE SwarmManager ----------------------------
(***************************************************************************)
(* The download swarm: class SwarmManager (engine/src/swarm.cpp) with the  *)
(* PeerClient objects (engine/src/peer.cpp) it owns, seen at the           *)
(* granularity of pieces.  PeerClient.tla opens one connection up to       *)
(* blocks and messages.                                                    *)
(*                                                                         *)
(* One asio io_context, run by one thread, executes one completion handler *)
(* at a time: every action below is one whole handler.  What interleaves   *)
(* are the pending operations of the connections, which complete in any    *)
(* order.  Each connection has at most one pending operation of its read   *)
(* chain (connect, handshake read, header or payload read) and any number  *)
(* of pending request writes.  Closing a socket does not recall a          *)
(* completion that is already queued, so an operation started while the    *)
(* socket was open may still report success after the close; one started   *)
(* on a closed socket only reports an error.                               *)
(***************************************************************************)
EXTENDS Integers, FiniteSets

CONSTANTS
  NumPeers,        \* length of peer_pool_
  Ip,              \* Ip[e]: the address of pool entry e, its port left out
  TotalPieces,     \* total_pieces_
  Hashes,          \* how many hashes master_pieces_string may hold
  NumConnections,  \* num_of_connection_: 50 in the CLI, 13 in the UI
  MaxRetry,        \* the literal 5 of handle_disconnect
  MaxWrites,       \* bound on the request writes one connection has pending
  Offers           \* the piece sets a connection's bitfield may come to hold

Entry   == 1 .. NumPeers
Piece   == 0 .. TotalPieces - 1
NoPiece == -1
Worker  == Entry \X (1 .. MaxRetry)  \* <<e, n>>: the n-th PeerClient made for e

ASSUME SwarmAssumption ==
  /\ NumPeers \in Nat
  /\ TotalPieces \in Nat /\ Hashes \subseteq Nat
  /\ NumConnections \in Nat \ {0}
  /\ MaxRetry \in Nat \ {0}
  /\ MaxWrites \in Nat
  /\ Ip \in [Entry -> Nat]
  /\ Offers \subseteq SUBSET Piece

VARIABLES
  main,               \* where start_download is
  stopped,            \* io_context_ has been stopped
  pool_state,         \* ManagedPeer::state
  retry_count,        \* ManagedPeer::retry_count
  made,               \* how many PeerClients have been made for an entry
  active_workers,     \* active_workers_, as a set
  piece_checklist,    \* piece_checklist_: claimed or downloaded
  pieces_downloaded,  \* pieces_downloaded_
  on_disk,            \* pieces whose verified bytes write_piece has stored
  socket,             \* socket_ of a worker: "none" before it is made
  reading,            \* its pending read-chain operation
  writes,             \* its pending writes that were started on an open socket
  doomed,             \* its pending writes that were started on a closed one
  active_piece,       \* active_piece_; is_busy_ is active_piece_ # -1
  has,                \* the pieces its peer_bitfield_ grants
  hashes              \* how many hashes master_pieces_string holds

pool  == <<pool_state, retry_count, made, active_workers>>
board == <<piece_checklist, pieces_downloaded, on_disk>>
conn  == <<socket, reading, writes, doomed, active_piece, has>>
swarm == <<main, stopped, pool, board, conn>>   \* what a handler may change
vars  == <<main, stopped, pool, board, conn, hashes>>

MainStates == {"created", "running", "closing", "torn",
               "complete", "depleted", "aborted", "crashed"}
PoolStates == {"UNTOUCHED", "CONNECTING", "RETRYING", "DEAD"}
Readings   == {"none", "connect", "handshake", "message", "dead"}

TypeOK ==
  /\ main \in MainStates
  /\ stopped \in BOOLEAN
  /\ pool_state \in [Entry -> PoolStates]
  /\ retry_count \in [Entry -> Nat]
  /\ made \in [Entry -> 0 .. MaxRetry]
  /\ active_workers \subseteq Worker
  /\ piece_checklist \in [Piece -> BOOLEAN]
  /\ pieces_downloaded \in 0 .. TotalPieces
  /\ on_disk \subseteq Piece
  /\ socket \in [Worker -> {"none", "open", "closed"}]
  /\ reading \in [Worker -> Readings]
  /\ writes \in [Worker -> 0 .. MaxWrites]
  /\ doomed \in [Worker -> 0 .. MaxWrites]
  /\ active_piece \in [Worker -> Piece \cup {NoPiece}]
  /\ has \in [Worker -> SUBSET Piece]
  /\ hashes \in Hashes

Init ==
  /\ main = "created"
  /\ stopped = FALSE
  /\ pool_state = [e \in Entry |-> "UNTOUCHED"]
  /\ retry_count = [e \in Entry |-> 0]
  /\ made = [e \in Entry |-> 0]
  /\ active_workers = {}
  /\ piece_checklist = [p \in Piece |-> FALSE]
  /\ pieces_downloaded = 0
  /\ on_disk = {}
  /\ socket = [w \in Worker |-> "none"]
  /\ reading = [w \in Worker |-> "none"]
  /\ writes = [w \in Worker |-> 0]
  /\ doomed = [w \in Worker |-> 0]
  /\ active_piece = [w \in Worker |-> NoPiece]
  /\ has = [w \in Worker |-> {}]
  /\ hashes \in Hashes   \* TorrentFile does not compare it with the pieces

-----------------------------------------------------------------------------
(* The pool: dialling, disconnecting, retrying.                            *)

is_download_complete == pieces_downloaded = TotalPieces

Lowest(S) == CHOOSE i \in S : \A j \in S : i <= j

\* Mutant of Eligible: an entry that gave up its retries is dialled again.
EligibleAgain(st) == {e \in Entry : st[e] # "CONNECTING"}

Eligible(st) == {e \in Entry : st[e] \in {"UNTOUCHED", "RETRYING"}}

\* The first n eligible entries, in pool order.
FirstEligible(st, n) ==
  {e \in Eligible(st) : Cardinality({f \in Eligible(st) : f < e}) < n}

\* Mutants of ToStart: the loop ends one entry late, or one too early.
ToStartMore(st, aw) ==
  IF is_download_complete THEN {}
  ELSE FirstEligible(st, NumConnections - Cardinality(aw) + 1)

ToStartFewer(st, aw) ==
  IF is_download_complete THEN {}
  ELSE FirstEligible(st, NumConnections - Cardinality(aw) - 1)

\* The entries a pass over the pool dials, given the states st of the pool and
\* the registered workers aw.
ToStart(st, aw) ==
  IF is_download_complete THEN {}
  ELSE FirstEligible(st, NumConnections - Cardinality(aw))

\* Fill the free slots: st, aw, sk and rd are the pool states, the registered
\* workers, the sockets and the read chains as the call finds them.
maintain_swarm_strength(st, aw, sk, rd) ==
  LET chosen == ToStart(st, aw)
      fresh  == {w \in Worker : w[1] \in chosen /\ w[2] = made[w[1]] + 1}
  IN  /\ pool_state' = [e \in Entry |->
                          IF e \in chosen THEN "CONNECTING" ELSE st[e]]
      /\ made' = [e \in Entry |->
                    IF e \in chosen THEN made[e] + 1 ELSE made[e]]
      /\ active_workers' = aw \cup fresh
      /\ socket' = [w \in Worker |-> IF w \in fresh THEN "open" ELSE sk[w]]
      /\ reading' = [w \in Worker |-> IF w \in fresh THEN "connect" ELSE rd[w]]

\* Mutant of Charged: the addresses are not compared.
ChargedFirst(w) == Lowest(Entry)

\* The pool entry a worker's failure is charged to: the first with its address.
Charged(w) == Lowest({e \in Entry : Ip[e] = Ip[w[1]]})

\* A piece a worker holds goes back to the checklist.
Requeued(w) ==
  [p \in Piece |-> piece_checklist[p] /\ p # active_piece[w]]

\* Mutants of handle_disconnect: the piece is not given back; one retry too many.
handle_disconnect_keeping(w, sk, rd) ==
  LET e == Charged(w)
  IN  /\ UNCHANGED piece_checklist
      /\ retry_count' = [retry_count EXCEPT ![e] = @ + 1]
      /\ maintain_swarm_strength(
           [pool_state EXCEPT ![e] =
              IF retry_count[e] + 1 >= MaxRetry THEN "DEAD" ELSE "RETRYING"],
           active_workers \ {w}, sk, rd)

handle_disconnect_patient(w, sk, rd) ==
  LET e == Charged(w)
  IN  /\ piece_checklist' = Requeued(w)
      /\ retry_count' = [retry_count EXCEPT ![e] = @ + 1]
      /\ maintain_swarm_strength(
           [pool_state EXCEPT ![e] =
              IF retry_count[e] + 1 > MaxRetry THEN "DEAD" ELSE "RETRYING"],
           active_workers \ {w}, sk, rd)

handle_disconnect(w, sk, rd) ==
  LET e == Charged(w)
  IN  /\ piece_checklist' = Requeued(w)
      /\ retry_count' = [retry_count EXCEPT ![e] = @ + 1]
      /\ maintain_swarm_strength(
           [pool_state EXCEPT ![e] =
              IF retry_count[e] + 1 >= MaxRetry THEN "DEAD" ELSE "RETRYING"],
           active_workers \ {w}, sk, rd)

\* Mutant of disconnect: the socket is not closed.
disconnect_open(w, r) ==
  handle_disconnect(w, socket, [reading EXCEPT ![w] = r])

\* PeerClient::disconnect, from a handler that leaves the read chain of w at r.
\* The worker keeps active_piece_.
disconnect(w, r) ==
  handle_disconnect(w, [socket EXCEPT ![w] = "closed"],
                       [reading EXCEPT ![w] = r])

-----------------------------------------------------------------------------
(* Handing out pieces.                                                     *)

\* Mutant of Missing: claimed pieces are handed out again.
MissingOrClaimed(w, list) == {p \in Piece : p \notin on_disk /\ p \in has[w]}

\* What get_next_missing_piece scans: pieces unclaimed in list that w's peer has.
Missing(w, list) == {p \in Piece : ~ list[p] /\ p \in has[w]}

\* fetch_piece_async and request_next_block start some number of request writes
\* (PeerClient.tla says how many).
StartWrites(w) ==
  \E k \in 0 .. MaxWrites :
    IF socket[w] = "open"
    THEN /\ writes[w] + k <= MaxWrites
         /\ writes' = [writes EXCEPT ![w] = @ + k]
         /\ UNCHANGED doomed
    ELSE /\ doomed[w] + k <= MaxWrites
         /\ doomed' = [doomed EXCEPT ![w] = @ + k]
         /\ UNCHANGED writes

\* Mutant of request_work: the last piece does not stop the loop.
request_work_on(w, list) ==
  /\ UNCHANGED stopped
  /\ \/ /\ Missing(w, list) = {}
        /\ piece_checklist' = list
        /\ active_piece' = [active_piece EXCEPT ![w] = NoPiece]
     \/ /\ Missing(w, list) # {}
        /\ LET p == Lowest(Missing(w, list))
           IN  /\ piece_checklist' = [list EXCEPT ![p] = TRUE]
               /\ active_piece' = [active_piece EXCEPT ![w] = p]

\* The call finds the checklist at list and w without a piece.
request_work(w, list) ==
  \/ /\ pieces_downloaded' = TotalPieces
     /\ stopped' = TRUE
     /\ piece_checklist' = list
     /\ active_piece' = [active_piece EXCEPT ![w] = NoPiece]
  \/ /\ pieces_downloaded' # TotalPieces
     /\ Missing(w, list) = {}
     /\ piece_checklist' = list
     /\ active_piece' = [active_piece EXCEPT ![w] = NoPiece]
     /\ UNCHANGED stopped
  \/ /\ pieces_downloaded' # TotalPieces
     /\ Missing(w, list) # {}
     /\ LET p == Lowest(Missing(w, list))
        IN  /\ piece_checklist' = [list EXCEPT ![p] = TRUE]
            /\ active_piece' = [active_piece EXCEPT ![w] = p]
     /\ UNCHANGED stopped

-----------------------------------------------------------------------------
(* Completion handlers of one connection.                                  *)

LoopRuns == main = "running" /\ ~ stopped

Pending(w, r) == LoopRuns /\ reading[w] = r

\* read_message_header, the last thing every message handler does.
ReadNext(w) ==
  reading' = [reading EXCEPT ![w] =
                IF socket[w] = "open" THEN "message" ELSE "dead"]

\* The handlers hold the shared_ptrs that keep a disconnected PeerClient alive:
\* the one that leaves nothing pending destroys it, and its fields are reset here.
Release(w) ==
  LET gone == reading'[w] = "none" /\ writes'[w] = 0 /\ doomed'[w] = 0
  IN  IF gone THEN /\ active_piece' = [active_piece EXCEPT ![w] = NoPiece]
                   /\ has' = [has EXCEPT ![w] = {}]
              ELSE UNCHANGED <<active_piece, has>>

\* handle_connect with an error.
ConnectFails(w) ==
  /\ Pending(w, "connect")
  /\ disconnect(w, "none")
  /\ UNCHANGED <<main, stopped, pieces_downloaded, on_disk,
                 writes, doomed, active_piece, has>>

\* handle_connect: the blocking asio::write of the handshake succeeds.
Connects(w) ==
  /\ Pending(w, "connect")
  /\ reading' = [reading EXCEPT ![w] = "handshake"]
  /\ UNCHANGED <<main, stopped, pool, board,
                 socket, writes, doomed, active_piece, has>>

\* handle_connect: that asio::write throws, out of the handler and of run().
HandshakeWriteThrows(w) ==
  /\ Pending(w, "connect")
  /\ main' = "aborted"
  /\ UNCHANGED <<stopped, pool, board, conn>>

\* handle_handshake_read: a read error, or another info_hash.
HandshakeFails(w) ==
  /\ Pending(w, "handshake")
  /\ disconnect(w, "none")
  /\ UNCHANGED <<main, stopped, pieces_downloaded, on_disk,
                 writes, doomed, active_piece, has>>

HandshakeRead(w) ==
  /\ Pending(w, "handshake")
  /\ ReadNext(w)
  /\ UNCHANGED <<main, stopped, pool, board,
                 socket, writes, doomed, active_piece, has>>

\* handle_message_header or handle_message_payload with an error.
ReadFails(w) ==
  /\ Pending(w, "message") \/ Pending(w, "dead")
  /\ disconnect(w, "none")
  /\ UNCHANGED <<main, stopped, pieces_downloaded, on_disk, writes, doomed>>
  /\ Release(w)

\* Message 0.
Choke(w) ==
  /\ Pending(w, "message")
  /\ piece_checklist' = Requeued(w)
  /\ active_piece' = [active_piece EXCEPT ![w] = NoPiece]
  /\ ReadNext(w)
  /\ UNCHANGED <<main, stopped, pool, pieces_downloaded, on_disk,
                 socket, writes, doomed, has>>

\* Message 1, to a worker that is not busy.
Unchoke(w) ==
  /\ Pending(w, "message")
  /\ active_piece[w] = NoPiece
  /\ UNCHANGED pieces_downloaded
  /\ request_work(w, piece_checklist)
  /\ IF active_piece'[w] # NoPiece THEN StartWrites(w)
                                   ELSE UNCHANGED <<writes, doomed>>
  /\ ReadNext(w)
  /\ UNCHANGED <<main, pool, on_disk, socket, has>>

\* Messages 4 and 5: a have or a bitfield leaves some set in peer_bitfield_.
Announce(w, S) ==
  /\ Pending(w, "message")
  /\ has' = [has EXCEPT ![w] = S]
  /\ ReadNext(w)
  /\ UNCHANGED <<main, stopped, pool, board,
                 socket, writes, doomed, active_piece>>

\* Message 7 that does not complete the piece: perhaps one more request.
Block(w) ==
  /\ Pending(w, "message")
  /\ active_piece[w] # NoPiece
  /\ StartWrites(w)
  /\ ReadNext(w)
  /\ UNCHANGED <<main, stopped, pool, board, socket, active_piece, has>>

\* Message 7 that completes the piece: request_next_block may start a last write,
\* and submit_piece looks for the hash of the piece.  Four actions say what follows.
Complete(w) == Pending(w, "message") /\ active_piece[w] # NoPiece

\* get_hash_for_piece returns; it throws past master_pieces_string.
HasHash(p) == p < hashes

\* submit_piece: the hash matches, write_piece succeeds.
PieceStored(w) ==
  /\ Complete(w) /\ HasHash(active_piece[w])
  /\ pieces_downloaded' = pieces_downloaded + 1
  /\ on_disk' = on_disk \cup {active_piece[w]}
  /\ request_work(w, piece_checklist)
  /\ StartWrites(w)
  /\ ReadNext(w)
  /\ UNCHANGED <<main, pool, socket, has>>

\* Mutant of PieceNotStored: the piece is counted before it is written.
PieceCountedNotStored(w) ==
  /\ Complete(w) /\ HasHash(active_piece[w])
  /\ pieces_downloaded' = pieces_downloaded + 1
  /\ UNCHANGED on_disk
  /\ request_work(w, Requeued(w))
  /\ StartWrites(w)
  /\ ReadNext(w)
  /\ UNCHANGED <<main, pool, socket, has>>

\* submit_piece: the hash matches, write_piece throws.
PieceNotStored(w) ==
  /\ Complete(w) /\ HasHash(active_piece[w])
  /\ UNCHANGED <<pieces_downloaded, on_disk>>
  /\ request_work(w, Requeued(w))
  /\ StartWrites(w)
  /\ ReadNext(w)
  /\ UNCHANGED <<main, pool, socket, has>>

\* submit_piece: the hash does not match.  The peer is dropped, then the handler
\* returns into handle_message_payload, which reads on from the closed socket.
PieceCorrupt(w) ==
  /\ Complete(w) /\ HasHash(active_piece[w])
  /\ active_piece' = [active_piece EXCEPT ![w] = NoPiece]
  /\ StartWrites(w)
  /\ disconnect(w, "dead")
  /\ UNCHANGED <<main, stopped, pieces_downloaded, on_disk, has>>

\* submit_piece: get_hash_for_piece throws out_of_range, out of the handler and of
\* run(); the worker has given up the piece, and the manager still has it claimed.
HashThrows(w) ==
  /\ Complete(w) /\ ~ HasHash(active_piece[w])
  /\ active_piece' = [active_piece EXCEPT ![w] = NoPiece]
  /\ StartWrites(w)
  /\ main' = "aborted"
  /\ UNCHANGED <<stopped, pool, board, socket, reading, has>>

\* A keep-alive, any other message, or an unchoke while busy.
OtherMessage(w) ==
  /\ Pending(w, "message")
  /\ ReadNext(w)
  /\ UNCHANGED <<main, stopped, pool, board,
                 socket, writes, doomed, active_piece, has>>

\* The handler of a request's async_write, without an error.
WriteDone(w) ==
  /\ LoopRuns
  /\ writes[w] > 0
  /\ writes' = [writes EXCEPT ![w] = @ - 1]
  /\ UNCHANGED <<main, stopped, pool, board, socket, reading, doomed>>
  /\ Release(w)

\* The same with an error.  The read chain stays as it is: its operation is
\* pending, or has already ended.
WriteFails(w) ==
  /\ LoopRuns
  /\ \/ /\ writes[w] > 0
        /\ writes' = [writes EXCEPT ![w] = @ - 1]
        /\ UNCHANGED doomed
     \/ /\ doomed[w] > 0
        /\ doomed' = [doomed EXCEPT ![w] = @ - 1]
        /\ UNCHANGED writes
  /\ disconnect(w, reading[w])
  /\ UNCHANGED <<main, stopped, pieces_downloaded, on_disk>>
  /\ Release(w)

-----------------------------------------------------------------------------
(* start_download.                                                         *)

StartDownload ==
  /\ main = "created"
  /\ main' = "running"
  /\ maintain_swarm_strength(pool_state, active_workers, socket, reading)
  /\ UNCHANGED <<stopped, retry_count, board,
                 writes, doomed, active_piece, has>>

NothingPending ==
  \A w \in Worker : reading[w] = "none" /\ writes[w] = 0 /\ doomed[w] = 0

\* Mutant of RunReturns: run() is called again until the download is complete.
RunReturnsAndRepeats ==
  /\ main = "running"
  /\ stopped \/ NothingPending
  /\ main' = IF is_download_complete THEN "closing" ELSE "running"
  /\ UNCHANGED <<stopped, pool, board, conn>>

\* io_context_.run() returns: stopped, or out of work.
RunReturns ==
  /\ main = "running"
  /\ stopped \/ NothingPending
  /\ main' = IF is_download_complete THEN "closing" ELSE "depleted"
  /\ UNCHANGED <<stopped, pool, board, conn>>

\* One turn of "for (auto worker : active_workers_) handle_disconnect(worker)".
\* The turn erases from the vector it iterates over: the first turn is well
\* defined, and unless it was the only one the loop goes on with iterators that
\* are no longer valid ("torn").
CloseWorker(w) ==
  /\ main \in {"closing", "torn"}
  /\ w \in active_workers
  /\ handle_disconnect(w, socket, reading)
  /\ main' = IF main = "closing" /\ active_workers = {w} THEN "complete" ELSE "torn"
  /\ UNCHANGED <<stopped, pieces_downloaded, on_disk,
                 writes, doomed, active_piece, has>>

\* Nothing to close; or, undefined behaviour, a torn loop ends or crashes.
LoopEnds ==
  /\ \/ main = "closing" /\ active_workers = {} /\ main' = "complete"
     \/ main = "torn" /\ main' \in {"complete", "crashed"}
  /\ UNCHANGED <<stopped, pool, board, conn>>

Terminated ==
  /\ main \in {"complete", "depleted", "aborted", "crashed"}
  /\ UNCHANGED vars

-----------------------------------------------------------------------------
Message(w) ==
  \/ Choke(w) \/ Unchoke(w) \/ Block(w) \/ OtherMessage(w)
  \/ \E S \in Offers : Announce(w, S)
  \/ PieceStored(w) \/ PieceNotStored(w) \/ PieceCorrupt(w) \/ HashThrows(w)

Handler(w) ==
  \/ ConnectFails(w) \/ Connects(w) \/ HandshakeWriteThrows(w)
  \/ HandshakeFails(w) \/ HandshakeRead(w)
  \/ ReadFails(w) \/ Message(w)
  \/ WriteDone(w) \/ WriteFails(w)

Next ==
  /\ \/ StartDownload
     \/ \E w \in Worker : Handler(w)
     \/ RunReturns
     \/ \E w \in Worker : CloseWorker(w)
     \/ LoopEnds
     \/ Terminated
  /\ UNCHANGED hashes

Spec == Init /\ [][Next]_vars

-----------------------------------------------------------------------------
(* Fairness.  The io_context runs every handler whose operation completes, *)
(* a connect attempt completes, and a write completes.  The code sets no   *)
(* timer: that a peer eventually answers the handshake or hangs up, and    *)
(* that every connection eventually breaks, is an assumption on the peers. *)

LoopFairness ==
  /\ WF_swarm(StartDownload)
  /\ WF_swarm(RunReturns)
  /\ WF_swarm(LoopEnds)
  /\ \A w \in Worker :
       /\ WF_swarm(CloseWorker(w))
       /\ WF_swarm(ConnectFails(w) \/ Connects(w))
       /\ WF_swarm(WriteDone(w) \/ WriteFails(w))

PeersHangUp ==
  \A w \in Worker : /\ WF_swarm(HandshakeFails(w) \/ HandshakeRead(w))
                    /\ WF_swarm(ReadFails(w))

FairSpec == Spec /\ LoopFairness /\ PeersHangUp

\* The operation that reports the end of a connection is the last one it had
\* pending: its request writes were done before, and all that may follow is the
\* read that submit_piece's disconnect leaves behind.
EndsQuietly ==
  \A w \in Worker : socket[w] = "closed" =>
    writes[w] = 0 /\ doomed[w] = 0 /\ reading[w] \in {"none", "dead"}

\* The behaviours in which every connection ends like that.
QuietSpec     == Init /\ [][Next /\ EndsQuietly']_vars
QuietFairSpec == QuietSpec /\ LoopFairness /\ PeersHangUp

-----------------------------------------------------------------------------
(* Properties.                                                             *)

Working == main \in {"created", "running"}

\* A piece that is marked in the checklist and not on disk is held by a worker
\* whose read chain has an operation pending, so that some handler will store or
\* requeue it: request_work, requeue_piece, submit_piece and handle_disconnect
\* between them lose no piece.
NoPieceLost ==
  Working =>
    \A p \in Piece : piece_checklist[p] /\ p \notin on_disk =>
      \E w \in Worker : active_piece[w] = p /\ reading[w] # "none"

\* While the event loop runs the registered workers are exactly those with an
\* open socket, and each of them has a read pending: a slot is neither leaked
\* nor held by a dead connection.
SlotsAreConnections ==
  Working =>
    /\ active_workers = {w \in Worker : socket[w] = "open"}
    /\ \A w \in active_workers :
         reading[w] \in {"connect", "handshake", "message"}

\* There are never more open sockets than num_of_connection_.
ConnectionsBounded ==
  Working =>
    Cardinality({w \in Worker : socket[w] = "open"}) <= NumConnections

\* While pieces are missing, no slot is left free as long as some pool entry may
\* be dialled: every path that frees a slot ends in maintain_swarm_strength.
SlotsFilled ==
  main = "running" /\ ~ is_download_complete =>
    Cardinality(active_workers) = NumConnections \/ Eligible(pool_state) = {}

\* An entry is dialled at most once more than it has failed, and one that may be
\* dialled again has failed as often as it was dialled and fewer than MaxRetry
\* times, however often one connection reports its end.
DialBudget ==
  \A e \in Entry :
    /\ made[e] <= retry_count[e] + 1
    /\ pool_state[e] \in {"UNTOUCHED", "RETRYING"} =>
         made[e] <= retry_count[e] /\ retry_count[e] < MaxRetry

\* The counter that is_download_complete compares with "==" never gets past
\* total_pieces_, since the handler that reaches it stops the loop; and it never
\* lags behind the disk.
CounterInStep ==
  /\ main = "running" /\ is_download_complete => stopped \/ TotalPieces = 0
  /\ Cardinality(on_disk) <= pieces_downloaded
  /\ pieces_downloaded <= TotalPieces

\* An entry is CONNECTING only while one of its workers is registered: no peer of
\* the pool is forgotten.
NoPeerForgotten ==
  main = "running" =>
    \A e \in Entry : pool_state[e] = "CONNECTING" =>
      \E w \in active_workers : w[1] = e

\* "SWARM DEPLETED" (swarm.cpp:96): when the event loop runs out of work, every
\* entry has used up its retries, and no piece is claimed that is not on disk.
DepletedMeansSpent ==
  main = "depleted" =>
    /\ \A e \in Entry : pool_state[e] = "DEAD"
    /\ \A p \in Piece : piece_checklist[p] => p \in on_disk

\* "DOWNLOAD COMPLETE." (swarm.cpp:88): when start_download takes the download
\* for complete, every piece is on disk.
CompleteMeansAllOnDisk ==
  main \in {"closing", "torn", "complete"} => on_disk = Piece

\* A piece is fetched over one connection at a time, and never again once it is
\* stored, whatever order it is claimed, given back and claimed again in.
OneFetchPerPiece ==
  Working =>
    \A w \in Worker : active_piece[w] # NoPiece =>
      /\ active_piece[w] \notin on_disk
      /\ \A v \in Worker \ {w} : active_piece[v] # active_piece[w]

\* "Re-queued (Attempt n/5)" (swarm.cpp:183-185): an attempt is a connection that
\* was made, so an entry is not charged more attempts than it had connections.
AttemptsAreDials ==
  \A e \in Entry : retry_count[e] <= made[e]

\* A dead entry stays dead and is never dialled again.
DeadForGood ==
  [][\A e \in Entry : pool_state[e] = "DEAD" =>
       pool_state'[e] = "DEAD" /\ made'[e] = made[e]]_vars

\* If every connection eventually breaks, start_download ends: the retry limit
\* bounds the dialling, and no pending operation keeps run() from returning.
DownloadEnds == <>(main \in {"complete", "depleted", "aborted", "crashed"})

-----------------------------------------------------------------------------
(* The pieces as PieceBoard sees them.                                     *)

PieceView ==
  [p \in Piece |-> IF p \in on_disk THEN "done"
                  ELSE IF piece_checklist[p] THEN "claimed" ELSE "missing"]

OutcomeView ==
  CASE Working -> "running"
    [] main = "depleted" -> "stuck"
    [] main = "aborted" -> "aborted"
    [] OTHER -> "complete"

Board == INSTANCE PieceBoard WITH piece <- PieceView, outcome <- OutcomeView

\* Where connections end quietly, the swarm implements PieceBoard.
ImplementsPieceBoard == Board!BoardSpec
=============================================================================
