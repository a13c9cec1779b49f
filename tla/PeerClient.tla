----------------------------- MODULE PeerClient -----------------------------
(***************************************************************************)
(* One connection to one peer: class PeerClient (engine/src/peer.cpp), at  *)
(* the granularity of blocks and bytes, with what SwarmManager does when   *)
(* the connection calls it (engine/src/swarm.cpp) and with the remote peer *)
(* as the environment.                                                     *)
(*                                                                         *)
(* An action is one whole completion handler.  A message of the peer is    *)
(* received in the step that handles it; what the peer has been asked for  *)
(* and has not answered is asked.  Env says what the surroundings may do:  *)
(*   "chokes"    the peer chokes and forgets the requests it has read;     *)
(*   "corrupts"  the peer answers a request with wrong bytes;              *)
(*   "backlog"   the send buffer of the socket may be full;                *)
(*   "others"    other workers claim, return and store pieces;             *)
(*   "breaks"    operations on the connection may fail.                    *)
(***************************************************************************)
EXTENDS Integers, Sequences, FiniteSets

CONSTANTS
  TotalLength,     \* torrent_.total_length, in bytes
  PieceLength,     \* torrent_.piece_length
  MaxBlockLength,  \* MAX_BLOCK_LENGTH, 16 * 1024 in the code
  MaxBlockWindow,  \* MAX_BLOCK_WINDOW, 7 in the code
  Hashes,          \* how many hashes master_pieces_string may hold
  Bitfields,       \* the bitfields the peer may send, whole bytes of bits
  Haves,           \* the indices of the have messages it may send
  MaxWrites,       \* bound on the pending request writes
  Env              \* what the surroundings may do

TotalPieces == (TotalLength + PieceLength - 1) \div PieceLength
Piece   == 0 .. TotalPieces - 1
NoPiece == -1
Byte    == 0 .. PieceLength - 1   \* the bytes of a piece

ASSUME PeerAssumption ==
  /\ TotalLength \in Nat /\ PieceLength \in Nat \ {0}
  /\ MaxBlockLength \in Nat \ {0} /\ MaxBlockWindow \in Nat \ {0}
  /\ Hashes \subseteq Nat
  /\ Bitfields \subseteq Seq(BOOLEAN) /\ Haves \subseteq Nat
  /\ MaxWrites \in Nat
  /\ Env \subseteq {"chokes", "corrupts", "backlog", "others", "breaks"}

VARIABLES
  socket,                \* socket_: "none" before start, "open", "closed"
  chain,                 \* the pending operation of the read chain
  writes,                \* pending request writes started on the open socket
  doomed,                \* pending request writes started on a closed socket
  thrown,                \* an exception has left a handler, and run() with it
  peer_bitfield,
  active_piece,          \* active_piece_; is_busy_ is active_piece_ # -1
  current_piece_length,
  bytes_downloaded,
  bytes_requested,
  current_piece_buffer,  \* "zero", "good" or "bad", for each byte of the piece
  piece_checklist,       \* the manager's, and the next three
  on_disk,
  pieces_downloaded,
  stopped,
  disconnects,           \* calls of handle_disconnect for this connection
  theirs,                \* pieces other workers hold
  asked,                 \* requests that are on their way to, or with, the peer
  late,                  \* requests not written when async_write returned
  garbled,               \* bytes of a destroyed buffer went out to the peer
  unchoked,              \* the last choke or unchoke the peer sent was unchoke
  hashes                 \* how many hashes master_pieces_string holds

conn    == <<socket, chain, thrown>>
sending == <<writes, doomed, asked, late>>
fetch   == <<active_piece, current_piece_length, bytes_downloaded,
             bytes_requested, current_piece_buffer>>
manager == <<piece_checklist, on_disk, pieces_downloaded, stopped, disconnects>>
remote  == <<garbled, unchoked>>
moving  == <<conn, sending, fetch, peer_bitfield, manager, theirs, remote>>
vars    == <<conn, sending, fetch, peer_bitfield, manager, theirs, remote, hashes>>

Request == [piece : Piece, offset : Byte, length : 1 .. MaxBlockLength]

\* The block that completes a piece may overlap others, when requests outlive a
\* choke, and then bytes_downloaded_ passes the length of the piece by less than a
\* block; a piece that is still being fetched lacks at least one byte.
TypeOK ==
  /\ socket \in {"none", "open", "closed"}
  /\ chain \in {"none", "connect", "handshake", "header", "payload", "dead"}
  /\ writes \in 0 .. MaxWrites /\ doomed \in 0 .. MaxWrites
  /\ thrown \in BOOLEAN
  /\ peer_bitfield \in Seq(BOOLEAN)
  /\ active_piece \in Piece \cup {NoPiece}
  /\ current_piece_length \in 0 .. PieceLength
  /\ bytes_downloaded \in 0 .. PieceLength + MaxBlockLength - 1
  /\ active_piece # NoPiece => bytes_downloaded < current_piece_length
  /\ bytes_requested \in 0 .. PieceLength
  /\ current_piece_buffer \in [Byte -> {"zero", "good", "bad"}]
  /\ piece_checklist \in [Piece -> BOOLEAN]
  /\ on_disk \subseteq Piece /\ theirs \subseteq Piece
  /\ pieces_downloaded \in 0 .. TotalPieces
  /\ stopped \in BOOLEAN
  /\ disconnects \in Nat
  /\ asked \in Seq(Request) /\ late \in Seq(Request)
  /\ garbled \in BOOLEAN /\ unchoked \in BOOLEAN
  /\ hashes \in Hashes

Zeros == [b \in Byte |-> "zero"]

Init ==
  /\ socket = "none" /\ chain = "none" /\ thrown = FALSE
  /\ writes = 0 /\ doomed = 0 /\ asked = << >> /\ late = << >>
  /\ active_piece = NoPiece
  /\ current_piece_length = 0
  /\ bytes_downloaded = 0 /\ bytes_requested = 0
  /\ current_piece_buffer = Zeros
  /\ peer_bitfield = << >>
  /\ piece_checklist = [p \in Piece |-> FALSE]
  /\ on_disk = {} /\ pieces_downloaded = 0
  /\ stopped = FALSE /\ disconnects = 0
  /\ theirs = {}
  /\ garbled = FALSE /\ unchoked = FALSE
  /\ hashes \in Hashes   \* TorrentFile does not compare it with the pieces

-----------------------------------------------------------------------------
(* Requests.                                                               *)

Least(a, b) == IF a <= b THEN a ELSE b

has_piece(p) == p < Len(peer_bitfield) /\ peer_bitfield[p + 1]

\* The length request_work gives a piece: the last one is "special".
LengthOf(p) ==
  IF p = TotalPieces - 1 /\ TotalLength % PieceLength # 0
  THEN TotalLength % PieceLength ELSE PieceLength

BlocksFrom(from, len) ==
  IF from >= len THEN 0 ELSE (len - from + MaxBlockLength - 1) \div MaxBlockLength

\* Mutants of Ask: the last block is as long as any other; one request too many.
AskWholeBlocks(p, len, from, n) ==
  LET asks == Least(n, BlocksFrom(from, len))
  IN  [requests |->
         [i \in 1 .. asks |-> [piece |-> p, offset |-> from + (i - 1) * MaxBlockLength,
                               length |-> MaxBlockLength]],
       upto |-> from + asks * MaxBlockLength]

AskOneMore(p, len, from, n) ==
  LET asks == Least(IF n = MaxBlockWindow THEN n + 1 ELSE n, BlocksFrom(from, len))
  IN  [requests |->
         [i \in 1 .. asks |->
            LET at == from + (i - 1) * MaxBlockLength
            IN  [piece |-> p, offset |-> at, length |-> Least(MaxBlockLength, len - at)]],
       upto |-> IF asks = 0 THEN from ELSE Least(len, from + asks * MaxBlockLength)]

\* What n calls of request_next_block ask for, and the bytes_requested_ they
\* leave, for a piece of length len of which `from' bytes have been requested.
Ask(p, len, from, n) ==
  LET asks == Least(n, BlocksFrom(from, len))
  IN  [requests |->
         [i \in 1 .. asks |->
            LET at == from + (i - 1) * MaxBlockLength
            IN  [piece |-> p, offset |-> at, length |-> Least(MaxBlockLength, len - at)]],
       upto |-> IF asks = 0 THEN from ELSE Least(len, from + asks * MaxBlockLength)]

\* request_block for each of reqs; the handler finds the peer with the requests q.
\* The buffer given to async_write is a local of request_block: what the socket
\* takes at once is right, and once the send buffer is full the rest is read after
\* the local is gone.
request_blocks(q, reqs) ==
  IF socket = "open"
  THEN /\ writes + Len(reqs) <= MaxWrites
       /\ writes' = writes + Len(reqs)
       /\ \E k \in 0 .. Len(reqs) :
            /\ late # << >> => k = 0
            /\ "backlog" \notin Env => k = Len(reqs)
            /\ asked' = q \o SubSeq(reqs, 1, k)
            /\ late' = late \o SubSeq(reqs, k + 1, Len(reqs))
       /\ UNCHANGED doomed
  ELSE /\ doomed + Len(reqs) <= MaxWrites
       /\ doomed' = doomed + Len(reqs)
       /\ asked' = q
       /\ UNCHANGED <<writes, late>>

-----------------------------------------------------------------------------
(* Calls of the manager.                                                   *)

Missing(list) == {p \in Piece : ~ list[p] /\ has_piece(p)}

\* request_work and fetch_piece_async.  The caller has set pieces_downloaded',
\* finds the checklist at list, bytes_requested_ at from, bytes_downloaded_ at got,
\* the buffer at buf and the peer with the requests q, and has just made the
\* requests `first'.
request_work(list, from, got, buf, q, first) ==
  LET complete == pieces_downloaded' = TotalPieces
  IN  \/ /\ complete \/ Missing(list) = {}
         /\ stopped' = complete
         /\ piece_checklist' = list
         /\ active_piece' = NoPiece
         /\ bytes_requested' = from
         /\ bytes_downloaded' = got /\ current_piece_buffer' = buf
         /\ UNCHANGED current_piece_length
         /\ request_blocks(q, first)
      \/ /\ ~ complete
         /\ UNCHANGED stopped
         /\ \E p \in Missing(list) :
              LET window == Ask(p, LengthOf(p), from, MaxBlockWindow) IN
              /\ \A other \in Missing(list) : p <= other
              /\ piece_checklist' = [list EXCEPT ![p] = TRUE]
              /\ active_piece' = p
              /\ current_piece_length' = LengthOf(p)
              /\ bytes_downloaded' = 0
              /\ current_piece_buffer' = Zeros
              /\ bytes_requested' = window.upto
              /\ request_blocks(q, first \o window.requests)

Requeued == [p \in Piece |-> piece_checklist[p] /\ p # active_piece]

\* disconnect, with handle_disconnect's part for this connection: active_piece_
\* stays as it is.  The read chain goes on at r.
disconnect(r) ==
  /\ socket' = "closed"
  /\ chain' = r
  /\ piece_checklist' = Requeued
  /\ disconnects' = disconnects + 1
  /\ UNCHANGED <<thrown, on_disk, pieces_downloaded, stopped>>

-----------------------------------------------------------------------------
(* Completion handlers.                                                    *)

Runs == ~ stopped /\ ~ thrown

\* Mutant of Then: the read chain goes on over a closed socket.
ThenAnyway(op) == chain' = op

\* An operation started on a socket reports only errors if the socket was closed.
Then(op) == chain' = IF socket = "open" THEN op ELSE "dead"

start ==
  /\ socket = "none"
  /\ socket' = "open"
  /\ chain' = "connect"
  /\ UNCHANGED <<thrown, sending, fetch, peer_bitfield, manager, theirs, remote>>

handle_connect ==
  /\ Runs /\ chain = "connect"
  /\ chain' = "handshake"
  /\ UNCHANGED <<socket, thrown, sending, fetch, peer_bitfield, manager,
                 theirs, remote>>

\* asio::write throws.
HandshakeWriteThrows ==
  /\ Runs /\ chain = "connect" /\ "breaks" \in Env
  /\ thrown' = TRUE
  /\ UNCHANGED <<socket, chain, sending, fetch, peer_bitfield, manager,
                 theirs, remote>>

handle_handshake_read ==
  /\ Runs /\ chain = "handshake"
  /\ Then("header")
  /\ UNCHANGED <<socket, thrown, sending, fetch, peer_bitfield, manager,
                 theirs, remote>>

\* Any operation of the read chain reports an error; or the handshake comes back
\* with another info_hash.
ReadFails ==
  /\ Runs
  /\ \/ chain # "none" /\ "breaks" \in Env
     \/ chain = "dead"
  /\ disconnect("none")
  /\ UNCHANGED <<sending, fetch, peer_bitfield, theirs, remote>>

\* A header: of a keep-alive, or of a message.
handle_message_header ==
  /\ Runs /\ chain = "header"
  /\ Then("header") \/ Then("payload")
  /\ UNCHANGED <<socket, thrown, sending, fetch, peer_bitfield, manager,
                 theirs, remote>>

\* handle_message_payload, common to all messages.  A peer that could not make
\* sense of a request sends nothing any more.
Message ==
  /\ Runs /\ chain = "payload" /\ ~ garbled
  /\ UNCHANGED <<theirs, garbled>>

\* The peer has read n requests, and drops them.
Choke(n) ==
  /\ Message
  /\ "chokes" \in Env /\ unchoked
  /\ unchoked' = FALSE
  /\ asked' = SubSeq(asked, n + 1, Len(asked))
  /\ piece_checklist' = Requeued
  /\ active_piece' = NoPiece
  /\ Then("header")
  /\ UNCHANGED <<socket, thrown, writes, doomed, late, current_piece_length,
                 peer_bitfield, bytes_downloaded, bytes_requested, current_piece_buffer,
                 on_disk, pieces_downloaded, stopped, disconnects>>

Unchoke ==
  /\ Message
  /\ ~ unchoked
  /\ unchoked' = TRUE
  /\ UNCHANGED <<pieces_downloaded, on_disk>>
  /\ IF active_piece = NoPiece
     THEN request_work(piece_checklist, bytes_requested, bytes_downloaded,
                       current_piece_buffer, asked, << >>)
     ELSE UNCHANGED <<fetch, sending, piece_checklist, stopped>>
  /\ Then("header")
  /\ UNCHANGED <<socket, thrown, peer_bitfield, disconnects>>

\* The resize also cuts off what lies behind the index.
Have(i) ==
  /\ Message
  /\ peer_bitfield' = IF i < Len(peer_bitfield)
                      THEN [SubSeq(peer_bitfield, 1, i + 1) EXCEPT ![i + 1] = TRUE]
                      ELSE peer_bitfield
  /\ Then("header")
  /\ UNCHANGED <<socket, thrown, sending, fetch, manager, unchoked>>

\* The peer sends its bitfield once, before it ever unchokes.
Bitfield(bits) ==
  /\ Message
  /\ peer_bitfield = << >> /\ ~ unchoked
  /\ peer_bitfield' = bits
  /\ Then("header")
  /\ UNCHANGED <<socket, thrown, sending, fetch, manager, unchoked>>

\* Mutant of submit_piece: bytes_requested_ is not reset.
submit_piece_from_there(got, buf, q, first) ==
  /\ pieces_downloaded' = pieces_downloaded + 1
  /\ on_disk' = on_disk \cup {active_piece}
  /\ request_work(piece_checklist, bytes_requested, got, buf, q, first)
  /\ Then("header")
  /\ UNCHANGED <<socket, thrown, disconnects>>

\* Mutant of HasHash: the bound is off by one.
HasHashUpTo(p) == p <= hashes

\* get_hash_for_piece returns; it throws past master_pieces_string.
HasHash(p) == p < hashes

\* submit_piece of the buffer buf, of which got bytes were counted; q and first as in
\* request_work.
submit_piece(got, buf, q, first) ==
  LET hash_matches == /\ HasHash(active_piece)
                      /\ \A b \in 0 .. LengthOf(active_piece) - 1 : buf[b] = "good"
      dropped == /\ active_piece' = NoPiece
                 /\ bytes_requested' = 0
                 /\ bytes_downloaded' = got /\ current_piece_buffer' = buf
                 /\ UNCHANGED current_piece_length
                 /\ request_blocks(q, first)
  IN  \/ /\ hash_matches
         /\ pieces_downloaded' = pieces_downloaded + 1
         /\ on_disk' = on_disk \cup {active_piece}
         /\ request_work(piece_checklist, 0, got, buf, q, first)
         /\ Then("header")
         /\ UNCHANGED <<socket, thrown, disconnects>>
      \/ /\ hash_matches /\ "breaks" \in Env   \* write_piece throws
         /\ UNCHANGED <<pieces_downloaded, on_disk>>
         /\ request_work(Requeued, 0, got, buf, q, first)
         /\ Then("header")
         /\ UNCHANGED <<socket, thrown, disconnects>>
      \/ /\ ~ hash_matches /\ HasHash(active_piece)
         /\ dropped
         /\ disconnect("dead")
      \/ /\ ~ HasHash(active_piece)   \* get_hash_for_piece throws, out of run()
         /\ dropped
         /\ thrown' = TRUE
         /\ UNCHANGED <<socket, chain, manager>>

\* A block is copied, and counted, if it fits the buffer.
Fits(r) == r.offset + r.length <= current_piece_length

Copied(r, quality) ==
  [b \in Byte |-> IF Fits(r) /\ r.offset <= b /\ b < r.offset + r.length
                  THEN quality ELSE current_piece_buffer[b]]

\* Mutant of Counted: every block counts as a full one.
CountedFull(r) == bytes_downloaded + (IF Fits(r) THEN MaxBlockLength ELSE 0)

Counted(r) == bytes_downloaded + (IF Fits(r) THEN r.length ELSE 0)

\* Mutant of Completes: a byte more is waited for.
CompletesPast(r) == Counted(r) > current_piece_length

\* The test after a block has been counted and the next one requested.
Completes(r) == Counted(r) >= current_piece_length

\* A piece message that answers the i-th request, with the bytes it asked for.
\* The peer answers only what it has been asked, and not while it chokes.
Block(i, quality) ==
  LET r    == asked[i]
      q    == SubSeq(asked, 1, i - 1) \o SubSeq(asked, i + 1, Len(asked))
      next == Ask(active_piece, current_piece_length, bytes_requested, 1)
  IN  /\ Message /\ unchoked
      /\ quality = "good" \/ "corrupts" \in Env
      /\ UNCHANGED <<peer_bitfield, unchoked>>
      /\ \/ /\ r.piece # active_piece
            /\ asked' = q
            /\ Then("header")
            /\ UNCHANGED <<socket, thrown, writes, doomed, late, fetch, manager>>
         \/ /\ r.piece = active_piece /\ ~ Completes(r)
            /\ bytes_downloaded' = Counted(r)
            /\ current_piece_buffer' = Copied(r, quality)
            /\ bytes_requested' = next.upto
            /\ request_blocks(q, next.requests)
            /\ Then("header")
            /\ UNCHANGED <<socket, thrown, active_piece, current_piece_length,
                           manager>>
         \/ /\ r.piece = active_piece /\ Completes(r)
            /\ submit_piece(Counted(r), Copied(r, quality), q, next.requests)

\* Messages 2, 3, 6 and 8, an unchoke while busy, or one too short.
OtherMessage ==
  /\ Message
  /\ Then("header")
  /\ UNCHANGED <<socket, thrown, sending, fetch, peer_bitfield, manager, unchoked>>

\* The handler of a request's async_write.
RequestWritten ==
  /\ Runs /\ writes > Len(late)
  /\ writes' = writes - 1
  /\ UNCHANGED <<conn, doomed, asked, late, fetch, peer_bitfield, manager,
                 theirs, remote>>

RequestFails ==
  /\ Runs
  /\ \/ /\ writes > 0 /\ "breaks" \in Env
        /\ writes' = writes - 1
        /\ late' = IF late = << >> THEN late ELSE Tail(late)
        /\ UNCHANGED doomed
     \/ /\ doomed > 0
        /\ doomed' = doomed - 1
        /\ UNCHANGED <<writes, late>>
  /\ disconnect(chain)
  /\ UNCHANGED <<asked, fetch, peer_bitfield, theirs, remote>>

-----------------------------------------------------------------------------
(* The surroundings.                                                       *)

\* The socket takes a request that had to wait: its bytes are still there, or
\* something else has been written over them.
LateWrite ==
  /\ Runs /\ late # << >> /\ socket = "open"
  /\ late' = Tail(late)
  /\ \/ asked' = Append(asked, Head(late)) /\ UNCHANGED garbled
     \/ garbled' = TRUE /\ UNCHANGED asked
  /\ UNCHANGED <<conn, writes, doomed, fetch, peer_bitfield, manager,
                 theirs, unchoked>>

\* Another worker claims, gives back or stores a piece.  It does not store the
\* last one: that would end the run.
OthersWork(p) ==
  /\ Runs /\ "others" \in Env
  /\ \/ /\ ~ piece_checklist[p]
        /\ piece_checklist' = [piece_checklist EXCEPT ![p] = TRUE]
        /\ theirs' = theirs \cup {p}
        /\ UNCHANGED <<on_disk, pieces_downloaded>>
     \/ /\ p \in theirs
        /\ piece_checklist' = [piece_checklist EXCEPT ![p] = FALSE]
        /\ theirs' = theirs \ {p}
        /\ UNCHANGED <<on_disk, pieces_downloaded>>
     \/ /\ p \in theirs
        /\ pieces_downloaded + 1 < TotalPieces
        /\ theirs' = theirs \ {p}
        /\ on_disk' = on_disk \cup {p}
        /\ pieces_downloaded' = pieces_downloaded + 1
        /\ UNCHANGED piece_checklist
  /\ UNCHANGED <<conn, sending, fetch, peer_bitfield, stopped, disconnects, remote>>

Silence ==
  /\ ~ Runs \/ chain = "none" \/ garbled
  /\ UNCHANGED vars

-----------------------------------------------------------------------------
Next ==
  /\ \/ start \/ handle_connect \/ HandshakeWriteThrows \/ handle_handshake_read
     \/ ReadFails \/ handle_message_header
     \/ \E n \in 0 .. Len(asked) : Choke(n)
     \/ Unchoke
     \/ \E i \in Haves : Have(i)
     \/ \E bits \in Bitfields : Bitfield(bits)
     \/ \E i \in DOMAIN asked, quality \in {"good", "bad"} : Block(i, quality)
     \/ OtherMessage
     \/ RequestWritten \/ RequestFails
     \/ LateWrite \/ \E p \in Piece : OthersWork(p)
     \/ Silence
  /\ UNCHANGED hashes

Spec == Init /\ [][Next]_vars

(* Fairness: the io_context runs the handler of every operation that       *)
(* completes; and what a peer may leave undone it does in the end: it      *)
(* sends whole messages, takes what is written to it, and answers what it  *)
(* is asked while it unchokes.                                             *)
FairSpec ==
  /\ Spec
  /\ WF_moving(start) /\ WF_moving(handle_connect) /\ WF_moving(handle_handshake_read)
  /\ WF_moving(handle_message_header /\ chain' # "header")
  /\ WF_moving(RequestWritten) /\ WF_moving(LateWrite)
  /\ SF_moving(Unchoke)
  /\ SF_moving(\E i \in DOMAIN asked : Block(i, "good"))

-----------------------------------------------------------------------------
(* Properties.                                                             *)

Fetching == Runs /\ socket = "open" /\ active_piece # NoPiece /\ ~ garbled

Outstanding == {asked[i] : i \in DOMAIN asked} \cup {late[i] : i \in DOMAIN late}

\* "Starting async fetch for Piece" (peer.cpp:359): of the piece being fetched
\* every byte has arrived, or is asked for, or is yet to be asked for.
EveryByteAskedFor ==
  Fetching =>
    \A b \in 0 .. current_piece_length - 1 :
      \/ current_piece_buffer[b] # "zero"
      \/ b >= bytes_requested
      \/ \E r \in Outstanding : /\ r.piece = active_piece
                                /\ r.offset <= b /\ b < r.offset + r.length

\* While a peer does not choke, as many requests are outstanding as the window
\* allows and the rest of the piece needs: the pipeline neither drains early nor
\* grows past MAX_BLOCK_WINDOW.
PipelineFull ==
  Fetching =>
    Len(asked) + Len(late) =
      Least(MaxBlockWindow, BlocksFrom(bytes_downloaded, current_piece_length))

\* bytes_downloaded_, which alone decides that a piece is complete, counts no byte
\* twice, even when requests outlive a choke: a peer that sends correct blocks is
\* never dropped for a "Hash mismatch!" (swarm.cpp:153).
BytesCountedOnce ==
  active_piece # NoPiece =>
    bytes_downloaded <= Cardinality({b \in 0 .. current_piece_length - 1 :
                                       current_piece_buffer[b] # "zero"})

\* "fully downloaded!" (peer.cpp:253) after the test with >=: what is counted of a
\* piece is exactly its bytes.
CountStaysInPiece == bytes_downloaded <= current_piece_length

\* "HAVE Piece" (peer.cpp:170): a have message adds its piece to what the peer is
\* known to have, and takes nothing away.
KnownPieces == {p \in Piece : has_piece(p)}
HaveAddsPiece ==
  [][\A i \in Haves : Have(i) => KnownPieces \cup {i} \subseteq KnownPieces']_vars

\* "Sent: REQUEST for Piece" (peer.cpp:332): what goes out is the request.
RequestsAreSent == ~ garbled

\* A fetch from a peer that answers and does not choke never stalls: another block
\* arrives and counts, until the piece is submitted or the connection ends.
FetchNeverStalls ==
  \A k \in 0 .. PieceLength :
    Fetching /\ bytes_downloaded = k ~> ~ (Fetching /\ bytes_downloaded = k)

\* "Piece n requeued to swarm." (swarm.cpp:229): a worker that is unchoked and has
\* nothing to do takes up a piece its peer has, if nobody else does.
IdleWorkerFindsWork ==
  \A p \in Piece :
    (Runs /\ unchoked /\ active_piece = NoPiece /\ p \in Missing(piece_checklist))
      ~> (~ Runs \/ p \notin Missing(piece_checklist))
=============================================================================
