------------------------- MODULE PeerInSwarmProofs -------------------------
(***************************************************************************)
(* PeerClient implements SwarmManager, by the refinement mapping of        *)
(* PeerInSwarm: for every torrent with a piece, every block length and     *)
(* window, every number of pending writes, every peer, honest or not, that *)
(* keeps the protocol.  Other workers are left out, as the mapping is that *)
(* of a swarm of one connection.                                           *)
(***************************************************************************)
EXTENDS PeerInSwarm, PeerClientProofs

-----------------------------------------------------------------------------
(* The swarm of one entry and one worker.                                  *)

Conn == <<1, 1>>

\* The one entry of the swarm and its one worker; the pieces are the same.
LEMMA OneOfEach ==
  /\ Swarm!Entry = {1} /\ Swarm!Worker = {Conn} /\ Worker = {Conn}
  /\ Swarm!Piece = Piece /\ Swarm!NoPiece = NoPiece
  /\ Conn[1] = 1 /\ Conn[2] = 1
BY DEF Swarm!Entry, Swarm!Worker, Worker, Conn, Swarm!Piece, Piece,
       Swarm!NoPiece, NoPiece

\* Counting is the same in the swarm.
LEMMA SameCount == \A S : Swarm!Cardinality(S) = Cardinality(S)
BY DEF Swarm!Cardinality, Cardinality

\* What holds of a connection until its handshake has been read: it has no work and
\* has sent no request.
LinkInv ==
  /\ socket = "none" => /\ chain = "none" /\ ~ thrown
                        /\ disconnects = 0 /\ pieces_downloaded = 0
  /\ socket = "none" \/ chain \in {"connect", "handshake"} =>
       active_piece = NoPiece /\ peer_bitfield = << >> /\ writes = 0 /\ doomed = 0

\* A peer that has sent no bitfield has no piece.
LEMMA NothingKnown == peer_bitfield = << >> => KnownPieces = {}
BY PiecesTyped DEF KnownPieces, has_piece

\* What a peer has does not change unless its bitfield does.
LEMMA KnownFrame == UNCHANGED peer_bitfield => KnownPieces' = KnownPieces
BY DEF KnownPieces, has_piece

-----------------------------------------------------------------------------
(* The calls.                                                              *)

\* start_download dials the one entry.
LEMMA Dialled ==
  ASSUME LinkInv, TotalPieces # 0, start
  PROVE  Swarm!StartDownload
<1> DEFINE st == [e \in {1} |-> PoolView]
           aw == IF socket = "open" THEN Worker ELSE {}
<1>1. /\ socket = "none" /\ socket' = "open" /\ chain' = "connect"
      /\ UNCHANGED <<thrown, sending, fetch, peer_bitfield, manager>>
      /\ active_piece = NoPiece /\ peer_bitfield = << >> /\ disconnects = 0
      /\ pieces_downloaded = 0 /\ ~ thrown
  BY DEF start, LinkInv
<1>2. MainView = "created" /\ MainView' = "running"
  BY <1>1 DEF MainView
<1>3. ReadingView' = "connect"
  BY <1>1 DEF ReadingView
<1>4. PoolView = "UNTOUCHED" /\ PoolView' = "CONNECTING"
  BY <1>1 DEF PoolView, manager
<1>5. aw = {} /\ (IF socket = "open" THEN Worker ELSE {})' = Worker
  BY <1>1
<1>6. Swarm!ToStart(st, aw) = {1}
  <2>1. Swarm!Eligible(st) = {1}
    BY <1>4, OneOfEach DEF Swarm!Eligible
  <2>2. Cardinality({f \in {1} : f < 1}) = 0
    <3>1. {f \in {1} : f < 1} = {}
      OBVIOUS
    <3> QED
      BY <3>1, FS_EmptySet
  <2>3. Cardinality(aw) = 0
    BY <1>5, FS_EmptySet
  <2>4. ~ Swarm!is_download_complete
    BY <1>1 DEF Swarm!is_download_complete
  <2>5. Swarm!ToStart(st, aw) = Swarm!FirstEligible(st, 1 - Cardinality(aw))
    BY <2>4, SameCount DEF Swarm!ToStart
  <2>6. 1 - Cardinality(aw) = 1
    BY <2>3
  <2>7. Swarm!FirstEligible(st, 1) = {1}
    <3>1. Swarm!FirstEligible(st, 1) =
            {e \in {1} : Cardinality({f \in {1} : f < e}) < 1}
      BY <2>1, SameCount DEF Swarm!FirstEligible
    <3> QED
      BY <2>2, <3>1
  <2> QED
    BY <2>5, <2>6, <2>7
<1> HIDE DEF st, aw
<1>7. Swarm!maintain_swarm_strength(st, aw, [w \in Worker |-> socket],
                                            [w \in Worker |-> ReadingView])
  BY <1>1, <1>3, <1>4, <1>5, <1>6, OneOfEach DEF Swarm!maintain_swarm_strength, Conn
<1>8. UNCHANGED <<stopped, [e \in {1} |-> disconnects], Swarm!board,
                  [w \in Worker |-> writes], [w \in Worker |-> doomed]>>
  BY <1>1 DEF manager, sending, Swarm!board
<1>9. UNCHANGED <<[w \in Worker |-> HeldView],
                  [w \in Worker |-> KnownView]>>
  BY <1>1, NothingKnown, KnownFrame DEF fetch, HeldView, KnownView
<1> QED
  BY <1>2, <1>7, <1>8, <1>9 DEF Swarm!StartDownload, st, aw

\* handle_disconnect leaves the one entry dead, so nobody is dialled.
LEMMA HungUp ==
  ASSUME TypeOK, socket # "none", ~ Gone, NEW r, disconnect(r)
  PROVE  Swarm!disconnect(Conn, ReadingView')
<1> DEFINE st == [e \in {1} |-> PoolView]
           aw == IF socket = "open" THEN Worker ELSE {}
           retries == [e \in {1} |-> disconnects]
           dead == [st EXCEPT ![1] = "DEAD"]
           sk == [[w \in Worker |-> socket] EXCEPT ![Conn] = "closed"]
           rd == [[w \in Worker |-> ReadingView] EXCEPT ![Conn] = ReadingView']
<1>1. /\ socket' = "closed" /\ chain' = r /\ disconnects' = disconnects + 1
      /\ disconnects \in Nat
      /\ UNCHANGED <<thrown, on_disk, pieces_downloaded, stopped>>
  BY DEF disconnect, TypeOK
<1>2. PoolView' = "DEAD"
  BY <1>1 DEF PoolView
<1>3. /\ dead = [e \in {1} |-> "DEAD"]
      /\ sk = [w \in Worker |-> "closed"] /\ rd = [w \in Worker |-> ReadingView']
  BY OneOfEach
<1>4. Swarm!Charged(Conn) = 1
  <2>1. {e \in Swarm!Entry : [f \in {1} |-> 1][e] = [f \in {1} |-> 1][Conn[1]]} = {1}
    BY OneOfEach
  <2>2. Swarm!Lowest({1}) = 1
    BY DEF Swarm!Lowest
  <2> QED
    BY <2>1, <2>2 DEF Swarm!Charged
<1>5. Swarm!ToStart(dead, aw \ {Conn}) = {}
  <2>1. Swarm!Eligible(dead) = {}
    BY <1>3, OneOfEach DEF Swarm!Eligible
  <2> QED
    BY <2>1 DEF Swarm!ToStart, Swarm!FirstEligible
<1>6. aw \ {Conn} = {} /\ (IF socket = "open" THEN Worker ELSE {})' = {}
  BY <1>1, OneOfEach
<1> HIDE DEF st, aw, dead, sk, rd
<1>7. Swarm!maintain_swarm_strength(dead, aw \ {Conn}, sk, rd)
  BY <1>1, <1>2, <1>3, <1>5, <1>6, OneOfEach DEF Swarm!maintain_swarm_strength
<1>8. [e \in {1} |-> disconnects]' = [retries EXCEPT ![1] = @ + 1] /\ retries[1] + 1 >= 1
  BY <1>1
<1>9. piece_checklist' = Swarm!Requeued(Conn)
  BY OneOfEach DEF disconnect, Requeued, Swarm!Requeued, HeldView
<1>10. Swarm!handle_disconnect(Conn, sk, rd)
  BY <1>4, <1>7, <1>8, <1>9 DEF Swarm!handle_disconnect, dead, st, aw
<1> QED
  BY <1>10 DEF Swarm!disconnect, sk, rd

\* A handler that leaves something pending keeps the connection.
LEMMA Kept ==
  ASSUME ~ Gone, UNCHANGED <<active_piece, peer_bitfield>>
  PROVE  Swarm!Release(Conn)
<1>1. KnownPieces' = KnownPieces
  BY KnownFrame
<1>2. /\ [w \in Worker |-> ReadingView]'[Conn] = ReadingView'
      /\ [w \in Worker |-> writes]'[Conn] = writes'
      /\ [w \in Worker |-> doomed]'[Conn] = doomed'
  BY OneOfEach
<1>3. ReadingView' = "none" <=> chain' = "none"
  BY DEF ReadingView
<1>4. CASE Gone'
  BY <1>1, <1>2, <1>3, <1>4, OneOfEach DEF Swarm!Release, Gone, HeldView, KnownView
<1>5. CASE ~ Gone'
  BY <1>1, <1>2, <1>3, <1>5, OneOfEach DEF Swarm!Release, Gone, HeldView, KnownView
<1> QED
  BY <1>4, <1>5

\* The requests of a handler are writes of the swarm.
LEMMA WritesStarted ==
  ASSUME TypeOK, NEW q, NEW reqs \in Seq(Request), request_blocks(q, reqs)
  PROVE  Swarm!StartWrites(Conn)
<1> DEFINE k == Len(reqs)
<1>1. /\ k \in Nat /\ MaxWrites \in Nat /\ writes \in Nat /\ doomed \in Nat
  BY LenProperties, PeerAssumption DEF TypeOK
<1>2. CASE socket = "open"
  <2>1. writes + k <= MaxWrites /\ writes' = writes + k /\ doomed' = doomed
    BY <1>2 DEF request_blocks
  <2> HIDE DEF k
  <2>2. k \in 0 .. MaxWrites
    BY <1>1, <2>1
  <2> QED
    BY <1>2, <2>1, <2>2, OneOfEach DEF Swarm!StartWrites
<1>3. CASE socket # "open"
  <2>1. doomed + k <= MaxWrites /\ doomed' = doomed + k /\ writes' = writes
    BY <1>3 DEF request_blocks
  <2> HIDE DEF k
  <2>2. k \in 0 .. MaxWrites
    BY <1>1, <2>1
  <2> QED
    BY <1>3, <2>1, <2>2, OneOfEach DEF Swarm!StartWrites
<1> QED
  BY <1>2, <1>3

\* Every message handler reads the next header.
LEMMA ReadsOn ==
  ASSUME Then("header") \/ Then("payload")
  PROVE  Swarm!ReadNext(Conn)
BY OneOfEach DEF Then, ReadingView, Swarm!ReadNext

\* What request_work writes: the requests before it, and those of a window if it finds
\* a piece.
LEMMA WorkWrites ==
  ASSUME NEW list, NEW from \in 0 .. PieceLength, NEW got, NEW buf,
         NEW q, NEW first \in Seq(Request),
         request_work(list, from, got, buf, q, first)
  PROVE  \E reqs \in Seq(Request) :
           request_blocks(q, reqs) /\ (active_piece' = NoPiece => reqs = first)
<1>1. CASE request_blocks(q, first)
  BY <1>1
<1>2. CASE \E p \in Missing(list) :
             LET window == Ask(p, LengthOf(p), from, MaxBlockWindow) IN
             /\ active_piece' = p
             /\ request_blocks(q, first \o window.requests)
  <2>1. PICK p \in Missing(list) :
          /\ active_piece' = p
          /\ request_blocks(q, first \o Ask(p, LengthOf(p), from,
                                             MaxBlockWindow).requests)
    BY <1>2
  <2> DEFINE asks == Ask(p, LengthOf(p), from, MaxBlockWindow).requests
  <2>2. p \in Piece /\ p # NoPiece
    BY PiecesTyped DEF Missing, NoPiece
  <2>3. asks \in Seq(Request)
    BY <2>2, LengthTyped, AskTyped, PeerAssumption
  <2>4. request_blocks(q, first \o asks)
    BY <2>1
  <2> HIDE DEF asks
  <2>5. first \o asks \in Seq(Request)
    BY <2>3, ConcatProperties
  <2> QED
    BY <2>1, <2>2, <2>4, <2>5
<1> QED
  BY <1>1, <1>2 DEF request_work

\* No request is no write.
LEMMA NothingWritten ==
  ASSUME TypeOK, NEW q, request_blocks(q, << >>)
  PROVE  UNCHANGED <<writes, doomed>>
<1>1. Len(<< >>) = 0 /\ writes \in Nat /\ doomed \in Nat
  BY PeerAssumption, EmptySeq DEF TypeOK
<1> QED
  BY <1>1 DEF request_blocks

\* request_work of a connection that has a handler running, and goes on.
LEMMA WorkAsked ==
  ASSUME stopped = FALSE, ~ Gone, chain' # "none",
         NEW list, NEW from, NEW got, NEW buf, NEW q, NEW first,
         request_work(list, from, got, buf, q, first)
  PROVE  Swarm!request_work(Conn, list)
<1>1. ~ Gone'
  BY DEF Gone
<1>2. /\ [w \in Worker |-> KnownView][Conn] = KnownPieces
      /\ [w \in Worker |-> HeldView]'
           = [[w \in Worker |-> HeldView]
                EXCEPT ![Conn] = active_piece']
  BY <1>1, OneOfEach DEF HeldView, KnownView
<1>3. Swarm!Missing(Conn, list) = Missing(list)
  BY <1>2, OneOfEach DEF Swarm!Missing, Missing, KnownPieces
<1>4. CASE /\ pieces_downloaded' = TotalPieces \/ Missing(list) = {}
           /\ stopped' = (pieces_downloaded' = TotalPieces)
           /\ piece_checklist' = list
           /\ active_piece' = NoPiece
  BY <1>2, <1>3, <1>4, OneOfEach DEF Swarm!request_work
<1>5. CASE /\ pieces_downloaded' # TotalPieces
           /\ UNCHANGED stopped
           /\ \E p \in Missing(list) :
                /\ \A other \in Missing(list) : p <= other
                /\ piece_checklist' = [list EXCEPT ![p] = TRUE]
                /\ active_piece' = p
  <2>1. PICK p \in Missing(list) :
                /\ \A other \in Missing(list) : p <= other
                /\ piece_checklist' = [list EXCEPT ![p] = TRUE]
                /\ active_piece' = p
    BY <1>5
  <2>2. Missing(list) \subseteq Nat
    BY PiecesTyped DEF Missing
  <2>3. Swarm!Lowest(Missing(list)) = p
    BY <2>1, <2>2 DEF Swarm!Lowest
  <2>4. Missing(list) # {}
    BY <2>1
  <2> QED
    BY <1>2, <1>3, <1>5, <2>1, <2>3, <2>4 DEF Swarm!request_work
<1> QED
  BY <1>4, <1>5 DEF request_work

-----------------------------------------------------------------------------
(* The handlers.                                                           *)

\* A handler that runs has a connection that was made.
LEMMA HandlerRuns ==
  ASSUME LinkInv, Runs, chain # "none" \/ writes # 0 \/ doomed # 0
  PROVE  socket # "none" /\ Swarm!LoopRuns /\ ~ Gone
BY DEF LinkInv, Runs, MainView, Swarm!LoopRuns, Gone

\* Most handlers leave the loop, the pool and the board as they are.
LEMMA MainFrame ==
  ASSUME socket # "none", UNCHANGED <<socket, thrown>>
  PROVE  UNCHANGED MainView
BY DEF MainView

\* An open connection that stays open leaves the pool alone.
LEMMA PoolFrame ==
  ASSUME UNCHANGED <<socket, disconnects>>
  PROVE  UNCHANGED <<Swarm!pool, [w \in Worker |-> socket]>>
BY DEF PoolView, Swarm!pool

\* The fields of a connection that is not gone are what they are in PeerClient.
LEMMA WorkFrame ==
  ASSUME ~ Gone, ~ Gone'
  PROVE  /\ UNCHANGED active_piece =>
              UNCHANGED [w \in Worker |-> HeldView]
         /\ UNCHANGED peer_bitfield =>
              UNCHANGED [w \in Worker |-> KnownView]
         /\ [w \in Worker |-> HeldView]' =
              [w \in Worker |-> active_piece']
         /\ [w \in Worker |-> KnownView]' =
              [w \in Worker |-> KnownPieces']
BY KnownFrame DEF HeldView, KnownView

\* A handler that changes nothing but its read chain.
LEMMA MessagePassed ==
  ASSUME LinkInv, Runs, chain \in {"header", "payload"},
         Then("header") \/ Then("payload"),
         UNCHANGED <<socket, thrown, writes, doomed, active_piece, peer_bitfield,
                     manager>>
  PROVE  Swarm!OtherMessage(Conn)
<1>1. socket # "none" /\ Swarm!LoopRuns /\ ~ Gone
  BY HandlerRuns
<1>2. chain' # "none"
  BY DEF Then
<1>3. ~ Gone'
  BY <1>2 DEF Gone
<1>4. Swarm!Pending(Conn, "message")
  BY <1>1, OneOfEach DEF Swarm!Pending, ReadingView
<1>5. Swarm!ReadNext(Conn)
  BY ReadsOn
<1>6. UNCHANGED <<MainView, Swarm!pool, [w \in Worker |-> socket]>>
  BY <1>1, MainFrame, PoolFrame DEF manager
<1>7. UNCHANGED <<[w \in Worker |-> HeldView],
                  [w \in Worker |-> KnownView]>>
  BY <1>1, <1>3, WorkFrame
<1>8. UNCHANGED <<stopped, Swarm!board, [w \in Worker |-> writes],
                  [w \in Worker |-> doomed]>>
  BY DEF manager, Swarm!board
<1> QED
  BY <1>4, <1>5, <1>6, <1>7, <1>8 DEF Swarm!OtherMessage

\* handle_connect.
LEMMA Connected ==
  ASSUME LinkInv, handle_connect
  PROVE  Swarm!Connects(Conn)
<1>1. /\ Runs /\ chain = "connect" /\ chain' = "handshake"
      /\ UNCHANGED <<socket, thrown, sending, fetch, peer_bitfield, manager>>
  BY DEF handle_connect
<1>2. socket # "none" /\ Swarm!LoopRuns /\ ~ Gone /\ ~ Gone'
  BY <1>1, HandlerRuns DEF Gone
<1>3. Swarm!Pending(Conn, "connect")
  BY <1>1, <1>2, OneOfEach DEF Swarm!Pending, ReadingView
<1>4. [w \in Worker |-> ReadingView]' =
        [[w \in Worker |-> ReadingView] EXCEPT ![Conn] = "handshake"]
  BY <1>1, OneOfEach DEF ReadingView
<1>5. UNCHANGED <<MainView, Swarm!pool, [w \in Worker |-> socket]>>
  BY <1>1, <1>2, MainFrame, PoolFrame DEF manager
<1>6. UNCHANGED <<[w \in Worker |-> HeldView],
                  [w \in Worker |-> KnownView]>>
  BY <1>1, <1>2, WorkFrame DEF fetch
<1>7. UNCHANGED <<stopped, Swarm!board, [w \in Worker |-> writes],
                  [w \in Worker |-> doomed]>>
  BY <1>1 DEF manager, sending, Swarm!board
<1> QED
  BY <1>3, <1>4, <1>5, <1>6, <1>7 DEF Swarm!Connects

\* handle_connect, when the write of the handshake throws.
LEMMA HandshakeThrew ==
  ASSUME LinkInv, HandshakeWriteThrows
  PROVE  Swarm!HandshakeWriteThrows(Conn)
<1>1. /\ Runs /\ chain = "connect" /\ thrown' = TRUE
      /\ UNCHANGED <<socket, chain, sending, fetch, peer_bitfield, manager>>
  BY DEF HandshakeWriteThrows
<1>2. socket # "none" /\ Swarm!LoopRuns /\ ~ Gone /\ ~ Gone'
  BY <1>1, HandlerRuns DEF Gone
<1>3. Swarm!Pending(Conn, "connect")
  BY <1>1, <1>2, OneOfEach DEF Swarm!Pending, ReadingView
<1>4. MainView' = "aborted"
  BY <1>1, <1>2 DEF MainView
<1>5. UNCHANGED <<Swarm!pool, [w \in Worker |-> socket]>>
  BY <1>1, PoolFrame DEF manager
<1>6. UNCHANGED <<[w \in Worker |-> HeldView],
                  [w \in Worker |-> KnownView]>>
  BY <1>1, <1>2, WorkFrame DEF fetch
<1>7. UNCHANGED <<stopped, Swarm!board, [w \in Worker |-> ReadingView],
                  [w \in Worker |-> writes], [w \in Worker |-> doomed]>>
  BY <1>1 DEF manager, sending, Swarm!board, ReadingView
<1> QED
  BY <1>3, <1>4, <1>5, <1>6, <1>7 DEF Swarm!HandshakeWriteThrows, Swarm!conn

\* handle_handshake_read.
LEMMA HandshakeCame ==
  ASSUME LinkInv, handle_handshake_read
  PROVE  Swarm!HandshakeRead(Conn)
<1>1. /\ Runs /\ chain = "handshake" /\ Then("header")
      /\ UNCHANGED <<socket, thrown, sending, fetch, peer_bitfield, manager>>
  BY DEF handle_handshake_read
<1>2. socket # "none" /\ Swarm!LoopRuns /\ ~ Gone /\ ~ Gone'
  BY <1>1, HandlerRuns DEF Gone, Then
<1>3. Swarm!Pending(Conn, "handshake")
  BY <1>1, <1>2, OneOfEach DEF Swarm!Pending, ReadingView
<1>4. Swarm!ReadNext(Conn)
  BY <1>1, ReadsOn
<1>5. UNCHANGED <<MainView, Swarm!pool, [w \in Worker |-> socket]>>
  BY <1>1, <1>2, MainFrame, PoolFrame DEF manager
<1>6. UNCHANGED <<[w \in Worker |-> HeldView],
                  [w \in Worker |-> KnownView]>>
  BY <1>1, <1>2, WorkFrame DEF fetch
<1>7. UNCHANGED <<stopped, Swarm!board, [w \in Worker |-> writes],
                  [w \in Worker |-> doomed]>>
  BY <1>1 DEF manager, sending, Swarm!board
<1> QED
  BY <1>3, <1>4, <1>5, <1>6, <1>7 DEF Swarm!HandshakeRead

\* The read chain ends, at whatever operation.
LEMMA ReadFailed ==
  ASSUME TypeOK, LinkInv, ReadFails
  PROVE  Swarm!ConnectFails(Conn) \/ Swarm!HandshakeFails(Conn) \/ Swarm!ReadFails(Conn)
<1>1. /\ Runs /\ chain # "none" /\ disconnect("none")
      /\ UNCHANGED <<sending, fetch, peer_bitfield, thrown, on_disk,
                     pieces_downloaded, stopped>>
      /\ socket' = "closed" /\ chain' = "none"
  BY DEF ReadFails, disconnect
<1>2. socket # "none" /\ Swarm!LoopRuns /\ ~ Gone
  BY <1>1, HandlerRuns
<1>3. Swarm!disconnect(Conn, "none")
  <2>1. ReadingView' = "none"
    BY <1>1 DEF ReadingView
  <2> QED
    BY <1>1, <1>2, <2>1, HungUp
<1>4. UNCHANGED <<MainView, stopped, pieces_downloaded, on_disk,
                  [w \in Worker |-> writes], [w \in Worker |-> doomed]>>
  BY <1>1, <1>2 DEF MainView, sending
<1>5. CASE chain \in {"connect", "handshake"}
  <2>1. /\ active_piece = NoPiece /\ peer_bitfield = << >> /\ Gone'
        /\ UNCHANGED <<active_piece, peer_bitfield>>
    BY <1>1, <1>5 DEF LinkInv, Gone, sending, fetch
  <2>2. UNCHANGED <<[w \in Worker |-> HeldView],
                    [w \in Worker |-> KnownView]>>
    BY <1>2, <2>1, NothingKnown DEF HeldView, KnownView
  <2>3. Swarm!Pending(Conn, chain)
    BY <1>2, <1>5, OneOfEach DEF Swarm!Pending, ReadingView
  <2> QED
    BY <1>3, <1>4, <1>5, <2>2, <2>3 DEF Swarm!ConnectFails, Swarm!HandshakeFails
<1>6. CASE chain \notin {"connect", "handshake"}
  <2>1. ReadingView \in {"message", "dead"}
    BY <1>1, <1>6 DEF TypeOK, ReadingView
  <2>2. Swarm!Pending(Conn, "message") \/ Swarm!Pending(Conn, "dead")
    BY <1>2, <2>1, OneOfEach DEF Swarm!Pending
  <2>3. Swarm!Release(Conn)
    BY <1>1, <1>2, Kept DEF fetch
  <2> QED
    BY <1>3, <1>4, <2>2, <2>3 DEF Swarm!ReadFails
<1> QED
  BY <1>5, <1>6

\* What the handlers of messages have in common: the connection has a message pending
\* and reads on, so it is not gone.
LEMMA MessageComes ==
  ASSUME LinkInv, Runs, chain = "payload"
  PROVE  /\ socket # "none" /\ Swarm!LoopRuns /\ ~ Gone /\ Swarm!Pending(Conn, "message")
         /\ [w \in Worker |-> HeldView][Conn] = active_piece
<1>1. socket # "none" /\ Swarm!LoopRuns /\ ~ Gone
  BY HandlerRuns
<1> QED
  BY <1>1, OneOfEach DEF Swarm!Pending, ReadingView, HeldView

\* Message 0.
LEMMA Choked ==
  ASSUME LinkInv, NEW n, Choke(n)
  PROVE  Swarm!Choke(Conn)
<1>1. /\ Runs /\ chain = "payload" /\ Then("header") /\ chain' # "none"
      /\ piece_checklist' = Requeued /\ active_piece' = NoPiece
      /\ UNCHANGED <<socket, thrown, writes, doomed, peer_bitfield, on_disk,
                     pieces_downloaded, stopped, disconnects>>
  BY DEF Choke, Message, Then
<1>2. /\ socket # "none" /\ ~ Gone /\ ~ Gone' /\ Swarm!Pending(Conn, "message")
      /\ [w \in Worker |-> HeldView][Conn] = active_piece
  BY <1>1, MessageComes DEF Gone
<1>3. piece_checklist' = Swarm!Requeued(Conn)
  BY <1>1, <1>2, OneOfEach DEF Requeued, Swarm!Requeued
<1>4. [w \in Worker |-> HeldView]' =
        [[w \in Worker |-> HeldView] EXCEPT ![Conn] = NoPiece]
  BY <1>1, <1>2, OneOfEach DEF HeldView
<1>5. Swarm!ReadNext(Conn)
  BY <1>1, ReadsOn
<1>6. UNCHANGED <<MainView, Swarm!pool, [w \in Worker |-> socket]>>
  BY <1>1, <1>2, MainFrame, PoolFrame
<1>7. UNCHANGED [w \in Worker |-> KnownView]
  BY <1>1, <1>2, WorkFrame
<1> QED
  BY <1>1, <1>2, <1>3, <1>4, <1>5, <1>6, <1>7, OneOfEach DEF Swarm!Choke

\* Message 1.
LEMMA Unchoked ==
  ASSUME TypeOK, LinkInv, Unchoke
  PROVE  Swarm!Unchoke(Conn) \/ Swarm!OtherMessage(Conn)
<1>1. /\ Runs /\ chain = "payload" /\ Then("header") /\ chain' # "none"
      /\ UNCHANGED <<socket, thrown, peer_bitfield, on_disk, pieces_downloaded,
                     disconnects>>
      /\ stopped = FALSE
  BY DEF Unchoke, Message, Then, Runs, TypeOK
<1>2. /\ socket # "none" /\ ~ Gone /\ ~ Gone' /\ Swarm!Pending(Conn, "message")
      /\ [w \in Worker |-> HeldView][Conn] = active_piece
  BY <1>1, MessageComes DEF Gone
<1>3. CASE active_piece = NoPiece
  <2>1. request_work(piece_checklist, bytes_requested, bytes_downloaded,
                     current_piece_buffer, asked, << >>)
    BY <1>3 DEF Unchoke
  <2>2. Swarm!request_work(Conn, piece_checklist)
    BY <1>1, <1>2, <2>1, WorkAsked
  <2>3. PICK reqs \in Seq(Request) :
          request_blocks(asked, reqs) /\ (active_piece' = NoPiece => reqs = << >>)
    <3> DEFINE none == << >>
               from == bytes_requested
    <3>1. from \in 0 .. PieceLength /\ none \in Seq(Request)
      BY DEF TypeOK
    <3>2. request_work(piece_checklist, from, bytes_downloaded, current_piece_buffer,
                       asked, none)
      BY <2>1
    <3> HIDE DEF none, from
    <3>3. \E reqs \in Seq(Request) :
            request_blocks(asked, reqs) /\ (active_piece' = NoPiece => reqs = none)
      BY <3>1, <3>2, WorkWrites
    <3> QED
      BY <3>3 DEF none
  <2>4. Swarm!StartWrites(Conn)
    BY <2>3, WritesStarted
  <2>5. active_piece' = NoPiece => UNCHANGED <<writes, doomed>>
    BY <2>3, NothingWritten
  <2>6. [w \in Worker |-> HeldView]'[Conn] = active_piece'
    BY <1>2, OneOfEach DEF HeldView
  <2>7. Swarm!ReadNext(Conn)
    BY <1>1, ReadsOn
  <2>8. UNCHANGED <<MainView, Swarm!pool, [w \in Worker |-> socket]>>
    BY <1>1, <1>2, MainFrame, PoolFrame
  <2>9. UNCHANGED [w \in Worker |-> KnownView]
    BY <1>1, <1>2, WorkFrame
  <2> QED
    BY <1>1, <1>2, <1>3, <2>2, <2>4, <2>5, <2>6, <2>7, <2>8, <2>9, OneOfEach
    DEF Swarm!Unchoke
<1>4. CASE active_piece # NoPiece
  <2>1. UNCHANGED <<socket, thrown, writes, doomed, active_piece, peer_bitfield, manager>>
    BY <1>1, <1>4 DEF Unchoke, fetch, sending, manager
  <2> QED
    BY <1>1, <2>1, MessagePassed
<1> QED
  BY <1>3, <1>4

\* Messages 4 and 5.
LEMMA Announced ==
  ASSUME LinkInv, Runs, chain = "payload", Then("header"),
         UNCHANGED <<socket, thrown, sending, fetch, manager>>
  PROVE  \E S \in SUBSET Piece : Swarm!Announce(Conn, S)
<1>1. chain' # "none"
  BY DEF Then
<1>2. socket # "none" /\ ~ Gone /\ ~ Gone' /\ Swarm!Pending(Conn, "message")
  BY <1>1, MessageComes DEF Gone
<1>3. KnownPieces' \in SUBSET Piece
  BY DEF KnownPieces
<1>4. [w \in Worker |-> KnownView]' =
        [[w \in Worker |-> KnownView] EXCEPT ![Conn] = KnownPieces']
  BY <1>2, OneOfEach DEF KnownView
<1>5. Swarm!ReadNext(Conn)
  BY ReadsOn
<1>6. UNCHANGED <<MainView, Swarm!pool, [w \in Worker |-> socket]>>
  BY <1>2, MainFrame, PoolFrame DEF manager
<1>7. UNCHANGED [w \in Worker |-> HeldView]
  BY <1>2, WorkFrame DEF fetch
<1>8. UNCHANGED <<stopped, Swarm!board, [w \in Worker |-> writes],
                  [w \in Worker |-> doomed]>>
  BY DEF manager, sending, Swarm!board
<1>9. Swarm!Announce(Conn, KnownPieces')
  BY <1>2, <1>4, <1>5, <1>6, <1>7, <1>8 DEF Swarm!Announce
<1> QED
  BY <1>3, <1>9

\* The handler of a written request.
LEMMA Written ==
  ASSUME TypeOK, LinkInv, RequestWritten
  PROVE  Swarm!WriteDone(Conn)
<1>1. /\ Runs /\ writes > 0 /\ writes' = writes - 1 /\ writes \in Nat
      /\ UNCHANGED <<socket, chain, thrown, doomed, fetch, peer_bitfield, manager>>
  <2>1. Len(late) \in Nat /\ writes \in Nat
    BY LenProperties, PeerAssumption DEF TypeOK
  <2> QED
    BY <2>1 DEF RequestWritten, conn
<1>2. socket # "none" /\ Swarm!LoopRuns /\ ~ Gone
  BY <1>1, HandlerRuns
<1>3. [w \in Worker |-> writes]' =
              [[w \in Worker |-> writes] EXCEPT ![Conn] = @ - 1]
  BY <1>1, OneOfEach
<1>4. Swarm!Release(Conn)
  BY <1>1, <1>2, Kept DEF fetch
<1>5. UNCHANGED <<MainView, Swarm!pool, [w \in Worker |-> socket]>>
  BY <1>1, <1>2, MainFrame, PoolFrame DEF manager
<1>6. UNCHANGED <<stopped, Swarm!board, [w \in Worker |-> ReadingView],
                  [w \in Worker |-> doomed]>>
  BY <1>1 DEF manager, Swarm!board, ReadingView
<1> QED
  BY <1>1, <1>2, <1>3, <1>4, <1>5, <1>6, OneOfEach DEF Swarm!WriteDone

\* The handler of a request that could not be written.
LEMMA WriteFailed ==
  ASSUME TypeOK, LinkInv, RequestFails
  PROVE  Swarm!WriteFails(Conn)
<1>1. /\ Runs /\ disconnect(chain) /\ writes \in Nat /\ doomed \in Nat
      /\ \/ writes > 0 /\ writes' = writes - 1 /\ doomed' = doomed
         \/ doomed > 0 /\ doomed' = doomed - 1 /\ writes' = writes
      /\ UNCHANGED <<fetch, peer_bitfield>>
  BY PeerAssumption DEF RequestFails, TypeOK
<1>2. /\ socket' = "closed" /\ chain' = chain
      /\ UNCHANGED <<thrown, on_disk, pieces_downloaded, stopped>>
  BY <1>1 DEF disconnect
<1>3. socket # "none" /\ Swarm!LoopRuns /\ ~ Gone
  BY <1>1, HandlerRuns
<1>4. Swarm!disconnect(Conn, [w \in Worker |-> ReadingView][Conn])
  <2>1. ReadingView' = ReadingView /\ [w \in Worker |-> ReadingView][Conn] = ReadingView
    BY <1>2, OneOfEach DEF ReadingView
  <2>2. Swarm!disconnect(Conn, ReadingView')
    BY <1>1, <1>3, HungUp
  <2> QED
    BY <2>1, <2>2
<1>5. \/ /\ [w \in Worker |-> writes][Conn] > 0
         /\ [w \in Worker |-> writes]' =
              [[w \in Worker |-> writes] EXCEPT ![Conn] = @ - 1]
         /\ UNCHANGED [w \in Worker |-> doomed]
      \/ /\ [w \in Worker |-> doomed][Conn] > 0
         /\ [w \in Worker |-> doomed]' =
              [[w \in Worker |-> doomed] EXCEPT ![Conn] = @ - 1]
         /\ UNCHANGED [w \in Worker |-> writes]
  BY <1>1, OneOfEach
<1>6. Swarm!Release(Conn)
  BY <1>1, <1>3, Kept DEF fetch
<1>7. UNCHANGED <<MainView, stopped, pieces_downloaded, on_disk>>
  BY <1>2, <1>3 DEF MainView
<1> QED
  BY <1>3, <1>4, <1>5, <1>6, <1>7 DEF Swarm!WriteFails

\* A piece is complete: it is stored, or cannot be, or is not what it should be, or
\* there is no hash to compare it with.
LEMMA Submitted ==
  ASSUME TypeOK, LinkInv, Runs, chain = "payload", active_piece # NoPiece,
         UNCHANGED peer_bitfield, NEW got, NEW buf,
         NEW q, NEW first \in Seq(Request), submit_piece(got, buf, q, first)
  PROVE  \/ Swarm!PieceStored(Conn) \/ Swarm!PieceNotStored(Conn)
         \/ Swarm!PieceCorrupt(Conn) \/ Swarm!HashThrows(Conn)
<1>1. /\ socket # "none" /\ ~ Gone /\ Swarm!Pending(Conn, "message") /\ stopped = FALSE
      /\ [w \in Worker |-> HeldView][Conn] = active_piece
      /\ Swarm!Complete(Conn)
      /\ HasHash(active_piece) <=> Swarm!HasHash([w \in Worker |-> HeldView][Conn])
  <2>1. /\ socket # "none" /\ ~ Gone /\ Swarm!Pending(Conn, "message")
        /\ stopped = FALSE
        /\ [w \in Worker |-> HeldView][Conn] = active_piece
    BY MessageComes DEF Runs, TypeOK
  <2> QED
    BY <2>1, OneOfEach DEF Swarm!Complete, HasHash, Swarm!HasHash
<1>2. ASSUME NEW list, request_work(list, 0, got, buf, q, first), Then("header"),
             UNCHANGED <<socket, thrown, disconnects>>
      PROVE  /\ Swarm!request_work(Conn, list) /\ Swarm!StartWrites(Conn)
             /\ Swarm!ReadNext(Conn)
             /\ UNCHANGED <<MainView, Swarm!pool, [w \in Worker |-> socket],
                            [w \in Worker |-> KnownView]>>
  <2>1. chain' # "none"
    BY <1>2 DEF Then
  <2>2. ~ Gone'
    BY <2>1 DEF Gone
  <2>3. Swarm!request_work(Conn, list)
    BY <1>1, <1>2, <2>1, WorkAsked
  <2>4. Swarm!StartWrites(Conn)
    <3> DEFINE from == 0
    <3>1. from \in 0 .. PieceLength /\ request_work(list, from, got, buf, q, first)
      BY <1>2, PeerAssumption
    <3> HIDE DEF from
    <3>2. PICK reqs \in Seq(Request) : request_blocks(q, reqs)
      BY <3>1, WorkWrites
    <3> QED
      BY <3>2, WritesStarted
  <2>5. Swarm!ReadNext(Conn)
    BY <1>2, ReadsOn
  <2>6. UNCHANGED <<MainView, Swarm!pool, [w \in Worker |-> socket]>>
    BY <1>1, <1>2, MainFrame, PoolFrame
  <2>7. UNCHANGED [w \in Worker |-> KnownView]
    BY <1>1, <2>2, WorkFrame
  <2> QED
    BY <2>3, <2>4, <2>5, <2>6, <2>7
<1>3. CASE /\ HasHash(active_piece)
           /\ pieces_downloaded' = pieces_downloaded + 1
           /\ on_disk' = on_disk \cup {active_piece}
           /\ request_work(piece_checklist, 0, got, buf, q, first)
           /\ Then("header") /\ UNCHANGED <<socket, thrown, disconnects>>
  BY <1>1, <1>2, <1>3, OneOfEach DEF Swarm!PieceStored
<1>4. CASE /\ HasHash(active_piece)
           /\ UNCHANGED <<pieces_downloaded, on_disk>>
           /\ request_work(Requeued, 0, got, buf, q, first)
           /\ Then("header") /\ UNCHANGED <<socket, thrown, disconnects>>
  <2>1. Requeued = Swarm!Requeued(Conn)
    BY <1>1, OneOfEach DEF Requeued, Swarm!Requeued
  <2> QED
    BY <1>1, <1>2, <1>4, <2>1, OneOfEach DEF Swarm!PieceNotStored
<1>5. CASE /\ HasHash(active_piece)
           /\ active_piece' = NoPiece /\ request_blocks(q, first) /\ disconnect("dead")
  <2>1. socket' = "closed" /\ chain' = "dead" /\ ReadingView' = "dead" /\ ~ Gone'
    BY <1>5 DEF disconnect, ReadingView, Gone
  <2>2. Swarm!disconnect(Conn, "dead")
    BY <1>1, <1>5, <2>1, HungUp
  <2>3. Swarm!StartWrites(Conn)
    BY <1>5, WritesStarted
  <2>4. UNCHANGED <<MainView, stopped, pieces_downloaded, on_disk>>
    BY <1>1, <1>5, <2>1 DEF disconnect, MainView
  <2>5. UNCHANGED [w \in Worker |-> KnownView]
    BY <1>1, <2>1, WorkFrame
  <2>6. [w \in Worker |-> HeldView]' =
          [[w \in Worker |-> HeldView]
             EXCEPT ![Conn] = NoPiece]
    BY <1>1, <1>5, <2>1, OneOfEach DEF HeldView
  <2> QED
    BY <1>1, <1>5, <2>2, <2>3, <2>4, <2>5, <2>6, OneOfEach DEF Swarm!PieceCorrupt
<1>6. CASE /\ ~ HasHash(active_piece)
           /\ active_piece' = NoPiece /\ request_blocks(q, first)
           /\ thrown' = TRUE /\ UNCHANGED <<socket, chain, manager>>
  <2>1. ~ Gone' /\ MainView' = "aborted"
    BY <1>1, <1>6 DEF Gone, MainView
  <2>2. Swarm!StartWrites(Conn)
    BY <1>6, WritesStarted
  <2>3. UNCHANGED <<stopped, Swarm!pool, Swarm!board, [w \in Worker |-> socket],
                    [w \in Worker |-> ReadingView]>>
    BY <1>6, PoolFrame DEF manager, Swarm!board, ReadingView
  <2>4. UNCHANGED [w \in Worker |-> KnownView]
    BY <1>1, <2>1, WorkFrame
  <2>5. [w \in Worker |-> HeldView]' =
          [[w \in Worker |-> HeldView]
             EXCEPT ![Conn] = NoPiece]
    BY <1>1, <1>6, <2>1, OneOfEach DEF HeldView
  <2> QED
    BY <1>1, <1>6, <2>1, <2>2, <2>3, <2>4, <2>5, OneOfEach DEF Swarm!HashThrows
<1> QED
  BY <1>3, <1>4, <1>5, <1>6 DEF submit_piece

\* Message 7.
LEMMA BlockCame ==
  ASSUME TypeOK, LinkInv, NEW i \in DOMAIN asked, NEW quality \in {"good", "bad"},
         Block(i, quality)
  PROVE  Swarm!Message(Conn)
<1> DEFINE r == asked[i]
           q == SubSeq(asked, 1, i - 1) \o SubSeq(asked, i + 1, Len(asked))
           next == Ask(active_piece, current_piece_length, bytes_requested, 1)
<1>1. /\ Runs /\ chain = "payload" /\ UNCHANGED peer_bitfield
      /\ socket # "none" /\ ~ Gone /\ Swarm!Pending(Conn, "message")
      /\ [w \in Worker |-> HeldView][Conn] = active_piece
  <2>1. Runs /\ chain = "payload" /\ UNCHANGED peer_bitfield
    BY DEF Block, Message
  <2> QED
    BY <2>1, MessageComes
<1>2. r.piece = active_piece => active_piece # NoPiece /\ next.requests \in Seq(Request)
  <2> SUFFICES ASSUME r.piece = active_piece
               PROVE  active_piece # NoPiece /\ next.requests \in Seq(Request)
    OBVIOUS
  <2>1. FetchTyped /\ SendTyped
    BY TypeParts DEF PartsTyped
  <2>2. r \in Request
    <3>1. asked \in Seq(Request)
      BY <2>1 DEF SendTyped
    <3>2. i \in 1 .. Len(asked)
      BY <3>1, LenProperties
    <3> QED
      BY <3>1, <3>2, ElementOfSeq
  <2>3. active_piece \in Piece
    BY <2>2 DEF Request
  <2>4. active_piece # NoPiece
    BY <2>3, PiecesTyped DEF NoPiece
  <2> QED
    BY <2>1, <2>3, <2>4, AskTyped DEF FetchTyped
<1>3. \/ /\ asked' = q
         /\ Then("header")
         /\ UNCHANGED <<socket, thrown, writes, doomed, late, fetch, manager>>
      \/ /\ r.piece = active_piece
         /\ request_blocks(q, next.requests)
         /\ Then("header")
         /\ UNCHANGED <<socket, thrown, active_piece, current_piece_length, manager>>
      \/ /\ r.piece = active_piece
         /\ submit_piece(Counted(r), Copied(r, quality), q, next.requests)
  BY DEF Block
<1> HIDE DEF r, q, next
<1>4. CASE /\ Then("header")
           /\ UNCHANGED <<socket, thrown, writes, doomed, late, fetch, manager>>
  <2>1. Swarm!OtherMessage(Conn)
    BY <1>1, <1>4, MessagePassed DEF fetch
  <2> QED
    BY <2>1 DEF Swarm!Message
<1>5. CASE /\ r.piece = active_piece
           /\ request_blocks(q, next.requests)
           /\ Then("header")
           /\ UNCHANGED <<socket, thrown, active_piece, current_piece_length, manager>>
  <2>1. ~ Gone'
    BY <1>5 DEF Then, Gone
  <2>2. Swarm!StartWrites(Conn)
    BY <1>2, <1>5, WritesStarted
  <2>3. Swarm!ReadNext(Conn)
    BY <1>5, ReadsOn
  <2>4. UNCHANGED <<MainView, Swarm!pool, [w \in Worker |-> socket]>>
    BY <1>1, <1>5, MainFrame, PoolFrame DEF manager
  <2>5. UNCHANGED <<[w \in Worker |-> HeldView],
                    [w \in Worker |-> KnownView]>>
    BY <1>1, <1>5, <2>1, WorkFrame
  <2>6. UNCHANGED <<stopped, Swarm!board>>
    BY <1>5 DEF manager, Swarm!board
  <2>7. Swarm!Block(Conn)
    BY <1>1, <1>2, <1>5, <2>2, <2>3, <2>4, <2>5, <2>6, OneOfEach DEF Swarm!Block
  <2> QED
    BY <2>7 DEF Swarm!Message
<1>6. CASE /\ r.piece = active_piece
           /\ submit_piece(Counted(r), Copied(r, quality), q, next.requests)
  <2>1. \/ Swarm!PieceStored(Conn) \/ Swarm!PieceNotStored(Conn)
        \/ Swarm!PieceCorrupt(Conn) \/ Swarm!HashThrows(Conn)
    BY <1>1, <1>2, <1>6, Submitted
  <2> QED
    BY <2>1 DEF Swarm!Message
<1> QED
  BY <1>3, <1>4, <1>5, <1>6

-----------------------------------------------------------------------------
(* The steps.                                                              *)

\* LinkInv speaks of the time before the first message.
LEMMA LinkLater ==
  socket' # "none" /\ chain' \notin {"connect", "handshake"} => LinkInv'
BY DEF LinkInv

\* Every step of a connection without other workers keeps LinkInv.
LEMMA StepLink ==
  ASSUME "others" \notin Env, TypeOK, LinkInv, [Next]_vars
  PROVE  LinkInv'
<1>1. CASE UNCHANGED vars \/ Silence
  BY <1>1 DEF Silence, vars, conn, sending, fetch, manager, LinkInv
<1>2. CASE start \/ handle_connect \/ HandshakeWriteThrows
  BY <1>2 DEF start, handle_connect, HandshakeWriteThrows, sending, fetch,
              manager, LinkInv
<1>3. CASE \/ handle_handshake_read \/ handle_message_header \/ Unchoke \/ OtherMessage
           \/ \E n \in 0 .. Len(asked) : Choke(n)
           \/ \E n \in Haves : Have(n)
           \/ \E bits \in Bitfields : Bitfield(bits)
  <2>1. chain # "none" /\ socket' = socket /\ (Then("header") \/ Then("payload"))
    BY <1>3
    DEF handle_handshake_read, handle_message_header, Unchoke, OtherMessage, Choke,
        Have, Bitfield, Message
  <2>2. socket' # "none" /\ chain' \in {"header", "payload", "dead"}
    BY <2>1 DEF LinkInv, Then
  <2> QED
    BY <2>2, LinkLater
<1>4. CASE \E i \in DOMAIN asked, quality \in {"good", "bad"} : Block(i, quality)
  <2>1. /\ chain # "none" /\ socket' \in {socket, "closed"}
        /\ chain' \in {"header", "payload", "dead"}
    BY <1>4 DEF Block, Message, submit_piece, disconnect, Then
  <2>2. socket' # "none"
    BY <2>1 DEF LinkInv
  <2> QED
    BY <2>1, <2>2, LinkLater
<1>5. CASE ReadFails
  <2>1. socket' = "closed" /\ chain' = "none"
    BY <1>5 DEF ReadFails, disconnect
  <2> QED
    BY <2>1, LinkLater
<1>6. CASE RequestWritten
  <2>1. writes # 0 /\ UNCHANGED <<socket, chain>>
    <3>1. Len(late) \in Nat /\ writes \in Nat
      BY LenProperties, PeerAssumption DEF TypeOK
    <3> QED
      BY <1>6, <3>1 DEF RequestWritten, conn
  <2>2. socket' # "none" /\ chain' \notin {"connect", "handshake"}
    BY <2>1 DEF LinkInv
  <2> QED
    BY <2>2, LinkLater
<1>7. CASE RequestFails
  <2>1. (writes # 0 \/ doomed # 0) /\ socket' = "closed" /\ chain' = chain
    BY <1>7 DEF RequestFails, disconnect
  <2>2. chain \notin {"connect", "handshake"}
    BY <2>1 DEF LinkInv
  <2> QED
    BY <2>1, <2>2, LinkLater
<1>8. CASE LateWrite
  BY <1>8 DEF LateWrite, conn, fetch, manager, LinkInv
<1>9. \A p \in Piece : ~ OthersWork(p)
  BY DEF OthersWork
<1> QED
  BY <1>1, <1>2, <1>3, <1>4, <1>5, <1>6, <1>7, <1>8, <1>9 DEF Next

\* What the swarm sees of a connection.
LEMMA SwarmFrame ==
  ASSUME UNCHANGED <<socket, chain, thrown, writes, doomed, active_piece, peer_bitfield,
                     manager, hashes>>
  PROVE  UNCHANGED Swarm!vars
<1>1. UNCHANGED <<Gone, ReadingView, PoolView, MainView, KnownPieces>>
  BY KnownFrame DEF Gone, ReadingView, PoolView, MainView, manager
<1> QED
  BY <1>1
  DEF manager, Swarm!vars, Swarm!pool, Swarm!board, Swarm!conn, HeldView, KnownView

\* Every step of the connection is one of the swarm, or none.
LEMMA StepMaps ==
  ASSUME "others" \notin Env, TotalPieces # 0, TypeOK, LinkInv, [Next]_vars
  PROVE  [Swarm!Next]_(Swarm!vars)
<1>0. UNCHANGED hashes
  BY DEF Next, vars
<1>1. CASE UNCHANGED vars \/ Silence
  BY <1>0, <1>1, SwarmFrame DEF Silence, vars, conn, sending, fetch
<1>2. CASE start
  BY <1>0, <1>2, Dialled DEF Swarm!Next
<1>3. Conn \in Swarm!Worker
  BY OneOfEach
<1>4. ASSUME Swarm!Handler(Conn)
      PROVE  Swarm!Next
  BY <1>0, <1>3, <1>4 DEF Swarm!Next
<1>5. CASE handle_connect
  BY <1>4, <1>5, Connected DEF Swarm!Handler
<1>6. CASE HandshakeWriteThrows
  BY <1>4, <1>6, HandshakeThrew DEF Swarm!Handler
<1>7. CASE handle_handshake_read
  BY <1>4, <1>7, HandshakeCame DEF Swarm!Handler
<1>8. CASE ReadFails
  BY <1>4, <1>8, ReadFailed DEF Swarm!Handler
<1>9. ASSUME Swarm!Message(Conn)
      PROVE  Swarm!Next
  BY <1>4, <1>9 DEF Swarm!Handler
<1>10. CASE handle_message_header \/ OtherMessage
  <2>1. /\ Runs /\ chain \in {"header", "payload"} /\ (Then("header") \/ Then("payload"))
        /\ UNCHANGED <<socket, thrown, writes, doomed, active_piece, peer_bitfield,
                       manager>>
    BY <1>10 DEF handle_message_header, OtherMessage, Message, sending, fetch
  <2> QED
    BY <1>9, <2>1, MessagePassed DEF Swarm!Message
<1>11. CASE \E n \in 0 .. Len(asked) : Choke(n)
  BY <1>9, <1>11, Choked DEF Swarm!Message
<1>12. CASE Unchoke
  BY <1>9, <1>12, Unchoked DEF Swarm!Message
<1>13. CASE (\E n \in Haves : Have(n)) \/ (\E bits \in Bitfields : Bitfield(bits))
  <2>1. /\ Runs /\ chain = "payload" /\ Then("header")
        /\ UNCHANGED <<socket, thrown, sending, fetch, manager>>
    BY <1>13 DEF Have, Bitfield, Message
  <2> QED
    BY <1>9, <2>1, Announced, OneOfEach DEF Swarm!Message
<1>14. CASE \E i \in DOMAIN asked, quality \in {"good", "bad"} : Block(i, quality)
  BY <1>9, <1>14, BlockCame
<1>15. CASE RequestWritten
  BY <1>4, <1>15, Written DEF Swarm!Handler
<1>16. CASE RequestFails
  BY <1>4, <1>16, WriteFailed DEF Swarm!Handler
<1>17. CASE LateWrite
  BY <1>0, <1>17, SwarmFrame DEF LateWrite, conn, fetch
<1>18. \A p \in Piece : ~ OthersWork(p)
  BY DEF OthersWork
<1> QED
  BY <1>1, <1>2, <1>5, <1>6, <1>7, <1>8, <1>10, <1>11, <1>12, <1>13, <1>14, <1>15, <1>16,
     <1>17, <1>18
  DEF Next

\* PeerClient implements SwarmManager: what SwarmManager leaves open about a connection
\* covers what peer.cpp does, for every torrent that has a piece. Without one
\* start_download dials nobody.
THEOREM PeerIsInSwarm ==
  "others" \notin Env /\ TotalPieces # 0 /\ Spec => ImplementsSwarm
<1> SUFFICES ASSUME "others" \notin Env, TotalPieces # 0
             PROVE  Spec => ImplementsSwarm
  OBVIOUS
<1>1. Init => LinkInv
  BY DEF Init, LinkInv
<1>2. TypeOK /\ LinkInv /\ [Next]_vars => LinkInv'
  BY StepLink
<1>3. Init => Swarm!Init
  <2> SUFFICES ASSUME Init
               PROVE  Swarm!Init
    OBVIOUS
  <2>1. /\ MainView = "created" /\ PoolView = "UNTOUCHED" /\ ReadingView = "none"
        /\ KnownPieces = {}
    BY NothingKnown DEF Init, MainView, PoolView, ReadingView
  <2> QED
    BY <2>1, OneOfEach DEF Init, Swarm!Init, HeldView, KnownView, Gone
<1>4. TypeOK /\ LinkInv /\ [Next]_vars => [Swarm!Next]_(Swarm!vars)
  BY StepMaps
<1> QED
  BY <1>1, <1>2, <1>3, <1>4, ConnectionTyped, PTL DEF Spec, ImplementsSwarm, Swarm!Spec
=============================================================================
