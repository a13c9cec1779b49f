# MicroTorrent in TLA+

A TLA+ development of the BitTorrent downloader in `src/`: specifications of its
components, TLC configurations that model-check them on small instances, and
proofs, checked by TLAPS, of what the swarm, its connections, the disk, the tracker
search, the torrent file and the interface keep for every size.

## The system

MicroTorrent reads a `.torrent` file, asks a tracker for peers, and downloads the
torrent's pieces from many peers at a time. It has no tests and no design
documents; what the program says of itself are its comments and log messages, and
the properties below quote those.

| Component | Source (`src/`) | State | Operations |
|---|---|---|---|
| **SwarmManager** | `engine/src/swarm.cpp` | pool of known peers with state and retry count, registered workers, piece checklist, count of pieces stored | `start_download`, `maintain_swarm_strength`, `request_work`, `submit_piece`, `handle_disconnect`, `requeue_piece`, `get_stats` |
| **PeerClient** | `engine/src/peer.cpp` | one connection: socket, the pending operation of its read chain, the peer's bitfield, the piece being fetched with its buffer and two byte counters | completion handlers of connect, handshake, message header and payload (choke, unchoke, have, bitfield, piece, ...), request writes, `fetch_piece_async`, `disconnect` |
| **FileManager** | `engine/src/file_manager.cpp` | the files | construction, `write_piece` |
| **TrackerClient** | `engine/src/tracker.cpp` | none beyond a call | `fetch_peers` over `announce` and `announce_http`; `announce_https` and `announce_udp` are never called |
| **TorrentFile** | `engine/src/torrent.cpp` | trackers, lengths, file list with offsets, piece hashes, info hash | construction from a file, `get_hash_for_piece` |
| **Bencode** | `engine/src/bencode.cpp` | none | recursive parser and encoder |
| **Utilities** | `engine/include/utils.hpp` | none | SHA1, `url_encode`, `read_binary_file` |
| **Logger** | `engine/include/logger.hpp` | last 100 lines, a flag, enabled channels | `debug`, `info`, `error`, `progress`, `get_logs` |
| **UI** | `ui/src/` | active tab, error, the swarm it owns, a detached thread that runs it, the numbers on the dashboard | `AppRunner` (start a download, leave), `TitleScreen` (validate a path), `DashScreen` (draw) |
| **CLI** | `cli/src/main.cpp` | none | a straight line |

### How the parts interact

The CLI (or `AppRunner::start_download`) parses the torrent, calls `fetch_peers`,
constructs a `SwarmManager` and calls `start_download`, which dials peers and then
runs an asio `io_context` on the calling thread (a detached thread in the UI). All
peer connections live in that one event loop: **handlers never overlap, but the
operations of different connections complete in any order**, and so do the read
and the writes of one connection. A `PeerClient` calls its manager (unchoked: I
want work; piece complete; choked: take this piece back; disconnected), and the
manager calls back within the same handler (fetch this piece; disconnect). A
`PeerClient` lives as long as a pending handler holds its `shared_ptr`, which may be
long after the manager has dropped it. `submit_piece` writes to disk synchronously.
In the UI the main thread draws, and reads the swarm's state through
`get_stats` without a lock while the detached thread changes it. `AppRunner` owns
the swarm, the dashboard and the detached thread only point to it.

### What is hard

* **Late completions.** After `disconnect()` closes the socket, every pending request
  write still completes, each with an error and each calling `disconnect()` again,
  with `active_piece_` unchanged: pieces are requeued and failures charged by a
  connection that is long gone.
* **Re-entrancy.** `submit_piece` may disconnect its caller, which then goes on
  reading from the closed socket; `handle_disconnect` dials new peers in the
  handler of an old one.
* **A pipeline across state changes.** Requests, blocks, chokes and unchokes cross
  each other; two byte counters must stay right through it.
* **Partial failure.** A disk write fails midway; a peer sends a corrupt piece; the
  handshake write throws out of the event loop; a tracker answers half.
* **Termination.** The event loop ends when it runs out of work; nothing has a
  timeout.
* **Shared memory.** Two threads use one swarm, and one of them also replaces it,
  destroys it and counts over its vectors while they change.
* **Boundaries.** The last block, the last piece, pieces that span files, empty files.

### What makes each component correct

* SwarmManager: no piece is lost; complete means complete; slots are filled, never
  overdrawn, never leaked; each peer gets its retries and no more; it ends.
* PeerClient: every byte of a piece is asked for and counted once; the request
  window is kept full; a fetch never stalls; what a peer has is known.
* FileManager: a stored piece is in place in every file; nothing else is overwritten.
* TrackerClient: the first answer with peers is used; no usable tracker is skipped.
* TorrentFile and Bencode: what is cut off is refused, what is whole is taken in; the
  info hash is that of the bytes in the file; each piece is compared with its own hash.
* UI: no thread loses its swarm; a start that fails leads back to where the user can try
  again; what is shown follows the download.

## The modules

| Module | Models | Correspondence |
|---|---|---|
| `SwarmManager` | SwarmManager with all its PeerClients, to the piece | Variables carry the names of the fields. A worker `<<e, n>>` is the n-th PeerClient made for pool entry `e`. `reading` is the one pending operation of its read chain; `writes` and `doomed` count its request writes started on an open and on a closed socket. An action is one completion handler with all the calls it makes, so `maintain_swarm_strength` is part of every disconnect. `main` is where `start_download` is. The block that completes a piece is four actions, by what becomes of `submit_piece`: `PieceStored`, `PieceNotStored`, `PieceCorrupt`, `HashThrows`. |
| `PieceBoard` | what a swarm promises about pieces: missing, claimed by somebody, done for good; complete only if all are done | no code: the abstract specification |
| `PeerClient` | one connection to the block and byte, with the manager's answers and the remote peer | Actions are handlers and messages. The remote peer is an environment that answers requests in any order; `Env` says what it and the surroundings may do besides. `asked` holds the requests that are unanswered, `late` those the socket has not taken yet, whose buffer is a destroyed local. A block is put into the buffer and counted before `submit_piece` looks at it, so the counter and the buffer of a piece that was completed stay until the next fetch. |
| `PeerInSwarm` | the composition: PeerClient as an implementation of a swarm of one connection | a refinement mapping from `PeerClient` to `SwarmManager` |
| `FileManager` | the files byte by byte, with `TorrentFile`'s offsets | a byte is named by its position in the torrent; `Unwritten` is what the program has not written: the constructor opens each file to append, which creates a missing one and leaves what an existing one holds. `WritePieceThrows` stops a write anywhere |
| `TrackerClient` | `fetch_peers` and the calls below it | one step per blocking call; a response is known by how much has arrived |
| `Bencode` | the parsers, to the byte | pure operators with the names of the functions; a parser returns the node and the index behind it, or `Throws`. The parsers call each other through `parse`, one recursive function of a parser and an index. A word whose letters the parser does not look at counts as one byte (`Byte`). |
| `TorrentFile` | the constructor and `get_hash_for_piece`, over `Bencode` | variables carry the names of the fields. `Bytes` writes a torrent from its description without the program's encoder; `Init` cuts it off anywhere or leaves a field out. `info_node` is what the code encodes anew. `Load` binds what the parser returns by \E over that one value, so that TLC parses a file once per step. |
| `InfoHash` | the encoder, and what the code applies SHA1 to (`info_slice`) | the encoder is the one recursive operator of the project, over the tree of nodes |
| `AppRunner` | the UI's main thread and the detached thread, composed with `SwarmManager` | `ui` is where the main thread is; `Network` is a step of `SwarmManager`, taken by the detached thread. Managers are numbered, so that a pointer to one that was replaced can be told. `get_stats` looks at one worker per step; if `active_workers_` changes meanwhile the count is `torn`: any number, or a crash. |
| `SwarmManagerProofs` | theorems on `SwarmManager` and `PieceBoard` | see "What is proved" |
| `PeerClientProofs`, `PeerInSwarmProofs` | theorems on `PeerClient`, and that it implements `SwarmManager` | |
| `FileManagerProofs`, `TrackerClientProofs`, `TorrentFileProofs`, `AppRunnerProofs` | theorems on the module each is named after | |
| `NaturalSets` | lemmas on the naturals: a least element, induction, division | no code |
| `MC*` | values for the constants | |

Some definitions stand before another with the remark *Mutant of ...*: they are
plausible mistakes in that definition, and each property of a passing run is known
to fail when one of them takes its place (`mutants` in `PROJECT.json`).

What the two levels of the swarm leave to each other: `SwarmManager` lets a handler
start any number of requests and lets any block complete a piece; `PeerClient` fixes
both. `PeerInSwarm` checks that the former covers the latter, so what holds of
`SwarmManager` holds of swarms of such connections. `disconnect` and
`request_work` appear in both modules, each with the detail of its level.

## Runs

| Run | Instance | What it shows |
|---|---|---|
| `swarm_faults` | 3 peers, 2 slots, 2 pieces, 1 attempt, 1 pending write | with every failure at every point: no piece is lost (`NoPieceLost`), the counter never passes the total nor lags behind the disk (`CounterInStep`), slots are filled and not overdrawn, and "SWARM DEPLETED" only when every peer is dead and no piece is claimed |
| `swarm_retries` | 2 peers, 2 slots, 1 piece, 2 attempts, 1 pending write | registered workers are exactly the open connections; dials keep to the budget although one connection may report its end several times; no peer is forgotten; dead is for good |
| `swarm_settled_writes` | 2 peers (one may have only a part), 2 slots, 2 pieces, 2 attempts, 1 pending write, one or two hashes, connections that end quietly (`QuietFairSpec`), fairness | "DOWNLOAD COMPLETE." means all on disk; a piece is fetched by one connection at a time and never again once stored (`OneFetchPerPiece`); the swarm implements `PieceBoard`; `start_download` ends. With a hash missing, `get_hash_for_piece` throws out of the event loop (`HashThrows`), and the download is never taken for complete |
| `peer_pipeline` | pieces of 5 and 3 bytes, blocks of 2, window 2, no chokes, fairness | every byte is asked for, the window is full, bytes count once, a fetch never stalls; with corruption, a full send buffer, other workers and failures |
| `peer_in_swarm` | the same pieces, one or two hashes, with chokes, corruption, a full send buffer and failures, without other workers | PeerClient implements SwarmManager, also where `submit_piece` throws in the middle of a handler; what is counted of a piece that is still being fetched is less than its length (`TypeOK`) |
| `files_aligned` | 12 bytes in 5 files, one empty; pieces of 4 | stored pieces are in place, with writes that fail anywhere and are repeated |
| `tracker_asks` | 5 trackers (2 http, https, udp, invalid), every list of up to 2 and some of 3, fairness | the first answer with peers is returned, every http tracker is tried before giving up, the search ends |
| `torrent_loads` | 30 torrents: 5 sets of files with empty ones and folders, 3 announce-lists with an empty tier, one hash more than needed or not; cut off at every byte, or without any one of 8 fields | exactly the whole files are loaded; file offsets are contiguous and end at the total; trackers are kept in order; the encoding made anew is the slice of the file; each piece finds its own hash |
| `dashboard` | 2 peers, 2 slots, 2 pieces, 1 attempt, 2 starts, fairness | neither a second start nor Escape takes the swarm away from the thread that runs it, nor leaves the dashboard with another (`SwarmOutlivesThread`); a failed start leads back to the title with its error (`FailureIsShown`); the progress never falls; completion comes to be shown |

Three runs end in a counterexample, in which the code does other than it says:

| Run | What happens |
|---|---|
| `swarm_premature` | A request write that fails late requeues a piece which another worker holds or stored. The piece is stored twice and counted twice, and "DOWNLOAD COMPLETE." (`swarm.cpp:88`) is logged with a piece missing. `swarm_settled_writes` shows that it takes a second report of one disconnect; pending writes by themselves do no harm. |
| `peer_stale_window` | After a choke the next fetch starts at the old `bytes_requested_`; the piece's first bytes are never asked for. |
| `files_short_tail` | A last piece shorter than the others is written at `index * its own size`. Every torrent whose length is no multiple of the piece length is affected. |

Further configurations in this directory, which are not among the runs, reach
counterexamples too. Run them as `tlc -config <name>.cfg MC<module>.tla`.

| Configuration | Property | What happens |
|---|---|---|
| `swarm_shared_ip` | `NoPeerForgotten` | Of two pool entries with one address and different ports, `handle_disconnect` charges the first for both (`swarm.cpp:173`); the second stays CONNECTING for ever, although "Re-queued" is logged. |
| `swarm_attempts` | `AttemptsAreDials` | One connection with a corrupt piece is charged two attempts. |
| `peer_choked` | `BytesCountedOnce` | Answers to requests from before a choke count twice; an incomplete piece is "fully downloaded!" (`peer.cpp:253`) and an honest peer is dropped for a hash mismatch. |
| `peer_chokes` | `CountStaysInPiece` | Where other workers claim pieces too, requests that outlive a choke overlap those of a later fetch, and `bytes_downloaded_` passes the length of the piece. `TypeOK` holds of this configuration too: it is the block that completes the piece, and less than a block too many. |
| `peer_have` | `HaveAddsPiece` | A have message cuts off the pieces behind it. |
| `peer_backlog` | `RequestsAreSent` | A request is sent from a destroyed buffer. |
| `peer_idle` | `IdleWorkerFindsWork` | Idle workers are not told of requeued pieces. |
| `files_buffered` | `StoredPiecesInPlace` | A short write that fails at `close()` is not noticed. |
| `tracker_schemes` | `TriedIsContacted` | https and udp trackers are passed over unasked. |
| `tracker_leftover` | `EntriesAreSent` | A peers string of no multiple of six gives an entry too many. |
| `torrent_unsorted` | `InfoSliceIsOfFile` | The keys of info are not sorted in the file: the info hash (`torrent.cpp:78`) is another one. |
| `torrent_hashless` | `NoHashOutOfBounds` | A torrent with fewer hashes than pieces is loaded, and `submit_piece` throws out of the event loop. |
| `dashboard_interrupt` | `ThreadKeepsItsSwarm` | Ctrl-C, on any tab, destroys the swarm while the detached thread runs it. |
| `dashboard_uncaught` | `NetworkErrorIsCaught` | The handshake write that throws (`peer.cpp:45`) is a "Fatal Error" in the CLI; in the UI nobody catches it, and the process is terminated. |
| `dashboard_torn` | `StatsFitTogether` | The dashboard shows more pieces stored and being downloaded than there are. |
| `dashboard_depleted` | `DepletionIsShown` | A swarm that has given up is shown as "RUNNING" (`dash_screen.cpp:50`) for ever. |
| `dashboard_loading` | `LoadingIsShown` | "Loading Torrent Engine..." (`dash_screen.cpp:29`) is never drawn: the tab is switched and the trackers are asked in one event. |

### Bounds, and why they are enough

* `MaxWrites` bounds the pending request writes of one connection. The guard on it, in
  `StartWrites` and in `request_block`, is **not in the code**, which has as many writes
  pending as it has asked for and not been told of; `request_block` never waits for one.
  A connection at the bound first sees a write complete. One late write is enough for
  each late disconnect to meet every state of the others; three in `PeerClient` exceed
  the window of two by one. The proofs take any value.
* `Hashes` are the numbers of hashes a torrent may hold; the variable `hashes` is one of
  them and never changes. The constructor of `TorrentFile` does not compare it with the
  number of pieces, so two runs take both as many as there are pieces and one fewer.
* `MaxRetry` stands for the literal 5. One attempt leaves all peers to die and the swarm
  to deplete; two exercise the retry. The proofs take any value.
* Three peers over two slots is the least with a peer waiting; two pieces the least with
  a wrong one to count or claim.
* Pieces of 5 and 3 bytes with blocks of 2 give three blocks and a short one, a short
  last piece, and a window that is smaller than a piece and as large as the last.
* `Bitfields` and `Haves` range over whole bytes of bits, as the code unpacks them.
* The descriptions in `torrent_loads` have every shape of the format that the
  constructor tells apart: a single file, a folder with one, a folder with nested and
  empty ones, total lengths that are multiples of the piece length and not, numbers of
  one and two digits. Each is cut off at every byte, so no error path is left out.
* `MaxStarts` of two has a manager replaced once: by a start after one whose thread could
  not be made. Two workers are the least `get_stats` can be torn between.
* The state space of every run is finite without constraints. Deadlock is checked in all
  runs; stopping for good is an explicit stuttering step (`Terminated`, `Silence`,
  `Returned`, `Done`, a `ui` in `Ended`).

### Fairness

The `io_context` runs every handler whose operation completes: weak fairness per
handler. A connect attempt and a write complete. What is **not** in the code is any
timer, so what a peer does in the end is an assumption, named for what it is:
`PeersHangUp` (`DownloadEnds`), a peer that answers what it is asked, strongly fair
since its messages wait for each other (`FetchNeverStalls`), trackers that honour
`Connection: close` (`FetchEnds`). Without them each of the three can wait for ever.
FTXUI draws after each event (`MainThread`), but no event is of the program's making:
`CompletionIsShown` assumes that the user keeps causing some (`EventsCome`), and without
that assumption the dashboard stays as it was when the last key was pressed.

`swarm_settled_writes` has a hypothesis that is no fairness:
`EndsQuietly`, that the operation which reports the end of a connection is the last one
it had pending. Writes may be pending as long as the connection is open. It is so, for
example, when what has been asked for was sent before the peer hangs up. Nothing in the
code makes it so, and `swarm_premature` is what happens otherwise. `QuietFairSpec` adds
the fairness of `FairSpec`, which such a behaviour can always meet: a write that is
pending may complete, and then the read may fail.

## What is proved

Every theorem holds for all values of the constants that the named assumption of its
module allows: naturals where the code has counters, at least one slot, one attempt, one
byte per piece and per block. TLC evaluates the assumptions in each run. Every
inductive invariant was checked by TLC on the instance of a run as well.

### The swarm: `SwarmManagerProofs`

For every number of peers, pieces, slots, retries and pending writes, every assignment of
addresses to entries and every choice of bitfields:

* `TypeCorrectness`, `PiecesAreKept` (`NoPieceLost`), `SlotsAreHeld`
  (`SlotsAreConnections`), `ConnectionLimit` (`ConnectionsBounded`), `SlotsStayFilled`
  (`SlotsFilled`), `DialsAreBudgeted` (`DialBudget`), `CounterIsSound`
  (`CounterInStep`), each as `Spec => []P`;
* `DeadStaysDead`, the action property `DeadForGood`.

They follow from one inductive invariant, `IInv`. None of these properties is inductive
alone, and they need each other in a circle:

* that no piece is lost needs that whoever holds a piece still reads, which is so
  because registered workers are the open connections (`Slots`);
* `Slots` survives a dial because the worker dialled is new: its number `made + 1` was
  never used (`Numbered`) and is within `MaxRetry` because an entry that may be dialled
  has failed at least as often as it was dialled, and less than `MaxRetry` times
  (`Budget`); that also holds when a failure is charged to another entry of the
  same address, and when one connection is charged many times;
* that the counter stays within `TotalPieces` needs that the handler that reaches the
  total stops the loop, and that nothing is handed out after that;
* workers that were not made yet have nothing pending (`Unborn`), so that a handler is
  always one of a worker that exists.

The proof has one lemma per call (`MaintainBudget`, `MaintainSlots`, `DisconnectPool`,
`DisconnectBoard`, `WorkRequested`, ...), which the handlers cite: `HandlerInv` for a
handler of a connection, `StepInv` for every step. `LowestIsLeast` and
`FirstEligibleCount` say that the pass over the pool picks as many entries as there are
slots, or all.

### How a download ends

In the second part of `SwarmManagerProofs`:

* `CompleteWhenStopped`: the loop is stopped only when every piece is counted.
* `PeersAreRemembered` (`NoPeerForgotten`) and `DepletionIsHonest`
  (`DepletedMeansSpent`), under `DistinctAddresses`. The invariant is `PeersInHand`: an
  entry in state CONNECTING has a registered worker. It is inductive only if the entry
  that `handle_disconnect` charges is the worker's own, which is what distinct addresses
  give; `swarm_shared_ip` shows what happens without them.
* `FetchedOnce` (`OneFetchPerPiece`), `CompleteIsOnDisk` (`CompleteMeansAllOnDisk`) and
  the refinement `SwarmIsBoard` (`ImplementsPieceBoard`), in every behaviour in which
  whoever holds a piece has an open connection (`OnlyOpenHold`). The invariant
  `ClaimsInv` says that held pieces are marked, not on disk and held once, and that the
  counter is the number of pieces on disk; `OnlyOpenHold` is what keeps a handler that
  runs after `disconnect` from giving back a piece that has a new holder.
  `swarm_premature` is such a handler, so the hypothesis cannot be dropped: the theorems
  say that late completions are the only thing that goes wrong.
* `SettledSwarm` states the three of `QuietSpec`, whose hypothesis is on the order of
  completions alone: the operation that reports the end of a connection is the last one
  it had pending (`EndsQuietly`). Any number of request writes may be pending before, of
  any number of connections, and every failure may happen. `QuietEnds` shows that
  `OnlyOpenHold` follows, since whoever holds a piece then waits for a message on an
  open connection (`HeldByReaders`).

### A connection: `PeerClientProofs`

* `ConnectionTyped` (`TypeOK`), with no hypothesis on the peer but that it sends what it
  was asked for. While a piece is being fetched `bytes_downloaded_` is less than its
  length; in the block that completes it the counter may pass the length by less than a
  block, as it does after a choke (`peer_chokes`), and it stays there until the next fetch resets it.
  `CountStops` is the strengthening: without it `pieces_downloaded_` could pass the total.
* `BytesAskedFor` (`EveryByteAskedFor`), `WindowIsFull` (`PipelineFull`) and `BytesCount`
  (`BytesCountedOnce`), for every piece length, block length and window, with wrong bytes,
  a full send buffer, other workers and failures, if the peer never chokes (`"chokes"` is
  not in `Env`). After a choke the first and the last are false: `peer_stale_window`,
  `peer_choked`.

The invariant is `FetchInv`: between two pieces nothing is out; while a piece is fetched,
`bytes_downloaded_` is the number of its bytes that have arrived, each request that is
out is for bytes of that piece which were counted as requested and have not arrived, no
two of them for one byte (`FetchFacts`), and on a connection that works nothing was
forgotten (`Covered`) and the window is full (`Window`). The last is the arithmetic part:
all requests are of whole blocks except for one at most, which ends the piece
(`AllFull`, `OneShort`), so their number follows from the bytes that are missing
(`WindowCount`, from `BlockCount` and the lemma `Division`). `FetchFacts` is also kept
on a connection that has been closed, where answers still come in; the other two are not.
`AskBlocks` is what `request_next_block` does, `Extended` what a new request does to
`FetchFacts`, `Arrives` what a block does.

### A connection in the swarm: `PeerInSwarmProofs`

`PeerIsInSwarm` (`ImplementsSwarm`): every behaviour of `PeerClient` is one of
`SwarmManager` with one entry, for every torrent with a piece. There is one lemma per call
(`Dialled`, `HungUp`, `WorkAsked`, `WritesStarted`, ...) and per handler (`Connected`,
`BlockCame`, ...); `StepMaps` puts them together. The mapping needs `LinkInv`, that a
connection without a handshake has no work, no bitfield and no pending write, since the
swarm releases a connection that failed to connect with its fields as they were. Other
workers (`"others"`) are excluded, for the mapping is that of a swarm of one connection.
Without a piece (`TotalPieces = 0`) `start_download` dials nobody, and there is no
`PeerClient`.

### The disk: `FileManagerProofs`

`FilesTyped` (`TypeOK`); `BytesInPlace` (`NoByteMisplaced`) under `Aligned`: the piece
length divides the total, or there is one piece; and `StoredIsInPlace`
(`StoredPiecesInPlace`) if besides the stream writes through (`NothingBuffered`), which
holds for `BufferSize = 0` (`UnbufferedIsInPlace`). For every list of files, empty ones
included, and every number of writes, repeated or broken off anywhere. `files_short_tail`
and `files_buffered` show that both hypotheses are needed. The proof rests on lemmas
about the recursive function of the file offsets: they grow, and each byte lies in
exactly one file.

### The tracker search: `TrackerClientProofs`

`SearchTyped` (`TypeOK`), `AnswerReturns` (`AnswerIsReturned`) and `TrackersAreTried`
(`AllTrackersTried`), for every announce-list. The invariant `IInv` says that the http
trackers before the current one were all asked and gave no peers (`Progress`), and that
an answer ends the search (`AnswerEnds`).

### The torrent file: `TorrentFileProofs`

For every description of a torrent, whatever its trackers and tiers, files and paths,
lengths and hashes, with the keys of info sorted or not, and every set of `Fields`:
`LoadsWholeFiles` (`WholeFilesAreLoaded`), `LoadsContiguousFiles` (`FilesAreContiguous`),
`KeepsTrackers` (`TrackersAreKept`) and `HashesTheRightPiece` (`EachPieceItsHash`). The
assumptions are those of the two modules: the bytes Bencode gives a meaning to are bytes,
a hash and a piece have at least one, lengths are naturals, and a torrent that is no
folder has one file.

The argument is about the parser. `Encodes(s, node)` says two things of a text: wherever
it stands in a buffer it is read as `node`, up to the index behind it, and a buffer that
ends within it makes the parser throw. This is shown of integers (the figures that
`Decimal` writes are those `stoll` reads), of strings, and, by induction on their
elements, of lists and dictionaries; so it holds of the file that `Bytes` writes, and of
the file without any one of its fields. That the parser is defined at all is an induction
too: `parse` calls itself only at a greater index, or at the same one for another parser.
What is left is the constructor: which fields it needs (`Needed`), that the tiers are
flattened in order, that the offsets it adds up are contiguous, and that the n-th hash
lies at `n * HashSize` of the joined hashes.

The invariant is `TorrentInv`: what is loaded was whole and has every field as the torrent
was made (`LoadedInv`), what threw was not whole, and a piece that was asked about is one
of the torrent's. `HashesTheRightPiece` keeps the hypothesis that there are as many hashes
as pieces: `torrent_hashless` shows that the code does not check it.

### The interface: `AppRunnerProofs`

Whatever the swarm does and for any number of starts, `ThreadsKeepTheirSwarm`
(`SwarmOutlivesThread`) and `FailuresAreShown` (`FailureIsShown`). The invariant `AppInv`
says what the code relies on without saying it: a thread runs only while the dashboard is
the active tab, and from the dashboard neither Enter nor Escape reaches a handler. The
step of the detached thread needs no fact about the swarm, since it writes nothing that
the interface owns.

`InterfaceRunsSwarm` says that a behaviour of the composition is one of `SwarmManager`, so
what is proved of the swarm holds under the interface. `InterfaceTyped` (`AppTypeOK`) and
the action property `ProgressClimbs` (`ProgressNeverFalls`) use that: the progress shown
never falls since `pieces_downloaded` does not.

### Induction

The library's induction theorems take an operator as a parameter, which the provers at
hand cannot instantiate. `SetInduction` (`NaturalSets`) states induction with a set
instead, proved from `LeastNatural`, which rests on the finiteness of intervals. It
is what makes the recursive functions provable: the file offsets, the figures of a
number, the parsers, and everything the code strings together in a loop (`FlattenSeq`).
Each is first shown to exist, since a recursive definition alone says nothing, and then
used by its step. As a fact of the naturals it is a lemma only, and none of the results
listed in `PROJECT.json`.

### Only model-checked

* All liveness: `DownloadEnds`, `FetchNeverStalls`, `FetchEnds`, `CompletionIsShown`. The
  provers have no backend for fairness and ENABLED.
* `InfoSliceIsOfFile`. The encoder calls itself along the tree of nodes, whose depth no
  index bounds, so it is a RECURSIVE operator, with which the SMT backend is not
  available. It has a module of its own, `InfoHash`, which no proof uses.

## What is not modelled

* Peers that send what they were not asked for, malformed messages, and payloads of any
  size. The remote peer of `PeerClient` keeps the protocol, and what holds of it differs
  with what the protocol leaves it free to do: one that never chokes has the properties
  of `peer_pipeline`; one that chokes has not, for `peer_choked` refutes
  `BytesCountedOnce` and `peer_stale_window` refutes `EveryByteAskedFor`. A peer that
  sends blocks unasked could repeat a block, or answer with a longer one, so that the
  counter passes the length of the piece without a choke, and by more than the bound in
  `TypeOK`. `SwarmManager` lets any
  block complete a piece, whatever made the counter reach the length.
* The data: hashes (SHA1), handshakes, message encodings, `url_encode`, HTTP text. The
  models use that wrong bytes have a wrong hash.
* `announce_https` and `announce_udp`: `announce` dispatches to neither, so they are no
  behaviour of the program (`tracker_schemes` shows what follows). Likewise
  `SwarmManager::init` and `FileManager::init`, which nothing calls, and
  `DashScreen::update_stats`.
* Logger: its lines are kept behind a mutex, and nothing calls `get_logs`. The flag
  `last_was_progress` is used outside of it, but moves only a line break of the console:
  the CLI has a single thread, and `ui/src/main.cpp` switches the console off.
* The CLI: one thread, one try block around what `AppRunner::start_download` does in the
  same order. It keeps no state between the calls.
* FTXUI: `AppRunner` has what the code relies on, that it draws after events, sends them
  to the active tab and leaves on Ctrl-C.
* `send_interested`: its completion changes nothing. It keeps a worker alive no longer
  than its other operations do, except for a moment that nothing observes.
* Torrents that contradict themselves in other ways than by their hashes: negative
  lengths, a piece length of zero, numbers that do not fit their types.
* A restart: the program keeps no record of its progress and starts from nothing.

## Plan

Done: the swarm, the connection, their composition, the disk, the tracker search, the
torrent file with Bencode, the UI over the swarm; every safety property and every
refinement that a run checks is proved, except for `InfoSliceIsOfFile`. What is left, in the
order of its weight:

1. What `EveryByteAskedFor` and `BytesCountedOnce` become when the peer chokes: both hold
   of the first fetch of a connection up to its first choke. How far the counter is off
   is in `TypeOK`.
2. `InfoSliceIsOfFile` for every torrent whose keys are sorted, with the encoder as a
   function of the depth of the node.
