---------------------------- MODULE TorrentFile -----------------------------
(***************************************************************************)
(* A .torrent file as class TorrentFile (engine/src/torrent.cpp) takes it  *)
(* in, and the piece hashes SwarmManager::submit_piece (engine/src/        *)
(* swarm.cpp) asks it for.  What the file says is known from a description *)
(* of the torrent, written down here without the encoder of the program;   *)
(* the file may be cut off anywhere or lack a field.                       *)
(***************************************************************************)
EXTENDS Bencode

CONSTANTS
  Torrents,   \* descriptions of the torrents under consideration
  Fields,     \* the fields a file may lack ("none": it lacks none)
  HashSize    \* bytes of a SHA1 hash, the literal 20 of get_hash_for_piece

\* A description: announce is the URL, tiers the announce-list, files the files
\* with paths and lengths (one without a path for a torrent that is no folder),
\* hashes the piece hashes, sorted whether the maker sorts the keys of info.
ASSUME TorrentAssumption ==
  /\ HashSize \in Nat \ {0}
  /\ {"announce", "announce-list", "info", "length", "files", "path", "name",
      "piece length", "pieces", "debian", "/"} \subseteq Byte
  /\ \A t \in Torrents :
       /\ t.announce \in Seq(Byte)
       /\ t.tiers \in Seq(Seq(Seq(Byte)))
       /\ t.files \in Seq([path : Seq(Byte), length : Nat]) /\ t.files # << >>
       /\ t.files[1].path = << >> => Len(t.files) = 1
       /\ t.piece_length \in Nat \ {0}
       /\ t.hashes \in Seq({h \in Seq(Byte) : Len(h) = HashSize})

VARIABLES
  made,           \* the description of the torrent
  lacks,          \* the field its file lacks
  file_buffer,    \* what read_binary_file returns
  state,          \* "new", then "loaded", "threw" or "unreadable"
  announce_url, announce_list, piece_length, master_pieces_string,
  total_length, file_list,
  info_node,      \* what is encoded for the info_hash
  expected        \* <<piece, hash>> of the last submit_piece, << >> before

file   == <<made, lacks, file_buffer>>
fields == <<announce_url, announce_list, piece_length, master_pieces_string,
            total_length, file_list, info_node>>
vars   == <<file, state, fields, expected>>

-----------------------------------------------------------------------------
(* What the makers of torrents write.                                      *)

String(s)  == Decimal(Len(s)) \o <<":">> \o s
Integer(n) == <<"i">> \o Decimal(n) \o <<"e">>
List(l)    == <<"l">> \o FlattenSeq(l) \o <<"e">>
Entry(without, k, v) == IF k = without THEN << >> ELSE String(<<k>>) \o v

FileBytes(f) ==
  <<"d">> \o Entry("", "length", Integer(f.length))
          \o Entry("", "path", List([i \in DOMAIN f.path |-> String(<<f.path[i]>>)]))
          \o <<"e">>

InfoBytes(t, without) ==
  LET contents == IF t.files[1].path = << >>
                  THEN Entry(without, "length", Integer(t.files[1].length))
                  ELSE Entry(without, "files",
                             List([i \in DOMAIN t.files |-> FileBytes(t.files[i])]))
      others   == Entry(without, "name", String(<<"debian">>))
                    \o Entry(without, "piece length", Integer(t.piece_length))
                    \o Entry(without, "pieces", String(FlattenSeq(t.hashes)))
  IN  <<"d">> \o (IF t.sorted THEN contents \o others ELSE others \o contents) \o <<"e">>

Bytes(t, without) ==
  <<"d">> \o Entry(without, "announce", String(t.announce))
          \o (IF t.tiers = << >> THEN << >> ELSE Entry(without, "announce-list",
                List([i \in DOMAIN t.tiers |->
                        List([j \in DOMAIN t.tiers[i] |-> String(t.tiers[i][j])])])))
          \o Entry(without, "info", InfoBytes(t, without))
          \o <<"e">>

Init ==
  /\ made \in Torrents
  /\ lacks \in Fields
  /\ \E n \in 0 .. Len(Bytes(made, lacks)) :
       file_buffer = SubSeq(Bytes(made, lacks), 1, n)
  /\ state = "new"
  /\ announce_url = << >> /\ announce_list = << >>
  /\ piece_length = 0 /\ master_pieces_string = << >>
  /\ total_length = 0 /\ file_list = << >>
  /\ info_node = << >>
  /\ expected = << >>

-----------------------------------------------------------------------------
(* The constructor.                                                        *)

\* at() and std::get throw unless the field is there and has the type.
Has(dict, k, type) == <<k>> \in DOMAIN dict /\ dict[<<k>>][1] = type
Field(dict, k)     == dict[<<k>>][2]

ListOf(node, Is(_)) ==
  node[1] = "list" /\ \A i \in DOMAIN node[2] : Is(node[2][i])

IsString(node)   == node[1] = "string"
IsTier(node)     == ListOf(node, IsString)
IsFile(node)     == /\ node[1] = "dict"
                    /\ Has(node[2], "path", "list")
                    /\ ListOf(node[2][<<"path">>], IsString)
                    /\ Has(node[2], "length", "int")

IsInfo(info) ==
  /\ Has(info, "piece length", "int")
  /\ Has(info, "pieces", "string")
  /\ Has(info, "name", "string")
  /\ IF <<"length">> \in DOMAIN info THEN Has(info, "length", "int")
     ELSE <<"files">> \in DOMAIN info /\ ListOf(info[<<"files">>], IsFile)

\* The constructor does not throw on what parse_bencode returned.
IsTorrent(root) ==
  /\ root[1] = "dict"
  /\ Has(root[2], "announce", "string")
  /\ <<"announce-list">> \in DOMAIN root[2] =>
       ListOf(root[2][<<"announce-list">>], IsTier)
  /\ Has(root[2], "info", "dict")
  /\ IsInfo(Field(root[2], "info"))

\* Mutant of TrackersOf: only the first tracker of a tier.
TrackersOfFirst(meta) ==
  IF <<"announce-list">> \notin DOMAIN meta THEN << >>
  ELSE LET tiers == Field(meta, "announce-list")
       IN  FlattenSeq([i \in DOMAIN tiers |->
                         [j \in DOMAIN tiers[i][2] \cap {1} |-> tiers[i][2][j][2]]])

TrackersOf(meta) ==
  IF <<"announce-list">> \notin DOMAIN meta THEN << >>
  ELSE LET tiers == Field(meta, "announce-list")
       IN  FlattenSeq([i \in DOMAIN tiers |->
                         [j \in DOMAIN tiers[i][2] |-> tiers[i][2][j][2]]])

FullPath(name, path) ==
  name \o FlattenSeq([i \in DOMAIN path |-> <<"/">> \o path[i][2]])

\* The running current_global_offset before each of the files, and behind the last.
GlobalOffset(files) ==
  LET offset[n \in 1 .. Len(files) + 1] ==
        IF n = 1 THEN 0 ELSE offset[n - 1] + Field(files[n - 1][2], "length")
  IN  offset

\* Mutant of FilesOf: the offset is taken after it has been advanced.
FilesOfLate(info) ==
  IF <<"length">> \in DOMAIN info
  THEN <<[path |-> Field(info, "name"), length |-> Field(info, "length"), offset |-> 0]>>
  ELSE LET files == Field(info, "files")
       IN  [i \in DOMAIN files |->
              [path   |-> FullPath(Field(info, "name"), Field(files[i][2], "path")),
               length |-> Field(files[i][2], "length"),
               offset |-> GlobalOffset(files)[i + 1]]]

FilesOf(info) ==
  IF <<"length">> \in DOMAIN info
  THEN <<[path |-> Field(info, "name"), length |-> Field(info, "length"), offset |-> 0]>>
  ELSE LET files == Field(info, "files")
       IN  [i \in DOMAIN files |->
              [path   |-> FullPath(Field(info, "name"), Field(files[i][2], "path")),
               length |-> Field(files[i][2], "length"),
               offset |-> GlobalOffset(files)[i]]]

TotalOf(info) ==
  IF <<"length">> \in DOMAIN info THEN Field(info, "length")
  ELSE GlobalOffset(Field(info, "files"))[Len(Field(info, "files")) + 1]

\* TorrentFile::TorrentFile, with a file that can be read.
Load ==
  /\ state = "new"
  /\ \E parsed \in {parse_bencode(file_buffer, 1)} :
       LET meta == parsed.node[2]
           info == Field(meta, "info")
       IN  /\ ~ Threw(parsed) /\ IsTorrent(parsed.node)
           /\ state' = "loaded"
           /\ announce_url' = Field(meta, "announce")
           /\ announce_list' = TrackersOf(meta)
           /\ piece_length' = Field(info, "piece length")
           /\ master_pieces_string' = Field(info, "pieces")
           /\ file_list' = FilesOf(info)
           /\ total_length' = TotalOf(info)
           /\ info_node' = meta[<<"info">>]
  /\ UNCHANGED <<file, expected>>

\* parse_bencode throws, or what the constructor looks for is not there.
LoadThrows ==
  /\ state = "new"
  /\ \E parsed \in {parse_bencode(file_buffer, 1)} :
       Threw(parsed) \/ ~ IsTorrent(parsed.node)
  /\ state' = "threw"
  /\ UNCHANGED <<file, fields, expected>>

\* read_binary_file throws.
ReadThrows ==
  /\ state = "new"
  /\ state' = "unreadable"
  /\ UNCHANGED <<file, fields, expected>>

-----------------------------------------------------------------------------
(* The hash of a piece.                                                    *)

\* total_pieces_ of the SwarmManager made with the torrent.
TotalPieces == (total_length + piece_length - 1) \div piece_length

\* Mutant of get_hash_for_piece: the last hash is out of bounds.
get_hash_for_piece_but_last(p) ==
  IF p * HashSize + HashSize >= Len(master_pieces_string) THEN << >>
  ELSE SubSeq(master_pieces_string, p * HashSize + 1, p * HashSize + HashSize)

\* << >> where it throws out_of_range.  The product is one of uint32_t, too small to
\* wrap for a file that fits an address space of less than four gigabytes of hashes.
get_hash_for_piece(p) ==
  IF p * HashSize + HashSize > Len(master_pieces_string) THEN << >>
  ELSE SubSeq(master_pieces_string, p * HashSize + 1, p * HashSize + HashSize)

\* submit_piece looks up the hash to compare with.
SubmitPiece(p) ==
  /\ state = "loaded"
  /\ expected' = <<p, get_hash_for_piece(p)>>
  /\ UNCHANGED <<file, state, fields>>

Done == state \in {"threw", "unreadable"} \/ (state = "loaded" /\ TotalPieces = 0)

Next ==
  \/ Load \/ LoadThrows \/ ReadThrows
  \/ state = "loaded" /\ \E p \in 0 .. TotalPieces - 1 : SubmitPiece(p)
  \/ Done /\ UNCHANGED vars

Spec == Init /\ [][Next]_vars

-----------------------------------------------------------------------------
(* Properties.                                                             *)

Whole ==
  /\ file_buffer = Bytes(made, lacks)
  /\ lacks = "announce-list" \/ file_buffer = Bytes(made, "none")

\* "Torrent Parsed Successfully." (torrent.cpp:81): a file that is whole is loaded;
\* one that is cut off at any byte, or lacks a field that is needed, is not.
WholeFilesAreLoaded ==
  /\ state = "loaded" => Whole
  /\ state = "threw" => ~ Whole

\* Where a file belongs: below the folder with the torrent's name, or under that name.
PathOf(f) == <<"debian">> \o FlattenSeq([i \in DOMAIN f.path |-> <<"/", f.path[i]>>])

\* FileManager writes by offset: the files come in the order, at the paths and with
\* the lengths they were made with, each begins where the one before it ends, the
\* first at 0, and the last ends at total_length, which counts the pieces.
FilesAreContiguous ==
  state = "loaded" =>
    /\ [i \in DOMAIN file_list |-> <<file_list[i].path, file_list[i].length>>]
         = [i \in DOMAIN made.files |-> <<PathOf(made.files[i]), made.files[i].length>>]
    /\ file_list[1].offset = 0
    /\ \A i \in DOMAIN file_list :
         file_list[i].offset + file_list[i].length =
           IF i = Len(file_list) THEN total_length ELSE file_list[i + 1].offset

\* fetch_peers gets every tracker of the file, tier by tier, in the file's order.
TrackersAreKept ==
  state = "loaded" =>
    /\ announce_url = made.announce
    /\ announce_list = IF lacks = "announce-list" THEN << >> ELSE FlattenSeq(made.tiers)

\* A piece is compared with its own hash: where the file has as many hashes as
\* pieces, get_hash_for_piece throws for none of them.
EachPieceItsHash ==
  expected # << >> /\ Len(made.hashes) = TotalPieces =>
    expected[2] = made.hashes[expected[1] + 1]

\* "Requested piece index is out of bounds." (torrent.cpp:91) is never said of a
\* piece that submit_piece asks about.
NoHashOutOfBounds == expected # << >> => expected[2] # << >>
=============================================================================
