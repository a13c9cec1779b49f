------------------------------ MODULE InfoHash ------------------------------
(***************************************************************************)
(* The info_hash of a torrent: the encoder of engine/src/bencode.cpp, and  *)
(* what TorrentFile::TorrentFile (engine/src/torrent.cpp) applies SHA1 to. *)
(***************************************************************************)
EXTENDS TorrentFile

CONSTANT ByteOrder   \* the bytes in the order in which std::map compares them

Rank(c) == CHOOSE i \in DOMAIN ByteOrder : ByteOrder[i] = c

\* operator< of std::string.
Before(k, l) ==
  \/ IsStrictPrefix(k, l)
  \/ \E i \in DOMAIN k \cap DOMAIN l :
       /\ SubSeq(k, 1, i - 1) = SubSeq(l, 1, i - 1)
       /\ Rank(k[i]) < Rank(l[i])

to_string(n) == IF n < 0 THEN <<"-">> \o Decimal(- n) ELSE Decimal(n)

EncodeString(s) == to_string(Len(s)) \o <<":">> \o s

RECURSIVE encode_bencode(_)

\* Mutant of encode_bencode: the keys in the opposite order.
encode_bencode_reversed(node) ==
  LET v == node[2] IN
  CASE node[1] = "int" -> <<"i">> \o to_string(v) \o <<"e">>
    [] node[1] = "string" -> EncodeString(v)
    [] node[1] = "list" ->
         <<"l">> \o FlattenSeq([i \in DOMAIN v |-> encode_bencode(v[i])]) \o <<"e">>
    [] node[1] = "dict" ->
         LET keys == SetToSortSeq(DOMAIN v, LAMBDA k, l : Before(l, k))
         IN  <<"d">> \o FlattenSeq([i \in DOMAIN keys |->
               EncodeString(keys[i]) \o encode_bencode(v[keys[i]])]) \o <<"e">>

encode_bencode(node) ==
  LET v == node[2] IN
  CASE node[1] = "int" -> <<"i">> \o to_string(v) \o <<"e">>
    [] node[1] = "string" -> EncodeString(v)
    [] node[1] = "list" ->
         <<"l">> \o FlattenSeq([i \in DOMAIN v |-> encode_bencode(v[i])]) \o <<"e">>
    [] node[1] = "dict" ->
         LET keys == SetToSortSeq(DOMAIN v, Before)
         IN  <<"d">> \o FlattenSeq([i \in DOMAIN keys |->
               EncodeString(keys[i]) \o encode_bencode(v[keys[i]])]) \o <<"e">>

\* What SHA1 is applied to.
info_slice == encode_bencode(info_node)

-----------------------------------------------------------------------------
\* info_slice (torrent.cpp:78), encoded anew from what was parsed, is the slice of
\* the file that the info dictionary takes up: the info_hash is the torrent's.
InfoSliceIsOfFile ==
  state = "loaded" => info_slice = InfoBytes(made, "none")
=============================================================================
