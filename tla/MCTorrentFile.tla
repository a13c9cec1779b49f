--------------------------- MODULE MCTorrentFile ----------------------------
(* Values for the constants of TorrentFile and InfoHash.                   *)
EXTENDS InfoHash

AnyByte == STRING

Bytewise == <<"announce", "announce-list", "files", "info", "length", "name", "path",
              "piece length", "pieces">>

AnyField == {"none", "announce", "announce-list", "info", "length", "files", "name",
             "piece length", "pieces"}

File(path, length) == [path |-> path, length |-> length]

Contents == {
  <<File(<< >>, 0)>>, <<File(<< >>, 4)>>, <<File(<< >>, 11)>>,
  <<File(<<"a">>, 10)>>,
  <<File(<<"a">>, 2), File(<<"dir", "b">>, 0), File(<<"dir", "c">>, 3)>> }

Tiers == { << >>, << << >> >>, << <<<<"b">>, <<"c">>>>, <<<<"a">>>> >> }

HashesOf(n) == [p \in 1 .. n |-> <<"hash", ToString(p)>>]
SizeOf(files) == FoldLeft(LAMBDA n, f : n + f.length, 0, files)

\* Pieces of two bytes, each with a hash, and some hashes more than that.
Described(sorted, more) ==
  { [announce |-> <<"a">>, tiers |-> tiers, files |-> files, piece_length |-> 2,
     hashes |-> HashesOf((SizeOf(files) + 1) \div 2 + more), sorted |-> sorted] :
      tiers \in Tiers, files \in Contents }

SortedTorrents   == Described(TRUE, 0) \cup Described(TRUE, 1)
UnsortedTorrents == Described(FALSE, 0)
HashlessTorrents == {[t EXCEPT !.hashes = << >>] : t \in Described(TRUE, 0)}
=============================================================================
