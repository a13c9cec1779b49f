------------------------------ MODULE Bencode -------------------------------
(***************************************************************************)
(* The parser of engine/src/bencode.cpp.                                   *)
(*                                                                         *)
(* A buffer is a sequence of bytes, a byte is a TLA+ string.  The bytes    *)
(* that Bencode gives a meaning to are written as they are ("i", "3", ":");*)
(* a word such as "length", whose letters the parser never looks at,       *)
(* counts as one byte.  A node is a pair of the alternative of the variant *)
(* that BencodeNode holds and its value: <<"int", n>>, <<"string", bytes>>,*)
(* <<"list", nodes>> or <<"dict", function from keys to nodes>>.  Numbers  *)
(* that do not fit a long long are not written.                            *)
(***************************************************************************)
EXTENDS Integers, Sequences, SequencesExt

CONSTANT Byte   \* what a buffer consists of

ASSUME ByteAssumption ==
  {"0", "1", "2", "3", "4", "5", "6", "7", "8", "9", ":", "i", "l", "d", "e"} \subseteq Byte

Figure == <<"0", "1", "2", "3", "4", "5", "6", "7", "8", "9">>

isdigit(c) == \E n \in 0 .. 9 : c = Figure[n + 1]

\* Position of the first byte c in buffer from index on, 0 if there is none.
find(buffer, c, index) ==
  SelectInSubSeq(buffer, index, Len(buffer), LAMBDA b : b = c)

-----------------------------------------------------------------------------
(* Numbers: std::stoll and std::to_string.                                 *)

Sign(s) == IF s # << >> /\ s[1] \in {"-", "+"} THEN s[1] ELSE ""

\* The digits that follow the sign, up to the first byte that is none.
Figures(s) ==
  LET digits == IF Sign(s) = "" THEN s ELSE Tail(s)
      other  == SelectInSeq(digits, LAMBDA c : ~ isdigit(c))
  IN  IF other = 0 THEN digits ELSE SubSeq(digits, 1, other - 1)

\* stoll ignores what follows the digits, and throws where there are none.
StollThrows(s) == Figures(s) = << >>

\* The number that digits are the figures of.
Value(digits) ==
  LET value[i \in 0 .. Len(digits)] ==
        IF i = 0 THEN 0
        ELSE 10 * value[i - 1] + CHOOSE n \in 0 .. 9 : digits[i] = Figure[n + 1]
  IN  value[Len(digits)]

stoll(s) == IF Sign(s) = "-" THEN - Value(Figures(s)) ELSE Value(Figures(s))

\* The figures of a number.
Decimal(n) ==
  LET figures[m \in 0 .. n] ==
        IF m < 10 THEN <<Figure[m + 1]>>
        ELSE Append(figures[m \div 10], Figure[(m % 10) + 1])
  IN  figures[n]

-----------------------------------------------------------------------------
(* Parsing.  A result has the node and the index behind it.                *)

Parsed(node, index) == [node |-> node, index |-> index]
Throws   == Parsed(<<"none">>, 0)
Threw(r) == r.index = 0

EmptyDict == [k \in {} |-> << >>]

\* The entry of key in front of those of dict: a key that comes again takes the place
\* of the earlier one.
WithEntry(dict, key, node) ==
  [k \in DOMAIN dict \cup {key} |-> IF k \in DOMAIN dict THEN dict[k] ELSE node]

parse_integer(buffer, index) ==
  LET end_pos == find(buffer, "e", index + 1)
      num_str == SubSeq(buffer, index + 1, end_pos - 1)
  IN  IF end_pos = 0 \/ StollThrows(num_str) THEN Throws
      ELSE Parsed(<<"int", stoll(num_str)>>, end_pos + 1)

\* Called where there is a digit, so stoll finds a number.
parse_string(buffer, index) ==
  LET colon_pos == find(buffer, ":", index)
      length    == stoll(SubSeq(buffer, index, colon_pos - 1))
  IN  IF colon_pos = 0 THEN Throws
      ELSE IF colon_pos + length > Len(buffer) THEN Throws
      ELSE Parsed(<<"string", SubSeq(buffer, colon_pos + 1, colon_pos + length)>>,
                  colon_pos + length + 1)

\* parse is what the parsers return that these three call, as a function of the parser
\* and the index: "node" for parse_bencode, "list" and "dict" for the loops, which
\* return the elements from the index on.

parse_list(parse, buffer, index) ==
  IF index > Len(buffer) THEN Throws
  ELSE IF buffer[index] = "e" THEN Parsed(<<"list", << >>>>, index + 1)
  ELSE LET element == parse[<<"node", index>>]
           others  == IF Threw(element) THEN Throws ELSE parse[<<"list", element.index>>]
       IN  IF Threw(others) THEN Throws
           ELSE Parsed(<<"list", <<element.node>> \o others.node[2]>>, others.index)

\* Mutant of parse_dict: a dictionary needs no closing "e".
parse_dict_open(parse, buffer, index) ==
  IF index > Len(buffer) THEN Parsed(<<"dict", EmptyDict>>, index)
  ELSE IF buffer[index] = "e" THEN Parsed(<<"dict", EmptyDict>>, index + 1)
  ELSE IF ~ isdigit(buffer[index]) THEN Throws
  ELSE LET key    == parse_string(buffer, index)
           value  == IF Threw(key) THEN Throws ELSE parse[<<"node", key.index>>]
           others == IF Threw(value) THEN Throws ELSE parse[<<"dict", value.index>>]
       IN  IF Threw(others) THEN Throws
           ELSE Parsed(<<"dict", WithEntry(others.node[2], key.node[2], value.node)>>,
                       others.index)

parse_dict(parse, buffer, index) ==
  IF index > Len(buffer) THEN Throws
  ELSE IF buffer[index] = "e" THEN Parsed(<<"dict", EmptyDict>>, index + 1)
  ELSE IF ~ isdigit(buffer[index]) THEN Throws
  ELSE LET key    == parse_string(buffer, index)
           value  == IF Threw(key) THEN Throws ELSE parse[<<"node", key.index>>]
           others == IF Threw(value) THEN Throws ELSE parse[<<"dict", value.index>>]
       IN  IF Threw(others) THEN Throws
           ELSE Parsed(<<"dict", WithEntry(others.node[2], key.node[2], value.node)>>,
                       others.index)

parse_node(parse, buffer, index) ==
  IF index > Len(buffer) THEN Throws
  ELSE IF isdigit(buffer[index]) THEN parse_string(buffer, index)
  ELSE IF buffer[index] = "i" THEN parse_integer(buffer, index)
  ELSE IF buffer[index] = "l" THEN parse[<<"list", index + 1>>]
  ELSE IF buffer[index] = "d" THEN parse[<<"dict", index + 1>>]
  ELSE Throws

parse_bencode(buffer, index) ==
  LET parse[at \in {"node", "list", "dict"} \X (1 .. Len(buffer) + 1)] ==
        IF at[1] = "node" THEN parse_node(parse, buffer, at[2])
        ELSE IF at[1] = "list" THEN parse_list(parse, buffer, at[2])
        ELSE parse_dict(parse, buffer, at[2])
  IN  parse[<<"node", index>>]
=============================================================================
