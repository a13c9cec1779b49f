--------------------------- MODULE TrackerClient ----------------------------
(***************************************************************************)
(* Where the pool of peers comes from: TrackerClient::fetch_peers          *)
(* (engine/src/tracker.cpp), which asks the trackers of a torrent one      *)
(* after the other, over blocking sockets, until one of them names peers.  *)
(*                                                                         *)
(* A response is known by how much of it has arrived and by what its body  *)
(* says; a body that is cut off is no Bencode value, and parse_bencode     *)
(* throws.  Every exception of announce ends in fetch_peers, which goes on *)
(* with the next tracker.                                                  *)
(***************************************************************************)
EXTENDS Integers, Sequences

CONSTANTS
  Url,            \* the trackers of the torrents under consideration
  Empty,          \* the announce_url of a torrent whose announce is ""
  Protocol,       \* what parse_url matches: "http", "https", "udp" or "none"
  AnnounceLists,  \* the announce-lists of the torrents
  PeerBytes       \* how long a peers string may be

ASSUME TrackerAssumption ==
  /\ Protocol \in [Url -> {"http", "https", "udp", "none"}]
  /\ Empty \notin Url
  /\ AnnounceLists \subseteq Seq(Url)
  /\ PeerBytes \subseteq Nat

VARIABLES
  announce_url,
  announce_list,
  stage,          \* where fetch_peers is
  at,             \* the tracker of trackers_list it is at
  response_data,  \* how much has arrived: "nothing", "head", "cut", "whole"
  peers_binary,   \* the length of the peers string it has extracted
  peers,          \* where each entry of the result begins in that string
  contacted,      \* the trackers a request was sent to
  unreachable,    \* the trackers a request could not be sent to
  answered        \* the trackers that sent a whole answer with peers and closed

torrent == <<announce_url, announce_list>>
result  == <<peers_binary, peers>>
network == <<contacted, unreachable, answered>>
vars    == <<torrent, stage, at, response_data, result, network>>

Stages == {"called", "announce", "connect", "read", "returned", "threw"}

\* Mutant of trackers_list: the announce-list only stands in for a missing announce.
trackers_list_either ==
  IF announce_url # Empty THEN <<announce_url>> ELSE announce_list

\* The list after i turns of the loop over the announce-list, which leaves out the
\* announce_url.
listed[i \in 0 .. Len(announce_list)] ==
  IF i = 0 THEN IF announce_url # Empty THEN <<announce_url>> ELSE << >>
  ELSE IF announce_list[i] = announce_url THEN listed[i - 1]
  ELSE Append(listed[i - 1], announce_list[i])

trackers_list == listed[Len(announce_list)]

url == trackers_list[at]

parse_url(u) == Protocol[u] # "none"

TypeOK ==
  /\ announce_url \in Url \cup {Empty} /\ announce_list \in AnnounceLists
  /\ stage \in Stages
  /\ at = 1 \/ at \in DOMAIN trackers_list
  /\ response_data \in {"nothing", "head", "cut", "whole"}
  /\ peers_binary \in Nat /\ peers \in Seq(Nat)
  /\ contacted \subseteq Url /\ unreachable \subseteq Url /\ answered \subseteq Url

Init ==
  /\ announce_url \in Url \cup {Empty} /\ announce_list \in AnnounceLists
  /\ stage = "called" /\ at = 1
  /\ response_data = "nothing"
  /\ peers_binary = 0 /\ peers = << >>
  /\ contacted = {} /\ unreachable = {} /\ answered = {}

-----------------------------------------------------------------------------
fetch_peers ==
  /\ stage = "called"
  /\ stage' = IF trackers_list = << >> THEN "threw" ELSE "announce"
  /\ UNCHANGED <<torrent, at, response_data, result, network>>

\* Mutants of NextTracker: the loop runs past the last tracker; the same one is tried
\* again.
NextTrackerOn ==
  /\ IF at <= Len(trackers_list) THEN stage' = "announce" /\ at' = at + 1
                                 ELSE stage' = "threw" /\ UNCHANGED at
  /\ UNCHANGED torrent

NextTrackerStays ==
  /\ stage' = "announce"
  /\ UNCHANGED <<torrent, at>>

\* An exception, or no peers: the loop of fetch_peers goes on.
NextTracker ==
  /\ IF at < Len(trackers_list) THEN stage' = "announce" /\ at' = at + 1
                                ELSE stage' = "threw" /\ UNCHANGED at
  /\ UNCHANGED torrent

\* Only http goes through; https and udp throw as an invalid URL does.
announce ==
  /\ stage = "announce"
  /\ response_data' = "nothing"
  /\ \/ /\ parse_url(url) /\ Protocol[url] = "http"
        /\ stage' = "connect"
        /\ UNCHANGED <<torrent, at>>
     \/ /\ ~ parse_url(url) \/ Protocol[url] # "http"
        /\ NextTracker
  /\ UNCHANGED <<result, network>>

\* Resolving, connecting or writing the request throws.
ConnectThrows ==
  /\ stage = "connect"
  /\ unreachable' = unreachable \cup {url}
  /\ NextTracker
  /\ UNCHANGED <<response_data, result, contacted, answered>>

RequestSent ==
  /\ stage = "connect"
  /\ stage' = "read"
  /\ contacted' = contacted \cup {url}
  /\ UNCHANGED <<torrent, at, response_data, result, unreachable, answered>>

\* read_some returns some bytes: part of the header, all of it, the whole response.
BytesRead(upto) ==
  /\ stage = "read"
  /\ <<response_data, upto>> \in {<<"nothing", "head">>, <<"nothing", "cut">>,
        <<"nothing", "whole">>, <<"head", "cut">>, <<"head", "whole">>,
        <<"cut", "whole">>}
  /\ response_data' = upto
  /\ UNCHANGED <<torrent, stage, at, result, network>>

\* read_some reports another error than eof, and what has arrived is thrown away; or
\* it reports eof, and the response is no answer: it has no delimiter, or its body
\* is cut off, no dictionary, or one with a failure reason or no string of peers.
NoAnswer ==
  /\ stage = "read"
  /\ NextTracker
  /\ UNCHANGED <<response_data, result, network>>

\* Mutant of parse_peer_binary: "i + 6 < length".
parse_peer_binary_but_last(n) == [i \in 1 .. (n - 1) \div 6 |-> 6 * (i - 1)]

\* An entry is read at every sixth byte, also where fewer than six are left.
parse_peer_binary(n) == [i \in 1 .. (n + 5) \div 6 |-> 6 * (i - 1)]

\* Eof after a whole response with n bytes of peers.
Answer(n) ==
  /\ stage = "read" /\ response_data = "whole"
  /\ answered' = IF n >= 6 THEN answered \cup {url} ELSE answered
  /\ peers_binary' = n
  /\ peers' = parse_peer_binary(n)
  /\ IF peers' = << >> THEN NextTracker
                       ELSE stage' = "returned" /\ UNCHANGED <<torrent, at>>
  /\ UNCHANGED <<response_data, contacted, unreachable>>

Returned == stage \in {"returned", "threw"} /\ UNCHANGED vars

Next ==
  \/ fetch_peers \/ announce \/ ConnectThrows \/ RequestSent
  \/ \E upto \in {"head", "cut", "whole"} : BytesRead(upto)
  \/ NoAnswer
  \/ \E n \in PeerBytes : Answer(n)
  \/ Returned

Spec == Init /\ [][Next]_vars

(* Fairness: fetch_peers runs on, a connection attempt ends, and a tracker *)
(* that was asked for "Connection: close" closes in the end.  Nothing in   *)
(* the code bounds the wait for it.                                        *)
FairSpec ==
  /\ Spec
  /\ WF_vars(fetch_peers) /\ WF_vars(announce)
  /\ WF_vars(ConnectThrows \/ RequestSent)
  /\ WF_vars(NoAnswer \/ \E n \in PeerBytes : Answer(n))

-----------------------------------------------------------------------------
(* Properties.                                                             *)

\* A whole answer with peers is what fetch_peers returns, whichever tracker it came
\* from and whatever the ones before it did; without one it makes up no peers.
AnswerIsReturned ==
  /\ answered # {} => stage = "returned" /\ answered = {url}
  /\ stage = "returned" => /\ url \in contacted
                           /\ Len(peers) >= peers_binary \div 6

\* "All trackers failed to return peers." (tracker.cpp:102): before it gives up,
\* fetch_peers has asked every http tracker of announce and announce-list, or found
\* that it cannot be reached.
AllTrackersTried ==
  stage = "threw" =>
    \A u \in Url : /\ u = announce_url \/ \E i \in DOMAIN announce_list : announce_list[i] = u
                  /\ Protocol[u] = "http"
                  => u \in contacted \cup unreachable

\* "Trying tracker: " (tracker.cpp:89): a tracker that has been tried has been asked,
\* or cannot be reached, if its URL is one that parse_url takes.
TriedIsContacted ==
  \A i \in 1 .. at - 1 :
    parse_url(trackers_list[i]) =>
      trackers_list[i] \in contacted \cup unreachable

\* "Successfully extracted n peers" (tracker.cpp:235): every entry of the result has
\* its six bytes in what the tracker sent.
EntriesAreSent ==
  stage = "returned" => \A i \in DOMAIN peers : peers[i] + 6 <= peers_binary

\* Once every tracker closes its connections, fetch_peers returns or throws.
FetchEnds == <>(stage \in {"returned", "threw"})
=============================================================================
