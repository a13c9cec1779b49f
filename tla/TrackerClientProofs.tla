------------------------ MODULE TrackerClientProofs -------------------------
(***************************************************************************)
(* What TrackerClient keeps for all trackers, whatever their protocols,    *)
(* the announce-lists and the answers.                                     *)
(*                                                                         *)
(* Progress is the inductive invariant: it says what has become of every   *)
(* tracker the loop of fetch_peers has passed.                             *)
(***************************************************************************)
EXTENDS TrackerClient, NaturalSets, TLAPS

\* A tracker that announce would ask has been asked, or could not be.
Tried(u) == Protocol[u] = "http" => u \in contacted \cup unreachable

\* Where the search is, and that it has tried the trackers it has passed.
Progress ==
  /\ announce_url \in Url \cup {Empty} /\ announce_list \in AnnounceLists
  /\ stage = "called" => at = 1
  /\ stage \in {"announce", "connect", "read", "returned"} => at \in DOMAIN trackers_list
  /\ at = 1 \/ at \in DOMAIN trackers_list
  /\ stage \in {"read", "returned"} => url \in contacted
  /\ stage # "called" => \A i \in 1 .. at - 1 : Tried(trackers_list[i])
  /\ stage = "threw" => \A i \in DOMAIN trackers_list : Tried(trackers_list[i])

\* Only the answer that ends the search has peers.
AnswerEnds ==
  /\ answered # {} => stage = "returned" /\ answered = {url}
  /\ stage = "returned" => Len(peers) >= peers_binary \div 6

RestTypes ==
  /\ stage \in Stages
  /\ response_data \in {"nothing", "head", "cut", "whole"}
  /\ peers_binary \in Nat /\ peers \in Seq(Nat)
  /\ contacted \subseteq Url /\ unreachable \subseteq Url /\ answered \subseteq Url

IInv == Progress /\ AnswerEnds /\ RestTypes

-----------------------------------------------------------------------------
(* Lemmas on the list of trackers.                                         *)

\* What listed is said to be, up to n.
IsListed(g, n) ==
  g = [i \in 0 .. n |->
         IF i = 0 THEN IF announce_url # Empty THEN <<announce_url>> ELSE << >>
         ELSE IF announce_list[i] = announce_url THEN g[i - 1]
         ELSE Append(g[i - 1], announce_list[i])]

\* There is a function that satisfies the equation of listed: what the recursive
\* definition names exists.
LEMMA ListedExists ==
  ASSUME announce_list \in Seq(Url)
  PROVE  \E g : IsListed(g, Len(announce_list))
<1> DEFINE S == {n \in Nat : \E g : IsListed(g, n)}
           first == IF announce_url # Empty THEN <<announce_url>> ELSE << >>
<1>1. 0 \in S
  <2> DEFINE g == [i \in 0 .. 0 |-> first]
  <2>1. g = [i \in 0 .. 0 |->
               IF i = 0 THEN first
               ELSE IF announce_list[i] = announce_url THEN g[i - 1]
               ELSE Append(g[i - 1], announce_list[i])]
    OBVIOUS
  <2> HIDE DEF g
  <2>2. IsListed(g, 0)
    BY <2>1 DEF IsListed
  <2> QED
    BY <2>2
<1>2. ASSUME NEW n \in Nat, n \in S
      PROVE  n + 1 \in S
  <2>1. PICK g : IsListed(g, n)
    BY <1>2
  <2> DEFINE h == [i \in 0 .. n + 1 |->
                     IF i = 0 THEN first
                     ELSE IF announce_list[i] = announce_url THEN g[i - 1]
                     ELSE Append(g[i - 1], announce_list[i])]
  <2>2. ASSUME NEW i \in 0 .. n
        PROVE  h[i] = g[i]
    <3>1. g[i] = IF i = 0 THEN first
                 ELSE IF announce_list[i] = announce_url THEN g[i - 1]
                 ELSE Append(g[i - 1], announce_list[i])
      BY <2>1 DEF IsListed
    <3> QED
      BY <3>1
  <2>3. h = [i \in 0 .. n + 1 |->
               IF i = 0 THEN first
               ELSE IF announce_list[i] = announce_url THEN h[i - 1]
               ELSE Append(h[i - 1], announce_list[i])]
    <3>1. ASSUME NEW i \in 0 .. n + 1, i # 0
          PROVE  g[i - 1] = h[i - 1]
      <4>1. i - 1 \in 0 .. n
        BY <3>1
      <4> HIDE DEF h
      <4> QED
        BY <2>2, <4>1
    <3> QED
      BY <3>1
  <2> HIDE DEF h
  <2>4. IsListed(h, n + 1)
    BY <2>3 DEF IsListed
  <2> QED
    BY <2>4
<1>3. Nat \subseteq S
  <2> HIDE DEF S
  <2> QED
    BY <1>1, <1>2, SetInduction
<1> QED
  BY <1>3

\* The list begins with announce_url; a turn of the loop adds the next tracker of
\* the announce-list to it, or leaves it as it is.
LEMMA ListedSteps ==
  ASSUME announce_list \in Seq(Url)
  PROVE  \A i \in 0 .. Len(announce_list) :
           listed[i] =
             IF i = 0 THEN IF announce_url # Empty THEN <<announce_url>> ELSE << >>
             ELSE IF announce_list[i] = announce_url THEN listed[i - 1]
             ELSE Append(listed[i - 1], announce_list[i])
<1>1. IsListed(listed, Len(announce_list))
  BY ListedExists DEF listed, IsListed
<1> DEFINE g == listed
<1>2. IsListed(g, Len(announce_list))
  BY <1>1
<1> HIDE DEF g
<1>3. \A i \in 0 .. Len(announce_list) :
        g[i] = IF i = 0 THEN IF announce_url # Empty THEN <<announce_url>> ELSE << >>
               ELSE IF announce_list[i] = announce_url THEN g[i - 1]
               ELSE Append(g[i - 1], announce_list[i])
  BY <1>2 DEF IsListed
<1> QED
  BY <1>3 DEF g

\* fetch_peers goes through the tracker of announce and those of announce-list, and
\* leaves none out.
LEMMA TrackersListed ==
  ASSUME TrackerAssumption, announce_url \in Url \cup {Empty}, announce_list \in Seq(Url)
  PROVE  /\ trackers_list \in Seq(Url)
         /\ \A u \in Url :
              (u = announce_url \/ \E i \in DOMAIN announce_list : announce_list[i] = u)
              => \E i \in DOMAIN trackers_list : trackers_list[i] = u
<1> DEFINE L == listed
           In(u, s) == \E i \in DOMAIN s : s[i] = u
           S == {n \in Nat : n <= Len(announce_list) =>
                   /\ L[n] \in Seq(Url)
                   /\ announce_url # Empty => In(announce_url, L[n])
                   /\ \A i \in 1 .. n : In(announce_list[i], L[n])}
<1>1. \A i \in 0 .. Len(announce_list) :
        L[i] = IF i = 0 THEN IF announce_url # Empty THEN <<announce_url>> ELSE << >>
               ELSE IF announce_list[i] = announce_url THEN L[i - 1]
               ELSE Append(L[i - 1], announce_list[i])
  BY ListedSteps
<1>2. trackers_list = L[Len(announce_list)]
  BY DEF trackers_list
<1>3. /\ Len(announce_list) \in Nat
      /\ DOMAIN announce_list = 1 .. Len(announce_list)
      /\ \A i \in 1 .. Len(announce_list) : announce_list[i] \in Url
      /\ Empty \notin Url
  BY DEF TrackerAssumption
<1> HIDE DEF L
<1>4. 0 \in S
  <2>1. L[0] = IF announce_url # Empty THEN <<announce_url>> ELSE << >>
    BY <1>1, <1>3
  <2>2. announce_url # Empty => /\ L[0] \in Seq(Url) /\ 1 \in DOMAIN L[0]
                                /\ L[0][1] = announce_url
    BY <2>1
  <2>3. announce_url = Empty => L[0] \in Seq(Url)
    BY <2>1
  <2> QED
    BY <2>2, <2>3
<1>5. ASSUME NEW n \in Nat, n \in S
      PROVE  n + 1 \in S
  <2> DEFINE k == n + 1
  <2> SUFFICES ASSUME k <= Len(announce_list)
               PROVE  /\ L[k] \in Seq(Url)
                      /\ announce_url # Empty => In(announce_url, L[k])
                      /\ \A i \in 1 .. k : In(announce_list[i], L[k])
    OBVIOUS
  <2>1. /\ k \in 1 .. Len(announce_list) /\ k \in 0 .. Len(announce_list) /\ k # 0
        /\ k - 1 = n /\ n <= Len(announce_list)
    BY <1>3
  <2>2. /\ L[n] \in Seq(Url)
        /\ announce_url # Empty => In(announce_url, L[n])
        /\ \A i \in 1 .. n : In(announce_list[i], L[n])
    BY <1>5, <2>1
  <2>3. L[k] = IF announce_list[k] = announce_url THEN L[n]
               ELSE Append(L[n], announce_list[k])
    BY <1>1, <2>1
  <2>4. announce_list[k] \in Url
    BY <1>3, <2>1
  <2>5. \A i \in 1 .. k : i \in 1 .. n \/ i = k
    OBVIOUS
  <2> HIDE DEF k
  <2>6. CASE announce_list[k] = announce_url
    <3>1. L[k] = L[n]
      BY <2>3, <2>6
    <3>2. announce_list[k] # Empty
      BY <1>3, <2>4
    <3> QED
      BY <2>2, <2>5, <2>6, <3>1, <3>2
  <2>7. CASE announce_list[k] # announce_url
    <3>1. L[k] = Append(L[n], announce_list[k])
      BY <2>3, <2>7
    <3>2. L[k] \in Seq(Url)
      BY <2>2, <2>4, <3>1
    <3>3. \A i \in DOMAIN L[n] : i \in DOMAIN L[k] /\ L[k][i] = L[n][i]
      BY <2>2, <2>4, <3>1
    <3>4. In(announce_list[k], L[k])
      <4>1. /\ Len(L[n]) + 1 \in DOMAIN L[k]
            /\ L[k][Len(L[n]) + 1] = announce_list[k]
        BY <2>2, <2>4, <3>1
      <4> QED
        BY <4>1
    <3>5. \A u : In(u, L[n]) => In(u, L[k])
      BY <3>3
    <3> HIDE DEF In
    <3> QED
      BY <2>2, <2>5, <3>2, <3>4, <3>5
  <2> QED
    BY <2>6, <2>7
<1>6. Len(announce_list) \in S
  <2>1. Nat \subseteq S
    <3> HIDE DEF S
    <3> QED
      BY <1>4, <1>5, SetInduction
  <2> QED
    BY <1>3, <2>1
<1>7. /\ trackers_list \in Seq(Url)
      /\ announce_url # Empty => In(announce_url, trackers_list)
      /\ \A i \in DOMAIN announce_list : In(announce_list[i], trackers_list)
  BY <1>2, <1>3, <1>6
<1>8. ASSUME NEW u \in Url,
             u = announce_url \/ \E i \in DOMAIN announce_list : announce_list[i] = u
      PROVE  In(u, trackers_list)
  <2> HIDE DEF In
  <2> QED
    BY <1>3, <1>7, <1>8
<1> QED
  BY <1>7, <1>8

-----------------------------------------------------------------------------
(* The steps of the search.                                                *)

\* What the invariant says of the list of trackers.
LEMMA ListKnown ==
  ASSUME TrackerAssumption, Progress
  PROVE  /\ trackers_list \in Seq(Url)
         /\ Len(trackers_list) \in Nat
         /\ DOMAIN trackers_list = 1 .. Len(trackers_list)
         /\ at \in Nat \ {0}
         /\ stage \in {"announce", "connect", "read", "returned"} => url \in Url
<1>1. announce_list \in Seq(Url) /\ announce_url \in Url \cup {Empty}
  BY DEF Progress, TrackerAssumption
<1>2. trackers_list \in Seq(Url)
  BY <1>1, TrackersListed
<1>3. /\ Len(trackers_list) \in Nat
      /\ DOMAIN trackers_list = 1 .. Len(trackers_list)
  BY <1>2
<1>4. at \in Nat \ {0}
  BY <1>3 DEF Progress
<1>5. stage \in {"announce", "connect", "read", "returned"} => url \in Url
  BY <1>2, <1>3 DEF Progress, url
<1> QED
  BY <1>2, <1>3, <1>4, <1>5

\* The list stays as it is while fetch_peers goes through it.
LEMMA ListStays ==
  ASSUME UNCHANGED torrent
  PROVE  UNCHANGED trackers_list
BY DEF torrent, trackers_list, listed

\* Going on from a tracker that has been tried keeps the account of the search.
LEMMA NextTrackerKeeps ==
  ASSUME TrackerAssumption, Progress, stage \in {"announce", "connect", "read"},
         NextTracker, contacted \subseteq contacted', unreachable \subseteq unreachable',
         Protocol[url] = "http" => url \in contacted' \cup unreachable'
  PROVE  Progress' /\ stage' \in {"announce", "threw"}
<1> DEFINE L == trackers_list
<1>1. /\ Len(L) \in Nat /\ DOMAIN L = 1 .. Len(L) /\ at \in 1 .. Len(L)
      /\ \A i \in 1 .. at - 1 : Tried(L[i])
  BY ListKnown DEF Progress
<1>2. L' = L
  BY ListStays DEF NextTracker
<1>3. UNCHANGED <<announce_url, announce_list>>
  BY DEF NextTracker, torrent
<1>4. L[at] = url
  BY DEF url
<1> HIDE DEF L
<1>5. \A i \in 1 .. at : Tried(L[i])'
  <2> TAKE i \in 1 .. at
  <2>1. CASE i = at
    BY <1>2, <1>4, <2>1 DEF Tried
  <2>2. CASE i # at
    <3>1. i \in 1 .. at - 1
      BY <1>1, <2>2
    <3>2. Tried(L[i])
      BY <1>1, <3>1
    <3> QED
      BY <1>2, <3>2 DEF Tried
  <2> QED
    BY <2>1, <2>2
<1>6. CASE at < Len(L) /\ stage' = "announce" /\ at' = at + 1
  <2>1. at' \in DOMAIN L /\ at' - 1 = at
    BY <1>1, <1>6
  <2> QED
    BY <1>2, <1>3, <1>5, <1>6, <2>1 DEF Progress, L
<1>7. CASE ~ (at < Len(L)) /\ stage' = "threw" /\ at' = at
  <2>1. Len(L) = at
    <3> DEFINE n == Len(L)
    <3>1. n \in Nat /\ at \in 1 .. n /\ ~ (at < n)
      BY <1>1, <1>7
    <3> HIDE DEF n
    <3>2. n = at
      BY <3>1
    <3> QED
      BY <3>2 DEF n
  <2>2. \A i \in DOMAIN L' : Tried(L[i])'
    BY <1>1, <1>2, <1>5, <2>1
  <2>3. \A i \in 1 .. at' - 1 : Tried(L[i])'
    BY <1>1, <1>5, <1>7
  <2>4. at' \in DOMAIN L'
    BY <1>1, <1>2, <1>7
  <2> QED
    BY <1>2, <1>3, <1>7, <2>2, <2>3, <2>4 DEF Progress, L
<1> QED
  BY <1>6, <1>7 DEF NextTracker, L

\* The account of the search is kept by every step.
LEMMA StepProgress ==
  ASSUME TrackerAssumption, Progress, RestTypes, [Next]_vars
  PROVE  Progress'
<1> USE DEF network, result
<1>1. CASE UNCHANGED vars
  <2>1. UNCHANGED <<torrent, announce_url, announce_list, stage, at, contacted, unreachable>>
    BY <1>1 DEF vars, torrent
  <2>2. UNCHANGED trackers_list
    BY <2>1, ListStays
  <2> QED
    BY <2>1, <2>2 DEF Progress, Tried, url
<1>2. CASE fetch_peers
  <2>1. /\ stage = "called" /\ at = 1
        /\ stage' = IF trackers_list = << >> THEN "threw" ELSE "announce"
        /\ UNCHANGED <<torrent, announce_url, announce_list, at, contacted, unreachable>>
    BY <1>2 DEF fetch_peers, torrent, Progress
  <2>2. UNCHANGED trackers_list
    BY <2>1, ListStays
  <2>3. /\ trackers_list \in Seq(Url)
        /\ DOMAIN trackers_list = 1 .. Len(trackers_list)
    BY ListKnown
  <2>4. CASE trackers_list = << >>
    <3>1. DOMAIN trackers_list' = {}
      BY <2>2, <2>3, <2>4
    <3> QED
      BY <2>1, <2>4, <3>1 DEF Progress
  <2>5. CASE trackers_list # << >>
    <3>1. 1 \in DOMAIN trackers_list'
      BY <2>2, <2>3, <2>5
    <3> QED
      BY <2>1, <2>5, <3>1 DEF Progress
  <2> QED
    BY <2>4, <2>5
<1>3. CASE announce
  <2>1. /\ stage = "announce" /\ UNCHANGED <<contacted, unreachable>>
    BY <1>3 DEF announce
  <2>2. CASE stage' = "connect" /\ UNCHANGED <<torrent, at>>
    <3>1. UNCHANGED <<trackers_list, announce_url, announce_list>>
      BY <2>2, ListStays DEF torrent
    <3> QED
      BY <2>1, <2>2, <3>1 DEF Progress, Tried
  <2>3. CASE NextTracker /\ (~ parse_url(url) \/ Protocol[url] # "http")
    <3>1. Protocol[url] # "http"
      BY <2>3 DEF parse_url
    <3> QED
      BY <2>1, <2>3, <3>1, NextTrackerKeeps
  <2> QED
    BY <1>3, <2>2, <2>3 DEF announce
<1>4. CASE ConnectThrows
  <2>1. /\ stage = "connect" /\ NextTracker
        /\ unreachable' = unreachable \cup {url} /\ UNCHANGED contacted
    BY <1>4 DEF ConnectThrows
  <2> QED
    BY <2>1, NextTrackerKeeps
<1>5. CASE RequestSent
  <2>1. /\ stage = "connect" /\ stage' = "read"
        /\ contacted' = contacted \cup {url}
        /\ UNCHANGED <<torrent, announce_url, announce_list, at, unreachable>>
    BY <1>5 DEF RequestSent, torrent
  <2>2. UNCHANGED trackers_list
    BY <2>1, ListStays
  <2> QED
    BY <2>1, <2>2 DEF Progress, Tried, url
<1>6. CASE \E upto \in {"head", "cut", "whole"} : BytesRead(upto)
  <2>1. UNCHANGED <<torrent, announce_url, announce_list, stage, at, contacted, unreachable>>
    BY <1>6 DEF BytesRead, torrent
  <2>2. UNCHANGED trackers_list
    BY <2>1, ListStays
  <2> QED
    BY <2>1, <2>2 DEF Progress, Tried, url
<1>7. CASE NoAnswer
  <2>1. stage = "read" /\ NextTracker /\ UNCHANGED <<contacted, unreachable>>
    BY <1>7 DEF NoAnswer
  <2>2. url \in contacted
    BY <2>1 DEF Progress
  <2> QED
    BY <2>1, <2>2, NextTrackerKeeps
<1>8. CASE \E n \in PeerBytes : Answer(n)
  <2>1. stage = "read" /\ UNCHANGED <<contacted, unreachable>>
    BY <1>8 DEF Answer
  <2>2. url \in contacted
    BY <2>1 DEF Progress
  <2>3. CASE NextTracker
    BY <2>1, <2>2, <2>3, NextTrackerKeeps
  <2>4. CASE stage' = "returned" /\ UNCHANGED <<torrent, at>>
    <3>1. UNCHANGED <<trackers_list, announce_url, announce_list>>
      BY <2>4, ListStays DEF torrent
    <3> QED
      BY <2>1, <2>4, <3>1 DEF Progress, Tried, url
  <2> QED
    BY <1>8, <2>3, <2>4 DEF Answer
<1> QED
  BY <1>1, <1>2, <1>3, <1>4, <1>5, <1>6, <1>7, <1>8 DEF Next, Returned

\* Every variable keeps its type.
LEMMA StepRestTypes ==
  ASSUME TrackerAssumption, Progress, RestTypes, [Next]_vars
  PROVE  RestTypes'
<1> USE DEF network, result
<1>1. stage \in {"announce", "connect", "read", "returned"} => url \in Url
  BY ListKnown
<1>2. stage' \in Stages
  BY DEF Next, fetch_peers, announce, ConnectThrows, RequestSent, BytesRead, NoAnswer,
         Answer, NextTracker, Returned, vars, RestTypes, Stages
<1>3. response_data' \in {"nothing", "head", "cut", "whole"}
  BY DEF Next, fetch_peers, announce, ConnectThrows, RequestSent, BytesRead, NoAnswer,
         Answer, Returned, vars, RestTypes
<1>4. contacted' \subseteq Url /\ unreachable' \subseteq Url /\ answered' \subseteq Url
  BY <1>1
     DEF Next, fetch_peers, announce, ConnectThrows, RequestSent, BytesRead, NoAnswer,
         Answer, Returned, vars, RestTypes
<1>5. peers_binary' \in Nat /\ peers' \in Seq(Nat)
  <2>1. CASE \E n \in PeerBytes : Answer(n)
    <3>1. PICK n \in PeerBytes : Answer(n)
      BY <2>1
    <3>2. n \in Nat
      BY DEF TrackerAssumption
    <3>3. (n + 5) \div 6 \in Nat
      BY <3>2
    <3> DEFINE k == (n + 5) \div 6
    <3>4. peers' = [i \in 1 .. k |-> 6 * (i - 1)] /\ peers_binary' = n
      BY <3>1 DEF Answer, parse_peer_binary
    <3>5. k \in Nat
      BY <3>3
    <3> HIDE DEF k
    <3>6. [i \in 1 .. k |-> 6 * (i - 1)] \in Seq(Nat)
      <4>1. [i \in 1 .. k |-> 6 * (i - 1)] \in [1 .. k -> Nat]
        BY <3>5
      <4> QED
        BY <3>5, <4>1
    <3> QED
      BY <3>2, <3>4, <3>6
  <2>2. CASE UNCHANGED <<peers_binary, peers>>
    BY <2>2 DEF RestTypes
  <2> QED
    BY <2>1, <2>2
       DEF Next, fetch_peers, announce, ConnectThrows, RequestSent, BytesRead, NoAnswer,
           Returned, vars
<1> QED
  BY <1>2, <1>3, <1>4, <1>5 DEF RestTypes

\* Only the answer that ends the search has peers, and its peers are the result.
LEMMA StepAnswerEnds ==
  ASSUME TrackerAssumption, Progress, RestTypes, AnswerEnds, [Next]_vars
  PROVE  AnswerEnds'
<1> USE DEF network, result
<1>1. CASE UNCHANGED vars
  <2>1. UNCHANGED <<torrent, stage, at, result, answered>>
    BY <1>1 DEF vars
  <2>2. UNCHANGED trackers_list
    BY <2>1, ListStays
  <2> QED
    BY <2>1, <2>2 DEF AnswerEnds, url
<1>2. CASE \E n \in PeerBytes : Answer(n)
  <2>1. PICK n \in PeerBytes : Answer(n)
    BY <1>2
  <2> DEFINE k == (n + 5) \div 6
             m == n \div 6
  <2>2. n \in Nat /\ k \in Nat /\ m \in Nat /\ m <= k /\ (n >= 6 => k # 0)
    BY DEF TrackerAssumption
  <2>3. /\ stage = "read" /\ answered = {}
        /\ answered' = IF n >= 6 THEN answered \cup {url} ELSE answered
        /\ peers_binary' = n
        /\ peers' = [i \in 1 .. k |-> 6 * (i - 1)]
    BY <2>1 DEF Answer, AnswerEnds, parse_peer_binary
  <2>4. peers_binary' \div 6 = m
    BY <2>3
  <2> HIDE DEF k, m
  <2>5. Len(peers') = k
    BY <2>2, <2>3
  <2>6. CASE peers' = << >>
    <3>1. k = 0
      BY <2>2, <2>5, <2>6
    <3>2. answered' = {} /\ stage' # "returned"
      BY <2>1, <2>2, <2>3, <2>6, <3>1 DEF Answer, NextTracker
    <3> QED
      BY <3>2 DEF AnswerEnds
  <2>7. CASE peers' # << >>
    <3>1. stage' = "returned" /\ UNCHANGED <<torrent, at>>
      BY <2>1, <2>7 DEF Answer
    <3>2. url' = url
      BY <3>1, ListStays DEF url
    <3>3. answered' # {} => answered' = {url'}
      BY <2>3, <3>2
    <3>4. Len(peers') >= peers_binary' \div 6
      BY <2>2, <2>4, <2>5
    <3> QED
      BY <3>1, <3>3, <3>4 DEF AnswerEnds
  <2> QED
    BY <2>6, <2>7
<1>3. CASE stage # "returned" /\ stage' # "returned" /\ UNCHANGED answered
  BY <1>3 DEF AnswerEnds
<1> QED
  BY <1>1, <1>2, <1>3
     DEF Next, fetch_peers, announce, ConnectThrows, RequestSent, BytesRead, NoAnswer,
         NextTracker, Returned

-----------------------------------------------------------------------------
\* The inductive invariant holds in every reachable state.
THEOREM SearchInvariance == Spec => []IInv
<1>1. Init => IInv
  <2> SUFFICES ASSUME Init
               PROVE  IInv
    OBVIOUS
  <2> USE DEF Init
  <2>1. << >> \in Seq(Nat)
    OBVIOUS
  <2> QED
    BY <2>1 DEF IInv, Progress, AnswerEnds, RestTypes, Stages
<1>2. IInv /\ [Next]_vars => IInv'
  BY StepProgress, StepRestTypes, StepAnswerEnds, TrackerAssumption DEF IInv
<1> QED
  BY <1>1, <1>2, PTL DEF Spec

\* The loop of fetch_peers never runs past the last tracker.
THEOREM SearchTyped == Spec => []TypeOK
<1>1. IInv => TypeOK
  BY DEF IInv, Progress, RestTypes, TypeOK
<1> QED
  BY <1>1, SearchInvariance, PTL

\* A whole answer with peers is what fetch_peers returns, whichever tracker it came
\* from and whatever the ones before it did.
THEOREM AnswerReturns == Spec => []AnswerIsReturned
<1>1. IInv => AnswerIsReturned
  BY DEF IInv, Progress, AnswerEnds, AnswerIsReturned
<1> QED
  BY <1>1, SearchInvariance, PTL

\* "All trackers failed to return peers." (tracker.cpp:102) is thrown only after
\* every http tracker of the torrent has been asked, or could not be.
THEOREM TrackersAreTried == Spec => []AllTrackersTried
<1>1. IInv => AllTrackersTried
  <2> SUFFICES ASSUME IInv, stage = "threw", NEW u \in Url, Protocol[u] = "http",
                      u = announce_url
                        \/ \E i \in DOMAIN announce_list : announce_list[i] = u
               PROVE  u \in contacted \cup unreachable
    BY DEF AllTrackersTried
  <2>1. announce_url \in Url \cup {Empty} /\ announce_list \in Seq(Url)
    BY TrackerAssumption DEF IInv, Progress, TrackerAssumption
  <2>2. PICK i \in DOMAIN trackers_list : trackers_list[i] = u
    BY <2>1, TrackerAssumption, TrackersListed
  <2> QED
    BY <2>2 DEF IInv, Progress, Tried
<1> QED
  BY <1>1, SearchInvariance, PTL
=============================================================================
