-------------------------- MODULE MCTrackerClient ---------------------------
(* Values for the constants of TrackerClient.                              *)
EXTENDS TrackerClient

Trackers == {"a", "b", "secure", "datagram", "broken"}

Protocols == [u \in Trackers |->
                CASE u = "secure" -> "https" [] u = "datagram" -> "udp"
                  [] u = "broken" -> "none" [] OTHER -> "http"]

\* Every list of up to two trackers, and some that repeat or mix them.
Lists == UNION {[1 .. n -> Trackers] : n \in 0 .. 2}
           \cup {<<"a", "secure", "b">>, <<"datagram", "b", "b">>, <<"b", "a", "b">>}
=============================================================================
