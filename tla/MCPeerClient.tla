---------------------------- MODULE MCPeerClient ----------------------------
(* Values for the constants of PeerClient.                                 *)
EXTENDS PeerClient

\* One byte of bits: a peer with the two pieces of the instance, or only the first.
Seed    == <<TRUE, TRUE, FALSE, FALSE, FALSE, FALSE, FALSE, FALSE>>
Partial == <<TRUE, FALSE, FALSE, FALSE, FALSE, FALSE, FALSE, FALSE>>

SeedOnly      == {Seed}
SeedOrPartial == {Seed, Partial}
NoHaves       == {}
AnyHave       == {0, 1}
=============================================================================
