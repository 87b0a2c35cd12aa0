--------------------------- MODULE MCPeerListing ----------------------------
(* Instances of PeerListing for TLC: machine "a" with its sidecar, which   *)
(* come and go, and whose machine goes offline.                            *)
EXTENDS PeerListing

CONSTANTS c1, c2

Machine(h, up) == [host |-> h, kit |-> FALSE, online |-> up]
Sidecar(h) == [host |-> h, kit |-> TRUE, online |-> TRUE]

FewLists == {{},
             {Machine("a", TRUE), Sidecar("a")},
             {Machine("a", FALSE), Machine("b", TRUE), Sidecar("a")}}
=============================================================================
