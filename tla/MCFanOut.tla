------------------------------ MODULE MCFanOut ------------------------------
(* Instances of FanOut for TLC.                                            *)
EXTENDS FanOut

\* Every peer has a host name of its own.
DistinctNames == [p \in Peers |-> <<"host", p>>]
=============================================================================
