---------------------------- MODULE PeerListing -----------------------------
(***************************************************************************)
(* AllPeers, OnlinePeers and TailkitPeers (peers.go) on top of GetPeers.   *)
(* A listing reads one peer list and then, for every machine in it, calls  *)
(* GetTailkitPeer, which goes through GetPeers again: the entry may expire *)
(* or be replaced by another goroutine in between, so one listing can mix  *)
(* several peer lists.                                                     *)
(*                                                                         *)
(* A peer is [host, kit, online]: kit tells the sidecar, whose HostName is *)
(* "tailkitd-" + host, from the machine host itself.                       *)
(***************************************************************************)
EXTENDS PeerCache

\* The goroutines that list; the other callers only call GetPeers.
CONSTANT Listers

ASSUME ListersAssumption == Listers \subseteq Callers

VARIABLES
  listing,     \* listing[c]: the listing goroutine c is computing
  lastChange   \* when the tailnet last changed (history)

lvars == <<vars, listing, lastChange>>

Ops == {"AllPeers", "OnlinePeers", "TailkitPeers"}

NoListing == [pc |-> "idle", op |-> None, start |-> 0, todo |-> {},
              cur |-> None, out |-> {}]

ListingInit ==
  /\ Init
  /\ listing = [c \in Listers |-> NoListing]
  /\ lastChange = 0

\* The machines, or for TailkitPeers the sidecars, that the loop does not skip.
Selected(op, peers) ==
  CASE op = "AllPeers"     -> {n \in peers : ~n.kit}
    [] op = "OnlinePeers"  -> {n \in peers : n.online /\ ~n.kit}
    [] op = "TailkitPeers" -> {n \in peers : n.kit}

\* The sidecars GetTailkitPeer may return for a machine; a map has no order.
TailkitPeer(n, peers) == {k \in peers : k.kit /\ k.host = n.host}

Link(n, peers) == IF TailkitPeer(n, peers) = {} THEN {None}
                                                ELSE TailkitPeer(n, peers)

\* What a listing returns if every GetPeers it makes returns the same peers.
Exact(op, peers) ==
  UNION {{[peer |-> n, tailkit |-> k] :
            k \in IF op = "TailkitPeers" THEN {n} ELSE Link(n, peers)} :
         n \in Selected(op, peers)}

Start(c) ==
  /\ listing[c].pc \in {"idle", "done", "error"}
  /\ \E op \in Ops :
       listing' = [listing EXCEPT ![c] = [NoListing EXCEPT !.pc = "first",
                                            !.op = op, !.start = now]]
  /\ Begin(c)
  /\ UNCHANGED lastChange

\* The first GetPeers has returned: AllPeers and OnlinePeers range over it ...
First(c) ==
  /\ listing[c].pc = "first"
  /\ listing[c].op # "TailkitPeers"
  /\ call[c].pc = "returned"
  /\ listing' = [listing EXCEPT ![c].pc = "each",
                   ![c].todo = Selected(listing[c].op, call[c].got.peers)]
  /\ Take(c)
  /\ UNCHANGED lastChange

\* ... while TailkitPeers copies the sidecars and is done.
Collect(c) ==
  /\ listing[c].pc = "first"
  /\ listing[c].op = "TailkitPeers"
  /\ call[c].pc = "returned"
  /\ listing' = [listing EXCEPT ![c].pc = "done",
                   ![c].out = Exact("TailkitPeers", call[c].got.peers)]
  /\ Take(c)
  /\ UNCHANGED lastChange

\* The loop body calls GetTailkitPeer for the next machine.
Each(c) ==
  /\ listing[c].pc = "each"
  /\ \E n \in listing[c].todo :
       listing' = [listing EXCEPT ![c].pc = "link", ![c].cur = n,
                                  ![c].todo = @ \ {n}]
  /\ Begin(c)
  /\ UNCHANGED lastChange

Linked(c) ==
  /\ listing[c].pc = "link"
  /\ call[c].pc = "returned"
  /\ \E k \in Link(listing[c].cur, call[c].got.peers) :
       listing' = [listing EXCEPT ![c].pc = "each", ![c].cur = None,
                     ![c].out = @ \cup {[peer |-> listing[c].cur, tailkit |-> k]}]
  /\ Take(c)
  /\ UNCHANGED lastChange

\* Mutant: an error ends the loop, and the machines found so far are returned.
AbandonPartially(c) ==
  /\ listing[c].pc \in {"first", "link"}
  /\ call[c].pc = "failed"
  /\ listing' = [listing EXCEPT ![c].pc = "done", ![c].cur = None, ![c].todo = {}]
  /\ Take(c)
  /\ UNCHANGED lastChange

\* Any GetPeers that fails makes the listing fail; what it has is dropped.
Abandon(c) ==
  /\ listing[c].pc \in {"first", "link"}
  /\ call[c].pc = "failed"
  /\ listing' = [listing EXCEPT ![c] = [NoListing EXCEPT !.pc = "error"]]
  /\ Take(c)
  /\ UNCHANGED lastChange

Finish(c) ==
  /\ listing[c].pc = "each"
  /\ listing[c].todo = {}
  /\ listing' = [listing EXCEPT ![c].pc = "done"]
  /\ UNCHANGED <<vars, lastChange>>

ListingNext ==
  \/ \E c \in Listers :
       \/ Start(c) \/ First(c) \/ Collect(c)
       \/ Each(c) \/ Linked(c) \/ Abandon(c) \/ Finish(c)
  \/ \E c \in Callers \ Listers :
       (Begin(c) \/ Take(c)) /\ UNCHANGED <<listing, lastChange>>
  \/ \E c \in Callers : GetPeers(c) /\ UNCHANGED <<listing, lastChange>>
  \/ Tick /\ UNCHANGED <<listing, lastChange>>
  \/ Change /\ lastChange' = now /\ UNCHANGED listing

ListingSpec == ListingInit /\ [][ListingNext]_lvars
-----------------------------------------------------------------------------

(* However GetPeers calls of several goroutines interleave with a listing,  *)
(* once the tailnet has been quiet for the TTL and the lag before it began  *)
(* it returns exactly what the tailnet holds: no machine is missing, none   *)
(* that left is listed, every sidecar is attached to its machine.           *)
QuietTailnetListedExactly ==
  \A c \in Listers :
    /\ listing[c].pc = "done"
    /\ listing[c].start - lastChange > PeerCacheTTL + MaxLag
    => listing[c].out = Exact(listing[c].op, tailnet)
=============================================================================
