----------------------------- MODULE PeerCache ------------------------------
(***************************************************************************)
(* GetPeers and the peer cache of a Server (peers.go).  Any number of      *)
(* goroutines call GetPeers.  A call reads the cache under the read lock;  *)
(* on a miss it asks the Tailscale daemon for its status with no lock held *)
(* and then stores the answer under the write lock, stamped with the time  *)
(* of the store.  Concurrent misses are neither merged nor ordered.        *)
(*                                                                         *)
(* A peer list carries, as history, the time asOf at which the daemon      *)
(* read it off the tailnet.                                                *)
(***************************************************************************)
EXTENDS Integers

CONSTANTS
  Callers,     \* goroutines that use this Server
  PeerLists,   \* the values status.Peer may take, {} among them
  ConfigTTL,   \* Server.Config.PeerCacheTTL, any duration
  DefaultTTL,  \* 15 minutes
  MaxLag,      \* bound: ticks from the daemon's reading to the store
  MaxTime,     \* bound on the clock (model checking only)
  None         \* no entry, no answer yet

ASSUME PeerCacheAssumption ==
  /\ ConfigTTL \in Int
  /\ DefaultTTL \in Nat \ {0}
  /\ MaxLag \in Nat
  /\ MaxTime \in Nat
  /\ {} \in PeerLists

VARIABLES
  now,       \* the clock
  tailnet,   \* the peers the daemon would report now
  cache,     \* peerCache["tailscale-status"]
  call       \* call[c]: the GetPeers call of goroutine c

vars == <<now, tailnet, cache, call>>

Time == 0 .. MaxTime

\* A zero or negative duration in the configuration means the default.
PeerCacheTTL == IF ConfigTTL <= 0 THEN DefaultTTL ELSE ConfigTTL

Answers == [peers : PeerLists, asOf : Time]

Entries == [peers : PeerLists, asOf : Time, fetchedAt : Time]

(* start: when the call began (history).                                    *)
Calls == [pc : {"idle", "lookup", "query", "store", "returned", "failed"},
          start : Time, got : Answers \cup {None}]

NoCall == [pc |-> "idle", start |-> 0, got |-> None]

Init ==
  /\ now = 0
  /\ tailnet \in PeerLists
  /\ cache = None
  /\ call = [c \in Callers |-> NoCall]

-----------------------------------------------------------------------------
(* GetPeers.                                                                *)

Begin(c) ==
  /\ call[c].pc = "idle"
  /\ call' = [call EXCEPT ![c] = [NoCall EXCEPT !.pc = "lookup", !.start = now]]
  /\ UNCHANGED <<now, tailnet, cache>>

\* Mutant: the length of the cached list is not looked at.
UsableEvenEmpty(entry) ==
  entry # None /\ now - entry.fetchedAt <= PeerCacheTTL

Usable(entry) ==
  /\ entry # None
  /\ entry.peers # {}
  /\ now - entry.fetchedAt <= PeerCacheTTL

\* Mutant: a hit prolongs the entry it hits.
HitProlonging(c) ==
  /\ call[c].pc = "lookup"
  /\ Usable(cache)
  /\ call' = [call EXCEPT ![c].pc = "returned",
                ![c].got = [peers |-> cache.peers, asOf |-> cache.asOf]]
  /\ cache' = [cache EXCEPT !.fetchedAt = now]
  /\ UNCHANGED <<now, tailnet>>

\* Mutant: a hit stores the list it was served again.
HitStoring(c) ==
  /\ call[c].pc = "lookup"
  /\ Usable(cache)
  /\ call' = [call EXCEPT ![c].pc = "store",
                ![c].got = [peers |-> cache.peers, asOf |-> cache.asOf]]
  /\ UNCHANGED <<now, tailnet, cache>>

Hit(c) ==
  /\ call[c].pc = "lookup"
  /\ Usable(cache)
  /\ call' = [call EXCEPT ![c].pc = "returned",
                ![c].got = [peers |-> cache.peers, asOf |-> cache.asOf]]
  /\ UNCHANGED <<now, tailnet, cache>>

Miss(c) ==
  /\ call[c].pc = "lookup"
  /\ ~Usable(cache)
  /\ call' = [call EXCEPT ![c].pc = "query"]
  /\ UNCHANGED <<now, tailnet, cache>>

\* No local client, a failing daemon, or a context that is done.
Fail(c) ==
  /\ call[c].pc = "query"
  /\ call' = [call EXCEPT ![c].pc = "failed"]
  /\ UNCHANGED <<now, tailnet, cache>>

Status(c) ==
  /\ call[c].pc = "query"
  /\ call' = [call EXCEPT ![c].pc = "store",
                ![c].got = [peers |-> tailnet, asOf |-> now]]
  /\ UNCHANGED <<now, tailnet, cache>>

\* Mutant: the entry is stamped with its expiry.
SetCachedPeersExpiring(c) ==
  /\ call[c].pc = "store"
  /\ cache' = [peers |-> call[c].got.peers, asOf |-> call[c].got.asOf,
               fetchedAt |-> now + PeerCacheTTL]
  /\ call' = [call EXCEPT ![c].pc = "returned"]
  /\ UNCHANGED <<now, tailnet>>

SetCachedPeers(c) ==
  /\ call[c].pc = "store"
  /\ cache' = [peers |-> call[c].got.peers, asOf |-> call[c].got.asOf,
               fetchedAt |-> now]
  /\ call' = [call EXCEPT ![c].pc = "returned"]
  /\ UNCHANGED <<now, tailnet>>

\* The goroutine has the result, or the error, and goes on.
Take(c) ==
  /\ call[c].pc \in {"returned", "failed"}
  /\ call' = [call EXCEPT ![c] = NoCall]
  /\ UNCHANGED <<now, tailnet, cache>>

-----------------------------------------------------------------------------
(* The environment.                                                         *)

Change ==
  /\ tailnet' \in PeerLists \ {tailnet}
  /\ UNCHANGED <<now, cache, call>>

\* A goroutine takes at most MaxLag from the daemon's reading to its store.
Tick ==
  /\ now < MaxTime
  /\ \A c \in Callers : call[c].pc = "store" => now - call[c].got.asOf < MaxLag
  /\ now' = now + 1
  /\ UNCHANGED <<tailnet, cache, call>>

GetPeers(c) ==
  Hit(c) \/ Miss(c) \/ Fail(c) \/ Status(c) \/ SetCachedPeers(c)

Next ==
  \/ Change
  \/ Tick
  \/ \E c \in Callers : Begin(c) \/ GetPeers(c) \/ Take(c)

Spec == Init /\ [][Next]_vars

-----------------------------------------------------------------------------

(* Every variable has its type.                                             *)
TypeOK ==
  /\ now \in Time
  /\ tailnet \in PeerLists
  /\ cache \in Entries \cup {None}
  /\ call \in [Callers -> Calls]

(* "Cache results for 15 minutes by default": a peer list GetPeers returns  *)
(* is never older than the TTL plus the lag between reading it and storing  *)
(* it, however the calls interleave.                                        *)
BoundedAge ==
  [][\A c \in Callers :
       call[c].pc # "returned" /\ call'[c].pc = "returned" =>
         now - call'[c].got.asOf <= PeerCacheTTL + MaxLag]_vars

(* The price of storing without comparing: a slow call overwrites a newer   *)
(* list with an older one, but with one that is older by at most the lag.   *)
RegressionBounded ==
  [][cache # None /\ cache' # cache => cache'.asOf >= cache.asOf - MaxLag]_vars

(* An empty list is never served from the cache, so that the first peer to  *)
(* join is seen by the next call: it was read during the call itself.       *)
EmptyIsFresh ==
  \A c \in Callers :
    call[c].pc = "returned" /\ call[c].got.peers = {} =>
      call[c].got.asOf >= call[c].start
=============================================================================
