----------------------------- MODULE PeerProofs ------------------------------
(***************************************************************************)
(* Theorems about PeerCache, for any goroutines, peer lists, TTL and lag,  *)
(* and however far the clock runs; and about PeerListing, whose steps are  *)
(* steps of the cache, so that the cache's invariant carries over.         *)
(***************************************************************************)
EXTENDS PeerListing, TLAPS

-----------------------------------------------------------------------------
(* PeerCache: the inductive invariant.                                     *)

\* The entry was stored in the past, at most the lag after it was read.
EntryAge ==
  cache # None =>
    /\ cache.fetchedAt <= now
    /\ cache.asOf <= cache.fetchedAt
    /\ cache.fetchedAt <= cache.asOf + MaxLag

\* An answer that waits to be stored was read during its call, at most the lag
\* ago.
AnswerAge ==
  \A c \in Callers :
    /\ call[c].start <= now
    /\ call[c].pc \in {"store", "returned"} => call[c].got \in Answers
    /\ call[c].pc = "store" =>
         /\ call[c].start <= call[c].got.asOf
         /\ call[c].got.asOf <= now
         /\ now <= call[c].got.asOf + MaxLag

IInv == TypeOK /\ EntryAge /\ AnswerAge /\ EmptyIsFresh

-----------------------------------------------------------------------------

(* Whatever the configuration says, the TTL is positive.                    *)
LEMMA PositiveTTL == PeerCacheTTL \in Nat \ {0}
BY PeerCacheAssumption DEF PeerCacheTTL

LEMMA InitIInv == Init => IInv
<1> SUFFICES ASSUME Init PROVE IInv
  OBVIOUS
<1> USE PeerCacheAssumption DEF Init
<1>1. NoCall \in Calls
  BY DEF NoCall, Calls, Time
<1>2. TypeOK
  BY <1>1 DEF TypeOK, Time
<1>3. EntryAge /\ AnswerAge /\ EmptyIsFresh
  BY DEF EntryAge, AnswerAge, EmptyIsFresh, NoCall
<1> QED
  BY <1>2, <1>3 DEF IInv

LEMMA NextIInv == IInv /\ [Next]_vars => IInv'
<1> SUFFICES ASSUME IInv, [Next]_vars PROVE IInv'
  OBVIOUS
<1> USE PeerCacheAssumption DEF IInv, TypeOK
<1>1. ASSUME NEW c \in Callers, Begin(c) PROVE IInv'
  <2> USE <1>1 DEF Begin, NoCall
  <2>1. TypeOK'
    BY DEF Calls
  <2>2. EntryAge' /\ AnswerAge' /\ EmptyIsFresh'
    BY DEF EntryAge, AnswerAge, EmptyIsFresh, Calls, Time
  <2> QED
    BY <2>1, <2>2
<1>2. ASSUME NEW c \in Callers, Hit(c) PROVE IInv'
  <2> USE <1>2 DEF Hit, Usable
  <2>1. [peers |-> cache.peers, asOf |-> cache.asOf] \in Answers
    BY DEF Entries, Answers
  <2>2. TypeOK'
    BY <2>1 DEF Calls
  <2>3. EntryAge' /\ AnswerAge' /\ EmptyIsFresh'
    BY <2>1 DEF EntryAge, AnswerAge, EmptyIsFresh, Calls
  <2> QED
    BY <2>2, <2>3
<1>3. ASSUME NEW c \in Callers, Miss(c) \/ Fail(c) PROVE IInv'
  <2> USE <1>3 DEF Miss, Fail
  <2>1. TypeOK'
    BY DEF Calls
  <2>2. EntryAge' /\ AnswerAge' /\ EmptyIsFresh'
    BY DEF EntryAge, AnswerAge, EmptyIsFresh, Calls
  <2> QED
    BY <2>1, <2>2
<1>4. ASSUME NEW c \in Callers, Status(c) PROVE IInv'
  <2> USE <1>4 DEF Status
  <2>1. [peers |-> tailnet, asOf |-> now] \in Answers
    BY DEF Answers
  <2>2. TypeOK'
    BY <2>1 DEF Calls
  <2>3. EntryAge' /\ AnswerAge' /\ EmptyIsFresh'
    BY <2>1 DEF EntryAge, AnswerAge, EmptyIsFresh, Calls, Time
  <2> QED
    BY <2>2, <2>3
<1>5. ASSUME NEW c \in Callers, SetCachedPeers(c) PROVE IInv'
  <2> USE <1>5 DEF SetCachedPeers
  <2>1. call[c].got \in Answers
    BY DEF AnswerAge
  <2>2. cache' \in Entries
    BY <2>1 DEF Answers, Entries
  <2>3. TypeOK'
    BY <2>2 DEF Calls
  <2>4. EntryAge'
    BY <2>1 DEF EntryAge, AnswerAge, Answers, Time
  <2>5. AnswerAge' /\ EmptyIsFresh'
    BY <2>1 DEF AnswerAge, EmptyIsFresh, Calls
  <2> QED
    BY <2>3, <2>4, <2>5
<1>6. ASSUME NEW c \in Callers, Take(c) PROVE IInv'
  <2> USE <1>6 DEF Take, NoCall
  <2>1. TypeOK'
    BY DEF Calls, Time
  <2>2. EntryAge' /\ AnswerAge' /\ EmptyIsFresh'
    BY DEF EntryAge, AnswerAge, EmptyIsFresh, Calls, Time
  <2> QED
    BY <2>1, <2>2
<1>7. CASE Change
  BY <1>7 DEF Change, EntryAge, AnswerAge, EmptyIsFresh
<1>8. CASE Tick
  <2> USE <1>8 DEF Tick, Time
  <2>1. TypeOK'
    OBVIOUS
  <2>2. EntryAge'
    BY DEF EntryAge, Entries
  <2>3. AnswerAge'
    <3> SUFFICES ASSUME NEW c \in Callers
                 PROVE  /\ call[c].start <= now + 1
                        /\ call[c].pc = "store" => now + 1 <= call[c].got.asOf + MaxLag
                                                /\ call[c].got.asOf <= now + 1
      BY DEF AnswerAge
    <3>1. call[c] \in Calls /\ (call[c].pc = "store" => call[c].got \in Answers)
      BY DEF AnswerAge
    <3> QED
      BY <3>1 DEF AnswerAge, Calls, Answers
  <2>4. EmptyIsFresh'
    BY DEF EmptyIsFresh
  <2> QED
    BY <2>1, <2>2, <2>3, <2>4
<1>9. CASE UNCHANGED vars
  BY <1>9 DEF vars, EntryAge, AnswerAge, EmptyIsFresh
<1> QED
  BY <1>1, <1>2, <1>3, <1>4, <1>5, <1>6, <1>7, <1>8, <1>9 DEF Next, GetPeers

LEMMA Invariance == Spec => []IInv
BY InitIInv, NextIInv, PTL DEF Spec

-----------------------------------------------------------------------------
(* The theorems.                                                           *)

(* Every variable of the peer cache has its type.                           *)
THEOREM TypeCorrect == Spec => []TypeOK
BY Invariance, PTL DEF IInv

(* GetPeers never serves an empty list from the cache.                      *)
THEOREM EmptyListsAreFresh == Spec => []EmptyIsFresh
BY Invariance, PTL DEF IInv

(* No interleaving of GetPeers calls returns a list older than the TTL and  *)
(* the lag.                                                                *)
THEOREM AgeIsBounded == Spec => BoundedAge
<1>1. ASSUME IInv, [Next]_vars, NEW c \in Callers,
             call[c].pc # "returned", call'[c].pc = "returned"
      PROVE  now - call'[c].got.asOf <= PeerCacheTTL + MaxLag
  <2> USE <1>1, PeerCacheAssumption, PositiveTTL DEF IInv, TypeOK
  <2>1. CASE Hit(c)
    BY <2>1 DEF Hit, Usable, EntryAge, Entries, Calls, Time
  <2>2. CASE SetCachedPeers(c)
    BY <2>2 DEF SetCachedPeers, AnswerAge, Answers, Calls, Time
  <2>3. Hit(c) \/ SetCachedPeers(c)
    <3>1. PICK d \in Callers : Begin(d) \/ GetPeers(d) \/ Take(d)
      BY DEF Next, Change, Tick, vars
    <3>2. d = c
      BY <3>1 DEF GetPeers, Begin, Hit, Miss, Fail, Status, SetCachedPeers, Take
    <3>3. ~Begin(c) /\ ~Take(c)
      <4>1. ASSUME Begin(c) PROVE call'[c].pc = "lookup"
        BY <4>1 DEF Begin, NoCall
      <4>2. ASSUME Take(c) PROVE call'[c].pc = "idle"
        BY <4>2 DEF Take, NoCall
      <4> QED
        BY <4>1, <4>2
    <3>4. ~Miss(c) /\ ~Fail(c) /\ ~Status(c)
      BY DEF Miss, Fail, Status, Calls
    <3> QED
      BY <3>1, <3>2, <3>3, <3>4 DEF GetPeers
  <2> QED
    BY <2>1, <2>2, <2>3
<1>2. IInv /\ [Next]_vars =>
        [\A c \in Callers :
           call[c].pc # "returned" /\ call'[c].pc = "returned" =>
             now - call'[c].got.asOf <= PeerCacheTTL + MaxLag]_vars
  BY <1>1
<1> QED
  BY <1>2, Invariance, PTL DEF Spec, BoundedAge

(* A slow GetPeers sets the cache back by at most the lag.                  *)
THEOREM RegressionIsBounded == Spec => RegressionBounded
<1>1. ASSUME IInv, [Next]_vars, cache # None, cache' # cache
      PROVE  cache'.asOf >= cache.asOf - MaxLag
  <2> USE <1>1, PeerCacheAssumption DEF IInv, TypeOK
  <2>1. PICK c \in Callers : SetCachedPeers(c)
    BY DEF Next, GetPeers, Begin, Hit, Miss, Fail, Status, Take, Change, Tick, vars
  <2>2. cache'.asOf = call[c].got.asOf
    BY <2>1 DEF SetCachedPeers
  <2>3. call[c].got \in Answers /\ now <= call[c].got.asOf + MaxLag
    BY <2>1 DEF SetCachedPeers, AnswerAge
  <2>4. cache \in Entries /\ cache.asOf <= now
    BY DEF EntryAge, Entries, Time
  <2> QED
    BY <2>2, <2>3, <2>4 DEF Answers, Entries, Time
<1>2. IInv /\ [Next]_vars =>
        [cache # None /\ cache' # cache => cache'.asOf >= cache.asOf - MaxLag]_vars
  BY <1>1
<1> QED
  BY <1>2, Invariance, PTL DEF Spec, RegressionBounded

-----------------------------------------------------------------------------
(* PeerListing: the inductive invariant.                                   *)

Nodes == UNION PeerLists

Rows == [peer : Nodes, tailkit : Nodes \cup {None}]

Listings ==
  [pc : {"idle", "first", "each", "link", "done", "error"}, op : Ops \cup {None},
   start : Time, todo : SUBSET Nodes, cur : Nodes \cup {None}, out : SUBSET Rows]

\* What was read after the last change is what the tailnet holds, and a call
\* never gets what is older than the TTL and the lag were when it began.
Reading ==
  /\ lastChange \in Time /\ lastChange <= now
  /\ cache # None /\ cache.asOf > lastChange => cache.peers = tailnet
  /\ \A c \in Callers : call[c].pc \in {"store", "returned"} =>
       /\ call[c].got.asOf <= now
       /\ call[c].got.asOf > lastChange => call[c].got.peers = tailnet
       /\ call[c].got.asOf >= call[c].start - (PeerCacheTTL + MaxLag)

ListingShape ==
  /\ listing \in [Listers -> Listings]
  /\ \A c \in Listers :
       /\ listing[c].start <= now
       /\ listing[c].pc \in {"first", "link"} => listing[c].start <= call[c].start
       /\ listing[c].pc = "first" => listing[c].out = {}
       /\ listing[c].pc \in {"first", "each", "link"} => listing[c].op \in Ops
       /\ listing[c].pc \in {"each", "link"} => listing[c].op # "TailkitPeers"
       /\ listing[c].pc = "link" => listing[c].cur \in Nodes

\* The rows of a set of machines, linked as the peer list says.
RowsOf(nodes, peers) ==
  UNION {{[peer |-> n, tailkit |-> k] : k \in Link(n, peers)} : n \in nodes}

\* The machines a listing has still to link.
Left(l) == IF l.pc = "link" THEN l.todo \cup {l.cur} ELSE l.todo

\* After a quiet time a listing has the rows of the machines it has dealt with,
\* and those that are left complete what it ought to return.
OnCourse(l, peers, changed) ==
  l.start - changed > PeerCacheTTL + MaxLag =>
    /\ l.pc \in {"each", "link"} =>
         l.out \cup RowsOf(Left(l), peers) = RowsOf(Selected(l.op, peers), peers)
    /\ l.pc = "done" => l.out = Exact(l.op, peers)

ListingIInv ==
  /\ IInv
  /\ Reading
  /\ ListingShape
  /\ \A c \in Listers : OnCourse(listing[c], tailnet, lastChange)

\* No machine has two sidecars, so that it does not matter which of them
\* GetTailkitPeer meets first.
OneSidecarEach ==
  \A peers \in PeerLists : \A j, k \in peers :
    j.kit /\ k.kit /\ j.host = k.host => j = k

-----------------------------------------------------------------------------
(* A listing's steps are steps of the peer cache.                           *)

LEMMA ListingIsPeerCache == [ListingNext]_lvars => [Next]_vars
<1> SUFFICES ASSUME [ListingNext]_lvars PROVE [Next]_vars
  OBVIOUS
<1>1. ASSUME NEW c \in Listers,
             Start(c) \/ First(c) \/ Collect(c) \/ Each(c) \/ Linked(c) \/ Abandon(c)
      PROVE  Next
  <2>1. c \in Callers
    BY ListersAssumption
  <2> QED
    BY <1>1, <2>1 DEF Start, First, Collect, Each, Linked, Abandon, Next
<1>2. ASSUME NEW c \in Listers, Finish(c) PROVE UNCHANGED vars
  BY <1>2 DEF Finish
<1>3. CASE UNCHANGED lvars
  BY <1>3 DEF lvars
<1> QED
  BY <1>1, <1>2, <1>3 DEF ListingNext, Next

(* Goroutines that list, and others beside them, use the cache as PeerCache *)
(* says: whatever is proved of GetPeers holds of those that the listings    *)
(* call, the bounds on the age of an answer and of a regression included.   *)
THEOREM ListingsUseTheCache == ListingSpec => Spec
<1>1. ListingInit => Init
  BY DEF ListingInit
<1> QED
  BY <1>1, ListingIsPeerCache, PTL DEF ListingSpec, Spec

LEMMA InitListing == ListingInit => ListingIInv
<1> SUFFICES ASSUME ListingInit PROVE ListingIInv
  OBVIOUS
<1>1. IInv
  BY InitIInv DEF ListingInit
<1>2. Reading
  BY PeerCacheAssumption DEF ListingInit, Init, Reading, NoCall, Time
<1>3. NoListing \in Listings
  BY PeerCacheAssumption DEF NoListing, Listings, Time
<1>4. ListingShape
  BY <1>3 DEF ListingInit, Init, ListingShape, NoListing
<1>5. \A c \in Listers : OnCourse(listing[c], tailnet, lastChange)
  BY DEF ListingInit, OnCourse, NoListing
<1> QED
  BY <1>1, <1>2, <1>4, <1>5 DEF ListingIInv

(* Reading is preserved by every step: only Status brings new data in, and  *)
(* a change makes everything that was read before it old.                   *)
LEMMA ReadingStep ==
  ASSUME IInv, Reading, [Next]_vars,
         tailnet' = tailnet => lastChange' = lastChange,
         tailnet' # tailnet => lastChange' = now
  PROVE  Reading'
<1> USE PeerCacheAssumption, PositiveTTL DEF IInv, TypeOK
<1>1. PeerCacheTTL' = PeerCacheTTL
  BY DEF PeerCacheTTL
<1>2. now' = now \/ now' = now + 1
  BY DEF Next, Change, Tick, GetPeers, Begin, Hit, Miss, Fail, Status, SetCachedPeers, Take, vars
<1>3. now \in Nat /\ now' \in Nat /\ now <= now' /\ now' \in Time
  BY <1>2, NextIInv DEF Time
<1>4. lastChange' \in Time /\ lastChange' <= now'
  BY <1>3 DEF Reading, Time
<1>5. CASE now' = now /\ tailnet' = tailnet /\ cache' = cache
  <2> SUFFICES ASSUME NEW c \in Callers, call'[c].pc \in {"store", "returned"}
               PROVE  /\ call'[c].got.asOf <= now
                      /\ call'[c].got.asOf > lastChange => call'[c].got.peers = tailnet
                      /\ call'[c].got.asOf >= call'[c].start - (PeerCacheTTL + MaxLag)
    BY <1>1, <1>4, <1>5 DEF Reading
  <2>1. CASE call'[c] = call[c]
    BY <2>1 DEF Reading
  <2>2. CASE Hit(c)
    <3>1. cache \in Entries /\ call[c].start \in Time /\ call[c].start <= now
      BY <2>2 DEF Hit, Usable, Calls, AnswerAge
    <3>2. cache.asOf <= now /\ cache.asOf >= call[c].start - (PeerCacheTTL + MaxLag)
      BY <2>2, <3>1 DEF Hit, Usable, EntryAge, Entries, Time
    <3>3. /\ call'[c].start = call[c].start
          /\ call'[c].got = [peers |-> cache.peers, asOf |-> cache.asOf]
      BY <2>2 DEF Hit, Calls
    <3> QED
      BY <2>2, <3>2, <3>3 DEF Hit, Usable, Reading
  <2>3. CASE Status(c)
    <3>1. call[c].start \in Time /\ call[c].start <= now
      BY DEF Calls, AnswerAge
    <3>2. /\ call'[c].start = call[c].start
          /\ call'[c].got = [peers |-> tailnet, asOf |-> now]
      BY <2>3 DEF Status, Calls
    <3> QED
      BY <1>3, <3>1, <3>2 DEF Time
  <2>4. CASE SetCachedPeers(c)
    <3>1. /\ call'[c].start = call[c].start /\ call'[c].got = call[c].got
          /\ call[c].pc = "store"
      BY <2>4 DEF SetCachedPeers, Calls
    <3> QED
      BY <3>1 DEF Reading
  <2>5. call'[c] = call[c] \/ Hit(c) \/ Status(c) \/ SetCachedPeers(c)
    <3>1. CASE Tick \/ Change \/ UNCHANGED vars
      BY <3>1 DEF Tick, Change, vars
    <3>2. ASSUME NEW d \in Callers, Begin(d) \/ GetPeers(d) \/ Take(d), d # c
          PROVE  call'[c] = call[c]
      BY <3>2 DEF GetPeers, Begin, Hit, Miss, Fail, Status, SetCachedPeers, Take
    <3>3. ASSUME Begin(c) \/ Miss(c) \/ Fail(c) \/ Take(c) PROVE FALSE
      <4>1. CASE Begin(c) \/ Take(c)
        <5>1. ASSUME Begin(c) PROVE call'[c].pc = "lookup"
          BY <5>1 DEF Begin, NoCall
        <5>2. ASSUME Take(c) PROVE call'[c].pc = "idle"
          BY <5>2 DEF Take, NoCall
        <5> QED
          BY <4>1, <5>1, <5>2
      <4>2. CASE Miss(c) \/ Fail(c)
        BY <4>2 DEF Miss, Fail, Calls
      <4> QED
        BY <3>3, <4>1, <4>2
    <3> QED
      BY <3>1, <3>2, <3>3 DEF Next, GetPeers
  <2> QED
    BY <2>1, <2>2, <2>3, <2>4, <2>5
<1>6. ASSUME NEW c \in Callers, SetCachedPeers(c) PROVE Reading'
  <2>1. call' = [call EXCEPT ![c].pc = "returned"] /\ call[c].pc = "store"
        /\ cache'.asOf = call[c].got.asOf /\ cache'.peers = call[c].got.peers
        /\ UNCHANGED <<now, tailnet, lastChange>>
    BY <1>6 DEF SetCachedPeers
  <2> QED
    BY <1>1, <1>4, <2>1 DEF Reading, Calls
<1>7. CASE Tick
  <2>1. now' = now + 1 /\ UNCHANGED <<tailnet, cache, call, lastChange>>
    BY <1>7 DEF Tick
  <2>2. \A c \in Callers : call[c].pc \in {"store", "returned"} => call[c].got.asOf \in Nat
    BY DEF AnswerAge, Answers, Time
  <2> QED
    BY <1>1, <1>3, <1>4, <2>1, <2>2 DEF Reading
<1>8. CASE Change
  <2>1. cache # None => cache.asOf <= now /\ cache.asOf \in Nat
    BY DEF EntryAge, Entries, Time
  <2>2. \A c \in Callers : call[c].pc \in {"store", "returned"} =>
          call[c].got.asOf \in Nat /\ call[c].got.asOf <= now
    BY DEF AnswerAge, Answers, Time, Reading
  <2>3. lastChange' = now /\ UNCHANGED <<now, cache, call>>
    BY <1>8 DEF Change
  <2> QED
    BY <1>1, <1>3, <1>4, <2>1, <2>2, <2>3 DEF Reading
<1>9. \/ now' = now /\ tailnet' = tailnet /\ cache' = cache
      \/ Tick \/ Change
      \/ \E c \in Callers : SetCachedPeers(c)
  BY DEF Next, GetPeers, Begin, Hit, Miss, Fail, Status, Take, vars
<1> QED
  BY <1>5, <1>6, <1>7, <1>8, <1>9

-----------------------------------------------------------------------------
(* A listing of one goroutine.                                              *)

(* A listing that nothing happens to stays on course while the tailnet does *)
(* not change; and one that began before a change is not asked to.          *)
LEMMA OnCourseElsewhere ==
  ASSUME ListingIInv, NEW c \in Listers, listing'[c] = listing[c],
         (tailnet' = tailnet /\ lastChange' = lastChange) \/ lastChange' = now
  PROVE  OnCourse(listing'[c], tailnet', lastChange')
<1> DEFINE l == listing[c]
<1>1. OnCourse(l, tailnet, lastChange) /\ l \in Listings /\ l.start <= now
  BY DEF ListingIInv, ListingShape
<1>2. now \in Nat /\ l.start \in Nat
  BY <1>1, PeerCacheAssumption DEF ListingIInv, IInv, TypeOK, Time, Listings
<1>3. PeerCacheTTL \in Nat /\ MaxLag \in Nat /\ PeerCacheTTL' = PeerCacheTTL
  BY PositiveTTL, PeerCacheAssumption DEF PeerCacheTTL
<1>4. CASE lastChange' = now
  <2>1. ~(l.start - now > PeerCacheTTL + MaxLag)
    BY <1>1, <1>2, <1>3
  <2> QED
    BY <2>1, <1>3, <1>4 DEF OnCourse
<1>5. CASE tailnet' = tailnet /\ lastChange' = lastChange
  BY <1>1, <1>5
<1> QED
  BY <1>4, <1>5

(* What a listing's GetPeers returns after a quiet time is what the tailnet *)
(* holds.                                                                   *)
LEMMA QuietAnswer ==
  ASSUME ListingIInv, NEW c \in Listers, listing[c].pc \in {"first", "link"},
         call[c].pc = "returned", listing[c].start - lastChange > PeerCacheTTL + MaxLag
  PROVE  call[c].got.peers = tailnet
<1>1. c \in Callers
  BY ListersAssumption
<1>2. /\ call[c].got \in Answers /\ call[c].start \in Time
      /\ listing[c].start \in Time /\ lastChange \in Time
  BY <1>1 DEF ListingIInv, IInv, AnswerAge, TypeOK, Calls, ListingShape, Listings, Reading
<1>3. call[c].got.asOf >= call[c].start - (PeerCacheTTL + MaxLag)
  BY <1>1 DEF ListingIInv, Reading
<1>4. listing[c].start <= call[c].start
  BY DEF ListingIInv, ListingShape
<1>5. call[c].got.asOf > lastChange
  BY <1>2, <1>3, <1>4, PositiveTTL, PeerCacheAssumption DEF Answers, Time
<1> QED
  BY <1>1, <1>5 DEF ListingIInv, Reading

(* A row belongs to a machine and a peer of the peer lists.                 *)
LEMMA RowType ==
  ASSUME NEW peers \in PeerLists, NEW n \in Nodes, NEW k \in Link(n, peers)
  PROVE  [peer |-> n, tailkit |-> k] \in Rows
BY DEF Rows, Link, TailkitPeer, Nodes

(* With one sidecar for each machine there is one way to link it.           *)
LEMMA OneLink ==
  ASSUME OneSidecarEach, NEW peers \in PeerLists, NEW n,
         NEW j \in Link(n, peers), NEW k \in Link(n, peers)
  PROVE  j = k
BY DEF OneSidecarEach, Link, TailkitPeer

(* A step of one listing preserves the invariant if that listing stays well *)
(* formed and on course: the others do not notice it.                       *)
LEMMA ListerStep ==
  ASSUME ListingIInv, IInv', Reading', NEW c \in Listers, NEW l \in Listings,
         listing' = [listing EXCEPT ![c] = l],
         UNCHANGED <<now, tailnet, lastChange>>,
         \A d \in Callers \ {c} : call'[d] = call[d],
         l.start <= now,
         l.pc \in {"first", "link"} => l.start <= call'[c].start,
         l.pc = "first" => l.out = {},
         l.pc \in {"first", "each", "link"} => l.op \in Ops,
         l.pc \in {"each", "link"} => l.op # "TailkitPeers",
         l.pc = "link" => l.cur \in Nodes,
         OnCourse(l, tailnet, lastChange)
  PROVE  ListingIInv'
<1>1. listing'[c] = l /\ \A d \in Listers \ {c} : listing'[d] = listing[d]
  BY DEF ListingIInv, ListingShape
<1>2. \A d \in Listers \ {c} : call'[d] = call[d]
  BY ListersAssumption
<1>3. listing' \in [Listers -> Listings]
  BY DEF ListingIInv, ListingShape
<1>4. ListingShape'
  BY <1>1, <1>2, <1>3 DEF ListingIInv, ListingShape
<1>5. ASSUME NEW d \in Listers PROVE OnCourse(listing'[d], tailnet', lastChange')
  BY <1>1 DEF ListingIInv
<1> QED
  BY <1>4, <1>5 DEF ListingIInv

(* Every step of the specification preserves the invariant.                 *)
LEMMA NextListing ==
  ASSUME OneSidecarEach, ListingIInv, [ListingNext]_lvars
  PROVE  ListingIInv'
<1>1. [Next]_vars /\ IInv
  BY ListingIsPeerCache DEF ListingIInv
<1>2. IInv'
  BY <1>1, NextIInv
<1>3. /\ tailnet' = tailnet => lastChange' = lastChange
      /\ tailnet' # tailnet => lastChange' = now
  BY DEF ListingNext, lvars, vars, Start, First, Collect, Each, Linked, Abandon, Finish,
         Begin, Take, GetPeers, Hit, Miss, Fail, Status, SetCachedPeers, Tick, Change
<1>4. Reading'
  BY <1>1, <1>3, ReadingStep DEF ListingIInv
<1>5. listing \in [Listers -> Listings] /\ \A c \in Listers : c \in Callers
  BY ListersAssumption DEF ListingIInv, ListingShape
<1>6. now \in Nat /\ tailnet \in PeerLists /\ call \in [Callers -> Calls] /\ now \in Time
  BY <1>1, PeerCacheAssumption DEF IInv, TypeOK, Time
<1>7. CASE \/ \E c \in Callers \ Listers :
                (Begin(c) \/ Take(c)) /\ UNCHANGED <<listing, lastChange>>
           \/ \E c \in Callers : GetPeers(c) /\ UNCHANGED <<listing, lastChange>>
           \/ Tick /\ UNCHANGED <<listing, lastChange>>
           \/ Change /\ lastChange' = now /\ UNCHANGED listing
           \/ UNCHANGED lvars
  <2>1. listing' = listing /\ (now' = now \/ now' = now + 1)
    BY <1>7 DEF lvars, vars, Begin, Take, GetPeers, Hit, Miss, Fail, Status,
                SetCachedPeers, Tick, Change
  <2>2. \A c \in Listers : call'[c].start = call[c].start
    <3>1. CASE \E c \in Callers \ Listers : Begin(c) \/ Take(c)
      BY <3>1, <1>5, <1>6 DEF Begin, Take
    <3>2. CASE \E c \in Callers : GetPeers(c)
      BY <3>2, <1>5, <1>6 DEF GetPeers, Hit, Miss, Fail, Status, SetCachedPeers, Calls
    <3>3. CASE Tick \/ Change \/ UNCHANGED lvars
      BY <3>3 DEF Tick, Change, lvars, vars
    <3> QED
      BY <1>7, <3>1, <3>2, <3>3
  <2>3. \A c \in Listers : listing[c].start \in Nat
    BY <1>5, PeerCacheAssumption DEF Listings, Time
  <2>4. ListingShape'
    BY <2>1, <2>2, <2>3, <1>6 DEF ListingIInv, ListingShape
  <2>5. ASSUME NEW c \in Listers PROVE OnCourse(listing'[c], tailnet', lastChange')
    BY <2>1, <1>3, OnCourseElsewhere
  <2> QED
    BY <1>2, <1>4, <2>4, <2>5 DEF ListingIInv
<1>8. ASSUME NEW c \in Listers, Start(c) PROVE ListingIInv'
  <2>1. PICK op \in Ops :
          listing' = [listing EXCEPT ![c] = [NoListing EXCEPT !.pc = "first",
                                               !.op = op, !.start = now]]
    BY <1>8 DEF Start
  <2> DEFINE l == [NoListing EXCEPT !.pc = "first", !.op = op, !.start = now]
  <2>2. /\ l \in Listings /\ l.pc = "first" /\ l.start = now /\ l.out = {}
        /\ l.op \in Ops
    BY <1>6 DEF NoListing, Listings
  <2>3. call'[c].start = now /\ \A d \in Callers \ {c} : call'[d] = call[d]
    BY <1>5, <1>6, <1>8 DEF Start, Begin, NoCall
  <2>4. UNCHANGED <<now, tailnet, lastChange>>
    BY <1>8 DEF Start, Begin
  <2>5. listing' = [listing EXCEPT ![c] = l]
    BY <2>1
  <2> HIDE DEF l
  <2>6. OnCourse(l, tailnet, lastChange)
    BY <2>2 DEF OnCourse
  <2>7. /\ l.start <= now /\ l.start <= call'[c].start
        /\ l.pc \notin {"each", "link"}
    BY <1>6, <2>2, <2>3
  <2> QED
    BY <1>2, <1>4, <2>2, <2>3, <2>4, <2>5, <2>6, <2>7, ListerStep
<1>9. ASSUME NEW c \in Listers, First(c) PROVE ListingIInv'
  <2> DEFINE chosen == Selected(listing[c].op, call[c].got.peers)
             l == [listing[c] EXCEPT !.pc = "each", !.todo = chosen]
  <2>1. call[c].got \in Answers
    BY <1>1, <1>5, <1>9 DEF First, IInv, AnswerAge
  <2>2. chosen \in SUBSET Nodes
    <3>1. call[c].got.peers \subseteq Nodes
      BY <2>1 DEF Answers, Nodes
    <3>2. listing[c].op = "AllPeers" \/ listing[c].op = "OnlinePeers"
      BY <1>9 DEF First, ListingIInv, ListingShape, Ops
    <3>3. chosen \subseteq call[c].got.peers
      BY <3>2 DEF Selected
    <3> QED
      BY <3>1, <3>3
  <2>3. listing[c] \in Listings /\ listing[c].start <= now /\ listing[c].out = {}
        /\ listing[c].op # "TailkitPeers" /\ listing[c].pc = "first" /\ listing[c].op \in Ops
    BY <1>5, <1>9 DEF First, ListingIInv, ListingShape
  <2>4. listing' = [listing EXCEPT ![c] = l]
    BY <1>5, <1>9 DEF First, Listings
  <2>5. /\ l \in Listings /\ l.pc = "each" /\ l.todo = chosen /\ l.out = {}
        /\ l.op = listing[c].op /\ l.start = listing[c].start
    BY <2>2, <2>3 DEF Listings
  <2>6. UNCHANGED <<now, tailnet, lastChange>> /\ \A d \in Callers \ {c} : call'[d] = call[d]
    BY <1>5, <1>6, <1>9 DEF First, Take
  <2> HIDE DEF l
  <2>7. OnCourse(l, tailnet, lastChange)
    <3> SUFFICES ASSUME listing[c].start - lastChange > PeerCacheTTL + MaxLag
                 PROVE  l.out \cup RowsOf(l.todo, tailnet)
                          = RowsOf(Selected(l.op, tailnet), tailnet)
      BY <2>5 DEF OnCourse, Left
    <3>1. call[c].got.peers = tailnet
      BY <1>9, <2>3, QuietAnswer DEF First
    <3> QED
      BY <2>5, <3>1
  <2> QED
    BY <1>2, <1>4, <2>3, <2>4, <2>5, <2>6, <2>7, ListerStep
<1>10. ASSUME NEW c \in Listers, Collect(c) PROVE ListingIInv'
  <2> DEFINE rows == Exact("TailkitPeers", call[c].got.peers)
             l == [listing[c] EXCEPT !.pc = "done", !.out = rows]
  <2>1. call[c].got \in Answers
    BY <1>1, <1>5, <1>10 DEF Collect, IInv, AnswerAge
  <2>2. rows \in SUBSET Rows
    BY <2>1 DEF Exact, Selected, Answers, Nodes, Rows
  <2>3. listing[c] \in Listings /\ listing[c].start <= now
        /\ listing[c].op = "TailkitPeers" /\ listing[c].pc = "first"
    BY <1>5, <1>10 DEF Collect, ListingIInv, ListingShape
  <2>4. listing' = [listing EXCEPT ![c] = l]
    BY <1>5, <1>10 DEF Collect, Listings
  <2> HIDE DEF rows
  <2>5. /\ l \in Listings /\ l.pc = "done" /\ l.out = rows
        /\ l.op = listing[c].op /\ l.start = listing[c].start
    BY <2>2, <2>3 DEF Listings
  <2>6. UNCHANGED <<now, tailnet, lastChange>> /\ \A d \in Callers \ {c} : call'[d] = call[d]
    BY <1>5, <1>6, <1>10 DEF Collect, Take
  <2> HIDE DEF l
  <2>7. OnCourse(l, tailnet, lastChange)
    <3> SUFFICES ASSUME listing[c].start - lastChange > PeerCacheTTL + MaxLag
                 PROVE  l.out = Exact(l.op, tailnet)
      BY <2>5 DEF OnCourse
    <3>1. call[c].got.peers = tailnet
      BY <1>10, <2>3, QuietAnswer DEF Collect
    <3> QED
      BY <2>3, <2>5, <3>1 DEF rows
  <2> QED
    BY <1>2, <1>4, <2>3, <2>4, <2>5, <2>6, <2>7, ListerStep
<1>11. ASSUME NEW c \in Listers, Each(c) PROVE ListingIInv'
  <2>1. PICK n \in listing[c].todo :
          listing' = [listing EXCEPT ![c].pc = "link", ![c].cur = n, ![c].todo = @ \ {n}]
    BY <1>11 DEF Each
  <2> DEFINE l == [listing[c] EXCEPT !.pc = "link", !.cur = n, !.todo = @ \ {n}]
  <2>2. listing[c] \in Listings /\ listing[c].start <= now /\ listing[c].pc = "each"
        /\ listing[c].op # "TailkitPeers" /\ listing[c].op \in Ops
        /\ OnCourse(listing[c], tailnet, lastChange)
    BY <1>5, <1>11 DEF Each, ListingIInv, ListingShape
  <2>3. listing' = [listing EXCEPT ![c] = l]
    BY <1>5, <2>1 DEF Listings
  <2>4. /\ l \in Listings /\ l.pc = "link" /\ l.cur = n /\ l.todo = listing[c].todo \ {n}
        /\ l.out = listing[c].out /\ l.op = listing[c].op /\ l.start = listing[c].start
    BY <2>1, <2>2 DEF Listings
  <2>5. UNCHANGED <<now, tailnet, lastChange>> /\ call'[c].start = now
        /\ \A d \in Callers \ {c} : call'[d] = call[d]
    BY <1>5, <1>6, <1>11 DEF Each, Begin, NoCall
  <2> HIDE DEF l
  <2>6. Left(l) = Left(listing[c])
    BY <2>1, <2>2, <2>4 DEF Left
  <2>7. OnCourse(l, tailnet, lastChange)
    BY <2>2, <2>4, <2>6 DEF OnCourse
  <2>8. l.start <= call'[c].start /\ l.cur \in Nodes /\ l.start <= now
    BY <2>1, <2>2, <2>4, <2>5 DEF Listings
  <2> QED
    BY <1>2, <1>4, <2>2, <2>3, <2>4, <2>5, <2>7, <2>8, ListerStep
<1>12. ASSUME NEW c \in Listers, Linked(c) PROVE ListingIInv'
  <2> DEFINE n == listing[c].cur
  <2>1. PICK k \in Link(n, call[c].got.peers) :
          listing' = [listing EXCEPT ![c].pc = "each", ![c].cur = None,
                        ![c].out = @ \cup {[peer |-> n, tailkit |-> k]}]
    BY <1>12 DEF Linked
  <2> DEFINE row == [peer |-> n, tailkit |-> k]
             l == [listing[c] EXCEPT !.pc = "each", !.cur = None, !.out = @ \cup {row}]
  <2>2. listing[c] \in Listings /\ listing[c].start <= now /\ listing[c].pc = "link"
        /\ listing[c].op # "TailkitPeers" /\ listing[c].op \in Ops
        /\ OnCourse(listing[c], tailnet, lastChange)
    BY <1>5, <1>12 DEF Linked, ListingIInv, ListingShape
  <2>3. listing' = [listing EXCEPT ![c] = l]
    BY <1>5, <2>1 DEF Listings
  <2>4. call[c].got.peers \in PeerLists
    BY <1>1, <1>5, <1>12 DEF Linked, IInv, AnswerAge, Answers
  <2>5. n \in Nodes /\ row \in Rows
    BY <2>1, <2>2, <2>4, RowType DEF ListingIInv, ListingShape
  <2>6. /\ l \in Listings /\ l.pc = "each" /\ l.todo = listing[c].todo
        /\ l.out = listing[c].out \cup {row}
        /\ l.op = listing[c].op /\ l.start = listing[c].start
    BY <2>2, <2>5 DEF Listings
  <2>7. UNCHANGED <<now, tailnet, lastChange>> /\ \A d \in Callers \ {c} : call'[d] = call[d]
    BY <1>5, <1>6, <1>12 DEF Linked, Take
  <2> HIDE DEF l
  <2>8. OnCourse(l, tailnet, lastChange)
    <3> SUFFICES ASSUME listing[c].start - lastChange > PeerCacheTTL + MaxLag
                 PROVE  listing[c].out \cup {row} \cup RowsOf(listing[c].todo, tailnet)
                          = RowsOf(Selected(l.op, tailnet), tailnet)
      BY <2>6 DEF OnCourse, Left
    <3>1. call[c].got.peers = tailnet
      BY <1>12, <2>2, QuietAnswer DEF Linked
    <3>2. \A j \in Link(n, tailnet) : j = k
      BY <2>1, <3>1, <1>6, OneLink
    <3>3. RowsOf(listing[c].todo \cup {n}, tailnet) = RowsOf(listing[c].todo, tailnet) \cup {row}
      <4>1. {[peer |-> n, tailkit |-> j] : j \in Link(n, tailnet)} = {row}
        BY <2>1, <3>1, <3>2
      <4> HIDE DEF row
      <4> QED
        BY <4>1 DEF RowsOf
    <3>4. listing[c].out \cup RowsOf(listing[c].todo \cup {n}, tailnet)
            = RowsOf(Selected(listing[c].op, tailnet), tailnet)
      BY <2>2 DEF OnCourse, Left
    <3> HIDE DEF row
    <3> QED
      BY <2>6, <3>3, <3>4
  <2> QED
    BY <1>2, <1>4, <2>2, <2>3, <2>6, <2>7, <2>8, ListerStep
<1>13. ASSUME NEW c \in Listers, Abandon(c) PROVE ListingIInv'
  <2> DEFINE l == [NoListing EXCEPT !.pc = "error"]
  <2>1. l \in Listings /\ l.pc = "error" /\ l.start = 0
    BY PeerCacheAssumption DEF NoListing, Listings, Time
  <2>2. /\ listing' = [listing EXCEPT ![c] = l]
        /\ UNCHANGED <<now, tailnet, lastChange>> /\ \A d \in Callers \ {c} : call'[d] = call[d]
    BY <1>5, <1>6, <1>13 DEF Abandon, Take
  <2> HIDE DEF l
  <2>3. OnCourse(l, tailnet, lastChange)
    BY <2>1 DEF OnCourse
  <2>4. l.start <= now
    BY <1>6, <2>1
  <2>5. l.pc \notin {"first", "each", "link"}
    BY <2>1
  <2> QED
    BY <1>2, <1>4, <2>1, <2>2, <2>3, <2>4, <2>5, ListerStep
<1>14. ASSUME NEW c \in Listers, Finish(c) PROVE ListingIInv'
  <2> DEFINE l == [listing[c] EXCEPT !.pc = "done"]
  <2>1. /\ listing[c] \in Listings /\ listing[c].start <= now /\ listing[c].pc = "each"
        /\ listing[c].op # "TailkitPeers" /\ listing[c].op \in Ops
        /\ listing[c].todo = {}
        /\ OnCourse(listing[c], tailnet, lastChange)
    BY <1>5, <1>14 DEF Finish, ListingIInv, ListingShape
  <2>2. /\ listing' = [listing EXCEPT ![c] = l]
        /\ UNCHANGED <<now, tailnet, lastChange, call>>
    BY <1>5, <1>14 DEF Finish, vars, Listings
  <2>3. /\ l \in Listings /\ l.pc = "done" /\ l.out = listing[c].out
        /\ l.op = listing[c].op /\ l.start = listing[c].start
    BY <2>1 DEF Listings
  <2> HIDE DEF l
  <2>4. RowsOf({}, tailnet) = {}
    BY DEF RowsOf
  <2>5. Exact(l.op, tailnet) = RowsOf(Selected(l.op, tailnet), tailnet)
    BY <2>1, <2>3 DEF Exact, RowsOf
  <2>6. OnCourse(l, tailnet, lastChange)
    BY <2>1, <2>3, <2>4, <2>5 DEF OnCourse, Left
  <2> QED
    BY <1>2, <1>4, <2>1, <2>2, <2>3, <2>6, ListerStep
<1> QED
  BY <1>7, <1>8, <1>9, <1>10, <1>11, <1>12, <1>13, <1>14 DEF ListingNext

LEMMA ListingInvariance ==
  ASSUME OneSidecarEach
  PROVE  ListingSpec => []ListingIInv
BY InitListing, NextListing, PTL DEF ListingSpec

-----------------------------------------------------------------------------
(* The theorem.                                                             *)

(* If no machine has two sidecars, a listing that begins when the tailnet   *)
(* has been quiet for longer than the TTL and the lag returns exactly what  *)
(* the tailnet holds, however many other goroutines fill the cache at the   *)
(* same time: every GetPeers it makes answers with what was read after the  *)
(* last change.                                                             *)
THEOREM QuietListingsAreExact ==
  ASSUME OneSidecarEach
  PROVE  ListingSpec => []QuietTailnetListedExactly
<1>1. ListingIInv => QuietTailnetListedExactly
  BY DEF ListingIInv, OnCourse, QuietTailnetListedExactly
<1> QED
  BY <1>1, ListingInvariance, PTL
=============================================================================
