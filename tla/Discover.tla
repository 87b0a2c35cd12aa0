------------------------------ MODULE Discover -------------------------------
(***************************************************************************)
(* DiscoverVersion (peers.go): one goroutine per online peer, all started  *)
(* at once; a buffered channel used as a semaphore lets Limit of them make *)
(* their request; each sends one result, and the caller receives as many   *)
(* results as there are peers.  A node that cannot be asked counts as one  *)
(* without the tool.                                                       *)
(***************************************************************************)
EXTENDS Versions, FiniteSets

CONSTANTS
  NumPeers,    \* what OnlinePeers returns: a slice, possibly empty
  Limit,       \* the capacity of sem
  ToolName,
  MinVersion,  \* the empty version accepts every version
  ToolLists,   \* what a node may answer: sets of tools [name, version]
  None, Error  \* no answer yet, an error instead of one

Peers == 1 .. NumPeers

ASSUME DiscoverAssumption ==
  /\ NumPeers \in Nat
  /\ Limit \in Nat \ {0}
  /\ None \notin ToolLists /\ Error \notin ToolLists /\ None # Error

VARIABLES
  pc,       \* DiscoverVersion: "list", "spawn", "collect", "failed" or "returned"
  next,     \* the spawning loop's position in peers
  task,     \* task[p]: how far the goroutine of p has come
  answer,   \* answer[p]: what node.Tools returned to it
  sem,      \* tokens in the channel sem
  results,  \* the channel results
  taken,    \* the results received from it
  found

vars == <<pc, next, task, answer, sem, results, taken, found>>

Init ==
  /\ pc = "list" /\ next = 1
  /\ task = [p \in Peers |-> "idle"]
  /\ answer = [p \in Peers |-> None]
  /\ sem = 0 /\ results = <<>>
  /\ taken = <<>> /\ found = <<>>

-----------------------------------------------------------------------------
(* The goroutine of peer p.                                                 *)

\* The goroutine of p goes on from one step to another.
GoTo(p, from, to) ==
  /\ task[p] = from
  /\ task' = [task EXCEPT ![p] = to]
  /\ UNCHANGED <<pc, next, taken, found>>

\* Mutant: no semaphore.
AcquireFreely(p) ==
  /\ GoTo(p, "spawned", "asking")
  /\ sem' = sem + 1
  /\ UNCHANGED <<answer, results>>

Acquire(p) ==
  /\ sem < Limit
  /\ GoTo(p, "spawned", "asking")
  /\ sem' = sem + 1
  /\ UNCHANGED <<answer, results>>

\* node.Tools returns; it fails if the node does, by the client's timeout and
\* when the context ends.
Ask(p) ==
  /\ GoTo(p, "asking", "sending")
  /\ \E a \in ToolLists \cup {Error} : answer' = [answer EXCEPT ![p] = a]
  /\ UNCHANGED <<sem, results>>

Suits(t) ==
  /\ t.name = ToolName
  /\ MinVersion # <<>> => VersionAtLeast(t.version, MinVersion)

Lists(a) == a # Error /\ \E t \in a : Suits(t)

Result(p) == [peer |-> p, ok |-> Lists(answer[p])]

Send(p) ==
  /\ GoTo(p, "sending", "leaving")
  /\ Len(results) < NumPeers
  /\ results' = Append(results, Result(p))
  /\ UNCHANGED <<answer, sem>>

\* Mutant: the path of a failing request does not free its token.
ReleaseUnlessError(p) ==
  /\ GoTo(p, "leaving", "done")
  /\ sem' = IF answer[p] = Error THEN sem ELSE sem - 1
  /\ UNCHANGED <<answer, results>>

Release(p) ==
  /\ GoTo(p, "leaving", "done")
  /\ sem' = sem - 1
  /\ UNCHANGED <<answer, results>>

Step(p) == Acquire(p) \/ Ask(p) \/ Send(p) \/ Release(p)

-----------------------------------------------------------------------------
(* The caller's goroutine.                                                  *)

ListPeers ==
  /\ pc = "list"
  /\ pc' \in {"spawn", "failed"}
  /\ UNCHANGED <<next, task, answer, sem, results, taken, found>>

Spawn ==
  /\ pc = "spawn" /\ next <= NumPeers
  /\ task' = [task EXCEPT ![next] = "spawned"]
  /\ next' = next + 1
  /\ UNCHANGED <<pc, answer, sem, results, taken, found>>

EndSpawn ==
  /\ pc = "spawn" /\ next > NumPeers
  /\ pc' = "collect"
  /\ UNCHANGED <<next, task, answer, sem, results, taken, found>>

Collect ==
  /\ pc = "collect" /\ Len(taken) < NumPeers /\ results # <<>>
  /\ results' = Tail(results)
  /\ taken' = Append(taken, Head(results))
  /\ found' = IF Head(results).ok THEN Append(found, Head(results).peer) ELSE found
  /\ UNCHANGED <<pc, next, task, answer, sem>>

Return ==
  /\ pc = "collect" /\ Len(taken) = NumPeers
  /\ pc' = "returned"
  /\ UNCHANGED <<next, task, answer, sem, results, taken, found>>

DiscoverVersion == ListPeers \/ Spawn \/ EndSpawn \/ Collect \/ Return

Next == DiscoverVersion \/ \E p \in Peers : Step(p)

Spec == Init /\ [][Next]_vars

(* The Go scheduler runs every goroutine that can run, and the client's     *)
(* timeout ends a request that nothing else ends.                           *)
FairSpec == Spec /\ WF_vars(DiscoverVersion) /\ \A p \in Peers : WF_vars(Step(p))

-----------------------------------------------------------------------------

(* Every variable has its type.                                             *)
TypeOK ==
  /\ pc \in {"list", "spawn", "collect", "failed", "returned"}
  /\ next \in 1 .. NumPeers + 1
  /\ task \in [Peers -> {"idle", "spawned", "asking", "sending", "leaving", "done"}]
  /\ answer \in [Peers -> ToolLists \cup {None, Error}]
  /\ sem \in 0 .. Limit
  /\ results \in Seq([peer : Peers, ok : BOOLEAN])
  /\ taken \in Seq([peer : Peers, ok : BOOLEAN])
  /\ found \in Seq(Peers)

(* At most ten nodes are asked at a time, however many goroutines wait.     *)
RequestsBounded == Cardinality({p \in Peers : task[p] = "asking"}) <= Limit

\* The tool p's node lists is recent enough, by the numbers in its version.
HasTool(p) ==
  /\ answer[p] \notin {None, Error}
  /\ \E t \in answer[p] :
       /\ t.name = ToolName
       /\ MinVersion # <<>> => NewerOrEqual(t.version, MinVersion)

\* The minimum, and the versions of the tool, are numbers.
VersionsAreNumbers ==
  MinVersion # <<>> =>
    /\ IsNumeric(MinVersion)
    /\ \A a \in ToolLists : \A t \in a : t.name = ToolName => IsNumeric(t.version)

(* "Discover finds all online tailnet peers that have the named tool        *)
(* installed", and DiscoverVersion those with at least minVersion: every    *)
(* node that answered with such a tool is listed once, and no other.        *)
FoundExactly ==
  pc = "returned" =>
    /\ \A p \in Peers : HasTool(p) <=> p \in Range(found)
    /\ Len(found) = Cardinality(Range(found))

(* DiscoverVersion returns, and all its goroutines end: the semaphore is    *)
(* freed on every path and the channel has room for every result.           *)
Finishes ==
  <>(pc \in {"failed", "returned"} /\ \A p \in Peers : task[p] \in {"idle", "done"})
=============================================================================
