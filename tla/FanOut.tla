------------------------------- MODULE FanOut -------------------------------
(***************************************************************************)
(* fanOut (fleet.go): one goroutine per peer, started through an errgroup  *)
(* with a concurrency limit; every goroutine makes its request, takes the  *)
(* mutex and files the outcome under the peer's host name in one of two    *)
(* maps; fanOut returns the maps when the group is empty.  All the Fleet*  *)
(* wrappers are calls of it.                                               *)
(***************************************************************************)
EXTENDS Naturals, FiniteSets

CONSTANTS
  NumPeers,   \* len(peers): a slice, possibly empty
  HostName,   \* HostName[p]: peers[p].Status.HostName
  Limit,      \* fleetConcurrency
  NoPeer      \* no entry in a map, nobody holds the mutex

Peers == 1 .. NumPeers
Hosts == {HostName[p] : p \in Peers}

ASSUME FanOutAssumption ==
  /\ NumPeers \in Nat
  /\ Limit \in Nat \ {0}
  /\ NoPeer \notin Peers

\* A tailnet does not guarantee it, so it is a hypothesis and no assumption.
UniqueHosts == \A p, q \in Peers : HostName[p] = HostName[q] => p = q

VARIABLES
  health,     \* health[p]: how p's node treats a request (environment)
  pc,         \* fanOut itself: in the "loop", in "wait" (g.Wait) or "returned"
  next,       \* the loop's position in peers
  slots,      \* tokens in the errgroup's semaphore
  task,       \* task[p]: how far the goroutine of p has come
  outcome,    \* outcome[p]: what fn returned to it
  mu,         \* who holds mu
  results,    \* results[h]: the peer whose value is filed under host h
  errs,       \* errs[h]: the peer whose error is filed under host h
  callerDone, \* the caller's context is cancelled or past its deadline
  groupDone,  \* the errgroup has cancelled the context it derived
  hasty       \* the caller's context ended while fanOut was not stalled (history)

vars == <<health, pc, next, slots, task, outcome, mu, results, errs,
          callerDone, groupDone, hasty>>

(* "up" answers, "down" answers with an error or refuses the connection,    *)
(* "hung" accepts the request and never answers.                            *)
HealthStates == {"up", "down", "hung"}

TaskStates == {"idle", "spawned", "inflight", "replied", "recording",
               "leaving", "done"}

\* A goroutine exists, and holds one token of the semaphore, in these states.
Live == {"spawned", "inflight", "replied", "recording", "leaving"}

LiveTasks == {p \in Peers : task[p] \in Live}

Hung == {p \in Peers : health[p] = "hung"}

CtxDone == callerDone \/ groupDone

Init ==
  /\ health \in [Peers -> HealthStates]
  /\ pc = "loop"
  /\ next = 1
  /\ slots = 0
  /\ task = [p \in Peers |-> "idle"]
  /\ outcome = [p \in Peers |-> "none"]
  /\ mu = NoPeer
  /\ results = [h \in Hosts |-> NoPeer]
  /\ errs = [h \in Hosts |-> NoPeer]
  /\ callerDone = FALSE
  /\ groupDone = FALSE
  /\ hasty = FALSE

-----------------------------------------------------------------------------
(* The caller's goroutine.                                                  *)

\* Mutant: SetLimit was never called.
GoUnlimited ==
  /\ pc = "loop"
  /\ next <= NumPeers
  /\ slots' = slots + 1
  /\ task' = [task EXCEPT ![next] = "spawned"]
  /\ next' = next + 1
  /\ UNCHANGED <<health, pc, outcome, mu, results, errs, callerDone, groupDone,
                 hasty>>

\* g.Go blocks while the semaphore is full, then starts the goroutine.
Go ==
  /\ pc = "loop"
  /\ next <= NumPeers
  /\ slots < Limit
  /\ slots' = slots + 1
  /\ task' = [task EXCEPT ![next] = "spawned"]
  /\ next' = next + 1
  /\ UNCHANGED <<health, pc, outcome, mu, results, errs, callerDone, groupDone,
                 hasty>>

EndLoop ==
  /\ pc = "loop"
  /\ next > NumPeers
  /\ pc' = "wait"
  /\ UNCHANGED <<health, next, slots, task, outcome, mu, results, errs,
                 callerDone, groupDone, hasty>>

\* Mutant: the maps are returned without waiting for the group.
WaitForNobody ==
  /\ pc = "wait"
  /\ pc' = "returned"
  /\ groupDone' = TRUE
  /\ UNCHANGED <<health, next, slots, task, outcome, mu, results, errs,
                 callerDone, hasty>>

\* Mutant: the results are dropped if the context has ended in the meantime.
WaitDiscarding ==
  /\ pc = "wait"
  /\ LiveTasks = {}
  /\ pc' = "returned"
  /\ groupDone' = TRUE
  /\ results' = IF callerDone THEN [h \in Hosts |-> NoPeer] ELSE results
  /\ UNCHANGED <<health, next, slots, task, outcome, mu, errs, callerDone, hasty>>

\* g.Wait returns once every goroutine is gone, and cancels the derived context.
Wait ==
  /\ pc = "wait"
  /\ LiveTasks = {}
  /\ pc' = "returned"
  /\ groupDone' = TRUE
  /\ UNCHANGED <<health, next, slots, task, outcome, mu, results, errs,
                 callerDone, hasty>>

\* Only requests that hang are left to wait for: fanOut cannot proceed.
Stalled ==
  /\ pc = "wait" \/ (pc = "loop" /\ next <= NumPeers /\ slots = Limit)
  /\ \A p \in LiveTasks : task[p] = "inflight" /\ p \in Hung

\* The caller cancels its context, or its deadline passes.
Cancel ==
  /\ pc # "returned"
  /\ ~callerDone
  /\ callerDone' = TRUE
  /\ hasty' = ~Stalled
  /\ UNCHANGED <<health, pc, next, slots, task, outcome, mu, results, errs,
                 groupDone>>

-----------------------------------------------------------------------------
(* The goroutine of peer p.  fn is one request of a node client (or, for    *)
(* SendDir, a series of them) bound to the derived context.                 *)

Call(p) ==
  /\ task[p] = "spawned"
  /\ ~CtxDone
  /\ task' = [task EXCEPT ![p] = "inflight"]
  /\ UNCHANGED <<health, pc, next, slots, outcome, mu, results, errs,
                 callerDone, groupDone, hasty>>

FnReturns(p, from, what) ==
  /\ task[p] = from
  /\ task' = [task EXCEPT ![p] = "replied"]
  /\ outcome' = [outcome EXCEPT ![p] = what]
  /\ UNCHANGED <<health, pc, next, slots, mu, results, errs, callerDone,
                 groupDone, hasty>>

\* A request under a context that is already done fails without being sent.
CallTooLate(p) == CtxDone /\ FnReturns(p, "spawned", "ctx")

Answer(p) == health[p] = "up" /\ FnReturns(p, "inflight", "ok")

Refuse(p) == health[p] = "down" /\ FnReturns(p, "inflight", "failed")

\* The shared client gives up on a request after its 60 seconds.
ClientTimeout(p) == health[p] = "hung" /\ FnReturns(p, "inflight", "failed")

Abort(p) == CtxDone /\ FnReturns(p, "inflight", "ctx")

\* Mutant: the maps are written without the mutex.
LockNothing(p) ==
  /\ task[p] = "replied"
  /\ mu' = p
  /\ task' = [task EXCEPT ![p] = "recording"]
  /\ UNCHANGED <<health, pc, next, slots, outcome, results, errs, callerDone,
                 groupDone, hasty>>

Lock(p) ==
  /\ task[p] = "replied"
  /\ mu = NoPeer
  /\ mu' = p
  /\ task' = [task EXCEPT ![p] = "recording"]
  /\ UNCHANGED <<health, pc, next, slots, outcome, results, errs, callerDone,
                 groupDone, hasty>>

\* Mutant: no else, so that a failed node has a zero value in results, too.
RecordTwice(p) ==
  /\ task[p] = "recording"
  /\ results' = [results EXCEPT ![HostName[p]] = p]
  /\ IF outcome[p] = "ok" THEN UNCHANGED errs
                          ELSE errs' = [errs EXCEPT ![HostName[p]] = p]
  /\ mu' = NoPeer
  /\ task' = [task EXCEPT ![p] = "leaving"]
  /\ UNCHANGED <<health, pc, next, slots, outcome, callerDone, groupDone, hasty>>

\* Mutant: the path that records an error does not unlock.
RecordKeepingLock(p) ==
  /\ task[p] = "recording"
  /\ IF outcome[p] = "ok"
     THEN /\ results' = [results EXCEPT ![HostName[p]] = p]
          /\ mu' = NoPeer
          /\ UNCHANGED errs
     ELSE errs' = [errs EXCEPT ![HostName[p]] = p] /\ UNCHANGED <<results, mu>>
  /\ task' = [task EXCEPT ![p] = "leaving"]
  /\ UNCHANGED <<health, pc, next, slots, outcome, callerDone, groupDone, hasty>>

\* The map write and the deferred unlock.
Record(p) ==
  /\ task[p] = "recording"
  /\ IF outcome[p] = "ok"
     THEN results' = [results EXCEPT ![HostName[p]] = p] /\ UNCHANGED errs
     ELSE errs' = [errs EXCEPT ![HostName[p]] = p] /\ UNCHANGED results
  /\ mu' = NoPeer
  /\ task' = [task EXCEPT ![p] = "leaving"]
  /\ UNCHANGED <<health, pc, next, slots, outcome, callerDone, groupDone, hasty>>

\* Mutant: return err instead of return nil.
TaskErrorPropagated(p) == IF outcome[p] = "ok" THEN "nil" ELSE outcome[p]

\* What the goroutine hands to the errgroup, whatever fn returned.
TaskError(p) == "nil"

\* Mutant: a failed task gives its token back twice.
LeaveTwice(p) ==
  /\ task[p] = "leaving"
  /\ task' = [task EXCEPT ![p] = "done"]
  /\ slots' = IF outcome[p] = "ok" THEN slots - 1 ELSE slots - 2
  /\ groupDone' = (groupDone \/ TaskError(p) # "nil")
  /\ UNCHANGED <<health, pc, next, outcome, mu, results, errs, callerDone, hasty>>

\* The errgroup cancels its context on the first error, then frees the slot.
Leave(p) ==
  /\ task[p] = "leaving"
  /\ task' = [task EXCEPT ![p] = "done"]
  /\ slots' = slots - 1
  /\ groupDone' = (groupDone \/ TaskError(p) # "nil")
  /\ UNCHANGED <<health, pc, next, outcome, mu, results, errs, callerDone, hasty>>

Step(p) ==
  \/ Call(p)
  \/ CallTooLate(p)
  \/ Answer(p)
  \/ Refuse(p)
  \/ ClientTimeout(p)
  \/ Abort(p)
  \/ Lock(p)
  \/ Record(p)
  \/ Leave(p)

FanOut == Go \/ EndLoop \/ Wait

Next == FanOut \/ Cancel \/ \E p \in Peers : Step(p)

Spec == Init /\ [][Next]_vars

(* The Go scheduler runs every goroutine that can run, a node that answers  *)
(* does so eventually and the client's timer fires.  Nothing obliges the    *)
(* caller to cancel.                                                        *)
FairSpec == Spec /\ WF_vars(FanOut) /\ \A p \in Peers : WF_vars(Step(p))

-----------------------------------------------------------------------------
(* What fanOut owes its caller.                                             *)

(* Every variable has its type; a goroutine exists exactly for the peers    *)
(* the loop in fanOut has passed.                                           *)
TypeOK ==
  /\ health \in [Peers -> HealthStates]
  /\ pc \in {"loop", "wait", "returned"}
  /\ next \in 1 .. NumPeers + 1
  /\ slots \in Nat
  /\ task \in [Peers -> TaskStates]
  /\ outcome \in [Peers -> {"none", "ok", "failed", "ctx"}]
  /\ mu \in Peers \cup {NoPeer}
  /\ results \in [Hosts -> Peers \cup {NoPeer}]
  /\ errs \in [Hosts -> Peers \cup {NoPeer}]
  /\ callerDone \in BOOLEAN
  /\ groupDone \in BOOLEAN
  /\ hasty \in BOOLEAN

(* "Bounded parallelism (10 concurrent)": never more goroutines than        *)
(* fleetConcurrency, so never more open requests either.                    *)
BoundedParallelism == Cardinality(LiveTasks) <= Limit

(* results and errs are plain Go maps: two goroutines writing at once abort *)
(* the whole program.                                                       *)
MapWritesExclusive ==
  \A p, q \in Peers : task[p] = "recording" /\ task[q] = "recording" => p = q

(* When fanOut returns, every peer has its own outcome in exactly one of    *)
(* the two maps.  Needs host names that differ.                             *)
FaithfulReport ==
  pc = "returned" =>
    \A p \in Peers :
      IF outcome[p] = "ok"
      THEN results[HostName[p]] = p /\ errs[HostName[p]] = NoPeer
      ELSE errs[HostName[p]] = p /\ results[HostName[p]] = NoPeer

(* "One node's failure never prevents results from other nodes": if the     *)
(* caller does not cancel, every node that answers is in results, whatever  *)
(* the others do and in whatever order the goroutines run.                  *)
FailureIsolated ==
  pc = "returned" /\ ~callerDone =>
    \A p \in Peers : health[p] = "up" => results[HostName[p]] = p

(* fanOut always returns: the limit, the mutex and hung nodes cannot block  *)
(* it for ever, because the client's timeout ends every request.            *)
Returns == <>(pc = "returned")

(* "A timed-out node appears in the error map; other nodes are unaffected." *)
(* The deadline is one the nodes that answer meet: it passes only when      *)
(* fanOut is stalled.                                                       *)
OthersUnaffected ==
  pc = "returned" /\ ~hasty =>
    \A p \in Peers : health[p] = "up" => results[HostName[p]] = p

(* The statement above as far as the code makes it true: it holds while     *)
(* fewer nodes hang than fanOut runs at once.                               *)
OthersUnaffectedBelowLimit == Cardinality(Hung) < Limit => OthersUnaffected

-----------------------------------------------------------------------------
(* The contract: each peer's outcome is settled once, then the report is    *)
(* handed over for good.                                                    *)

Report(p) ==
  CASE results[HostName[p]] = p -> "ok"
    [] errs[HostName[p]] = p -> "err"
    [] OTHER -> "pending"

Contract == INSTANCE FleetReport
              WITH report <- [p \in Peers |-> Report(p)],
                   delivered <- (pc = "returned")

(* With distinct host names, fanOut implements the contract.                *)
ImplementsContract == Contract!Spec
=============================================================================
