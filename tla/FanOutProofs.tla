---------------------------- MODULE FanOutProofs ----------------------------
(* Theorems about FanOut, for any peers, host names and limit.             *)
EXTENDS FanOut, FiniteSetTheorems, TLAPS

-----------------------------------------------------------------------------
(* The inductive invariant.                                                *)

\* The loop starts the goroutines in order; once it ends, all are started.
StartedInOrder ==
  /\ \A p \in Peers : task[p] = "idle" <=> p >= next
  /\ pc # "loop" => next = NumPeers + 1
  /\ pc = "returned" => \A p \in Peers : task[p] = "done"

\* Every live goroutine holds exactly one token.
SlotPerTask == slots = Cardinality(LiveTasks) /\ slots <= Limit

\* Who is in the critical section holds mu.
LockHeld == \A p \in Peers : task[p] = "recording" <=> mu = p

\* Before fn returns there is no outcome, and an outcome has its cause: the
\* derived context is done only if the caller's is, while fanOut runs.
OutcomeCaused ==
  /\ groupDone => pc = "returned"
  /\ \A p \in Peers :
       /\ outcome[p] = "none" <=> task[p] \in {"idle", "spawned", "inflight"}
       /\ outcome[p] = "failed" => health[p] # "up"
       /\ outcome[p] = "ctx" => callerDone

\* What is filed where; both entries of a host are empty until its peer records.
Filed ==
  \A p \in Peers :
    LET recorded == task[p] \in {"leaving", "done"}
    IN  /\ results[HostName[p]] =
             IF recorded /\ outcome[p] = "ok" THEN p ELSE NoPeer
        /\ errs[HostName[p]] =
             IF recorded /\ outcome[p] # "ok" THEN p ELSE NoPeer

\* After a deadline that passed when fanOut was stalled, only hung requests are
\* left; no node that answers lost its answer to it.
PatientDeadline ==
  Cardinality(Hung) < Limit /\ ~hasty =>
    /\ callerDone => \A p \in Peers : p \notin Hung => task[p] = "done"
    /\ \A p \in Peers : health[p] = "up" => outcome[p] # "ctx"

IInv ==
  /\ TypeOK
  /\ StartedInOrder
  /\ SlotPerTask
  /\ LockHeld
  /\ OutcomeCaused
  /\ PatientDeadline

-----------------------------------------------------------------------------
(* Counting goroutines.                                                    *)

(* There are finitely many peers, so the live goroutines, and the peers     *)
(* that hang, can be counted.                                              *)
LEMMA FiniteTasks ==
  /\ IsFiniteSet(LiveTasks) /\ Cardinality(LiveTasks) \in Nat
  /\ IsFiniteSet(Hung) /\ Cardinality(Hung) \in Nat
<1>1. IsFiniteSet(Peers)
  BY FS_Interval, FanOutAssumption DEF Peers
<1>2. LiveTasks \in SUBSET Peers /\ Hung \in SUBSET Peers
  BY DEF LiveTasks, Hung
<1>3. IsFiniteSet(LiveTasks) /\ IsFiniteSet(Hung)
  BY <1>1, <1>2, FS_Subset
<1> QED
  BY <1>3, FS_CardinalityType

(* Starting the goroutine of a peer adds one to those alive.               *)
LEMMA OneMoreTask ==
  ASSUME NEW p \in Peers, task[p] \notin Live, LiveTasks' = LiveTasks \cup {p}
  PROVE  Cardinality(LiveTasks') = Cardinality(LiveTasks) + 1
<1>1. p \notin LiveTasks
  BY DEF LiveTasks
<1> QED
  BY <1>1, FiniteTasks, FS_AddElement

(* Ending it takes one away, and there was one to take.                    *)
LEMMA OneLessTask ==
  ASSUME NEW p \in Peers, task[p] \in Live, LiveTasks' = LiveTasks \ {p}
  PROVE  /\ Cardinality(LiveTasks') = Cardinality(LiveTasks) - 1
         /\ Cardinality(LiveTasks) > 0
<1>1. p \in LiveTasks
  BY DEF LiveTasks
<1>2. Cardinality(LiveTasks') = Cardinality(LiveTasks) - 1
  BY <1>1, FiniteTasks, FS_RemoveElement
<1>3. Cardinality(LiveTasks) # 0
  BY <1>1, FiniteTasks, FS_EmptySet
<1> QED
  BY <1>2, <1>3, FiniteTasks

(* When fewer peers hang than run at once, a stalled fanOut has started all *)
(* its goroutines: a full semaphore would take Limit hung peers.           *)
LEMMA StalledInWait ==
  ASSUME SlotPerTask, Stalled, Cardinality(Hung) < Limit
  PROVE  pc = "wait"
<1>1. LiveTasks \in SUBSET Hung
  BY DEF Stalled
<1>2. Cardinality(LiveTasks) <= Cardinality(Hung)
  BY <1>1, FiniteTasks, FS_Subset
<1>3. slots < Limit
  BY <1>2, FiniteTasks, FanOutAssumption DEF SlotPerTask
<1> QED
  BY <1>3, FanOutAssumption DEF Stalled

-----------------------------------------------------------------------------
(* The invariant holds initially and is preserved by every action.         *)

LEMMA InitIInv == Init => IInv
<1> SUFFICES ASSUME Init PROVE IInv
  OBVIOUS
<1> USE FanOutAssumption
<1>1. TypeOK
  <2>1. /\ next \in 1 .. NumPeers + 1
        /\ slots \in Nat
    BY DEF Init
  <2>2. /\ task \in [Peers -> TaskStates]
        /\ outcome \in [Peers -> {"none", "ok", "failed", "ctx"}]
    BY DEF Init, TaskStates
  <2>3. /\ results \in [Hosts -> Peers \cup {NoPeer}]
        /\ errs \in [Hosts -> Peers \cup {NoPeer}]
    BY DEF Init
  <2> QED
    BY <2>1, <2>2, <2>3 DEF Init, TypeOK
<1>2. StartedInOrder
  BY DEF Init, StartedInOrder, Peers
<1>3. SlotPerTask
  <2>1. LiveTasks = {}
    BY DEF Init, LiveTasks, Live
  <2> QED
    BY <2>1, FS_EmptySet DEF Init, SlotPerTask
<1>4. LockHeld
  BY DEF Init, LockHeld
<1>5. OutcomeCaused /\ PatientDeadline
  BY DEF Init, OutcomeCaused, PatientDeadline
<1> QED
  BY <1>1, <1>2, <1>3, <1>4, <1>5 DEF IInv

(* The steps of a task that leave it alive: all but its start and its end.  *)
(* They change neither the loop nor the tokens.                            *)
LEMMA MidTask ==
  ASSUME IInv, NEW p \in Peers, NEW s \in Live,
         task[p] \in Live, task' = [task EXCEPT ![p] = s],
         pc' = pc, next' = next, slots' = slots
  PROVE  StartedInOrder' /\ SlotPerTask'
<1> USE DEF IInv, TypeOK
<1>1. LiveTasks' = LiveTasks
  BY DEF LiveTasks
<1>2. SlotPerTask'
  BY <1>1 DEF SlotPerTask
<1>3. StartedInOrder'
  BY DEF StartedInOrder, Live
<1> QED
  BY <1>2, <1>3

(* fn returns: what it returns has a cause, and loses no answer to a        *)
(* deadline that was generous.                                             *)
LEMMA FnReturnsIInv ==
  ASSUME IInv, NEW p \in Peers, NEW from \in {"spawned", "inflight"},
         NEW what \in {"ok", "failed", "ctx"}, FnReturns(p, from, what),
         what = "failed" => health[p] # "up",
         what = "ctx" => CtxDone
  PROVE  IInv'
<1> USE DEF IInv, TypeOK, FnReturns
<1>1. TypeOK'
  BY DEF TaskStates
<1>2. StartedInOrder' /\ SlotPerTask'
  BY MidTask DEF Live
<1>3. LockHeld'
  BY DEF LockHeld
<1>4. ~groupDone
  BY DEF OutcomeCaused, StartedInOrder
<1>5. OutcomeCaused'
  BY <1>4 DEF OutcomeCaused, CtxDone
<1>6. PatientDeadline'
  BY <1>4 DEF PatientDeadline, CtxDone, Hung
<1> QED
  BY <1>1, <1>2, <1>3, <1>5, <1>6

(* Once the loop has ended every goroutine has been started.                *)
LEMMA NoneIdle ==
  ASSUME StartedInOrder, pc # "loop", NEW p \in Peers
  PROVE  task[p] # "idle"
BY FanOutAssumption DEF StartedInOrder, Peers

(* Every step of the specification preserves the invariant.                 *)
LEMMA NextIInv == IInv /\ [Next]_vars => IInv'
<1> SUFFICES ASSUME IInv, [Next]_vars PROVE IInv'
  OBVIOUS
<1> USE FanOutAssumption DEF IInv
<1>1. CASE Go
  <2> USE <1>1 DEF Go
  <2>1. next \in Peers /\ task[next] = "idle"
    BY DEF TypeOK, StartedInOrder, Peers
  <2>2. TypeOK'
    BY <2>1 DEF TypeOK, TaskStates, Peers
  <2>3. StartedInOrder'
    BY <2>1 DEF TypeOK, StartedInOrder, Peers
  <2>4. SlotPerTask'
    <3>1. LiveTasks' = LiveTasks \cup {next}
      BY <2>1 DEF TypeOK, LiveTasks, Live
    <3>2. Cardinality(LiveTasks') = Cardinality(LiveTasks) + 1
      BY <2>1, <3>1, OneMoreTask DEF Live
    <3> QED
      BY <3>2, FiniteTasks DEF SlotPerTask
  <2>5. LockHeld' /\ OutcomeCaused' /\ PatientDeadline'
    BY <2>1 DEF TypeOK, LockHeld, OutcomeCaused, PatientDeadline, Hung
  <2> QED
    BY <2>2, <2>3, <2>4, <2>5
<1>2. CASE EndLoop
  <2> USE <1>2 DEF EndLoop
  <2>1. TypeOK' /\ StartedInOrder'
    BY DEF TypeOK, StartedInOrder
  <2>2. SlotPerTask' /\ LockHeld' /\ OutcomeCaused' /\ PatientDeadline'
    BY DEF SlotPerTask, LiveTasks, LockHeld, OutcomeCaused, PatientDeadline, Hung
  <2> QED
    BY <2>1, <2>2
<1>3. CASE Wait
  <2> USE <1>3 DEF Wait
  <2>1. \A p \in Peers : task[p] = "done"
    <3> TAKE p \in Peers
    <3>1. task[p] # "idle"
      BY NoneIdle DEF IInv
    <3>2. task[p] \notin Live
      BY DEF LiveTasks
    <3> QED
      BY <3>1, <3>2 DEF TypeOK, TaskStates, Live
  <2>2. TypeOK' /\ StartedInOrder'
    BY <2>1 DEF TypeOK, StartedInOrder
  <2>3. SlotPerTask' /\ LockHeld' /\ OutcomeCaused' /\ PatientDeadline'
    BY DEF SlotPerTask, LiveTasks, LockHeld, OutcomeCaused, PatientDeadline, Hung
  <2> QED
    BY <2>2, <2>3
<1>4. CASE Cancel
  <2> USE <1>4 DEF Cancel
  <2>1. TypeOK'
    BY DEF TypeOK, Stalled
  <2>2. StartedInOrder' /\ SlotPerTask' /\ LockHeld' /\ OutcomeCaused'
    BY DEF StartedInOrder, SlotPerTask, LiveTasks, LockHeld, OutcomeCaused
  <2>3. PatientDeadline'
    <3> SUFFICES ASSUME (Cardinality(Hung) < Limit)', ~hasty'
                 PROVE  /\ \A p \in Peers : p \notin Hung => task[p] = "done"
                        /\ \A p \in Peers : outcome[p] # "ctx"
      BY DEF PatientDeadline, Hung
    <3>1. Cardinality(Hung) < Limit /\ Stalled
      BY DEF Hung, Stalled
    <3>2. pc = "wait"
      BY <3>1, StalledInWait
    <3>3. ASSUME NEW p \in Peers, p \notin Hung PROVE task[p] = "done"
      <4>1. task[p] # "idle"
        BY <3>2, NoneIdle
      <4>2. task[p] \notin Live
        BY <3>1, <3>3 DEF Stalled, LiveTasks
      <4> QED
        BY <4>1, <4>2 DEF TypeOK, TaskStates, Live
    <3> QED
      BY <3>3 DEF OutcomeCaused
  <2> QED
    BY <2>1, <2>2, <2>3
<1>5. ASSUME NEW p \in Peers, Call(p) PROVE IInv'
  <2> USE <1>5 DEF Call
  <2>1. TypeOK'
    BY DEF TypeOK, TaskStates
  <2>2. StartedInOrder' /\ SlotPerTask'
    BY MidTask DEF Live
  <2>3. LockHeld' /\ OutcomeCaused' /\ PatientDeadline'
    BY DEF TypeOK, LockHeld, OutcomeCaused, PatientDeadline, CtxDone, Hung
  <2> QED
    BY <2>1, <2>2, <2>3
<1>6. ASSUME NEW p \in Peers, CallTooLate(p) \/ Answer(p) \/ Refuse(p)
                                 \/ ClientTimeout(p) \/ Abort(p)
      PROVE  IInv'
  BY <1>6, FnReturnsIInv DEF CallTooLate, Answer, Refuse, ClientTimeout, Abort
<1>7. ASSUME NEW p \in Peers, Lock(p) PROVE IInv'
  <2> USE <1>7 DEF Lock
  <2>1. TypeOK'
    BY DEF TypeOK, TaskStates
  <2>2. StartedInOrder' /\ SlotPerTask'
    BY MidTask DEF Live
  <2>3. LockHeld' /\ OutcomeCaused' /\ PatientDeadline'
    BY DEF TypeOK, LockHeld, OutcomeCaused, PatientDeadline, Hung
  <2> QED
    BY <2>1, <2>2, <2>3
<1>8. ASSUME NEW p \in Peers, Record(p) PROVE IInv'
  <2> USE <1>8 DEF Record
  <2>1. TypeOK'
    BY DEF TypeOK, TaskStates, Hosts
  <2>2. StartedInOrder' /\ SlotPerTask'
    BY MidTask DEF Live
  <2>3. LockHeld' /\ OutcomeCaused' /\ PatientDeadline'
    BY DEF TypeOK, LockHeld, OutcomeCaused, PatientDeadline, Hung
  <2> QED
    BY <2>1, <2>2, <2>3
<1>9. ASSUME NEW p \in Peers, Leave(p) PROVE IInv'
  <2> USE <1>9 DEF Leave, TaskError
  <2>1. LiveTasks' = LiveTasks \ {p}
    BY DEF TypeOK, LiveTasks, Live
  <2>2. /\ Cardinality(LiveTasks') = Cardinality(LiveTasks) - 1
        /\ Cardinality(LiveTasks) > 0
    BY <2>1, OneLessTask DEF Live
  <2>3. SlotPerTask' /\ slots' \in Nat
    BY <2>2, FiniteTasks DEF SlotPerTask
  <2>4. TypeOK'
    BY <2>3 DEF TypeOK, TaskStates
  <2>5. StartedInOrder' /\ LockHeld' /\ OutcomeCaused' /\ PatientDeadline'
    BY DEF TypeOK, StartedInOrder, LockHeld, OutcomeCaused, PatientDeadline, Hung
  <2> QED
    BY <2>3, <2>4, <2>5
<1>10. CASE UNCHANGED vars
  BY <1>10 DEF vars, TypeOK, StartedInOrder, SlotPerTask, LiveTasks, LockHeld,
               OutcomeCaused, PatientDeadline, Hung
<1> QED
  BY <1>1, <1>2, <1>3, <1>4, <1>5, <1>6, <1>7, <1>8, <1>9, <1>10
     DEF Next, FanOut, Step

LEMMA Invariance == Spec => []IInv
BY InitIInv, NextIInv, PTL DEF Spec

(* With host names that differ, what a peer files stays where it is filed.  *)
LEMMA FiledStep ==
  ASSUME UniqueHosts, IInv, Filed, [Next]_vars
  PROVE  Filed'
<1> USE DEF IInv, TypeOK, Filed
<1>1. ASSUME NEW p \in Peers, Record(p) PROVE Filed'
  <2> SUFFICES ASSUME NEW q \in Peers
               PROVE  LET recorded == task'[q] \in {"leaving", "done"}
                      IN  /\ results'[HostName[q]] =
                               IF recorded /\ outcome'[q] = "ok" THEN q ELSE NoPeer
                          /\ errs'[HostName[q]] =
                               IF recorded /\ outcome'[q] # "ok" THEN q ELSE NoPeer
    OBVIOUS
  <2>1. HostName[p] \in Hosts /\ HostName[q] \in Hosts
    BY DEF Hosts
  <2>2. CASE q = p
    BY <1>1, <2>1, <2>2 DEF Record
  <2>3. CASE q # p
    <3>1. HostName[q] # HostName[p]
      BY <2>3 DEF UniqueHosts
    <3> QED
      BY <1>1, <2>1, <2>3, <3>1 DEF Record
  <2> QED
    BY <2>2, <2>3
<1>2. ASSUME NEW p \in Peers, Leave(p) PROVE Filed'
  BY <1>2 DEF Leave
<1>3. ASSUME NEW p \in Peers, Lock(p) \/ Call(p) PROVE Filed'
  BY <1>3 DEF Lock, Call
<1>4. ASSUME NEW p \in Peers, CallTooLate(p) \/ Answer(p) \/ Refuse(p)
                                 \/ ClientTimeout(p) \/ Abort(p)
      PROVE  Filed'
  BY <1>4 DEF CallTooLate, Answer, Refuse, ClientTimeout, Abort, FnReturns
<1>5. CASE Go
  BY <1>5, FanOutAssumption DEF Go, StartedInOrder, Peers
<1>6. CASE EndLoop \/ Wait \/ Cancel \/ UNCHANGED vars
  BY <1>6 DEF EndLoop, Wait, Cancel, vars
<1> QED
  BY <1>1, <1>2, <1>3, <1>4, <1>5, <1>6 DEF Next, FanOut, Step

LEMMA FiledInvariance ==
  ASSUME UniqueHosts
  PROVE  Spec => [](IInv /\ Filed)
<1>1. Init => Filed
  BY DEF Init, Filed, Hosts
<1> QED
  BY <1>1, FiledStep, InitIInv, NextIInv, PTL DEF Spec

-----------------------------------------------------------------------------
(* The theorems.                                                           *)

(* Every variable of fanOut has its type, for any peers and any limit.      *)
THEOREM TypeCorrect == Spec => []TypeOK
BY Invariance, PTL DEF IInv

(* fanOut never runs more goroutines at once than fleetConcurrency.         *)
THEOREM ParallelismIsBounded == Spec => []BoundedParallelism
<1>1. IInv => BoundedParallelism
  BY DEF IInv, SlotPerTask, BoundedParallelism
<1> QED
  BY <1>1, Invariance, PTL

(* No two goroutines of fanOut write to the result maps at the same time.   *)
THEOREM MapWritesAreExclusive == Spec => []MapWritesExclusive
<1>1. IInv => MapWritesExclusive
  BY DEF IInv, LockHeld, MapWritesExclusive
<1> QED
  BY <1>1, Invariance, PTL

(* With host names that differ, fanOut returns every peer's own outcome, in *)
(* exactly one of the two maps.                                            *)
THEOREM ReportIsFaithful ==
  ASSUME UniqueHosts
  PROVE  Spec => []FaithfulReport
<1>1. IInv /\ Filed => FaithfulReport
  BY DEF IInv, StartedInOrder, Filed, FaithfulReport
<1> QED
  BY <1>1, FiledInvariance, PTL

(* With host names that differ, no failure of other nodes and no order of   *)
(* the goroutines keeps an answer out of the results of fanOut.             *)
THEOREM FailuresAreIsolated ==
  ASSUME UniqueHosts
  PROVE  Spec => []FailureIsolated
<1>1. IInv /\ Filed => FailureIsolated
  BY DEF IInv, TypeOK, StartedInOrder, OutcomeCaused, Filed, FailureIsolated
<1> QED
  BY <1>1, FiledInvariance, PTL

(* With host names that differ and fewer hung nodes than fleetConcurrency,  *)
(* a context that ends when only hung requests are left costs no other node *)
(* its result.                                                             *)
THEOREM DeadlineSparesOthers ==
  ASSUME UniqueHosts
  PROVE  Spec => []OthersUnaffectedBelowLimit
<1>1. IInv /\ Filed => OthersUnaffectedBelowLimit
  BY DEF IInv, TypeOK, StartedInOrder, OutcomeCaused, PatientDeadline, Filed,
         OthersUnaffectedBelowLimit, OthersUnaffected
<1> QED
  BY <1>1, FiledInvariance, PTL

-----------------------------------------------------------------------------
(* fanOut implements the contract of FleetReport.                          *)

(* What the contract sees of a peer follows from how far its goroutine is.  *)
LEMMA ReportOf ==
  ASSUME Filed, NEW p \in Peers
  PROVE  Report(p) = IF task[p] \notin {"leaving", "done"} THEN "pending"
                     ELSE IF outcome[p] = "ok" THEN "ok" ELSE "err"
BY FanOutAssumption DEF Filed, Report

(* With host names that differ, every step of fanOut settles one peer,      *)
(* hands over the complete report, or is no step of the contract at all.    *)
THEOREM FanOutImplementsContract ==
  ASSUME UniqueHosts
  PROVE  Spec => ImplementsContract
<1> DEFINE report == [p \in Peers |-> Report(p)]
           delivered == pc = "returned"
<1>1. Init => Contract!Init
  BY FanOutAssumption DEF Init, Contract!Init, Report, Hosts
<1>2. ASSUME IInv, Filed, Filed', [Next]_vars
      PROVE  [Contract!Next]_(Contract!vars)
  <2>1. ASSUME NEW p \in Peers, Record(p) PROVE Contract!Settle(p)
    <3> USE <1>2, <2>1 DEF Record, IInv, TypeOK
    <3>1. ~delivered /\ delivered' = delivered
      BY DEF StartedInOrder
    <3>2. report[p] = "pending"
      BY <1>2, ReportOf
    <3>3. Report(p)' = IF outcome[p] = "ok" THEN "ok" ELSE "err"
      BY <1>2, FanOutAssumption DEF Filed, Report
    <3>4. ASSUME NEW q \in Peers, q # p PROVE Report(q)' = Report(q)
      BY <1>2, <3>4, FanOutAssumption DEF Filed, Report
    <3>5. report' = [report EXCEPT ![p] = IF outcome[p] = "ok" THEN "ok" ELSE "err"]
      BY <3>3, <3>4
    <3> QED
      BY <3>1, <3>2, <3>5 DEF Contract!Settle
  <2>2. CASE Wait
    <3>1. \A p \in Peers : task[p] = "done"
      BY <2>2, <1>2, NextIInv DEF Wait, IInv, StartedInOrder
    <3>2. \A p \in Peers : report[p] # "pending"
      BY <1>2, <3>1, ReportOf
    <3>3. report' = report /\ delivered'
      BY <2>2 DEF Wait, Report
    <3> QED
      BY <3>2, <3>3 DEF Contract!Next, Contract!Deliver
  <2>3. ASSUME results' = results, errs' = errs, pc' = pc \/ (pc = "loop" /\ pc' = "wait")
        PROVE  UNCHANGED Contract!vars
    BY <2>3 DEF Contract!vars, Report
  <2>4. ASSUME NEW p \in Peers, Step(p), ~Record(p) PROVE UNCHANGED Contract!vars
    BY <2>3, <2>4 DEF Step, Call, CallTooLate, Answer, Refuse, ClientTimeout,
                      Abort, FnReturns, Lock, Leave
  <2>5. CASE Go \/ EndLoop \/ Cancel \/ UNCHANGED vars
    BY <2>3, <2>5 DEF Go, EndLoop, Cancel, vars
  <2> QED
    BY <1>2, <2>1, <2>2, <2>4, <2>5 DEF Next, FanOut, Step, Contract!Next
<1> QED
  BY <1>1, <1>2, FiledInvariance, PTL DEF Spec, ImplementsContract, Contract!Spec

-----------------------------------------------------------------------------

(* What every wait of fanOut is for will be given back by somebody who does *)
(* not wait for it: the loop waits for the semaphore only while a task has  *)
(* a slot, a task for the mutex only while another records its result, and  *)
(* wg.Wait only while a task is under way.                                  *)
EveryWaitEnds ==
  /\ pc = "loop" /\ next <= NumPeers => slots < Limit \/ LiveTasks # {}
  /\ \A p \in LiveTasks :
       task[p] = "replied" => mu = NoPeer \/ \E q \in LiveTasks : mu = q /\ task[q] = "recording"
  /\ pc = "wait" => LiveTasks # {} \/ \A p \in Peers : task[p] = "done"

(* fanOut never comes to a state in which its loop, its tasks and wg.Wait   *)
(* wait for each other, whatever the number of hosts and the limit.         *)
THEOREM NobodyWaitsForever == Spec => []EveryWaitEnds
<1>1. IInv => EveryWaitEnds
  <2> SUFFICES ASSUME IInv PROVE EveryWaitEnds
    OBVIOUS
  <2>1. slots < Limit \/ LiveTasks # {}
    <3>1. LiveTasks = {} => slots = 0
      BY FS_EmptySet DEF IInv, SlotPerTask
    <3> QED
      BY <3>1, FanOutAssumption
  <2>2. \A p \in LiveTasks :
          task[p] = "replied" => mu = NoPeer \/ \E q \in LiveTasks : mu = q /\ task[q] = "recording"
    BY DEF IInv, TypeOK, LockHeld, LiveTasks, Live
  <2>3. ASSUME pc = "wait", LiveTasks = {} PROVE \A p \in Peers : task[p] = "done"
    BY <2>3, FanOutAssumption DEF IInv, TypeOK, StartedInOrder, LiveTasks, Live, TaskStates, Peers
  <2> QED
    BY <2>1, <2>2, <2>3 DEF EveryWaitEnds
<1> QED
  BY <1>1, Invariance, PTL
=============================================================================
