------------------------------- MODULE JobWait -------------------------------
(***************************************************************************)
(* ExecWait (client.go) on top of the calls of a node client: a call       *)
(* starts a job on the node, and ExecWait polls it with ExecJob at every   *)
(* tick until it has ended.  The node runs the job by itself, and forgets  *)
(* it when it restarts.                                                    *)
(***************************************************************************)
EXTENDS NodeCalls

CONSTANT JobId

ASSUME JobWaitAssumption == JobId \in Ids

VARIABLES
  job,      \* the status of the job on the node, "none" if there is none
  ended,    \* the status it ended with (history)
  waiting,  \* ExecWait: "off", in its "select", "polling" or "returned"
  tick,     \* a tick is in the ticker's channel
  polled,   \* the status the node put into the last answer to a poll
  outcome   \* what ExecWait returns: a status, or the error

jobVars == <<job, ended>>
waitVars == <<waiting, tick, polled, outcome>>
vars == <<callVars, jobVars, waitVars>>

Final == {"completed", "failed", "cancelled"}

\* Mutant: the id of the job is left out of the path.
PollNoJob == Call("GET", <<"exec", "jobs">>, "checked")

Poll == ExecJob(JobId)

Init ==
  /\ CallsInit
  /\ job = "none" /\ ended = "none"
  /\ waiting = "off" /\ tick = FALSE /\ polled = "none" /\ outcome = "none"

-----------------------------------------------------------------------------
(* The node.                                                                *)

\* Calls that start a job; the first of them starts ours.
StartsJob(c) == c.method # "GET" /\ c.returns = "direct"

NodeAnswers ==
  \E s \in Statuses :
    /\ call = Poll => (s = 200 => job # "none")
    /\ Answer(s)
    /\ polled' = IF waiting = "polling" THEN job ELSE polled
    /\ job' = IF s = 200 /\ StartsJob(call) /\ job = "none" THEN "accepted" ELSE job
    /\ UNCHANGED <<ended, waiting, tick, outcome>>

JobRuns ==
  /\ \/ job = "accepted" /\ job' \in {"running"} \cup Final
     \/ job = "running" /\ job' \in Final
  /\ ended' = IF job' \in Final THEN job' ELSE ended
  /\ UNCHANGED <<callVars, waitVars>>

NodeForgets ==
  /\ job # "none"
  /\ job' = "none" /\ ended' = "none"
  /\ UNCHANGED <<callVars, waitVars>>

-----------------------------------------------------------------------------
(* The caller.                                                              *)

Begin ==
  /\ waiting = "off"
  /\ \E c \in Calls : Send(c)
  /\ UNCHANGED <<jobVars, waitVars>>

\* A call that has returned; the next one has a context of its own.
EndCall ==
  /\ waiting = "off"
  /\ GoOn /\ ctxDone' = FALSE
  /\ UNCHANGED <<jobVars, waitVars>>

ExecWait ==
  /\ waiting = "off" /\ step = "idle"
  /\ waiting' = "select"
  /\ UNCHANGED <<callVars, jobVars, tick, polled, outcome>>

\* The ticker's channel holds one tick; further ones are dropped.
Tick ==
  /\ waiting \in {"select", "polling"}
  /\ tick' = TRUE
  /\ UNCHANGED <<callVars, jobVars, waiting, polled, outcome>>

CancelWait ==
  /\ waiting = "select"
  /\ ctxDone' = TRUE
  /\ UNCHANGED <<call, step, status, result, jobVars, waitVars>>

\* The select takes either of its cases when both are ready.
WaitCancelled ==
  /\ waiting = "select" /\ ctxDone
  /\ waiting' = "returned" /\ outcome' = "context"
  /\ UNCHANGED <<callVars, jobVars, tick, polled>>

PollJob ==
  /\ waiting = "select" /\ tick
  /\ Send(Poll)
  /\ waiting' = "polling" /\ tick' = FALSE
  /\ UNCHANGED <<jobVars, polled, outcome>>

\* Mutant: only a job that is completed ends the loop.
PolledUntilCompleted ==
  /\ waiting = "polling"
  /\ GoOn /\ UNCHANGED ctxDone
  /\ IF err # "nil" THEN waiting' = "returned" /\ outcome' = err
     ELSE IF value = "whole" /\ polled = "completed" THEN waiting' = "returned" /\ outcome' = polled
     ELSE waiting' = "select" /\ UNCHANGED outcome
  /\ UNCHANGED <<jobVars, tick, polled>>

\* Mutant: any answer ends the loop.
PolledOnce ==
  /\ waiting = "polling"
  /\ GoOn /\ UNCHANGED ctxDone
  /\ waiting' = "returned"
  /\ outcome' = IF err # "nil" THEN err ELSE polled
  /\ UNCHANGED <<jobVars, tick, polled>>

\* An answer of another shape has no status, and is polled again.
Polled ==
  /\ waiting = "polling"
  /\ GoOn /\ UNCHANGED ctxDone
  /\ IF err # "nil" THEN waiting' = "returned" /\ outcome' = err
     ELSE IF value = "whole" /\ polled \in Final THEN waiting' = "returned" /\ outcome' = polled
     ELSE waiting' = "select" /\ UNCHANGED outcome
  /\ UNCHANGED <<jobVars, tick, polled>>

WaitOver ==
  /\ waiting = "returned"
  /\ waiting' = "off" /\ tick' = FALSE /\ polled' = "none" /\ outcome' = "none"
  /\ ctxDone' = FALSE
  /\ UNCHANGED <<call, step, status, result, jobVars>>

Client == ClientStep /\ UNCHANGED <<jobVars, waitVars>>

Waiter == WaitCancelled \/ PollJob \/ Polled

Next ==
  \/ NodeAnswers \/ JobRuns \/ NodeForgets
  \/ Begin \/ EndCall \/ Client
  \/ Cancel /\ UNCHANGED <<jobVars, waitVars>>
  \/ ExecWait \/ Tick \/ CancelWait \/ Waiter \/ WaitOver

Spec == Init /\ [][Next]_vars

(* The goroutine runs, the ticker ticks, and the client's 60 seconds end a  *)
(* request the node does not answer.  The node owes nothing.                *)
FairSpec ==
  /\ Spec
  /\ WF_vars(Client)
  /\ WF_vars(Tick)
  /\ WF_vars(Waiter)

-----------------------------------------------------------------------------

(* Every variable has its type.                                             *)
TypeOK ==
  /\ CallsTypeOK
  /\ job \in {"none", "accepted", "running"} \cup Final
  /\ ended \in {"none"} \cup Final
  /\ waiting \in {"off", "select", "polling", "returned"}
  /\ tick \in BOOLEAN
  /\ polled \in {"none", "accepted", "running"} \cup Final
  /\ outcome \in {"none", "accepted", "running"} \cup Final \cup Errors

(* The status ExecWait returns without an error is the one the job ended    *)
(* with, unless the node has restarted since.                               *)
WaitIsTruthful ==
  waiting = "returned" /\ outcome \in {"accepted", "running", "none"} \cup Final =>
    outcome \in Final /\ ended \in {outcome, "none"}

(* Every call returns, by the client's timeout if need be, and so does      *)
(* ExecWait once the job is over or the context is: as long as there is     *)
(* neither a status nor an error in the node's answers it goes on.          *)
Returns ==
  /\ step = "sent" ~> step = "returned"
  /\ (waiting = "select" /\ (ctxDone \/ job \notin {"accepted", "running"}))
       ~> (waiting = "returned" \/ (waiting = "polling" /\ value = "blank"))
=============================================================================
