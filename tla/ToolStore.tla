----------------------------- MODULE ToolStore ------------------------------
(***************************************************************************)
(* What Install and Uninstall (install.go) promise: a store of tools in    *)
(* which every call takes effect at once, somewhere between its start and  *)
(* its end, or fails without any effect, also if its process is killed.    *)
(***************************************************************************)
CONSTANTS Procs, Names, Tools, None

VARIABLES
  store,  \* store[n]: the tool registered under the name n
  stage,  \* stage[p]: "idle", or how far the call of process p has come
  args    \* args[p]: what p puts under which name; None removes

vars == <<store, stage, args>>

Init ==
  /\ store = [n \in Names |-> None]
  /\ stage = [p \in Procs |-> "idle"]
  /\ args = [p \in Procs |-> None]

Request(p) ==
  /\ stage[p] = "idle"
  /\ stage' = [stage EXCEPT ![p] = "pending"]
  /\ \/ \E t \in Tools : args' = [args EXCEPT ![p] = [put |-> t, name |-> t.name]]
     \/ \E n \in Names \cup {t.name : t \in Tools} :
          args' = [args EXCEPT ![p] = [put |-> None, name |-> n]]
  /\ UNCHANGED store

TakeEffect(p) ==
  /\ stage[p] = "pending"
  /\ args[p].name \in Names
  /\ store' = [store EXCEPT ![args[p].name] = args[p].put]
  /\ stage' = [stage EXCEPT ![p] = "ok"]
  /\ UNCHANGED args

Fail(p) ==
  /\ stage[p] = "pending"
  /\ stage' = [stage EXCEPT ![p] = "error"]
  /\ UNCHANGED <<store, args>>

\* The call returns, or its process dies.
End(p) ==
  /\ stage[p] # "idle"
  /\ stage' = [stage EXCEPT ![p] = "idle"]
  /\ args' = [args EXCEPT ![p] = None]
  /\ UNCHANGED store

Next == \E p \in Procs : Request(p) \/ TakeEffect(p) \/ Fail(p) \/ End(p)

Spec == Init /\ [][Next]_vars
=============================================================================
