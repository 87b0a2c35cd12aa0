---------------------------- MODULE FleetReport -----------------------------
(***************************************************************************)
(* What a fleet operation promises: one outcome for every peer, settled    *)
(* independently of the others and never revised, and a report that is     *)
(* handed over once, complete, and not touched afterwards.                 *)
(***************************************************************************)
EXTENDS Naturals

CONSTANT Peers

VARIABLES
  report,     \* report[p]: "pending" until p's outcome is settled
  delivered   \* the caller has the report

vars == <<report, delivered>>

Init ==
  /\ report = [p \in Peers |-> "pending"]
  /\ delivered = FALSE

Settle(p) ==
  /\ ~delivered
  /\ report[p] = "pending"
  /\ \E r \in {"ok", "err"} : report' = [report EXCEPT ![p] = r]
  /\ UNCHANGED delivered

Deliver ==
  /\ \A p \in Peers : report[p] # "pending"
  /\ delivered' = TRUE
  /\ UNCHANGED report

Next == Deliver \/ \E p \in Peers : Settle(p)

Spec == Init /\ [][Next]_vars
=============================================================================
