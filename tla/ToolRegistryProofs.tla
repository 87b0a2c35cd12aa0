------------------------- MODULE ToolRegistryProofs -------------------------
(* Theorems about ToolRegistry, for any processes, names and tools.         *)
EXTENDS ToolRegistry, TLAPS

-----------------------------------------------------------------------------
(* The inductive invariant.                                                *)

Writing == {"write", "chmod", "close", "rename"}

\* A call has arguments, and an outcome once it is decided.
CallShape ==
  \A p \in Procs :
    /\ pc[p] = "idle" => op[p] = None /\ result[p] = "none"
    /\ pc[p] # "idle" => op[p] \in Ops
    /\ pc[p] \in {"cleanup", "return"} <=> result[p] # "none"
    /\ pc[p] = "remove" => op[p].put = None
    /\ pc[p] \in {"validate", "mkdir", "create"} \cup Writing =>
         op[p].put \in Tools /\ op[p].name = op[p].put.name
    /\ pc[p] \in {"mkdir", "create"} \cup Writing => op[p].name \in Names

\* How much of its temporary file an Install has made at each step.
FileProgress ==
  \A p \in Procs :
    /\ pc[p] \in Writing => temp[p] \in Files /\ temp[p].tool = op[p].put
    /\ pc[p] \in {"chmod", "close", "rename"} => temp[p].written = Size
    /\ pc[p] \in {"close", "rename"} => temp[p].mode = "0644"

IInv == TypeOK /\ CallShape /\ FileProgress /\ NeverPartial /\ TempFilesOwned

USE ToolRegistryAssumption

LEMMA InitIInv == Init => IInv
  BY DEF Init, IInv, TypeOK, CallShape, FileProgress, NeverPartial, TempFilesOwned,
         Files, Writing

LEMMA NextIInv == IInv /\ [Next]_vars => IInv'
<1> SUFFICES ASSUME IInv, [Next]_vars PROVE IInv'
  OBVIOUS
<1> USE DEF IInv, Writing
<1>1. ASSUME UNCHANGED vars PROVE IInv'
  BY <1>1 DEF vars, TypeOK, CallShape, FileProgress, NeverPartial, TempFilesOwned
<1>2. ASSUME NEW p \in Procs, Begin(p) PROVE IInv'
  <2>1. TypeOK'
    BY <1>2 DEF Begin, TypeOK, CallShape, FileProgress, Files, Ops, GivenNames
  <2>2. CallShape'
    BY <1>2 DEF Begin, TypeOK, CallShape, Files, Ops, GivenNames
  <2>3. FileProgress'
    BY <1>2 DEF Begin, TypeOK, CallShape, FileProgress, Files, Ops, GivenNames
  <2>4. NeverPartial'
    BY <1>2 DEF Begin, TypeOK, CallShape, FileProgress, NeverPartial, Files, Ops, GivenNames
  <2>5. TempFilesOwned'
    BY <1>2 DEF Begin, TypeOK, CallShape, TempFilesOwned, Files, Ops, GivenNames
  <2> QED BY <2>1, <2>2, <2>3, <2>4, <2>5
<1>3. ASSUME NEW p \in Procs, Validate(p) PROVE IInv'
  <2>1. TypeOK'
    BY <1>3 DEF Validate, ValidTool, GoTo, TypeOK, CallShape, FileProgress, Files, Ops
  <2>2. CallShape'
    BY <1>3 DEF Validate, ValidTool, GoTo, TypeOK, CallShape, Files, Ops
  <2>3. FileProgress'
    BY <1>3 DEF Validate, ValidTool, GoTo, TypeOK, CallShape, FileProgress, Files, Ops
  <2>4. NeverPartial'
    BY <1>3 DEF Validate, ValidTool, GoTo, TypeOK, CallShape, FileProgress, NeverPartial, Files, Ops
  <2>5. TempFilesOwned'
    BY <1>3 DEF Validate, ValidTool, GoTo, TypeOK, CallShape, TempFilesOwned, Files, Ops
  <2> QED BY <2>1, <2>2, <2>3, <2>4, <2>5
<1>4. ASSUME NEW p \in Procs, MkdirAll(p) PROVE IInv'
  <2>1. TypeOK'
    BY <1>4 DEF MkdirAll, GoTo, TypeOK, CallShape, FileProgress, Files, Ops
  <2>2. CallShape'
    BY <1>4 DEF MkdirAll, GoTo, TypeOK, CallShape, Files, Ops
  <2>3. FileProgress'
    BY <1>4 DEF MkdirAll, GoTo, TypeOK, CallShape, FileProgress, Files, Ops
  <2>4. NeverPartial'
    BY <1>4 DEF MkdirAll, GoTo, TypeOK, CallShape, FileProgress, NeverPartial, Files, Ops
  <2>5. TempFilesOwned'
    BY <1>4 DEF MkdirAll, GoTo, TypeOK, CallShape, TempFilesOwned, Files, Ops
  <2> QED BY <2>1, <2>2, <2>3, <2>4, <2>5
<1>5. ASSUME NEW p \in Procs, CreateTemp(p) PROVE IInv'
  <2>1. TypeOK'
    BY <1>5 DEF CreateTemp, GoTo, TypeOK, CallShape, FileProgress, Files, Ops
  <2>2. CallShape'
    BY <1>5 DEF CreateTemp, GoTo, TypeOK, CallShape, Files, Ops
  <2>3. FileProgress'
    BY <1>5 DEF CreateTemp, GoTo, TypeOK, CallShape, FileProgress, Files, Ops
  <2>4. NeverPartial'
    BY <1>5 DEF CreateTemp, GoTo, TypeOK, CallShape, FileProgress, NeverPartial, Files, Ops
  <2>5. TempFilesOwned'
    BY <1>5 DEF CreateTemp, GoTo, TypeOK, CallShape, TempFilesOwned, Files, Ops
  <2> QED BY <2>1, <2>2, <2>3, <2>4, <2>5
<1>6. ASSUME NEW p \in Procs, WriteSome(p) PROVE IInv'
  <2>1. TypeOK'
    BY <1>6 DEF WriteSome, GoTo, TypeOK, CallShape, FileProgress, Files, Ops
  <2>2. CallShape'
    BY <1>6 DEF WriteSome, GoTo, TypeOK, CallShape, Files, Ops
  <2>3. FileProgress'
    BY <1>6 DEF WriteSome, GoTo, TypeOK, CallShape, FileProgress, Files, Ops
  <2>4. NeverPartial'
    BY <1>6 DEF WriteSome, GoTo, TypeOK, CallShape, FileProgress, NeverPartial, Files, Ops
  <2>5. TempFilesOwned'
    BY <1>6 DEF WriteSome, GoTo, TypeOK, CallShape, TempFilesOwned, Files, Ops
  <2> QED BY <2>1, <2>2, <2>3, <2>4, <2>5
<1>7. ASSUME NEW p \in Procs, Written(p) PROVE IInv'
  <2>1. TypeOK'
    BY <1>7 DEF Written, GoTo, TypeOK, CallShape, FileProgress, Files, Ops
  <2>2. CallShape'
    BY <1>7 DEF Written, GoTo, TypeOK, CallShape, Files, Ops
  <2>3. FileProgress'
    BY <1>7 DEF Written, GoTo, TypeOK, CallShape, FileProgress, Files, Ops
  <2>4. NeverPartial'
    BY <1>7 DEF Written, GoTo, TypeOK, CallShape, FileProgress, NeverPartial, Files, Ops
  <2>5. TempFilesOwned'
    BY <1>7 DEF Written, GoTo, TypeOK, CallShape, TempFilesOwned, Files, Ops
  <2> QED BY <2>1, <2>2, <2>3, <2>4, <2>5
<1>8. ASSUME NEW p \in Procs, Chmod(p) PROVE IInv'
  <2>1. TypeOK'
    BY <1>8 DEF Chmod, GoTo, TypeOK, CallShape, FileProgress, Files, Ops
  <2>2. CallShape'
    BY <1>8 DEF Chmod, GoTo, TypeOK, CallShape, Files, Ops
  <2>3. FileProgress'
    BY <1>8 DEF Chmod, GoTo, TypeOK, CallShape, FileProgress, Files, Ops
  <2>4. NeverPartial'
    BY <1>8 DEF Chmod, GoTo, TypeOK, CallShape, FileProgress, NeverPartial, Files, Ops
  <2>5. TempFilesOwned'
    BY <1>8 DEF Chmod, GoTo, TypeOK, CallShape, TempFilesOwned, Files, Ops
  <2> QED BY <2>1, <2>2, <2>3, <2>4, <2>5
<1>9. ASSUME NEW p \in Procs, Close(p) PROVE IInv'
  <2>1. TypeOK'
    BY <1>9 DEF Close, GoTo, TypeOK, CallShape, FileProgress, Files, Ops
  <2>2. CallShape'
    BY <1>9 DEF Close, GoTo, TypeOK, CallShape, Files, Ops
  <2>3. FileProgress'
    BY <1>9 DEF Close, GoTo, TypeOK, CallShape, FileProgress, Files, Ops
  <2>4. NeverPartial'
    BY <1>9 DEF Close, GoTo, TypeOK, CallShape, FileProgress, NeverPartial, Files, Ops
  <2>5. TempFilesOwned'
    BY <1>9 DEF Close, GoTo, TypeOK, CallShape, TempFilesOwned, Files, Ops
  <2> QED BY <2>1, <2>2, <2>3, <2>4, <2>5
<1>10. ASSUME NEW p \in Procs, Rename(p) PROVE IInv'
  <2>1. TypeOK'
    BY <1>10 DEF Rename, GoTo, TypeOK, CallShape, FileProgress, Files, Ops
  <2>2. CallShape'
    BY <1>10 DEF Rename, GoTo, TypeOK, CallShape, Files, Ops
  <2>3. FileProgress'
    BY <1>10 DEF Rename, GoTo, TypeOK, CallShape, FileProgress, Files, Ops
  <2>4. NeverPartial'
    BY <1>10 DEF Rename, GoTo, TypeOK, CallShape, FileProgress, NeverPartial, Files, Ops
  <2>5. TempFilesOwned'
    BY <1>10 DEF Rename, GoTo, TypeOK, CallShape, TempFilesOwned, Files, Ops
  <2> QED BY <2>1, <2>2, <2>3, <2>4, <2>5
<1>11. ASSUME NEW p \in Procs, InstallFails(p) PROVE IInv'
  <2>1. TypeOK'
    BY <1>11 DEF InstallFails, GoTo, TypeOK, CallShape, FileProgress, Files, Ops
  <2>2. CallShape'
    BY <1>11 DEF InstallFails, GoTo, TypeOK, CallShape, Files, Ops
  <2>3. FileProgress'
    BY <1>11 DEF InstallFails, GoTo, TypeOK, CallShape, FileProgress, Files, Ops
  <2>4. NeverPartial'
    BY <1>11 DEF InstallFails, GoTo, TypeOK, CallShape, FileProgress, NeverPartial, Files, Ops
  <2>5. TempFilesOwned'
    BY <1>11 DEF InstallFails, GoTo, TypeOK, CallShape, TempFilesOwned, Files, Ops
  <2> QED BY <2>1, <2>2, <2>3, <2>4, <2>5
<1>12. ASSUME NEW p \in Procs, Cleanup(p) PROVE IInv'
  <2>1. TypeOK'
    BY <1>12 DEF Cleanup, GoTo, TypeOK, CallShape, FileProgress, Files, Ops
  <2>2. CallShape'
    BY <1>12 DEF Cleanup, GoTo, TypeOK, CallShape, Files, Ops
  <2>3. FileProgress'
    BY <1>12 DEF Cleanup, GoTo, TypeOK, CallShape, FileProgress, Files, Ops
  <2>4. NeverPartial'
    BY <1>12 DEF Cleanup, GoTo, TypeOK, CallShape, FileProgress, NeverPartial, Files, Ops
  <2>5. TempFilesOwned'
    BY <1>12 DEF Cleanup, GoTo, TypeOK, CallShape, TempFilesOwned, Files, Ops
  <2> QED BY <2>1, <2>2, <2>3, <2>4, <2>5
<1>13. ASSUME NEW p \in Procs, Remove(p) PROVE IInv'
  <2>1. TypeOK'
    BY <1>13 DEF Remove, GoTo, TypeOK, CallShape, FileProgress, Files, Ops
  <2>2. CallShape'
    BY <1>13 DEF Remove, GoTo, TypeOK, CallShape, Files, Ops
  <2>3. FileProgress'
    BY <1>13 DEF Remove, GoTo, TypeOK, CallShape, FileProgress, Files, Ops
  <2>4. NeverPartial'
    BY <1>13 DEF Remove, GoTo, TypeOK, CallShape, FileProgress, NeverPartial, Files, Ops
  <2>5. TempFilesOwned'
    BY <1>13 DEF Remove, GoTo, TypeOK, CallShape, TempFilesOwned, Files, Ops
  <2> QED BY <2>1, <2>2, <2>3, <2>4, <2>5
<1>14. ASSUME NEW p \in Procs, RemoveFails(p) PROVE IInv'
  <2>1. TypeOK'
    BY <1>14 DEF RemoveFails, GoTo, TypeOK, CallShape, FileProgress, Files, Ops
  <2>2. CallShape'
    BY <1>14 DEF RemoveFails, GoTo, TypeOK, CallShape, Files, Ops
  <2>3. FileProgress'
    BY <1>14 DEF RemoveFails, GoTo, TypeOK, CallShape, FileProgress, Files, Ops
  <2>4. NeverPartial'
    BY <1>14 DEF RemoveFails, GoTo, TypeOK, CallShape, FileProgress, NeverPartial, Files, Ops
  <2>5. TempFilesOwned'
    BY <1>14 DEF RemoveFails, GoTo, TypeOK, CallShape, TempFilesOwned, Files, Ops
  <2> QED BY <2>1, <2>2, <2>3, <2>4, <2>5
<1>15. ASSUME NEW p \in Procs, Return(p) PROVE IInv'
  <2>1. TypeOK'
    BY <1>15 DEF Return, Over, TypeOK, CallShape, FileProgress, Files, Ops
  <2>2. CallShape'
    BY <1>15 DEF Return, Over, TypeOK, CallShape, Files, Ops
  <2>3. FileProgress'
    BY <1>15 DEF Return, Over, TypeOK, CallShape, FileProgress, Files, Ops
  <2>4. NeverPartial'
    BY <1>15 DEF Return, Over, TypeOK, CallShape, FileProgress, NeverPartial, Files, Ops
  <2>5. TempFilesOwned'
    BY <1>15 DEF Return, Over, TypeOK, CallShape, TempFilesOwned, Files, Ops
  <2> QED BY <2>1, <2>2, <2>3, <2>4, <2>5
<1>16. ASSUME NEW p \in Procs, Killed(p) PROVE IInv'
  <2>1. TypeOK'
    BY <1>16 DEF Killed, Over, TypeOK, CallShape, FileProgress, Files, Ops
  <2>2. CallShape'
    BY <1>16 DEF Killed, Over, TypeOK, CallShape, Files, Ops
  <2>3. FileProgress'
    BY <1>16 DEF Killed, Over, TypeOK, CallShape, FileProgress, Files, Ops
  <2>4. NeverPartial'
    BY <1>16 DEF Killed, Over, TypeOK, CallShape, FileProgress, NeverPartial, Files, Ops
  <2>5. TempFilesOwned'
    BY <1>16 DEF Killed, Over, TypeOK, CallShape, TempFilesOwned, Files, Ops
  <2> QED BY <2>1, <2>2, <2>3, <2>4, <2>5
<1> QED
  BY <1>1, <1>2, <1>3, <1>4, <1>5, <1>6, <1>7, <1>8, <1>9, <1>10, <1>11, <1>12, <1>13, <1>14, <1>15, <1>16 DEF Next, Install, Uninstall

LEMMA Invariance == Spec => []IInv
<1> QED BY InitIInv, NextIInv, PTL DEF Spec

-----------------------------------------------------------------------------

\* Install and Uninstall keep their variables well typed.
THEOREM TypeCorrect == Spec => []TypeOK
<1>1. IInv => TypeOK
  BY DEF IInv
<1> QED BY <1>1, Invariance, PTL

\* Whatever fails or is killed, {name}.json is absent or complete.
THEOREM NeverPartialHolds == Spec => []NeverPartial
<1>1. IInv => NeverPartial
  BY DEF IInv
<1> QED BY <1>1, Invariance, PTL

\* A call that returns has no temporary file.
THEOREM TempFilesAreOwned == Spec => []TempFilesOwned
<1>1. IInv => TempFilesOwned
  BY DEF IInv
<1> QED BY <1>1, Invariance, PTL

-----------------------------------------------------------------------------
(* Install and Uninstall behave like the store.                            *)

\* What an observer of the store sees: the registered tools, and how far
\* each call has come.
Registered == [n \in Names |-> IF dest[n] = None THEN None ELSE dest[n].tool]
Stages == [p \in Procs |-> Stage(p)]

\* A step that leaves the tools, the arguments and the outcomes alone is not
\* visible.
LEMMA Unseen ==
  ASSUME UNCHANGED <<dest, op, result>>,
         \A p \in Procs : pc[p] = "idle" <=> pc'[p] = "idle"
  PROVE  UNCHANGED Store!vars
<1>1. UNCHANGED Registered
  BY DEF Registered
<1>2. UNCHANGED Stages
  BY DEF Stages, Stage
<1> QED BY <1>1, <1>2 DEF Store!vars, Registered, Stages

\* Deciding a call is atomic for the store.
LEMMA Decided ==
  ASSUME IInv, NEW p \in Procs, result[p] = "none", pc[p] # "idle",
         NEW to \in {"cleanup", "return"}, pc' = [pc EXCEPT ![p] = to],
         NEW r \in {"ok", "error"}, result' = [result EXCEPT ![p] = r]
  PROVE  Stages[p] = "pending" /\ Stages' = [Stages EXCEPT ![p] = r]
<1>1. Stages[p] = "pending"
  BY DEF Stages, Stage
<1>2. Stages'[p] = r
  BY DEF Stages, Stage, IInv, TypeOK
<1>3. ASSUME NEW q \in Procs, q # p PROVE Stages'[q] = Stages[q]
  BY <1>3 DEF Stages, Stage, IInv, TypeOK
<1> QED BY <1>1, <1>2, <1>3 DEF Stages

\* Install and Uninstall implement the atomic store, for any processes, names
\* and tools: every step is a request, the effect, a failure, the end of a
\* call or invisible.
THEOREM RegistryImplementsStore == Spec => ImplementsStore
<1>1. Init => Store!Init
  BY DEF Init, Store!Init, Stage
<1>2. ASSUME IInv, [Next]_vars PROVE [Store!Next]_(Store!vars)
  <2> USE <1>2
  <2>1. ASSUME NEW p \in Procs, Begin(p) PROVE Store!Request(p)
    <3>1. Registered' = Registered
      BY <2>1 DEF Begin, Registered
    <3>2. Stages[p] = "idle" /\ Stages' = [Stages EXCEPT ![p] = "pending"]
      <4>1. Stages[p] = "idle" /\ Stages'[p] = "pending"
        BY <2>1 DEF Begin, Stages, Stage, IInv, TypeOK, CallShape
      <4>2. ASSUME NEW q \in Procs, q # p PROVE Stages'[q] = Stages[q]
        BY <2>1, <4>2 DEF Begin, Stages, Stage, IInv, TypeOK
      <4> QED BY <4>1, <4>2 DEF Stages
    <3> QED
      BY <2>1, <3>1, <3>2 DEF Begin, GivenNames, Store!Request, Registered, Stages
  <2>2. ASSUME NEW p \in Procs, Rename(p) \/ Remove(p) PROVE Store!TakeEffect(p)
    <3>1. op[p].name \in Names /\ result[p] = "none" /\ UNCHANGED op
      BY <2>2 DEF Rename, Remove, GoTo, IInv, CallShape, TypeOK, Writing
    <3>2. Stages[p] = "pending" /\ Stages' = [Stages EXCEPT ![p] = "ok"]
      BY <2>2, <3>1, Decided DEF Rename, Remove, GoTo
    <3>3. Registered' = [Registered EXCEPT ![op[p].name] = op[p].put]
      <4>1. CASE Rename(p)
        BY <4>1, <3>1 DEF Rename, GoTo, Registered, IInv, TypeOK, FileProgress,
                          Files, Writing
      <4>2. CASE Remove(p)
        BY <4>2, <3>1 DEF Remove, GoTo, Registered, IInv, TypeOK, CallShape
      <4> QED BY <2>2, <4>1, <4>2
    <3> QED
      BY <3>1, <3>2, <3>3 DEF Store!TakeEffect, Registered, Stages
  <2>3. ASSUME NEW p \in Procs, InstallFails(p) \/ RemoveFails(p) PROVE Store!Fail(p)
    <3>1. result[p] = "none" /\ UNCHANGED <<op, Registered>>
      BY <2>3 DEF InstallFails, RemoveFails, GoTo, IInv, CallShape, TypeOK, Registered
    <3>2. Stages[p] = "pending" /\ Stages' = [Stages EXCEPT ![p] = "error"]
      BY <2>3, <3>1, Decided DEF InstallFails, RemoveFails, GoTo
    <3> QED
      BY <3>1, <3>2 DEF Store!Fail, Registered, Stages
  <2>4. ASSUME NEW p \in Procs, Return(p) \/ Killed(p) PROVE Store!End(p)
    <3>1. Stages[p] # "idle"
      BY <2>4 DEF Return, Killed, Stages, Stage, IInv, TypeOK
    <3>2. Stages' = [Stages EXCEPT ![p] = "idle"]
      BY <2>4 DEF Return, Killed, Over, Stages, Stage, IInv, TypeOK
    <3>3. Registered' = Registered /\ op' = [op EXCEPT ![p] = None]
      BY <2>4 DEF Return, Killed, Over, Registered
    <3> QED
      BY <3>1, <3>2, <3>3 DEF Store!End, Registered, Stages
  <2>5. ASSUME NEW p \in Procs,
               \/ Validate(p) \/ MkdirAll(p) \/ CreateTemp(p) \/ WriteSome(p)
               \/ Written(p) \/ Chmod(p) \/ Close(p) \/ Cleanup(p)
        PROVE  UNCHANGED Store!vars
    BY <2>5, Unseen DEF Validate, MkdirAll, CreateTemp, WriteSome, Written, Chmod,
                        Close, Cleanup, GoTo, IInv, TypeOK
  <2>6. CASE UNCHANGED vars
    BY <2>6, Unseen DEF vars
  <2> QED
    BY <2>1, <2>2, <2>3, <2>4, <2>5, <2>6 DEF Next, Install, Uninstall, Store!Next
<1> QED BY <1>1, <1>2, Invariance, PTL DEF Spec, ImplementsStore, Store!Spec
=============================================================================
