---------------------------- MODULE ServerProofs -----------------------------
(***************************************************************************)
(* The safety properties of Server, proved for any goroutines, requests,   *)
(* addresses and callers.  Whoever is inside closeOnce.Do is alone there,  *)
(* and nobody is past it before tsnet's Close has ended; whoever has a     *)
(* connection's address now is among those seen there since a request came.*)
(***************************************************************************)
EXTENDS Server, TLAPS

Inside == {"closing transport", "closing server", "waiting for server"}
Past == {"leaving", "returned"}

\* Until NewServer has returned there is no other goroutine, and no Close.
NewFirst ==
  pc[Main] = "new" => once = "new" /\ \A c \in Closers : c # Main => pc[c] = "none"

OnceExclusive ==
  /\ \A c, d \in Closers : pc[c] \in Inside /\ pc[d] \in Inside => c = d
  /\ \A c \in Closers : pc[c] \in Inside => once = "running"
  /\ \A c \in Closers : pc[c] \in Past => once = "done"

OnceDone ==
  /\ once = "done" => ts = "closed"
  /\ \A c \in Closers : pc[c] = "returned" => got[c] = closeErr
  /\ process = "exited" => pc[Main] = "returned"

SeenOwners ==
  \A r \in Requests :
    /\ req[r].from # None => owner[req[r].from] \in seen[r]
    /\ req[r].id # None /\ req[r].addr = req[r].from => req[r].id \in seen[r]

IInv == TypeOK /\ NewFirst /\ OnceExclusive /\ OnceDone /\ SeenOwners

-----------------------------------------------------------------------------

(* The invariant holds before NewServer is called.                          *)
LEMMA InvInit == Init => IInv
<1> SUFFICES ASSUME Init PROVE IInv
  OBVIOUS
<1> USE ServerAssumption DEF Init
<1>1. TypeOK
  BY DEF TypeOK, Places, NoRequest
<1>2. NewFirst /\ OnceExclusive /\ OnceDone
  BY DEF NewFirst, OnceExclusive, OnceDone, Inside, Past, Closers
<1>3. SeenOwners
  BY DEF SeenOwners, NoRequest
<1> QED
  BY <1>1, <1>2, <1>3 DEF IInv

(* A goroutine that goes from one step to another keeps the types and       *)
(* leaves the requests alone.                                               *)
LEMMA GoToKeeps ==
  ASSUME IInv, NEW c \in Closers, NEW from \in Places, NEW to \in Places, GoTo(c, from, to)
  PROVE  /\ pc \in [Closers -> Places] /\ pc' \in [Closers -> Places]
         /\ pc[c] = from /\ pc'[c] = to
         /\ \A d \in Closers : d # c => pc'[d] = pc[d]
         /\ process = "running" /\ process' = process
         /\ owner' = owner /\ req' = req /\ seen' = seen
  BY DEF GoTo, IInv, TypeOK, reqVars

(* A step that neither enters nor leaves closeOnce.Do, and changes nothing   *)
(* that Close works with, preserves the invariant.                          *)
LEMMA MoveKeeps ==
  ASSUME IInv, NEW c \in Closers, NEW from \in Places, NEW to \in Places,
         GoTo(c, from, to),
         from \notin {"none", "returned"}, to \notin Past \cup {"new"},
         to \in Inside => from \in Inside,
         ch' \in {0, 1}, UNCHANGED <<once, closeErr, got, ts, signalled>>
  PROVE  IInv'
<1> USE DEF IInv
<1>a. Main \in Closers
  BY ServerAssumption DEF Closers
<1>b. /\ pc \in [Closers -> Places] /\ pc' \in [Closers -> Places]
      /\ pc[c] = from /\ pc'[c] = to
      /\ \A d \in Closers : d # c => pc'[d] = pc[d]
      /\ process = "running" /\ process' = process
      /\ owner' = owner /\ req' = req /\ seen' = seen
  BY GoToKeeps
<1>1. TypeOK'
  BY <1>b DEF TypeOK
<1>2. NewFirst'
  BY <1>a, <1>b DEF NewFirst
<1>3. OnceExclusive'
  BY <1>b DEF OnceExclusive, Past
<1>4. OnceDone'
  BY <1>b DEF OnceDone, Past
<1>5. SeenOwners'
  BY <1>b DEF SeenOwners
<1> QED
  BY <1>1, <1>2, <1>3, <1>4, <1>5

(* The steps of Close preserve the invariant.                               *)
LEMMA InvClose == ASSUME IInv, NEW c \in Closers, Close(c) PROVE IInv'
<1> USE DEF IInv
<1>a. Main \in Closers
  BY ServerAssumption DEF Closers
<1>b. Inside \cup Past \cup {"entering"} \subseteq Places
  BY DEF Inside, Past, Places
<1>1. CASE EnterOnce(c)
  <2>1. GoTo(c, "entering", "closing transport") /\ once = "new" /\ once' = "running"
        /\ UNCHANGED <<ch, closeErr, got, ts, signalled>>
    BY <1>1 DEF EnterOnce
  <2>2. "entering" \in Places /\ "closing transport" \in Places
    BY DEF Places
  <2>5. /\ pc \in [Closers -> Places] /\ pc' \in [Closers -> Places]
        /\ pc[c] = "entering" /\ pc'[c] = "closing transport"
        /\ \A d \in Closers : d # c => pc'[d] = pc[d]
        /\ process = "running" /\ process' = process
        /\ owner' = owner /\ req' = req /\ seen' = seen
    BY <1>a, <2>1, <2>2, GoToKeeps
  <2>6. TypeOK'
    BY <2>5, <1>a, <2>1, <2>2 DEF TypeOK
  <2>7. NewFirst'
    BY <2>5, <1>a, <2>1, <2>2 DEF NewFirst
  <2>8. OnceExclusive'
    BY <2>5, <1>a, <2>1, <2>2 DEF OnceExclusive, Inside, Past
  <2>9. OnceDone'
    BY <2>5, <1>a, <2>1, <2>2 DEF TypeOK, OnceExclusive, OnceDone, Inside, Past
  <2>10. SeenOwners'
    BY <2>5 DEF SeenOwners
  <2> QED
    BY <2>6, <2>7, <2>8, <2>9, <2>10
<1>2. CASE CloseIdleConnections(c)
  BY <1>a, <1>b, <1>2, MoveKeeps DEF CloseIdleConnections, Inside, Past, TypeOK
<1>3. CASE BeginServerClose(c)
  <2>1. GoTo(c, "closing server", "waiting for server") /\ ts' = "closing"
        /\ UNCHANGED <<ch, once, closeErr, got, signalled>>
    BY <1>3 DEF BeginServerClose
  <2>2. "waiting for server" \in Places /\ "closing server" \in Places
    BY DEF Places
  <2>5. /\ pc \in [Closers -> Places] /\ pc' \in [Closers -> Places]
        /\ pc[c] = "closing server" /\ pc'[c] = "waiting for server"
        /\ \A d \in Closers : d # c => pc'[d] = pc[d]
        /\ process = "running" /\ process' = process
        /\ owner' = owner /\ req' = req /\ seen' = seen
    BY <1>a, <2>1, <2>2, GoToKeeps
  <2>6. TypeOK'
    BY <2>5, <1>a, <2>1, <2>2 DEF TypeOK
  <2>7. NewFirst'
    BY <2>5, <1>a, <2>1, <2>2 DEF NewFirst
  <2>8. OnceExclusive'
    BY <2>5, <1>a, <2>1, <2>2 DEF OnceExclusive, Inside, Past
  <2>9. OnceDone'
    BY <2>5, <1>a, <2>1, <2>2 DEF TypeOK, OnceExclusive, OnceDone, Inside, Past
  <2>10. SeenOwners'
    BY <2>5 DEF SeenOwners
  <2> QED
    BY <2>6, <2>7, <2>8, <2>9, <2>10
<1>4. CASE ServerClosed(c)
  <2>1. GoTo(c, "waiting for server", "leaving") /\ ts' = "closed" /\ once' = "done"
        /\ closeErr' \in {"nil", "error"} /\ UNCHANGED <<ch, got, signalled>>
    BY <1>4 DEF ServerClosed
  <2>2. "waiting for server" \in Places /\ "leaving" \in Places
    BY DEF Places
  <2>3. once = "running"
    BY <2>1, <2>2, GoToKeeps DEF OnceExclusive, Inside
  <2>4. \A d \in Closers : pc'[d] # "returned"
    BY <2>1, <2>2, <2>3, GoToKeeps DEF OnceExclusive, Past
  <2>5. /\ pc \in [Closers -> Places] /\ pc' \in [Closers -> Places]
        /\ pc[c] = "waiting for server" /\ pc'[c] = "leaving"
        /\ \A d \in Closers : d # c => pc'[d] = pc[d]
        /\ process = "running" /\ process' = process
        /\ owner' = owner /\ req' = req /\ seen' = seen
    BY <1>a, <2>1, <2>2, <2>3, <2>4, GoToKeeps
  <2>6. TypeOK'
    BY <2>5, <1>a, <2>1, <2>2, <2>3, <2>4 DEF TypeOK
  <2>7. NewFirst'
    BY <2>5, <1>a, <2>1, <2>2, <2>3, <2>4 DEF NewFirst
  <2>8. OnceExclusive'
    BY <2>5, <1>a, <2>1, <2>2, <2>3, <2>4 DEF OnceExclusive, Inside, Past
  <2>9. OnceDone'
    BY <2>5, <1>a, <2>1, <2>2, <2>3, <2>4 DEF TypeOK, OnceExclusive, OnceDone, Inside, Past
  <2>10. SeenOwners'
    BY <2>5 DEF SeenOwners
  <2> QED
    BY <2>6, <2>7, <2>8, <2>9, <2>10
<1>5. CASE CloseReturns(c)
  <2>1. PICK at \in {"entering", "leaving"} :
          /\ GoTo(c, at, "returned") /\ once = "done"
          /\ got' = [got EXCEPT ![c] = closeErr]
          /\ UNCHANGED <<ch, once, closeErr, ts, signalled>>
    BY <1>5 DEF CloseReturns
  <2>2. at \in Places /\ "returned" \in Places
    BY DEF Places
  <2>3. got' \in [Closers -> {"none", "nil", "error"}] /\ got'[c] = closeErr
        /\ \A d \in Closers : d # c => got'[d] = got[d]
    BY <2>1 DEF TypeOK
  <2>5. /\ pc \in [Closers -> Places] /\ pc' \in [Closers -> Places]
        /\ pc[c] = at /\ pc'[c] = "returned"
        /\ \A d \in Closers : d # c => pc'[d] = pc[d]
        /\ process = "running" /\ process' = process
        /\ owner' = owner /\ req' = req /\ seen' = seen
    BY <1>a, <2>1, <2>2, <2>3, GoToKeeps
  <2>6. TypeOK'
    BY <2>5, <1>a, <2>1, <2>2, <2>3 DEF TypeOK
  <2>7. NewFirst'
    BY <2>5, <1>a, <2>1, <2>2, <2>3 DEF NewFirst
  <2>8. OnceExclusive'
    BY <2>5, <1>a, <2>1, <2>2, <2>3 DEF OnceExclusive, Inside, Past
  <2>9. OnceDone'
    BY <2>5, <1>a, <2>1, <2>2, <2>3 DEF TypeOK, OnceExclusive, OnceDone, Inside, Past
  <2>10. SeenOwners'
    BY <2>5 DEF SeenOwners
  <2> QED
    BY <2>6, <2>7, <2>8, <2>9, <2>10
<1> QED
  BY <1>1, <1>2, <1>3, <1>4, <1>5 DEF Close

(* What the program's goroutines do outside Close preserves the invariant.  *)
LEMMA InvThread == ASSUME IInv, NEW t \in Threads, Thread(t) PROVE IInv'
<1> USE DEF IInv
<1>a. Main \in Closers /\ t \in Closers
  BY ServerAssumption DEF Closers
<1>b. {"idle", "entering", "serving", "returned"} \subseteq Places
  BY DEF Places
<1>1. CASE CallClose(t)
  BY <1>a, <1>b, <1>1, MoveKeeps DEF CallClose, Inside, Past, TypeOK
<1>2. CASE Listen(t)
  BY <1>a, <1>b, <1>2, MoveKeeps DEF Listen, Inside, Past, TypeOK
<1>3. CASE ServeReturns(t)
  BY <1>a, <1>b, <1>3, MoveKeeps DEF ServeReturns, Inside, Past, TypeOK
<1>4. CASE GoOn(t)
  <2>1. GoTo(t, "returned", "idle") /\ t # Main /\ got' = [got EXCEPT ![t] = "none"]
        /\ UNCHANGED <<ch, once, closeErr, ts, signalled>>
    BY <1>4 DEF GoOn
  <2>2. got' \in [Closers -> {"none", "nil", "error"}]
        /\ \A d \in Closers : d # t => got'[d] = got[d]
    BY <1>a, <2>1 DEF TypeOK
  <2>5. /\ pc \in [Closers -> Places] /\ pc' \in [Closers -> Places]
        /\ pc[t] = "returned" /\ pc'[t] = "idle"
        /\ \A d \in Closers : d # t => pc'[d] = pc[d]
        /\ process = "running" /\ process' = process
        /\ owner' = owner /\ req' = req /\ seen' = seen
    BY <1>a, <1>b, <2>1, <2>2, GoToKeeps
  <2>6. TypeOK'
    BY <2>5, <1>a, <1>b, <2>1, <2>2 DEF TypeOK
  <2>7. NewFirst'
    BY <2>5, <1>a, <1>b, <2>1, <2>2 DEF NewFirst
  <2>8. OnceExclusive'
    BY <2>5, <1>a, <1>b, <2>1, <2>2 DEF OnceExclusive, Inside, Past
  <2>9. OnceDone'
    BY <2>5, <1>a, <1>b, <2>1, <2>2 DEF TypeOK, OnceExclusive, OnceDone, Inside, Past
  <2>10. SeenOwners'
    BY <2>5 DEF SeenOwners
  <2> QED
    BY <2>6, <2>7, <2>8, <2>9, <2>10
<1> QED
  BY <1>1, <1>2, <1>3, <1>4 DEF Thread

(* NewServer, signals and the end of the process preserve the invariant.    *)
LEMMA InvProcess ==
  ASSUME IInv, NewServerFails \/ NewServer \/ SignalGoroutine \/ Signal \/ Exit PROVE IInv'
<1> USE DEF IInv
<1>a. Main \in Closers /\ Sig \in Closers /\ Main # Sig
  BY ServerAssumption DEF Closers
<1>b. {"new", "failed", "starting", "registered", "entering", "idle", "none"} \subseteq Places
  BY DEF Places
<1>1. CASE NewServerFails
  BY <1>a, <1>b, <1>1, MoveKeeps DEF NewServerFails, Inside, Past, TypeOK
<1>2. CASE NewServer
  <2>1. /\ process = "running" /\ pc[Main] = "new" /\ ts' = "up"
        /\ pc' = [c \in Closers |-> IF c = Sig THEN "starting" ELSE "idle"]
        /\ UNCHANGED <<process, ch, once, closeErr, got, signalled, owner, req, seen>>
    BY <1>2 DEF NewServer, reqVars
  <2>2. pc' \in [Closers -> Places] /\ \A c \in Closers : pc'[c] \in {"starting", "idle"}
    BY <1>b, <2>1
  <2>3. once = "new"
    BY <2>1 DEF NewFirst
  <2> QED
    BY <1>a, <2>1, <2>2, <2>3 DEF TypeOK, NewFirst, OnceExclusive, OnceDone, SeenOwners, Inside, Past
<1>3. CASE Notify
  BY <1>a, <1>b, <1>3, MoveKeeps DEF Notify, Inside, Past, TypeOK
<1>4. CASE Receive
  BY <1>a, <1>b, <1>4, MoveKeeps DEF Receive, Inside, Past, TypeOK
<1>5. CASE Signal
  <2>1. /\ process = "running" /\ process' \in {"running", "killed"}
        /\ ch' \in {ch, 1} /\ signalled' \in {signalled, TRUE}
        /\ UNCHANGED <<pc, once, closeErr, got, ts, owner, req, seen>>
    BY <1>5 DEF Signal, reqVars
  <2>2. signalled' \in BOOLEAN /\ ch' \in {0, 1}
    BY <2>1 DEF TypeOK
  <2> QED
    BY <2>1, <2>2 DEF TypeOK, NewFirst, OnceExclusive, OnceDone, SeenOwners
<1>6. CASE Exit
  <2>1. /\ pc[Main] = "returned" /\ process' = "exited"
        /\ UNCHANGED <<pc, ch, once, closeErr, got, ts, signalled, owner, req, seen>>
    BY <1>6 DEF Exit, reqVars
  <2> QED
    BY <2>1 DEF TypeOK, NewFirst, OnceExclusive, OnceDone, SeenOwners
<1> QED
  BY <1>1, <1>2, <1>3, <1>4, <1>5, <1>6 DEF SignalGoroutine

(* Requests and changing owners preserve the invariant.                     *)
LEMMA InvRequests ==
  ASSUME IInv,
         \/ \E r \in Requests : Arrive(r) \/ AuthMiddleware(r)
         \/ \E a \in Addresses : ChangeOwner(a)
  PROVE  IInv'
<1> USE ServerAssumption DEF IInv
<1>a. UNCHANGED lifeVars
  BY DEF Arrive, AuthMiddleware, WhoIs, Reject, Handled, Done, ChangeOwner
<1>b. NewFirst' /\ OnceExclusive' /\ OnceDone'
  BY <1>a DEF lifeVars, NewFirst, OnceExclusive, OnceDone
<1>1. ASSUME NEW r \in Requests, Arrive(r) PROVE TypeOK' /\ SeenOwners'
  <2>1. PICK from \in Addresses, addr \in Addresses :
          /\ req' = [req EXCEPT ![r] = [from |-> from, addr |-> addr, id |-> None]]
          /\ seen' = [seen EXCEPT ![r] = {owner[from]}]
          /\ owner' = owner
    BY <1>1 DEF Arrive, RemoteAddr
  <2> QED
    BY <1>a, <2>1 DEF lifeVars, TypeOK, SeenOwners
<1>2. ASSUME NEW r \in Requests, WhoIs(r) PROVE TypeOK' /\ SeenOwners'
  <2>1. /\ req[r].addr # None /\ owner[req[r].addr] # None
        /\ req' = [req EXCEPT ![r].id = owner[req[r].addr]]
        /\ seen' = seen /\ owner' = owner
    BY <1>2 DEF WhoIs, Asking
  <2>2. req[r].addr \in Addresses /\ owner[req[r].addr] \in Callers
    BY <2>1 DEF TypeOK
  <2> QED
    BY <1>a, <2>1, <2>2 DEF lifeVars, TypeOK, SeenOwners
<1>3. ASSUME NEW r \in Requests, Done(r) PROVE TypeOK' /\ SeenOwners'
  BY <1>a, <1>3 DEF Done, NoRequest, lifeVars, TypeOK, SeenOwners
<1>4. ASSUME NEW a \in Addresses, ChangeOwner(a) PROVE TypeOK' /\ SeenOwners'
  <2>1. PICK who \in Callers \cup {None} : owner' = [owner EXCEPT ![a] = who]
    BY <1>4 DEF ChangeOwner
  <2>2. owner' \in [Addresses -> Callers \cup {None}]
        /\ owner'[a] = who /\ \A b \in Addresses : b # a => owner'[b] = owner[b]
    BY <2>1 DEF TypeOK
  <2>3. req' = req /\ seen' = [r \in Requests |->
            IF req[r].from = a THEN seen[r] \cup {owner'[a]} ELSE seen[r]]
    BY <1>4 DEF ChangeOwner
  <2>4. TypeOK'
    BY <1>a, <2>2, <2>3 DEF lifeVars, TypeOK
  <2>5. SeenOwners'
    BY <2>2, <2>3 DEF TypeOK, SeenOwners
  <2> QED
    BY <2>4, <2>5
<1> QED
  BY <1>b, <1>1, <1>2, <1>3, <1>4 DEF AuthMiddleware, Reject, Handled

(* IInv is an invariant.                                                    *)
THEOREM Invariant == Spec => []IInv
<1>1. IInv /\ [Next]_vars => IInv'
  <2> SUFFICES ASSUME IInv, [Next]_vars PROVE IInv'
    OBVIOUS
  <2>1. CASE UNCHANGED vars
    BY <2>1 DEF vars, lifeVars, reqVars, IInv, TypeOK, NewFirst, OnceExclusive, OnceDone, SeenOwners
  <2>2. CASE Next
    BY <2>2, InvClose, InvThread, InvProcess, InvRequests DEF Next
  <2> QED
    BY <2>1, <2>2
<1> QED
  BY InvInit, <1>1, PTL DEF Spec

(* Every variable of the server has its type.                               *)
THEOREM TypeCorrect == Spec => []TypeOK
<1>1. IInv => TypeOK
  BY DEF IInv
<1> QED
  BY Invariant, <1>1, PTL

(* Nobody gets out of Close before the one close of the server has ended,   *)
(* everybody gets its error, and main does not return before it.            *)
THEOREM CloseIsFinalHolds == Spec => []CloseIsFinal
<1>1. IInv => CloseIsFinal
  <2> SUFFICES ASSUME IInv PROVE CloseIsFinal
    OBVIOUS
  <2>1. Main \in Closers
    BY ServerAssumption DEF Closers
  <2> QED
    BY <2>1 DEF IInv, OnceExclusive, OnceDone, CloseIsFinal, Past
<1> QED
  BY Invariant, <1>1, PTL

(* A handler runs for a peer who had the address of the request's           *)
(* connection while the request was under way, if the request was looked up *)
(* by that address, as it is when no header names another one.              *)
THEOREM HandlerKnowsCallerHolds == Spec => []HandlerKnowsCaller
<1>1. IInv => HandlerKnowsCaller
  BY DEF IInv, SeenOwners, HandlerKnowsCaller
<1> QED
  BY Invariant, <1>1, PTL

-----------------------------------------------------------------------------

(* No signal is lost: after one, the goroutine of NewServer has it in its   *)
(* channel or is on its way through Close.  And nobody waits in closeOnce   *)
(* for nobody: somebody else is inside, who waits for tsnet only.           *)
EveryWaitEnds ==
  /\ signalled => \/ ch = 1 /\ pc[Sig] = "registered"
                  \/ pc[Sig] \in {"entering"} \cup Inside \cup Past
  /\ \A c \in Closers : pc[c] = "entering" /\ once = "running" =>
       \E d \in Closers \ {c} : pc[d] \in Inside

\* Somebody is inside while closeOnce.Do runs; Sig does not go back.
Progress ==
  /\ once = "running" => \E d \in Closers : pc[d] \in Inside
  /\ signalled => \/ ch = 1 /\ pc[Sig] = "registered"
                  \/ pc[Sig] \in {"entering"} \cup Inside \cup Past
  /\ pc[Sig] \in {"none", "starting", "registered", "entering"} \cup Inside \cup Past

LEMMA NextProgress == IInv /\ Progress /\ [Next]_vars => Progress'
<1> SUFFICES ASSUME IInv, Progress, [Next]_vars PROVE Progress'
  OBVIOUS
<1> USE DEF Progress
<1>a. Main \in Closers /\ Sig \in Closers /\ Main # Sig /\ Sig \notin Threads
  BY ServerAssumption DEF Closers
<1>b. pc \in [Closers -> Places] /\ ch \in {0, 1} /\ once \in {"new", "running", "done"}
  BY DEF IInv, TypeOK
<1>1. CASE UNCHANGED lifeVars
  BY <1>1 DEF lifeVars
<1>2. ASSUME NEW c \in Closers, Close(c) PROVE Progress'
  <2>1. CASE EnterOnce(c)
    BY <1>a, <1>b, <2>1 DEF EnterOnce, GoTo, Inside, Past
  <2>2. CASE CloseIdleConnections(c)
    BY <1>a, <1>b, <2>2 DEF CloseIdleConnections, GoTo, Inside, Past
  <2>3. CASE BeginServerClose(c)
    BY <1>a, <1>b, <2>3 DEF BeginServerClose, GoTo, Inside, Past
  <2>4. CASE ServerClosed(c)
    BY <1>a, <1>b, <2>4 DEF ServerClosed, GoTo, Inside, Past
  <2>5. CASE CloseReturns(c)
    <3>1. PICK at \in {"entering", "leaving"} :
            GoTo(c, at, "returned") /\ once = "done" /\ UNCHANGED <<ch, once, signalled>>
      BY <2>5 DEF CloseReturns
    <3> QED
      BY <1>a, <1>b, <3>1 DEF GoTo, Inside, Past
  <2> QED
    BY <1>2, <2>1, <2>2, <2>3, <2>4, <2>5 DEF Close
<1>3. ASSUME NEW t \in Threads, Thread(t) PROVE Progress'
  <2>1. t \in Closers /\ t # Sig
    BY <1>a DEF Closers
  <2>2. UNCHANGED <<ch, once, signalled>>
    BY <1>3 DEF Thread, CallClose, Listen, ServeReturns, GoOn
  <2>3. pc[t] \notin Inside /\ pc'[Sig] = pc[Sig]
        /\ \A d \in Closers \ {t} : pc'[d] = pc[d]
    BY <1>3, <1>a, <1>b, <2>1 DEF Thread, CallClose, Listen, ServeReturns, GoOn, GoTo, Inside
  <2> QED
    BY <2>1, <2>2, <2>3
<1>4. CASE NewServerFails \/ NewServer
  <2>1. pc[Main] = "new" /\ UNCHANGED <<ch, once, signalled>>
    BY <1>4 DEF NewServerFails, NewServer, GoTo
  <2>2. once = "new" /\ pc[Sig] = "none"
    BY <1>a, <2>1 DEF IInv, NewFirst
  <2>3. pc'[Sig] \in {"none", "starting"}
    BY <1>a, <1>b, <1>4, <2>2 DEF NewServerFails, NewServer, GoTo
  <2> QED
    BY <2>1, <2>2, <2>3 DEF Inside, Past
<1>5. CASE SignalGoroutine
  <2>1. once' = once /\ signalled' = signalled
    BY <1>5 DEF SignalGoroutine, Notify, Receive
  <2>2. /\ pc'[Sig] \in {"registered", "entering"} /\ pc[Sig] \notin Inside
        /\ \A d \in Closers : d # Sig => pc'[d] = pc[d]
    BY <1>a, <1>b, <1>5 DEF SignalGoroutine, Notify, Receive, GoTo, Inside
  <2>3. signalled => pc'[Sig] = "entering"
    BY <1>a, <1>b, <1>5 DEF SignalGoroutine, Notify, Receive, GoTo, Inside, Past
  <2>4. once = "running" => \E d \in Closers : pc'[d] \in Inside
    BY <2>2
  <2> QED
    BY <2>1, <2>2, <2>3, <2>4
<1>6. CASE Signal
  <2>1. pc' = pc /\ once' = once
    BY <1>6 DEF Signal
  <2>2. CASE Registered
    <3>1. ch' = 1 /\ signalled' = TRUE
      BY <1>6, <2>2 DEF Signal
    <3> QED
      BY <2>1, <2>2, <3>1 DEF Registered
  <2>3. CASE ~Registered
    <3>1. ch' = ch /\ signalled' = signalled
      BY <1>6, <2>3 DEF Signal
    <3> QED
      BY <2>1, <3>1
  <2> QED
    BY <2>2, <2>3
<1>7. CASE Exit
  BY <1>7 DEF Exit
<1>8. CASE \/ \E r \in Requests : Arrive(r) \/ AuthMiddleware(r)
           \/ \E a \in Addresses : ChangeOwner(a)
  BY <1>1, <1>8 DEF Arrive, AuthMiddleware, WhoIs, Reject, Handled, Done, ChangeOwner
<1>9. CASE UNCHANGED vars
  BY <1>1, <1>9 DEF vars
<1> QED
  BY <1>2, <1>3, <1>4, <1>5, <1>6, <1>7, <1>8, <1>9 DEF Next

(* A signal is never lost and closeOnce never has waiters only, for any     *)
(* number of goroutines that close the server.                              *)
THEOREM NobodyWaitsForever == Spec => []EveryWaitEnds
<1>1. Init => Progress
  BY ServerAssumption DEF Init, Progress, Closers
<1>2. IInv /\ Progress => EveryWaitEnds
  BY DEF Progress, EveryWaitEnds, Inside
<1>3. Spec => []Progress
  BY <1>1, NextProgress, Invariant, PTL DEF Spec
<1> QED
  BY <1>2, <1>3, Invariant, PTL
=============================================================================
