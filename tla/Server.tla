------------------------------- MODULE Server --------------------------------
(***************************************************************************)
(* The life of a Server (server.go): NewServer and its signal goroutine,   *)
(* ListenAndServe, Close from any goroutine, and the requests that         *)
(* AuthMiddleware lets through while the server is up (middleware.go).     *)
(* Main serves, closes the server and returns, which ends the process and  *)
(* every other goroutine, wherever it is.                                  *)
(***************************************************************************)
EXTENDS Naturals

CONSTANTS
  Threads,   \* the program's goroutines
  Main, Sig, \* main, and the goroutine NewServer starts
  Requests,  \* inbound requests
  Addresses, \* the addresses connections come from and headers name
  Callers,   \* identities: whom WhoIs may name for an address
  None       \* nobody, no address

Closers == Threads \cup {Sig}

ASSUME ServerAssumption ==
  /\ Main \in Threads /\ Sig \notin Threads
  /\ None \notin Callers \cup Addresses

VARIABLES
  process,  \* "running", "killed" by a signal, or "exited"
  pc,       \* pc[c]: how far each goroutine has come
  ch,       \* the signals in the channel of the signal goroutine
  once,     \* closeOnce: "new", "running" or "done"
  closeErr, \* what s.Server.Close returned
  got,      \* got[c]: what Close returned to c
  ts,       \* the tsnet server: "down", "up", "closing" or "closed"
  signalled \* a signal came after signal.Notify (history)

VARIABLES
  owner, \* owner[a]: the peer that has address a now
  req,   \* req[r]: a request under way: the address its connection comes from, the
         \* one it is looked up by, the identity its handler gets
  seen   \* seen[r]: who has had the connection's address since r came (history)

lifeVars == <<process, pc, ch, once, closeErr, got, ts, signalled>>
reqVars == <<owner, req, seen>>
vars == <<lifeVars, reqVars>>

NoRequest == [from |-> None, addr |-> None, id |-> None]

Init ==
  /\ process = "running"
  /\ pc = [c \in Closers |-> IF c = Main THEN "new" ELSE "none"]
  /\ ch = 0 /\ once = "new" /\ closeErr = "nil"
  /\ got = [c \in Closers |-> "none"]
  /\ ts = "down" /\ signalled = FALSE
  /\ owner \in [Addresses -> Callers \cup {None}]
  /\ req = [r \in Requests |-> NoRequest]
  /\ seen = [r \in Requests |-> {}]

GoTo(c, from, to) ==
  /\ process = "running"
  /\ pc[c] = from
  /\ pc' = [pc EXCEPT ![c] = to]
  /\ UNCHANGED <<process, reqVars>>

-----------------------------------------------------------------------------
(* NewServer and signals.                                                   *)

\* An empty host name or a tsnet server that does not start.
NewServerFails ==
  /\ GoTo(Main, "new", "failed")
  /\ UNCHANGED <<ch, once, closeErr, got, ts, signalled>>

\* The goroutines of the program get the server, the signal goroutine starts.
NewServer ==
  /\ process = "running" /\ pc[Main] = "new"
  /\ ts' = "up"
  /\ pc' = [c \in Closers |-> IF c = Sig THEN "starting" ELSE "idle"]
  /\ UNCHANGED <<process, ch, once, closeErr, got, signalled, reqVars>>

Notify ==
  /\ GoTo(Sig, "starting", "registered")
  /\ UNCHANGED <<ch, once, closeErr, got, ts, signalled>>

\* The receive from ch, after which Close is called.
Receive ==
  /\ ch = 1
  /\ GoTo(Sig, "registered", "entering")
  /\ ch' = 0
  /\ UNCHANGED <<once, closeErr, got, ts, signalled>>

Registered == pc[Sig] \notin {"none", "starting"}

\* Mutant: a channel without a buffer loses what comes before the receive, and
\* whether the goroutine has reached it only the scheduler knows.
SignalUnbuffered ==
  /\ process = "running"
  /\ IF Registered
     THEN /\ ch' \in IF pc[Sig] = "registered" THEN {0, 1} ELSE {0}
          /\ signalled' = TRUE /\ process' = process
     ELSE ch' = ch /\ process' = "killed" /\ signalled' = signalled
  /\ UNCHANGED <<pc, once, closeErr, got, ts, reqVars>>

\* Mutant: nothing bounds what is sent to the channel.
SignalUnbounded ==
  /\ process = "running"
  /\ IF Registered THEN ch' = ch + 1 /\ signalled' = TRUE /\ process' = process
                   ELSE ch' = ch /\ process' = "killed" /\ signalled' = signalled
  /\ UNCHANGED <<pc, once, closeErr, got, ts, reqVars>>

\* SIGTERM or SIGINT: before Notify it kills the process, afterwards it is sent
\* to ch, if there is room.
Signal ==
  /\ process = "running"
  /\ IF Registered THEN ch' = 1 /\ signalled' = TRUE /\ process' = process
                   ELSE ch' = ch /\ process' = "killed" /\ signalled' = signalled
  /\ UNCHANGED <<pc, once, closeErr, got, ts, reqVars>>

-----------------------------------------------------------------------------
(* Close.                                                                   *)

CallClose(t) ==
  /\ GoTo(t, "idle", "entering")
  /\ UNCHANGED <<ch, once, closeErr, got, ts, signalled>>

\* closeOnce.Do: the first caller goes on, the others wait until it is done.
EnterOnce(c) ==
  /\ once = "new"
  /\ GoTo(c, "entering", "closing transport")
  /\ once' = "running"
  /\ UNCHANGED <<ch, closeErr, got, ts, signalled>>

CloseIdleConnections(c) ==
  /\ GoTo(c, "closing transport", "closing server")
  /\ UNCHANGED <<ch, once, closeErr, got, ts, signalled>>

\* s.Server.Close begins: the listeners are closed.
BeginServerClose(c) ==
  /\ GoTo(c, "closing server", "waiting for server")
  /\ ts' = "closing"
  /\ UNCHANGED <<ch, once, closeErr, got, signalled>>

ServerClosed(c) ==
  /\ GoTo(c, "waiting for server", "leaving")
  /\ ts' = "closed"
  /\ closeErr' \in {"nil", "error"}
  /\ once' = "done"
  /\ UNCHANGED <<ch, got, signalled>>

\* Mutant: a flag instead of closeOnce, which those who come later do not wait for.
CloseReturnsAtOnce(c) ==
  /\ once # "new"
  /\ \E at \in {"entering", "leaving"} : GoTo(c, at, "returned")
  /\ got' = [got EXCEPT ![c] = closeErr]
  /\ UNCHANGED <<ch, once, closeErr, ts, signalled>>

CloseReturns(c) ==
  /\ once = "done"
  /\ \E at \in {"entering", "leaving"} : GoTo(c, at, "returned")
  /\ got' = [got EXCEPT ![c] = closeErr]
  /\ UNCHANGED <<ch, once, closeErr, ts, signalled>>

Close(c) ==
  \/ EnterOnce(c) \/ CloseIdleConnections(c) \/ BeginServerClose(c)
  \/ ServerClosed(c) \/ CloseReturns(c)

-----------------------------------------------------------------------------
(* Serving, and the end of the process.                                     *)

\* ListenAndServe, ListenAndServeTLS: the listener is open.
Listen(t) ==
  /\ ts = "up"
  /\ GoTo(t, "idle", "serving")
  /\ UNCHANGED <<ch, once, closeErr, got, ts, signalled>>

\* http.Serve returns the error of the closed listener.
ServeReturns(t) ==
  /\ ts \in {"closing", "closed"}
  /\ GoTo(t, "serving", "idle")
  /\ UNCHANGED <<ch, once, closeErr, got, ts, signalled>>

\* A goroutine may go on and close the server again; main has nothing left to do.
GoOn(t) ==
  /\ t # Main
  /\ GoTo(t, "returned", "idle")
  /\ got' = [got EXCEPT ![t] = "none"]
  /\ UNCHANGED <<ch, once, closeErr, ts, signalled>>

\* main returns after its deferred Close.
Exit ==
  /\ process = "running" /\ pc[Main] = "returned"
  /\ process' = "exited"
  /\ UNCHANGED <<pc, ch, once, closeErr, got, ts, signalled, reqVars>>

-----------------------------------------------------------------------------
(* AuthMiddleware.                                                          *)

\* The address a request is looked up by: the headers come before the connection.
RemoteAddr(forwardedFor, realIP, remoteAddr) ==
  IF forwardedFor # None THEN forwardedFor ELSE IF realIP # None THEN realIP ELSE remoteAddr

Serving == process = "running" /\ ts = "up" /\ \E t \in Threads : pc[t] = "serving"

Arrive(r) ==
  /\ Serving /\ req[r] = NoRequest
  /\ \E f, i \in Addresses \cup {None}, a \in Addresses :
         /\ req' = [req EXCEPT ![r] =
                     [from |-> a, addr |-> RemoteAddr(f, i, a), id |-> None]]
         /\ seen' = [seen EXCEPT ![r] = {owner[a]}]
  /\ UNCHANGED <<lifeVars, owner>>

\* The request is on its way to the handler.
Asking(r) == process = "running" /\ req[r].addr # None /\ req[r].id = None

\* Mutant: the middleware remembers whom it has seen at an address.
WhoIsRemembered(r) ==
  /\ Asking(r)
  /\ \E q \in Requests :
       LET who == IF req[q].id # None /\ req[q].addr = req[r].addr
                  THEN req[q].id ELSE owner[req[r].addr] IN
         who # None /\ req' = [req EXCEPT ![r].id = who]
  /\ UNCHANGED <<lifeVars, owner, seen>>

\* lc.WhoIs names the peer that has the address; the handler is called with it.
WhoIs(r) ==
  /\ Asking(r)
  /\ LET who == owner[req[r].addr] IN who # None /\ req' = [req EXCEPT ![r].id = who]
  /\ UNCHANGED <<lifeVars, owner, seen>>

Done(r) ==
  /\ req' = [req EXCEPT ![r] = NoRequest]
  /\ seen' = [seen EXCEPT ![r] = {}]
  /\ UNCHANGED <<lifeVars, owner>>

\* 500 without a local client; 401 if WhoIs fails or knows nobody.
Reject(r) == Asking(r) /\ Done(r)

\* The handler returns.
Handled(r) == process = "running" /\ req[r].id # None /\ Done(r)

AuthMiddleware(r) == WhoIs(r) \/ Reject(r) \/ Handled(r)

\* Peers come and go; an address may get another owner.
ChangeOwner(a) ==
  /\ \E who \in (Callers \cup {None}) \ {owner[a]} : owner' = [owner EXCEPT ![a] = who]
  /\ seen' = [r \in Requests |->
                IF req[r].from = a THEN seen[r] \cup {owner'[a]} ELSE seen[r]]
  /\ UNCHANGED <<lifeVars, req>>

-----------------------------------------------------------------------------

SignalGoroutine == Notify \/ Receive

Thread(t) == CallClose(t) \/ Listen(t) \/ ServeReturns(t) \/ GoOn(t)

Next ==
  \/ NewServerFails \/ NewServer
  \/ SignalGoroutine \/ Signal
  \/ \E t \in Threads : Thread(t)
  \/ \E c \in Closers : Close(c)
  \/ Exit
  \/ \E r \in Requests : Arrive(r) \/ AuthMiddleware(r)
  \/ \E a \in Addresses : ChangeOwner(a)

Spec == Init /\ [][Next]_vars

(* The Go scheduler runs every goroutine that can run, and tsnet's Close    *)
(* ends.  No program has to serve or to close its server.                   *)
FairSpec ==
  /\ Spec /\ WF_vars(SignalGoroutine)
  /\ \A c \in Closers : WF_vars(Close(c))
  /\ \A t \in Threads : WF_vars(ServeReturns(t))

-----------------------------------------------------------------------------

Places == {"none", "new", "failed", "starting", "registered", "idle", "serving", "entering",
           "closing transport", "closing server", "waiting for server", "leaving", "returned"}

(* Every variable has its type: one signal at most waits in the channel.    *)
TypeOK ==
  /\ process \in {"running", "killed", "exited"}
  /\ pc \in [Closers -> Places]
  /\ ch \in {0, 1}
  /\ once \in {"new", "running", "done"}
  /\ closeErr \in {"nil", "error"}
  /\ got \in [Closers -> {"none", "nil", "error"}]
  /\ ts \in {"down", "up", "closing", "closed"}
  /\ signalled \in BOOLEAN
  /\ owner \in [Addresses -> Callers \cup {None}]
  /\ req \in [Requests -> [from : Addresses \cup {None}, addr : Addresses \cup {None},
                           id : Callers \cup {None}]]
  /\ seen \in [Requests -> SUBSET (Callers \cup {None})]

(* Whoever calls Close, and whoever else does at the same time, gets back   *)
(* only when the server is closed, and gets the error of that one close; so *)
(* a main that closes before it returns never cuts short the close a signal *)
(* has begun.                                                               *)
CloseIsFinal ==
  /\ \A c \in Closers : pc[c] = "returned" => ts = "closed" /\ got[c] = closeErr
  /\ process = "exited" => ts = "closed"

(* If its headers name no other address than that of its connection, a      *)
(* request is handled for a peer who had this address while the request was *)
(* under way, never for one from before it or for nobody.  AuthMiddleware   *)
(* checks no header: of the others only whoever sets them can say as much.  *)
HandlerKnowsCaller ==
  \A r \in Requests :
    req[r].id # None /\ req[r].addr = req[r].from => req[r].id \in seen[r] \ {None}

(* "Graceful shutdown on SIGTERM/SIGINT": a signal after Notify closes the  *)
(* server and ends all serving, unless the process is over.                 *)
ShutsDown ==
  signalled ~> \/ process # "running"
               \/ ts = "closed" /\ \A t \in Threads : pc[t] # "serving"
=============================================================================
