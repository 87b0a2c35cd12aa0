------------------------------ MODULE NodeCalls ------------------------------
(***************************************************************************)
(* One call of a node client after the other (do, doWithHeaders and doRaw  *)
(* in client.go, and the wrappers on top of them): the request is sent,    *)
(* the node refuses it or carries it out, the response is read.  The       *)
(* transport may fail, the client's 60 seconds or the context end, at any  *)
(* moment; the response may be cut short or be of another type.            *)
(***************************************************************************)
EXTENDS NodeApi

CONSTANT None  \* no call

ASSUME NodeCallsAssumption == None \notin Calls

VARIABLES
  call,     \* the call, None between two of them
  step,     \* "idle", "sent", "answered" or "returned"
  ctxDone,  \* the caller's context has ended
  status,   \* the status of the response, 0 if there is none
  value,    \* what is returned: "zero", "whole", "part" or "blank" of the response
  err       \* the error returned with it

result == <<value, err>>
callVars == <<call, step, ctxDone, status, result>>

Errors == Refusals \cup {"transport", "context", "decode"}

Statuses == {200, 401, 403, 404, 409, 500, 503}

CallsInit ==
  /\ call = None /\ step = "idle" /\ ctxDone = FALSE
  /\ status = 0 /\ value = "zero" /\ err = "nil"

Send(c) ==
  /\ step = "idle"
  /\ call' = c /\ step' = "sent"
  /\ UNCHANGED <<ctxDone, status, result>>

Cancel ==
  /\ step \in {"sent", "answered"}
  /\ ctxDone' = TRUE
  /\ UNCHANGED <<call, step, status, result>>

\* The node refuses the request, or carries it out.
Answer(s) ==
  /\ step = "sent" /\ ~ctxDone
  /\ status' = s
  /\ step' = "answered"
  /\ UNCHANGED <<call, ctxDone, result>>

Return(v, e) ==
  /\ step' = "returned"
  /\ value' = v
  /\ err' = IF call.returns = "flag" THEN "nil" ELSE e
  /\ UNCHANGED <<call, ctxDone, status>>

\* Do fails, also while the body of the answer is still to come.
TransportFails ==
  /\ step \in {"sent", "answered"}
  /\ Return("zero", IF ctxDone THEN "context" ELSE "transport")

Refused ==
  /\ step = "answered" /\ status >= 400
  /\ Return("zero", MapAPIError(status, call.path))

\* Mutant: "return out, do(...)" reads out before the call.
DecodedEarly(returns, body) ==
  IF body = "whole" /\ returns # "direct" THEN <<"whole", "nil">>
  ELSE IF body = "whole" THEN <<"zero", "nil">> ELSE <<"zero", "decode">>

\* What a wrapper makes of a body that is whole, cut short, "odd" (JSON of other
\* types) or "foreign" (an object with other fields, which decodes as a value of
\* none).  The decoder stores nothing of a text that ends too early.
Decoded(returns, body) ==
  CASE returns = "nothing"                     -> <<"zero", "nil">>
    [] returns = "text" /\ body = "cut"        -> <<"part", "nil">>
    [] returns = "text" /\ body # "cut"        -> <<"whole", "nil">>
    [] returns = "direct" /\ body = "odd"      -> <<"part", "decode">>
    [] returns \notin {"nothing", "text"} /\ body = "foreign" -> <<"blank", "nil">>
    [] returns \notin {"nothing", "text"} /\ body = "whole"   -> <<"whole", "nil">>
    [] OTHER                                   -> <<"zero", "decode">>

ReadBody ==
  /\ step = "answered" /\ status < 400
  /\ \E body \in {"whole", "cut", "odd", "foreign"} :
       LET decoded == Decoded(call.returns, body) IN Return(decoded[1], decoded[2])

\* The caller goes on.
GoOn ==
  /\ step = "returned"
  /\ call' = None /\ step' = "idle"
  /\ status' = 0 /\ value' = "zero" /\ err' = "nil"

ClientStep == TransportFails \/ Refused \/ ReadBody

-----------------------------------------------------------------------------

CallsTypeOK ==
  /\ call \in Calls \cup {None}
  /\ step \in {"idle", "sent", "answered", "returned"}
  /\ ctxDone \in BOOLEAN
  /\ status \in Statuses \cup {0}
  /\ value \in {"zero", "whole", "part", "blank"}
  /\ err \in Errors \cup {"nil"}

(* A call that returns no error was answered with a success, and returns    *)
(* what was decoded of an answer that arrived completely: all of it, or     *)
(* nothing if it was of another shape; never a part, and never a zero value *)
(* that was read too early.  Not so the boolean of Available, which hides   *)
(* every error, and the text of Env, which doRaw may have cut short.        *)
NoErrorMeansWhole ==
  step = "returned" /\ err = "nil" /\ call.returns \notin {"flag", "text"} =>
    /\ status = 200
    /\ call.returns # "nothing" => value \in {"whole", "blank"}

\* What a call says went wrong is what did: the transport or the context, the
\* body of a success, or a refusal, which has the error of its area.
RefusalNamed(path) ==
  step = "returned" /\ call.returns # "flag" =>
    \/ err \in {"transport", "context"}
    \/ status = 200 /\ err \in {"nil", "decode"}
    \/ status >= 400 /\ err = AreaRefusal(status, Area(path))

(* A refusal is reported as docs/errors.md says for what the call is about, *)
(* and the errors of its table come from refusals only, each from those it  *)
(* stands for.                                                              *)
SentinelNamesArea ==
  call # None /\ Unambiguous(call.path) => RefusalNamed(call.path)

(* "ErrDockerUnavailable: Node has no docker.toml or daemon is not running",*)
(* and so on for each error of the table, whatever the names in the path.   *)
SentinelAlwaysNamesArea == call # None => RefusalNamed(call.path)
=============================================================================
