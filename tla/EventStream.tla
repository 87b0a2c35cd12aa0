---------------------------- MODULE EventStream -----------------------------
(***************************************************************************)
(* Stream, ExecJobStream, the typed helpers and readSSE (stream.go): one   *)
(* request whose response is read line by line, the lines gathered into    *)
(* server-sent events, and the events the helper owns handed to a          *)
(* callback.  The caller's context may end at any moment, the server may   *)
(* close or lose the connection at any line.                               *)
(*                                                                         *)
(* A line is [field, value].  Comments and lines without a colon have the  *)
(* field "ignored".  The value of an id line is a number or NaN, that of a *)
(* data line a piece of text, or "empty".  What the decoders of            *)
(* encoding/json make of a text, the pieces of an event's data lines, is   *)
(* a parameter: the sets of the texts each of them takes.                  *)
(***************************************************************************)
EXTENDS Integers, Sequences, FiniteSetsExt

CONSTANTS
  Helper,    \* the method that is called
  Lines,     \* the lines a server may send
  NaN,       \* the value of an id line that is no number
  ValidJSON, \* the texts that are JSON
  OwnType,   \* those that decode as the type of the helper's data
  WithKind,  \* of these, those that say their kind themselves
  Reports,   \* the texts that decode as the data of an error event
  MaxLines   \* bound on the lines of a stream (model checking only)

\* The event names each helper owns.
EventNames ==
  [ExecJobStream       |-> {"job.stdout", "job.stderr", "job.status", "job.completed",
                            "job.failed"},
   StreamContainers    |-> {"docker.container"},
   StreamLogs          |-> {"log.line"},
   DockerStreamAll     |-> {"docker.all"},
   StreamStats         |-> {"stats.snapshot"},
   StreamJournal       |-> {"journal.entry"},
   StreamSystemJournal |-> {"journal.entry"},
   StreamCPU           |-> {"metrics.cpu"},
   StreamMemory        |-> {"metrics.memory"},
   StreamNetwork       |-> {"metrics.network"},
   StreamProcesses     |-> {"metrics.processes"},
   MetricsStreamAll    |-> {"metrics.all"},
   StreamPorts         |-> {"ports.snapshot", "port.bound", "port.released"}]

Allowed == EventNames[Helper]

\* The name of an event without one.
NoName == ""

ASSUME EventStreamAssumption ==
  /\ Helper \in DOMAIN EventNames
  /\ MaxLines \in Nat
  /\ \A line \in Lines :
       /\ line.field \in {"blank", "ignored", "event", "data", "id"}
       /\ line.field \in {"event", "data"} => line.value # NaN
       /\ line.field = "id" => line.value \in Int \cup {NaN}
  /\ WithKind \subseteq OwnType /\ OwnType \cup Reports \subseteq ValidJSON
  /\ <<>> \notin ValidJSON

VARIABLES
  pc,        \* stream: "connect", "scan" or "done"
  ctxDone,   \* the caller's context has ended
  conn,      \* the response: "open", "closed" by the server or "lost"
  seen,      \* the lines read so far (history)
  name, id, hasID, dataLines,  \* readSSE's variables of the same names
  lastID,    \* the id stream would resume from
  delivered, \* the events the callback has been called with (history)
  result     \* what stream returns

parser == <<name, id, hasID, dataLines>>

vars == <<pc, ctxDone, conn, seen, parser, lastID, delivered, result>>

Init ==
  /\ pc = "connect" /\ ctxDone \in BOOLEAN /\ conn = "open" /\ seen = <<>>
  /\ name = NoName /\ id = 0 /\ hasID = FALSE /\ dataLines = <<>>
  /\ lastID = 0 /\ delivered = <<>> /\ result = "none"

\* Empty lines are white space between the others; one alone is no data.
Text(data) == SelectSeq(data, LAMBDA value : value # "empty")
NoData(data) == data \in {<<>>, <<"empty">>}

\* DecodeEvent takes no data as the zero value, json.Unmarshal does not.
DecodesAs(texts, data) == NoData(data) \/ Text(data) \in texts

-----------------------------------------------------------------------------
(* The server, the network and the caller.                                  *)

Cancel ==
  /\ ~ctxDone
  /\ ctxDone' = TRUE
  /\ UNCHANGED <<pc, conn, seen, parser, lastID, delivered, result>>

End ==
  /\ conn = "open" /\ pc = "scan"
  /\ conn' \in {"closed", "lost"}
  /\ UNCHANGED <<pc, ctxDone, seen, parser, lastID, delivered, result>>

-----------------------------------------------------------------------------
(* stream.                                                                  *)

Return(err) ==
  /\ pc' = "done"
  /\ result' = IF err # "nil" /\ ctxDone THEN "ctx" ELSE err

Connect ==
  /\ pc = "connect"
  /\ \/ ~ctxDone /\ pc' = "scan" /\ UNCHANGED result
     \/ ~ctxDone /\ pc' = "done" /\ result' = "status"
     \/ Return("transport")
  /\ UNCHANGED <<ctxDone, conn, seen, parser, lastID, delivered>>

\* Mutant: the names are filtered before error events are looked for.
FateFiltered(e) ==
  IF e.name \notin Allowed THEN "ignore"
  ELSE IF ~DecodesAs(OwnType, e.data) THEN "decode"
  ELSE "deliver"

\* What the handler of Stream does with an event.  An error event has to say
\* what the error is: decodeStreamError does not take one without data.
Fate(e) ==
  IF ~DecodesAs(ValidJSON, e.data) THEN "decode"
  ELSE IF e.name = "error" THEN IF Text(e.data) \in Reports THEN "remote" ELSE "decode"
  ELSE IF e.name \notin Allowed THEN "ignore"
  ELSE IF DecodesAs(OwnType, e.data) THEN "deliver"
  ELSE "decode"

Pending == name # NoName \/ hasID \/ dataLines # <<>>

\* What StreamPorts calls an update whose data does not say its kind.
PortKind(e) ==
  CASE e.name = "ports.snapshot" -> "snapshot"
    [] e.name = "port.bound"     -> "bound"
    [] e.name = "port.released"  -> "released"

\* ExecJobStream names the event in its data, too.
Kind(e) ==
  CASE Helper = "ExecJobStream" -> e.name
    [] Helper = "StreamPorts" /\ Text(e.data) \notin WithKind -> PortKind(e)
    [] OTHER -> "of the data"

Handed(e) == [event |-> e, kind |-> Kind(e)]

Event == [name |-> name, id |-> IF hasID THEN id ELSE 0, data |-> dataLines]

\* Mutant: the data lines of an event are left for the next one.
ResetKeepingData ==
  name' = NoName /\ id' = 0 /\ hasID' = FALSE /\ UNCHANGED dataLines

Reset == name' = NoName /\ id' = 0 /\ hasID' = FALSE /\ dataLines' = <<>>

\* The stream goes on, or it ends well.
GoOn(atEOF) == IF atEOF THEN Return("nil") ELSE UNCHANGED <<pc, result>>

\* readSSE's dispatch, with what stream and Stream do to the event.
Dispatch(atEOF) ==
  \/ /\ ~Pending
     /\ GoOn(atEOF)
     /\ UNCHANGED <<parser, lastID, delivered>>
  \/ /\ Pending
     /\ Reset
     /\ lastID' = IF Event.id > 0 THEN Event.id ELSE lastID
     /\ \/ Fate(Event) = "ignore" /\ GoOn(atEOF) /\ UNCHANGED delivered
        \/ Fate(Event) \in {"decode", "remote"} /\ Return(Fate(Event)) /\ UNCHANGED delivered
        \/ /\ Fate(Event) = "deliver"
           /\ delivered' = Append(delivered, Handed(Event))
           /\ GoOn(atEOF) \/ Return("callback")

\* Mutant: the id is taken without a look at the error of ParseInt.
FieldUnchecked(line) ==
  /\ name' = IF line.field = "event" THEN line.value ELSE name
  /\ dataLines' = IF line.field = "data" THEN Append(dataLines, line.value)
                                         ELSE dataLines
  /\ IF line.field = "id" THEN id' = line.value /\ hasID' = TRUE
                          ELSE UNCHANGED <<id, hasID>>
  /\ UNCHANGED <<pc, lastID, delivered, result>>

\* A line that is not blank: the last name and the last number win.
Field(line) ==
  /\ name' = IF line.field = "event" THEN line.value ELSE name
  /\ dataLines' = IF line.field = "data" THEN Append(dataLines, line.value)
                                         ELSE dataLines
  /\ IF line.field = "id" /\ line.value # NaN
     THEN id' = line.value /\ hasID' = TRUE
     ELSE UNCHANGED <<id, hasID>>
  /\ UNCHANGED <<pc, lastID, delivered, result>>

Scan ==
  /\ pc = "scan" /\ conn = "open"
  /\ Len(seen) < MaxLines
  /\ \E line \in Lines :
       /\ seen' = Append(seen, line)
       /\ IF line.field = "blank" THEN Dispatch(FALSE) ELSE Field(line)
  /\ UNCHANGED <<ctxDone, conn>>

\* At the end of the response what has been gathered is dispatched, blank line
\* or not.
ScanEOF ==
  /\ pc = "scan" /\ conn = "closed"
  /\ Dispatch(TRUE)
  /\ UNCHANGED <<ctxDone, conn, seen>>

\* Mutant: the request is not bound to the caller's context.
ScanFailsUnbound ==
  /\ pc = "scan" /\ conn = "lost"
  /\ Return("read")
  /\ UNCHANGED <<ctxDone, conn, seen, parser, lastID, delivered>>

\* The connection is lost, or the transport closed it as the context ended.
ScanFails ==
  /\ pc = "scan" /\ (conn = "lost" \/ ctxDone)
  /\ Return("read")
  /\ UNCHANGED <<ctxDone, conn, seen, parser, lastID, delivered>>

\* A line exceeds the scanner's buffer of 1 MiB.
LineTooLong ==
  /\ pc = "scan" /\ conn = "open"
  /\ Return("toolong")
  /\ UNCHANGED <<ctxDone, conn, seen, parser, lastID, delivered>>

Next == Cancel \/ End \/ Connect \/ Scan \/ ScanEOF \/ ScanFails \/ LineTooLong

Spec == Init /\ [][Next]_vars

(* The goroutine runs, and the transport fails a request whose context has  *)
(* ended.  A node need not answer, nor a server or a caller end anything.   *)
FairSpec ==
  /\ Spec
  /\ WF_vars(ctxDone /\ Connect)
  /\ WF_vars(ScanEOF)
  /\ WF_vars(ScanFails)

-----------------------------------------------------------------------------
(* The reference: the events of a sequence of lines, each read off the      *)
(* lines before the position where it ends, all of them at once.            *)

IsBlank(line) == line.field = "blank"

\* The k-th element of a set of numbers, the least first.
Nth(at, k) == CHOOSE i \in at : Cardinality({j \in at : j <= i}) = k

\* The values of a function on numbers, in the order of their arguments.
InOrder(f) == [k \in 1 .. Cardinality(DOMAIN f) |-> f[Nth(DOMAIN f, k)]]

\* The value at the greatest argument.
LastOr(f, default) == IF DOMAIN f = {} THEN default ELSE f[Max(DOMAIN f)]

\* The lines before position e, back to the last blank one.
Block(lines, e) == {i \in 1 .. e - 1 : \A j \in i .. e - 1 : ~IsBlank(lines[j])}

\* The values of those that have field f, an id that is no number left out.
Values(lines, e, f) ==
  [i \in {i \in Block(lines, e) : lines[i].field = f /\ lines[i].value # NaN}
     |-> lines[i].value]

\* The event that ends at position e.
EventOf(lines, e) == [name |-> LastOr(Values(lines, e, "event"), NoName),
                      id   |-> LastOr(Values(lines, e, "id"), 0),
                      data |-> InOrder(Values(lines, e, "data"))]

IsEvent(lines, e) ==
  \/ EventOf(lines, e).name # NoName
  \/ DOMAIN Values(lines, e, "id") # {}
  \/ EventOf(lines, e).data # <<>>

\* Where events end: at a blank line, or at the end of the response.
EventEnds(lines, atEOF) ==
  {e \in 1 .. Len(lines) + 1 :
     /\ IF e <= Len(lines) THEN IsBlank(lines[e]) ELSE atEOF
     /\ IsEvent(lines, e)}

Owned(e) == e.name \in Allowed

\* Data that is no JSON, or not of the type its event's name calls for.
Undecodable(e) ==
  \/ ~NoData(e.data) /\ Text(e.data) \notin (IF Owned(e) THEN OwnType ELSE ValidJSON)
  \/ e.name = "error" /\ Text(e.data) \notin Reports

Stopping(e) == e.name = "error" \/ Undecodable(e)

\* What the callback should get of the events that end at the positions in ends.
AllHanded(lines, ends) ==
  InOrder([e \in {e \in ends : Owned(EventOf(lines, e))} |-> Handed(EventOf(lines, e))])

LastPositive(lines, ends) ==
  LastOr([e \in {e \in ends : EventOf(lines, e).id > 0} |-> EventOf(lines, e).id], 0)

-----------------------------------------------------------------------------

\* The values of the lines that have field f.
ValuesOf(f) == {line.value : line \in {l \in Lines : l.field = f}}

Kinds == {"of the data", "snapshot", "bound", "released"} \cup Allowed

(* Every variable has its type.                                             *)
TypeOK ==
  /\ pc \in {"connect", "scan", "done"}
  /\ ctxDone \in BOOLEAN
  /\ conn \in {"open", "closed", "lost"}
  /\ seen \in Seq(Lines)
  /\ name \in {NoName} \cup ValuesOf("event") /\ dataLines \in Seq(ValuesOf("data"))
  /\ id \in Int /\ hasID \in BOOLEAN
  /\ lastID \in Nat
  /\ delivered \in Seq([event : [name : Allowed, id : Int, data : Seq(ValuesOf("data"))],
                        kind  : Kinds])
  /\ result \in {"none", "nil", "ctx", "status", "transport", "read", "toolong",
                 "decode", "remote", "callback"}

(* While a stream runs, the callback has had exactly the owned events of    *)
(* the lines read, in order, each once and with its own name, id and data;  *)
(* none of the others stopped it.                                           *)
DeliversExactly ==
  pc = "scan" =>
    LET ends == EventEnds(seen, FALSE)
    IN  /\ delivered = AllHanded(seen, ends)
        /\ \A e \in ends : ~Stopping(EventOf(seen, e))
        /\ lastID = LastPositive(seen, ends)

(* Stream returns nil only when the server ended the response and the       *)
(* callback has had everything in it, a last event without its blank line   *)
(* included: no event is lost silently.                                     *)
NilMeansComplete ==
  LET ends == EventEnds(seen, TRUE)
  IN  /\ conn = "closed"
      /\ delivered = AllHanded(seen, ends)
      /\ \A e \in ends : ~Stopping(EventOf(seen, e))

(* An error event is reported as such if its data says what the error is,   *)
(* and data that does not decode as that, an error event's included, at the *)
(* first event either happens to.                                           *)
FirstErrorWins ==
  \E first \in EventEnds(seen, conn = "closed") :
    LET before == {e \in EventEnds(seen, conn = "closed") : e < first}
    IN  /\ Stopping(EventOf(seen, first))
        /\ \A e \in before : ~Stopping(EventOf(seen, e))
        /\ (result = "decode") <=> Undecodable(EventOf(seen, first))
        /\ delivered = AllHanded(seen, before)

(* What Stream returns is true of what the callback has had.                *)
ResultIsTruthful ==
  /\ result = "nil" => NilMeansComplete
  /\ result \in {"remote", "decode"} => FirstErrorWins

(* A stream has no timeout of its own; it ends, also while it waits for the *)
(* node's first answer, when the caller cancels, and when the server ends   *)
(* it or loses the connection: nothing is taken up again, whatever          *)
(* docs/node.md:30 says (ResumesAfterLoss).                                 *)
Ends == (pc # "done" /\ (conn # "open" \/ ctxDone)) ~> (pc = "done")

(* What docs/node.md:30 says of a lost connection, and the loop of stream   *)
(* with its Last-Event-ID is there for: the stream reconnects and goes on   *)
(* after the last event it has seen.  So the loss reaches the caller only   *)
(* when there is no event to go on after.                                   *)
ResumesAfterLoss == result = "read" => lastID = 0
=============================================================================
