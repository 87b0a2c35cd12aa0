---------------------------- MODULE FileTransfer ----------------------------
(***************************************************************************)
(* Send, SendDir and Download (client.go, fileutil.go): a caller that      *)
(* sends files of a local directory to a node and downloads files from it, *)
(* one call after the other.  Somebody edits the local files meanwhile.    *)
(* Requests and responses may be lost or cut short, time out or be         *)
(* cancelled; a request the client has given up may still reach the node,  *)
(* whatever the caller does by then.                                       *)
(***************************************************************************)
EXTENDS Naturals, FiniteSets, Sequences, SequencesExt

CONSTANTS
  NumFiles,  \* the files of the directory, in the order of walkDir
  LocalDir,  \* what SendDir is told the directory is called, a sequence of pieces
  Path,      \* Path[f]: what walkDir calls the file f
  Versions,  \* Versions[f]: what the file f may hold, as sequences of pieces
  MaxLate,   \* bound on the requests under way that were given up
  None       \* no file, nothing to send

Files == 1 .. NumFiles

Contents == UNION {Versions[f] : f \in Files}

TrimPrefix(text, prefix) ==
  IF IsPrefix(prefix, text) THEN SubSeq(text, Len(prefix) + 1, Len(text)) ELSE text

\* Where SendDir wants a file to be, below the directory DestPath of the node.
Destination(f) == TrimPrefix(TrimPrefix(Path[f], LocalDir), <<"/">>)

Places == {Destination(f) : f \in Files}

\* A SendRequest.
Requests == [file : Files, dest : Places]

Request(f) == [file |-> f, dest |-> Destination(f)]

ASSUME FileTransferAssumption ==
  /\ NumFiles \in Nat /\ MaxLate \in Nat
  /\ None \notin Contents /\ \A c \in Contents : c \in Seq(Range(c))

VARIABLES
  local,    \* local[f]: the local file; None: there is none that can be read
  remote,   \* remote[d]: the file at the place d of the node
  late,     \* the requests that were given up and may still reach the node
  ctxDone,  \* the context of the call has ended
  pc, op,   \* the next step of the call, and which call it is
  todo,     \* the requests the call has still to deal with
  data,     \* what was read of the local file, or of the response
  results,  \* the SendResults so far
  copy,     \* the local file Download writes
  walked,   \* the requests of the call, for the files SendDir has found (history)
  served,   \* what the node answered to Download (history)
  stale     \* what of earlier calls may still arrive when this one begins (history)

world == <<local, remote, late>>
history == <<walked, served, stale>>
vars == <<world, ctxDone, pc, op, todo, data, results, copy, history>>

\* A SendResult, and what the request carried (history).
Results == [req : Requests, success : BOOLEAN, data : Contents \cup {None}]

Late == [dest : Places, data : Contents]

Init ==
  /\ local \in {l \in [Files -> Contents \cup {None}] :
                 \A f \in Files : l[f] \in Versions[f] \cup {None}}
  /\ remote = [d \in Places |-> None]
  /\ late = {} /\ ctxDone = FALSE
  /\ pc = "idle" /\ op = None
  /\ todo = <<>> /\ data = None /\ results = <<>>
  /\ copy = None
  /\ walked = <<>> /\ served = None /\ stale = {}

-----------------------------------------------------------------------------
(* The environment.                                                         *)

Edit ==
  /\ \E f \in Files : \E c \in Versions[f] \cup {None} : local' = [local EXCEPT ![f] = c]
  /\ UNCHANGED <<remote, late, ctxDone, pc, op, todo, data, results, copy, history>>

Cancel ==
  /\ pc \notin {"idle", "done", "failed"}
  /\ ctxDone' = TRUE
  /\ UNCHANGED <<world, pc, op, todo, data, results, copy, history>>

\* A request nobody waits for any more reaches the node, or never does.
LateArrival ==
  \E r \in late :
    /\ late' = late \ {r}
    /\ UNCHANGED remote \/ remote' = [remote EXCEPT ![r.dest] = r.data]
    /\ UNCHANGED <<local, ctxDone, pc, op, todo, data, results, copy, history>>

-----------------------------------------------------------------------------
(* Send and SendDir.                                                        *)

Begin(what, step, reqs) ==
  /\ pc = "idle"
  /\ pc' = step /\ op' = what /\ todo' = reqs /\ walked' = reqs
  /\ ctxDone' = FALSE /\ stale' = late
  /\ UNCHANGED <<world, data, results, copy, served>>

\* The caller says where the file should be.
Send == \E r \in Requests : Begin("Send", "read", <<r>>)

\* walkDir finds the files there are, in order, or fails as a whole.
Walks ==
  {w \in UNION {[1 .. n -> Files] : n \in 0 .. NumFiles} :
     /\ Range(w) = {f \in Files : local[f] # None}
     /\ \A i, j \in DOMAIN w : i < j => w[i] < w[j]}

SendDir ==
  \/ \E w \in Walks : Begin("SendDir", "read", [k \in DOMAIN w |-> Request(w[k])])
  \/ Begin("SendDir", "failed", <<>>)

\* Mutant: the error of reading the file is ignored.
ReadLocalFileUnchecked ==
  /\ pc = "read" /\ todo # <<>>
  /\ pc' = "post" /\ data' = local[Head(todo).file]
  /\ UNCHANGED <<world, ctxDone, op, todo, results, copy, history>>

ReadLocalFile ==
  /\ pc = "read" /\ todo # <<>>
  /\ local[Head(todo).file] # None
  /\ pc' = "post" /\ data' = local[Head(todo).file]
  /\ UNCHANGED <<world, ctxDone, op, todo, results, copy, history>>

Post ==
  /\ pc = "post" /\ ~ctxDone
  /\ pc' = "sent"
  /\ UNCHANGED <<world, ctxDone, op, todo, data, results, copy, history>>

\* The node has the file written when it answers with a success.
Accept ==
  /\ pc = "sent"
  /\ remote' = [remote EXCEPT ![Head(todo).dest] = data]
  /\ pc' = "accepted"
  /\ UNCHANGED <<local, late, ctxDone, op, todo, data, results, copy, history>>

Reject ==
  /\ pc = "sent"
  /\ pc' = "rejected"
  /\ UNCHANGED <<world, ctxDone, op, todo, data, results, copy, history>>

\* Mutant: SendDir returns on the first error.
CollectFirstError(success) ==
  /\ results' = Append(results,
       [req |-> Head(todo), success |-> success, data |-> data])
  /\ todo' = IF success THEN Tail(todo) ELSE <<>>
  /\ data' = None /\ pc' = "read"

\* The result of a Send; SendDir appends one for a failed file, too, and goes on.
Collect(success) ==
  /\ results' = Append(results,
       [req |-> Head(todo), success |-> success, data |-> data])
  /\ todo' = Tail(todo) /\ data' = None /\ pc' = "read"

ReadFails ==
  /\ pc = "read" /\ todo # <<>>
  /\ Collect(FALSE)
  /\ UNCHANGED <<world, ctxDone, op, copy, history>>

\* Mutant: the client for streams is used, which has no timeout.
SendFailsWithoutTimeout ==
  /\ pc \in {"post", "sent", "accepted", "rejected"}
  /\ ctxDone
  /\ Collect(FALSE)
  /\ UNCHANGED <<world, ctxDone, op, copy, history>>

\* The transport fails, the 60 seconds or the context end, the answer is lost or
\* cannot be decoded, or it is a refusal.
SendFails ==
  /\ pc \in {"post", "sent", "accepted", "rejected"}
  /\ \/ UNCHANGED late
     \/ /\ pc = "sent"
        /\ late' = late \cup {[dest |-> Head(todo).dest, data |-> data]}
        /\ Cardinality(late') <= MaxLate
  /\ Collect(FALSE)
  /\ UNCHANGED <<local, remote, ctxDone, op, copy, history>>

\* Mutant: the status of the response is not looked at.
SentUnchecked ==
  /\ pc \in {"accepted", "rejected"}
  /\ Collect(TRUE)
  /\ UNCHANGED <<world, ctxDone, op, copy, history>>

Sent ==
  /\ pc = "accepted"
  /\ Collect(TRUE)
  /\ UNCHANGED <<world, ctxDone, op, copy, history>>

Finish ==
  /\ pc = "read" /\ todo = <<>>
  /\ pc' = "done"
  /\ UNCHANGED <<world, ctxDone, op, todo, data, results, copy, history>>

-----------------------------------------------------------------------------
(* Download.                                                                *)

\* Of a request's fields it has the place on the node only.
Download == \E f \in Files : Begin("Download", "get", <<Request(f)>>)

\* The transport fails, the call is cancelled, or the node refuses.
GetFails ==
  /\ pc = "get"
  /\ pc' = "failed"
  /\ UNCHANGED <<world, ctxDone, op, todo, data, results, copy, history>>

\* doRaw takes as much of the body as arrives; the error of ReadAll is ignored.
ReadBody ==
  /\ pc = "get" /\ ~ctxDone
  /\ remote[Head(todo).dest] # None
  /\ \E n \in 0 .. Len(remote[Head(todo).dest]) :
       data' = SubSeq(remote[Head(todo).dest], 1, n)
  /\ served' = remote[Head(todo).dest]
  /\ pc' = "create"
  /\ UNCHANGED <<world, ctxDone, op, todo, results, copy, walked, stale>>

\* MkdirAll and the opening of the file.
CreateFails ==
  /\ pc = "create"
  /\ pc' = "failed"
  /\ UNCHANGED <<world, ctxDone, op, todo, data, results, copy, history>>

\* Mutant: the file is opened without O_TRUNC, and appended to.
CreateAppending ==
  /\ pc = "create"
  /\ pc' = "write" /\ copy' = IF copy = None THEN <<>> ELSE copy
  /\ UNCHANGED <<world, ctxDone, op, todo, data, results, history>>

\* The file is truncated when it is opened.
Create ==
  /\ pc = "create"
  /\ pc' = "write" /\ copy' = <<>>
  /\ UNCHANGED <<world, ctxDone, op, todo, data, results, history>>

WriteSome ==
  /\ pc = "write" /\ Len(copy) < Len(data)
  /\ copy' = Append(copy, data[Len(copy) + 1])
  /\ UNCHANGED <<world, ctxDone, pc, op, todo, data, results, history>>

WriteFails ==
  /\ pc = "write"
  /\ pc' = "failed"
  /\ UNCHANGED <<world, ctxDone, op, todo, data, results, copy, history>>

Written ==
  /\ pc = "write" /\ Len(copy) >= Len(data)
  /\ pc' = "done"
  /\ UNCHANGED <<world, ctxDone, op, todo, data, results, copy, history>>

-----------------------------------------------------------------------------

\* The call has returned, and the caller goes on.
Return ==
  /\ pc \in {"done", "failed"}
  /\ pc' = "idle" /\ op' = None
  /\ todo' = <<>> /\ data' = None /\ results' = <<>>
  /\ walked' = <<>> /\ served' = None /\ stale' = {}
  /\ UNCHANGED <<world, ctxDone, copy>>

Caller ==
  \/ ReadLocalFile \/ ReadFails \/ Post \/ SendFails \/ Sent \/ Finish
  \/ GetFails \/ ReadBody \/ CreateFails \/ Create \/ WriteSome \/ WriteFails \/ Written

Node == Accept \/ Reject

Next ==
  \/ Edit \/ Cancel \/ LateArrival
  \/ Send \/ SendDir \/ Download \/ Caller \/ Node \/ Return

Spec == Init /\ [][Next]_vars

(* The goroutine of the caller runs; the client's 60 seconds end a request  *)
(* the node does not answer, for it does not have to.                       *)
FairSpec == Spec /\ WF_vars(Caller)

-----------------------------------------------------------------------------

(* Every variable has its type.                                             *)
TypeOK ==
  /\ local \in [Files -> Contents \cup {None}]
  /\ remote \in [Places -> Contents \cup {None}]
  /\ late \subseteq Late
  /\ ctxDone \in BOOLEAN
  /\ pc \in {"idle", "read", "post", "sent", "accepted", "rejected", "get", "create",
             "write", "done", "failed"}
  /\ op \in {"Send", "SendDir", "Download", None}
  /\ todo \in Seq(Requests)
  /\ pc \in {"post", "sent", "accepted", "rejected"} => data \in Contents
  /\ results \in Seq(Results)
  /\ walked \in Seq(Requests)
  /\ stale \subseteq Late

\* No two files of the directory go to the same place.
DistinctPlaces ==
  \A f, g \in Files : Destination(f) = Destination(g) => f = g

\* What earlier calls sent to the place d and gave up.
GivenUp(d) == {r.data : r \in {q \in stale : q.dest = d}}

(* A SendResult with Success tells the truth for as long as the call runs:  *)
(* the node has what was read from the local file then, whatever became of  *)
(* the files before and after it.  Only what an earlier call sent there and *)
(* gave up may have come over it.  Two files that go to the same place, as  *)
(* ".env" and "env" of the directory "." do, overwrite each other.          *)
SuccessIsOnNode ==
  DistinctPlaces =>
    \A k \in DOMAIN results :
      results[k].success =>
        LET d == results[k].req.dest
        IN  remote[d] \in {results[k].data} \cup GivenUp(d)

(* "One failed file does not abort remaining transfers": SendDir tries      *)
(* every file it has found, in order, and has one result for each.          *)
EveryFileTried ==
  pc # "idle" /\ op # "Download" =>
    [k \in DOMAIN results |-> results[k].req] \o todo = walked

(* While a download rewrites the local file, and so wherever it fails or is *)
(* killed, and when it ends without an error, the file is the beginning of  *)
(* what the node served, never mixed with what it held before.              *)
DownloadIsPrefix ==
  op = "Download" /\ pc \in {"write", "done"} => IsPrefix(copy, served)

(* "Download fetches a file from the node and writes it to localPath."      *)
DownloadIsWhole ==
  op = "Download" /\ pc = "done" => copy = served

(* Every call returns: the client's timeout ends a request that hangs, and  *)
(* a failed file does not hold up the others.                               *)
Returns == pc # "idle" ~> pc \in {"done", "failed"}
=============================================================================
