# tailkit in TLA+

tailkit is a Go library for programs on a Tailscale tailnet: it runs a tsnet
server, finds the machines that run the `tailkitd` daemon, asks one or all of
them for files, commands, host integrations and event streams over HTTP, and
registers tools with the local daemon. The daemon itself is not in this
repository; the models meet it only as the client code does.

This directory holds TLA+ models of the parts of the library that have state or
concurrency of their own, the TLC configurations that check them on small
instances, and TLAPS proofs of what holds for every instance.

    tlc -workers 2 -config fan_out.cfg MCFanOut.tla      # a model-checking run
    tlapm FanOutProofs.tla                               # a proof

## 1. The system and its parts

| part | state it keeps | operations | how it interacts |
|---|---|---|---|
| **Server** (`server.go`) | tsnet server, two HTTP clients (60 s timeout; none for streams), peer cache under an RWMutex, `closeOnce`/`closeErr` | `NewServer`, `Listen*`, `Close` | every client below sends through its HTTP clients; a goroutine closes it on a signal |
| **Caller middleware** (`middleware.go`) | none | `AuthMiddleware` | one identity lookup per request the server accepts |
| **Fleet fan-out** (`fleet.go`) | per call: an errgroup with a limit of ten, a mutex, two maps | `fanOut` and the methods of the Fleet clients, one call of it each | one goroutine per peer calls a node client; the errgroup's context binds all of them |
| **Peer cache** (`peers.go`) | one cached peer list with its time | `GetPeers`, `getCachedPeers`, `setCachedPeers` | any goroutine; asks the Tailscale daemon on a miss |
| **Peer listings** (`peers.go`) | none; a loop's variables | `AllPeers`, `OnlinePeers`, `TailkitPeers`, `GetTailkitPeer` | call `GetPeers` once, then once more per machine |
| **Discovery** (`peers.go`, `version.go`) | per call: a channel, a semaphore of ten | `Discover`, `DiscoverVersion`, `versionAtLeast` | one goroutine per online peer asks for its tools |
| **Tool registration** (`install.go`) | files `{name}.json` in one directory | `Install`, `Uninstall`, `atomicWrite`, `validateTool` | other processes and the daemon share the directory |
| **Event streams** (`stream.go`) | parser variables, last event id | `stream`, `Stream`, `ExecJobStream`, `readSSE`, typed helpers | a node sends lines, a callback gets events |
| **Exec jobs** (`client.go`) | a ticker | `ExecJob`, `ExecWait` | polls a job that changes on the node |
| **File transfer** (`client.go`, `fileutil.go`) | a local file | `Send`, `SendDir`, `Download` | bodies read from and written to disk |
| **Node requests** (`client.go`, `admin.go`, `host.go`, `service.go`) | none | `do`, `doWithHeaders`, `doRaw`, `mapAPIError`, one wrapper per endpoint | status codes become sentinel errors |
| **Subprocess environment** (`exec.go`) | none | `Exec`, `ExecWith` | overlays variables on the inherited ones |
| **Path rules** (`types/integrations`) | none | `MatchPathRule`, `Permits` | pure functions over configuration |

What is hard in it, and what makes each part correct:

* **Fan-out.** Up to ten goroutines write to two plain maps; requests hang, nodes
  fail, the caller cancels. Correct means: the maps are written by one goroutine
  at a time and read by the caller only afterwards, every peer's outcome is in
  exactly one map, one node's trouble never becomes another's, never more than
  ten requests are open, and the call always returns.
* **Peer cache.** Concurrent misses are neither merged nor ordered, and an entry
  is stamped when it is stored, not when the daemon read it. Correct means: an
  answer has a bounded age, a slow call sets the cache back by a bounded amount,
  an empty list is never served from the cache.
* **Peer listings.** One listing makes many `GetPeers` calls and can mix several
  peer lists. Correct means: exact once the tailnet has been quiet for a while.
* **Discovery.** A goroutine per peer, ten tokens, a channel, versions as strings.
  Correct means: exactly the nodes with a recent enough tool are found, each once,
  never more than ten are asked at a time, and no goroutine is left behind.
* **Tool registration.** Several processes, no lock, kills between two system
  calls. Correct means: the directory behaves like an atomic store.
* **File transfer.** Every call of a series may be refused, time out, lose its answer or
  be carried out by the node after the client gave it up; a file's place on the node is cut
  out of its local path. Correct means: a reported success is true, one failing file costs no
  other its turn, a download leaves a beginning of what the node served, and nothing of what
  was there before.
* **Event streams.** A hand-written incremental parser whose variables live from
  line to line; three parties may end a stream at any line. Correct means: the
  callback gets exactly the events a reference parse finds, and what the call
  returns is true of what was delivered.
* **Node requests.** Some sixty wrappers differ in what they make of an error and of a
  body that ends early or is of another shape; the error of a refusal is found by looking for
  words in the path. Correct means: no error means a whole answer, an error names what
  it is about.
* **Exec jobs.** A job moves on, ends or is forgotten between two polls. Correct means:
  what `ExecWait` returns is how the job ended.
* **Server.** Several goroutines and a signal close the server while others serve;
  main's return cuts everything short. Correct means: nobody gets out of `Close` before the
  server is closed, and no signal is lost.
* **Caller middleware.** Addresses change hands while requests are under way, and headers may
  name another address than the connection's. Correct means: where they do not, a handler is
  run with the identity of a peer who had the connection's address in the meantime.

`PROJECT.json` lists every hazard at its line, with the properties that watch it
or the reason why none does.

## 2. The modules

| module | models | extends / instantiates |
|---|---|---|
| `FanOut` | `fanOut`, the errgroup and the nodes as `fanOut` meets them | instantiates `FleetReport` |
| `FleetReport` | what a fleet operation promises | |
| `PeerCache` | `GetPeers` and the cache, the clock, the tailnet | |
| `PeerListing` | the listings, composed with the cache they call | `PeerCache` |
| `Versions` | `versionAtLeast`, and the order it should follow | |
| `Discover` | `DiscoverVersion` and its goroutines | `Versions` |
| `ToolRegistry` | `Install`, `Uninstall` as single system calls | instantiates `ToolStore` |
| `ToolStore` | the atomic store they promise to be | |
| `FileTransfer` | `Send`, `SendDir`, `Download` and the node as they meet it | |
| `EventStream` | `stream`, `Stream`, `readSSE`, the typed helpers, and a reference parse | |
| `NodeApi` | the requests of the wrappers, `mapAPIError`, and the table of the documentation | |
| `NodeCalls` | `do`, `doWithHeaders`, `doRaw`: one call after the other | `NodeApi` |
| `JobWait` | `ExecJob`, `ExecWait` and the job on the node | `NodeCalls` |
| `Server` | `NewServer`, `Close`, `ListenAndServe`, signals, `AuthMiddleware` | |

`MCFanOut`, `MCPeerListing` (of `PeerCache` and `PeerListing`), `MCDiscover`, `MCToolRegistry`,
`MCFileTransfer`, `MCEventStream`, `MCJobWait` (of `NodeApi`, `NodeCalls`, `JobWait`) and `MCServer` hold
the values the configurations give to constants. `FanOutProofs`, `PeerProofs` (of `PeerCache` and
`PeerListing`), `DiscoverProofs`, `ToolRegistryProofs`, `EventStreamProofs`, `FileTransferProofs`,
`JobWaitProofs` (of `NodeApi`, `NodeCalls` and `JobWait`) and `ServerProofs` hold the theorems.

Definitions introduced by a comment "Mutant:" are not part of a specification:
each is a plausible slip in the definition that follows it, kept to see that a
property notices it.

### FanOut

`pc`, `next` are the loop of `fanOut`; `slots` is the errgroup's semaphore; `task[p]`
is how far peer p's goroutine has come; `mu`, `results`, `errs` are the variables of the
same names, the maps holding the *peer* whose value or error is filed under a host
name, so that a mix-up shows. `Go` blocks when the semaphore is full, as `g.Go`
does; `Wait` is `g.Wait`, which also cancels the derived context. A goroutine makes
its request (`Call`, or `CallTooLate` when its context is done already), gets an end
to it (`Answer`, `Refuse`, `ClientTimeout`, `Abort`), takes the mutex (`Lock`), files
the outcome (`Record`) and leaves (`Leave`), where it returns nil to the errgroup
whatever happened (`TaskError`). Nodes are "up", "down" or "hung" throughout one
call. `HostName` is an arbitrary function: tailnet host names can coincide, and
distinct ones are the hypothesis `UniqueHosts` of the properties that need them.

The contract, `FleetReport`, settles each peer's outcome once and independently,
then delivers. `FanOut` implements it through the mapping `Report`: a peer is settled
when an entry of its host names it.

### PeerCache and PeerListing

A `GetPeers` call is a record with a program counter: `Begin`, the lookup under the
read lock (`Hit`, `Miss`), the query without a lock (`Status`, `Fail`), the store under
the write lock (`SetCachedPeers`), `Take` when the caller goes on. The locks
serialise single map accesses only, so each is one action. A peer list carries the
time `asOf` at which the daemon read it; no code sees that field, it is what the
age properties speak about. `PeerListing` adds the loops: `First` ranges over the first
answer, `Each` and `Linked` are the loop body with its own `GetPeers`, `Abandon` is the
error return that drops what was collected. A Go map has no order, so the loop
picks any remaining machine, and `GetTailkitPeer` any sidecar that fits.

### Discover and Versions

`ListPeers` is the call of `OnlinePeers`; `Spawn` starts one goroutine per peer without waiting
for a token; a goroutine takes its token (`Acquire`, the send to `sem`), asks (`Ask`), puts
its one result into the channel (`Send`), and the deferred receive frees the token
(`Release`). `Collect` receives as many results as there are peers. `results` is the channel in
its order, `taken` what has been received. A node's answer is a set of tools or an error; an
error counts as no tool, whatever caused it.

In `Versions` a version is the list of its components and a component a sequence of
character codes. `VersionAtLeast` trims the "v", fills up with "0", pads with zeros and
compares as Go compares strings; `NewerOrEqual` is the reference, by the numbers the
components write.

### ToolRegistry

One action per system call of `Install` (`MkdirAll`, `CreateTemp`, `WriteSome`/`Written`,
`Chmod`, `Close`, `Rename`, the deferred `Cleanup`) and of `Uninstall` (`Remove`), each of
which may fail, plus `Killed` at any point. A write takes `Size` pieces, so that
a kill can leave a part. A tool is a record of the fields that `validateTool` looks at. `Uninstall`,
too, is given names that match no pattern, and refuses them (`RemoveFails`).
The store's `TakeEffect` is the `Rename` or the `Remove`.

### FileTransfer

One caller that makes one call after the other. A request is a local file and a place on the
node; `Send` is given both, `SendDir` cuts the place out of the path (`Destination`, as the code does with two
`TrimPrefix`, on paths that are sequences of pieces), and the node's files are kept by place. `Send` and
`SendDir` share their steps: read the local file (`ReadLocalFile`, `ReadFails`), send it (`Post`), and file
a result (`Collect`) when the node has answered or something failed (`Sent`, `SendFails`).
`Walks` is what `walkDir` may find: any of the files, in their order.
`Accept` and `Reject` are the node. A request that is given up while the node has it
may move to `late` and be carried out at any later time (`LateArrival`), also after the next
call; `GivenUp(d)` is what earlier calls may still bring to the place d. `Download` reads the body as far
as it arrives (`ReadBody` takes any prefix without an error, as `doRaw` does), then truncates and
writes the local file piece by piece. Files are edited, removed and put back at any time (`Edit`).

### EventStream

The server sends any line at any time. `Field` is a line that is not blank, `Dispatch`
what a blank line and the end of the response do: hand the gathered event through
`stream`'s callback (`lastID`) to that of `Stream` (`Fate`) and reset the parser's variables.
`EventNames` has the names each typed helper owns, `Kind` and `Handed` what `ExecJobStream` and
`StreamPorts` add to an event. What the JSON decoders take is a parameter: the sets of texts that are JSON
(`ValidJSON`), that decode as the helper's data (`OwnType`, of which `WithKind` say their kind) and as the data of an
error event (`Reports`). `DecodeEvent` takes empty data as the zero value, `decodeStreamError` does not, so an
error event without data, or with other data than a report, is a decode error, not the node's. The instance has
pieces of all these kinds, a text split over two data lines, empty lines, ids that are numbers or not. The
reference, `EventEnds` and `EventOf`, finds the positions where events end, and reads each event off the
lines back to the last blank one, all at once; it shares no definition with the parser.

### NodeApi, NodeCalls and JobWait

`NodeApi` lists the requests of every wrapper as [method, path, returns]: a path is its
segments, `returns` the way the wrapper treats the response (does it read a value at all,
does it return what it has decoded together with the error, does it drop the error,
does it take the bytes of `doRaw`). `MapAPIError` looks for its words in the path; a caller's
name is one segment, a value of its own, and `Starts` has the words it begins with.

`NodeCalls` is one call: `Send`, then the node's `Answer`, then `TransportFails` at any point, `Refused`
(status 400 and above) or `ReadBody` with a body that is whole, cut short, of other types ("odd", which
does not decode) or an object of another shape ("foreign", which decodes as a "blank" value without an
error): `Decoded`. `AreaRefusal` is what the documentation says each refusal of an area becomes.

`JobWait` composes this with a job that runs, ends or is forgotten on the node, and with the
loop of `ExecWait`: the ticker's channel of one tick (`Tick`), the `select` that takes either case
when both are ready (`WaitCancelled`, `PollJob`), and what the answer does (`Polled`). Other calls
go on when no wait is under way, one of which may start the job.

### Server

`NewServer` makes the server and starts the signal goroutine (`Notify`, `Receive`); a `Signal`
before `Notify` kills the process, afterwards it goes into the channel if that is empty.
`Close` is cut where other goroutines can see a difference: `closeOnce` is entered, the
idle connections are closed, tsnet's `Close` begins and ends, `Close` returns. The goroutines of
the program may serve (`Listen`, `ServeReturns`) and close as they like; main closes and
returns (`Exit`), which ends every other goroutine wherever it is.

A request has the address its connection comes from and the one it is looked up by, which
`AuthMiddleware` takes from two headers or the connection (`RemoteAddr`); it asks `WhoIs` and calls the
handler with the identity. The tailnet gives addresses to other peers at any time (`ChangeOwner`);
`seen[r]` is a history of the owners of the connection's address since request r came.

## 3. The runs

| run | instance | states | what it shows |
|---|---|---|---|
| `fan_out` | 3 peers, limit 2, every health, cancel at any point | 23,645 | type, limit, exclusive map writes, faithful and isolated outcomes, refinement of `FleetReport`, return |
| `fan_out_hung` | same | finding | a deadline that only hung nodes miss costs healthy queued nodes their result |
| `peer_listing` | one lister, one other caller, 3 peer lists, TTL 1, lag 1, clock to 3 | 3,742,217 | age, regression, empty lists, exact listing after quiet |
| `discover` | 3 peers, limit 2, 5 answers or an error each | 73,427 | exactly the nodes with the tool, bounded requests, no goroutine left |
| `tool_registry` | 2 processes, 7 tools of which 4 invalid, writes in 2 pieces | 26,791 | complete files only, temporary files owned, refinement of `ToolStore` |
| `file_transfer` | 2 files, one in a short and a longer version, destinations by two prefixes, one late request at a time | 681,354 | true successes, a turn for every file, no mixed downloads, return |
| `download_cut` | same | finding | a cut response is a successful download |
| `event_stream` | `StreamPorts`, every stream of up to 4 lines over 17 lines | 1,338,227 | exact delivery, a result that is true of what was delivered, termination |
| `stream_not_resumed` | same, up to 3 lines | finding | a lost stream is not resumed from the last event id |
| `node_calls` | every call, on names of 3 kinds, 7 statuses, 4 kinds of bodies, one job | 51,062 | whole answers, right sentinels, a true end of `ExecWait`, return |
| `wrong_sentinel` | same | finding | a name that begins like an area is taken for it |
| `server` | main, one other goroutine, the signal goroutine; 2 requests, 2 addresses, 1 peer that comes and goes | 641,392 | a final `Close`, no lost signal, the peer at the connection's address in the handler |

Why the bounds are enough to be interesting:

* *fan_out*, *discover*: three peers and two tokens make one peer wait for a token; two
  hung peers fill the group. With equal numbers of both nothing would queue.
* *discover*: the minimum is "v1.9.1"; the answers have 1.10 (newer, though "10" is the smaller string),
  1.9 (a missing component), v2, 1.09.001 (the same version in other words), another tool,
  and two tools at once.
* *peer_listing*: TTL 1, lag 1, clock 3 is the least in which an entry expires, is
  overwritten by an older one, and the tailnet can be quiet for longer than both
  (`3 - 0 > 2`). Lists: empty; a machine with its sidecar; the same machine offline
  next to one without a sidecar. The second caller races the first one's queries.
* *tool_registry*: two versions of one name contend with each other and with an
  uninstall; two pieces give a partial file.
* *file_transfer*: two files, `.env` and `env` of a directory "site", show what one failure does to the next; versions
  of one and of two pieces show a cut, and what is left of an older content; one late
  request suffices to overtake a later call. Calls are not counted: the run covers any series. The directory
  is named without a slash at its end and the paths are cut into pieces, so both prefixes matter.
* *event_stream*: four lines hold two events, or one of three fields, or an event
  that inherits from the one before it what was not reset. `StreamPorts` has several names
  and adds a kind to the data; the other helpers are simpler instances of `Helper`.
* *node_calls*: a name that says nothing, one that begins with a word `mapAPIError` looks for
  and one that is such a word. Calls are not counted.
* *server*: two closers and the signal goroutine meet in `closeOnce` in every order; a peer
  that leaves its address shows a stale identity, a second request a remembered one, a second address
  a header that names another than the connection's.

`CHECK_DEADLOCK FALSE` stands where the system stops: `fanOut` and `DiscoverVersion` return, a
stream ends, the clock reaches its bound, the process exits. The other runs check for deadlock.

### Fairness

* `FanOut!FairSpec`: weak fairness of the caller's loop and of each goroutine. The Go
  runtime runs every runnable goroutine; a node that is up answers; a hung request
  ends through the 60 s timeout of the shared HTTP client (`server.go:102`), so
  `ClientTimeout` is part of the goroutine's fair steps. Taking the mutex
  needs no strong fairness here: goroutines are finitely many, each locks once.
  Nothing obliges the caller to cancel.
* `Discover!FairSpec`: the same, for `DiscoverVersion` and each goroutine. Taking a token needs no strong
  fairness for the same reason: each goroutine takes one, once.
* `EventStream!FairSpec`: the goroutine processes the end of a response, a lost
  connection and a context that is done; the transport fails a request whose
  context is done. The node need not answer, send or end anything, for the
  stream client has no timeout (`server.go:104`).
* `FileTransfer!FairSpec`: the caller's goroutine runs, and its request ends by the 60 s timeout
  if nothing else does (`SendFails`). The node (`Accept`, `Reject`) has no fairness.
* `JobWait!FairSpec`: the client's steps, among them the 60 s timeout, the ticker and the loop. The node
  owes neither an answer nor the end of the job, so `ExecWait` returns only when the
  job or the context is over, and a wait on a job that never ends is not excluded; nor is one whose polls
  are answered with objects of another shape, in which `ExecWait` sees no status and polls on (`Returns` says so).
* `Server!FairSpec`: the signal goroutine, whoever is inside `Close`, and a `Serve` whose listener is
  closed go on. No program has to serve, to close or to exit.
* The other specifications promise nothing about progress.

### Findings

1. `fan_out_hung`: `docs/fleet.md:49` says of a timed-out node that "other nodes are unaffected";
   queued nodes are affected once as many nodes hang as run at once. The
   statement holds while fewer hang: `OthersUnaffectedBelowLimit`, checked and proved.
2. `download_cut`: `Download` returns no error when the response is cut short, for `doRaw` (`client.go:124`)
   ignores the error of reading the body; a body that takes longer than the client's 60 s is cut,
   too. What holds: the file is a prefix of one content (`DownloadIsPrefix`).
3. `wrong_sentinel`: `mapAPIError` looks for its words anywhere in the path, so that a 503 for a variable
   or a unit whose name begins with "docker" is `ErrDockerUnavailable`. What holds: `SentinelNamesArea`, for
   names that cannot be mistaken.
4. `stream_not_resumed`: `docs/node.md:30` says that `Stream` "re-sends `Last-Event-ID` when reconnecting"; `stream`
   keeps the last id (`stream.go:117`), but its loop returns on every path (`stream.go:129`), so that a lost
   connection ends the stream. What holds: it ends with an error that says so (`ResultIsTruthful`, `Ends`).

Seen while modelling, and visible without a model checker:

* `fleet.go:71`: outcomes are filed under host names, which need not be unique; of two peers
  with one name the map keeps one. `FaithfulReport` has `UniqueHosts` as its hypothesis.
* `peers.go:142`: `OnlinePeers` returns every online machine; its comment (`peers.go:131`) and
  `docs/fleet.md:8` say those running tailkitd.
* `install.go:36`: the comment of `Install` lists checks of every command; `validateTool` has none of them.
* `stream.go:64`: the data of events that a helper does not own is decoded, too, and ends the stream if
  it is no JSON; `docs/node.md:48` says such events are usually ignored.
* `client.go:266`: `ExecWait` "blocks until it completes or ctx is cancelled" (`client.go:254`), but one poll
  that fails, for whatever reason, ends it while the job goes on. What holds: `WaitIsTruthful`.
* `client.go:425`: `SendDir` cuts the directory's name off the front of every path as text. Of the directory "."
  `walkDir` gives `.env` and `env`, which both go to `env`: one overwrites the other, and both are successes.
  Of "./site" it gives paths that begin with `site/`, which stays in the destination. `SuccessIsOnNode` has
  destinations that differ (`DistinctPlaces`) as its hypothesis.
* `middleware.go:38`: "the verified identity of the caller" (`middleware.go:14`, `docs/server.md:47`) is the owner of the
  address the headers name, if they name one. Nothing checks who has set them, so this holds only
  behind a proxy that does; `HandlerKnowsCaller` is about requests whose headers name no other address than the
  connection's.
* `client.go:439`: the result of a file that failed in `SendDir` has neither `Error` nor `LocalPath`.
* `Available` hides every error, not only a 503 (`docs/errors.md:29`); `Env` is cut short like `Download`.
* `version.go:31`: components with a suffix ("10-rc1" and "9") are padded and compared by their length first.
* `server.go:77`: a signal between the return of `NewServer` and `Notify` kills the process; those after the
  first are received by nobody.

## 4. The proofs

TLC checks the instances above; TLAPS proves these for every value of the constants. Each module
has an inductive invariant (`IInv`) of named parts, one lemma per group of actions, and a
theorem per property; none of the properties but the types is inductive by itself.

**FanOutProofs** (from `FanOutAssumption`: the number of peers is a natural number, the limit is
positive, `NoPeer` is no peer): `TypeCorrect`, `ParallelismIsBounded`,
`MapWritesAreExclusive`, and with `UniqueHosts` also `DeadlineSparesOthers`,
`ReportIsFaithful`, `FailuresAreIsolated`, `FanOutImplementsContract`. The limit needs that the
semaphore counts exactly the live goroutines
(`SlotPerTask`, with lemmas on cardinalities); exclusion needs that who records
holds the mutex (`LockHeld`); isolation needs the cause of every outcome
(`OutcomeCaused`: "failed" only at a node that is not up, "ctx" only if the caller's context is
done); the report needs what is filed where at every stage (`Filed`), and the
deadline theorem that after a stalled deadline only hung requests are left
(`PatientDeadline`), which rests on fewer hung nodes than tokens.

**PeerProofs**, of the cache (`PeerCacheAssumption`: the TTL is an integer, the default positive, the
lag and the clock's bound natural): `TypeCorrect`, `EmptyListsAreFresh`, `AgeIsBounded`, `RegressionIsBounded`. The
induction needs the age of the entry and of every answer still to be stored
(`EntryAge`, `AnswerAge`). `MaxTime` is arbitrary, so the clock's bound is no restriction.

Of the listings: `ListingsUseTheCache` says that the listings with their cache implement the cache's
specification, for a step of a listing is a step of the cache or leaves it alone
(`ListingIsPeerCache`); so all that is proved of `PeerCache` holds under any number of listings.
`QuietListingsAreExact` has in addition `ListersAssumption` and the hypothesis `OneSidecarEach` (no peer list has
two sidecars for one machine). On top of the cache's invariant comes
that everything read after the last change is what the tailnet holds (`Reading`), and that a
listing's rows together with the machines it has left make up the exact result (`OnCourse`). Without the
hypothesis two reads of the same list may link different sidecars, and neither is wrong.

**DiscoverProofs** (`DiscoverAssumption`: a natural number of peers, a positive limit): `TypeCorrect`,
`RequestsAreBounded`, `VersionsCompareAsNumbers`, and with the hypothesis `VersionsAreNumbers` `FoundIsExact`. The
semaphore counts exactly the goroutines
between `Acquire` and `Release` (`TokenPerHolder`); the results sent, received or not, are one per
peer at most and say what its answer says (`SentOnce`, `SentTruly`); hence, by counting, all of
them are in when as many are received as there are peers. `VersionsAreNumbers` says that the components of
the minimum and of the tool's versions are digits, any number of them; without it the answer is
not the one of the numbers (`version.go:31`, below the findings). `VersionsCompareAsNumbers` says of such
versions that `VersionAtLeast` is the order of the numbers, whatever their lengths: padding keeps the
number of a component (`PaddingKeepsNumber`), and of two components of one length the first digit to
differ decides (`FirstDigitDecides`). `Number` is a recursive function; that it exists, and what holds of its values,
is proved by looking at the least position where it would fail (`LeastNat`, `NoLeast`), which takes
the place of an induction.

**ToolRegistryProofs** (`ToolRegistryAssumption`: a positive size, `None` is no tool and no file):
`TypeCorrect`, `NeverPartialHolds`, `TempFilesAreOwned`, `RegistryImplementsStore`.
`Rename` copies the temporary file, so the invariant says how complete that is at each
step (`FileProgress`) and what arguments and outcome a call has (`CallShape`). For the refinement every step is
shown to be a request, the effect, a failure, the end of a call, or invisible.

**EventStreamProofs** (`EventStreamAssumption`: a helper of the table, lines whose fields and values are of
the kinds named there): `TypeCorrect`, `DeliveryIsExact`, `ResultsAreTruthful`. The induction needs that the parser's
variables hold the event that would end at the next line (`ParserFollows`), and that the callback has had
what the reference finds so far (`DeliversExactly` itself, and `ResultIsTruthful` when the stream is over). Every line is one
of two cases. A blank line ends a block, and the next one is empty (`BlankLine`, `EndsAtBlank`);
another one belongs to the block (`FieldLine`, `FieldEvent`), and no event ends at it
(`EndsAtField`). Earlier events never change (`EarlierEvents`, `EarlierHanded`). What the reference computes from
sets of positions grows by one at the end when the greatest position is added
(`InOrderAppend`, `LastOrAppend`, by the ranks of a set's elements). `MaxLines` is arbitrary, so the length of
a stream is no restriction.

**FileTransferProofs** (the module's assumption on the files' contents): `TypeCorrect`, `SuccessesAreTrue`,
`EveryFileIsTried`, `DownloadsArePrefixes`. A late request is one whose failure the call has reported, or is
older than the call (`LateOnes`), so that, if destinations differ, a success can be overwritten only with what an earlier
call had sent to the same place; results and remaining files always make
up what the walk found (`Order`); what has been written begins what was received, which begins what was
served (`DownloadSoFar`).

**JobWaitProofs** (the assumptions of the three modules): `TypeCorrect`, `NoErrorIsWhole`, `SentinelsNameTheArea`,
`WaitReturnsTheEnd`. Needed: every refusal becomes some error (`RefusalIsError`, for any path), and which poll a
wait's status belongs to (`WaitShape`). For the sentinels every path of every wrapper is shown to name its
area in its first segment, or in the second after "integrations", and to go on with segments that are none of the words
(`CallsNameTheirArea`: a path grows from a short one by fixed segments and names, `LongerPath`); so what
`mapAPIError` finds anywhere is the area (`FoundIsArea`). Names are arbitrary values that differ from those
words; that no word begins them is the property's own hypothesis (`Unambiguous`).

**ServerProofs** (`ServerAssumption`: main is a goroutine of the program, the signal goroutine is
not): `TypeCorrect`, `CloseIsFinalHolds`, `HandlerKnowsCallerHolds`. Who is inside `closeOnce` is alone (`OnceExclusive`), after it
the server is closed (`OnceDone`), before `NewServer` returns there is nobody (`NewFirst`), and the
present owner of a connection's address is among those seen by its requests (`SeenOwners`).

**Deadlock** is a matter of safety and is proved where goroutines wait for each other: `NobodyWaitsForever` of
`DiscoverProofs`, `FanOutProofs` and `ServerProofs` says that each wait of the code (for the semaphore, the channel, the
mutex, the wait group, `closeOnce`) has somebody who ends it and does not himself wait for the one who waits
(`EveryWaitEnds`). Needed besides `IInv`: a goroutine of Discover past its
send has sent a result (`AllAccounted`); while `closeOnce` runs somebody is inside, and the signal goroutine
does not go back to its receive, which is why no signal is lost (`Progress`).

Model-checked only: liveness (`Returns`, `Ends`, `Finishes`, `ShutsDown`), which is out of the prover's reach; that
the one who ends a wait is also scheduled is the fairness of section 3.

## 5. Assumptions and limits

* *PeerCache*: at most `MaxLag` passes between the daemon's reading and the store. The code
  bounds this nowhere; without a bound no age bound holds. The clock is monotonic.
* *FanOut*: nodes keep their health during one call. `fn` is one request that respects its context;
  `SendDir` makes several, which changes how long a goroutine is "inflight" only.
* *Discover*: `OnlinePeers` is one step; `PeerListing` has its own.
* *ToolRegistry*: `CreateTemp` picks a name nobody uses; a kill ends the process, not the
  machine (nothing is synced, so a power loss is up to the file system); a temporary file that a kill or
  a failing `Remove` leaves behind is dropped by the model, for nobody reads it.
* *FileTransfer*: `os.ReadFile` and the node's reading and writing of a file are atomic (an editor or
  a node that rewrites in place could show half of it); a node that answers a success has
  the file; nobody else writes to the node or to the file `Download` writes. `SuccessIsOnNode` allows that what
  an earlier call sent and gave up comes over a file: that is a property of any request that is given up.
* *EventStream*: the callback returns; what a decoder makes of a text is a constant; lines up to `MaxLines` in TLC only.
* *NodeCalls*: whether a request is sent again is up to `net/http`, for the client has no retry of its own; what the
  node has changed when a call fails is not modelled. Queries and bodies are left out. `url.PathEscape` keeps a name
  in one segment.
* *Server*: tsnet's `Close` ends; a listener cannot be opened on a server that closes; `WhoIs` names the
  present owner of an address. What `NewServer` reads from the environment (auth key, state directory)
  only decides whether it fails.

Not modelled, and why:

* `exec.go` (`Exec`, `ExecWith`): one sequential pass over a list of variables, followed by the start of a process;
  no state is kept and nothing runs concurrently.
* `types/integrations` (`MatchPathRule`, `Permits`): pure functions that nothing in this repository calls.
* `types`, `aliases.go`: declarations. Certificates (`TLSConfig`) are Tailscale's.
* The daemon, tsnet, encodings and HTTP themselves: external, present as the code meets them.
