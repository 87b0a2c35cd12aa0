------------------------------- MODULE NodeApi -------------------------------
(***************************************************************************)
(* The requests a node client makes (client.go, admin.go, stream.go) and   *)
(* the error it makes of a refusal (mapAPIError).                          *)
(*                                                                         *)
(* A path is the sequence of its segments.  url.PathEscape lets no slash   *)
(* into what the caller supplies, so a name is one segment, and a query    *)
(* changes nothing mapAPIError looks at.  A name is a value of its own:    *)
(* all that matters of its spelling is which of the words mapAPIError      *)
(* looks for the name, and the slash after it, begin with.                 *)
(***************************************************************************)
EXTENDS Naturals, Sequences

CONSTANTS
  Ids,    \* names of hosts, services, units, containers, projects, keys, jobs
  Starts  \* Starts[id]: the words of mapAPIError that "id/" begins with

\* The words mapAPIError looks for, each after a slash.
Words ==
  {"docker", "systemd", "metrics", "files", "receive", "vars", "tools", "exec/"}

ASSUME NodeApiAssumption ==
  /\ DOMAIN Starts = Ids
  /\ \A id \in Ids : Starts[id] \subseteq Words
  /\ Ids \cap (Words \cup {"exec", "integrations"}) = {}

-----------------------------------------------------------------------------
(* The calls.  returns says what the wrapper does with the response:        *)
(*   "nothing"  returns the error of do and no value                        *)
(*   "checked"  decodes JSON, and returns a zero value with an error        *)
(*   "direct"   decodes JSON, and returns what it has got with the error    *)
(*   "flag"     decodes a bool; an error makes it false, and is dropped     *)
(*   "text"     returns the bytes of doRaw                                  *)
(*   "content"  decodes the bytes of doRaw                                  *)

Call(method, path, returns) == [method |-> method, path |-> path, returns |-> returns]

Docker == <<"integrations", "docker">>
Systemd == <<"integrations", "systemd">>
Metrics == <<"integrations", "metrics">>

HostCalls ==
  {Call("GET", <<area>>, "checked") : area \in {"host", "services", "tools"}}

ExecJob(id) == Call("GET", <<"exec", "jobs", id>>, "checked")

ConfigCalls ==
  {Call("GET", area \o <<"config">>, "checked") :
     area \in {<<"files">>, <<"vars">>, Docker, Systemd, Metrics}}

\* List and Stat, and Read; Send, SendDir and Download are in FileTransfer.
FilesCalls == {Call("GET", <<"files">>, r) : r \in {"checked", "content"}}

VarsCalls(project, env, key) ==
  LET scope == <<"vars", project, env>>
  IN  {Call("GET", scope, "checked"), Call("GET", scope, "text"),
       Call("GET", Append(scope, key), "checked"),
       Call("PUT", Append(scope, key), "nothing"),
       Call("DELETE", Append(scope, key), "nothing")}

AvailableCalls ==
  {Call("GET", Append(area, "available"), "flag") : area \in {Docker, Systemd, Metrics}}

DockerCalls(id) ==
  LET containers == Append(Docker, "containers")
      images == Append(Docker, "images")
  IN  {Call("GET", path, "direct") :
         path \in {containers, Append(containers, id), containers \o <<id, "logs">>, images}}
        \cup {Call("POST", containers \o <<id, verb>>, "direct") :
                verb \in {"start", "stop", "restart"}}
        \cup {Call("DELETE", Append(containers, id), "direct"),
              Call("POST", Append(images, "pull"), "direct")}

ComposeCalls(name) ==
  LET compose == Append(Docker, "compose")
  IN  {Call("GET", Append(compose, project), "direct") : project \in {"projects", name}}
        \cup {Call("POST", compose \o <<name, verb>>, "direct") :
                verb \in {"up", "down", "pull", "restart", "build"}}

SwarmCalls ==
  {Call("GET", Docker \o <<"swarm", list>>, "direct") : list \in {"nodes", "services"}}

SystemdCalls(unit) ==
  LET units == Append(Systemd, "units")
  IN  {Call("GET", path, "direct") :
         path \in {units, Append(units, unit), units \o <<unit, "file">>,
                   units \o <<unit, "journal">>, Append(Systemd, "journal")}}
        \cup {Call("POST", units \o <<unit, verb>>, "direct") :
                verb \in {"start", "stop", "restart", "reload", "enable", "disable"}}

MetricsCalls ==
  {Call("GET", Append(Metrics, what), "direct") :
     what \in {"host", "cpu", "memory", "disk", "network", "processes", "all", "ports"}}
    \cup {Call("GET", Metrics \o <<"ports", "available">>, "checked")}

AdminCalls(host, name) ==
  LET admin == <<"admin", "hosts", host>>
      service == admin \o <<"services", name>>
  IN  {Call("POST", path, "nothing") :
         path \in {Append(admin, "config"), service, <<"admin", "transfer">>}}
        \cup {Call("DELETE", service, "nothing")}

\* The calls whose paths hold the names a and b; b only where there are several.
CallsOn(a, b) ==
  VarsCalls(a, b, b) \cup AdminCalls(a, b) \cup DockerCalls(a) \cup ComposeCalls(a)
    \cup SystemdCalls(a) \cup {ExecJob(a)}

Calls ==
  HostCalls \cup ConfigCalls \cup FilesCalls \cup AvailableCalls \cup SwarmCalls
    \cup MetricsCalls \cup UNION {CallsOn(a, b) : a, b \in Ids}

-----------------------------------------------------------------------------
(* mapAPIError.                                                             *)

\* A segment that is a name begins with the word.
NameStarts(segment, word) == segment \in Ids /\ word \in Starts[segment]

\* strings.Contains(path, "/" + word)
Contains(path, word) ==
  \E i \in DOMAIN path : path[i] = word \/ NameStarts(path[i], word)

\* strings.Contains(path, "/exec/")
ContainsExec(path) ==
  \E i \in 1 .. Len(path) - 1 : path[i] = "exec" \/ NameStarts(path[i], "exec/")

\* The cases of the switch on a 503, the first that applies counting.
UnavailableErrors ==
  << <<"docker", "ErrDockerUnavailable">>, <<"systemd", "ErrSystemdUnavailable">>,
     <<"metrics", "ErrMetricsUnavailable">>, <<"files", "ErrReceiveNotConfigured">>,
     <<"receive", "ErrReceiveNotConfigured">>, <<"vars", "ErrVarScopeNotFound">> >>

Unavailable(path) ==
  LET cases == {i \in DOMAIN UnavailableErrors : Contains(path, UnavailableErrors[i][1])}
      first == CHOOSE i \in cases : \A j \in cases : i <= j
  IN  IF cases = {} THEN "unavailable" ELSE UnavailableErrors[first][2]

\* Mutant: what is not a tool is a command.
ToolOrCommand(path) ==
  IF Contains(path, "tools") THEN "ErrToolNotFound" ELSE "ErrCommandNotFound"

NotFound(path) ==
  IF Contains(path, "tools") THEN "ErrToolNotFound"
  ELSE IF ContainsExec(path) THEN "ErrCommandNotFound"
  ELSE "not found"

Refusals ==
  {"ErrDockerUnavailable", "ErrSystemdUnavailable", "ErrMetricsUnavailable",
   "ErrReceiveNotConfigured", "ErrVarScopeNotFound", "unavailable",
   "ErrToolNotFound", "ErrCommandNotFound", "not found",
   "ErrPermissionDenied", "ErrUnauthorized", "ErrConflict", "HTTP"}

MapAPIError(status, path) ==
  CASE status = 503 -> Unavailable(path)
    [] status = 404 -> NotFound(path)
    [] status = 403 -> "ErrPermissionDenied"
    [] status = 401 -> "ErrUnauthorized"
    [] status = 409 -> "ErrConflict"
    [] OTHER        -> "HTTP"

-----------------------------------------------------------------------------
(* The reference: the area of a call is what its fixed segments name, and   *)
(* docs/errors.md has one error for each area.                              *)

Area(path) == IF path[1] = "integrations" THEN path[2] ELSE path[1]

AreaUnavailable(area) ==
  CASE area = "docker"  -> "ErrDockerUnavailable"
    [] area = "systemd" -> "ErrSystemdUnavailable"
    [] area = "metrics" -> "ErrMetricsUnavailable"
    [] area = "files"   -> "ErrReceiveNotConfigured"
    [] area = "vars"    -> "ErrVarScopeNotFound"
    [] OTHER            -> "unavailable"

AreaNotFound(area) ==
  CASE area = "tools" -> "ErrToolNotFound"
    [] area = "exec"  -> "ErrCommandNotFound"
    [] OTHER          -> "not found"

\* What a refusal should be called.
AreaRefusal(status, area) ==
  CASE status = 503 -> AreaUnavailable(area)
    [] status = 404 -> AreaNotFound(area)
    [] status = 403 -> "ErrPermissionDenied"
    [] status = 401 -> "ErrUnauthorized"
    [] status = 409 -> "ErrConflict"
    [] OTHER        -> "HTTP"

\* The names in the path cannot be taken for an area.
Unambiguous(path) ==
  \A i \in DOMAIN path : \A word \in Words : ~NameStarts(path[i], word)
=============================================================================
