---------------------------- MODULE JobWaitProofs ----------------------------
(* Theorems about the calls of a node client and ExecWait, for any names    *)
(* and any job.                                                             *)
EXTENDS JobWait, TLAPS

-----------------------------------------------------------------------------
(* The errors a call may return.                                            *)

(* mapAPIError always makes an error of a refusal: the first case of a 503  *)
(* exists when there is one at all.                                         *)
LEMMA RefusalIsError ==
  ASSUME NEW s, NEW path
  PROVE  MapAPIError(s, path) \in Refusals
<1>1. Unavailable(path) \in Refusals
  <2> DEFINE cases == {i \in DOMAIN UnavailableErrors : Contains(path, UnavailableErrors[i][1])}
             first == CHOOSE i \in cases : \A j \in cases : i <= j
  <2>1. DOMAIN UnavailableErrors = 1 .. 6
    BY DEF UnavailableErrors
  <2>2. ASSUME NEW i \in 1 .. 6 PROVE UnavailableErrors[i][2] \in Refusals
    <3>1. CASE i = 1
      BY <3>1 DEF UnavailableErrors, Refusals
    <3>2. CASE i = 2
      BY <3>2 DEF UnavailableErrors, Refusals
    <3>3. CASE i = 3
      BY <3>3 DEF UnavailableErrors, Refusals
    <3>4. CASE i = 4
      BY <3>4 DEF UnavailableErrors, Refusals
    <3>5. CASE i = 5
      BY <3>5 DEF UnavailableErrors, Refusals
    <3>6. CASE i = 6
      BY <3>6 DEF UnavailableErrors, Refusals
    <3> QED
      BY <3>1, <3>2, <3>3, <3>4, <3>5, <3>6
  <2>3. Unavailable(path) = IF cases = {} THEN "unavailable" ELSE UnavailableErrors[first][2]
    BY DEF Unavailable
  <2>4. cases \subseteq 1 .. 6
    BY <2>1
  <2> HIDE DEF cases
  <2>5. ASSUME cases # {} PROVE \E i \in cases : \A j \in cases : i <= j
    <3> SUFFICES ASSUME \A i \in cases : \E j \in cases : j < i
                 PROVE  FALSE
      BY <2>4
    <3>1. 1 \notin cases
      BY <2>4
    <3>2. 2 \notin cases
      BY <2>4, <3>1
    <3>3. 3 \notin cases
      BY <2>4, <3>1, <3>2
    <3>4. 4 \notin cases
      BY <2>4, <3>1, <3>2, <3>3
    <3>5. 5 \notin cases /\ 6 \notin cases
      BY <2>4, <3>1, <3>2, <3>3, <3>4
    <3>6. \A i \in 1 .. 6 : i \in {1, 2, 3, 4, 5, 6}
      OBVIOUS
    <3>7. cases = {}
      BY <2>4, <3>1, <3>2, <3>3, <3>4, <3>5, <3>6
    <3> QED
      BY <2>5, <3>7
  <2>6. cases # {} => first \in 1 .. 6
    BY <2>4, <2>5
  <2> HIDE DEF first
  <2> QED
    BY <2>2, <2>3, <2>6 DEF Refusals
<1>2. NotFound(path) \in Refusals
  BY DEF NotFound, Refusals
<1> QED
  BY <1>1, <1>2 DEF MapAPIError, Refusals

-----------------------------------------------------------------------------
(* The paths name their area.                                              *)

Areas ==
  {"host", "services", "tools", "exec", "files", "vars", "admin", "docker", "systemd", "metrics"}

\* The other fixed segments; names may follow an area as these do.
Fixed ==
  {"host", "services", "config", "jobs", "available", "containers", "images", "logs", "pull",
   "start", "stop", "restart", "compose", "projects", "up", "down", "build", "swarm", "nodes",
   "units", "file", "journal", "reload", "enable", "disable", "cpu", "memory", "disk",
   "network", "processes", "all", "ports", "hosts", "transfer"}

Rest == Fixed \cup Ids

Segments == {"integrations"} \cup Areas \cup Rest

\* Where a path names its area.
AreaAt(path) == IF path[1] = "integrations" THEN 2 ELSE 1

\* A path names its area once, where its fixed segments do, and what follows
\* is none of the words mapAPIError looks for.
NamesArea(path) ==
  /\ path \in Seq(Segments)
  /\ AreaAt(path) <= Len(path)
  /\ path[AreaAt(path)] \in Areas
  /\ path[AreaAt(path)] = "exec" => AreaAt(path) < Len(path)
  /\ \A i \in 1 .. Len(path) : i > AreaAt(path) => path[i] \in Rest

(* A segment that follows the area is none of the words.                    *)
LEMMA RestIsNoWord ==
  /\ Rest \cap (Words \cup {"exec", "integrations"}) = {}
  /\ "integrations" \notin Words \cup {"exec"}
<1>1. Fixed \cap (Words \cup {"exec", "integrations"}) = {}
  BY DEF Fixed, Words
<1>2. "integrations" \notin Words \cup {"exec"}
  BY DEF Words
<1> QED
  BY <1>1, <1>2, NodeApiAssumption DEF Rest

(* More fixed segments and names leave the area alone.                      *)
LEMMA LongerPath ==
  ASSUME NEW path, NamesArea(path), NEW segment \in Rest
  PROVE  NamesArea(Append(path, segment))
<1> DEFINE longer == Append(path, segment)
           n == Len(path)
<1>1. /\ path \in Seq(Segments) /\ segment \in Segments /\ n \in Nat
      /\ AreaAt(path) <= n /\ AreaAt(path) \in {1, 2}
  BY DEF NamesArea, Segments, AreaAt
<1>2. /\ longer \in Seq(Segments) /\ Len(longer) = n + 1 /\ longer[n + 1] = segment
      /\ \A i \in 1 .. n : longer[i] = path[i]
  BY <1>1
<1> HIDE DEF longer, n
<1>3. 1 \in 1 .. n /\ AreaAt(path) \in 1 .. n
  BY <1>1
<1>4. AreaAt(longer) = AreaAt(path) /\ longer[AreaAt(path)] = path[AreaAt(path)]
  BY <1>2, <1>3 DEF AreaAt
<1>5. ASSUME NEW i \in 1 .. n + 1, i > AreaAt(path) PROVE longer[i] \in Rest
  <2>1. CASE i \in 1 .. n
    BY <1>2, <1>5, <2>1 DEF NamesArea, n
  <2>2. CASE i = n + 1
    BY <1>2, <2>2
  <2> QED
    BY <1>1, <2>1, <2>2
<1>6. AreaAt(path) < n + 1
  BY <1>1
<1>7. NamesArea(longer)
  BY <1>2, <1>4, <1>5, <1>6, <1>1 DEF NamesArea
<1> QED
  BY <1>7 DEF longer

LEMMA LongerByTwo ==
  ASSUME NEW path, NamesArea(path), NEW a \in Rest, NEW b \in Rest
  PROVE  NamesArea(path \o <<a, b>>)
<1>1. path \in Seq(Segments) /\ a \in Segments /\ b \in Segments
  BY DEF NamesArea, Segments
<1>2. path \o <<a, b>> = Append(Append(path, a), b)
  BY <1>1
<1> QED
  BY <1>2, LongerPath

(* The shortest paths.                                                      *)
LEMMA ShortPaths ==
  /\ \A area \in {"host", "services", "tools", "files", "vars", "admin"} : NamesArea(<<area>>)
  /\ NamesArea(Docker) /\ NamesArea(Systemd) /\ NamesArea(Metrics)
  /\ NamesArea(<<"exec", "jobs">>)
<1>1. ASSUME NEW area \in {"host", "services", "tools", "files", "vars", "admin"}
      PROVE  NamesArea(<<area>>)
  <2>1. area \in Segments /\ area \in Areas /\ area # "integrations" /\ area # "exec"
    BY DEF Segments, Areas
  <2>2. AreaAt(<<area>>) = 1
    BY <2>1 DEF AreaAt
  <2>3. <<area>> \in Seq(Segments) /\ Len(<<area>>) = 1 /\ <<area>>[1] = area
    BY <2>1
  <2> QED
    BY <2>1, <2>2, <2>3 DEF NamesArea
<1>2. ASSUME NEW area \in {"docker", "systemd", "metrics"}
      PROVE  NamesArea(<<"integrations", area>>)
  <2> DEFINE path == <<"integrations", area>>
  <2>1. "integrations" \in Segments /\ area \in Segments /\ area \in Areas /\ area # "exec"
    BY DEF Segments, Areas
  <2>2. path \in Seq(Segments) /\ Len(path) = 2 /\ path[1] = "integrations" /\ path[2] = area
    BY <2>1
  <2> HIDE DEF path
  <2>3. AreaAt(path) = 2
    BY <2>2 DEF AreaAt
  <2>4. NamesArea(path)
    BY <2>1, <2>2, <2>3 DEF NamesArea
  <2> QED
    BY <2>4 DEF path
<1>3. NamesArea(<<"exec", "jobs">>)
  <2> DEFINE path == <<"exec", "jobs">>
  <2>1. "exec" \in Segments /\ "jobs" \in Segments /\ "exec" \in Areas /\ "jobs" \in Rest
    BY DEF Segments, Areas, Rest, Fixed
  <2>2. path \in Seq(Segments) /\ Len(path) = 2 /\ path[1] = "exec" /\ path[2] = "jobs"
    BY <2>1
  <2> HIDE DEF path
  <2>3. AreaAt(path) = 1
    BY <2>2 DEF AreaAt
  <2>4. NamesArea(path)
    BY <2>1, <2>2, <2>3 DEF NamesArea
  <2> QED
    BY <2>4 DEF path
<1> QED
  BY <1>1, <1>2, <1>3 DEF Docker, Systemd, Metrics

(* So does every path below, whatever the names in it.                      *)
LEMMA CallsNameTheirArea ==
  ASSUME NEW c \in Calls
  PROVE  NamesArea(c.path)
<1>0. \A method, path, returns : Call(method, path, returns).path = path
  BY DEF Call
<1>1. CASE c \in HostCalls
  BY <1>1, ShortPaths DEF HostCalls, Call
<1>2. CASE c \in ConfigCalls
  <2>1. \A area \in {<<"files">>, <<"vars">>, Docker, Systemd, Metrics} : NamesArea(area)
    BY ShortPaths
  <2>2. PICK area \in {<<"files">>, <<"vars">>, Docker, Systemd, Metrics} :
          c = Call("GET", area \o <<"config">>, "checked")
    BY <1>2 DEF ConfigCalls
  <2>5. c.path = area \o <<"config">>
    BY <1>0, <2>2
  <2>3. area \o <<"config">> = Append(area, "config")
    <3>1. area \in Seq(Segments) /\ "config" \in Segments
      BY <2>1 DEF NamesArea, Segments, Rest, Fixed
    <3> QED
      BY <3>1
  <2>4. "config" \in Rest
    BY DEF Rest, Fixed
  <2> QED
    BY <2>1, <2>3, <2>4, <2>5, LongerPath
<1>3. CASE c \in FilesCalls
  BY <1>3, ShortPaths DEF FilesCalls, Call
<1>4. CASE c \in AvailableCalls
  <2>1. PICK area \in {Docker, Systemd, Metrics} : c.path = Append(area, "available")
    BY <1>4 DEF AvailableCalls, Call
  <2>2. "available" \in Rest /\ NamesArea(area)
    BY ShortPaths DEF Rest, Fixed
  <2> QED
    BY <2>1, <2>2, LongerPath
<1>5. CASE c \in SwarmCalls
  <2>1. PICK list \in {"nodes", "services"} : c.path = Docker \o <<"swarm", list>>
    BY <1>5 DEF SwarmCalls, Call
  <2>2. "swarm" \in Rest /\ list \in Rest
    BY DEF Rest, Fixed
  <2> QED
    BY <2>1, <2>2, ShortPaths, LongerByTwo
<1>6. CASE c \in MetricsCalls
  <2>1. CASE \E what \in {"host", "cpu", "memory", "disk", "network", "processes", "all", "ports"} :
               c.path = Append(Metrics, what)
    <3>1. {"host", "cpu", "memory", "disk", "network", "processes", "all", "ports"} \subseteq Rest
      BY DEF Rest, Fixed
    <3> QED
      BY <2>1, <3>1, ShortPaths, LongerPath
  <2>2. CASE c.path = Metrics \o <<"ports", "available">>
    <3>1. "ports" \in Rest /\ "available" \in Rest
      BY DEF Rest, Fixed
    <3> QED
      BY <2>2, <3>1, ShortPaths, LongerByTwo
  <2> QED
    BY <1>6, <2>1, <2>2 DEF MetricsCalls, Call
<1>7. ASSUME NEW a \in Ids, NEW b \in Ids, c \in CallsOn(a, b) PROVE NamesArea(c.path)
  <2>1. a \in Rest /\ b \in Rest
    BY DEF Rest
  <2>2. CASE c \in VarsCalls(a, b, b)
    <3> DEFINE scope == <<"vars", a, b>>
    <3>1. NamesArea(scope)
      <4>1. NamesArea(Append(Append(<<"vars">>, a), b))
        BY <2>1, ShortPaths, LongerPath
      <4>2. scope = <<"vars", a, b>>
        OBVIOUS
      <4> HIDE DEF scope
      <4>3. scope = Append(Append(<<"vars">>, a), b)
        BY <4>2
      <4> QED
        BY <4>1, <4>3
    <3>2. NamesArea(Append(scope, b))
      BY <2>1, <3>1, LongerPath
    <3>3. c.path = scope \/ c.path = Append(scope, b)
      BY <2>2 DEF VarsCalls, Call
    <3> QED
      BY <3>1, <3>2, <3>3
  <2>3. CASE c \in AdminCalls(a, b)
    <3> DEFINE admin == <<"admin", "hosts", a>>
               service == admin \o <<"services", b>>
    <3>1. {"hosts", "services", "config", "transfer"} \subseteq Rest
      BY DEF Rest, Fixed
    <3>2. NamesArea(admin)
      <4>1. NamesArea(Append(Append(<<"admin">>, "hosts"), a))
        BY <2>1, <3>1, ShortPaths, LongerPath
      <4>2. admin = <<"admin", "hosts", a>>
        OBVIOUS
      <4> HIDE DEF admin
      <4>3. admin = Append(Append(<<"admin">>, "hosts"), a)
        BY <4>2
      <4> QED
        BY <4>1, <4>3
    <3>3. NamesArea(service) /\ NamesArea(Append(admin, "config"))
      BY <2>1, <3>1, <3>2, LongerPath, LongerByTwo
    <3>4. NamesArea(<<"admin", "transfer">>)
      <4>1. NamesArea(Append(<<"admin">>, "transfer"))
        BY <3>1, ShortPaths, LongerPath
      <4>2. \A path : path = <<"admin", "transfer">> => path = Append(<<"admin">>, "transfer")
        OBVIOUS
      <4> QED
        BY <4>1, <4>2
    <3>5. c.path \in {Append(admin, "config"), service, <<"admin", "transfer">>}
      BY <2>3 DEF AdminCalls, Call
    <3> QED
      BY <3>3, <3>4, <3>5
  <2>4. CASE c \in DockerCalls(a)
    <3> DEFINE containers == Append(Docker, "containers")
               images == Append(Docker, "images")
               container == Append(containers, a)
               pull == Append(images, "pull")
               on(verb) == containers \o <<a, verb>>
               verbs == {"start", "stop", "restart"}
    <3>1. {"containers", "images", "logs", "pull"} \cup verbs \subseteq Rest
      BY DEF Rest, Fixed
    <3>2. NamesArea(containers) /\ NamesArea(images)
      BY <3>1, ShortPaths, LongerPath
    <3>3. NamesArea(container) /\ NamesArea(pull)
      BY <2>1, <3>1, <3>2, LongerPath
    <3>4. \A verb \in verbs \cup {"logs"} : NamesArea(on(verb))
      BY <2>1, <3>1, <3>2, LongerByTwo
    <3>5. \/ c \in {Call("GET", path, "direct") : path \in {containers, container, on("logs"), images}}
          \/ c \in {Call("POST", on(verb), "direct") : verb \in verbs}
          \/ c \in {Call("DELETE", container, "direct"), Call("POST", pull, "direct")}
      BY <2>4 DEF DockerCalls
    <3> HIDE DEF containers, images, container, pull, on
    <3> QED
      BY <1>0, <3>2, <3>3, <3>4, <3>5
  <2>5. CASE c \in ComposeCalls(a)
    <3> DEFINE compose == Append(Docker, "compose")
               list(project) == Append(compose, project)
               on(verb) == compose \o <<a, verb>>
               verbs == {"up", "down", "pull", "restart", "build"}
    <3>1. {"compose", "projects"} \cup verbs \subseteq Rest
      BY DEF Rest, Fixed
    <3>2. NamesArea(compose)
      BY <3>1, ShortPaths, LongerPath
    <3>3. \A project \in {"projects", a} : NamesArea(list(project))
      BY <2>1, <3>1, <3>2, LongerPath
    <3>4. \A verb \in verbs : NamesArea(on(verb))
      BY <2>1, <3>1, <3>2, LongerByTwo
    <3>5. \/ c \in {Call("GET", list(project), "direct") : project \in {"projects", a}}
          \/ c \in {Call("POST", on(verb), "direct") : verb \in verbs}
      BY <2>5 DEF ComposeCalls
    <3> HIDE DEF compose, list, on
    <3> QED
      BY <1>0, <3>3, <3>4, <3>5
  <2>6. CASE c \in SystemdCalls(a)
    <3> DEFINE units == Append(Systemd, "units")
               unit == Append(units, a)
               journal == Append(Systemd, "journal")
               on(verb) == units \o <<a, verb>>
               verbs == {"start", "stop", "restart", "reload", "enable", "disable"}
    <3>1. {"units", "file", "journal"} \cup verbs \subseteq Rest
      BY DEF Rest, Fixed
    <3>2. NamesArea(units) /\ NamesArea(journal)
      BY <3>1, ShortPaths, LongerPath
    <3>3. NamesArea(unit)
      BY <2>1, <3>2, LongerPath
    <3>4. \A verb \in verbs \cup {"file", "journal"} : NamesArea(on(verb))
      BY <2>1, <3>1, <3>2, LongerByTwo
    <3>5. \/ c \in {Call("GET", path, "direct") :
                     path \in {units, unit, on("file"), on("journal"), journal}}
          \/ c \in {Call("POST", on(verb), "direct") : verb \in verbs}
      BY <2>6 DEF SystemdCalls
    <3> HIDE DEF units, unit, journal, on
    <3> QED
      BY <1>0, <3>2, <3>3, <3>4, <3>5
  <2>7. CASE c = ExecJob(a)
    <3>1. c.path = <<"exec", "jobs", a>>
      BY <2>7 DEF ExecJob, Call
    <3>2. c.path = Append(<<"exec", "jobs">>, a)
      BY <3>1
    <3> QED
      BY <2>1, <3>2, ShortPaths, LongerPath
  <2> QED
    BY <1>7, <2>2, <2>3, <2>4, <2>5, <2>6, <2>7 DEF CallsOn
<1> QED
  BY <1>1, <1>2, <1>3, <1>4, <1>5, <1>6, <1>7 DEF Calls

(* Where no name can be taken for an area, the words found are the area's.  *)
LEMMA FoundIsArea ==
  ASSUME NEW path, NamesArea(path), Unambiguous(path)
  PROVE  /\ \A word \in Words : Contains(path, word) <=> Area(path) = word
         /\ ContainsExec(path) <=> Area(path) = "exec"
<1> DEFINE k == AreaAt(path)
<1>1. /\ path \in Seq(Segments) /\ k \in 1 .. Len(path) /\ path[k] \in Areas
      /\ path[k] = "exec" => k < Len(path)
      /\ \A i \in 1 .. Len(path) : i > k => path[i] \in Rest
      /\ \A i \in 1 .. Len(path) : i < k => path[i] = "integrations"
      /\ DOMAIN path = 1 .. Len(path) /\ Len(path) \in Nat
  BY DEF NamesArea, AreaAt
<1>2. Area(path) = path[k]
  BY DEF Area, AreaAt
<1> HIDE DEF k
<1>3. ASSUME NEW i \in 1 .. Len(path), i # k
      PROVE  path[i] \notin Words /\ path[i] # "exec"
  <2>1. CASE i > k
    BY <1>1, <2>1, RestIsNoWord
  <2>2. CASE i < k
    BY <1>1, <2>2, RestIsNoWord
  <2> QED
    BY <1>1, <1>3, <2>1, <2>2
<1>4. \A i \in 1 .. Len(path) : \A word \in Words : ~NameStarts(path[i], word)
  BY <1>1 DEF Unambiguous
<1>5. ASSUME NEW word \in Words PROVE Contains(path, word) <=> Area(path) = word
  BY <1>1, <1>2, <1>3, <1>4 DEF Contains
<1>6. ContainsExec(path) <=> Area(path) = "exec"
  <2>1. "exec/" \in Words
    BY DEF Words
  <2>2. \A i \in 1 .. Len(path) - 1 : i \in 1 .. Len(path)
    BY <1>1
  <2>3. ContainsExec(path) => Area(path) = "exec"
    BY <1>2, <1>3, <1>4, <2>1, <2>2 DEF ContainsExec
  <2>4. Area(path) = "exec" => k \in 1 .. Len(path) - 1
    BY <1>1, <1>2
  <2>5. Area(path) = "exec" => ContainsExec(path)
    BY <1>2, <2>4 DEF ContainsExec
  <2> QED
    BY <2>3, <2>5
<1> QED
  BY <1>5, <1>6

(* Then a refusal gets the error of the area.                               *)
LEMMA RefusalNamesArea ==
  ASSUME NEW path, NamesArea(path), Unambiguous(path)
  PROVE  /\ Unavailable(path) = AreaUnavailable(Area(path))
         /\ NotFound(path) = AreaNotFound(Area(path))
<1> DEFINE cases == {i \in DOMAIN UnavailableErrors : Contains(path, UnavailableErrors[i][1])}
           first == CHOOSE i \in cases : \A j \in cases : i <= j
           area == Area(path)
<1>1. \A word \in Words : Contains(path, word) <=> area = word
  BY FoundIsArea
<1>2. area \in Areas
  BY DEF Area, NamesArea, AreaAt
<1>3. /\ UnavailableErrors[1] = <<"docker", "ErrDockerUnavailable">>
      /\ UnavailableErrors[2] = <<"systemd", "ErrSystemdUnavailable">>
      /\ UnavailableErrors[3] = <<"metrics", "ErrMetricsUnavailable">>
      /\ UnavailableErrors[4] = <<"files", "ErrReceiveNotConfigured">>
      /\ UnavailableErrors[5] = <<"receive", "ErrReceiveNotConfigured">>
      /\ UnavailableErrors[6] = <<"vars", "ErrVarScopeNotFound">>
      /\ DOMAIN UnavailableErrors = 1 .. 6
  BY DEF UnavailableErrors
<1>4. /\ 1 \in cases <=> area = "docker"
      /\ 2 \in cases <=> area = "systemd"
      /\ 3 \in cases <=> area = "metrics"
      /\ 4 \in cases <=> area = "files"
      /\ 5 \in cases <=> area = "receive"
      /\ 6 \in cases <=> area = "vars"
      /\ cases \subseteq 1 .. 6
  BY <1>1, <1>3 DEF Words
<1>5. Unavailable(path) = IF cases = {} THEN "unavailable" ELSE UnavailableErrors[first][2]
  BY DEF Unavailable
<1>6. \A i \in 1 .. 6 : i \in {1, 2, 3, 4, 5, 6}
  OBVIOUS
<1> HIDE DEF cases, area
<1>7. ASSUME NEW i \in 1 .. 6, cases = {i} PROVE Unavailable(path) = UnavailableErrors[i][2]
  BY <1>5, <1>7
<1> HIDE DEF first
<1>8. Unavailable(path) = AreaUnavailable(area)
  <2>1. CASE area = "docker"
    <3>1. cases = {1}
      BY <2>1, <1>4, <1>6
    <3> QED
      BY <2>1, <3>1, <1>3, <1>7 DEF AreaUnavailable
  <2>2. CASE area = "systemd"
    <3>1. cases = {2}
      BY <2>2, <1>4, <1>6
    <3> QED
      BY <2>2, <3>1, <1>3, <1>7 DEF AreaUnavailable
  <2>3. CASE area = "metrics"
    <3>1. cases = {3}
      BY <2>3, <1>4, <1>6
    <3> QED
      BY <2>3, <3>1, <1>3, <1>7 DEF AreaUnavailable
  <2>4. CASE area = "files"
    <3>1. cases = {4}
      BY <2>4, <1>4, <1>6
    <3> QED
      BY <2>4, <3>1, <1>3, <1>7 DEF AreaUnavailable
  <2>5. CASE area = "vars"
    <3>1. cases = {6}
      BY <2>5, <1>4, <1>6
    <3> QED
      BY <2>5, <3>1, <1>3, <1>7 DEF AreaUnavailable
  <2>6. CASE area \in {"host", "services", "tools", "exec", "admin"}
    <3>1. cases = {}
      BY <2>6, <1>4, <1>6
    <3> QED
      BY <2>6, <3>1, <1>5 DEF AreaUnavailable
  <2> QED
    BY <1>2, <2>1, <2>2, <2>3, <2>4, <2>5, <2>6 DEF Areas
<1>9. NotFound(path) = AreaNotFound(area)
  <2>1. /\ Contains(path, "tools") <=> area = "tools"
        /\ ContainsExec(path) <=> area = "exec"
    BY FoundIsArea DEF Words, area
  <2> QED
    BY <2>1 DEF NotFound, AreaNotFound
<1> QED
  BY <1>8, <1>9 DEF area

-----------------------------------------------------------------------------
(* The inductive invariant.                                                *)

\* There is a call exactly when its step is not "idle", and nothing is known
\* of the answer before there is one.
CallShape ==
  /\ call = None <=> step = "idle"
  /\ step \in {"idle", "sent"} => status = 0
  /\ step = "answered" => status \in Statuses

\* What a call returns.
CallResult ==
  step = "returned" =>
    /\ err \in Errors \cup {"nil"}
    /\ err = "nil" /\ call.returns \notin {"flag", "text"} =>
         /\ status = 200
         /\ call.returns # "nothing" => value \in {"whole", "blank"}
    /\ call.returns # "flag" =>
         \/ err \in {"transport", "context"}
         \/ status = 200 /\ err \in {"nil", "decode"}
         \/ status >= 400 /\ err = MapAPIError(status, call.path)

\* The status of the job, and the one it ended with.
JobShape ==
  /\ job \in Final => ended = job
  /\ job \notin Final => ended = "none"

\* ExecWait makes no call but its polls, and while it runs a job that the node
\* has forgotten does not come back.
WaitShape ==
  /\ waiting \in {"select", "returned"} => step = "idle"
  /\ waiting = "polling" => call = Poll
  /\ waiting = "off" => polled = "none" /\ outcome = "none"
  /\ polled \in Final => job = polled \/ job = "none"
  /\ waiting = "returned" =>
       outcome \in Errors \/ (outcome = polled /\ polled \in Final)

IInv ==
  /\ TypeOK
  /\ CallShape
  /\ CallResult
  /\ JobShape
  /\ WaitShape

-----------------------------------------------------------------------------
(* The invariant holds initially and is preserved by every action.          *)

(* The poll is one of the calls, and changes nothing.                       *)
LEMMA PollIsCall == Poll \in Calls /\ Poll # None /\ Poll.method = "GET" /\ ~StartsJob(Poll)
<1>1. Poll \in CallsOn(JobId, JobId)
  BY DEF Poll, CallsOn
<1>2. Poll \in Calls
  BY <1>1, JobWaitAssumption DEF Calls
<1>3. Poll.method = "GET"
  BY DEF Poll, ExecJob, Call
<1> QED
  BY <1>2, <1>3, NodeCallsAssumption DEF StartsJob

LEMMA InitIInv == Init => IInv
<1> SUFFICES ASSUME Init PROVE IInv
  OBVIOUS
<1> USE NodeCallsAssumption DEF Init, CallsInit
<1>1. TypeOK
  <2>1. call \in Calls \cup {None}
    OBVIOUS
  <2>3. ctxDone \in BOOLEAN /\ tick \in BOOLEAN
    OBVIOUS
  <2>4. /\ status \in Statuses \cup {0}
        /\ step \in {"idle", "sent", "answered", "returned"}
        /\ value \in {"zero", "whole", "part", "blank"}
        /\ err \in Errors \cup {"nil"}
    OBVIOUS
  <2> QED
    BY <2>1, <2>3, <2>4 DEF TypeOK, CallsTypeOK, Final
<1>2. CallShape /\ CallResult /\ JobShape /\ WaitShape
  BY DEF CallShape, CallResult, JobShape, WaitShape, Final
<1> QED
  BY <1>1, <1>2 DEF IInv

(* Sending a request: nothing has been answered yet.                        *)
LEMMA SendKeeps ==
  ASSUME IInv, NEW c \in Calls, Send(c), UNCHANGED jobVars
  PROVE  CallsTypeOK' /\ CallShape' /\ CallResult' /\ JobShape'
<1> USE NodeCallsAssumption DEF IInv, Send, result, jobVars
<1>2. CallsTypeOK'
  BY DEF TypeOK, CallsTypeOK
<1>3. CallShape' /\ CallResult' /\ JobShape'
  BY DEF CallShape, CallResult, JobShape, TypeOK, CallsTypeOK
<1> QED
  BY <1>2, <1>3

(* A step of the client that sends nothing and reads no status of the job.  *)
LEMMA ClientIInv == IInv /\ Client => IInv'
<1> SUFFICES ASSUME IInv, Client PROVE IInv'
  OBVIOUS
<1> USE DEF IInv, Client, jobVars, waitVars
<1>1. /\ step' = "returned" /\ step \in {"sent", "answered"}
      /\ UNCHANGED <<call, ctxDone, status, job, ended, waiting, tick, polled, outcome>>
  BY DEF ClientStep, TransportFails, Refused, ReadBody, Return
<1>3. /\ err' \in Errors \cup {"nil"}
      /\ value' \in {"zero", "whole", "part", "blank"}
      /\ err' = "nil" /\ call.returns \notin {"flag", "text"} =>
           /\ status = 200
           /\ call.returns # "nothing" => value' \in {"whole", "blank"}
      /\ call.returns # "flag" =>
           \/ err' \in {"transport", "context"}
           \/ status = 200 /\ err' \in {"nil", "decode"}
           \/ status >= 400 /\ err' = MapAPIError(status, call.path)
  <2>1. CASE TransportFails
    BY <2>1 DEF TransportFails, Return, Errors
  <2>2. CASE Refused
    <3>1. MapAPIError(status, call.path) \in Refusals
      BY RefusalIsError
    <3> QED
      BY <2>2, <3>1 DEF Refused, Return, Errors, Refusals
  <2>3. CASE ReadBody
    <3>1. status = 200
      BY <2>3 DEF ReadBody, CallShape, Statuses
    <3> QED
      BY <2>3, <3>1 DEF ReadBody, Return, Decoded, Errors
  <2> QED
    BY <2>1, <2>2, <2>3 DEF ClientStep
<1>5. TypeOK'
  BY <1>1, <1>3 DEF TypeOK, CallsTypeOK
<1>6. CallShape'
  BY <1>1 DEF CallShape
<1>7. CallResult'
  BY <1>1, <1>3 DEF CallResult, CallShape, Statuses
<1>8. JobShape' /\ WaitShape'
  BY <1>1 DEF JobShape, WaitShape
<1> QED
  BY <1>5, <1>6, <1>7, <1>8

(* Every step of the specification preserves the invariant.                 *)
LEMMA NextIInv == IInv /\ [Next]_vars => IInv'
<1> SUFFICES ASSUME IInv, [Next]_vars PROVE IInv'
  OBVIOUS
<1> USE NodeCallsAssumption, PollIsCall
    DEF IInv, TypeOK, CallsTypeOK, callVars, result, jobVars, waitVars
<1>1. CASE NodeAnswers
  <2>1. PICK s \in Statuses :
          /\ Answer(s)
          /\ polled' = IF waiting = "polling" THEN job ELSE polled
          /\ job' = IF s = 200 /\ StartsJob(call) /\ job = "none" THEN "accepted" ELSE job
          /\ UNCHANGED <<ended, waiting, tick, outcome>>
    BY <1>1 DEF NodeAnswers
  <2> USE <2>1 DEF Answer
  <2>2. TypeOK' /\ CallShape' /\ CallResult'
    BY DEF Final, CallShape, CallResult, Statuses
  <2>3. job' # job => waiting = "off" /\ job = "none" /\ job' = "accepted"
    BY DEF WaitShape
  <2>4. JobShape'
    BY <2>3 DEF JobShape, Final
  <2>5. WaitShape'
    BY <2>3 DEF WaitShape, JobShape, Final
  <2> QED
    BY <2>2, <2>4, <2>5
<1>2. CASE JobRuns
  <2> USE <1>2 DEF JobRuns
  <2>1. TypeOK' /\ JobShape'
    BY DEF JobShape, Final
  <2>2. CallShape' /\ CallResult'
    BY DEF CallShape, CallResult
  <2>3. WaitShape'
    BY DEF WaitShape, JobShape, Final
  <2> QED
    BY <2>1, <2>2, <2>3
<1>3. CASE NodeForgets
  BY <1>3 DEF NodeForgets, CallShape, CallResult, JobShape, WaitShape, Final
<1>4. CASE Begin
  <2>1. PICK c \in Calls : Send(c)
    BY <1>4 DEF Begin
  <2>2. CallsTypeOK' /\ CallShape' /\ CallResult' /\ JobShape'
    BY <1>4, <2>1, SendKeeps DEF Begin
  <2>3. TypeOK' /\ WaitShape'
    BY <1>4, <2>1, <2>2 DEF Begin, WaitShape, Send
  <2> QED
    BY <2>2, <2>3
<1>5. CASE PollJob
  <2>1. CallsTypeOK' /\ CallShape' /\ CallResult' /\ JobShape'
    BY <1>5, SendKeeps DEF PollJob
  <2>2. TypeOK' /\ WaitShape'
    BY <1>5, <2>1 DEF PollJob, WaitShape, Send
  <2> QED
    BY <2>1, <2>2
<1>6. CASE EndCall
  <2> USE <1>6 DEF EndCall, GoOn
  <2>1. TypeOK'
    <3>1. call' \in Calls \cup {None}
      OBVIOUS
    <3>2. CallsTypeOK'
      BY <3>1
    <3> QED
      BY <3>2
  <2>2. CallShape' /\ CallResult'
    BY DEF CallShape, CallResult
  <2>3. JobShape' /\ WaitShape'
    BY DEF JobShape, WaitShape
  <2> QED
    BY <2>1, <2>2, <2>3
<1>7. CASE Client
  BY <1>7, ClientIInv
<1>8. CASE Cancel /\ UNCHANGED <<jobVars, waitVars>>
  <2>1. ctxDone' = TRUE /\ UNCHANGED <<call, step, status, value, err>>
    BY <1>8 DEF Cancel
  <2>2. TypeOK' /\ CallShape' /\ CallResult'
    BY <1>8, <2>1 DEF CallShape, CallResult
  <2>3. JobShape' /\ WaitShape'
    BY <1>8, <2>1 DEF JobShape, WaitShape
  <2> QED
    BY <2>2, <2>3
<1>9. CASE ExecWait \/ Tick \/ CancelWait \/ WaitCancelled \/ WaitOver
  <2> USE <1>9 DEF ExecWait, Tick, CancelWait, WaitCancelled, WaitOver
  <2>1. UNCHANGED <<call, step, status, result, job, ended>>
    OBVIOUS
  <2>2. TypeOK'
    <3>1. CallsTypeOK'
      BY <2>1
    <3>2. /\ waiting' \in {"off", "select", "polling", "returned"}
          /\ tick' \in BOOLEAN
          /\ polled' \in {polled, "none"}
          /\ outcome' \in {outcome, "none", "context"}
      OBVIOUS
    <3> QED
      BY <2>1, <3>1, <3>2 DEF Errors
  <2>3. CallShape' /\ CallResult' /\ JobShape'
    BY <2>1 DEF CallShape, CallResult, JobShape
  <2>4. WaitShape'
    BY <2>1 DEF WaitShape, Errors, Final
  <2> QED
    BY <2>2, <2>3, <2>4
<1>10. CASE Polled
  <2> USE <1>10 DEF Polled, GoOn
  <2>1. err \in Errors \cup {"nil"}
    BY DEF CallResult
  <2>3. TypeOK'
    BY <2>1
  <2>4. CallShape' /\ CallResult' /\ JobShape'
    BY DEF CallShape, CallResult, JobShape
  <2>5. WaitShape'
    BY <2>1 DEF WaitShape
  <2> QED
    BY <2>3, <2>4, <2>5
<1>11. CASE UNCHANGED vars
  BY <1>11 DEF vars, CallShape, CallResult, JobShape, WaitShape
<1> QED
  BY <1>1, <1>2, <1>3, <1>4, <1>5, <1>6, <1>7, <1>8, <1>9, <1>10, <1>11 DEF Next, Waiter

LEMMA Invariance == Spec => []IInv
BY InitIInv, NextIInv, PTL DEF Spec

-----------------------------------------------------------------------------
(* The theorems.                                                            *)

(* Every variable of the calls and of ExecWait has its type.                *)
THEOREM TypeCorrect == Spec => []TypeOK
<1>1. IInv => TypeOK
  BY DEF IInv
<1> QED
  BY <1>1, Invariance, PTL

(* A call that returns no error was answered with a success and returns     *)
(* what was decoded of a complete answer, wherever the transport, the       *)
(* context or the body gives way: every refusal becomes some error, and an  *)
(* early end leaves no value.                                               *)
THEOREM NoErrorIsWhole == Spec => []NoErrorMeansWhole
<1>1. IInv => NoErrorMeansWhole
  BY DEF IInv, CallResult, NoErrorMeansWhole
<1> QED
  BY <1>1, Invariance, PTL

(* What a call says went wrong is what did: a refusal has the error of      *)
(* docs/errors.md for what the call is about, wherever in its path the area *)
(* stands and whatever the caller's names are, as long as none begins like  *)
(* a word mapAPIError looks for, and nothing else has one of these errors.  *)
THEOREM SentinelsNameTheArea == Spec => []SentinelNamesArea
<1>1. IInv => SentinelNamesArea
  <2> SUFFICES ASSUME IInv, call # None, Unambiguous(call.path), step = "returned",
                      call.returns # "flag"
               PROVE  \/ err \in {"transport", "context"}
                      \/ status = 200 /\ err \in {"nil", "decode"}
                      \/ status >= 400 /\ err = AreaRefusal(status, Area(call.path))
    BY DEF SentinelNamesArea, RefusalNamed
  <2>1. \/ err \in {"transport", "context"}
        \/ status = 200 /\ err \in {"nil", "decode"}
        \/ status >= 400 /\ err = MapAPIError(status, call.path)
    BY DEF IInv, CallResult
  <2>2. NamesArea(call.path)
    BY CallsNameTheirArea DEF IInv, TypeOK, CallsTypeOK
  <2>3. /\ Unavailable(call.path) = AreaUnavailable(Area(call.path))
        /\ NotFound(call.path) = AreaNotFound(Area(call.path))
    BY <2>2, RefusalNamesArea
  <2>4. MapAPIError(status, call.path) = AreaRefusal(status, Area(call.path))
    BY <2>3 DEF MapAPIError, AreaRefusal
  <2> QED
    BY <2>1, <2>4
<1> QED
  BY <1>1, Invariance, PTL

(* A status that ExecWait returns without an error is the one the job ended *)
(* with, unless the node has forgotten the job since: between the poll that *)
(* saw it and the return nothing can replace the job.                       *)
THEOREM WaitReturnsTheEnd == Spec => []WaitIsTruthful
<1>1. IInv => WaitIsTruthful
  BY DEF IInv, TypeOK, WaitShape, JobShape, WaitIsTruthful, Errors, Refusals, Final
<1> QED
  BY <1>1, Invariance, PTL
=============================================================================
