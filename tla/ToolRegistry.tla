---------------------------- MODULE ToolRegistry ----------------------------
(***************************************************************************)
(* Install and Uninstall (install.go): processes that register tools in    *)
(* one directory, next to a daemon that reads it whenever it likes.  There *)
(* is no lock; what protects the reader is that Install writes a temporary *)
(* file and renames it.  Every system call may fail and a process may be   *)
(* killed between any two of them.                                         *)
(***************************************************************************)
EXTENDS Naturals

CONSTANTS
  Procs,  \* processes that call Install and Uninstall
  Names,  \* the names that match [a-zA-Z0-9_-]+
  Tools,  \* the tools they install
  Size,   \* pieces in which the kernel writes a marshalled tool
  None    \* no file, no call

ASSUME ToolRegistryAssumption ==
  /\ Size \in Nat \ {0}
  /\ \A t \in Tools : DOMAIN t = {"name", "version", "tsnetHost"}
  /\ None \notin Tools
  /\ None \notin [tool : Tools, written : 0 .. Size, mode : {"0600", "0644"}]

VARIABLES
  dest,    \* dest[n]: the file {n}.json
  temp,    \* temp[p]: the temporary file of p's call; one that a killed process or
           \* a failing Remove leaves behind is not looked at by anybody
  pc,      \* pc[p]: the next step of p's call
  op,      \* op[p]: the call's arguments
  result   \* result[p]: what the call returns

vars == <<dest, temp, pc, op, result>>

Files == [tool : Tools, written : 0 .. Size, mode : {"0600", "0644"}]

\* The names a call may be given; those of refused tools match no pattern.
GivenNames == Names \cup {t.name : t \in Tools}

Ops == [put : Tools \cup {None}, name : GivenNames]

Init ==
  /\ dest = [n \in Names |-> None]
  /\ temp = [p \in Procs |-> None]
  /\ pc = [p \in Procs |-> "idle"]
  /\ op = [p \in Procs |-> None]
  /\ result = [p \in Procs |-> "none"]

\* The call of p goes on from one step to another.
GoTo(p, from, to) ==
  /\ pc[p] = from
  /\ pc' = [pc EXCEPT ![p] = to]
  /\ UNCHANGED op

Begin(p) ==
  /\ pc[p] = "idle"
  /\ \/ \E t \in Tools :
          /\ op' = [op EXCEPT ![p] = [put |-> t, name |-> t.name]]
          /\ pc' = [pc EXCEPT ![p] = "validate"]
     \/ \E n \in GivenNames :
          /\ op' = [op EXCEPT ![p] = [put |-> None, name |-> n]]
          /\ pc' = [pc EXCEPT ![p] = "remove"]
  /\ UNCHANGED <<dest, temp, result>>

-----------------------------------------------------------------------------
(* Install.                                                                 *)

ValidTool(t) ==
  /\ t.name \in Names
  /\ t.version # ""
  /\ t.tsnetHost # ""

Validate(p) ==
  /\ GoTo(p, "validate", "mkdir")
  /\ ValidTool(op[p].put)
  /\ UNCHANGED <<dest, temp, result>>

MkdirAll(p) ==
  /\ GoTo(p, "mkdir", "create")
  /\ UNCHANGED <<dest, temp, result>>

\* CreateTemp: a new file, for its owner only, under a name nobody uses.
CreateTemp(p) ==
  /\ GoTo(p, "create", "write")
  /\ temp' = [temp EXCEPT ![p] = [tool |-> op[p].put, written |-> 0, mode |-> "0600"]]
  /\ UNCHANGED <<dest, result>>

\* Mutant: the data is written once more after a short write.
WriteTooMuch(p) ==
  /\ GoTo(p, "write", "write")
  /\ temp[p].written <= Size
  /\ temp' = [temp EXCEPT ![p].written = @ + 1]
  /\ UNCHANGED <<dest, result>>

WriteSome(p) ==
  /\ GoTo(p, "write", "write")
  /\ temp[p].written < Size
  /\ temp' = [temp EXCEPT ![p].written = @ + 1]
  /\ UNCHANGED <<dest, result>>

\* Mutant: a short write counts as a write.
WrittenShort(p) ==
  /\ GoTo(p, "write", "chmod")
  /\ UNCHANGED <<dest, temp, result>>

Written(p) ==
  /\ GoTo(p, "write", "chmod")
  /\ temp[p].written = Size
  /\ UNCHANGED <<dest, temp, result>>

Chmod(p) ==
  /\ GoTo(p, "chmod", "close")
  /\ temp' = [temp EXCEPT ![p].mode = "0644"]
  /\ UNCHANGED <<dest, result>>

Close(p) ==
  /\ GoTo(p, "close", "rename")
  /\ UNCHANGED <<dest, temp, result>>

Rename(p) ==
  /\ GoTo(p, "rename", "cleanup")
  /\ dest' = [dest EXCEPT ![op[p].name] = temp[p]]
  /\ temp' = [temp EXCEPT ![p] = None]
  /\ result' = [result EXCEPT ![p] = "ok"]

\* A step of Install fails; one after CreateTemp still runs the deferred Remove.
InstallFails(p) ==
  /\ \/ \E from \in {"validate", "mkdir", "create"} : GoTo(p, from, "return")
     \/ \E from \in {"write", "chmod", "close", "rename"} : GoTo(p, from, "cleanup")
  /\ result' = [result EXCEPT ![p] = "error"]
  /\ UNCHANGED <<dest, temp>>

\* Mutant: no deferred Remove.
CleanupForgotten(p) ==
  /\ GoTo(p, "cleanup", "return")
  /\ UNCHANGED <<dest, temp, result>>

\* Mutant: the error of the deferred Remove, which finds no file after the
\* rename, is the error of Install.
CleanupReported(p) ==
  /\ GoTo(p, "cleanup", "return")
  /\ temp' = [temp EXCEPT ![p] = None]
  /\ result' = IF temp[p] = None THEN [result EXCEPT ![p] = "error"] ELSE result
  /\ UNCHANGED dest

\* The deferred Remove; its error is ignored.
Cleanup(p) ==
  /\ GoTo(p, "cleanup", "return")
  /\ temp' = [temp EXCEPT ![p] = None]
  /\ UNCHANGED <<dest, result>>

-----------------------------------------------------------------------------
(* Uninstall.                                                               *)

\* The name is valid; a file that does not exist counts as removed.
Remove(p) ==
  /\ GoTo(p, "remove", "return")
  /\ op[p].name \in Names
  /\ dest' = [dest EXCEPT ![op[p].name] = None]
  /\ result' = [result EXCEPT ![p] = "ok"]
  /\ UNCHANGED <<temp>>

\* The name is empty or invalid, or the file cannot be removed.
RemoveFails(p) ==
  /\ GoTo(p, "remove", "return")
  /\ result' = [result EXCEPT ![p] = "error"]
  /\ UNCHANGED <<dest, temp>>

-----------------------------------------------------------------------------

\* The call is over: it returns, or the process is killed.
Over(p) ==
  /\ pc' = [pc EXCEPT ![p] = "idle"]
  /\ op' = [op EXCEPT ![p] = None]
  /\ result' = [result EXCEPT ![p] = "none"]
  /\ temp' = [temp EXCEPT ![p] = None]
  /\ UNCHANGED dest

Return(p) == pc[p] = "return" /\ Over(p)

Killed(p) == pc[p] # "idle" /\ Over(p)

Install(p) ==
  \/ Validate(p) \/ MkdirAll(p) \/ CreateTemp(p) \/ WriteSome(p) \/ Written(p)
  \/ Chmod(p) \/ Close(p) \/ Rename(p) \/ InstallFails(p) \/ Cleanup(p)

Uninstall(p) == Remove(p) \/ RemoveFails(p)

Next ==
  \E p \in Procs :
    Begin(p) \/ Install(p) \/ Uninstall(p) \/ Return(p) \/ Killed(p)

Spec == Init /\ [][Next]_vars

-----------------------------------------------------------------------------

(* Every variable has its type.                                             *)
TypeOK ==
  /\ dest \in [Names -> Files \cup {None}]
  /\ temp \in [Procs -> Files \cup {None}]
  /\ pc \in [Procs -> {"idle", "validate", "mkdir", "create", "write", "chmod",
                       "close", "rename", "cleanup", "remove", "return"}]
  /\ op \in [Procs -> Ops \cup {None}]
  /\ result \in [Procs -> {"none", "ok", "error"}]

(* "The write is atomic": whatever is killed or fails and whoever installs  *)
(* the same tool at the same time, {name}.json is absent, or complete,      *)
(* readable and a tool of that name.                                        *)
NeverPartial ==
  \A n \in Names :
    dest[n] # None =>
      dest[n].written = Size /\ dest[n].mode = "0644" /\ dest[n].tool.name = n

(* The deferred Remove of atomicWrite leaves no temporary file behind when  *)
(* a call returns; only its failure or a kill does.                         *)
TempFilesOwned ==
  \A p \in Procs :
    temp[p] # None => pc[p] \in {"write", "chmod", "close", "rename", "cleanup"}

Stage(p) == IF pc[p] = "idle" THEN "idle"
            ELSE IF result[p] = "none" THEN "pending" ELSE result[p]

Store == INSTANCE ToolStore
           WITH store <- [n \in Names |->
                            IF dest[n] = None THEN None ELSE dest[n].tool],
                stage <- [p \in Procs |-> Stage(p)],
                args <- op

(* Install and Uninstall are atomic: with their system calls interleaved,   *)
(* failing or cut short, they behave like the store.                        *)
ImplementsStore == Store!Spec
=============================================================================
