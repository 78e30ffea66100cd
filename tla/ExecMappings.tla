---------------------------- MODULE ExecMappings ----------------------------
(***************************************************************************)
(* The mapping phase of exec (exec_windows.go:174-243): the passes that    *)
(* install the silo's bind links one after another, the record of virtual  *)
(* roots they share (`mapped`), and what the Bind Filter has (`view`).     *)
(*                                                                         *)
(* A path here is what filepath.Clean and strings.ToLower make of it, so   *)
(* two paths are equal exactly when the code's record says so.  The filter *)
(* knows a virtual root by the directory it resolves to.  Each pass reads  *)
(* its own environment when it begins: the variables, the directories and  *)
(* git's answer are chosen there.                                          *)
(***************************************************************************)
EXTENDS Naturals, Sequences, FiniteSets

CONSTANTS
  Paths,         \* the paths the environment and the command line can name
  Drives,        \* the drive roots among them
  Resolve,       \* where a path leads when symbolic links are followed
  LinkPaths,     \* the paths that are directory symbolic links
  AliasPaths,    \* the paths that are app execution aliases
  WindowsApps,   \* %LOCALAPPDATA%\Microsoft\WindowsApps
  Asked,         \* bound: the passes the flags may turn on
  MaxItems       \* bound: requests of one pass

ASSUME PathsAssumption ==
  /\ Drives \subseteq Paths /\ IsFiniteSet(Drives)
  /\ AliasPaths \subseteq Paths /\ WindowsApps \in Paths
  /\ Resolve \in [Paths -> Paths]
  /\ \A p \in Paths : Resolve[Resolve[p]] = Resolve[p]
  /\ \A d \in Drives : Resolve[d] = d
  /\ LinkPaths \subseteq {p \in Paths : Resolve[p] # p}
  /\ \A p \in LinkPaths : Resolve[p] \notin AliasPaths

ASSUME MaxItemsAssumption == MaxItems \in Nat

\* Fault: TEMP and TMP are mapped after PATH.
PassesTempLate == <<"root", "readonly", "path", "temp", "cwd", "gitroot", "appstate",
                    "appexec", "executable", "powershell", "link">>

\* The passes in the order of cmdExecInner.
Passes == <<"root", "readonly", "temp", "path", "cwd", "gitroot", "appstate",
            "appexec", "executable", "powershell", "link">>

PassNames == {Passes[i] : i \in DOMAIN Passes}

\* What a mapping leads to: the --root backing tree, the host's own directory,
\* the silo's temporary directory, or what a --link names.
Targets == {"backing", "host", "temp", "user"}

\* An alias found in WindowsApps asks for its package and then its state folder.
Kinds == (PassNames \ {"appexec"}) \cup {"aliases", "package", "state"}
Item  == [kind : Kinds, root : Paths]

VARIABLES
  enabled,  \* the passes the flags ask for
  pass,     \* index of the current pass in Passes
  begun,    \* the current pass has read its environment
  todo,     \* its requests still to be made
  mapped,   \* the code's record: roots that must not be mapped again
  view,     \* the filter's mappings of the silo: resolved root -> target
  staged,   \* directory links created in the --root backing tree
  temps,    \* %TEMP% and %TMP% as the temp pass read them
  outcome   \* "mapping", "launch", or how exec ended before launching

vars == <<enabled, pass, begun, todo, mapped, view, staged, temps, outcome>>

\* --root excludes --readonly-root; the powershell flag turns on both the temp
\* pass and the powershell pass; links are always looked at.
Flags == {f \in SUBSET (PassNames \cap (Asked \cup {"link"})) :
            /\ ~({"root", "readonly"} \subseteq f)
            /\ "temp" \in f <=> "powershell" \in f
            /\ "link" \in f}

Init == /\ enabled \in Flags
        /\ pass = 1
        /\ begun = FALSE
        /\ todo = <<>>
        /\ mapped = {}
        /\ view = [p \in {} |-> "host"]
        /\ staged = {}
        /\ temps = {}
        /\ outcome = "mapping"

-----------------------------------------------------------------------------
(* What a pass asks for.                                                   *)

Lists(n) == UNION {[1..k -> Paths] : k \in 0..n}
Distinct(s) == \A i, j \in DOMAIN s : s[i] = s[j] => i = j
Ask(kind, root) == [kind |-> kind, root |-> root]
Asks(kind, s)   == [i \in DOMAIN s |-> Ask(kind, s[i])]
Aliases         == Ask("aliases", WindowsApps)

\* Every drive, once.
AllDrives == {s \in [1..Cardinality(Drives) -> Drives] : Distinct(s)}
DriveRequests(name) == {Asks(name, s) : s \in AllDrives}

\* TEMP and TMP, the PATH entries and the application-state variables are freed of
\* repetitions by the `seen` map of their pass; the two PowerShell paths differ by
\* construction.
DistinctRequests(name) == {Asks(name, s) : s \in {t \in Lists(MaxItems) : Distinct(t)}}

\* The working directory, or the directory of the executable.
OneRequest(name) == {Asks(name, <<p>>) : p \in Paths}

\* git names a directory, or there is none.
GitRootRequests == {Asks("gitroot", s) : s \in Lists(1)}

\* WindowsApps, unless it cannot be read, and (as a bound) at most one alias in it,
\* whose package may have a state folder.
AppExecRequests ==
  {<<>>, <<Aliases>>}
    \cup {<<Aliases, Ask("package", p)>> : p \in Paths}
    \cup {<<Aliases, Ask("package", pq[1]), Ask("state", pq[2])>> : pq \in Paths \X Paths}

\* Links may repeat.
LinkRequests == {Asks("link", s) : s \in Lists(MaxItems)}

Requests(name) ==
  CASE name \in {"root", "readonly"} -> DriveRequests(name)
    [] name \in {"temp", "path", "appstate", "powershell"} -> DistinctRequests(name)
    [] name \in {"cwd", "executable"} -> OneRequest(name)
    [] name = "gitroot" -> GitRootRequests
    [] name = "appexec" -> AppExecRequests
    [] name = "link" -> LinkRequests

\* The current pass.
Name == Passes[pass]

BeginPass ==
  /\ outcome = "mapping" /\ ~begun
  /\ Name \in enabled
  /\ \E asked \in Requests(Name) :
        /\ todo' = asked
        /\ temps' = IF Name = "temp" THEN {asked[i].root : i \in DOMAIN asked} ELSE temps
  /\ begun' = TRUE
  /\ UNCHANGED <<enabled, pass, mapped, view, staged, outcome>>

\* Enumerating the drives, preparing a directory or reading the working
\* directory fails.
PassFails ==
  /\ outcome = "mapping" /\ ~begun
  /\ Name \in enabled \cap {"root", "readonly", "temp", "cwd", "gitroot"}
  /\ outcome' = "failed"
  /\ UNCHANGED <<enabled, pass, begun, todo, mapped, view, staged, temps>>

\* Nothing left to ask for, or a pass that is not enabled; after the last pass
\* the command is launched.
EndPass ==
  /\ outcome = "mapping"
  /\ IF begun THEN todo = <<>> ELSE Name \notin enabled
  /\ IF pass = Len(Passes)
       THEN outcome' = "launch" /\ UNCHANGED <<pass, begun>>
       ELSE pass' = pass + 1 /\ begun' = FALSE /\ UNCHANGED outcome
  /\ UNCHANGED <<enabled, todo, mapped, view, staged, temps>>

-----------------------------------------------------------------------------
(* One request.                                                            *)

Next1 == Head(todo)

Asking(kinds) == outcome = "mapping" /\ begun /\ todo # <<>> /\ Next1.kind \in kinds

\* The filter refuses a second mapping of a directory (BindFilterAPI.md:1455).
Taken(root)  == Resolve[root] \in DOMAIN view
With(root, target) ==
  [p \in DOMAIN view \cup {Resolve[root]} |-> IF p = Resolve[root] THEN target ELSE view[p]]

TargetOf(kind) == CASE kind = "root" -> "backing"
                    [] kind = "temp" -> "temp"
                    [] kind = "link" -> "user"
                    [] OTHER         -> "host"

\* The failure of a package or state mapping is reported at most; a package
\* that fails takes its state folder with it.
BestEffort == {"package", "state"}
StateNext  == Len(todo) > 1 /\ todo[2].kind = "state"
AfterError == IF Next1.kind = "package" /\ StateNext THEN Tail(Tail(todo)) ELSE Tail(todo)

\* createPassthroughMappingTo gives up without an error on a drive root; the
\* root passes and user links may name one.
Unmappable(item) == item.kind \notin {"root", "readonly", "link"} /\ item.root \in Drives

\* The root is in the record already, or cannot be mapped: no call, no change.
Skip ==
  /\ Asking(Kinds)
  /\ Unmappable(Next1) \/ Next1.root \in mapped
  /\ ~(Next1.kind = "path" /\ "root" \in enabled /\ Next1.root \in LinkPaths)
  /\ todo' = Tail(todo)
  /\ UNCHANGED <<enabled, pass, begun, mapped, view, staged, temps, outcome>>

\* A PATH entry that is no directory, a package without a state folder, a
\* PowerShell file that does not exist.
SkipAbsent ==
  /\ Asking({"path", "state", "powershell"})
  /\ todo' = Tail(todo)
  /\ UNCHANGED <<enabled, pass, begun, mapped, view, staged, temps, outcome>>

\* A user link rooted at an app execution alias is recorded and not mapped.
SkipAlias ==
  /\ Asking({"link"})
  /\ Next1.root \in AliasPaths \ mapped
  /\ mapped' = mapped \cup {Next1.root}
  /\ todo' = Tail(todo)
  /\ UNCHANGED <<enabled, pass, begun, view, staged, temps, outcome>>

\* Requests that reach the filter.
Calls == /\ Asking(Kinds)
         /\ ~Unmappable(Next1)
         /\ Next1.root \notin mapped
         /\ ~(Next1.kind = "link" /\ Next1.root \in AliasPaths)
         /\ ~(Next1.kind = "path" /\ "root" \in enabled /\ Next1.root \in LinkPaths)

\* Fault: two of the passes keep what they mapped to themselves.
MapUnrecorded ==
  /\ Calls
  /\ ~Taken(Next1.root)
  /\ view' = With(Next1.root, TargetOf(Next1.kind))
  /\ mapped' = IF Next1.kind \in {"appstate", "link"} THEN mapped ELSE mapped \cup {Next1.root}
  /\ todo' = Tail(todo)
  /\ UNCHANGED <<enabled, pass, begun, staged, temps, outcome>>

\* CreateSilo succeeds, at the first call or at its retry as a file.
Map ==
  /\ Calls
  /\ ~Taken(Next1.root)
  /\ view' = With(Next1.root, TargetOf(Next1.kind))
  /\ mapped' = mapped \cup {Next1.root}
  /\ todo' = Tail(todo)
  /\ UNCHANGED <<enabled, pass, begun, staged, temps, outcome>>

\* Fault: the root is recorded before the filter is asked.
MapFailsRecording ==
  /\ Calls
  /\ IF Next1.kind \in BestEffort
       THEN todo' = AfterError /\ mapped' = mapped \cup {Next1.root} /\ UNCHANGED outcome
       ELSE /\ outcome' = IF Taken(Next1.root) THEN "collision" ELSE "failed"
            /\ UNCHANGED <<todo, mapped>>
  /\ UNCHANGED <<enabled, pass, begun, view, staged, temps>>

\* The filter refuses the root: as a duplicate, or for a reason of its own.
MapFails ==
  /\ Calls
  /\ IF Next1.kind \in BestEffort
       THEN todo' = AfterError /\ UNCHANGED outcome
       ELSE /\ outcome' = IF Taken(Next1.root) THEN "collision" ELSE "failed"
            /\ UNCHANGED todo
  /\ UNCHANGED <<enabled, pass, begun, mapped, view, staged, temps>>

\* Under --root a PATH entry that is a directory link is recreated in the
\* backing tree, and the directory it leads to is passed through instead.
StagesLink == /\ Asking({"path"})
              /\ "root" \in enabled
              /\ Next1.root \in LinkPaths

\* Fault: the link is recreated and its target is not passed through.
StageLinkAlone ==
  /\ StagesLink
  /\ mapped' = mapped \cup {Next1.root}
  /\ staged' = staged \cup {Next1.root}
  /\ todo' = Tail(todo)
  /\ UNCHANGED <<enabled, pass, begun, view, temps, outcome>>

StageLink ==
  /\ StagesLink
  /\ LET to == Resolve[Next1.root]
     IN  /\ \/ /\ to \in Drives \cup mapped
               /\ UNCHANGED view
               /\ mapped' = mapped \cup {Next1.root}
            \/ /\ to \notin Drives \cup mapped
               /\ ~Taken(to)
               /\ view' = With(to, "host")
               /\ mapped' = mapped \cup {to, Next1.root}
  /\ staged' = staged \cup {Next1.root}
  /\ todo' = Tail(todo)
  /\ UNCHANGED <<enabled, pass, begun, temps, outcome>>

\* Inspecting a PATH entry fails, or reading or creating the link, or the mapping
\* of its target; then the link stays in the backing tree.
StageLinkFails ==
  /\ Asking({"path"}) /\ "root" \in enabled
  /\ \/ outcome' = "failed" /\ UNCHANGED staged
     \/ /\ StagesLink
        /\ Resolve[Next1.root] \notin Drives \cup mapped
        /\ outcome' = IF Taken(Resolve[Next1.root]) THEN "collision" ELSE "failed"
        /\ staged' = staged \cup {Next1.root}
  /\ UNCHANGED <<enabled, pass, begun, todo, mapped, view, temps>>

Next == \/ BeginPass \/ PassFails \/ EndPass
        \/ Skip \/ SkipAbsent \/ SkipAlias
        \/ Map \/ MapFails
        \/ StageLink \/ StageLinkFails

Spec == Init /\ [][Next]_vars

-----------------------------------------------------------------------------
(* Properties.                                                             *)

\* Every variable has its type.
TypeOK ==
  /\ enabled \in SUBSET PassNames
  /\ pass \in DOMAIN Passes
  /\ begun \in BOOLEAN
  /\ todo \in Seq(Item)
  /\ mapped \in SUBSET Paths
  /\ DOMAIN view \in SUBSET Paths
  /\ \A p \in DOMAIN view : view[p] \in Targets
  /\ staged \in SUBSET LinkPaths
  /\ temps \in SUBSET Paths
  /\ outcome \in {"mapping", "launch", "failed", "collision"}

\* The filter has a mapping where p leads to.
Served(p) == Resolve[p] \in DOMAIN view

\* A pass skips a root the record holds without asking the filter, and a user
\* link without an error: what the record holds is really served, or is an alias
\* that no link may be anchored on.  A best-effort mapping that failed, above
\* all, is not recorded.
RecordIsHonest == \A p \in mapped \ AliasPaths : Served(p)

\* "so a coincidental TEMP entry in PATH cannot retain a host-backed mapping"
\* (exec_windows.go:526): a command that is launched with the PowerShell
\* passthrough has every temporary directory in the silo's own, whatever PATH,
\* the other passes and the links name, and under whichever spelling.
TempShielded ==
  outcome = "launch" /\ "temp" \in enabled =>
     \A t \in temps \ Drives : /\ Resolve[t] \in DOMAIN view
                               /\ view[Resolve[t]] = "temp"

\* The root the current request asks the filter for.
Wanted == IF Next1.kind = "path" /\ "root" \in enabled /\ Next1.root \in LinkPaths
            THEN Resolve[Next1.root] ELSE Next1.root

\* The record keeps exec from asking for a root twice: the filter's duplicate
\* error ends exec only when two different spellings of one directory were
\* named, which the record cannot see.
CollisionNeedsTwoSpellings ==
  outcome = "collision" =>
     \E p \in mapped : p # Wanted /\ Resolve[p] = Resolve[Wanted]

\* What p leads to is the host's own directory, or the silo's in the place of a
\* temporary one; elsewhere on the drives there is the empty backing tree.
LeadsOut(p) == Served(p) /\ view[Resolve[p]] \in {"host", "temp"}

\* A directory link recreated in the backing tree leads, in the silo, to what
\* it leads to on the host, whatever was mapped before it or failed; the only
\* links that lead into the empty tree are those to a drive root, for which
\* createPassthroughMapping has nothing to map (exec_windows.go:294-296).
LinksResolve ==
  outcome = "launch" => \A p \in staged : LeadsOut(p) <=> Resolve[p] \notin Drives

=============================================================================
