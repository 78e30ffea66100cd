--------------------------- MODULE MappingCommands ---------------------------
(***************************************************************************)
(* `add`, `remove` and `list` against one another, in the global scope and *)
(* in a silo's: how a target is classified before it is mapped, how an add *)
(* that could not classify it tries again as a file, and how list turns    *)
(* the device paths of the filter's answer into paths with drive letters.  *)
(*                                                                         *)
(* A location is a name on a device; a path is a name on a drive letter.   *)
(* The scope of a command is open while it runs (siloScope.open), the      *)
(* search for it is in SiloNames, the query's buffer in MappingQuery.      *)
(***************************************************************************)
EXTENDS Naturals

CONSTANTS
  Commands,    \* invocations of add, remove and list
  Choices,     \* what an invocation may be asked to do
  Devices,
  Names,       \* of directories and files, relative to a device or a drive
  Letters,     \* drive letters, numbers in the order of the alphabet
  NoDevice,    \* a letter without a device
  Worlds,      \* choices of what is where, what Stat is denied, and of the drives
  MaxChanges   \* bound: changes of kinds, access and letters by others

ASSUME LettersAssumption ==
  /\ Letters \subseteq Nat
  /\ \A S \in SUBSET Letters : S # {} => \E d \in S : \A x \in S : d <= x
ASSUME DevicesAssumption == NoDevice \notin Devices

Locations == Devices \X Names
Paths     == Letters \X Names
Scopes    == {"global", "silo"}
Flags     == {"read_only", "merged", "current_silo", "no_multiple_targets",
              "reparse_on_files"}

Requests == [op : {"add"}, scope : Scopes, root : Paths, target : Paths,
             opts : SUBSET {"read_only", "merged"}]
              \cup [op : {"remove"}, scope : Scopes, root : Paths]
              \cup [op : {"list"}, scope : Scopes]

ASSUME ChoicesAssumption == Choices \subseteq Requests

ASSUME WorldsAssumption ==
  Worlds \subseteq [kind : [Locations -> {"absent", "file", "dir"}],
                    hidden : SUBSET Locations,
                    drives : [Letters -> Devices \cup {NoDevice}]]

ASSUME BoundAssumption == MaxChanges \in Nat

Mappings == [scope : Scopes, root : Locations, target : Locations,
             flags : SUBSET Flags, by : Commands]

VARIABLES
  kind,       \* what is at each location: "absent", "file" or "dir"
  hidden,     \* locations that Stat is denied and the filter is not
  drives,     \* the device of each letter (QueryDosDevice)
  changes,    \* changes made by others so far
  relettered, \* a letter has gone to another device
  unsteady,   \* locations that have changed or been covered by a global mapping
  mappings,   \* the filter's
  request,    \* what each command is asked to do
  pc,
  class,      \* what an add takes its target for: "file", "dir" or "unknown"
  refused,    \* adds whose first call was refused
  added,      \* mappings each add has made
  answer,     \* a list's: mappings not printed yet
  printed     \* what it has printed, with the mapping meant

worldVars   == <<kind, hidden, drives, changes, relettered>>
commandVars == <<request, pc, class, refused, added, answer, printed>>
vars        == <<worldVars, unsteady, mappings, commandVars>>

Phases == {"idle", "call", "retry", "printing", "ok", "error"}

-----------------------------------------------------------------------------
(* The host and the filter.                                                *)

\* The location a path means now; none on a letter without a device.
Means(p, l) == drives[p[1]] # NoDevice /\ l = <<drives[p[1]], p[2]>>

\* What is found on opening l: global mappings are followed.
Opens(l, t) == \/ \E m \in mappings : m.scope = "global" /\ m.root = l /\ m.target = t
               \/ t = l /\ \A m \in mappings : m.scope # "global" \/ m.root # l

\* BfSetupFilter refuses a second mapping of one root in one scope, and a target
\* that is not there; and it may refuse for reasons of its own.
CanMap(s, l, t) == /\ \A m \in mappings : m.scope # s \/ m.root # l
                   /\ kind[t] # "absent"

Init ==
  /\ \E w \in Worlds : kind = w.kind /\ hidden = w.hidden /\ drives = w.drives
  /\ changes = 0 /\ relettered = FALSE
  /\ unsteady = {} /\ mappings = {}
  /\ request \in [Commands -> Choices]
  /\ pc = [c \in Commands |-> "idle"]
  /\ class = [c \in Commands |-> "unknown"]
  /\ refused = {}
  /\ added = [c \in Commands |-> {}]
  /\ answer = [c \in Commands |-> {}]
  /\ printed = [c \in Commands |-> {}]

Goto(c, where) == pc' = [pc EXCEPT ![c] = where]

-----------------------------------------------------------------------------
(* add.                                                                    *)

\* Stat finds a file, or a directory, at the target of c.
Sees(c, k) == \E l, t \in Locations : /\ Means(request[c].target, l) /\ Opens(l, t)
                                      /\ kind[t] = k /\ t \notin hidden

\* Fault: what Stat cannot classify is taken for a file.
TargetFileLevelGuessing(c) ==
  /\ request[c].op = "add" /\ pc[c] = "idle"
  /\ \E k \in {"dir", "file"} : /\ Sees(c, k) \/ k = "file"
                               /\ class' = [class EXCEPT ![c] = k]
  /\ Goto(c, "call")
  /\ UNCHANGED <<worldVars, unsteady, mappings, request, refused, added, answer, printed>>

\* Stat classifies an accessible target; any other stays unknown.
TargetFileLevel(c) ==
  /\ request[c].op = "add" /\ pc[c] = "idle"
  /\ \/ \E k \in {"dir", "file"} : Sees(c, k) /\ class' = [class EXCEPT ![c] = k]
     \/ UNCHANGED class
  /\ Goto(c, "call")
  /\ UNCHANGED <<worldVars, unsteady, mappings, request, refused, added, answer, printed>>

\* The options and the scope, in flags.
SetupFlags(c) == request[c].opts \cup (IF request[c].scope = "global"
                                         THEN {"no_multiple_targets"} ELSE {"current_silo"})

\* The filter takes the mapping.
SetupFilter(c, flags) ==
  \E l, t \in Locations :
     /\ Means(request[c].root, l) /\ Means(request[c].target, t)
     /\ CanMap(request[c].scope, l, t)
     /\ LET m == [scope |-> request[c].scope, root |-> l, target |-> t,
                  flags |-> flags, by |-> c]
        IN  /\ mappings' = mappings \cup {m}
            /\ added' = [added EXCEPT ![c] = @ \cup {m}]
            /\ unsteady' = IF m.scope = "global" THEN unsteady \cup {l} ELSE unsteady

\* Fault: the retry does not look at the first call's result.
FirstCallUnchecked(c) ==
  /\ pc[c] = "call"
  /\ SetupFilter(c, SetupFlags(c) \cup
                      (IF class[c] = "file" THEN {"reparse_on_files"} ELSE {}))
  /\ Goto(c, IF class[c] = "unknown" THEN "retry" ELSE "ok")
  /\ UNCHANGED <<worldVars, request, class, refused, answer, printed>>

\* The first call, as a file only if the target is known to be one.
FirstCall(c) ==
  /\ pc[c] = "call"
  /\ SetupFilter(c, SetupFlags(c) \cup
                      (IF class[c] = "file" THEN {"reparse_on_files"} ELSE {}))
  /\ Goto(c, "ok")
  /\ UNCHANGED <<worldVars, request, class, refused, answer, printed>>

\* A refusal is final for a target that was classified.
FirstCallRefused(c) ==
  /\ pc[c] = "call"
  /\ refused' = refused \cup {c}
  /\ Goto(c, IF class[c] = "unknown" THEN "retry" ELSE "error")
  /\ UNCHANGED <<worldVars, unsteady, mappings, request, class, added, answer, printed>>

\* The second call, as a file.
RetryAsFile(c) ==
  /\ pc[c] = "retry"
  /\ SetupFilter(c, SetupFlags(c) \cup {"reparse_on_files"})
  /\ Goto(c, "ok")
  /\ UNCHANGED <<worldVars, request, class, refused, answer, printed>>

RetryRefused(c) ==
  /\ pc[c] = "retry"
  /\ Goto(c, "error")
  /\ UNCHANGED <<worldVars, unsteady, mappings, request, class, refused, added, answer, printed>>

-----------------------------------------------------------------------------
(* remove and list.                                                        *)

Remove(c) ==
  /\ request[c].op = "remove" /\ pc[c] = "idle"
  /\ \E m \in mappings : /\ m.scope = request[c].scope
                         /\ Means(request[c].root, m.root)
                         /\ mappings' = mappings \ {m}
  /\ Goto(c, "ok")
  /\ UNCHANGED <<worldVars, unsteady, request, class, refused, added, answer, printed>>

RemoveRefused(c) ==
  /\ request[c].op = "remove" /\ pc[c] = "idle"
  /\ Goto(c, "error")
  /\ UNCHANGED <<worldVars, unsteady, mappings, request, class, refused, added, answer, printed>>

\* getMappings: the filter answers with the mappings of the scope.
Query(c) ==
  /\ request[c].op = "list" /\ pc[c] = "idle"
  /\ answer' = [answer EXCEPT ![c] = {m \in mappings : m.scope = request[c].scope}]
  /\ Goto(c, "printing")
  /\ UNCHANGED <<worldVars, unsteady, mappings, request, class, refused, added, printed>>

\* ntVolumePrefixToDOS: the first letter whose device is l's.
FirstLetter(l, d) == /\ d \in Letters /\ drives[d] = l[1]
                     /\ \A x \in Letters : drives[x] = l[1] => d <= x

\* A location as a path, or in its raw form if no letter has its device.
DOS(l) == IF \E d \in Letters : drives[d] = l[1]
            THEN [raw |-> FALSE, path |-> <<CHOOSE d \in Letters : FirstLetter(l, d), l[2]>>]
            ELSE [raw |-> TRUE, path |-> l]

\* Fault: the root is converted by opening it, as a target is.
NTVirtualRootToDOSOpening(l) ==
  IF \E t \in Locations : Opens(l, t) /\ kind[t] # "absent"
    THEN DOS(CHOOSE t \in Locations : Opens(l, t) /\ kind[t] # "absent")
    ELSE [raw |-> TRUE, path |-> l]

NTVirtualRootToDOS(l) == DOS(l)

\* NTPathToDOS opens the target; what cannot be opened stays raw.
NTPathToDOS(l) ==
  IF \E t \in Locations : Opens(l, t) /\ kind[t] # "absent"
    THEN DOS(CHOOSE t \in Locations : Opens(l, t) /\ kind[t] # "absent")
    ELSE [raw |-> TRUE, path |-> l]

\* convertTargets, one mapping.
PrintMapping(c) ==
  /\ pc[c] = "printing"
  /\ \E m \in answer[c] :
        /\ answer' = [answer EXCEPT ![c] = @ \ {m}]
        /\ printed' = [printed EXCEPT ![c] = @ \cup
                         {[of |-> m, root |-> NTVirtualRootToDOS(m.root),
                           target |-> NTPathToDOS(m.target)]}]
  /\ UNCHANGED <<worldVars, unsteady, mappings, request, pc, class, refused, added>>

ListDone(c) ==
  /\ pc[c] = "printing" /\ answer[c] = {}
  /\ Goto(c, "ok")
  /\ UNCHANGED <<worldVars, unsteady, mappings, request, class, refused, added, answer, printed>>

-----------------------------------------------------------------------------
(* The others.                                                             *)

\* Something appears, goes or is replaced, or access to it changes.
ChangeKind ==
  /\ changes < MaxChanges
  /\ \E l \in Locations : \E k \in {"absent", "file", "dir"} :
        /\ kind' = [kind EXCEPT ![l] = k]
        /\ hidden' \in {hidden, hidden \cup {l}, hidden \ {l}}
        /\ unsteady' = unsteady \cup {l}
  /\ changes' = changes + 1
  /\ UNCHANGED <<drives, relettered, mappings, commandVars>>

\* A drive letter goes to another device.
ChangeDrive ==
  /\ changes < MaxChanges
  /\ \E d \in Letters, v \in Devices \cup {NoDevice} : drives' = [drives EXCEPT ![d] = v]
  /\ unsteady' = Locations /\ relettered' = TRUE
  /\ changes' = changes + 1
  /\ UNCHANGED <<kind, hidden, mappings, commandVars>>

Step(c) == \/ TargetFileLevel(c) \/ FirstCall(c) \/ FirstCallRefused(c)
           \/ RetryAsFile(c) \/ RetryRefused(c)
           \/ Remove(c) \/ RemoveRefused(c)
           \/ Query(c) \/ PrintMapping(c) \/ ListDone(c)

Next == ChangeKind \/ ChangeDrive \/ \E c \in Commands : Step(c)

Spec == Init /\ [][Next]_vars

-----------------------------------------------------------------------------
(* Properties.                                                             *)

\* Types; a list that has ended has printed the whole answer.
TypeOK ==
  /\ kind \in [Locations -> {"absent", "file", "dir"}]
  /\ hidden \subseteq Locations /\ unsteady \subseteq Locations
  /\ drives \in [Letters -> Devices \cup {NoDevice}]
  /\ changes \in 0..MaxChanges /\ relettered \in BOOLEAN
  /\ mappings \subseteq Mappings
  /\ request \in [Commands -> Choices]
  /\ pc \in [Commands -> Phases]
  /\ class \in [Commands -> {"file", "dir", "unknown"}]
  /\ refused \subseteq Commands
  /\ added \in [Commands -> SUBSET Mappings]
  /\ answer \in [Commands -> SUBSET Mappings]
  /\ \A c \in Commands : answer[c] # {} => pc[c] = "printing"

\* An add that reports an error has mapped nothing; one that reports success has
\* mapped its root once, on whichever of its two calls.
ReportIsTrue ==
  \A c \in Commands :
     /\ pc[c] = "error" => added[c] = {}
     /\ pc[c] = "ok" /\ request[c].op = "add" => \E m \in Mappings : added[c] = {m}

\* A target that was a directory all the time has REPARSE_ON_FILES only if Stat
\* could not tell and the filter refused the directory-style call, whatever
\* happened to roots, letters and other targets in between.
DirectoryStaysDirectory ==
  \A m \in mappings :
     "reparse_on_files" \in m.flags /\ kind[m.target] = "dir" /\ m.target \notin unsteady
       => class[m.by] = "unknown" /\ m.by \in refused

\* A root that list prints with a drive letter means the root of that mapping:
\* given to remove, it takes the mapping that was printed, also when the root's
\* own directory is covered by a global mapping.
PrintedRootIsRoot ==
  ~relettered =>
    \A c \in Commands : \A x \in printed[c] :
       ~x.root.raw => Means(x.root.path, x.of.root)

=============================================================================
