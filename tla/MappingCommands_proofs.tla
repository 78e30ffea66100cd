------------------------ MODULE MappingCommands_proofs ------------------------
(***************************************************************************)
(* The properties of MappingCommands, for any number of commands, devices, *)
(* names, letters and changes by others.                                   *)
(***************************************************************************)
EXTENDS MappingCommands, TLAPS

\* Where each kind of command can be.
PhaseOfOp ==
  \A c \in Commands :
     /\ pc[c] \in {"call", "retry"} => request[c].op = "add"
     /\ pc[c] = "printing" => request[c].op = "list"
     /\ pc[c] = "idle" => class[c] = "unknown"
     /\ pc[c] = "retry" => class[c] = "unknown" /\ c \in refused

\* An add has mapped nothing before its last step, and once after it.
MapsOnce ==
  \A c \in Commands :
     /\ pc[c] \in {"idle", "call", "retry", "error"} => added[c] = {}
     /\ pc[c] = "ok" /\ request[c].op = "add" => \E m \in Mappings : added[c] = {m}

\* A target taken for a file was no directory all the time.
FileWasSeen ==
  \A c \in Commands : pc[c] = "call" /\ class[c] = "file" =>
    \A l \in Locations : Means(request[c].target, l) /\ kind[l] = "dir" => l \in unsteady

\* Mappings are made by adds that have ended; what a global one covers counts as
\* unsteady.
MadeByEnded ==
  \A m \in mappings : /\ pc[m.by] = "ok"
                      /\ m.scope = "global" => m.root \in unsteady

IInv == /\ TypeOK /\ PhaseOfOp /\ MapsOnce /\ FileWasSeen /\ MadeByEnded
        /\ DirectoryStaysDirectory /\ PrintedRootIsRoot

-----------------------------------------------------------------------------

LEMMA AddShape ==
  ASSUME NEW r \in Choices, r.op = "add"
  PROVE  /\ r.scope \in Scopes
         /\ r.opts \subseteq {"read_only", "merged"}
<1>1. r \in Requests
  BY ChoicesAssumption
<1>2. r \in [op : {"add"}, scope : Scopes, root : Paths, target : Paths,
             opts : SUBSET {"read_only", "merged"}]
  <2>1. ~(r \in [op : {"remove"}, scope : Scopes, root : Paths])
    OBVIOUS
  <2>2. ~(r \in [op : {"list"}, scope : Scopes])
    OBVIOUS
  <2> QED
    BY <1>1, <2>1, <2>2 DEF Requests
<1> QED
  BY <1>2

\* A path means one location at most.
LEMMA MeansOne ==
  ASSUME NEW p, NEW l \in Locations, NEW t \in Locations, Means(p, l), Means(p, t)
  PROVE  l = t
BY DEF Means

\* A path with a drive letter means the location it was made from.
LEMMA DOSMeans ==
  ASSUME NEW l \in Locations, ~DOS(l).raw
  PROVE  Means(DOS(l).path, l)
<1> DEFINE S == {d \in Letters : drives[d] = l[1]}
<1>1. S # {}
  BY DEF DOS
<1>2. PICK d \in S : \A x \in S : d <= x
  <2>1. S \in SUBSET Letters
    OBVIOUS
  <2> QED
    BY <1>1, <2>1, LettersAssumption
<1>3. FirstLetter(l, d)
  BY <1>2 DEF FirstLetter
<1> DEFINE f == CHOOSE x \in Letters : FirstLetter(l, x)
<1>4. f \in Letters /\ FirstLetter(l, f)
  BY <1>2, <1>3
<1>5. DOS(l).path = <<f, l[2]>>
  BY <1>1 DEF DOS
<1> HIDE DEF f
<1>6. drives[f] = l[1]
  BY <1>4 DEF FirstLetter
<1>7. l = <<l[1], l[2]>> /\ l[1] \in Devices
  BY DEF Locations
<1> QED
  BY <1>5, <1>6, <1>7, DevicesAssumption DEF Means

LEMMA InitIInv == Init => IInv
<1> SUFFICES ASSUME Init PROVE IInv
  OBVIOUS
<1>1. PICK w \in Worlds : kind = w.kind /\ hidden = w.hidden /\ drives = w.drives
  BY DEF Init
<1>2. w \in [kind : [Locations -> {"absent", "file", "dir"}],
             hidden : SUBSET Locations,
             drives : [Letters -> Devices \cup {NoDevice}]]
  BY WorldsAssumption
<1>3. /\ kind \in [Locations -> {"absent", "file", "dir"}]
      /\ hidden \subseteq Locations
      /\ drives \in [Letters -> Devices \cup {NoDevice}]
  BY <1>1, <1>2
<1>4. TypeOK
  <2>1. changes \in 0..MaxChanges /\ relettered \in BOOLEAN /\ unsteady \subseteq Locations
    <3>1. changes = 0 /\ relettered = FALSE /\ unsteady = {}
      BY Zenon DEF Init
    <3>2. relettered \in BOOLEAN
      BY <3>1, Zenon
    <3>3. changes \in 0..MaxChanges
      BY <3>1, BoundAssumption
    <3> QED
      BY <3>1, <3>2, <3>3, Zenon
  <2>2. mappings \subseteq Mappings /\ refused \subseteq Commands
    BY DEF Init
  <2>3. request \in [Commands -> Choices] /\ pc \in [Commands -> Phases]
    BY DEF Init, Phases
  <2>4. /\ class \in [Commands -> {"file", "dir", "unknown"}]
        /\ added \in [Commands -> SUBSET Mappings]
        /\ answer \in [Commands -> SUBSET Mappings]
        /\ \A c \in Commands : answer[c] = {}
    BY DEF Init
  <2> QED
    BY <1>3, <2>1, <2>2, <2>3, <2>4 DEF TypeOK
<1>5. PhaseOfOp /\ MapsOnce /\ FileWasSeen
  BY DEF Init, PhaseOfOp, MapsOnce, FileWasSeen
<1>6. MadeByEnded /\ DirectoryStaysDirectory /\ PrintedRootIsRoot
  BY DEF Init, MadeByEnded, DirectoryStaysDirectory, PrintedRootIsRoot
<1> QED
  BY <1>4, <1>5, <1>6 DEF IInv

-----------------------------------------------------------------------------
(* One lemma per action, or for actions that disturb the same parts.       *)

LEMMA TargetFileLevelKeeps ==
  ASSUME IInv, NEW c \in Commands, TargetFileLevel(c)
  PROVE  IInv'
<1> USE DEF TargetFileLevel, Goto, worldVars
<1>1. TypeOK'
  BY DEF IInv, TypeOK, Phases
<1>2. PhaseOfOp'
  BY DEF IInv, TypeOK, PhaseOfOp
<1>3. MapsOnce'
  BY DEF IInv, TypeOK, MapsOnce
<1>4. FileWasSeen'
  <2> SUFFICES ASSUME NEW x \in Commands, pc'[x] = "call", class'[x] = "file",
                      NEW l \in Locations, Means(request[x].target, l), kind[l] = "dir"
               PROVE  l \in unsteady
    BY DEF FileWasSeen, Means
  <2>1. CASE x # c
    BY <2>1 DEF IInv, TypeOK, FileWasSeen
  <2>2. CASE x = c
    <3>1. class[c] = "unknown"
      BY DEF IInv, PhaseOfOp
    <3>2. Sees(c, "file")
      BY <2>2, <3>1 DEF IInv, TypeOK
    <3>3. PICK l0, t \in Locations : /\ Means(request[c].target, l0)
                                     /\ Opens(l0, t) /\ kind[t] = "file"
      BY <3>2 DEF Sees
    <3>4. l = l0
      BY <2>2, <3>3, MeansOne
    <3>5. t # l
      BY <3>3
    <3> QED
      BY <3>3, <3>4, <3>5 DEF Opens, IInv, MadeByEnded
  <2> QED
    BY <2>1, <2>2
<1>5. MadeByEnded'
  BY DEF IInv, TypeOK, MadeByEnded, Mappings
<1>6. DirectoryStaysDirectory'
  <2>1. \A m \in mappings : m.by # c
    BY DEF IInv, MadeByEnded
  <2> QED
    BY <2>1 DEF IInv, TypeOK, DirectoryStaysDirectory, Mappings
<1>7. PrintedRootIsRoot'
  BY DEF IInv, PrintedRootIsRoot, Means
<1> QED
  BY <1>1, <1>2, <1>3, <1>4, <1>5, <1>6, <1>7 DEF IInv

\* What a call that the filter takes leaves behind.
LEMMA SetupFilterKeeps ==
  ASSUME IInv, NEW c \in Commands, NEW flags \in SUBSET Flags,
         pc[c] \in {"call", "retry"}, SetupFilter(c, flags), Goto(c, "ok"),
         UNCHANGED <<worldVars, request, class, refused, answer, printed>>,
         "reparse_on_files" \in flags =>
           \/ pc[c] = "call" /\ class[c] = "file"
           \/ pc[c] = "retry"
  PROVE  IInv'
<1> USE DEF Goto, worldVars
<1>1. PICK l, t \in Locations :
         /\ Means(request[c].root, l) /\ Means(request[c].target, t)
         /\ LET m == [scope |-> request[c].scope, root |-> l, target |-> t,
                      flags |-> flags, by |-> c]
            IN  /\ mappings' = mappings \cup {m}
                /\ added' = [added EXCEPT ![c] = @ \cup {m}]
                /\ unsteady' = IF m.scope = "global" THEN unsteady \cup {l} ELSE unsteady
  BY DEF SetupFilter
<1> DEFINE m == [scope |-> request[c].scope, root |-> l, target |-> t,
                 flags |-> flags, by |-> c]
<1>2. m \in Mappings
  <2>1. request[c] \in Choices /\ request[c].op = "add"
    BY DEF IInv, TypeOK, PhaseOfOp
  <2>2. request[c].scope \in Scopes
    BY <2>1, AddShape
  <2> QED
    BY <2>2 DEF Mappings
<1>3. added[c] = {}
  BY DEF IInv, MapsOnce
<1>4. /\ mappings' = mappings \cup {m}
      /\ added' = [added EXCEPT ![c] = {m}]
      /\ m.scope = "global" => l \in unsteady'
      /\ unsteady \subseteq unsteady' /\ unsteady' \subseteq unsteady \cup {l}
      /\ m.by = c /\ m.root = l /\ m.target = t /\ m.flags = flags
  BY <1>1, <1>3
<1> HIDE DEF m
<1>5. TypeOK'
  BY <1>2, <1>4 DEF IInv, TypeOK, Phases
<1>6. PhaseOfOp'
  BY DEF IInv, TypeOK, PhaseOfOp
<1>7. MapsOnce'
  BY <1>2, <1>4 DEF IInv, TypeOK, MapsOnce
<1>8. FileWasSeen'
  BY <1>4 DEF IInv, TypeOK, FileWasSeen, Means
<1>9. MadeByEnded'
  BY <1>4 DEF IInv, TypeOK, MadeByEnded, Mappings
<1>10. DirectoryStaysDirectory'
  <2> SUFFICES ASSUME NEW x \in mappings', "reparse_on_files" \in x.flags,
                      kind[x.target] = "dir", x.target \notin unsteady'
               PROVE  class[x.by] = "unknown" /\ x.by \in refused
    BY DEF DirectoryStaysDirectory
  <2>1. CASE x \in mappings
    BY <2>1, <1>4 DEF IInv, DirectoryStaysDirectory
  <2>2. CASE x = m
    <3>1. CASE pc[c] = "call" /\ class[c] = "file"
      BY <2>2, <3>1, <1>1, <1>4 DEF IInv, FileWasSeen
    <3>2. CASE pc[c] = "retry"
      BY <2>2, <3>2, <1>4 DEF IInv, PhaseOfOp
    <3> QED
      BY <2>2, <3>1, <3>2, <1>4
  <2> QED
    BY <1>4, <2>1, <2>2
<1>11. PrintedRootIsRoot'
  BY DEF IInv, PrintedRootIsRoot, Means
<1> QED
  BY <1>5, <1>6, <1>7, <1>8, <1>9, <1>10, <1>11 DEF IInv

LEMMA SetupFlagsShape ==
  ASSUME IInv, NEW c \in Commands, pc[c] \in {"call", "retry"}
  PROVE  SetupFlags(c) \subseteq Flags \ {"reparse_on_files"}
<1>1. request[c] \in Choices /\ request[c].op = "add"
  BY DEF IInv, TypeOK, PhaseOfOp
<1>2. request[c].opts \subseteq {"read_only", "merged"}
  BY <1>1, AddShape
<1> QED
  BY <1>2 DEF SetupFlags, Flags

LEMMA FirstCallKeeps ==
  ASSUME IInv, NEW c \in Commands, FirstCall(c)
  PROVE  IInv'
<1> DEFINE flags == SetupFlags(c) \cup
                      (IF class[c] = "file" THEN {"reparse_on_files"} ELSE {})
<1>1. pc[c] = "call" /\ SetupFilter(c, flags) /\ Goto(c, "ok")
      /\ UNCHANGED <<worldVars, request, class, refused, answer, printed>>
  BY DEF FirstCall
<1>2. SetupFlags(c) \subseteq Flags \ {"reparse_on_files"}
  BY <1>1, SetupFlagsShape
<1>3. flags \in SUBSET Flags /\ ("reparse_on_files" \in flags => class[c] = "file")
  BY <1>2 DEF Flags
<1> HIDE DEF flags
<1> QED
  BY <1>1, <1>3, SetupFilterKeeps

LEMMA RetryAsFileKeeps ==
  ASSUME IInv, NEW c \in Commands, RetryAsFile(c)
  PROVE  IInv'
<1> DEFINE flags == SetupFlags(c) \cup {"reparse_on_files"}
<1>1. pc[c] = "retry" /\ SetupFilter(c, flags) /\ Goto(c, "ok")
      /\ UNCHANGED <<worldVars, request, class, refused, answer, printed>>
  BY DEF RetryAsFile
<1>2. SetupFlags(c) \subseteq Flags \ {"reparse_on_files"}
  BY <1>1, SetupFlagsShape
<1>3. flags \in SUBSET Flags
  BY <1>2 DEF Flags
<1> HIDE DEF flags
<1> QED
  BY <1>1, <1>3, SetupFilterKeeps

\* Steps of a command that change neither the mappings nor what it is printing.
LEMMA QuietKeeps ==
  ASSUME IInv, NEW c \in Commands,
         \/ FirstCallRefused(c) \/ RetryRefused(c) \/ RemoveRefused(c) \/ ListDone(c)
  PROVE  IInv'
<1> USE DEF FirstCallRefused, RetryRefused, RemoveRefused, ListDone, Goto, worldVars
<1>1. TypeOK'
  BY DEF IInv, TypeOK, Phases
<1>2. PhaseOfOp'
  BY DEF IInv, TypeOK, PhaseOfOp
<1>3. MapsOnce'
  BY DEF IInv, TypeOK, PhaseOfOp, MapsOnce
<1>4. FileWasSeen'
  BY DEF IInv, TypeOK, FileWasSeen, Means
<1>5. MadeByEnded'
  BY DEF IInv, TypeOK, MadeByEnded, Mappings
<1>6. DirectoryStaysDirectory'
  BY DEF IInv, DirectoryStaysDirectory
<1>7. PrintedRootIsRoot'
  BY DEF IInv, PrintedRootIsRoot, Means
<1> QED
  BY <1>1, <1>2, <1>3, <1>4, <1>5, <1>6, <1>7 DEF IInv

LEMMA RemoveKeeps ==
  ASSUME IInv, NEW c \in Commands, Remove(c)
  PROVE  IInv'
<1> USE DEF Remove, Goto, worldVars
<1>0. mappings' \subseteq mappings
  OBVIOUS
<1>1. TypeOK'
  BY <1>0 DEF IInv, TypeOK, Phases
<1>2. PhaseOfOp'
  BY DEF IInv, TypeOK, PhaseOfOp
<1>3. MapsOnce'
  BY DEF IInv, TypeOK, MapsOnce
<1>4. FileWasSeen'
  BY DEF IInv, TypeOK, FileWasSeen, Means
<1>5. MadeByEnded'
  BY <1>0 DEF IInv, TypeOK, MadeByEnded, Mappings
<1>6. DirectoryStaysDirectory'
  BY <1>0 DEF IInv, DirectoryStaysDirectory
<1>7. PrintedRootIsRoot'
  BY DEF IInv, PrintedRootIsRoot, Means
<1> QED
  BY <1>1, <1>2, <1>3, <1>4, <1>5, <1>6, <1>7 DEF IInv

LEMMA QueryKeeps ==
  ASSUME IInv, NEW c \in Commands, Query(c)
  PROVE  IInv'
<1> USE DEF Query, Goto, worldVars
<1>1. TypeOK'
  BY DEF IInv, TypeOK, Phases
<1>2. PhaseOfOp'
  BY DEF IInv, TypeOK, PhaseOfOp
<1>3. MapsOnce'
  BY DEF IInv, TypeOK, MapsOnce
<1>4. FileWasSeen'
  BY DEF IInv, TypeOK, FileWasSeen, Means
<1>5. MadeByEnded'
  BY DEF IInv, TypeOK, MadeByEnded, Mappings
<1>6. DirectoryStaysDirectory'
  BY DEF IInv, DirectoryStaysDirectory
<1>7. PrintedRootIsRoot'
  BY DEF IInv, PrintedRootIsRoot, Means
<1> QED
  BY <1>1, <1>2, <1>3, <1>4, <1>5, <1>6, <1>7 DEF IInv

LEMMA PrintMappingKeeps ==
  ASSUME IInv, NEW c \in Commands, PrintMapping(c)
  PROVE  IInv'
<1> USE DEF PrintMapping, worldVars
<1>1. TypeOK'
  BY DEF IInv, TypeOK
<1>2. PhaseOfOp' /\ MapsOnce' /\ MadeByEnded' /\ DirectoryStaysDirectory'
  BY DEF IInv, PhaseOfOp, MapsOnce, MadeByEnded, DirectoryStaysDirectory
<1>3. FileWasSeen'
  BY DEF IInv, FileWasSeen, Means
<1>4. PrintedRootIsRoot'
  <2> SUFFICES ASSUME ~relettered, NEW y \in Commands, NEW x \in printed'[y], ~x.root.raw
               PROVE  Means(x.root.path, x.of.root)
    BY DEF PrintedRootIsRoot, Means
  <2>1. PICK m \in answer[c] :
           printed' = [printed EXCEPT ![c] = @ \cup
                         {[of |-> m, root |-> NTVirtualRootToDOS(m.root),
                           target |-> NTPathToDOS(m.target)]}]
    OBVIOUS
  <2>2. CASE x \in printed[y]
    BY <2>2 DEF IInv, PrintedRootIsRoot
  <2>3. CASE x \notin printed[y]
    <3>1. x.of = m /\ x.root = DOS(m.root)
      BY <2>1, <2>3 DEF NTVirtualRootToDOS
    <3>2. m.root \in Locations
      BY DEF IInv, TypeOK, Mappings
    <3> QED
      BY <3>1, <3>2, DOSMeans
  <2> QED
    BY <2>2, <2>3
<1> QED
  BY <1>1, <1>2, <1>3, <1>4 DEF IInv

LEMMA ChangeKindKeeps ==
  ASSUME IInv, ChangeKind
  PROVE  IInv'
<1>1. PICK l \in Locations, k \in {"absent", "file", "dir"} :
         /\ kind' = [kind EXCEPT ![l] = k]
         /\ hidden' \in {hidden, hidden \cup {l}, hidden \ {l}}
         /\ unsteady' = unsteady \cup {l}
  BY DEF ChangeKind
<1>2. /\ changes < MaxChanges /\ changes' = changes + 1
      /\ UNCHANGED <<drives, relettered, mappings, request, pc, class, refused,
                     added, answer, printed>>
  BY DEF ChangeKind, commandVars
<1>3. TypeOK'
  <2>1. changes' \in 0..MaxChanges
    BY <1>2, BoundAssumption DEF IInv, TypeOK
  <2>2. hidden' \subseteq Locations /\ unsteady' \subseteq Locations
    BY <1>1 DEF IInv, TypeOK
  <2>3. kind' \in [Locations -> {"absent", "file", "dir"}]
    BY <1>1 DEF IInv, TypeOK
  <2> QED
    BY <1>2, <2>1, <2>2, <2>3 DEF IInv, TypeOK
<1>4. PhaseOfOp' /\ MapsOnce'
  BY <1>2 DEF IInv, PhaseOfOp, MapsOnce
<1>5. FileWasSeen'
  BY <1>1, <1>2 DEF IInv, TypeOK, FileWasSeen, Means
<1>6. MadeByEnded'
  BY <1>1, <1>2 DEF IInv, MadeByEnded
<1>7. DirectoryStaysDirectory'
  BY <1>1, <1>2 DEF IInv, TypeOK, DirectoryStaysDirectory, Mappings
<1>8. PrintedRootIsRoot'
  BY <1>2 DEF IInv, PrintedRootIsRoot, Means
<1> QED
  BY <1>3, <1>4, <1>5, <1>6, <1>7, <1>8 DEF IInv

LEMMA ChangeDriveKeeps ==
  ASSUME IInv, ChangeDrive
  PROVE  IInv'
<1>1. /\ changes < MaxChanges /\ changes' = changes + 1
      /\ \E d \in Letters, v \in Devices \cup {NoDevice} : drives' = [drives EXCEPT ![d] = v]
      /\ unsteady' = Locations /\ relettered' = TRUE
      /\ UNCHANGED <<kind, hidden, mappings, request, pc, class, refused,
                     added, answer, printed>>
  BY DEF ChangeDrive, commandVars
<1>2. TypeOK'
  <2>1. changes' \in 0..MaxChanges
    BY <1>1, BoundAssumption DEF IInv, TypeOK
  <2>2. drives' \in [Letters -> Devices \cup {NoDevice}]
    BY <1>1 DEF IInv, TypeOK
  <2> QED
    BY <1>1, <2>1, <2>2 DEF IInv, TypeOK
<1>3. PhaseOfOp' /\ MapsOnce'
  BY <1>1 DEF IInv, PhaseOfOp, MapsOnce
<1>4. FileWasSeen' /\ PrintedRootIsRoot'
  BY <1>1 DEF FileWasSeen, PrintedRootIsRoot
<1>5. MadeByEnded' /\ DirectoryStaysDirectory'
  BY <1>1 DEF IInv, TypeOK, Mappings, MadeByEnded, DirectoryStaysDirectory
<1> QED
  BY <1>2, <1>3, <1>4, <1>5 DEF IInv

LEMMA StutterKeeps ==
  ASSUME IInv, UNCHANGED vars
  PROVE  IInv'
BY DEF vars, worldVars, commandVars, IInv, TypeOK, PhaseOfOp, MapsOnce, FileWasSeen,
       MadeByEnded, DirectoryStaysDirectory, PrintedRootIsRoot, Means

LEMMA NextIInv == IInv /\ [Next]_vars => IInv'
<1> SUFFICES ASSUME IInv, [Next]_vars PROVE IInv'
  OBVIOUS
<1>1. CASE ChangeKind
  BY <1>1, ChangeKindKeeps
<1>2. CASE ChangeDrive
  BY <1>2, ChangeDriveKeeps
<1>3. ASSUME NEW c \in Commands, Step(c) PROVE IInv'
  <2>1. CASE TargetFileLevel(c)
    BY <2>1, TargetFileLevelKeeps
  <2>2. CASE FirstCall(c)
    BY <2>2, FirstCallKeeps
  <2>3. CASE RetryAsFile(c)
    BY <2>3, RetryAsFileKeeps
  <2>4. CASE FirstCallRefused(c) \/ RetryRefused(c) \/ RemoveRefused(c) \/ ListDone(c)
    BY <2>4, QuietKeeps
  <2>5. CASE Remove(c)
    BY <2>5, RemoveKeeps
  <2>6. CASE Query(c)
    BY <2>6, QueryKeeps
  <2>7. CASE PrintMapping(c)
    BY <2>7, PrintMappingKeeps
  <2> QED
    BY <1>3, <2>1, <2>2, <2>3, <2>4, <2>5, <2>6, <2>7 DEF Step
<1>4. CASE UNCHANGED vars
  BY <1>4, StutterKeeps
<1> QED
  BY <1>1, <1>2, <1>3, <1>4 DEF Next

-----------------------------------------------------------------------------

\* The inductive invariant of add, remove and list holds in every reachable state.
THEOREM Invariance == Spec => []IInv
<1>1. Init => IInv
  BY InitIInv
<1>2. IInv /\ [Next]_vars => IInv'
  BY NextIInv
<1> QED
  BY <1>1, <1>2, PTL DEF Spec

\* Types, and a list that has ended has printed its whole answer (listMappings).
THEOREM TypeCorrect == Spec => []TypeOK
<1>1. IInv => TypeOK
  BY DEF IInv
<1> QED
  BY <1>1, Invariance, PTL

\* The result of addMapping is what setupMapping has done, on either of its calls.
THEOREM ReportIsTrueHolds == Spec => []ReportIsTrue
<1>1. IInv => ReportIsTrue
  BY DEF IInv, MapsOnce, ReportIsTrue
<1> QED
  BY <1>1, Invariance, PTL

\* setupMapping gives a steady directory REPARSE_ON_FILES only on its retry, for a
\* target that Stat could not classify.
THEOREM DirectoryStaysDirectoryHolds == Spec => []DirectoryStaysDirectory
<1>1. IInv => DirectoryStaysDirectory
  BY DEF IInv
<1> QED
  BY <1>1, Invariance, PTL

\* NTVirtualRootToDOS gives list a path that means the root itself.
THEOREM PrintedRootIsRootHolds == Spec => []PrintedRootIsRoot
<1>1. IInv => PrintedRootIsRoot
  BY DEF IInv
<1> QED
  BY <1>1, Invariance, PTL

=============================================================================
