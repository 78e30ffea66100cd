------------------------- MODULE ExecMappings_proofs -------------------------
(***************************************************************************)
(* What the mapping phase of exec guarantees for every set of paths, every *)
(* environment and every behaviour of the filter.                          *)
(***************************************************************************)
EXTENDS ExecMappings, FiniteSetTheorems, TLAPS

-----------------------------------------------------------------------------
(* The passes and their requests.                                          *)

\* The kinds of requests a pass makes.
KindsOf(name) == IF name = "appexec" THEN {"aliases", "package", "state"} ELSE {name}

\* The order of the passes, entry by entry.
LEMMA PassFacts ==
  /\ DOMAIN Passes = 1..11 /\ Len(Passes) = 11
  /\ Passes[1] = "root" /\ Passes[2] = "readonly" /\ Passes[3] = "temp"
  /\ \A i \in 4..11 : Passes[i] \notin {"root", "readonly", "temp"}
  /\ \A i \in 1..11 : /\ "root" \in KindsOf(Passes[i]) => i = 1
                      /\ "path" \in KindsOf(Passes[i]) => i = 4
                      /\ "link" \in KindsOf(Passes[i]) => i = 11
  /\ \A i \in 1..11 : Passes[i] \in PassNames
  /\ PassNames = {"root", "readonly", "temp", "path", "cwd", "gitroot", "appstate",
                  "appexec", "executable", "powershell", "link"}
<1>1. DOMAIN Passes = 1..11 /\ Len(Passes) = 11
  BY DEF Passes
<1>2. /\ Passes[1] = "root" /\ Passes[2] = "readonly" /\ Passes[3] = "temp"
      /\ Passes[4] = "path" /\ Passes[5] = "cwd" /\ Passes[6] = "gitroot"
      /\ Passes[7] = "appstate" /\ Passes[8] = "appexec" /\ Passes[9] = "executable"
      /\ Passes[10] = "powershell" /\ Passes[11] = "link"
  BY DEF Passes
<1>3. \A i \in 1..11 : i \in {1, 2, 3, 4, 5, 6, 7, 8, 9, 10, 11}
  OBVIOUS
<1>4. PassNames = {"root", "readonly", "temp", "path", "cwd", "gitroot", "appstate",
                   "appexec", "executable", "powershell", "link"}
  BY <1>1, <1>2, <1>3 DEF PassNames
<1>5. \A i \in 4..11 : Passes[i] \notin {"root", "readonly", "temp"}
  BY <1>2
<1>6. \A i \in 1..11 : /\ "root" \in KindsOf(Passes[i]) => i = 1
                       /\ "path" \in KindsOf(Passes[i]) => i = 4
                       /\ "link" \in KindsOf(Passes[i]) => i = 11
  <2>1. \A i \in 1..11 : /\ Passes[i] = "root" => i = 1
                         /\ Passes[i] = "path" => i = 4
                         /\ Passes[i] = "link" => i = 11
    BY <1>2, <1>3
  <2>2. \A k \in {"root", "path", "link"} : \A name : k \in KindsOf(name) => name = k
    BY DEF KindsOf
  <2> QED
    BY <2>1, <2>2
<1>7. \A i \in 1..11 : Passes[i] \in PassNames
  BY <1>2, <1>3, <1>4
<1>8. Passes[1] = "root" /\ Passes[2] = "readonly" /\ Passes[3] = "temp"
  BY <1>2
<1> QED
  BY <1>1, <1>4, <1>5, <1>6, <1>7, <1>8

\* A list of paths asked for under one kind is a sequence of items of it.
LEMMA AsksFacts ==
  ASSUME NEW kind \in Kinds, NEW n \in Nat, NEW s \in [1..n -> Paths]
  PROVE  /\ Asks(kind, s) \in Seq(Item)
         /\ \A i \in DOMAIN Asks(kind, s) :
               Asks(kind, s)[i].kind = kind /\ Asks(kind, s)[i].root = s[i]
<1>1. Asks(kind, s) \in [1..n -> Item]
  BY DEF Asks, Ask, Item
<1> QED
  BY <1>1 DEF Asks, Ask

\* Whatever a pass asks for is a sequence of items.
LEMMA RequestsTyped ==
  ASSUME NEW name \in PassNames, NEW asked \in Requests(name)
  PROVE  asked \in Seq(Item)
<1> USE PathsAssumption, MaxItemsAssumption
<1>k. name # "appexec" => name \in Kinds
  BY DEF Kinds
<1>a. {"aliases", "package", "state"} \subseteq Kinds
  BY DEF Kinds
<1>1. CASE name = "appexec"
  <2>1. \A k \in {"aliases", "package", "state"} : \A p \in Paths : Ask(k, p) \in Item
    BY <1>a DEF Ask, Item
  <2>2. Aliases \in Item
    BY <2>1 DEF Aliases
  <2>3. CASE asked \in {<<>>, <<Aliases>>}
    <3>1. <<>> \in Seq(Item)
      OBVIOUS
    <3>2. <<Aliases>> \in Seq(Item)
      BY <2>2
    <3> QED
      BY <2>3, <3>1, <3>2
  <2>4. CASE asked \in {<<Aliases, Ask("package", p)>> : p \in Paths}
    <3>1. PICK p \in Paths : asked = <<Aliases, Ask("package", p)>>
      BY <2>4
    <3>2. Ask("package", p) \in Item
      BY <2>1
    <3>3. <<Aliases, Ask("package", p)>> \in Seq(Item)
      BY <2>2, <3>2
    <3> QED
      BY <3>1, <3>3
  <2>5. CASE asked \in {<<Aliases, Ask("package", pq[1]), Ask("state", pq[2])>> :
                       pq \in Paths \X Paths}
    <3>1. PICK pq \in Paths \X Paths :
             asked = <<Aliases, Ask("package", pq[1]), Ask("state", pq[2])>>
      BY <2>5
    <3> QED
      BY <2>1, <2>2, <3>1
  <2> QED
    BY <1>1, <2>3, <2>4, <2>5 DEF Requests, AppExecRequests
<1>2. CASE name \in {"root", "readonly"}
  <2>1. PICK s \in AllDrives : asked = Asks(name, s)
    BY <1>2 DEF Requests, DriveRequests
  <2>2. Cardinality(Drives) \in Nat
    BY FS_CardinalityType
  <2>3. s \in [1..Cardinality(Drives) -> Paths]
    BY DEF AllDrives
  <2> QED
    BY <1>2, <1>k, <2>1, <2>2, <2>3, AsksFacts
<1>3. CASE name \in {"temp", "path", "appstate", "powershell", "gitroot", "link"}
  <2>1. PICK n \in Nat : \E s \in Lists(n) : asked = Asks(name, s)
    <3>1. CASE name \in {"temp", "path", "appstate", "powershell"}
      BY <3>1 DEF Requests, DistinctRequests
    <3>2. CASE name = "gitroot"
      BY <3>2 DEF Requests, GitRootRequests
    <3>3. CASE name = "link"
      BY <3>3 DEF Requests, LinkRequests
    <3> QED
      BY <1>3, <3>1, <3>2, <3>3
  <2>2. PICK k \in 0..n : \E s \in [1..k -> Paths] : asked = Asks(name, s)
    BY <2>1 DEF Lists
  <2>3. k \in Nat
    OBVIOUS
  <2> QED
    BY <1>3, <1>k, <2>2, <2>3, AsksFacts
<1>4. CASE name \in {"cwd", "executable"}
  <2>1. PICK p \in Paths : asked = Asks(name, <<p>>)
    BY <1>4 DEF Requests, OneRequest
  <2>2. <<p>> \in [1..1 -> Paths]
    OBVIOUS
  <2> QED
    BY <1>4, <1>k, <2>1, <2>2, AsksFacts
<1> QED
  BY <1>1, <1>2, <1>3, <1>4, PassFacts


\* Whatever a pass asks for is of its kinds.
LEMMA RequestKinds ==
  ASSUME NEW name \in PassNames, NEW asked \in Requests(name)
  PROVE  \A i \in DOMAIN asked : asked[i].kind \in KindsOf(name)
<1>1. CASE name = "appexec"
  <2>1. \A i \in DOMAIN asked : asked[i].kind \in {"aliases", "package", "state"}
    <3>1. CASE asked \in {<<>>, <<Aliases>>}
      BY <3>1 DEF Aliases, Ask
    <3>2. CASE asked \in {<<Aliases, Ask("package", p)>> : p \in Paths}
      BY <3>2 DEF Aliases, Ask
    <3>3. CASE asked \in {<<Aliases, Ask("package", pq[1]), Ask("state", pq[2])>> :
                         pq \in Paths \X Paths}
      <4>1. PICK pq \in Paths \X Paths :
               asked = <<Aliases, Ask("package", pq[1]), Ask("state", pq[2])>>
        BY <3>3
      <4> QED
        BY <4>1 DEF Aliases, Ask
    <3> QED
      BY <1>1, <3>1, <3>2, <3>3 DEF Requests, AppExecRequests
  <2> QED
    BY <1>1, <2>1 DEF KindsOf
<1>2. CASE name # "appexec"
  <2>1. \E t : asked = Asks(name, t)
    BY <1>2, PassFacts DEF Requests, DriveRequests, DistinctRequests, OneRequest,
       GitRootRequests, LinkRequests
  <2> QED
    BY <1>2, <2>1 DEF Asks, Ask, KindsOf
<1> QED
  BY <1>1, <1>2

\* The root pass asks for every drive.
LEMMA EveryDriveAsked ==
  ASSUME NEW asked \in Requests("root"), NEW d \in Drives
  PROVE  \E i \in DOMAIN asked : asked[i].root = d
<1> DEFINE n == Cardinality(Drives)
<1>1. PICK s \in AllDrives : asked = Asks("root", s)
  BY DEF Requests, DriveRequests
<1>2. s \in [1..n -> Drives] /\ \A i, j \in 1..n : s[i] = s[j] => i = j
  BY <1>1 DEF AllDrives, Distinct
<1>3. n \in Nat /\ IsFiniteSet(Drives)
  BY FS_CardinalityType, PathsAssumption
<1>4. IsFiniteSet(1..n) /\ Cardinality(1..n) = n
  BY <1>3, FS_Interval
<1>5. IsFiniteSet(Drives \ {d}) /\ Cardinality(Drives \ {d}) = n - 1
  BY <1>3, FS_RemoveElement
<1>6. ASSUME \A i \in 1..n : s[i] # d
      PROVE  FALSE
  <2>1. s \in [1..n -> Drives \ {d}]
    BY <1>2, <1>6
  <2>2. Cardinality(Drives \ {d}) < Cardinality(1..n)
    BY <1>3, <1>4, <1>5
  <2> HIDE DEF n
  <2>3. \E i, j \in 1..n : i # j /\ s[i] = s[j]
    BY <1>4, <1>5, <2>1, <2>2, FS_PigeonHole
  <2> QED
    BY <1>2, <2>3
<1> QED
  BY <1>1, <1>2, <1>6 DEF Asks, Ask

\* What a pass before PATH asks for: drives under the root passes, nothing but
\* temporary directories under the temp pass.
LEMMA EarlyRequests ==
  ASSUME NEW n \in 1..3, NEW asked \in Requests(Passes[n])
  PROVE  \A i \in DOMAIN asked : /\ asked[i].kind = Passes[n]
                                 /\ n < 3 => asked[i].root \in Drives
<1> USE PathsAssumption, MaxItemsAssumption
<1>1. CASE n \in {1, 2}
  <2>1. Passes[n] \in {"root", "readonly"}
    BY <1>1, PassFacts
  <2>2. PICK s \in AllDrives : asked = Asks(Passes[n], s)
    BY <2>1 DEF Requests, DriveRequests
  <2> QED
    BY <2>2 DEF Asks, Ask, AllDrives
<1>2. CASE n = 3
  <2>1. Passes[n] = "temp"
    BY <1>2, PassFacts
  <2>2. PICK s \in Lists(MaxItems) : asked = Asks(Passes[n], s)
    BY <2>1 DEF Requests, DistinctRequests
  <2> QED
    BY <1>2, <2>2 DEF Asks, Ask
<1> QED
  BY <1>1, <1>2

\* The first request and the others.
LEMMA TodoFacts ==
  ASSUME NEW s \in Seq(Item), s # <<>>
  PROVE  /\ Head(s) \in Item
         /\ Head(s).kind \in Kinds /\ Head(s).root \in Paths
         /\ 1 \in DOMAIN s /\ Head(s) = s[1]
         /\ Tail(s) \in Seq(Item)
         /\ \A i \in DOMAIN Tail(s) : i + 1 \in DOMAIN s /\ Tail(s)[i] = s[i + 1]
         /\ \A i \in DOMAIN s : i = 1 \/ \E j \in DOMAIN Tail(s) : Tail(s)[j] = s[i]
         /\ Len(s) > 1 => Tail(s) # <<>>
<1>0. Len(s) > 1 => Tail(s) # <<>>
  <2>1. Len(Tail(s)) = Len(s) - 1
    OBVIOUS
  <2>2. Len(<<>>) = 0
    OBVIOUS
  <2>3. Len(s) \in Nat
    OBVIOUS
  <2>4. Tail(s) = <<>> => Len(Tail(s)) = 0
    BY <2>2
  <2> QED
    BY <2>1, <2>3, <2>4
<1>1. Head(s) \in Item /\ 1 \in DOMAIN s /\ Head(s) = s[1] /\ Tail(s) \in Seq(Item)
  OBVIOUS
<1>2. \A i \in DOMAIN Tail(s) : i + 1 \in DOMAIN s /\ Tail(s)[i] = s[i + 1]
  OBVIOUS
<1>3. \A i \in DOMAIN s : i # 1 => i - 1 \in DOMAIN Tail(s) /\ Tail(s)[i - 1] = s[i]
  OBVIOUS
<1> QED
  BY <1>0, <1>1, <1>2, <1>3 DEF Item

-----------------------------------------------------------------------------
(* The inductive invariant.                                                *)

Shielded(t) == Resolve[t] \in DOMAIN view /\ view[Resolve[t]] = "temp"

\* Until the temp pass is over every request is of the pass's own kind.
EarlyTodo ==
  pass \in 1..3 /\ begun =>
     \A i \in DOMAIN todo : /\ todo[i].kind = Passes[pass]
                            /\ pass < 3 => todo[i].root \in Drives

\* Until then the record holds drives and temporary directories, so that the
\* temp pass finds nothing mapped that it has to map.
EarlyRecord ==
  pass \in 1..3 => \A p \in mapped \ Drives : Shielded(p)

\* Every temporary directory is shielded or still to be mapped.
TempsServed ==
  \A t \in temps \ Drives :
     \/ Shielded(t)
     \/ pass = 3 /\ begun /\ \E i \in DOMAIN todo : todo[i].root = t

\* The filter has nothing that the record does not know under some spelling.
RecordCovers == \A id \in DOMAIN view : \E p \in mapped : Resolve[p] = id

\* A staged link leads out of the backing tree unless it leads to a drive.
StagedServed == outcome \in {"mapping", "launch"} =>
                  \A p \in staged : LeadsOut(p) <=> Resolve[p] \notin Drives

\* Every request is of a kind of the current pass.
TodoKinds == begun => \A i \in DOMAIN todo : todo[i].kind \in KindsOf(Passes[pass])

\* The backing tree is shown at drives, and a user link only in the last pass.
TargetsRight == \A q \in DOMAIN view : /\ view[q] = "backing" => q \in Drives
                                       /\ view[q] = "user" => pass = 11

Backed(d) == d \in DOMAIN view /\ view[d] = "backing"

\* What the root pass has recorded shows the backing tree.
RootRecord == pass = 1 => \A d \in mapped : Backed(d)

\* Under --root every drive shows it, or is still to be mapped.
DrivesBacked ==
  "root" \in enabled /\ outcome \in {"mapping", "launch"} =>
     \A d \in Drives : \/ Backed(d)
                       \/ pass = 1 /\ (begun => \E i \in DOMAIN todo : todo[i].root = d)

\* Links are staged under --root, after the root pass.
StagedByRoot == staged # {} => "root" \in enabled /\ pass # 1

Rooted == TodoKinds /\ TargetsRight /\ RootRecord /\ DrivesBacked /\ StagedByRoot

LaunchIsLast == outcome = "launch" => pass = 11

IInv == /\ TypeOK
        /\ EarlyTodo
        /\ EarlyRecord
        /\ TempsServed
        /\ RecordCovers
        /\ RecordIsHonest
        /\ StagedServed
        /\ LaunchIsLast
        /\ Rooted
        /\ CollisionNeedsTwoSpellings

\* Nothing is mapped or recorded when the mapping phase begins.
LEMMA InitHolds == Init => IInv
<1> SUFFICES ASSUME Init PROVE IInv
  OBVIOUS
<1>1. TypeOK
  <2>1. enabled \in SUBSET PassNames
    BY DEF Init, Flags
  <2>2. pass \in DOMAIN Passes
    BY PassFacts DEF Init
  <2>3. begun \in BOOLEAN
    BY DEF Init
  <2>6. todo \in Seq(Item)
    <3>1. todo = <<>>
      BY DEF Init
    <3> QED
      BY <3>1
  <2>4. /\ DOMAIN view \in SUBSET Paths
        /\ \A p \in DOMAIN view : view[p] \in Targets
    BY DEF Init
  <2>5. /\ mapped \in SUBSET Paths /\ staged \in SUBSET LinkPaths /\ temps \in SUBSET Paths
        /\ outcome \in {"mapping", "launch", "failed", "collision"}
    BY DEF Init
  <2> QED
    BY <2>1, <2>2, <2>3, <2>4, <2>5, <2>6 DEF TypeOK
<1>2. EarlyTodo /\ EarlyRecord /\ TempsServed /\ RecordCovers
  BY DEF Init, EarlyTodo, EarlyRecord, TempsServed, RecordCovers
<1>3. RecordIsHonest /\ StagedServed /\ LaunchIsLast /\ CollisionNeedsTwoSpellings
  BY DEF Init, RecordIsHonest, StagedServed, LaunchIsLast, CollisionNeedsTwoSpellings
<1>4. Rooted
  BY DEF Init, Rooted, TodoKinds, TargetsRight, RootRecord, DrivesBacked, StagedByRoot
<1> QED
  BY <1>1, <1>2, <1>3, <1>4 DEF IInv

\* A mapping that is added hides no other: what was served or shielded stays so.
LEMMA ViewGrows ==
  ASSUME IInv, NEW root \in Paths, NEW target \in Targets, ~Taken(root),
         view' = With(root, target)
  PROVE  /\ DOMAIN view' = DOMAIN view \cup {Resolve[root]}
         /\ DOMAIN view' \in SUBSET Paths
         /\ \A p \in DOMAIN view' : view'[p] \in Targets
         /\ \A p \in Paths : Served(p) => Served(p)' /\ (LeadsOut(p)' <=> LeadsOut(p))
         /\ \A p \in Paths : Shielded(p) => Shielded(p)'
         /\ \A d : Backed(d) => Backed(d)'
         /\ \A q \in DOMAIN view' : \/ q \in DOMAIN view /\ view'[q] = view[q]
                                    \/ q = Resolve[root] /\ view'[q] = target
         /\ Served(root)' /\ view'[Resolve[root]] = target
         /\ target = "temp" => Shielded(root)'
<1>1. /\ DOMAIN view \in SUBSET Paths /\ \A p \in DOMAIN view : view[p] \in Targets
      /\ Resolve[root] \in Paths \ DOMAIN view
  BY PathsAssumption DEF IInv, TypeOK, Taken
<1>2. /\ DOMAIN view' = DOMAIN view \cup {Resolve[root]}
      /\ \A q \in DOMAIN view : view'[q] = view[q]
      /\ view'[Resolve[root]] = target
  BY <1>1 DEF With
<1>3. /\ DOMAIN view' \in SUBSET Paths
      /\ \A p \in DOMAIN view' : view'[p] \in Targets
      /\ \A q \in DOMAIN view' : \/ q \in DOMAIN view /\ view'[q] = view[q]
                                 \/ q = Resolve[root] /\ view'[q] = target
  BY <1>1, <1>2
<1>4. /\ \A p \in Paths : Served(p) => Served(p)' /\ (LeadsOut(p)' <=> LeadsOut(p))
      /\ Served(root)'
  BY <1>2 DEF Served, LeadsOut
<1>5. /\ \A p \in Paths : Shielded(p) => Shielded(p)'
      /\ \A d : Backed(d) => Backed(d)'
      /\ target = "temp" => Shielded(root)'
  BY <1>2 DEF Shielded, Backed
<1> QED
  BY <1>2, <1>3, <1>4, <1>5


-----------------------------------------------------------------------------
(* Every action keeps the inductive invariant.                             *)

\* A pass that begins asks for items, and reads %TEMP% and %TMP% if it is temp.
LEMMA BeginPassKeeps == IInv /\ BeginPass => IInv'
<1> SUFFICES ASSUME IInv, BeginPass PROVE IInv'
  OBVIOUS
<1>1. PICK asked \in Requests(Name) :
        /\ todo' = asked
        /\ temps' = IF Name = "temp" THEN {asked[i].root : i \in DOMAIN asked} ELSE temps
  BY DEF BeginPass
<1>2. pass \in 1..11 /\ Name \in PassNames
  BY PassFacts DEF IInv, TypeOK, Name
<1>3. asked \in Seq(Item)
  BY <1>2, RequestsTyped
<1>4. \A i \in DOMAIN asked : asked[i].root \in Paths
  <2>1. \A i \in DOMAIN asked : asked[i] \in Item
    BY <1>3
  <2> QED
    BY <2>1 DEF Item
<1>5. Name = "temp" <=> pass = 3
  BY <1>2, PassFacts DEF Name
<1>6. TypeOK'
  BY <1>1, <1>3, <1>4 DEF BeginPass, IInv, TypeOK
<1>7. EarlyTodo'
  <2> SUFFICES ASSUME pass \in 1..3
               PROVE  \A i \in DOMAIN asked : /\ asked[i].kind = Passes[pass]
                                              /\ pass < 3 => asked[i].root \in Drives
    BY <1>1 DEF BeginPass, EarlyTodo
  <2> QED
    BY EarlyRequests DEF Name
<1>8. EarlyRecord' /\ RecordCovers' /\ RecordIsHonest' /\ StagedServed' /\ LaunchIsLast'
  BY DEF BeginPass, IInv, EarlyRecord, RecordCovers, RecordIsHonest, StagedServed,
     LaunchIsLast, Served, LeadsOut, Shielded
<1>9. TempsServed'
  BY <1>1, <1>5 DEF BeginPass, IInv, TempsServed, Shielded
<1>10. CollisionNeedsTwoSpellings'
  BY DEF BeginPass, CollisionNeedsTwoSpellings
<1>11. Rooted'
  <2>1. TodoKinds'
    BY <1>1, <1>2, RequestKinds DEF BeginPass, TodoKinds, Name
  <2>2. TargetsRight' /\ RootRecord' /\ StagedByRoot'
    BY DEF BeginPass, IInv, Rooted, TargetsRight, RootRecord, StagedByRoot, Backed
  <2>3. DrivesBacked'
    <3> SUFFICES ASSUME "root" \in enabled, NEW d \in Drives
                 PROVE  Backed(d) \/ (pass = 1 /\ \E i \in DOMAIN asked : asked[i].root = d)
      BY <1>1 DEF BeginPass, DrivesBacked, Backed
    <3>1. CASE Backed(d)
      BY <3>1
    <3>2. CASE pass = 1
      BY <3>2, PassFacts, EveryDriveAsked DEF Name
    <3> QED
      BY <3>1, <3>2 DEF BeginPass, IInv, Rooted, DrivesBacked
  <2> QED
    BY <2>1, <2>2, <2>3 DEF Rooted
<1> QED
  BY <1>6, <1>7, <1>8, <1>9, <1>10, <1>11 DEF IInv

\* A failure to begin ends the phase.
LEMMA PassFailsKeeps == IInv /\ PassFails => IInv'
  BY DEF PassFails, Rooted, TodoKinds, TargetsRight, RootRecord, DrivesBacked, StagedByRoot,
     Backed, IInv, TypeOK, EarlyTodo, EarlyRecord, TempsServed, RecordCovers,
     RecordIsHonest, StagedServed, LaunchIsLast, CollisionNeedsTwoSpellings, Served, LeadsOut, Shielded

\* A pass that is over leaves no request behind.
LEMMA EndPassKeeps == IInv /\ EndPass => IInv'
<1> SUFFICES ASSUME IInv, EndPass PROVE IInv'
  OBVIOUS
<1>1. pass \in 1..11
  BY PassFacts DEF IInv, TypeOK
<1>2. /\ pass' \in 1..11 /\ (pass' = pass \/ pass' = pass + 1)
      /\ pass' = pass => pass = 11
      /\ begun' \in BOOLEAN
      /\ outcome' = "launch" => pass' = 11
      /\ outcome' \in {"mapping", "launch"}
  <2>1. outcome = "mapping" /\ begun \in BOOLEAN
    BY DEF EndPass, IInv, TypeOK
  <2>2. CASE pass = 11
    BY <2>1, <2>2, PassFacts DEF EndPass
  <2>3. CASE pass # 11
    <3>1. pass' = pass + 1 /\ begun' = FALSE /\ outcome' = outcome
      BY <2>3, PassFacts DEF EndPass
    <3>2. pass + 1 \in 1..11
      BY <1>1, <2>3
    <3>3. begun' \in BOOLEAN
      BY <3>1
    <3>4. pass # pass + 1
      BY <1>1
    <3> QED
      BY <2>1, <3>1, <3>2, <3>3, <3>4
  <2> QED
    BY <2>2, <2>3
<1>3. TypeOK'
  BY <1>2, PassFacts DEF EndPass, IInv, TypeOK
<1>4. EarlyTodo' /\ EarlyRecord'
  BY <1>1, <1>2, PassFacts DEF EndPass, IInv, EarlyTodo, EarlyRecord, Shielded
<1>5. TempsServed'
  <2>1. \A t \in temps \ Drives : Shielded(t) \/ (begun /\ pass = 3 /\ todo # <<>>)
    BY DEF IInv, TempsServed
  <2>2. \A t \in temps \ Drives : Shielded(t)
    BY <2>1 DEF EndPass
  <2> QED
    BY <2>2 DEF EndPass, TempsServed, Shielded
<1>6. RecordCovers' /\ RecordIsHonest' /\ StagedServed' /\ LaunchIsLast'
  BY <1>2 DEF EndPass, IInv, RecordCovers, RecordIsHonest, StagedServed, LaunchIsLast, Served, LeadsOut
<1>7. CollisionNeedsTwoSpellings'
  BY <1>2 DEF CollisionNeedsTwoSpellings
<1>8. Rooted'
  <2>1. pass' # 1 /\ (pass = 11 => pass' = 11)
    BY <1>1, <1>2
  <2>2. TodoKinds'
    BY PassFacts DEF EndPass, IInv, TypeOK, Rooted, TodoKinds
  <2>3. TargetsRight' /\ RootRecord' /\ StagedByRoot'
    BY <2>1 DEF EndPass, IInv, Rooted, TargetsRight, RootRecord, StagedByRoot
  <2>4. DrivesBacked'
    <3> SUFFICES ASSUME "root" \in enabled, NEW d \in Drives
                 PROVE  Backed(d)
      BY DEF EndPass, DrivesBacked, Backed
    <3>1. \/ Backed(d)
          \/ pass = 1 /\ (begun => \E i \in DOMAIN todo : todo[i].root = d)
      BY DEF EndPass, IInv, Rooted, DrivesBacked
    <3>2. ~(pass = 1 /\ (begun => \E i \in DOMAIN todo : todo[i].root = d))
      BY PassFacts DEF EndPass, Name
    <3> QED
      BY <3>1, <3>2
  <2> QED
    BY <2>2, <2>3, <2>4 DEF Rooted
<1> QED
  BY <1>3, <1>4, <1>5, <1>6, <1>7, <1>8 DEF IInv

\* What dropping the first request leaves of the early requests.
LEMMA TailKeeps ==
  ASSUME IInv, todo # <<>>, todo' = Tail(todo), UNCHANGED <<pass, begun>>
  PROVE  EarlyTodo' /\ todo' \in Seq(Item)
  BY TodoFacts DEF IInv, TypeOK, EarlyTodo

\* A temporary directory that was to be mapped next is dealt with, the others
\* are still to be mapped.
LEMMA TempsStay ==
  ASSUME IInv, todo # <<>>, todo' = Tail(todo), UNCHANGED <<pass, begun, temps>>,
         \A p \in Paths : Shielded(p) => Shielded(p)',
         NEW first \in Paths, first = Next1.root,
         pass = 3 /\ first \notin Drives => Shielded(first)'
  PROVE  TempsServed'
<1> SUFFICES ASSUME NEW t \in temps \ Drives
             PROVE  \/ Shielded(t)'
                    \/ pass = 3 /\ begun /\ \E i \in DOMAIN Tail(todo) : Tail(todo)[i].root = t
  BY DEF TempsServed
<1>1. t \in Paths
  BY DEF IInv, TypeOK
<1>2. CASE Shielded(t)
  BY <1>1, <1>2
<1>3. CASE ~Shielded(t)
  <2>1. pass = 3 /\ begun /\ \E i \in DOMAIN todo : todo[i].root = t
    BY <1>3 DEF IInv, TempsServed
  <2>2. PICK i \in DOMAIN todo : todo[i].root = t
    BY <2>1
  <2>3. CASE i = 1
    <3>1. first = t
      BY <2>2, <2>3, TodoFacts DEF IInv, TypeOK, Next1
    <3> QED
      BY <2>1, <3>1
  <2>4. CASE i # 1
    <3>1. \E j \in DOMAIN Tail(todo) : Tail(todo)[j] = todo[i]
      BY <2>4, TodoFacts DEF IInv, TypeOK
    <3> QED
      BY <2>1, <2>2, <3>1
  <2> QED
    BY <2>3, <2>4
<1> QED
  BY <1>2, <1>3

\* A request of the first passes is of the pass's kind.
LEMMA EarlyKind ==
  ASSUME IInv, Asking(Kinds), pass \in 1..3
  PROVE  /\ Next1.kind = Passes[pass]
         /\ pass < 3 => Next1.root \in Drives
         /\ Next1.kind \in {"root", "readonly", "temp"}
         /\ pass = 3 => Next1.kind = "temp"
  BY TodoFacts, PassFacts DEF IInv, TypeOK, EarlyTodo, Asking, Next1

\* Requests of three kinds are made by one pass each.
LEMMA KindPass ==
  ASSUME IInv, Asking(Kinds)
  PROVE  /\ Next1.kind = "root" => pass = 1
         /\ Next1.kind = "path" => pass = 4
         /\ Next1.kind = "link" => pass = 11
  BY TodoFacts, PassFacts DEF IInv, TypeOK, Rooted, TodoKinds, Asking, Next1

\* What dropping the first request leaves of the invariant of the root pass, if
\* that pass has mapped it.
LEMMA RootedOn ==
  ASSUME IInv, Asking(Kinds), todo' = Tail(todo),
         UNCHANGED <<enabled, pass, begun, outcome>>,
         NEW first \in Paths, first = Next1.root,
         \A d : Backed(d) => Backed(d)',
         pass = 1 => Backed(first)' /\ mapped' \subseteq mapped \cup {first},
         TargetsRight', StagedByRoot'
  PROVE  Rooted'
<1>1. todo \in Seq(Item) /\ todo # <<>> /\ begun
  BY DEF IInv, TypeOK, Asking
<1>2. TodoKinds'
  BY <1>1, TodoFacts DEF IInv, Rooted, TodoKinds
<1>3. RootRecord'
  BY DEF IInv, Rooted, RootRecord
<1>4. DrivesBacked'
  <2> SUFFICES ASSUME "root" \in enabled, outcome \in {"mapping", "launch"},
                      NEW d \in Drives
               PROVE  Backed(d)' \/ (pass = 1 /\ \E i \in DOMAIN todo' : todo'[i].root = d)
    BY DEF DrivesBacked
  <2>1. CASE Backed(d)
    BY <2>1
  <2>2. CASE pass = 1 /\ \E i \in DOMAIN todo : todo[i].root = d
    <3>1. PICK i \in DOMAIN todo : todo[i].root = d
      BY <2>2
    <3>2. CASE i = 1
      BY <1>1, <2>2, <3>1, <3>2, TodoFacts DEF Next1
    <3>3. CASE i # 1
      BY <1>1, <2>2, <3>1, <3>3, TodoFacts
    <3> QED
      BY <3>2, <3>3
  <2> QED
    BY <1>1, <2>1, <2>2 DEF IInv, Rooted, DrivesBacked
<1> QED
  BY <1>2, <1>3, <1>4 DEF Rooted

\* Skipping what the record holds or what cannot be mapped.
LEMMA SkipKeeps == IInv /\ Skip => IInv'
<1> SUFFICES ASSUME IInv, Skip PROVE IInv'
  OBVIOUS
<1>1. Asking(Kinds) /\ todo # <<>> /\ todo' = Tail(todo)
  BY DEF Skip, Asking
<1>2. UNCHANGED <<enabled, pass, begun, mapped, view, staged, temps, outcome>>
  BY DEF Skip
<1>3. TypeOK' /\ EarlyTodo'
  BY <1>1, <1>2, TailKeeps DEF IInv, TypeOK
<1>4. EarlyRecord' /\ RecordCovers' /\ RecordIsHonest' /\ StagedServed' /\ LaunchIsLast'
  BY <1>2 DEF IInv, EarlyRecord, RecordCovers, RecordIsHonest, StagedServed, LaunchIsLast,
     Served, LeadsOut, Shielded
<1>5. TempsServed'
  <2>1. \A p \in Paths : Shielded(p) => Shielded(p)'
    BY <1>2 DEF Shielded
  <2>0. PICK first \in Paths : first = Next1.root
    BY <1>1, TodoFacts DEF IInv, TypeOK, Next1
  <2>2. pass = 3 /\ first \notin Drives => Shielded(first)
    <3> SUFFICES ASSUME pass = 3, first \notin Drives
                 PROVE  Shielded(first)
      OBVIOUS
    <3>1. first \in mapped
      BY <2>0 DEF Skip, Unmappable
    <3> QED
      BY <3>1 DEF IInv, EarlyRecord
  <2> QED
    BY <1>1, <1>2, <2>0, <2>1, <2>2, TempsStay
<1>6. CollisionNeedsTwoSpellings'
  BY <1>1, <1>2 DEF Asking, CollisionNeedsTwoSpellings
<1>7. Rooted'
  <2>1. PICK first \in Paths : first = Next1.root
    BY <1>1, TodoFacts DEF IInv, TypeOK, Next1
  <2>2. pass = 1 => first \in mapped
    BY <1>1, <2>1, EarlyKind, PassFacts DEF Skip, Unmappable
  <2>3. pass = 1 => Backed(first)
    BY <2>2 DEF IInv, Rooted, RootRecord
  <2>4. TargetsRight' /\ StagedByRoot' /\ \A d : Backed(d) => Backed(d)'
    BY <1>2 DEF IInv, Rooted, TargetsRight, StagedByRoot, Backed
  <2> QED
    BY <1>1, <1>2, <2>1, <2>3, <2>4, RootedOn
<1> QED
  BY <1>3, <1>4, <1>5, <1>6, <1>7 DEF IInv

\* Skipping what is not there on the host.
LEMMA SkipAbsentKeeps == IInv /\ SkipAbsent => IInv'
<1> SUFFICES ASSUME IInv, SkipAbsent PROVE IInv'
  OBVIOUS
<1>1. /\ Asking({"path", "state", "powershell"}) /\ todo # <<>> /\ todo' = Tail(todo)
      /\ outcome = "mapping" /\ begun
      /\ Asking(Kinds)
  BY PassFacts DEF SkipAbsent, Asking, Kinds
<1>2. UNCHANGED <<enabled, pass, begun, mapped, view, staged, temps, outcome>>
  BY DEF SkipAbsent
<1>3. TypeOK' /\ EarlyTodo'
  BY <1>1, <1>2, TailKeeps DEF IInv, TypeOK
<1>4. EarlyRecord' /\ RecordCovers' /\ RecordIsHonest' /\ StagedServed' /\ LaunchIsLast'
  BY <1>2 DEF IInv, EarlyRecord, RecordCovers, RecordIsHonest, StagedServed, LaunchIsLast,
     Served, LeadsOut, Shielded
<1>5. TempsServed'
  <2>1. \A p \in Paths : Shielded(p) => Shielded(p)'
    BY <1>2 DEF Shielded
  <2>0. PICK first \in Paths : first = Next1.root
    BY <1>1, TodoFacts DEF IInv, TypeOK, Next1
  <2>2. pass # 3
    BY <1>1, EarlyKind DEF Asking
  <2> QED
    BY <1>1, <1>2, <2>0, <2>1, <2>2, TempsStay
<1>6. CollisionNeedsTwoSpellings'
  BY <1>1, <1>2 DEF CollisionNeedsTwoSpellings
<1>7. Rooted'
  <2>1. PICK first \in Paths : first = Next1.root
    BY <1>1, TodoFacts DEF IInv, TypeOK, Next1
  <2>2. pass # 1
    BY <1>1, EarlyKind DEF Asking
  <2>3. TargetsRight' /\ StagedByRoot' /\ \A d : Backed(d) => Backed(d)'
    BY <1>2 DEF IInv, Rooted, TargetsRight, StagedByRoot, Backed
  <2> QED
    BY <1>1, <1>2, <2>1, <2>2, <2>3, RootedOn
<1> QED
  BY <1>3, <1>4, <1>5, <1>6, <1>7 DEF IInv

\* An alias is recorded without being served: RecordIsHonest sets it aside.
LEMMA SkipAliasKeeps == IInv /\ SkipAlias => IInv'
<1> SUFFICES ASSUME IInv, SkipAlias PROVE IInv'
  OBVIOUS
<1>1. /\ Asking({"link"}) /\ todo # <<>> /\ todo' = Tail(todo)
      /\ outcome = "mapping" /\ begun
      /\ Asking(Kinds)
  BY PassFacts DEF SkipAlias, Asking, Kinds
<1>2. /\ UNCHANGED <<enabled, pass, begun, view, staged, temps, outcome>>
      /\ mapped' = mapped \cup {Next1.root}
      /\ Next1.root \in AliasPaths
  BY DEF SkipAlias
<1>3. TypeOK' /\ EarlyTodo'
  BY <1>1, <1>2, TailKeeps, PathsAssumption DEF IInv, TypeOK
<1>4. pass \notin 1..3
  BY <1>1, EarlyKind DEF Asking
<1>5. EarlyRecord'
  BY <1>2, <1>4 DEF EarlyRecord
<1>6. RecordCovers' /\ RecordIsHonest' /\ StagedServed' /\ LaunchIsLast'
  BY <1>2 DEF IInv, RecordCovers, RecordIsHonest, StagedServed, LaunchIsLast, Served, LeadsOut
<1>7. TempsServed'
  <2>1. \A p \in Paths : Shielded(p) => Shielded(p)'
    BY <1>2 DEF Shielded
  <2>0. PICK first \in Paths : first = Next1.root
    BY <1>1, TodoFacts DEF IInv, TypeOK, Next1
  <2> QED
    BY <1>1, <1>2, <1>4, <2>0, <2>1, TempsStay
<1>8. CollisionNeedsTwoSpellings'
  BY <1>1, <1>2 DEF CollisionNeedsTwoSpellings
<1>9. Rooted'
  <2>1. PICK first \in Paths : first = Next1.root
    BY <1>1, TodoFacts DEF IInv, TypeOK, Next1
  <2>2. TargetsRight' /\ StagedByRoot' /\ \A d : Backed(d) => Backed(d)'
    BY <1>2 DEF IInv, Rooted, TargetsRight, StagedByRoot, Backed
  <2> QED
    BY <1>1, <1>2, <1>4, <2>1, <2>2, RootedOn
<1> QED
  BY <1>3, <1>5, <1>6, <1>7, <1>8, <1>9 DEF IInv


\* What a staged link leads to is served, if only by the empty tree.
LEMMA StagedAreServed ==
  ASSUME IInv, outcome = "mapping", NEW p \in staged
  PROVE  Served(p)
<1>1. "root" \in enabled /\ pass # 1
  BY DEF IInv, Rooted, StagedByRoot
<1>2. LeadsOut(p) \/ Resolve[p] \in Drives
  BY DEF IInv, StagedServed
<1>3. Resolve[p] \in Drives => Backed(Resolve[p])
  BY <1>1 DEF IInv, Rooted, DrivesBacked
<1> QED
  BY <1>2, <1>3 DEF LeadsOut, Served, Backed

\* The mapping call succeeds: the new root is served, and shielded under temp.
LEMMA MapKeeps == IInv /\ Map => IInv'
<1> SUFFICES ASSUME IInv, Map PROVE IInv'
  OBVIOUS
<1>1. Asking(Kinds) /\ todo # <<>> /\ todo' = Tail(todo) /\ outcome = "mapping"
  BY DEF Map, Calls, Asking
<1>2. UNCHANGED <<enabled, pass, begun, staged, temps, outcome>>
  BY DEF Map
<1>3. PICK first \in Paths : first = Next1.root
  BY <1>1, TodoFacts DEF IInv, TypeOK, Next1
<1>4. PICK target \in Targets : target = TargetOf(Next1.kind)
  BY DEF TargetOf, Targets
<1>5. /\ ~Taken(first)
      /\ view' = With(first, target)
      /\ mapped' = mapped \cup {first}
  BY <1>3, <1>4 DEF Map
<1>6. /\ DOMAIN view' = DOMAIN view \cup {Resolve[first]}
      /\ DOMAIN view' \in SUBSET Paths
      /\ \A p \in DOMAIN view' : view'[p] \in Targets
      /\ \A p \in Paths : Served(p) => Served(p)' /\ (LeadsOut(p)' <=> LeadsOut(p))
      /\ \A p \in Paths : Shielded(p) => Shielded(p)'
      /\ \A d : Backed(d) => Backed(d)'
      /\ \A q \in DOMAIN view' : \/ q \in DOMAIN view /\ view'[q] = view[q]
                                 \/ q = Resolve[first] /\ view'[q] = target
      /\ Served(first)' /\ view'[Resolve[first]] = target
      /\ target = "temp" => Shielded(first)'
  BY <1>5, ViewGrows
<1>7. pass = 3 => Shielded(first)'
  BY <1>1, <1>4, <1>6, EarlyKind DEF TargetOf
<1>8. TypeOK' /\ EarlyTodo'
  BY <1>1, <1>2, <1>5, <1>6, TailKeeps DEF IInv, TypeOK
<1>9. EarlyRecord'
  <2> SUFFICES ASSUME pass \in 1..3, NEW p \in mapped' \ Drives PROVE Shielded(p)'
    BY <1>2 DEF EarlyRecord
  <2>1. CASE p \in mapped
    BY <2>1, <1>6 DEF IInv, TypeOK, EarlyRecord
  <2>2. CASE p = first
    BY <2>2, <1>1, <1>3, <1>7, EarlyKind
  <2> QED
    BY <1>5, <2>1, <2>2
<1>10. TempsServed'
  BY <1>1, <1>2, <1>3, <1>6, <1>7, TempsStay
<1>11. RecordCovers'
  BY <1>5, <1>6 DEF IInv, RecordCovers
<1>12. RecordIsHonest'
  BY <1>5, <1>6 DEF IInv, TypeOK, RecordIsHonest
<1>13. StagedServed' /\ LaunchIsLast'
  BY <1>1, <1>2, <1>6, PathsAssumption, StagedAreServed
  DEF IInv, TypeOK, StagedServed, LaunchIsLast
<1>14. CollisionNeedsTwoSpellings'
  BY <1>1, <1>2 DEF CollisionNeedsTwoSpellings
<1>15. Rooted'
  <2>1. target = "backing" => pass = 1 /\ first \in Drives
    BY <1>1, <1>3, <1>4, EarlyKind, KindPass DEF TargetOf
  <2>2. target = "user" => pass = 11
    BY <1>1, <1>4, KindPass DEF TargetOf
  <2>3. TargetsRight' /\ StagedByRoot'
    BY <1>2, <1>6, <2>1, <2>2, PathsAssumption DEF IInv, Rooted, TargetsRight, StagedByRoot
  <2>4. pass = 1 => Backed(first)'
    <3>1. pass = 1 => target = "backing" /\ first \in Drives
      BY <1>1, <1>3, <1>4, EarlyKind, PassFacts DEF TargetOf
    <3> QED
      BY <1>6, <3>1, PathsAssumption DEF Backed
  <2> QED
    BY <1>1, <1>2, <1>3, <1>5, <1>6, <2>3, <2>4, RootedOn
<1> QED
  BY <1>8, <1>9, <1>10, <1>11, <1>12, <1>13, <1>14, <1>15 DEF IInv

\* What the record does not hold and the filter has, it has under another
\* spelling.
LEMMA OtherSpelling ==
  ASSUME IInv, NEW root \in Paths, root \notin mapped, Taken(root)
  PROVE  \E p \in mapped : p # root /\ Resolve[p] = Resolve[root]
  BY DEF IInv, RecordCovers, Taken

\* A refused mapping call records nothing.
LEMMA MapFailsKeeps == IInv /\ MapFails => IInv'
<1> SUFFICES ASSUME IInv, MapFails PROVE IInv'
  OBVIOUS
<1>1. Asking(Kinds) /\ todo # <<>> /\ outcome = "mapping" /\ begun
  BY DEF MapFails, Calls, Asking
<1>2. UNCHANGED <<enabled, pass, begun, mapped, view, staged, temps>>
  BY DEF MapFails
<1>3. RecordCovers' /\ RecordIsHonest' /\ EarlyRecord'
  BY <1>2 DEF IInv, RecordCovers, RecordIsHonest, EarlyRecord, Served, Shielded
<1>4. CASE Next1.kind \in BestEffort
  <2>1. pass \notin 1..3
    BY <1>1, <1>4, EarlyKind DEF BestEffort
  <2>2. todo' \in Seq(Item) /\ outcome' = outcome
    <3>1. Tail(todo) \in Seq(Item)
      BY <1>1, TodoFacts DEF IInv, TypeOK
    <3>2. StateNext => Tail(todo) # <<>> /\ Tail(Tail(todo)) \in Seq(Item)
      <4>1. todo \in Seq(Item)
        BY DEF IInv, TypeOK
      <4>2. StateNext => Tail(todo) # <<>>
        BY <1>1, <4>1, TodoFacts DEF StateNext
      <4> QED
        BY <3>1, <4>2, TodoFacts
    <3>3. todo' = AfterError /\ outcome' = outcome
      BY <1>4 DEF MapFails
    <3> QED
      BY <3>1, <3>2, <3>3 DEF AfterError
  <2>3. TypeOK' /\ EarlyTodo'
    BY <1>2, <2>1, <2>2 DEF IInv, TypeOK, EarlyTodo
  <2>4. TempsServed'
    BY <1>2, <2>1 DEF IInv, TempsServed, Shielded
  <2>5. StagedServed' /\ LaunchIsLast'
    BY <1>2, <2>2 DEF IInv, StagedServed, LaunchIsLast, Served, LeadsOut
  <2>6. CollisionNeedsTwoSpellings'
    BY <1>1, <2>2 DEF CollisionNeedsTwoSpellings
  <2>7. TodoKinds'
    <3>1. \A i \in DOMAIN todo' : \E j \in DOMAIN todo : todo'[i] = todo[j]
      <4>1. \A i \in DOMAIN Tail(todo) : \E j \in DOMAIN todo : Tail(todo)[i] = todo[j]
        BY <1>1, TodoFacts DEF IInv, TypeOK
      <4>2. CASE StateNext
        <5>0. todo \in Seq(Item)
          BY DEF IInv, TypeOK
        <5>1. Tail(todo) # <<>> /\ Tail(todo) \in Seq(Item)
          BY <1>1, <4>2, <5>0, TodoFacts DEF StateNext
        <5>2. \A i \in DOMAIN Tail(Tail(todo)) :
                 \E j \in DOMAIN Tail(todo) : Tail(Tail(todo))[i] = Tail(todo)[j]
          BY <5>1, TodoFacts
        <5>3. todo' \in {Tail(todo), Tail(Tail(todo))}
          BY <1>4 DEF MapFails, AfterError
        <5>4. CASE todo' = Tail(todo)
          BY <4>1, <5>4
        <5>5. CASE todo' = Tail(Tail(todo))
          <6> SUFFICES ASSUME NEW i \in DOMAIN Tail(Tail(todo))
                       PROVE  \E j \in DOMAIN todo : Tail(Tail(todo))[i] = todo[j]
            BY <5>5
          <6>1. PICK k \in DOMAIN Tail(todo) : Tail(Tail(todo))[i] = Tail(todo)[k]
            BY <5>2
          <6> QED
            BY <4>1, <6>1
        <5> QED
          BY <5>3, <5>4, <5>5
      <4>3. CASE ~StateNext
        BY <1>4, <4>1, <4>3 DEF MapFails, AfterError
      <4> QED
        BY <4>2, <4>3
    <3> QED
      BY <1>1, <1>2, <3>1 DEF IInv, Rooted, TodoKinds
  <2>8. Rooted'
    BY <1>2, <2>1, <2>2, <2>7
    DEF IInv, Rooted, TargetsRight, RootRecord, DrivesBacked, StagedByRoot, Backed
  <2> QED
    BY <1>3, <2>3, <2>4, <2>5, <2>6, <2>8 DEF IInv
<1>5. CASE Next1.kind \notin BestEffort
  <2>1. /\ todo' = todo
        /\ outcome' = IF Taken(Next1.root) THEN "collision" ELSE "failed"
    BY <1>5 DEF MapFails
  <2>2. TypeOK' /\ EarlyTodo' /\ TempsServed'
    BY <1>2, <2>1 DEF IInv, TypeOK, EarlyTodo, TempsServed, Shielded
  <2>3. StagedServed' /\ LaunchIsLast'
    BY <2>1 DEF StagedServed, LaunchIsLast
  <2>4. CollisionNeedsTwoSpellings'
    <3> SUFFICES ASSUME Taken(Next1.root)
                 PROVE  \E p \in mapped : p # Wanted' /\ Resolve[p] = Resolve[Wanted']
      BY <1>2, <2>1 DEF CollisionNeedsTwoSpellings
    <3>1. Wanted' = Next1.root
      BY <1>2, <2>1 DEF MapFails, Calls, Wanted, Next1
    <3>2. Next1.root \in Paths \ mapped
      BY <1>1, TodoFacts DEF MapFails, Calls, IInv, TypeOK, Next1
    <3> QED
      BY <3>1, <3>2, OtherSpelling
  <2>5. Rooted'
    BY <1>2, <2>1
    DEF IInv, Rooted, TodoKinds, TargetsRight, RootRecord, DrivesBacked, StagedByRoot, Backed
  <2> QED
    BY <1>3, <2>2, <2>3, <2>4, <2>5 DEF IInv
<1> QED
  BY <1>4, <1>5


\* A link to be staged comes after the first passes and does not lead to an
\* alias.
LEMMA StagedFacts ==
  ASSUME IInv, StagesLink
  PROVE  /\ Asking(Kinds) /\ todo # <<>> /\ outcome = "mapping"
         /\ pass \notin 1..3 /\ pass # 11 /\ "root" \in enabled
         /\ Next1.root \in LinkPaths /\ Next1.root \in Paths
         /\ Resolve[Next1.root] \in Paths \ AliasPaths
         /\ Resolve[Resolve[Next1.root]] = Resolve[Next1.root]
<1>1. Asking(Kinds) /\ todo # <<>> /\ outcome = "mapping" /\ Next1.kind = "path"
  BY PassFacts DEF StagesLink, Asking, Kinds
<1>2. pass \notin 1..3 /\ pass # 11
  BY <1>1, EarlyKind, KindPass
<1> QED
  BY <1>1, <1>2, TodoFacts, PathsAssumption DEF StagesLink, IInv, TypeOK, Next1

\* A staged link leads to what the filter has or is given now.
LEMMA StageLinkKeeps == IInv /\ StageLink => IInv'
<1> SUFFICES ASSUME IInv, StageLink PROVE IInv'
  OBVIOUS
<1>1. /\ StagesLink /\ todo' = Tail(todo)
      /\ UNCHANGED <<enabled, pass, begun, temps, outcome>>
  BY DEF StageLink
<1>2. PICK link \in LinkPaths \cap Paths : link = Next1.root
  BY <1>1, StagedFacts
<1>3. PICK to \in Paths \ AliasPaths : to = Resolve[link] /\ Resolve[to] = to
  BY <1>1, <1>2, StagedFacts
<1>4. staged' = staged \cup {link}
  BY <1>2 DEF StageLink
<1>5. \/ /\ to \in Drives \cup mapped
         /\ view' = view
         /\ mapped' = mapped \cup {link}
      \/ /\ ~Taken(to)
         /\ view' = With(to, "host")
         /\ mapped' = mapped \cup {to, link}
  BY <1>2, <1>3 DEF StageLink
<1>6. /\ DOMAIN view' \in SUBSET Paths
      /\ \A p \in DOMAIN view' : view'[p] \in Targets
      /\ \A p \in Paths : Served(p) => Served(p)' /\ (LeadsOut(p)' <=> LeadsOut(p))
      /\ \A p \in Paths : Shielded(p) => Shielded(p)'
      /\ \A d : Backed(d) => Backed(d)'
      /\ \A q \in DOMAIN view' : (q \in DOMAIN view /\ view'[q] = view[q]) \/ view'[q] = "host"
  <2>1. CASE view' = view
    BY <2>1 DEF IInv, TypeOK, Served, LeadsOut, Shielded, Backed
  <2>2. CASE ~Taken(to) /\ view' = With(to, "host")
    BY <2>2, ViewGrows DEF Targets
  <2> QED
    BY <1>5, <2>1, <2>2
<1>7. Served(to)' /\ (LeadsOut(to)' <=> to \notin Drives)
  <2>1. CASE to \in Drives
    <3>1. Backed(to)
      BY <1>1, <2>1, StagedFacts, PathsAssumption DEF IInv, Rooted, DrivesBacked
    <3>2. Served(to) /\ ~LeadsOut(to)
      BY <1>3, <3>1 DEF Backed, Served, LeadsOut
    <3> QED
      BY <1>6, <2>1, <3>2
  <2>2. CASE to \in mapped \ Drives /\ view' = view
    <3>1. Served(to) /\ to \in DOMAIN view
      BY <1>3, <2>2 DEF IInv, TypeOK, RecordIsHonest, Served
    <3>2. view[to] \in Targets /\ view[to] # "backing" /\ view[to] # "user"
      BY <1>1, <2>2, <3>1, StagedFacts DEF IInv, TypeOK, Rooted, TargetsRight
    <3>3. LeadsOut(to)
      BY <1>3, <3>1, <3>2 DEF LeadsOut, Targets
    <3> QED
      BY <1>6, <2>2, <3>1, <3>3
  <2>3. CASE ~Taken(to) /\ view' = With(to, "host") /\ to \notin Drives
    BY <1>3, <2>3, ViewGrows DEF Targets, LeadsOut
  <2> QED
    BY <1>2, <1>3, <2>1, <2>2, <2>3 DEF StageLink
<1>8. Served(link)' /\ (LeadsOut(link)' <=> Resolve[link] \notin Drives)
  BY <1>3, <1>7 DEF Served, LeadsOut
<1>9. mapped' \subseteq mapped \cup {to, link} /\ mapped \subseteq mapped'
  BY <1>5
<1>10. TypeOK' /\ EarlyTodo'
  BY <1>1, <1>4, <1>6, <1>9, StagedFacts, TailKeeps DEF IInv, TypeOK
<1>11. EarlyRecord'
  BY <1>1, StagedFacts DEF EarlyRecord
<1>12. TempsServed'
  BY <1>1, <1>2, <1>6, StagedFacts, TempsStay
<1>13. RecordCovers'
  <2>1. CASE view' = view
    BY <1>9, <2>1 DEF IInv, RecordCovers
  <2>2. CASE ~Taken(to) /\ view' = With(to, "host") /\ mapped' = mapped \cup {to, link}
    <3>1. DOMAIN view' = DOMAIN view \cup {Resolve[to]}
      BY <2>2, ViewGrows DEF Targets
    <3> QED
      BY <2>2, <3>1 DEF IInv, RecordCovers
  <2> QED
    BY <1>5, <2>1, <2>2
<1>14. RecordIsHonest'
  BY <1>6, <1>7, <1>8, <1>9 DEF IInv, TypeOK, RecordIsHonest
<1>15. StagedServed' /\ LaunchIsLast'
  BY <1>1, <1>4, <1>6, <1>8, StagedFacts, StagedAreServed, PathsAssumption
  DEF IInv, TypeOK, StagedServed, LaunchIsLast
<1>16. CollisionNeedsTwoSpellings'
  BY <1>1, StagedFacts DEF CollisionNeedsTwoSpellings
<1>17. Rooted'
  <2>1. TargetsRight'
    BY <1>1, <1>6 DEF IInv, Rooted, TargetsRight
  <2>2. StagedByRoot'
    BY <1>1, StagedFacts DEF StagedByRoot
  <2> QED
    BY <1>1, <1>2, <1>6, <2>1, <2>2, StagedFacts, RootedOn
<1> QED
  BY <1>10, <1>11, <1>12, <1>13, <1>14, <1>15, <1>16, <1>17 DEF IInv

\* A link that cannot be staged, or whose target is refused, ends the phase.
LEMMA StageLinkFailsKeeps == IInv /\ StageLinkFails => IInv'
<1> SUFFICES ASSUME IInv, StageLinkFails PROVE IInv'
  OBVIOUS
<1>1. UNCHANGED <<enabled, pass, begun, todo, mapped, view, temps>>
  BY DEF StageLinkFails
<1>2. /\ outcome' \in {"failed", "collision"}
      /\ \/ staged' = staged /\ outcome' = "failed"
         \/ /\ StagesLink
            /\ staged' = staged \cup {Next1.root}
            /\ outcome' = "collision" => /\ Resolve[Next1.root] \notin mapped
                                         /\ Taken(Resolve[Next1.root])
  BY DEF StageLinkFails
<1>3. TypeOK'
  BY <1>1, <1>2, StagedFacts DEF IInv, TypeOK
<1>4. EarlyTodo' /\ EarlyRecord' /\ TempsServed' /\ RecordCovers' /\ RecordIsHonest'
  BY <1>1 DEF IInv, EarlyTodo, EarlyRecord, TempsServed, RecordCovers, RecordIsHonest,
     Served, Shielded
<1>5. StagedServed' /\ LaunchIsLast'
  BY <1>2 DEF StagedServed, LaunchIsLast
<1>6. CollisionNeedsTwoSpellings'
  <2> SUFFICES ASSUME outcome' = "collision"
               PROVE  \E p \in mapped : p # Wanted' /\ Resolve[p] = Resolve[Wanted']
    BY <1>1 DEF CollisionNeedsTwoSpellings
  <2>1. StagesLink /\ Wanted' = Resolve[Next1.root]
    BY <1>1, <1>2 DEF StagesLink, Asking, Wanted, Next1
  <2> QED
    BY <1>1, <1>2, <2>1, StagedFacts, OtherSpelling
<1>7. Rooted'
  <2>1. StagedByRoot'
    BY <1>1, <1>2, StagedFacts DEF IInv, Rooted, StagedByRoot
  <2> QED
    BY <1>1, <1>2, <2>1
    DEF IInv, Rooted, TodoKinds, TargetsRight, RootRecord, DrivesBacked, Backed
<1> QED
  BY <1>3, <1>4, <1>5, <1>6, <1>7 DEF IInv

\* Nothing happens.
LEMMA StutterKeeps == IInv /\ UNCHANGED vars => IInv'
  BY DEF vars, IInv, TypeOK, EarlyTodo, EarlyRecord, TempsServed, RecordCovers, RecordIsHonest,
     StagedServed, LaunchIsLast, CollisionNeedsTwoSpellings, Wanted, Next1, Served, LeadsOut,
     Shielded, Rooted, TodoKinds, TargetsRight, RootRecord, DrivesBacked, StagedByRoot, Backed

\* Every step keeps the inductive invariant.
LEMMA NextKeeps == IInv /\ [Next]_vars => IInv'
  BY BeginPassKeeps, PassFailsKeeps, EndPassKeeps, SkipKeeps, SkipAbsentKeeps, SkipAliasKeeps,
     MapKeeps, MapFailsKeeps, StageLinkKeeps, StageLinkFailsKeeps, StutterKeeps DEF Next

-----------------------------------------------------------------------------

\* The inductive invariant holds in every reachable state.
THEOREM Invariance == Spec => []IInv
  BY InitHolds, NextKeeps, PTL DEF Spec

\* The mapping phase keeps its variables in their types.
THEOREM TypeCorrect == Spec => []TypeOK
<1>1. IInv => TypeOK BY DEF IInv
<1> QED BY <1>1, Invariance, PTL

\* What exec skips as already mapped is mapped, for any environment.
THEOREM RecordIsHonestHolds == Spec => []RecordIsHonest
<1>1. IInv => RecordIsHonest BY DEF IInv
<1> QED BY <1>1, Invariance, PTL

\* The command never runs with a host-backed temporary directory under the
\* PowerShell passthrough, for any environment.
THEOREM TempShieldedHolds == Spec => []TempShielded
<1>1. IInv => TempShielded
  BY DEF IInv, TempsServed, LaunchIsLast, TempShielded, Shielded
<1> QED BY <1>1, Invariance, PTL

\* Duplicate errors of the filter come from second spellings alone.
THEOREM CollisionNeedsTwoSpellingsHolds == Spec => []CollisionNeedsTwoSpellings
<1>1. IInv => CollisionNeedsTwoSpellings BY DEF IInv
<1> QED BY <1>1, Invariance, PTL

\* Links recreated under --root lead out of the backing tree once the command
\* runs, exactly if they do not lead to a drive root.
THEOREM LinksResolveHolds == Spec => []LinksResolve
<1>1. IInv => LinksResolve
  BY DEF IInv, StagedServed, LinksResolve
<1> QED BY <1>1, Invariance, PTL

=============================================================================
