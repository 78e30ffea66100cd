----------------------- MODULE SiloRefinement_proofs ------------------------
(***************************************************************************)
(* Proofs about SiloLifecycle, for every set of clients and every number   *)
(* of mapping calls: its own properties, and that it implements            *)
(* SiloContract.                                                           *)
(***************************************************************************)
EXTENDS SiloRefinement, TLAPS

-----------------------------------------------------------------------------
(* The lifecycle.                                                          *)

\* Where a launcher owns the job it works on.
Working == SetUp \cup Launching \cup Placing \cup {"waiting", "closing_ok"}

\* An exec works on the job it created, an entrant on one it opened; before
\* that a client has no handle.
OwnJob == /\ \A e \in Execs : pc[e] \in Working => handle[e] = e
          /\ \A l \in Launchers : pc[l] \in Working \cup {"query"} => handle[l] \in Jobs
          /\ \A c \in Clients : pc[c] \in {"idle", "create"} => handle[c] = NoJob

\* exec limits, promotes, maps and launches in that order.
InOrder == /\ \A e \in Execs : /\ pc[e] \in {"promote", "map"} => limit[e]
                               /\ pc[e] = "map" => silo[e]
                               /\ pc[e] \in Launching \cup Placing => mapped[e] = MapSteps
           /\ \A n \in Entrants : pc[n] = "inherit" => silo[handle[n]]
           /\ \A l \in Launchers : pc[l] \in Launching \cup Placing => silo[handle[l]]
           /\ \A j \in Jobs : silo[j] => limit[j]

\* Processes enter silos only, and run only there.
InSilo == \A p \in Procs : /\ member[p] \in Jobs => silo[member[p]]
                           /\ proc[p] = "running" => member[p] \in Jobs

\* What the launcher's position says about its command.
AtCommand ==
  \A l \in Launchers :
     /\ pc[l] \in SetUp \cup Launching \cup {"idle", "create", "query"}
           => proc[Command(l)] = "none"
     /\ pc[l] \in Placing => proc[Command(l)] # "none"
     /\ pc[l] = "resume" => member[Command(l)] = handle[l]
     /\ proc[Command(l)] = "suspended" => pc[l] \in Placing \cup {"crashed"}

\* The command of a detached launcher holds the job it runs in.
HoldsOwnJob ==
  \A l \in detached :
     /\ pc[l] \in (SetUp \ {"inherit"}) \cup Launching => inheritable[l]
     /\ pc[l] \in Placing /\ Live(Command(l)) => inherited[Command(l)] = handle[l]
     /\ proc[Command(l)] = "running" => inherited[Command(l)] = member[Command(l)]

\* A process can only have inherited a handle to the job it is in.
InheritsOwn ==
  /\ \A p \in Procs :
        /\ proc[p] = "none" => inherited[p] = NoJob /\ member[p] = NoJob
        /\ inherited[p] \in Jobs /\ member[p] \in Jobs => inherited[p] = member[p]
  /\ \A l \in Launchers : pc[l] \in Placing
        => inherited[Command(l)] \in {NoJob, handle[l]}

\* The inductive invariant.
IInv == /\ TypeOK
        /\ OwnJob /\ InOrder
        /\ InSilo /\ AtCommand /\ HoldsOwnJob /\ InheritsOwn
        /\ TreeIsHeld /\ OwnViewComplete

-----------------------------------------------------------------------------
(* The processes of a launcher are two, and no two launchers share one.    *)

\* A launcher has two processes of its own.
LEMMA ProcFacts ==
  /\ \A l \in Launchers : Command(l) \in Procs /\ Descendant(l) \in Procs
  /\ \A p \in Procs : \E l \in Launchers : p = Command(l) \/ p = Descendant(l)
  /\ \A l, m \in Launchers : /\ Command(l) = Command(m) => l = m
                             /\ Descendant(l) = Descendant(m) => l = m
                             /\ Command(l) # Descendant(m)
BY DEF Procs, Command, Descendant

-----------------------------------------------------------------------------
(* What letting go of handles does.                                        *)

\* Letting go of handles ends what the last handle held up, and changes nothing else.
LEMMA DropFacts ==
  ASSUME TypeOK, NEW C, NEW D, Drop(C, D)
  PROVE  /\ handle' \in [Clients -> Jobs \cup {NoJob}]
         /\ proc' \in [Procs -> {"none", "suspended", "running", "exited"}]
         /\ inherited' \in [Procs -> Jobs \cup {NoJob}]
         /\ \A c \in Clients : handle'[c] = IF c \in C THEN NoJob ELSE handle[c]
         /\ \A p \in Procs : \/ /\ proc'[p] = "exited"
                                /\ inherited'[p] = NoJob
                                /\ p \in D \cup KilledByClose(C, D)
                             \/ /\ proc'[p] = proc[p]
                                /\ inherited'[p] = inherited[p]
                                /\ p \notin D \cup KilledByClose(C, D)
BY DEF TypeOK, Drop

\* Whoever lets go, a process that is still alive in a job has a holder left.
LEMMA DropKeepsHolders ==
  ASSUME TypeOK, TreeIsHeld, InSilo, InOrder, InheritsOwn, member' = member,
         NEW C, NEW D, Drop(C, D)
  PROVE  TreeIsHeld'
<1> SUFFICES ASSUME NEW p \in Procs, Live(p)', member'[p] \in Jobs
             PROVE  Named(member[p])'
    BY DEF TreeIsHeld
<1> DEFINE j == member[p]
<1>1. Live(p) /\ p \notin D \cup KilledByClose(C, D)
    BY DropFacts DEF Live
<1>2. j \in Jobs /\ limit[j]
    BY DEF InSilo, InOrder
<1>3. ~LastClosed(j, C, D)
    BY <1>1, <1>2 DEF KilledByClose
<1>4. CASE \E c \in Clients : handle[c] = j /\ c \notin C
    BY <1>4, DropFacts DEF Named
<1>5. CASE \E q \in Procs : inherited[q] = j /\ q \notin D
  <2>1. PICK q \in Procs : inherited[q] = j /\ q \notin D
      BY <1>5
  <2>2. q \notin KilledByClose(C, D)
      BY <2>1, <1>2, <1>3 DEF KilledByClose, InheritsOwn
  <2>3. inherited'[q] = j
      BY <2>1, <2>2, DropFacts
  <2> QED
      BY <2>3 DEF Named
<1> QED
    BY <1>3, <1>4, <1>5 DEF LastClosed

\* As long as nobody lets go and no process enters a job, every process alive in
\* a job keeps its holder.
LEMMA HoldersStay ==
  ASSUME TypeOK, TreeIsHeld,
         \A c \in Clients : handle[c] \in Jobs => handle'[c] = handle[c],
         \A p \in Procs : inherited[p] \in Jobs => inherited'[p] = inherited[p],
         \A p \in Procs : /\ Live(p)'
                          /\ member'[p] \in Jobs
                          => \/ Live(p) /\ member'[p] = member[p]
                             \/ Named(member'[p])
                             \/ \E c \in Clients : handle'[c] = member'[p]
  PROVE  TreeIsHeld'
<1> SUFFICES ASSUME NEW p \in Procs, Live(p)', member'[p] \in Jobs
             PROVE  Named(member[p])'
    BY DEF TreeIsHeld
<1>1. Named(member'[p]) => Named(member[p])'
    BY DEF Named
<1> QED
    BY <1>1 DEF TreeIsHeld, Named

-----------------------------------------------------------------------------
(* Steps by which clients or processes go away.                            *)

\* The part of the invariant that letting go cannot disturb: a client either
\* stays where it is with its handle, or is on its way out, or is a visitor.
LEMMA DropKeeps ==
  ASSUME IInv, NEW C, NEW D, Drop(C, D),
         pc' \in [Clients -> Phases],
         \A c \in Clients : \/ pc'[c] = pc[c] /\ c \notin C
                            \/ pc'[c] \in Ended \cup {"closing_err"}
                            \/ c \in Visitors /\ pc'[c] \notin {"idle", "create"}
                            \/ pc[c] = "closing_ok" /\ pc'[c] = "done",
         UNCHANGED <<detached, inheritable, jobVars, member>>,
         AtCommand'
  PROVE  IInv'
<1> USE ClientsAssumption, NoJobAssumption, ProcFacts, DropFacts
    DEF IInv, Jobs, Clients, Launchers, jobVars
<1>1. TypeOK'
    BY DEF TypeOK
<1>2. OwnJob'
    BY DEF OwnJob, Ended, Working, SetUp, Launching, Placing
<1>3. InOrder'
    BY DEF InOrder, Ended, Launching, Placing
<1>4. InSilo'
    BY DEF InSilo
<1>5. HoldsOwnJob'
  <2> SUFFICES ASSUME NEW l \in detached
               PROVE  HoldsOwnJob!(l)'
      BY DEF HoldsOwnJob
  <2>1. l \in Launchers /\ HoldsOwnJob!(l)
      BY DEF TypeOK, HoldsOwnJob
  <2> QED
      BY <2>1 DEF Ended, SetUp, Launching, Placing, Live
<1>6. InheritsOwn'
    BY DEF InheritsOwn, Ended, Placing
<1>7. TreeIsHeld'
    BY DropKeepsHolders
<1>8. OwnViewComplete'
    BY DEF OwnViewComplete
<1> QED
    BY <1>1, <1>2, <1>3, <1>4, <1>5, <1>6, <1>7, <1>8

\* A process that cannot be placed is ended.
LEMMA PlacingFailsKeeps ==
  ASSUME IInv, NEW l \in Launchers, PlacingFails(l)
  PROVE  IInv'
<1> USE ClientsAssumption DEF IInv, TypeOK, PlacingFails, Goto, Clients, Launchers
<1>1. AtCommand'
    BY ProcFacts, DropFacts, NoJobAssumption
    DEF AtCommand, OwnJob, Working, SetUp, Launching, Placing, KilledByClose, Live
<1> QED
    BY <1>1, DropKeeps DEF Phases, Ended

\* silo kill ends what is in the job and leaves the handles alone.
LEMMA KillKeeps ==
  ASSUME IInv, NEW v \in Visitors, Kill(v)
  PROVE  IInv'
<1> USE ClientsAssumption DEF IInv, TypeOK, Kill, Goto, Clients, Launchers
<1>1. AtCommand'
    BY ProcFacts, DropFacts DEF AtCommand, KilledByClose, Live
<1> QED
    BY <1>1, DropKeeps DEF Phases

\* A client that returns closes its handle.
LEMMA LeaveKeeps ==
  ASSUME IInv, NEW c \in Clients, Leave(c)
  PROVE  IInv'
<1> USE ClientsAssumption DEF IInv, TypeOK, Leave, Goto, Clients, Launchers
<1>1. AtCommand'
    BY ProcFacts, DropFacts
    DEF AtCommand, KilledByClose, Live, SetUp, Launching, Placing
<1> QED
    BY <1>1, DropKeeps DEF Phases, Ended

\* A client that is killed loses its handle, wherever it was.
LEMMA CrashKeeps ==
  ASSUME IInv, NEW c \in Clients, Crash(c)
  PROVE  IInv'
<1> USE ClientsAssumption DEF IInv, TypeOK, Crash, Goto, Clients, Launchers
<1>1. AtCommand'
    BY ProcFacts, DropFacts
    DEF AtCommand, KilledByClose, Live, SetUp, Launching, Placing
<1> QED
    BY <1>1, DropKeeps DEF Phases, Ended

\* A process ends, and with it the handle it inherited.
LEMMA ExitKeeps ==
  ASSUME IInv, NEW p \in Procs, Exit(p)
  PROVE  IInv'
<1> USE DEF IInv, TypeOK, Exit
<1>1. AtCommand'
    BY ProcFacts, DropFacts DEF AtCommand, KilledByClose, Live
<1> QED
    BY <1>1, DropKeeps


-----------------------------------------------------------------------------
(* Steps that move a client and leave handles and processes alone.         *)

QuietStep(c) == \/ c \in Execs /\ (ExecRefused(c) \/ ExecMapped(c))
                \/ c \in Entrants /\ EntrantQuery(c)
                \/ c \in Launchers /\ (\/ CallFails(c) \/ FallBack(c)
                                        \/ WaitReturns(c) \/ WaitFails(c))
                \/ c \in Visitors /\ Look(c)

\* A step that moves one client on and touches no handle, job or process.
LEMMA QuietKeeps ==
  ASSUME IInv, NEW c \in Clients, QuietStep(c)
  PROVE  IInv'
<1> USE ClientsAssumption, NoJobAssumption, ProcFacts
    DEF IInv, TypeOK, QuietStep, ExecRefused, ExecMapped, EntrantQuery, CallFails, FallBack,
        WaitReturns, WaitFails, Look, Goto, Jobs, Clients, Launchers, jobVars, procVars
<1>1. TypeOK'
    BY DEF Phases, SetUp, Launching, Ended
<1>2. OwnJob' /\ InOrder'
    BY DEF OwnJob, InOrder, Working, SetUp, Launching, Placing
<1>3. InSilo' /\ AtCommand'
    BY DEF InSilo, AtCommand, SetUp, Launching, Placing
<1>4. HoldsOwnJob'
  <2> SUFFICES ASSUME NEW l \in detached
               PROVE  HoldsOwnJob!(l)'
      BY DEF HoldsOwnJob
  <2>1. l \in Launchers /\ HoldsOwnJob!(l)
      BY DEF HoldsOwnJob
  <2> QED
      BY <2>1 DEF SetUp, Launching, Placing, Live
<1>5. InheritsOwn'
    BY DEF InheritsOwn, Placing
<1>6. TreeIsHeld' /\ OwnViewComplete'
    BY DEF TreeIsHeld, OwnViewComplete, Named, Live
<1> QED
    BY <1>1, <1>2, <1>3, <1>4, <1>5, <1>6

-----------------------------------------------------------------------------
(* Steps of exec and of the openings by name.                              *)

\* The existence check holds a job that it did not create, and is about to close it.
LEMMA ExecCheckKeeps ==
  ASSUME IInv, NEW e \in Execs, ExecCheck(e)
  PROVE  IInv'
<1> USE ClientsAssumption, NoJobAssumption, ProcFacts
    DEF IInv, TypeOK, ExecCheck, Goto, Jobs, Clients, Launchers, jobVars, procVars, OpenByName
<1>1. TypeOK'
    BY BoundsAssumption DEF Phases
<1>2. OwnJob' /\ InOrder'
    BY DEF OwnJob, InOrder, Working, SetUp, Launching, Placing
<1>3. InSilo' /\ AtCommand'
    BY DEF InSilo, AtCommand, Placing
<1>4. HoldsOwnJob' /\ InheritsOwn'
    BY DEF HoldsOwnJob, InheritsOwn, SetUp, Launching, Placing, Live
<1>5. TreeIsHeld' /\ OwnViewComplete'
    BY HoldersStay DEF OwnViewComplete, OwnJob, Live
<1> QED
    BY <1>1, <1>2, <1>3, <1>4, <1>5

\* A job that exec goes on with is its own.
LEMMA ExecCreateKeeps ==
  ASSUME IInv, NEW e \in Execs, ExecCreate(e)
  PROVE  IInv'
<1> USE ClientsAssumption, NoJobAssumption, ProcFacts
    DEF IInv, TypeOK, ExecCreate, Goto, Jobs, Clients, Launchers, jobVars, procVars, OpenByName
<1>1. TypeOK'
    BY BoundsAssumption DEF Phases, SetUp, Launching, Placing, Ended
<1>2. /\ pc'[e] \in {"closing_err", "inherit", "failed"}
      /\ pc'[e] = "inherit" => handle'[e] = e
      /\ \A c \in Clients \ {e} : pc'[c] = pc[c] /\ handle'[c] = handle[c]
    OBVIOUS
<1>3. OwnJob'
    BY <1>2 DEF OwnJob, Working, SetUp, Launching, Placing
<1>4. InOrder'
  <2>1. \A x \in Execs : /\ pc'[x] \in {"promote", "map"} => limit[x]
                         /\ pc'[x] = "map" => silo[x]
                         /\ pc'[x] \in Launching \cup Placing => mapped[x] = MapSteps
      BY <1>2 DEF InOrder, Launching, Placing
  <2>2. \A n \in Entrants : pc'[n] = "inherit" => silo[handle'[n]]
      BY <1>2 DEF InOrder
  <2>3. \A l \in Launchers : pc'[l] \in Launching \cup Placing => silo[handle'[l]]
      BY <1>2 DEF InOrder, Launching, Placing
  <2> QED
      BY <2>1, <2>2, <2>3 DEF InOrder
<1>5. InSilo' /\ AtCommand'
    BY DEF InSilo, AtCommand, Placing
<1>6. HoldsOwnJob' /\ InheritsOwn'
    BY DEF HoldsOwnJob, InheritsOwn, SetUp, Launching, Placing, Live
<1>7. TreeIsHeld' /\ OwnViewComplete'
    BY HoldersStay DEF OwnViewComplete, OwnJob, Live
<1> QED
    BY <1>1, <1>3, <1>4, <1>5, <1>6, <1>7

\* Only the inheritable flag changes.
LEMMA MakeInheritableKeeps ==
  ASSUME IInv, NEW l \in Launchers, MakeInheritable(l)
  PROVE  IInv'
<1> USE ClientsAssumption, NoJobAssumption, ProcFacts
    DEF IInv, TypeOK, MakeInheritable, Goto, Jobs, Clients, Launchers, jobVars, procVars
<1>1. TypeOK'
    BY BoundsAssumption DEF Phases, SetUp, Launching
<1>2. OwnJob' /\ InOrder'
    BY DEF OwnJob, InOrder, Working, SetUp, Launching, Placing
<1>3. InSilo' /\ AtCommand'
    BY DEF InSilo, AtCommand, SetUp, Placing
<1>4. HoldsOwnJob'
  <2> SUFFICES ASSUME NEW m \in detached
               PROVE  HoldsOwnJob!(m)'
      BY DEF HoldsOwnJob
  <2>1. m \in Launchers /\ HoldsOwnJob!(m)
      BY DEF HoldsOwnJob
  <2>2. CASE m = l
      BY <2>1, <2>2 DEF Placing
  <2>3. CASE m # l
      BY <2>1, <2>3 DEF Live
  <2> QED
      BY <2>2, <2>3
<1>6. InheritsOwn'
    BY DEF InheritsOwn, Placing
<1>5. TreeIsHeld' /\ OwnViewComplete'
    BY HoldersStay DEF OwnViewComplete, Live
<1> QED
    BY <1>1, <1>2, <1>3, <1>4, <1>5, <1>6

\* A limit is only ever added.
LEMMA ExecLimitKeeps ==
  ASSUME IInv, NEW e \in Execs, ExecLimit(e)
  PROVE  IInv'
<1> USE ClientsAssumption, NoJobAssumption, ProcFacts
    DEF IInv, TypeOK, ExecLimit, Goto, Jobs, Clients, Launchers, jobVars, procVars
<1>1. TypeOK'
    BY BoundsAssumption DEF Phases, SetUp
<1>2. OwnJob' /\ InOrder'
    BY DEF OwnJob, InOrder, Working, SetUp, Launching, Placing
<1>3. InSilo' /\ AtCommand'
    BY DEF InSilo, AtCommand, SetUp, Placing
<1>4. HoldsOwnJob' /\ InheritsOwn'
    BY DEF HoldsOwnJob, InheritsOwn, SetUp, Placing, Live
<1>5. TreeIsHeld' /\ OwnViewComplete'
    BY HoldersStay DEF OwnViewComplete, Live
<1> QED
    BY <1>1, <1>2, <1>3, <1>4, <1>5

\* A job is promoted after its limit is set.
LEMMA ExecPromoteKeeps ==
  ASSUME IInv, NEW e \in Execs, ExecPromote(e)
  PROVE  IInv'
<1> USE ClientsAssumption, NoJobAssumption, ProcFacts
    DEF IInv, TypeOK, ExecPromote, Goto, Jobs, Clients, Launchers, jobVars, procVars
<1>1. TypeOK'
    BY BoundsAssumption DEF Phases, SetUp
<1>2. OwnJob' /\ InOrder'
    BY DEF OwnJob, InOrder, Working, SetUp, Launching, Placing
<1>3. InSilo' /\ AtCommand'
    BY DEF InSilo, AtCommand, SetUp, Placing
<1>4. HoldsOwnJob' /\ InheritsOwn'
    BY DEF HoldsOwnJob, InheritsOwn, SetUp, Placing, Live
<1>5. TreeIsHeld' /\ OwnViewComplete'
    BY HoldersStay DEF OwnViewComplete, Live
<1> QED
    BY <1>1, <1>2, <1>3, <1>4, <1>5

\* The mapping calls of a job are made by the exec that created it.
LEMMA ExecMapKeeps ==
  ASSUME IInv, NEW e \in Execs, ExecMap(e)
  PROVE  IInv'
<1> USE ClientsAssumption, NoJobAssumption, ProcFacts
    DEF IInv, TypeOK, ExecMap, Goto, Jobs, Clients, Launchers, jobVars, procVars
<1>1. TypeOK'
    BY BoundsAssumption DEF SetUp, OwnJob, Working
<1>2. OwnJob' /\ InOrder'
    BY DEF OwnJob, InOrder
<1>3. InSilo' /\ AtCommand'
    BY DEF InSilo, AtCommand
<1>4. HoldsOwnJob' /\ InheritsOwn'
    BY DEF HoldsOwnJob, InheritsOwn, Live
<1>5. TreeIsHeld' /\ OwnViewComplete'
    BY HoldersStay DEF OwnViewComplete, Live
<1> QED
    BY <1>1, <1>2, <1>3, <1>4, <1>5

\* An entrant holds whatever has the name.
LEMMA EntrantOpenKeeps ==
  ASSUME IInv, NEW n \in Entrants, EntrantOpen(n)
  PROVE  IInv'
<1> USE ClientsAssumption, NoJobAssumption, ProcFacts
    DEF IInv, TypeOK, EntrantOpen, Goto, Jobs, Clients, Launchers, jobVars, procVars, OpenByName
<1>1. TypeOK'
  <2>1. pc' \in [Clients -> Phases]
      BY DEF Phases, Ended
  <2>2. handle' \in [Clients -> Jobs \cup {NoJob}]
      OBVIOUS
  <2> QED
      BY <2>1, <2>2
<1>2. OwnJob' /\ InOrder'
    BY DEF OwnJob, InOrder, Working, SetUp, Launching, Placing
<1>3. InSilo' /\ AtCommand'
    BY DEF InSilo, AtCommand, Placing
<1>4. HoldsOwnJob' /\ InheritsOwn'
    BY DEF HoldsOwnJob, InheritsOwn, SetUp, Launching, Placing, Live
<1>5. TreeIsHeld' /\ OwnViewComplete'
    BY HoldersStay DEF OwnViewComplete, OwnJob, Live
<1> QED
    BY <1>1, <1>2, <1>3, <1>4, <1>5

\* So does a visitor.
LEMMA VisitorOpenKeeps ==
  ASSUME IInv, NEW v \in Visitors, VisitorOpen(v)
  PROVE  IInv'
<1> USE ClientsAssumption, NoJobAssumption, ProcFacts
    DEF IInv, TypeOK, VisitorOpen, Goto, Jobs, Clients, Launchers, jobVars, procVars, OpenByName
<1>1. TypeOK'
    BY BoundsAssumption DEF Phases, Ended
<1>2. OwnJob' /\ InOrder'
    BY DEF OwnJob, InOrder, Launching, Placing
<1>3. InSilo' /\ AtCommand'
    BY DEF InSilo, AtCommand
<1>4. HoldsOwnJob' /\ InheritsOwn'
    BY DEF HoldsOwnJob, InheritsOwn, Live
<1>5. TreeIsHeld' /\ OwnViewComplete'
    BY HoldersStay DEF OwnViewComplete, OwnJob, Live
<1> QED
    BY <1>1, <1>2, <1>3, <1>4, <1>5

-----------------------------------------------------------------------------
(* Steps that create, place or start a process.                            *)

\* The process is created in a promoted job that its launcher holds.
LEMMA LaunchInJobKeeps ==
  ASSUME IInv, NEW l \in Launchers, LaunchInJob(l)
  PROVE  IInv'
<1> USE ClientsAssumption, NoJobAssumption, ProcFacts
    DEF IInv, TypeOK, LaunchInJob, Goto, Jobs, Clients, Launchers, jobVars, procVars
<1>1. TypeOK'
    BY BoundsAssumption DEF Phases, AfterStart, Inherits
<1>2. OwnJob' /\ InOrder'
    BY DEF OwnJob, InOrder, Working, Launching, AfterStart
<1>3. InSilo' /\ AtCommand'
    BY DEF InSilo, AtCommand, OwnJob, InOrder, Working, SetUp, Launching, AfterStart
<1>4. HoldsOwnJob' /\ InheritsOwn'
    BY DEF HoldsOwnJob, InheritsOwn, Launching, Live, Inherits
<1>5. TreeIsHeld' /\ OwnViewComplete'
    BY HoldersStay DEF OwnViewComplete, OwnJob, AtCommand, InOrder, InheritsOwn, Working, Launching, Live
<1> QED
    BY <1>1, <1>2, <1>3, <1>4, <1>5

\* The process is in no job and does not run.
LEMMA CreateSuspendedKeeps ==
  ASSUME IInv, NEW l \in Launchers, CreateSuspended(l)
  PROVE  IInv'
<1> USE ClientsAssumption, NoJobAssumption, ProcFacts
    DEF IInv, TypeOK, CreateSuspended, Goto, Jobs, Clients, Launchers, jobVars, procVars
<1>1. TypeOK'
    BY BoundsAssumption DEF Phases, Placing, Inherits
<1>2. OwnJob' /\ InOrder'
    BY DEF OwnJob, InOrder, Working, Launching
<1>3. InSilo' /\ AtCommand'
    BY DEF InSilo, AtCommand, SetUp, Launching, Placing
<1>4. HoldsOwnJob' /\ InheritsOwn'
    BY DEF HoldsOwnJob, InheritsOwn, AtCommand, Launching, Live, Inherits
<1>5. TreeIsHeld' /\ OwnViewComplete'
    BY HoldersStay DEF OwnViewComplete, AtCommand, InheritsOwn, Launching, Live
<1> QED
    BY <1>1, <1>2, <1>3, <1>4, <1>5

\* The process enters a promoted job that its launcher holds.
LEMMA AssignToJobKeeps ==
  ASSUME IInv, NEW l \in Launchers, AssignToJob(l)
  PROVE  IInv'
<1> USE ClientsAssumption, NoJobAssumption, ProcFacts
    DEF IInv, TypeOK, AssignToJob, Goto, Jobs, Clients, Launchers, jobVars, procVars
<1>1. TypeOK'
    BY BoundsAssumption DEF Phases, Placing
<1>2. OwnJob' /\ InOrder'
    BY DEF OwnJob, InOrder, Working, Placing
<1>3. InSilo' /\ AtCommand'
    BY DEF InSilo, AtCommand, OwnJob, InOrder, Working, SetUp, Launching, Placing
<1>4. HoldsOwnJob'
  <2> SUFFICES ASSUME NEW m \in detached
               PROVE  HoldsOwnJob!(m)'
      BY DEF HoldsOwnJob
  <2>1. m \in Launchers /\ HoldsOwnJob!(m)
      BY DEF HoldsOwnJob
  <2>2. CASE m = l
      BY <2>1, <2>2 DEF SetUp, Launching, Placing, Live
  <2>3. CASE m # l
      BY <2>1, <2>3 DEF Live
  <2> QED
      BY <2>2, <2>3
<1>6. InheritsOwn'
    BY DEF InheritsOwn, AtCommand, Placing
<1>5. TreeIsHeld' /\ OwnViewComplete'
    BY HoldersStay DEF OwnViewComplete, OwnJob, Working, Placing, Live
<1> QED
    BY <1>1, <1>2, <1>3, <1>4, <1>5, <1>6

\* The process that runs now was assigned before.
LEMMA ResumeKeeps ==
  ASSUME IInv, NEW l \in Launchers, Resume(l)
  PROVE  IInv'
<1> USE ClientsAssumption, NoJobAssumption, ProcFacts
    DEF IInv, TypeOK, Resume, Goto, Jobs, Clients, Launchers, jobVars, procVars
<1>1. TypeOK'
    BY BoundsAssumption DEF Phases, AfterStart
<1>2. OwnJob' /\ InOrder'
    BY DEF OwnJob, InOrder, Working, Placing, AfterStart
<1>3. InSilo' /\ AtCommand'
    BY DEF InSilo, AtCommand, OwnJob, Working, SetUp, Launching, Placing, AfterStart
<1>4. HoldsOwnJob' /\ InheritsOwn'
    BY DEF HoldsOwnJob, InheritsOwn, AtCommand, SetUp, Launching, Placing, Live, AfterStart
<1>5. TreeIsHeld' /\ OwnViewComplete'
    BY HoldersStay DEF OwnViewComplete, OwnJob, AtCommand, InOrder, Working, Live
<1> QED
    BY <1>1, <1>2, <1>3, <1>4, <1>5

\* A child is in the job of its parent, and holds no more than it.
LEMMA SpawnKeeps ==
  ASSUME IInv, NEW l \in Launchers, Spawn(l)
  PROVE  IInv'
<1> USE ClientsAssumption, NoJobAssumption, ProcFacts
    DEF IInv, TypeOK, Spawn, Goto, Jobs, Clients, Launchers, jobVars, procVars
<1>1. TypeOK'
    BY BoundsAssumption
<1>2. OwnJob' /\ InOrder'
    BY DEF OwnJob, InOrder
<1>3. InSilo' /\ AtCommand'
    BY DEF InSilo, AtCommand
<1>4. HoldsOwnJob' /\ InheritsOwn'
    BY DEF HoldsOwnJob, InheritsOwn, Live
<1>5. Named(member[Command(l)])
    BY DEF InSilo, TreeIsHeld, Live
<1>6. TreeIsHeld' /\ OwnViewComplete'
    BY <1>5, HoldersStay DEF OwnViewComplete, InheritsOwn, Live
<1> QED
    BY <1>1, <1>2, <1>3, <1>4, <1>6

-----------------------------------------------------------------------------
(* The invariant.                                                          *)

\* At the start there is no handle and no process.
LEMMA InitHolds == Init => IInv
<1> SUFFICES ASSUME Init
             PROVE  IInv
    OBVIOUS
<1> USE NoJobAssumption, BoundsAssumption, ProcFacts DEF Init, Jobs, Clients, Launchers
<1>1. TypeOK
    BY DEF TypeOK, Phases
<1>2. OwnJob /\ InOrder
    BY DEF OwnJob, InOrder, Working, SetUp, Launching, Placing
<1>3. InSilo /\ AtCommand
    BY DEF InSilo, AtCommand, Placing
<1>4. HoldsOwnJob /\ InheritsOwn
    BY DEF HoldsOwnJob, InheritsOwn, SetUp, Launching, Placing, Live
<1>5. TreeIsHeld /\ OwnViewComplete
    BY DEF TreeIsHeld, OwnViewComplete
<1> QED
    BY <1>1, <1>2, <1>3, <1>4, <1>5 DEF IInv

\* Nothing happens.
LEMMA StutterKeeps ==
  ASSUME IInv, UNCHANGED vars
  PROVE  IInv'
BY DEF IInv, vars, jobVars, procVars, TypeOK, OwnJob, InOrder, InSilo, AtCommand,
       HoldsOwnJob, InheritsOwn, TreeIsHeld, OwnViewComplete, Named, Live

\* Every step keeps the inductive invariant.
LEMMA NextKeeps == IInv /\ [Next]_vars => IInv'
<1> SUFFICES ASSUME IInv, [Next]_vars
             PROVE  IInv'
    OBVIOUS
<1>1. ASSUME NEW e \in Execs, ExecStep(e) \/ ExecRefused(e)
      PROVE  IInv'
  <2>1. CASE ExecRefused(e) \/ ExecMapped(e)
      BY <2>1, QuietKeeps DEF QuietStep, Clients, Launchers
  <2>2. CASE ExecCheck(e) \/ ExecCreate(e)
      BY <2>2, ExecCheckKeeps, ExecCreateKeeps
  <2>3. CASE ExecLimit(e) \/ ExecPromote(e) \/ ExecMap(e)
      BY <2>3, ExecLimitKeeps, ExecPromoteKeeps, ExecMapKeeps
  <2> QED
      BY <1>1, <2>1, <2>2, <2>3 DEF ExecStep
<1>2. ASSUME NEW n \in Entrants, EntrantStep(n)
      PROVE  IInv'
    BY <1>2, EntrantOpenKeeps, QuietKeeps DEF EntrantStep, QuietStep, Clients, Launchers
<1>3. ASSUME NEW l \in Launchers, LaunchStep(l) \/ Error(l)
      PROVE  IInv'
  <2>1. CASE FallBack(l) \/ WaitReturns(l) \/ CallFails(l) \/ WaitFails(l)
      BY <2>1, QuietKeeps DEF QuietStep, Clients
  <2>2. CASE MakeInheritable(l) \/ LaunchInJob(l) \/ CreateSuspended(l)
      BY <2>2, MakeInheritableKeeps, LaunchInJobKeeps, CreateSuspendedKeeps
  <2>3. CASE AssignToJob(l) \/ Resume(l) \/ PlacingFails(l)
      BY <2>3, AssignToJobKeeps, ResumeKeeps, PlacingFailsKeeps
  <2> QED
      BY <1>3, <2>1, <2>2, <2>3 DEF LaunchStep, Error
<1>4. ASSUME NEW v \in Visitors, VisitorStep(v)
      PROVE  IInv'
    BY <1>4, VisitorOpenKeeps, KillKeeps, QuietKeeps DEF VisitorStep, QuietStep, Clients
<1>5. ASSUME NEW c \in Clients, Leave(c) \/ Crash(c)
      PROVE  IInv'
    BY <1>5, LeaveKeeps, CrashKeeps
<1>6. ASSUME NEW l \in Launchers, Spawn(l)
      PROVE  IInv'
    BY <1>6, SpawnKeeps
<1>7. ASSUME NEW p \in Procs, Exit(p)
      PROVE  IInv'
    BY <1>7, ExitKeeps
<1>8. CASE UNCHANGED vars
    BY <1>8, StutterKeeps
<1> QED
    BY <1>1, <1>2, <1>3, <1>4, <1>5, <1>6, <1>7, <1>8 DEF Next, Step

\* The invariant holds in every reachable state.
THEOREM Invariance == Spec => []IInv
BY InitHolds, NextKeeps, PTL DEF Spec

\* Types: no client and no process is ever in a state the code does not know,
\* and exec never makes more mapping calls than it planned.
THEOREM TypeCorrect == Spec => []TypeOK
<1>1. IInv => TypeOK
    BY DEF IInv
<1> QED
    BY <1>1, Invariance, PTL

\* No launched process runs in the host's view, on either launch path
\* (runInSilo, runInSiloFallback) and for any number of silo exec clients.
THEOREM NeverHostViewHolds == Spec => []NeverHostView
<1>1. IInv => NeverHostView
    BY DEF IInv, InSilo, NeverHostView
<1> QED
    BY <1>1, Invariance, PTL

\* No process of a silo outlives the last handle to the job: the limit is set
\* before the job can take a process (exec_windows.go:155, then 173).
THEOREM TreeIsHeldHolds == Spec => []TreeIsHeld
<1>1. IInv => TreeIsHeld
    BY DEF IInv
<1> QED
    BY <1>1, Invariance, PTL

\* exec's command runs in its own job behind all of its mappings, whoever else
\* competes for the name.
THEOREM OwnViewCompleteHolds == Spec => []OwnViewComplete
<1>1. IInv => OwnViewComplete
    BY DEF IInv
<1> QED
    BY <1>1, Invariance, PTL

\* A suspended process always has a launcher that is about to place it, unless
\* that launcher was killed.
THEOREM NoAbandonedProcessHolds == Spec => []NoAbandonedProcess
<1>1. IInv => NoAbandonedProcess
    BY DEF IInv, AtCommand, NoAbandonedProcess
<1> QED
    BY <1>1, Invariance, PTL

-----------------------------------------------------------------------------
(* Action properties.                                                      *)

\* Whatever lets go of handles only ends processes.
LEMMA DropOnlyEnds ==
  ASSUME TypeOK, NEW C, NEW D, Drop(C, D), NEW p \in Procs
  PROVE  Rank(proc'[p]) >= Rank(proc[p])
BY DropFacts DEF Rank, TypeOK

\* No step starts a command that was started before.
LEMMA NextNeverRestarts == IInv /\ [Next]_vars => \A l \in Launchers : NoRestart(l)
<1> SUFFICES ASSUME IInv, [Next]_vars, NEW l \in Launchers
             PROVE  NoRestart(l)
    OBVIOUS
<1> USE ProcFacts DEF IInv, TypeOK, NoRestart
<1>1. CASE proc' = proc
    BY <1>1 DEF Rank
<1>2. ASSUME NEW m \in Launchers, LaunchInJob(m) \/ CreateSuspended(m) \/ Resume(m)
      PROVE  NoRestart(l)
    BY <1>2 DEF LaunchInJob, CreateSuspended, Resume, AtCommand, Launching, Rank
<1>3. ASSUME NEW m \in Launchers, Spawn(m)
      PROVE  NoRestart(l)
    BY <1>3 DEF Spawn, Rank
<1>4. ASSUME NEW C, NEW D, Drop(C, D)
      PROVE  NoRestart(l)
    BY <1>4, DropOnlyEnds
<1>5. \/ proc' = proc
      \/ \E m \in Launchers : LaunchInJob(m) \/ CreateSuspended(m) \/ Resume(m) \/ Spawn(m)
      \/ \E C, D : Drop(C, D)
  <2>1. ASSUME NEW e \in Execs, ExecStep(e) \/ ExecRefused(e)
        PROVE  proc' = proc
      BY <2>1 DEF ExecStep, ExecRefused, ExecCheck, ExecCreate, ExecLimit, ExecPromote,
                  ExecMap, ExecMapped, procVars
  <2>2. ASSUME NEW n \in Entrants, EntrantStep(n)
        PROVE  proc' = proc
      BY <2>2 DEF EntrantStep, EntrantOpen, EntrantQuery, procVars
  <2>3. ASSUME NEW v \in Visitors, VisitorStep(v)
        PROVE  proc' = proc \/ \E C, D : Drop(C, D)
      BY <2>3 DEF VisitorStep, VisitorOpen, Kill, Look, procVars
  <2>4. ASSUME NEW m \in Launchers, LaunchStep(m) \/ Error(m)
        PROVE  \/ proc' = proc
               \/ LaunchInJob(m) \/ CreateSuspended(m) \/ Resume(m)
               \/ \E C, D : Drop(C, D)
      BY <2>4 DEF LaunchStep, Error, MakeInheritable, FallBack, AssignToJob, WaitReturns,
                  CallFails, WaitFails, PlacingFails, procVars
  <2>5. ASSUME NEW c \in Clients, Leave(c) \/ Crash(c)
        PROVE  \E C, D : Drop(C, D)
      BY <2>5 DEF Leave, Crash
  <2>6. ASSUME NEW p \in Procs, Exit(p)
        PROVE  \E C, D : Drop(C, D)
      BY <2>6 DEF Exit
  <2>7. CASE UNCHANGED vars
      BY <2>7 DEF vars, procVars
  <2> QED
      BY <2>1, <2>2, <2>3, <2>4, <2>5, <2>6, <2>7 DEF Next, Step
<1> QED
    BY <1>1, <1>2, <1>3, <1>4, <1>5

\* A launch creates and starts its command at most once: the fallback never
\* runs after the first attempt has produced a process.
THEOREM StartsOnceHolds == Spec => StartsOnce
BY Invariance, NextNeverRestarts, PTL DEF Spec, StartsOnce

\* A client that closes its handle does not end a detached command: the command
\* itself holds the job it runs in.
LEMMA LeavingSpares ==
  ASSUME IInv, NEW l \in detached, proc[Command(l)] = "running", NEW C, Drop(C, {})
  PROVE  proc'[Command(l)] = "running"
<1>1. l \in Launchers /\ inherited[Command(l)] = member[Command(l)]
    BY DEF IInv, TypeOK, HoldsOwnJob
<1>2. Command(l) \in Procs
    BY <1>1, ProcFacts
<1>3. Command(l) \notin KilledByClose(C, {})
    BY <1>1, <1>2 DEF KilledByClose, LastClosed
<1> QED
    BY <1>2, <1>3, DropFacts DEF IInv

\* No closed handle ends a detached command: it holds its job itself.
LEMMA NextSparesDetached == IInv /\ [Next]_vars => \A l \in detached : SparedByLeaving(l)
<1> SUFFICES ASSUME IInv, [Next]_vars, NEW l \in detached, proc[Command(l)] = "running",
                    NEW c \in Clients, handle[c] # NoJob, handle'[c] = NoJob
             PROVE  proc'[Command(l)] = "running"
    BY DEF SparedByLeaving
<1> USE DEF procVars
<1>1. ASSUME NEW D, Drop({}, D)
      PROVE  FALSE
    BY <1>1 DEF Drop
<1>2. CASE UNCHANGED handle
    BY <1>2
<1>3. ASSUME NEW e \in Execs, ExecStep(e) \/ ExecRefused(e)
      PROVE  proc' = proc
    BY <1>3 DEF ExecStep, ExecRefused, ExecCheck, ExecCreate, ExecLimit, ExecPromote,
                ExecMap, ExecMapped
<1>4. ASSUME NEW n \in Entrants, EntrantStep(n)
      PROVE  proc' = proc
    BY <1>4 DEF EntrantStep, EntrantOpen, EntrantQuery
<1>5. ASSUME NEW v \in Visitors, VisitorStep(v)
      PROVE  proc' = proc
    BY <1>5, <1>1 DEF VisitorStep, VisitorOpen, Kill, Look
<1>6. ASSUME NEW m \in Launchers, LaunchStep(m) \/ Error(m)
      PROVE  UNCHANGED handle
    BY <1>6, <1>1 DEF LaunchStep, Error, MakeInheritable, LaunchInJob, FallBack, CreateSuspended,
                AssignToJob, Resume, WaitReturns, CallFails, WaitFails, PlacingFails
<1>7. ASSUME NEW d \in Clients, Leave(d) \/ Crash(d)
      PROVE  proc'[Command(l)] = "running"
    BY <1>7, LeavingSpares DEF Leave, Crash
<1>8. ASSUME NEW m \in Launchers, Spawn(m)
      PROVE  UNCHANGED handle
    BY <1>8 DEF Spawn
<1>9. ASSUME NEW p \in Procs, Exit(p)
      PROVE  FALSE
    BY <1>9, <1>1 DEF Exit
<1>10. CASE UNCHANGED vars
    BY <1>10 DEF vars
<1> QED
    BY <1>2, <1>3, <1>4, <1>5, <1>6, <1>7, <1>8, <1>9, <1>10 DEF Next, Step

\* The command of a detached run survives its launcher's exit or crash and the
\* exit of every other client (exec_windows.go:147-149).
THEOREM DetachedSurvivesHolds == Spec => DetachedSurvives
BY Invariance, NextSparesDetached, PTL DEF Spec, DetachedSurvives

-----------------------------------------------------------------------------
(* The contract.                                                           *)

\* A name belongs to one job.
OneNamed == \A i, j \in Jobs : Named(i) /\ Named(j) => i = j

\* A job is not a silo before its exec has promoted it.
Fresh == \A e \in Execs : pc[e] \in {"idle", "create", "inherit", "limit", "promote"}
            => ~silo[e]

\* A process that is about to be assigned is in no job and has not run.
AtAssign == \A l \in Launchers : pc[l] = "assign"
            => proc[Command(l)] = "suspended" /\ member[Command(l)] = NoJob

\* silo kill has the job it opened.
AtKill == \A v \in Visitors : pc[v] = "opened" => handle[v] \in Jobs

\* What the refinement needs beyond IInv.
RInv == OneNamed /\ Fresh /\ AtAssign /\ AtKill

-----------------------------------------------------------------------------
(* The mapping, once one job at most has the name.                         *)

\* Holder and Stage, spelled out for the job that has the name.
LEMMA MappedTo ==
  OneNamed =>
    /\ NameFree => Holder = NoJob /\ Stage = "none"
    /\ \A j \in Jobs : Named(j) =>
         /\ Holder = j
         /\ Stage = IF ~silo[j] THEN "job"
                    ELSE IF mapped[j] < MapSteps THEN "silo" ELSE "ready"
<1> SUFFICES ASSUME OneNamed
             PROVE  MappedTo!2
    OBVIOUS
<1>1. NameFree => Holder = NoJob /\ Stage = "none"
    BY DEF Holder, Stage
<1>2. ASSUME NEW j \in Jobs, Named(j)
      PROVE  ~NameFree /\ Holder = j
    BY <1>2 DEF NameFree, Holder, OneNamed
<1> QED
    BY <1>1, <1>2 DEF Stage

\* The same in the next state.
LEMMA MappedToNext ==
  OneNamed' =>
    /\ NameFree' => Holder' = NoJob /\ Stage' = "none"
    /\ \A j \in Jobs : Named(j)' =>
         /\ Holder' = j
         /\ Stage' = IF ~silo'[j] THEN "job"
                     ELSE IF mapped'[j] < MapSteps THEN "silo" ELSE "ready"
<1> SUFFICES ASSUME OneNamed'
             PROVE  MappedToNext!2
    OBVIOUS
<1>1. NameFree' => Holder' = NoJob /\ Stage' = "none"
    BY DEF Holder, Stage
<1>2. ASSUME NEW j \in Jobs, Named(j)'
      PROVE  ~NameFree' /\ Holder' = j
    BY <1>2 DEF NameFree, Holder, OneNamed
<1> QED
    BY <1>1, <1>2 DEF Stage

\* A step that names no job keeps the name with one job.
LEMMA StaysOne ==
  ASSUME OneNamed, \A j \in Jobs : Named(j)' => Named(j)
  PROVE  OneNamed'
<1> SUFFICES ASSUME NEW i \in Jobs, NEW j \in Jobs, Named(i)', Named(j)'
             PROVE  i = j
    BY DEF OneNamed
<1> QED
    BY DEF OneNamed

\* The processes in a job are in the one that has the name.
LEMMA TreeIsOfHolder ==
  ASSUME IInv, OneNamed, NEW j \in Jobs, Named(j), NEW p \in Tree
  PROVE  member[p] = j
BY DEF IInv, TreeIsHeld, OneNamed, Tree, Live

-----------------------------------------------------------------------------
(* What kinds of steps the contract sees.                                  *)

\* The same name, jobs and trees: the contract sees nothing.
LEMMA Unseen ==
  ASSUME OneNamed, \A j \in Jobs : Named(j)' <=> Named(j),
         silo' = silo, mapped' = mapped, Tree' = Tree, Over' = Over
  PROVE  UNCHANGED Contract!vars
<1>1. OneNamed'
    BY StaysOne
<1>2. CASE NameFree
  <2>1. NameFree'
      BY <1>2 DEF NameFree
  <2> QED
      BY <1>1, <1>2, <2>1, MappedTo, MappedToNext DEF Contract!vars
<1>3. ASSUME NEW j \in Jobs, Named(j)
      PROVE  UNCHANGED Contract!vars
    BY <1>1, <1>3, MappedTo, MappedToNext DEF Contract!vars
<1> QED
    BY <1>2, <1>3 DEF NameFree

\* Whoever lets go of handles: processes end, and with the name the whole tree.
LEMMA DropIsEndOrFree ==
  ASSUME IInv, OneNamed, TreeIsHeld', NEW C, NEW D, Drop(C, D),
         member' = member, silo' = silo, mapped' = mapped
  PROVE  OneNamed' /\ [Contract!Next]_Contract!vars
<1>1. TypeOK /\ InheritsOwn /\ TreeIsHeld
    BY DEF IInv
<1>2. \A j \in Jobs : Named(j)' => Named(j)
    BY <1>1, DropFacts, NoJobAssumption DEF Named, Jobs
<1>3. OneNamed'
    BY <1>2, StaysOne
<1>4. Tree' \subseteq Tree /\ Over' = Over \cup (Tree \ Tree')
  <2>1. Tree' \subseteq Tree
      BY <1>1, DropFacts DEF Tree, Live
  <2>2. ASSUME NEW p \in Procs
        PROVE  p \in Over' <=> p \in Over \/ p \in Tree \ Tree'
    <3>1. \/ proc'[p] = "exited"
          \/ proc'[p] = proc[p]
        BY <1>1, DropFacts
    <3>2. proc[p] = "none" => member[p] \notin Jobs
        BY <1>1, NoJobAssumption DEF InheritsOwn, Jobs
    <3>3. proc[p] \in {"none", "suspended", "running", "exited"}
        BY <1>1 DEF TypeOK
    <3> QED
        BY <3>1, <3>2, <3>3 DEF Over, Tree, Live
  <2> QED
      BY <2>1, <2>2 DEF Over, Tree, Live
<1>5. CASE NameFree
  <2>1. NameFree' /\ Tree = {}
      BY <1>1, <1>2, <1>5 DEF NameFree, TreeIsHeld, Tree, Live
  <2> QED
      BY <1>3, <1>4, <1>5, <2>1, MappedTo, MappedToNext DEF Contract!vars
<1>6. ASSUME NEW j \in Jobs, Named(j), Named(j)'
      PROVE  Contract!End(Tree \ Tree')
    BY <1>3, <1>4, <1>6, MappedTo, MappedToNext DEF Contract!End
<1>7. ASSUME NEW j \in Jobs, Named(j), ~Named(j)'
      PROVE  Contract!Free
  <2>1. NameFree'
      BY <1>2, <1>7 DEF NameFree, OneNamed
  <2>2. Tree' = {}
      BY <2>1 DEF NameFree, TreeIsHeld, Tree, Live
  <2> QED
      BY <1>3, <1>4, <1>7, <2>1, <2>2, MappedTo, MappedToNext, NoJobAssumption
      DEF Contract!Free, Jobs
<1> QED
    BY <1>3, <1>5, <1>6, <1>7 DEF NameFree, Contract!Next

\* A process enters the silo that has the name.
LEMMA EnterIsEnter ==
  ASSUME OneNamed, \A i \in Jobs : Named(i)' <=> Named(i),
         NEW j \in Jobs, Named(j), silo[j], silo' = silo, mapped' = mapped,
         NEW p \in Procs, p \notin Tree \cup Over, Tree' = Tree \cup {p}, Over' = Over,
         \A e \in Execs : p = Command(e) => e = j /\ ~(mapped[j] < MapSteps)
  PROVE  Contract!Next
<1>1. OneNamed'
    BY StaysOne
<1>2. Contract!Enter(p)
    BY <1>1, MappedTo, MappedToNext DEF Contract!Enter, Jobs
<1> QED
    BY <1>2 DEF Contract!Next

-----------------------------------------------------------------------------
(* The steps that only let go.                                             *)

\* A client that stays at "assign" or "opened" has its process or its job still.
LEMMA LetsGoKeeps ==
  ASSUME IInv, RInv, NEW C, NEW D, Drop(C, D), UNCHANGED <<jobVars, member>>,
         \A c \in Clients : \/ pc'[c] = pc[c] /\ c \notin C
                            \/ pc'[c] \in Ended \cup {"closing_ok", "closing_err"},
         \A l \in Launchers : pc'[l] = "assign" => Command(l) \notin D
  PROVE  Fresh' /\ AtAssign' /\ AtKill'
<1> USE ClientsAssumption, NoJobAssumption, ProcFacts, DropFacts
    DEF IInv, RInv, Jobs, Clients, Launchers, jobVars
<1>1. Fresh' /\ AtKill'
    BY DEF Fresh, AtKill, Ended
<1>2. AtAssign'
    BY DEF AtAssign, Ended, KilledByClose
<1> QED
    BY <1>1, <1>2

\* Letting go keeps RInv, and is an end of processes or of the whole silo.
LEMMA LettingGo ==
  ASSUME IInv, IInv', RInv, NEW C, NEW D, Drop(C, D), UNCHANGED <<jobVars, member>>,
         \A c \in Clients : \/ pc'[c] = pc[c] /\ c \notin C
                            \/ pc'[c] \in Ended \cup {"closing_ok", "closing_err"},
         \A l \in Launchers : pc'[l] = "assign" => Command(l) \notin D
  PROVE  RInv' /\ [Contract!Next]_Contract!vars
<1>1. TreeIsHeld' /\ silo' = silo /\ mapped' = mapped
    BY DEF IInv, jobVars
<1>2. OneNamed' /\ [Contract!Next]_Contract!vars
    BY <1>1, DropIsEndOrFree DEF RInv
<1> QED
    BY <1>2, LetsGoKeeps DEF RInv

\* A process that cannot be placed, a kill, an exit or crash of a client, and the
\* end of a process are ends, of some processes or of the silo.
LEMMA EndingSteps ==
  ASSUME IInv, IInv', RInv,
         \/ \E l \in Launchers : PlacingFails(l)
         \/ \E v \in Visitors : Kill(v)
         \/ \E c \in Clients : Leave(c) \/ Crash(c)
         \/ \E p \in Procs : Exit(p)
  PROVE  RInv' /\ [Contract!Next]_Contract!vars
<1> USE ClientsAssumption, NoJobAssumption, ProcFacts
    DEF IInv, RInv, TypeOK, Goto, Jobs, Clients, Launchers, Ended
<1>1. ASSUME NEW l \in Launchers, PlacingFails(l)
      PROVE  RInv' /\ [Contract!Next]_Contract!vars
    BY <1>1, LettingGo DEF PlacingFails
<1>2. ASSUME NEW v \in Visitors, Kill(v)
      PROVE  RInv' /\ [Contract!Next]_Contract!vars
  <2> DEFINE D == {p \in Procs : Live(p) /\ member[p] = handle[v]}
  <2>1. \A l \in Launchers : pc'[l] = "assign" => Command(l) \notin D
      BY <1>2 DEF Kill, AtKill, AtAssign
  <2>2. \A c \in Clients : pc'[c] = pc[c] \/ pc'[c] = "closing_ok"
      BY <1>2 DEF Kill
  <2>3. Drop({}, D) /\ UNCHANGED <<jobVars, member>>
      BY <1>2 DEF Kill
  <2> HIDE DEF D
  <2> QED
      BY <2>1, <2>2, <2>3, LettingGo
<1>3. ASSUME NEW c \in Clients, Leave(c) \/ Crash(c)
      PROVE  RInv' /\ [Contract!Next]_Contract!vars
    BY <1>3, LettingGo DEF Leave, Crash
<1>4. ASSUME NEW p \in Procs, Exit(p)
      PROVE  RInv' /\ [Contract!Next]_Contract!vars
    BY <1>4, LettingGo DEF Exit, AtAssign
<1> QED
    BY <1>1, <1>2, <1>3, <1>4

-----------------------------------------------------------------------------
(* The steps that the contract does not see.                               *)

\* A step that moves a client and changes no handle, silo or process.
LEMMA StillSteps ==
  ASSUME IInv, RInv,
         \/ \E c \in Clients : QuietStep(c)
         \/ \E l \in Launchers : MakeInheritable(l)
         \/ \E e \in Execs : ExecLimit(e)
  PROVE  RInv' /\ UNCHANGED Contract!vars
<1> USE ClientsAssumption, NoJobAssumption, ProcFacts
    DEF IInv, RInv, TypeOK, Goto, Jobs, Clients, Launchers, QuietStep, ExecRefused, ExecMapped,
        EntrantQuery, CallFails, FallBack, WaitReturns, WaitFails, Look, MakeInheritable,
        ExecLimit, procVars, jobVars
<1>1. /\ \A j \in Jobs : Named(j)' <=> Named(j)
      /\ silo' = silo /\ mapped' = mapped
      /\ Tree' = Tree /\ Over' = Over
    BY DEF Named, Tree, Over, Live
<1>2. OneNamed'
    BY <1>1, StaysOne
<1>3. Fresh' /\ AtAssign' /\ AtKill'
    BY DEF Fresh, AtAssign, AtKill, SetUp, Launching
<1> QED
    BY <1>1, <1>2, <1>3, Unseen

\* A client opens a job that has the name already, or finds the name free.
LEMMA OpeningSteps ==
  ASSUME IInv, RInv,
         \/ \E e \in Execs : ExecCheck(e)
         \/ \E n \in Entrants : EntrantOpen(n)
         \/ \E v \in Visitors : VisitorOpen(v)
  PROVE  RInv' /\ UNCHANGED Contract!vars
<1> USE ClientsAssumption, NoJobAssumption, ProcFacts
    DEF IInv, RInv, TypeOK, Goto, Jobs, Clients, Launchers, ExecCheck, EntrantOpen, VisitorOpen,
        OpenByName, procVars, jobVars
<1>1. \A j \in Jobs : Named(j)' <=> Named(j)
    BY DEF Named, OwnJob
<1>2. /\ silo' = silo /\ mapped' = mapped
      /\ Tree' = Tree /\ Over' = Over
    BY DEF Tree, Over, Live
<1>3. OneNamed'
    BY <1>1, StaysOne
<1>4. Fresh' /\ AtAssign' /\ AtKill'
    BY DEF Fresh, AtAssign, AtKill
<1> QED
    BY <1>1, <1>2, <1>3, <1>4, Unseen

\* A process created suspended is in no job; one that is resumed was in its job.
LEMMA CreateAndResume ==
  ASSUME IInv, RInv, NEW l \in Launchers, CreateSuspended(l) \/ Resume(l)
  PROVE  RInv' /\ UNCHANGED Contract!vars
<1> USE ClientsAssumption, NoJobAssumption, ProcFacts
    DEF IInv, RInv, TypeOK, Goto, Jobs, Clients, Launchers, CreateSuspended, Resume, jobVars
<1>1. \A j \in Jobs : Named(j)' <=> Named(j)
    BY DEF Named, OwnJob, Working, Launching, AtCommand, InheritsOwn, Inherits
<1>2. silo' = silo /\ mapped' = mapped
    OBVIOUS
<1>3. Tree' = Tree /\ Over' = Over
    BY DEF Tree, Over, Live, AtCommand, Launching, InheritsOwn
<1>4. OneNamed'
    BY <1>1, StaysOne
<1>5. Fresh' /\ AtAssign' /\ AtKill'
    BY DEF Fresh, AtAssign, AtKill, AfterStart, AtCommand, Launching, InheritsOwn
<1> QED
    BY <1>1, <1>2, <1>3, <1>4, <1>5, Unseen

-----------------------------------------------------------------------------
(* The steps of exec that the contract sees.                               *)

\* A job takes the name when nobody has it; one that exists is only opened.
LEMMA CreateIsTake ==
  ASSUME IInv, RInv, NEW e \in Execs, ExecCreate(e)
  PROVE  RInv' /\ [Contract!Next]_Contract!vars
<1> USE ClientsAssumption, NoJobAssumption, ProcFacts
    DEF IInv, RInv, TypeOK, Goto, Jobs, Clients, Launchers, ExecCreate, procVars, jobVars
<1>1. /\ silo' = silo /\ mapped' = mapped
      /\ Tree' = Tree /\ Over' = Over
    BY DEF Tree, Over, Live
<1>2. Fresh' /\ AtAssign' /\ AtKill'
    BY DEF Fresh, AtAssign, AtKill, OpenByName
<1>3. CASE NameFree /\ handle' = [handle EXCEPT ![e] = e]
  <2>1. \A j \in Jobs : Named(j)' <=> j = e
      BY <1>3 DEF NameFree, Named
  <2>2. OneNamed'
      BY <2>1 DEF OneNamed
  <2>3. ~silo[e]
      BY DEF Fresh
  <2>4. Holder = NoJob /\ Holder' = e /\ Stage' = "job"
      BY <1>1, <1>3, <2>1, <2>2, <2>3, MappedTo, MappedToNext
  <2>5. Contract!Take(e)
      BY <1>1, <2>4 DEF Contract!Take
  <2> QED
      BY <1>2, <2>2, <2>5 DEF Contract!Next
<1>4. CASE OpenByName(e) \/ handle' = handle
  <2>1. \A j \in Jobs : Named(j)' <=> Named(j)
      BY <1>4 DEF Named, OwnJob, OpenByName
  <2>2. OneNamed'
      BY <2>1, StaysOne
  <2> QED
      BY <1>1, <1>2, <2>1, <2>2, Unseen
<1> QED
    BY <1>3, <1>4

\* The job becomes a silo while nothing runs in it.
LEMMA PromoteIsPromote ==
  ASSUME IInv, RInv, NEW e \in Execs, ExecPromote(e)
  PROVE  RInv' /\ [Contract!Next]_Contract!vars
<1> USE ClientsAssumption, NoJobAssumption, ProcFacts
    DEF IInv, RInv, TypeOK, Goto, Jobs, Clients, Launchers, ExecPromote, procVars, jobVars
<1>1. handle[e] = e /\ Named(e) /\ ~silo[e]
    BY DEF OwnJob, Working, SetUp, Named, Fresh
<1>2. mapped' = mapped /\ silo' = [silo EXCEPT ![e] = TRUE] /\ silo'[e]
    BY <1>1
<1>3. Tree' = Tree /\ Over' = Over
    BY DEF Tree, Over, Live
<1>4. \A j \in Jobs : Named(j)' <=> Named(j)
    BY DEF Named
<1>5. OneNamed'
    BY <1>4, StaysOne
<1>6. Fresh' /\ AtAssign' /\ AtKill'
    BY <1>2 DEF Fresh, AtAssign, AtKill
<1>7. Tree = {}
    BY <1>1, TreeIsOfHolder DEF Tree
<1>8. Contract!Promote
    BY <1>1, <1>2, <1>3, <1>4, <1>5, <1>7, MappedTo, MappedToNext DEF Contract!Promote
<1> QED
    BY <1>5, <1>6, <1>8 DEF Contract!Next

\* The last mapping call makes the silo ready; the contract sees no other.
LEMMA MapIsFinish ==
  ASSUME IInv, RInv, NEW e \in Execs, ExecMap(e)
  PROVE  RInv' /\ [Contract!Next]_Contract!vars
<1> USE ClientsAssumption, NoJobAssumption, ProcFacts
    DEF IInv, RInv, TypeOK, Goto, Jobs, Clients, Launchers, ExecMap, procVars, jobVars
<1>1. handle[e] = e /\ Named(e) /\ silo[e] /\ mapped[e] < MapSteps
    BY DEF OwnJob, Working, SetUp, Named, InOrder
<1>2. silo' = silo
    OBVIOUS
<1>3. Tree' = Tree /\ Over' = Over
    BY DEF Tree, Over, Live
<1>4. \A j \in Jobs : Named(j)' <=> Named(j)
    BY DEF Named
<1>5. OneNamed'
    BY <1>4, StaysOne
<1>6. Fresh' /\ AtAssign' /\ AtKill'
    BY DEF Fresh, AtAssign, AtKill
<1>7. Holder = e /\ Holder' = e /\ Stage = "silo" /\ Stage' \in {"silo", "ready"}
    BY <1>1, <1>2, <1>4, <1>5, MappedTo, MappedToNext
<1>8. Contract!Finish \/ UNCHANGED Contract!vars
    BY <1>3, <1>7 DEF Contract!Finish, Contract!vars
<1> QED
    BY <1>5, <1>6, <1>8 DEF Contract!Next

-----------------------------------------------------------------------------
(* Processes that enter a silo.                                            *)

\* A command enters the silo of its launcher, on either launch path: exec's own
\* with all of its mappings, silo exec's whichever silo it opened.
LEMMA CommandEnters ==
  ASSUME IInv, RInv, NEW l \in Launchers, LaunchInJob(l) \/ AssignToJob(l)
  PROVE  RInv' /\ [Contract!Next]_Contract!vars
<1> USE ClientsAssumption, NoJobAssumption, BoundsAssumption, ProcFacts
    DEF IInv, RInv, TypeOK, Goto, Jobs, Clients, Launchers, LaunchInJob, AssignToJob, jobVars
<1> DEFINE j == handle[l]
           p == Command(l)
<1>1. j \in Jobs /\ Named(j) /\ silo[j] /\ silo' = silo /\ mapped' = mapped
    BY DEF OwnJob, Working, InOrder, Launching, Placing, Named
<1>2. /\ proc[p] # "exited" /\ member[p] = NoJob
      /\ member' = [member EXCEPT ![p] = j]
      /\ proc'[p] \in {"suspended", "running"}
      /\ \A q \in Procs : q # p => proc'[q] = proc[q]
    BY DEF AtCommand, Launching, InheritsOwn, AtAssign
<1>3. p \in Procs /\ p \notin Tree \cup Over /\ Tree' = Tree \cup {p} /\ Over' = Over
    BY <1>1, <1>2 DEF Tree, Over, Live
<1>4. \A i \in Jobs : Named(i)' <=> Named(i)
    BY DEF Named, AtCommand, Launching, InheritsOwn, Inherits
<1>5. \A e \in Execs : p = Command(e) => e = j /\ ~(mapped[j] < MapSteps)
    BY DEF OwnJob, Working, InOrder, Launching, Placing
<1>6. OneNamed'
    BY <1>4, StaysOne
<1>7. Fresh' /\ AtAssign' /\ AtKill'
    BY DEF Fresh, AtAssign, AtKill, AfterStart
<1> HIDE DEF j, p
<1>8. Contract!Next
    BY <1>1, <1>3, <1>4, <1>5, EnterIsEnter
<1> QED
    BY <1>6, <1>7, <1>8

\* A child enters the silo of its parent.
LEMMA ChildEnters ==
  ASSUME IInv, RInv, NEW l \in Launchers, Spawn(l)
  PROVE  RInv' /\ [Contract!Next]_Contract!vars
<1> USE ClientsAssumption, NoJobAssumption, ProcFacts
    DEF IInv, RInv, TypeOK, Jobs, Clients, Launchers, Spawn, jobVars
<1> DEFINE j == member[Command(l)]
           p == Descendant(l)
<1>1. j \in Jobs /\ Named(j) /\ silo[j] /\ silo' = silo /\ mapped' = mapped
    BY DEF InSilo, TreeIsHeld, Live
<1>2. /\ proc[p] = "none" /\ member[p] = NoJob
      /\ member' = [member EXCEPT ![p] = j]
      /\ proc' = [proc EXCEPT ![p] = "running"]
    BY DEF InheritsOwn
<1>3. p \in Procs /\ p \notin Tree \cup Over /\ Tree' = Tree \cup {p} /\ Over' = Over
    BY <1>1, <1>2 DEF Tree, Over, Live
<1>4. \A i \in Jobs : Named(i)' <=> Named(i)
    BY DEF Named, InheritsOwn
<1>5. \A e \in Execs : p # Command(e)
    BY DEF Command, Descendant
<1>6. OneNamed'
    BY <1>4, StaysOne
<1>7. Fresh' /\ AtAssign' /\ AtKill'
    BY DEF Fresh, AtAssign, AtKill
<1> HIDE DEF j, p
<1>8. Contract!Next
    BY <1>1, <1>3, <1>4, <1>5, EnterIsEnter
<1> QED
    BY <1>6, <1>7, <1>8

-----------------------------------------------------------------------------
(* The refinement.                                                         *)

\* At the start the name is free.
LEMMA InitRefines == Init => RInv /\ Contract!Init
<1> SUFFICES ASSUME Init
             PROVE  RInv /\ Contract!Init
    OBVIOUS
<1> USE NoJobAssumption, ProcFacts DEF Init, Jobs, Clients, Launchers
<1>1. NameFree
    BY DEF NameFree, Named
<1>2. RInv
    BY <1>1 DEF RInv, OneNamed, NameFree, Fresh, AtAssign, AtKill
<1>3. Holder = NoJob /\ Stage = "none" /\ Tree = {} /\ Over = {}
    BY <1>1 DEF Holder, Stage, Tree, Over, Live
<1> QED
    BY <1>2, <1>3 DEF Contract!Init

\* Every step is a step of the contract, or one that it does not see.
LEMMA NextRefines == IInv /\ IInv' /\ RInv /\ [Next]_vars
                       => RInv' /\ [Contract!Next]_Contract!vars
<1> SUFFICES ASSUME IInv, IInv', RInv, [Next]_vars
             PROVE  RInv' /\ [Contract!Next]_Contract!vars
    OBVIOUS
<1>1. ASSUME NEW e \in Execs, ExecStep(e) \/ ExecRefused(e)
      PROVE  RInv' /\ [Contract!Next]_Contract!vars
  <2>1. CASE ExecRefused(e) \/ ExecMapped(e) \/ ExecLimit(e)
      BY <2>1, StillSteps DEF QuietStep, Clients, Launchers
  <2>2. CASE ExecCheck(e)
      BY <2>2, OpeningSteps
  <2>3. CASE ExecCreate(e) \/ ExecPromote(e) \/ ExecMap(e)
      BY <2>3, CreateIsTake, PromoteIsPromote, MapIsFinish
  <2> QED
      BY <1>1, <2>1, <2>2, <2>3 DEF ExecStep
<1>2. ASSUME NEW n \in Entrants, EntrantStep(n)
      PROVE  RInv' /\ [Contract!Next]_Contract!vars
    BY <1>2, OpeningSteps, StillSteps DEF EntrantStep, QuietStep, Clients, Launchers
<1>3. ASSUME NEW l \in Launchers, LaunchStep(l) \/ Error(l)
      PROVE  RInv' /\ [Contract!Next]_Contract!vars
  <2>1. CASE \/ FallBack(l) \/ WaitReturns(l) \/ CallFails(l) \/ WaitFails(l)
             \/ MakeInheritable(l)
      BY <2>1, StillSteps DEF QuietStep, Clients
  <2>2. CASE LaunchInJob(l) \/ AssignToJob(l)
      BY <2>2, CommandEnters
  <2>3. CASE CreateSuspended(l) \/ Resume(l)
      BY <2>3, CreateAndResume
  <2>4. CASE PlacingFails(l)
      BY <2>4, EndingSteps
  <2> QED
      BY <1>3, <2>1, <2>2, <2>3, <2>4 DEF LaunchStep, Error
<1>4. ASSUME NEW v \in Visitors, VisitorStep(v)
      PROVE  RInv' /\ [Contract!Next]_Contract!vars
    BY <1>4, OpeningSteps, EndingSteps, StillSteps DEF VisitorStep, QuietStep, Clients
<1>5. ASSUME NEW c \in Clients, Leave(c) \/ Crash(c)
      PROVE  RInv' /\ [Contract!Next]_Contract!vars
    BY <1>5, EndingSteps
<1>6. ASSUME NEW l \in Launchers, Spawn(l)
      PROVE  RInv' /\ [Contract!Next]_Contract!vars
    BY <1>6, ChildEnters
<1>7. ASSUME NEW p \in Procs, Exit(p)
      PROVE  RInv' /\ [Contract!Next]_Contract!vars
    BY <1>7, EndingSteps
<1>8. CASE UNCHANGED vars
  <2>1. \A j \in Jobs : Named(j)' <=> Named(j)
      BY <1>8 DEF vars, procVars, Named
  <2>2. RInv'
      BY <1>8, <2>1, StaysOne DEF RInv, Fresh, AtAssign, AtKill, vars, procVars, jobVars
  <2>3. Tree' = Tree /\ Over' = Over /\ silo' = silo /\ mapped' = mapped
      BY <1>8 DEF vars, procVars, jobVars, Tree, Over, Live
  <2> QED
      BY <2>1, <2>2, <2>3, Unseen DEF RInv
<1> QED
    BY <1>1, <1>2, <1>3, <1>4, <1>5, <1>6, <1>7, <1>8 DEF Next, Step

\* The whole of exec, silo exec and their visitors keeps the promise of a silo,
\* for any number of them (exec_windows.go:31, main_windows.go:239, job_windows.go).
THEOREM ContractKeptHolds == Spec => ContractKept
<1>1. IInv /\ RInv /\ [Next]_vars /\ IInv' => RInv' /\ [Contract!Next]_Contract!vars
    BY NextRefines
<1> QED
    BY <1>1, InitRefines, Invariance, PTL DEF Spec, ContractKept, Contract!Spec

=============================================================================
