---------------------------- MODULE SiloLifecycle ----------------------------
(***************************************************************************)
(* One silo name and every bindmount process that uses it at the same      *)
(* time.  The clients are `exec` (creates the job, promotes it to a silo,  *)
(* installs its mappings, launches a command), `silo exec` (an entrant:    *)
(* opens the silo and launches another command in it), and the short-lived *)
(* visitors: `silo kill`, `silo exists`, `list --silo`.                    *)
(*                                                                         *)
(* Windows keeps a named job while somebody holds a handle to it.  Closing *)
(* the last handle frees the name and, under KILL_ON_JOB_CLOSE, terminates *)
(* every process of the job.  Each exec creates at most one job object, so *)
(* the exec that would create it names the object.                         *)
(***************************************************************************)
EXTENDS Naturals, FiniteSets

CONSTANTS
  Execs,      \* `bindmount exec` invocations that give the same silo name
  Entrants,   \* `bindmount silo exec` invocations
  Visitors,   \* `silo kill`, `silo exists` and `list --silo` invocations
  Killers,    \* the visitors that are `silo kill`
  MapSteps,   \* mapping calls an exec makes before it launches
  MaxCrashes, \* bound: client processes that are killed from outside
  NoJob       \* no job object

ASSUME ClientsAssumption ==
  /\ Execs \cap Entrants = {}
  /\ Execs \cap Visitors = {}
  /\ Entrants \cap Visitors = {}
  /\ Killers \subseteq Visitors

ASSUME NoJobAssumption == NoJob \notin Execs

ASSUME BoundsAssumption == MapSteps \in Nat /\ MaxCrashes \in Nat

Jobs      == Execs
Launchers == Execs \cup Entrants
Clients   == Launchers \cup Visitors

\* The process a launcher creates, and one process started by it in turn.
Procs         == Launchers \X {"command", "descendant"}
Command(l)    == <<l, "command">>
Descendant(l) == <<l, "descendant">>

VARIABLES
  detached,    \* launchers run with --detach
  pc,          \* where each client is in its code
  handle,      \* the job handle each client holds
  inheritable, \* launchers whose job handle is marked inheritable
  limit,       \* jobs with JOB_OBJECT_LIMIT_KILL_ON_JOB_CLOSE
  silo,        \* jobs promoted to a silo
  mapped,      \* mapping calls made so far on each job
  proc,        \* state of each process
  member,      \* the job a process was put in
  inherited    \* the job handle a process inherited and still holds

jobVars  == <<limit, silo, mapped>>
procVars == <<proc, member, inherited>>
vars     == <<detached, pc, handle, inheritable, jobVars, procVars>>

\* A launcher is `Launching` from the moment its job is ready for a process
\* until it has one.
Launching == {"launch", "fallback"}
SetUp     == {"inherit", "limit", "promote", "map"}
Placing   == {"assign", "resume"}
Ended     == {"done", "failed", "crashed"}
Phases    == {"idle", "create", "query", "opened", "waiting", "closing_ok",
              "closing_err"} \cup SetUp \cup Launching \cup Placing \cup Ended

-----------------------------------------------------------------------------
(* The kernel's side: names, handles and processes.                        *)

Live(p)  == proc[p] \in {"suspended", "running"}

Named(j) == \/ \E c \in Clients : handle[c] = j
            \/ \E p \in Procs : inherited[p] = j

NameFree == \A j \in Jobs : ~Named(j)

\* Client c opens whichever job has the name now.
OpenByName(c) == \E j \in Jobs : Named(j) /\ handle' = [handle EXCEPT ![c] = j]

\* No handle to j is left once the clients in C and the processes in D let
\* go of theirs.
LastClosed(j, C, D) == /\ \A c \in Clients : handle[c] = j => c \in C
                       /\ \A p \in Procs : inherited[p] = j => p \in D

KilledByClose(C, D) ==
  {p \in Procs : /\ Live(p)
                 /\ member[p] \in Jobs
                 /\ limit[member[p]]
                 /\ LastClosed(member[p], C, D)}

\* The clients in C close their job handles, the processes in D end, and
\* KILL_ON_JOB_CLOSE ends what was held up by them alone.
Drop(C, D) ==
  LET dead == D \cup KilledByClose(C, D)
  IN  /\ handle' = [c \in Clients |-> IF c \in C THEN NoJob ELSE handle[c]]
      /\ proc' = [p \in Procs |-> IF p \in dead THEN "exited" ELSE proc[p]]
      /\ inherited' = [p \in Procs |-> IF p \in dead THEN NoJob ELSE inherited[p]]

Goto(c, where) == pc' = [pc EXCEPT ![c] = where]

Init ==
  /\ detached \in SUBSET Launchers
  /\ pc = [c \in Clients |-> "idle"]
  /\ handle = [c \in Clients |-> NoJob]
  /\ inheritable = [l \in Launchers |-> FALSE]
  /\ limit = [j \in Jobs |-> FALSE]
  /\ silo = [j \in Jobs |-> FALSE]
  /\ mapped = [j \in Jobs |-> 0]
  /\ proc = [p \in Procs |-> "none"]
  /\ member = [p \in Procs |-> NoJob]
  /\ inherited = [p \in Procs |-> NoJob]

-----------------------------------------------------------------------------
(* exec: from the argument checks to a silo with its mappings.             *)

\* Bad arguments, an executable that is not found, or an existence check
\* that fails for a reason other than "no such job".
ExecRefused(e) ==
  /\ pc[e] = "idle"
  /\ Goto(e, "failed")
  /\ UNCHANGED <<detached, handle, inheritable, jobVars, procVars>>

\* The existence check: a job that opens means "already exists", and the
\* handle just opened is closed on the way out.
ExecCheck(e) ==
  /\ pc[e] = "idle"
  /\ \/ OpenByName(e) /\ Goto(e, "closing_err")
     \/ NameFree /\ Goto(e, "create") /\ UNCHANGED handle
  /\ UNCHANGED <<detached, inheritable, jobVars, procVars>>

\* Fault: ERROR_ALREADY_EXISTS is ignored and the job found is used.
ExecCreateReusing(e) ==
  /\ pc[e] = "create"
  /\ \/ OpenByName(e) /\ Goto(e, "inherit")
     \/ NameFree /\ handle' = [handle EXCEPT ![e] = e] /\ Goto(e, "inherit")
     \/ Goto(e, "failed") /\ UNCHANGED handle
  /\ UNCHANGED <<detached, inheritable, jobVars, procVars>>

\* CreateJobObject hands back a handle to the existing job when the name was
\* taken after the check; CreateJob closes it and reports an error.
ExecCreate(e) ==
  /\ pc[e] = "create"
  /\ \/ OpenByName(e) /\ Goto(e, "closing_err")
     \/ NameFree /\ handle' = [handle EXCEPT ![e] = e] /\ Goto(e, "inherit")
     \/ Goto(e, "failed") /\ UNCHANGED handle
  /\ UNCHANGED <<detached, inheritable, jobVars, procVars>>

\* Fault: the handle of a detached run stays private.
MakeInheritableSkipped(l) ==
  /\ pc[l] = "inherit"
  /\ Goto(l, IF l \in Execs THEN "limit" ELSE "launch")
  /\ UNCHANGED <<detached, handle, inheritable, jobVars, procVars>>

\* Only --detach marks the job handle inheritable.  exec goes on to configure
\* the job, silo exec is ready to launch.
MakeInheritable(l) ==
  /\ pc[l] = "inherit"
  /\ inheritable' = [inheritable EXCEPT ![l] = l \in detached]
  /\ Goto(l, IF l \in Execs THEN "limit" ELSE "launch")
  /\ UNCHANGED <<detached, handle, jobVars, procVars>>

\* Fault: the limit flags are written without KILL_ON_JOB_CLOSE.
ExecLimitWithoutKill(e) ==
  /\ pc[e] = "limit"
  /\ Goto(e, "promote")
  /\ UNCHANGED <<detached, handle, inheritable, jobVars, procVars>>

\* KILL_ON_JOB_CLOSE (and the UI restrictions, which this model leaves out).
ExecLimit(e) ==
  /\ pc[e] = "limit"
  /\ limit' = [limit EXCEPT ![handle[e]] = TRUE]
  /\ Goto(e, "promote")
  /\ UNCHANGED <<detached, handle, inheritable, silo, mapped, procVars>>

\* Windows promotes only a job without processes.
ExecPromote(e) ==
  /\ pc[e] = "promote"
  /\ \A p \in Procs : Live(p) => member[p] # handle[e]
  /\ silo' = [silo EXCEPT ![handle[e]] = TRUE]
  /\ Goto(e, "map")
  /\ UNCHANGED <<detached, handle, inheritable, limit, mapped, procVars>>

\* Fault: one mapping call too many.
ExecMapTooOften(e) ==
  /\ pc[e] = "map"
  /\ mapped[handle[e]] <= MapSteps
  /\ mapped' = [mapped EXCEPT ![handle[e]] = @ + 1]
  /\ UNCHANGED <<detached, pc, handle, inheritable, limit, silo, procVars>>

\* One mapping call of the mapping phase.
ExecMap(e) ==
  /\ pc[e] = "map"
  /\ mapped[handle[e]] < MapSteps
  /\ mapped' = [mapped EXCEPT ![handle[e]] = @ + 1]
  /\ UNCHANGED <<detached, pc, handle, inheritable, limit, silo, procVars>>

ExecMapped(e) ==
  /\ pc[e] = "map"
  /\ mapped[handle[e]] = MapSteps
  /\ Goto(e, "launch")
  /\ UNCHANGED <<detached, handle, inheritable, jobVars, procVars>>

-----------------------------------------------------------------------------
(* silo exec: open by name, refuse a job that is not a silo.               *)

EntrantOpen(n) ==
  /\ pc[n] = "idle"
  /\ \/ OpenByName(n) /\ Goto(n, "query")
     \/ NameFree /\ Goto(n, "failed") /\ UNCHANGED handle
  /\ UNCHANGED <<detached, inheritable, jobVars, procVars>>

\* Fault: any job that opens is taken for a silo, as openSiloJob does.
EntrantQuerySkipped(n) ==
  /\ pc[n] = "query"
  /\ Goto(n, "inherit")
  /\ UNCHANGED <<detached, handle, inheritable, jobVars, procVars>>

EntrantQuery(n) ==
  /\ pc[n] = "query"
  /\ Goto(n, IF silo[handle[n]] THEN "inherit" ELSE "closing_err")
  /\ UNCHANGED <<detached, handle, inheritable, jobVars, procVars>>

-----------------------------------------------------------------------------
(* Launching, shared by exec and silo exec.                                *)

\* A call before any process exists fails; its error goes straight to the
\* caller, which closes the job handle.
CallFails(l) ==
  /\ pc[l] \in SetUp \cup Launching
  /\ Goto(l, "closing_err")
  /\ UNCHANGED <<detached, handle, inheritable, jobVars, procVars>>

AfterStart(l) == IF l \in detached THEN "closing_ok" ELSE "waiting"
Inherits(l)   == IF inheritable[l] THEN handle[l] ELSE NoJob

\* CreateProcess with PROC_THREAD_ATTRIBUTE_JOB_LIST: the process is a member
\* of the job from its first instruction.
LaunchInJob(l) ==
  /\ pc[l] = "launch"
  /\ proc' = [proc EXCEPT ![Command(l)] = "running"]
  /\ member' = [member EXCEPT ![Command(l)] = handle[l]]
  /\ inherited' = [inherited EXCEPT ![Command(l)] = Inherits(l)]
  /\ Goto(l, AfterStart(l))
  /\ UNCHANGED <<detached, handle, inheritable, jobVars>>

\* The attribute list cannot be built, or CreateProcess rejects the job with
\* ERROR_INVALID_PARAMETER: no process exists and the fallback may run.
FallBack(l) ==
  /\ pc[l] = "launch"
  /\ Goto(l, "fallback")
  /\ UNCHANGED <<detached, handle, inheritable, jobVars, procVars>>

CreateSuspended(l) ==
  /\ pc[l] = "fallback"
  /\ proc' = [proc EXCEPT ![Command(l)] = "suspended"]
  /\ inherited' = [inherited EXCEPT ![Command(l)] = Inherits(l)]
  /\ Goto(l, "assign")
  /\ UNCHANGED <<detached, handle, inheritable, jobVars, member>>

AssignToJob(l) ==
  /\ pc[l] = "assign"
  /\ member' = [member EXCEPT ![Command(l)] = handle[l]]
  /\ Goto(l, "resume")
  /\ UNCHANGED <<detached, handle, inheritable, jobVars, proc, inherited>>

\* A silo kill between the two calls may already have ended the process.
Resume(l) ==
  /\ pc[l] = "resume"
  /\ proc' = [proc EXCEPT ![Command(l)] = IF @ = "suspended" THEN "running" ELSE @]
  /\ Goto(l, AfterStart(l))
  /\ UNCHANGED <<detached, handle, inheritable, jobVars, member, inherited>>

\* Fault: the process that could not be placed is not terminated.
PlacingFailsKeeping(l) ==
  /\ pc[l] \in Placing
  /\ Goto(l, "closing_err")
  /\ UNCHANGED <<detached, handle, inheritable, jobVars, procVars>>

\* AssignProcessToJobObject or ResumeThread fails: the process is terminated.
PlacingFails(l) ==
  /\ pc[l] \in Placing
  /\ Drop({}, {Command(l)})
  /\ Goto(l, "closing_err")
  /\ UNCHANGED <<detached, inheritable, jobVars, member>>

\* Fault: the launcher waits for the job to become empty.
WaitReturnsWhenEmpty(l) ==
  /\ pc[l] = "waiting"
  /\ \A p \in Procs : member[p] = handle[l] => ~Live(p)
  /\ Goto(l, "closing_ok")
  /\ UNCHANGED <<detached, handle, inheritable, jobVars, procVars>>

\* An attached launcher waits for the process it created, not for the job.
WaitReturns(l) ==
  /\ pc[l] = "waiting"
  /\ proc[Command(l)] = "exited"
  /\ Goto(l, "closing_ok")
  /\ UNCHANGED <<detached, handle, inheritable, jobVars, procVars>>

\* Fault: every launch error leads to the fallback.
WaitFailsToFallback(l) ==
  /\ pc[l] = "waiting"
  /\ Goto(l, "fallback")
  /\ UNCHANGED <<detached, handle, inheritable, jobVars, procVars>>

\* WaitForSingleObject or GetExitCodeProcess reports an error.
WaitFails(l) ==
  /\ pc[l] = "waiting"
  /\ Goto(l, "closing_err")
  /\ UNCHANGED <<detached, handle, inheritable, jobVars, procVars>>

-----------------------------------------------------------------------------
(* The visitors, and how every client ends.                                *)

VisitorOpen(v) ==
  /\ pc[v] = "idle"
  /\ \/ OpenByName(v) /\ Goto(v, "opened")
     \/ NameFree /\ Goto(v, "failed") /\ UNCHANGED handle
  /\ UNCHANGED <<detached, inheritable, jobVars, procVars>>

\* silo kill: every process that is in the job now is terminated.
Kill(v) ==
  /\ v \in Killers
  /\ pc[v] = "opened"
  /\ Drop({}, {p \in Procs : Live(p) /\ member[p] = handle[v]})
  /\ Goto(v, "closing_ok")
  /\ UNCHANGED <<detached, inheritable, jobVars, member>>

\* The other visitors only read; TerminateJobObject or a query may fail.
Look(v) ==
  /\ pc[v] = "opened"
  /\ \/ v \notin Killers /\ Goto(v, "closing_ok")
     \/ Goto(v, "closing_err")
  /\ UNCHANGED <<detached, handle, inheritable, jobVars, procVars>>

\* The deferred CloseHandle, or the exit of the process.
Leave(c) ==
  /\ pc[c] \in {"closing_ok", "closing_err"}
  /\ Drop({c}, {})
  /\ Goto(c, IF pc[c] = "closing_ok" THEN "done" ELSE "failed")
  /\ UNCHANGED <<detached, inheritable, jobVars, member>>

\* A client is killed from outside; Windows closes its handles.
Crash(c) ==
  /\ pc[c] \notin Ended \cup {"idle"}
  /\ Cardinality({x \in Clients : pc[x] = "crashed"}) < MaxCrashes
  /\ Drop({c}, {})
  /\ Goto(c, "crashed")
  /\ UNCHANGED <<detached, inheritable, jobVars, member>>

-----------------------------------------------------------------------------
(* The launched processes.                                                 *)

\* Breakaway is denied, so a child of a member is a member; it has the job
\* handle only if its creator had it and enabled inheritance.
Spawn(l) ==
  /\ proc[Command(l)] = "running"
  /\ proc[Descendant(l)] = "none"
  /\ proc' = [proc EXCEPT ![Descendant(l)] = "running"]
  /\ member' = [member EXCEPT ![Descendant(l)] = member[Command(l)]]
  /\ \E h \in {NoJob, inherited[Command(l)]} :
        inherited' = [inherited EXCEPT ![Descendant(l)] = h]
  /\ UNCHANGED <<detached, pc, handle, inheritable, jobVars>>

Exit(p) ==
  /\ proc[p] = "running"
  /\ Drop({}, {p})
  /\ UNCHANGED <<detached, pc, inheritable, jobVars, member>>

-----------------------------------------------------------------------------

\* The steps a client takes by itself, errors apart.
ExecStep(e) == \/ ExecCheck(e) \/ ExecCreate(e) \/ ExecLimit(e) \/ ExecPromote(e)
               \/ ExecMap(e) \/ ExecMapped(e)

EntrantStep(n) == EntrantOpen(n) \/ EntrantQuery(n)

LaunchStep(l) == \/ MakeInheritable(l) \/ LaunchInJob(l) \/ FallBack(l)
                 \/ CreateSuspended(l) \/ AssignToJob(l) \/ Resume(l) \/ WaitReturns(l)

VisitorStep(v) == VisitorOpen(v) \/ Kill(v) \/ Look(v)

Step(c) == \/ c \in Execs /\ ExecStep(c)
           \/ c \in Entrants /\ EntrantStep(c)
           \/ c \in Launchers /\ LaunchStep(c)
           \/ c \in Visitors /\ VisitorStep(c)
           \/ Leave(c)

Error(l) == CallFails(l) \/ PlacingFails(l) \/ WaitFails(l)

Next == \/ \E c \in Clients : Step(c) \/ Crash(c)
        \/ \E e \in Execs : ExecRefused(e)
        \/ \E l \in Launchers : Error(l) \/ Spawn(l)
        \/ \E p \in Procs : Exit(p)

Spec == Init /\ [][Next]_vars

\* Windows keeps scheduling a client that has begun.  Nobody has to start one,
\* no call has to fail, and nothing makes a launched process end.
Begun(c) == pc[c] # "idle" /\ Step(c)

Fairness == \A c \in Clients : WF_vars(Begun(c))

FairSpec == Spec /\ Fairness

-----------------------------------------------------------------------------
(* Properties.                                                             *)

\* Every variable has its type; mapping calls never exceed the plan.
TypeOK ==
  /\ detached \in SUBSET Launchers
  /\ pc \in [Clients -> Phases]
  /\ handle \in [Clients -> Jobs \cup {NoJob}]
  /\ inheritable \in [Launchers -> BOOLEAN]
  /\ limit \in [Jobs -> BOOLEAN]
  /\ silo \in [Jobs -> BOOLEAN]
  /\ mapped \in [Jobs -> 0..MapSteps]
  /\ proc \in [Procs -> {"none", "suspended", "running", "exited"}]
  /\ member \in [Procs -> Jobs \cup {NoJob}]
  /\ inherited \in [Procs -> Jobs \cup {NoJob}]

\* runInSiloFallback's promise: a launched process never runs an instruction
\* in the host's view; it runs only as a member of a promoted silo, on both
\* launch paths and for silo exec against a job still being set up.
NeverHostView ==
  \A p \in Procs : proc[p] = "running" => /\ member[p] \in Jobs
                                          /\ silo[member[p]]

\* KILL_ON_JOB_CLOSE is in place before any process is: whatever crashes or
\* fails, no process of a silo outlives the last handle to its job.
TreeIsHeld == \A p \in Procs : Live(p) /\ member[p] \in Jobs => Named(member[p])

\* exec's own command runs in the job that very exec created, with all of its
\* mappings in place, even when another exec races it for the name.
OwnViewComplete ==
  \A e \in Execs : proc[Command(e)] = "running" =>
     member[Command(e)] = e /\ mapped[e] = MapSteps

\* A suspended process exists only while its launcher is about to assign or
\* resume it; only a launcher killed right there can leave one behind.
NoAbandonedProcess ==
  \A l \in Launchers : proc[Command(l)] = "suspended" =>
     pc[l] \in Placing \cup {"crashed"}

\* A client lets go of its handle and the running command of l goes on.
SparedByLeaving(l) ==
  /\ proc[Command(l)] = "running"
  /\ \E c \in Clients : handle[c] # NoJob /\ handle'[c] = NoJob
  => proc'[Command(l)] = "running"

\* "detached runs pass an inheritable handle ... so the silo survives bindmount
\* exiting": the exit or crash of a detached launcher, and of any other client,
\* leaves the detached command alone.
DetachedSurvives == [][\A l \in detached : SparedByLeaving(l)]_vars

Rank(state) == CASE state = "none" -> 0 [] state = "suspended" -> 1
                 [] state = "running" -> 2 [] state = "exited" -> 3

NoRestart(l) == Rank(proc'[Command(l)]) >= Rank(proc[Command(l)])

\* One invocation starts its command at most once: the fallback runs only when
\* the first attempt created no process.
StartsOnce == [][\A l \in Launchers : NoRestart(l)]_vars

\* An attached launcher returns once its command has ended, also when the
\* command's descendants live on in the silo or a silo kill ended it.
AttachedReturns ==
  \A l \in Launchers :
     (pc[l] = "waiting" /\ proc[Command(l)] = "exited") ~> pc[l] \in Ended

Abandoned(j) == \E l \in Launchers : /\ pc[l] = "crashed"
                                     /\ proc[Command(l)] = "suspended"
                                     /\ inherited[Command(l)] = j

\* When nothing runs in the silo any more the name becomes free again, unless a
\* launcher killed between CreateProcess and ResumeThread left a suspended
\* process with the inherited job handle: nobody can end that one by name.
NameIsFreed ==
  <>[](\A p \in Procs : proc[p] # "running")
    => <>[](\A j \in Jobs : Named(j) => Abandoned(j))

=============================================================================
