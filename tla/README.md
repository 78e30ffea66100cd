# bindmount in TLA+

TLA+ specifications of `bindmount`, the Windows command that manages Bind
Filter mappings and Job Silos, with the TLC runs that check them and the
proofs that TLAPS checks. `src/...:n` is a file and a line of the repository.

- [1. The system](#1-the-system)
- [2. The modules](#2-the-modules)
- [3. The runs](#3-the-runs)
- [4. What is proved](#4-what-is-proved)
- [5. Where code and documentation disagree](#5-where-code-and-documentation-disagree)
- [6. What is not modelled](#6-what-is-not-modelled)
- [7. Plan](#7-plan)

To check it:

    tlc -config Silo.cfg MCSiloLifecycle.tla          # one run; the table in 3 has them all
    tlapm SiloNames_proofs.tla                        # one proof module

## 1. The system

`bindmount` is a command, not a server. Every invocation is a short process
that keeps nothing on disk except directories it prepares; what lasts is in
the kernel: job objects and their names, handles, processes, and the filter's
mappings. So the concurrency of the program is that of *several invocations*
(`exec`, `silo exec`, `silo kill`, ...) that share a job by its name, and of
the processes they leave behind.

| Component | State | Operations | Talks to |
|---|---|---|---|
| exec: lifecycle (`exec_windows.go`, `job_windows.go`) | job handle, its flags, the silo promotion | check, create, limit, promote, map, launch, wait, close | every other command, through the job's name |
| launching (`run_windows.go`, `process_windows.go`) | the created process, suspended or running | create in the job, or create suspended, assign, resume; terminate on failure; wait | the lifecycle of exec and silo exec |
| exec: backing tree (`exec_windows.go`) | directories and links under the `--root` directory | make the drives' directories and the initialization paths, stage directory links | other exec with the same `--root`; the host's file system |
| exec: mapping phase (`exec_windows.go`) | `mapped`, the record of virtual roots the passes share | eleven passes: root, readonly root, TEMP, PATH, cwd, Git root, app state, appexec, executable, PowerShell, links | the filter; the environment |
| silo names (`main_windows.go`, `job_windows.go`) | none of its own; the kernel's namespaces | `siloLookupNames`, `openSiloJob`, `openNamedSilo`, `CreateJob` | every command with a silo name |
| temporary directory (`exec_windows.go`) | files under `%LOCALAPPDATA%\bindmount\tempdirs` | hash the name, clear, create, map TEMP and TMP | silos of the same user |
| mapping queries (`bindfilter_windows.go`, `bindflt_windows.go`) | buffer size and attempt of one query | call, grow, give up | the filter, which others change |
| add, remove, list (`main_windows.go`, `bindfilter_windows.go`, `paths_windows.go`) | flags of one call; the answer being printed | classify the target, call, retry as a file; remove; query and convert to paths with letters | the filter; the drive table |
| response parser (`mappings_windows.go`) | a buffer, the entry in hand | check and read header, entries, targets | the query |
| alias reader (`appexec_windows.go`) | a reparse buffer | read the strings of an alias | appexec pass |
| silo find (`main_windows.go`, `named_silos_windows.go`) | a process snapshot, a list of named silos | snapshot, list, open, query | processes and jobs that come and go |
| command lines (`run_windows.go`, `exec_windows.go`) | none | flag loops, link specs, quoting | all commands |
| GUI (`scripts/bindmount-gui.ps1`) | the form; a staging directory | build a command line, stage links, start, poll | bindmount.exe |

### Where it is hard

* **Two `exec` of one name.** Existence is checked (`exec_windows.go:128`)
  before the job is created (`:135`); in between, another `exec` may do both.
* **A job that is not ready.** The job has its name from `CreateJob` on, is a
  silo from `PromoteToSilo` on, and has its mappings only later. `silo exec`,
  `silo kill` and `list --silo` can open it at each of these points.
* **Who holds the job.** The name, and every process under
  `KILL_ON_JOB_CLOSE`, live as long as *some* handle does: the launcher's, a
  visitor's, an inherited one of a detached command or of its descendants.
  Each close, exit and crash may be the last one.
* **The fallback launch.** Between `CreateProcess(SUSPENDED)`, the assignment
  and the resume, the process exists, is in no silo, and may inherit the
  handle; each step can fail, or the launcher be killed.
* **The record and the filter.** `exec` skips what its record says is mapped.
  The record compares lower-cased paths; the filter compares directories. Some
  passes are best effort: their failures must not leave a record.
* **Names.** A search looks in the caller's session and then in `Global\`,
  while jobs appear and vanish in both; other programs have jobs too.
* **The temporary directory** depends on the name as typed and on nothing else.
* **A query that chases a growing answer** with a bounded number of attempts,
  and a parser that must survive whatever the filter put into the buffer.
* **A `--root` tree that several `exec` share**, prepared with calls that look
  first and act later, before any view protects the host: paths in the tree are
  resolved through the links an earlier run staged there.
* **A target that changes between the look and the mapping**: `add` classifies
  it, calls, and may call again as a file.
* **Text that one side writes and another reads**: command lines, link
  specifications, the GUI's argument string, roots that `list` prints and a user
  hands to `remove`.
* **`silo find` holds on to nothing.** It keeps PIDs and names from one phase to
  the next, and both can have gone to others when it comes back to them.

### What makes each component correct

* Lifecycle and launching: a command runs only inside a promoted silo, and
  `exec`'s own one only behind all its mappings; it is started once; nothing
  outlives its job's last handle; a detached command outlives its launcher;
  nothing suspended stays behind; an attached launcher returns; the name is
  freed in the end.
* Mapping phase: a recorded root is served; no root is asked for twice unless
  it has two spellings; TEMP and TMP never lead to the host under the
  PowerShell passthrough; recreated links lead to the host's directories, unless they
  lead to a drive root.
* Names: a search that ends empty missed nothing; `silo exec` does not stop at
  a job that is no silo; one name, one holder.
* Temporary directory: what a running silo finds there is its own.
* Queries: giving up is justified by what the filter did; an answer is accepted
  exactly if it is well formed, and nothing is read past its end.
* Backing tree: the links a launched command was promised stand; no entry is
  replaced or removed; a conflict has a cause. All of it only as long as nobody
  changes a link of the host meanwhile.
* add, remove, list: an error has mapped nothing and a success one root; a
  directory is not mapped as a file; a printed root is the root of its mapping.
* Conversions: what one side writes is what the other side reads.
* `silo find`: a silo that keeps its name is reported for exactly the processes
  that are in it; a line is about the process it names while that one runs.

## 2. The modules

    SiloContract                       what a silo promises, abstractly
    SiloRefinement = SiloLifecycle + SiloContract  <- SiloRefinement_proofs <- MCSiloLifecycle
    ExecMappings    <- ExecMappings_proofs     <- MCExecMappings
    SiloNames       <- SiloNames_proofs        <- MCSiloNames
    SiloFind        <- SiloFind_proofs         <- MCSiloFind
    MappingAnswer = MappingQuery + ResponseParser  <- MappingAnswer_proofs <- MCMappingAnswer
    MappingCommands <- MappingCommands_proofs  <- MCMappingCommands
    RootStaging     <- RootStaging_proofs      <- MCRootStaging
    Conversions = CommandLines + AliasReader + ExecArguments
                    <- Conversions_proofs      <- MCConversions

The arrows say what is proved about and what is run. `SiloRefinement_proofs` has the
theorems of `SiloLifecycle` too, which the refinement builds on, and
`MappingAnswer_proofs` those of `MappingQuery`. A run's module extends the specification
and gives its constants values.

`ExecMappings` is the `map` phase of `SiloLifecycle` in detail: `SiloLifecycle`
counts mapping calls (`mapped[j]`, up to `MapSteps`), because who may interfere
with a half-mapped silo does not depend on what is mapped; `ExecMappings` is one
`exec`'s record and view, because no other process touches the record.
`SiloNames` is the search for a name in several namespaces, of which
`SiloLifecycle` has one. `SiloFind` is the search the other way round, from a
process to the names; what its handles do to a job's life is the `Look` of a
visitor in `SiloLifecycle`. `RootStaging` is the file system behind the `StageLink`
of `ExecMappings`, with the other exec that use the same tree. `MappingCommands`
is the call behind its `Map`, from outside and against other calls.

Definitions whose comment begins with *Fault* are mutants: what a plausible mistake
would make of the definition below them. They are in no specification; each
was substituted for its definition, and the property it is listed with in
`PROJECT.json` is violated then. That is how one knows that the property
depends on the code and not on the shape of the model.

### SiloLifecycle

| State | Code |
|---|---|
| `pc` | where an invocation is in `cmdExecInner`, `cmdSiloExec` or a `silo` command |
| `handle`, `inheritable` | its `job` handle; `MakeHandleInheritable` |
| `limit`, `silo`, `mapped` | `SetJobLimitFlags`, `PromoteToSilo`, the calls of the mapping phase |
| `proc`, `member`, `inherited` | the created process and one descendant; the job each is in; the job handle each inherited |
| `detached` | `--detach`, chosen at the start |

An exec creates at most one job object, so the job is named after the exec that
would create it. The kernel's part is explicit: `Named` (a name lasts while a
handle does), `Drop` (closing handles and ending processes, with what
`KILL_ON_JOB_CLOSE` ends in turn).

| Action | Code |
|---|---|
| `ExecRefused`, `ExecCheck` | argument errors; `openSiloJob` as existence check (`exec_windows.go:48-133`) |
| `ExecCreate` | `CreateJob`, which closes the handle it gets for an existing job (`job_windows.go:82-106`) |
| `MakeInheritable`, `ExecLimit`, `ExecPromote`, `ExecMap`, `ExecMapped` | `exec_windows.go:140-244`, in this order |
| `EntrantOpen`, `EntrantQuery` | `openNamedSilo` |
| `LaunchInJob`, `FallBack` | `runInSilo`: success, or the typed error before any process exists |
| `CreateSuspended`, `AssignToJob`, `Resume`, `PlacingFails` | `runInSiloFallback` |
| `WaitReturns`, `WaitFails` | the attached wait, which waits for the process and not for the job |
| `VisitorOpen`, `Kill`, `Look` | `silo kill`, `silo exists`, `list --silo` |
| `CallFails` | any call between `CreateJob` and the process fails |
| `Leave` | the deferred `CloseHandle`, or the exit of bindmount |
| `Crash` | an invocation is killed from outside at any point |
| `Spawn`, `Exit` | the launched processes |

### SiloContract and SiloRefinement

`SiloContract` is what somebody who knows a name can rely on, without handles or
launchers: one holder of the name (`Take`), promotion and mappings in order (`Promote`,
`Finish`), processes that enter a silo and never come back once ended (`Enter`,
`End`), the job's own command in a finished view only, and an empty tree in the very
step in which the name becomes free (`Free`). `SiloRefinement` maps the handles of
`SiloLifecycle` to it: the holder is the job somebody has a handle to, the
stage is read off the flags of that job, the tree is every live process placed in a
job, whoever created it. Strangers may enter an unfinished silo in the contract,
because the code lets them (see 5).

### ExecMappings

`pass` walks through the eleven passes of `cmdExecInner` in their order; a pass
that is enabled chooses its requests when it begins (`BeginPass`: the
environment variables, the directories, git's answer) and then works on the
head of `todo`. `mapped` is the code's map of lower-cased roots, shared by all
passes; `view` is what the filter has, keyed by the *directory* a root leads
to, because the filter refuses a second mapping of it. `Resolve` says where a
path leads, so two paths with one `Resolve` are two spellings of a directory.

Each request ends in one of `Skip` (recorded already, or a drive root that
passthrough leaves alone), `SkipAbsent`, `SkipAlias` (a `--link` whose root is an app
execution alias is recorded and not mapped), `Map`, `MapFails` (the filter
refuses; best-effort requests go on, others end exec), `StageLink` and
`StageLinkFails` (`stageDirectorySymbolicLink` under `--root`). A root is `Served` when
the filter has a mapping for it; under `--root` that of a drive is to the empty backing
tree, so a link `LeadsOut` of the tree only where the mapping at its target is to the host or to
a temporary directory of the silo.

### SiloNames

`typed` is how a client spells the name (plain, `Global\`, `Local\`),
`Candidates` the namespaces that `siloLookupNames` makes of it, `job` who has
the name in each namespace. `Open` is `openSiloJob` for exec's check and for
`silo exists`, one candidate a step; `OpenNamedSilo` is the loop of
`openNamedSilo`; every open may also be denied or fail and then ends the
search with an error, as in the code. `present` is a history variable: the jobs
that have had the name, where the client searches, ever since its search began.
`files` are the contents of the temporary directories, one for each spelling:
`prepareSiloTempDirectory` hashes the job name as typed.

### MappingQuery, ResponseParser, MappingAnswer

`MappingQuery` is `getMappings` and `nextMappingsBufferSize`, one call a step, with
`Grow` and `Shrink` for the processes that add and remove mappings between the
calls. `reports` distinguishes a filter that leaves the wanted size in the size
argument from one that leaves the argument alone. Sizes are in units of the
first buffer.

`ResponseParser` is `ParseMappingsChecked`, a step for the header, for each entry
and each target. A response is its size and the word at every byte offset, so
words may overlap, be unaligned, and lie. Offsets are computed modulo `M` where
the code has `uint32` and exactly where it has `uint64`; a read past the end is
the place `panic`. A string is the range it is read from. `WellFormed` and `Mapping` are
the format in exact arithmetic and without an order of reading.

`MappingAnswer` composes them as the code does: the buffer the query ends with
is the one the answer is parsed in.

### MappingCommands

`kind`, `hidden` and `drives` are the host: what is at a location (a name on a
device), what `os.Stat` is denied and the filter is not, and the device of each
letter. Commands add, remove and list in two scopes. `TargetFileLevel` is the
look, `FirstCall` and `FirstCallRefused` the first `BfSetupFilter`, `RetryAsFile`
and `RetryRefused` the second; `SetupFilter` is the call, which the filter refuses
for a root of its scope that is taken, for a target that is absent, or for no
reason the caller sees. `Query` takes the answer, `PrintMapping` converts one mapping
of it at a time: `NTVirtualRootToDOS` by the drive table, `NTPathToDOS` by an open,
which global mappings divert. `ChangeKind` and `ChangeDrive` are everybody else;
`unsteady` and `relettered` are history variables that say what they touched.

### RootStaging

`fs` is the entry at each location, of the host and of the tree; `Full` and `At`
resolve a path through the links on its way, as the host's file system does. An exec
has a `plan`: the initialization paths to make, then the PATH entries to look at. `MkdirAll`
is what the library does, call by call: Stat from the path upwards (`Stat`), then
Mkdir downwards (`Mkdir`, which a link to a directory does not satisfy).
`LookAtPlace`, `ReadPlace`, `RemovePlace` and `MakeLink` are the calls of
`stageDirectorySymbolicLink`. A `MakeLink` that finds the place taken meanwhile ends in `lost`, an
unforced error. `Stop` is any other error of a call, or a kill, after any of them. Both exec work on one tree. `Relink` is the user.

### CommandLines, AliasReader, ExecArguments, Conversions

Operators, no state of the program: the writers (`QuoteArg`, `BuildCommandLine`,
`QuoteProcessArgument`, `AddSpec`, `GetExecArguments`) and the readers (`ToArgv`, which is external
and follows the documented rules of CommandLineToArgvW; `SplitLinkSpec`, `GetLinkRoot`,
`ParseExec`, `ParseSiloExec`, `ReadAppExecLinkInfo`). `Conversions` builds every input
letter by letter and checks each writer against its reader. An alias is read as `Payload`, strings from
byte 12 on, and as `Counted`, with the version and count that other layouts have. `Dashed`
are the words that begin with a dash, which both flag loops take for flags. Letters stand for the classes
the code tells apart: one letter for all that need no care, the space for all
white space, the quote, the backslash, the two signs of a link specification.
Scanning is a fold over the characters.

### SiloFind

`state`, `pid`, `member`, `holder` and `silos` are the world: processes, their PIDs
and jobs, who has each name of the two object directories. Everybody may start,
assign and end processes and create, promote and close jobs at any time
(`Start` ... `CloseJob`). silo find itself is `Snapshot` (`matchingProcesses`),
`ListDirectory`, `ListMore`, `ListEnds` and `ListFails` (`listNamedJobs`, call by call),
`OpenEntry` and `DirectoryDone` (`ListVisibleNamedSilos`, which passes over a job that is
denied, that is no silo, or whose query fails for another reason: `unqueried`),
`OpenProcess`, `Compare` and `PrintLine` (`cmdSiloFind`, `namedSilosForProcess`), and
the failures at each of them. `steady` and `late` are history variables: the named
silos that are unchanged since the snapshot, and the processes that were put into a
job only since then. `shifted` is the kernel's side of a listing: a directory in which an
object came or went between two calls may skip entries, because the calls go on from
an index.

## 3. The runs

| Run | Module | Expected | Question |
|---|---|---|---|
| `Silo` | `MCSiloLifecycle` | pass | Two exec race for one name with a kill; an exec, a silo exec and a kill share a silo; an exec has two visitors. Is each command started once, in its own complete silo, and is it all a behaviour of `SiloContract`? Who survives whose exit, what stays suspended, does an attached launcher return, does the name become free? |
| `ExecMaps` | `MCExecMappings` | pass | All combinations of passes: is the record honest, TEMP shielded, are duplicates only ever two spellings, which staged links lead out of the tree? |
| `MappingAnswer` | `MCMappingAnswer` | pass | Is giving up always the filter's doing, and every retry larger? Is any answer read past its end, or accepted wrongly, or returned in part? |
| `SiloNames` | `MCSiloNames` | pass | Do searches in changing namespaces miss anything; who holds a name; what is in the temporary directory? |
| `SiloNamesTemp` | `MCSiloNames` | violation | Is the temporary directory the silo's own? |
| `SiloFind` | `MCSiloFind` | pass | What does `silo find` report while processes, PIDs, names and the listed directories change? |
| `RootStaging` | `MCRootStaging` | pass | Two exec prepare one tree and fail anywhere: do promised links stand, is every entry of host and tree kept, has every conflict a cause? |
| `RootStagingInit` | `MCRootStaging` | violation | Are the initialization paths made in the tree only? |
| `MappingCommands` | `MCMappingCommands` | pass | add, remove and list against one another and a changing host: are reports true, flags right, printed roots roots? |
| `Conversions` | `MCConversions` | pass | Does every writer's text mean the same to its reader? |
| `AliasLayouts` | `MCConversions` | violation | Is an alias with a version and count read from byte 16 on, and one cut short skipped? |
| `GuiArguments` | `MCConversions` | violation | Does a line of the GUI's arguments box reach the command as one argument? |

A run checks what needs checking by search. The type invariants of `ExecMappings`,
`SiloNames`, `SiloFind`, `MappingCommands` and `ResponseParser` are proved for all
constants (section 4) and left out of the runs.

Deadlock is not checked (`CHECK_DEADLOCK FALSE`): the system stops by itself
when every invocation has ended; a query or a mapping phase ends, too. That no
invocation hangs on the way is `AttachedReturns` and `NameIsFreed`.

### Bounds, and why they are enough

* `Silo`: two exec, because a race needs two; a silo exec; a visitor that kills or goes away
  without, and one that only looks; `MapSteps = 2` (a state before, between and after mapping
  calls), one crash. All five at once are too many for a search that checks liveness. The
  constraint `OneParty` admits three parties: both exec and the killer, an exec with the silo exec
  and the killer, an exec with both visitors. That is no loss for liveness: a client that is kept out
  never begins, and fairness asks nothing of it. What two entrants, or two exec with an entrant,
  would do is in the proofs, which have no bounds.
* A launcher has one command and that has one descendant: enough for "the
  command ends, its tree goes on", with and without the inherited handle.
* `MaxCrashes = 1`: a crash closes handles as an exit does, so a second one adds
  no new kind of state; the proofs hold for any number.
* `ExecMaps`: a drive, a directory, a link to it (its second spelling), a link to the
  drive, WindowsApps and an alias in it: every relation between paths that the code
  distinguishes. The mapping phase compares paths and never asks which is below which. `MaxItems = 2` gives TEMP *and* TMP, two PATH
  entries, two links. `Asked` bounds the flags of a run. At most one alias is found in a run;
  aliases are handled one after another and share nothing but the record.
* `MappingAnswer`: `Start = 1`, `Limit = 8` and `Attempts = 3` stand for 64 KB, 16 MB
  and four attempts: doubling does not reach the limit in the attempts there are, and a
  reported size does, as in the code. `MaxNeed = 9` is above the limit, `MaxGrowths = 3` is once
  per attempt. Words have `M = 256` values and a unit has 31 bytes, so the largest buffer
  (248) is below `M`, as 16 MB is below 2^32, and 12 + 12 * 20 and a target array of four
  come close to it: sums wrap when they are computed in a word. The answers have one
  or two mappings with right, unaligned, overlapping and wrapping offsets, and counts
  at and beyond `MaxMappings` and `MaxTargets`.
* `MappingCommands`: three commands (an add, what disturbs it, and a list or a
  remove that sees both), two devices, two names, two letters that may share a
  device, and one change by others at any point.
* `RootStaging`: two exec, paths of two levels, hosts with a link above a directory, above a
  link, above nothing, and a link below a directory; every choice of up to two PATH entries and one
  initialization path per exec. One link of the host may change. Every
  interference is between one exec that has looked and another one that acts, so two are the
  least; a third one was not tried.
* `Conversions`: six letters in up to three arguments are a word with two backslashes,
  a quote and more on both sides; link specifications have every order of the two signs;
  aliases have up to five strings, of two letters of which one is the number of the strings
  of a regular alias (four): the strings can be taken for their count. The boxes have every setting; of what is typed (`Typed`)
  there are two names of which one begins with a dash, a directory and links that map a
  directory, cover the Windows directory and cannot be split, and the command's arguments are words that exec has for itself.
* `SiloNames`: two namespaces, an exec in each session, an entrant and a check in the user's,
  one foreign job, every spelling for everybody.

* `SiloFind`: two processes that may have one PID (reuse) or two (two lines), two
  jobs of which the caller may not open one, the same entry name in both
  directories. Symmetry is in the processes. The constraint `StillRuns` ends the search
  where silo find has ended: what others do then changes no line it has printed.

### Fairness

Only `Silo` needs it: weak fairness of the steps of each client *that has
begun* (`Begun`). It says that Windows goes on scheduling a process that runs.
Nobody has to start a client, no call has to fail, no crash has to happen, and
nothing makes a launched process end: `AttachedReturns` begins at the end of
the command, and `NameIsFreed` at the point from which nothing runs. Weak
fairness of one invocation's steps is enough, because no step of an invocation
waits for another one, except the attached wait.

## 4. What is proved

Eight modules hold proofs, for all values of the constants that satisfy the
named assumptions:

| Assumption | Says |
|---|---|
| `ClientsAssumption`, `NoJobAssumption` | the sets of clients are disjoint, and no job is called `NoJob` |
| `BoundsAssumption`, `MaxItemsAssumption` | bounds are natural numbers |
| `PathsAssumption` | `Resolve` is idempotent, drives lead to themselves, links lead elsewhere |
| `WidthAssumption`, `ResponsesAssumption` | a word has `M` values; a response is smaller than `M` and its words are words |
| `UnitAssumption` | the largest buffer is smaller than `M` (16 MB and 2^32 in the code) |
| `LettersAssumption`, `DevicesAssumption`, `ChoicesAssumption`, `WorldsAssumption` | letters are ordered, and the commands and worlds chosen have the shape the module says |
| `SizesAssumption` | the first buffer is not empty and within the limit, at least one attempt |
| `SpacesAssumption` | every client's session has a namespace, and there is a global one |
| `FindAssumption` | PIDs are numbers, and no job is called `NoJob` |
| `TopsAssumption`, `RelativeAssumption` | C and R are tops; relative paths are sequences of names, with their prefixes |
| `ChoicesAssumption`, `HostAssumption` of `RootStaging` | plans are made of relative paths; the host is a file system: what there is is in a directory, no top is a link, and links lead to tops outside the tree, so a link that is followed is followed to its end |
| `UnitsAssumption` | a unit of 0 is no letter of a string of an alias |
| `KindsAssumption`, `SettingsAssumption` | the inputs of the boxes are another kind than those made of letters; what is typed for a name, a directory or a link is none of the words exec has for itself, and each box has values of its kind |
| `DashedAssumption` | exec's own flags begin with a dash |

Every theorem of a specification rests on an inductive invariant `IInv` of its module, proved by
one lemma per action (`InitHolds`, `...Keeps`, `NextKeeps`).

**SiloLifecycle** (any number of exec, entrants, visitors, mapping calls and
crashes). `IInv` has, besides types: an exec works on the job it created
(`OwnJob`); limit, promotion, mapping and launch come in that order, so what a
phase needs holds when it begins (`InOrder`); processes enter promoted silos only
(`InSilo`); where a launcher is says what its command is (`AtCommand`); a detached
command holds the job it is in (`HoldsOwnJob`); an inherited handle is never to
another job (`InheritsOwn`). The properties are not inductive by themselves: that
a process is held needs that its job had KILL_ON_JOB_CLOSE *before* the process,
which is `InOrder`; that the command's view is complete needs that an exec never
works on another one's job, which is `OwnJob` and what the error of `ExecCreate`
is for. From `IInv` follow `NeverHostView`, `TreeIsHeld`, `OwnViewComplete`,
`NoAbandonedProcess`, and the action properties `StartsOnce` and
`DetachedSurvives`.

**SiloRefinement**: `ContractKeptHolds` proves that `SiloLifecycle` implements `SiloContract`. The
initial states are mapped to the contract's; each step is mapped to a step of the
contract or to none, with the invariant of `SiloLifecycle` and `RInv`: two jobs never
have the name at once, a job is no silo before its exec has promoted it, a process that is about to be assigned is
in no job.
The hard steps are those that close the last handle: the job
loses its name and, by `KILL_ON_JOB_CLOSE`, its whole tree in one step, wherever its
processes came from; and the entry of a stranger, who must not be another exec's command.

**ExecMappings** (any file system, environment and flags). Besides
`RecordIsHonest` and `CollisionNeedsTwoSpellings` themselves, what the filter
serves was recorded under some spelling (`RecordCovers`, the converse of
honesty), only drives are recorded before the TEMP pass (`EarlyTodo`,
`EarlyRecord`), the temporary directories handled so far lead to the silo's own
(`TempsServed`), and launching comes last (`LaunchIsLast`). For `LinksResolve` it is not enough that
the target of a staged link is mapped: `Rooted` says that the backing tree is shown at drives
only, and that under `--root`, without which no link is staged, it is shown at every drive once
the root pass is over; so a link leads out of the tree unless its target is a drive
(`StagedServed`), and then it never does. `TempShielded` needs the early parts: TEMP's requests reach the
filter because no earlier pass can have recorded them.

**MappingQuery** (any start size, limit and number of attempts). The lemma
`NextSizeGrows` (the next size is larger than the current one, and at least what
was reported) carries the rest: the sizes grow, and with a reporting filter an
attempt fails only if the mappings grew since the last one.

**MappingAnswer** (any width `M` of a word, any limits, any set of answers). The invariant `PInv`
carries the checks to the reads they protect: once the header is accepted, no
entry's offset wraps and every entry lies in the answer (`Done`, which also says that what is parsed so far is the format's); once an entry is
accepted, so does every place of its target array (`InHand`), in exact arithmetic, which is why
the sums of the loop, computed modulo `M`, are the exact ones. `NeverPanicsHolds` and
`AnswerIsExactHolds` follow: an answer that is accepted is well formed and returned as it
is, and what is refused is not well formed. `AnswerImplements` shows that the
composition behaves as the query and as the parser, so `QueryHolds` takes over what is proved
of `MappingQuery`.

**MappingCommands** (any commands, devices, letters, worlds and number of changes). `IInv` adds to the
properties what is known at each point of an add: one that is still calling
has mapped nothing (`MapsOnce`, so `ReportIsTrue` survives the retry), a target classified
as a file was one unless it has changed since (`FileWasSeen`), the retry runs only for an
unclassified target whose first call was refused (`PhaseOfOp`), and what a global mapping
covers counts as changed (`MadeByEnded`). `PrintedRootIsRoot` needs that the first
letter of a device is a letter of that device, and that no letter moved.

**SiloNames** (any sessions, clients and foreign jobs). `IInv` adds that a search
stays within its candidates (`InReach`), that `present` holds only jobs that have the name now
where the client looks (`SeesJobs`), and that what is still there lies
ahead of the search (`Pending`); from the last one, that a search that ends
empty missed nothing.

**SiloFind** (any processes, PIDs, jobs and names). `IInv` follows a steady silo
through the phases: it is still there (`SteadyHolds`), it is returned by the calls of the listing
unless the directory was shifted under them, it is listed or an
entry still to be opened once its directory was listed (`Seen`, `ListedRight`), it is a match
or still to be compared while a process is open (`Compared`, `MatchRight`).
`PidsDiffer` and `HaveRun` give `OwnLine`.

**RootStaging** (any exec, tree of paths, host and number of changed links). First, that `Full`
exists: the resolution of every path is a function defined by recursion on the length of
the path, so each set of paths up to a length has one, and they agree. Then `IInv`: types, with what the task in
hand says of an exec's state (`OneInHand`), and `Quiet` while no link of the host has changed. `Quiet` is
what makes staging safe: an entry is in a directory (`InDirectories`), every link in the tree
is the host's link at the same relative path (`Mirrors`), links lead out of the tree, a directory of
the tree was wanted by an exec (`DirsWanted`); and of each exec, that the target it
has read is still the host's (`TargetIsHosts`), that a link it finds in its way is the one it
wants to make, so it never gets to `os.Remove` (`FindsItsLink`), that the directory above a place
stands while the link is being placed (`PlaceStands`), and that a link which cannot be made after
all is there already or has a directory in its place that some exec wanted (`LostTo`). None of
the properties is inductive without `Mirrors`: two exec agree about a place only
because both copy the host. The step that matters is the creation of an entry through links that lead
out of the tree: it changes what other paths resolve to, but no path that has an entry
(`StillSees`). `EntriesKeptHolds` says more than the run's first idea of it, that the host is kept: nothing
is replaced in the tree either.

**Conversions** (any letters, number and length of words; the bounds of the run are in no
proof). What a fold returns is defined in the community modules by a choice of a function on
the sets of positions. `IterationExists` shows that there is one, `FoldLawsHold` that it
takes the elements one by one, and `SequenceInduction` replaces the library's induction theorem: the predicate
is a set of sequences, and the induction a least element of a set of numbers. The
readers are then followed over what the writers wrote: `QuotedReadsAs` is
that a quoted word is read as that word from between two words, whatever comes before; it
needs that an even run of backslashes comes before each quote that ends the
quoting and an odd one before each quote that is the word's own (`EscapeIsRead`). `LineIsRead` joins the
words, and `ProgramIsFirst` finds the first one without the reader. `LinkArrives` has the
equivalence in both directions, and `LinkRootRead` what the GUI's check takes for a root.
For an alias, `PayloadIsRead` is that the strings read are the first ones up to an empty
one, `RestOfPayload` that what follows any place in the data is again the data of no more
strings, which is the slice from byte 16 on. `EmptyStringsPassed` is that behind two empty strings lie the
others, from byte 16 on. `AliasIsRead` leaves out the data whose first string is
the number of the others, which is also that of an alias with a count (see 5). For the boxes, `SwitchesRead`,
`PassthroughRead` and `RestRead` follow the flag loop over each part of the GUI's arguments:
after the boxes exactly the checked ones are on, and under --root every name that has a
default is set, so the defaults add nothing. `LinksParsed` takes the links out again, and
`SplitAtDashes` is that the first double dash is the GUI's own, whatever dashes the
command's arguments hold. It needs `SettingsAssumption`: the GUI does not look for
exec's words among what is typed, and a silo named --verbose is taken for the flag. Other names
with a dash are in it: silo exec refuses exactly those (`SiloExecReads`), and exec takes them. Number and
text of links, and the command's arguments, are arbitrary.

**Model-checked only**: the liveness properties `AttachedReturns` and
`NameIsFreed`, because liveness under fairness and `ENABLED` are out of the prover's
reach here. Every invariant and every action property of the passing runs is a theorem.

## 5. Where code and documentation disagree

Four are runs with one property that quotes the statement, and a shortest
counterexample:

* **`OneArgumentPerLine`** (`bindmount-gui.ps1:123`, run `GuiArguments`): the box is labelled
  "Arguments (one per line)" (`bindmount-gui.ps1:341`). `Quote-ProcessArgument` puts two
  backslashes before a quote where one is needed, because a backslash is no
  escape in a .NET replacement. The quote then ends the quoting: `a" b` becomes two arguments.
  `PlainArgumentsArrive` says that nothing else goes wrong. `quoteArg` of
  the Go side is right for every argument (`ArgumentsArrive`).
* **`InitOnlyInTree`** (`exec_windows.go:735`, run `RootStagingInit`): the initialization
  paths are said to be "deliberately created only in the backing tree" (`exec_windows.go:667`).
  A directory link staged by an earlier exec is followed by the `MkdirAll` of a later one, whose
  directories are then made on the host, at the link's target.
* **`TempIsPerSilo`** (`exec_windows.go:494`, run `SiloNamesTemp`): the directory is said to be per
  silo (`main_windows.go:385`); it is per typed name, and a second session's launch clears it.
* **`AliasIsReadOrSkipped`** (`appexec_windows.go:122-124`, run `AliasLayouts`): the reader is said to fall
  back to offset 16 for layouts with a version and count (`appexec_windows.go:52-53`). The scan from
  offset 12 takes the count for a first string and finds enough strings, so the fallback is not
  reached and the entry point is returned for the executable. And data that cannot be read is said
  to be skipped silently (`exec_windows.go:583`): with a returned size of 12 to 15 bytes the slice
  from byte 16 is out of range, and exec panics. The alias of the counterexample shows both;
  each half is violated without the other, too. `AliasIsRead` says what is read as it should be:
  every alias without a count, unless its first string looks like one, and strings from byte
  16 on behind four bytes that are no string.

Others were met while modelling; they follow from the text of one function, and the models
behave as the code does:

* `exec_windows.go:38` says that exec tears the job down when its command exits. It
  closes its handle; with a silo exec in the silo, or a `list --silo` at that moment, that
  is not the last one, and processes of the silo run on. What does hold is `TreeIsHeld`.
* `main_windows.go:160` says that silo exec launches in the silo's bind-link view.
  `QuerySiloBasicInformation` succeeds from the promotion on, so it may be a view in the making.
  What does hold is in `SiloContract`: exec's own command has the finished one.
* `bindmount-gui.ps1:297-299` sorts the GUI's mappings because the filter "rejects overlapping
  roots in the opposite order"; exec's own passes map the working directory before
  the Git root above it, and PATH entries as they come.
* `exec_windows.go:548-551` calls the appexec pass non-fatal. That holds for what is read and for the
  packages; the mapping of WindowsApps itself is not best effort (`:568`), and fails for instance
  when a PATH entry has mapped the directory under another spelling.
* `docs/BindFilterAPI.md:345-348` has root mode recreate a directory link of PATH and map its
  target. The target is passed through by a function that leaves drive roots alone
  (`exec_windows.go:294-296`), so a link to a drive root leads into the empty backing tree, and is
  recorded as mapped. `LinksResolve` says that these are the only ones.
* `main_windows.go:245` says that `silo find` finds the silos containing a process. It opens them
  again by name for each process (`:292`): a name that has passed to another silo since the
  listing puts the processes of the new one into the line of the old one, with the old ID.
  `NothingInvented` says that silos which keep their names are not affected.
* `main_windows.go:55-57` says that one resolution is used everywhere a named silo is opened;
  `openNamedSilo` passes over jobs that are no silos and `openSiloJob` does not.
* exec accepts job names that begin with a dash, which silo exec takes for a flag
  (`main_windows.go:228-229`); `BoxesReachExec` has both.
* `--root` with an empty directory is the same as no `--root`: the drives stay the host's and the
  passthrough defaults stay off.

## 6. What is not modelled

* The structure layouts of the Win32 and Bind Filter calls, error texts, the
  verbose output, UI restrictions and process mitigation policies: no property is about them.
* Of the GUI script: the forms, the staging of automatic mappings, the prediction of
  masked links (`Confirm-MaskedUserLinks`), and starting and polling bindmount.exe with a time limit. The
  argument strings, the boxes and the roots of links are in `Conversions`.
* Decoding of strings: UTF-16, case folding, cleaning of paths. A string of an answer is the range it is
  read from, two spellings of a path are two paths or one as the module says.
* In the backing tree: files, and links with a relative target or to something below another
  link (`HostAssumption`). In `add`: exceptions, which the program
  never passes.
* The cobra command tree, stubs for other systems, `decoy`, build files: no state.
* What the filter does with a view once it has it: merged and read-only
  mappings, and the order it accepts roots in. `ExecMappings` relies on one rule, that
  duplicates are refused (`Taken`); `MappingCommands` on that and on the refusal of an absent
  target (`CanMap`), and lets it refuse anything else.
* Nested jobs: a process is in one job at most.

## 7. Plan

Done: the lifecycle first, because every command meets there, and its contract with the
refinement; the mapping phase, the names and the temporary directory, the queries with their
parser, `silo find`, the commands on single mappings, each with its
proofs; the backing tree and the conversions with their runs.

Left, in this order:

1. **Masked links**: `Confirm-MaskedUserLinks` predicts which links of the user an earlier pass of
   exec will have mapped. It could be stated as an operator over the environment of
   `ExecMappings` and checked against the passes: what the dialog does not name is
   served by the user's link.
2. **Start and poll**: `Start-Bindmount` waits for a fixed time and takes what still runs for a
   success; `SiloLifecycle` with a client that gives up waiting would say which errors it can miss.
3. **RootStaging with files and relative links**, and the mapping passes that run between
   two stagings, which is where `ExecMappings` and `RootStaging` meet.
