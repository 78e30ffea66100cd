------------------------------- MODULE SiloFind -------------------------------
(***************************************************************************)
(* `silo find`: a snapshot of the processes, then the named silos of the   *)
(* global and of the session's directory, then, for one process after the  *)
(* other, whether it is a member of each of them.  Nothing is held from    *)
(* one phase to the next but PIDs and names, while processes end, PIDs are *)
(* reused, and jobs lose their names to others.                            *)
(*                                                                         *)
(* A job that is opened keeps its name until it is closed again, so the    *)
(* open, the query and the close of one job are one step here.             *)
(***************************************************************************)
EXTENDS Naturals, FiniteSets

CONSTANTS
  Procs,     \* processes that run at one time or another
  Matching,  \* those whose executable has the name that is looked for
  Pids,      \* PIDs
  Jobs,      \* job objects
  Entries,   \* names of jobs within a directory
  Denied,    \* jobs the caller may not open
  NoJob      \* no job object

\* \BaseNamedObjects and \Sessions\<id>\BaseNamedObjects.
Names == {"global", "session"} \X Entries

ASSUME FindAssumption ==
  /\ Pids \subseteq Nat
  /\ Matching \subseteq Procs
  /\ Denied \subseteq Jobs
  /\ NoJob \notin Jobs

VARIABLES
  state,     \* each process: "none", "alive" or "gone"
  pid,       \* its PID once it has run
  member,    \* the job it is in
  holder,    \* the job that has each name
  silos,     \* jobs promoted to a silo
  pc,        \* where silo find is
  entries,   \* names of the current directory that are still to be opened
  listed,    \* the named silos found: name and identity
  unlisted,  \* directories that could not be listed
  unqueried, \* names of silos that could not be queried when they were opened
  shifted,   \* directories in which objects came or went between the calls of the listing
  found,     \* processes of the snapshot still to be handled
  opened,    \* the process that is open and the one it was found as, or nothing
  pending,   \* listed silos the open process is still to be compared with
  matches,   \* those it is a member of
  report,    \* the printed lines
  steady,    \* named silos that have not changed since the command began
  late       \* processes put into a job since then

procVars == <<state, pid, member>>
jobVars  == <<holder, silos>>
listVars == <<entries, listed, unlisted, unqueried, shifted>>
findVars == <<found, opened, pending, matches, report>>
past     == <<steady, late>>
vars     == <<procVars, jobVars, pc, listVars, findVars, past>>

NamedSilos == {nj \in Names \X Jobs : holder[nj[1]] = nj[2] /\ nj[2] \in silos}

Init ==
  /\ state = [p \in Procs |-> "none"]
  /\ pid \in [Procs -> Pids]
  /\ member = [p \in Procs |-> NoJob]
  /\ holder = [n \in Names |-> NoJob]
  /\ silos = {}
  /\ pc = "start"
  /\ entries = {} /\ listed = {} /\ unlisted = {} /\ unqueried = {} /\ shifted = {}
  /\ found = {} /\ opened = {} /\ pending = {} /\ matches = {} /\ report = {}
  /\ steady = {} /\ late = {}

-----------------------------------------------------------------------------
(* Everybody else.                                                         *)

\* A PID is in use while its process runs, or while somebody has it open.
InUse(i) ==
  \E p \in Procs : pid[p] = i /\ (state[p] = "alive" \/ \E o \in opened : o.proc = p)

\* A process starts, with a PID that was chosen at the beginning, as a member of
\* a job or of none.
Start(p) ==
  /\ state[p] = "none"
  /\ ~InUse(pid[p])
  /\ state' = [state EXCEPT ![p] = "alive"]
  /\ \E j \in {holder[n] : n \in Names} \cup {NoJob} :
        member' = [member EXCEPT ![p] = j]
  /\ UNCHANGED <<pid, jobVars, pc, listVars, findVars, past>>

\* A process that was created outside is assigned to a job (silo exec's
\* fallback); it never leaves one.
Assign(p) ==
  /\ state[p] = "alive" /\ member[p] = NoJob
  /\ \E n \in Names : member' = [member EXCEPT ![p] = holder[n]]
  /\ late' = late \cup {p}
  /\ UNCHANGED <<state, pid, jobVars, pc, listVars, findVars, steady>>

Exit(p) ==
  /\ state[p] = "alive"
  /\ state' = [state EXCEPT ![p] = "gone"]
  /\ UNCHANGED <<pid, member, jobVars, pc, listVars, findVars, past>>

Listing == {"global", "session"}
More == [global |-> "more_global", session |-> "more_session"]

\* A call of the listing goes on from an index into the directory.
Shift(dir) == shifted' = IF pc = More[dir] THEN shifted \cup {dir} ELSE shifted

\* An object that is no job comes or goes.
OtherObject(dir) ==
  /\ Shift(dir)
  /\ UNCHANGED <<procVars, jobVars, pc, entries, listed, unlisted, unqueried, findVars, past>>

\* A job is created under a name that is free, and becomes a silo later or not
\* at all.
CreateJob(j, n) ==
  /\ holder[n] = NoJob
  /\ \A m \in Names : holder[m] # j
  /\ j \notin silos
  /\ holder' = [holder EXCEPT ![n] = j]
  /\ Shift(n[1])
  /\ UNCHANGED <<procVars, silos, pc, entries, listed, unlisted, unqueried, findVars, past>>

PromoteToSilo(j) ==
  /\ j \notin silos
  /\ \E n \in Names : holder[n] = j
  /\ silos' = silos \cup {j}
  /\ UNCHANGED <<procVars, holder, pc, listVars, findVars, past>>

\* The last handle is closed: the name is free again.  Processes of the job may
\* go on, if it was not created by bindmount.
CloseJob(n) ==
  /\ holder[n] # NoJob
  /\ holder' = [holder EXCEPT ![n] = NoJob]
  /\ steady' = {nj \in steady : nj[1] # n}
  /\ Shift(n[1])
  /\ UNCHANGED <<procVars, silos, pc, entries, listed, unlisted, unqueried, findVars, late>>

-----------------------------------------------------------------------------
(* matchingProcesses and ListVisibleNamedSilos.                            *)

Fail == /\ pc' = "failed"
        /\ opened' = {}
        /\ UNCHANGED <<procVars, jobVars, listVars, found, pending, matches, report, past>>

\* What a snapshot holds of the processes the identifier names: all of a name, or
\* the one with a PID.
Selections == {{p \in Matching : state[p] = "alive"}}
                \cup {{p \in Procs : state[p] = "alive" /\ pid[p] = i} : i \in Pids}

\* Nothing matches, or the snapshot fails.
NotFound == pc = "start" /\ Fail

Snapshot ==
  /\ pc = "start"
  /\ \E chosen \in Selections \ {{}} : found' = chosen
  /\ steady' = NamedSilos /\ late' = {}
  /\ pc' = "global"
  /\ UNCHANGED <<procVars, jobVars, listVars, opened, pending, matches, report>>

In(dir) == {n \in Names : n[1] = dir /\ holder[n] # NoJob}

Opened == [global |-> "open_global", session |-> "open_session"]

\* Fault: the buffer of the first call is taken for the whole directory.
ListDirectoryOnce(dir) ==
  /\ pc = dir
  /\ entries' \in SUBSET In(dir)
  /\ pc' = Opened[dir]
  /\ UNCHANGED <<procVars, jobVars, listed, unlisted, unqueried, shifted, findVars, past>>

\* listNamedJobs: the first call returns what fits into the buffer.
ListDirectory(dir) ==
  /\ pc = dir
  /\ entries' \in SUBSET In(dir)
  /\ pc' = More[dir]
  /\ UNCHANGED <<procVars, jobVars, listed, unlisted, unqueried, shifted, findVars, past>>

\* The next ones go on from the index behind it.
ListMore(dir) ==
  /\ pc = More[dir]
  /\ \E names \in SUBSET In(dir) : entries' = entries \cup names
  /\ UNCHANGED <<procVars, jobVars, pc, listed, unlisted, unqueried, shifted, findVars, past>>

\* No more entries: the index is behind the last object.  All have been returned,
\* unless some have changed places with others in between.
ListEnds(dir) ==
  /\ pc = More[dir]
  /\ In(dir) \subseteq entries \/ dir \in shifted
  /\ pc' = Opened[dir]
  /\ UNCHANGED <<procVars, jobVars, listVars, findVars, past>>

\* An error drops what was returned; it only matters if no directory can be
\* listed.
ListFails(dir) ==
  /\ pc \in {dir, More[dir]}
  /\ entries' = {}
  /\ unlisted' = unlisted \cup {dir}
  /\ pc' = Opened[dir]
  /\ UNCHANGED <<procVars, jobVars, listed, unqueried, shifted, findVars, past>>

Opening == {"open_global", "open_session"}

\* A name that is gone, denied, or no silo's is passed over, and so is a silo
\* whose query fails.
OpenEntry(n) ==
  /\ pc \in Opening
  /\ n \in entries
  /\ entries' = entries \ {n}
  /\ IF holder[n] \in silos \ Denied
       THEN \/ listed' = listed \cup {[name |-> n, id |-> holder[n]]} /\ UNCHANGED unqueried
            \/ unqueried' = unqueried \cup {n} /\ UNCHANGED listed
       ELSE UNCHANGED <<listed, unqueried>>
  /\ UNCHANGED <<procVars, jobVars, pc, unlisted, shifted, findVars, past>>

\* Another error than these ends the command.
OpenEntryFails == pc \in Opening /\ entries # {} /\ Fail

DirectoryDone ==
  /\ pc \in Opening /\ entries = {}
  /\ pc' = CASE pc = "open_global" -> "session"
             [] pc = "open_session" /\ listed = {} /\ unlisted = Listing -> "failed"
             [] OTHER -> "processes"
  /\ UNCHANGED <<procVars, jobVars, listVars, findVars, past>>

-----------------------------------------------------------------------------
(* cmdSiloFind and namedSilosForProcess.                                   *)

\* The processes are handled in the order of their PIDs.
IsFirst(f) == f \in found /\ \A q \in found : pid[f] <= pid[q]

\* Fault: the process is looked up by its name again.
OpenProcessByName(f) ==
  /\ pc = "processes" /\ IsFirst(f)
  /\ \E p \in Matching : state[p] = "alive" /\ opened' = {[from |-> f, proc |-> p]}
  /\ found' = found \ {f}
  /\ pending' = listed
  /\ matches' = {}
  /\ pc' = "compare"
  /\ UNCHANGED <<procVars, jobVars, listVars, report, past>>

\* OpenProcess opens whatever has the PID now.
OpenProcess(f) ==
  /\ pc = "processes" /\ IsFirst(f)
  /\ \E p \in Procs : /\ state[p] = "alive" /\ pid[p] = pid[f]
                      /\ opened' = {[from |-> f, proc |-> p]}
  /\ found' = found \ {f}
  /\ pending' = listed
  /\ matches' = {}
  /\ pc' = "compare"
  /\ UNCHANGED <<procVars, jobVars, listVars, report, past>>

\* The PID is nobody's now, or its process may not be opened: the whole command
\* ends.
OpenProcessFails == pc = "processes" /\ found # {} /\ Fail

\* Fault: IsProcessInJob is asked about any job, as with a null handle.
CompareAnyJob(s) ==
  /\ pc = "compare"
  /\ s \in pending
  /\ pending' = pending \ {s}
  /\ matches' = IF /\ holder[s.name] \in Jobs \ Denied
                   /\ \A o \in opened : member[o.proc] # NoJob
                  THEN matches \cup {s} ELSE matches
  /\ UNCHANGED <<procVars, jobVars, pc, listVars, found, opened, report, past>>

\* The name is opened again: the process is compared with the job that has the
\* name now, and the identity of the one that had it is reported.
Compare(s) ==
  /\ pc = "compare"
  /\ s \in pending
  /\ pending' = pending \ {s}
  /\ matches' = IF /\ holder[s.name] \in Jobs \ Denied
                   /\ \A o \in opened : member[o.proc] = holder[s.name]
                  THEN matches \cup {s} ELSE matches
  /\ UNCHANGED <<procVars, jobVars, pc, listVars, found, opened, report, past>>

\* An error other than "denied" and "not found".
CompareFails == pc = "compare" /\ pending # {} /\ Fail

PrintLine ==
  /\ pc = "compare" /\ pending = {}
  /\ report' = report \cup {[from |-> o.from, proc |-> o.proc, silos |-> matches] : o \in opened}
  /\ opened' = {}
  /\ pc' = "processes"
  /\ UNCHANGED <<procVars, jobVars, listVars, found, pending, matches, past>>

Done ==
  /\ pc = "processes" /\ found = {}
  /\ pc' = "done"
  /\ UNCHANGED <<procVars, jobVars, listVars, findVars, past>>

-----------------------------------------------------------------------------

Find == \/ NotFound \/ Snapshot
        \/ \E dir \in Listing : \/ ListDirectory(dir) \/ ListMore(dir)
                                \/ ListEnds(dir) \/ ListFails(dir)
        \/ \E n \in Names : OpenEntry(n)
        \/ OpenEntryFails \/ DirectoryDone
        \/ \E f \in Procs : OpenProcess(f)
        \/ OpenProcessFails
        \/ \E s \in listed : Compare(s)
        \/ CompareFails \/ PrintLine \/ Done

Others == \/ \E p \in Procs : Start(p) \/ Assign(p) \/ Exit(p)
          \/ \E j \in Jobs, n \in Names : CreateJob(j, n)
          \/ \E j \in Jobs : PromoteToSilo(j)
          \/ \E n \in Names : CloseJob(n)
          \/ \E dir \in Listing : OtherObject(dir)

Next == Find \/ Others

Spec == Init /\ [][Next]_vars

-----------------------------------------------------------------------------
(* Properties.                                                             *)

Silo == [name : Names, id : Jobs]

\* Every variable has its type.
TypeOK ==
  /\ state \in [Procs -> {"none", "alive", "gone"}]
  /\ pid \in [Procs -> Pids]
  /\ member \in [Procs -> Jobs \cup {NoJob}]
  /\ holder \in [Names -> Jobs \cup {NoJob}]
  /\ silos \subseteq Jobs
  /\ pc \in Listing \cup {More[dir] : dir \in Listing} \cup Opening
           \cup {"start", "processes", "compare", "done", "failed"}
  /\ entries \subseteq Names
  /\ listed \subseteq Silo
  /\ unlisted \subseteq Listing
  /\ unqueried \subseteq Names
  /\ shifted \subseteq Listing
  /\ found \subseteq Procs
  /\ opened \subseteq [from : Procs, proc : Procs]
  /\ pending \subseteq listed
  /\ matches \subseteq Silo
  /\ report \subseteq [from : Procs, proc : Procs, silos : SUBSET Silo]
  /\ steady \subseteq Names \X Jobs
  /\ late \subseteq Procs

\* "no visible named Job Silo" is true: a silo that had its name all the time and
\* that the caller may open is in the line of every process that is in it, whatever
\* happened to other names and processes, unless its directory could not be listed,
\* or changed between two calls of its listing, or the silo could not be queried.
NothingMissed ==
  \A line \in report, nj \in steady :
     (/\ line.proc \notin late
      /\ nj[2] \notin Denied
      /\ nj[1][1] \notin unlisted \cup shifted
      /\ nj[1] \notin unqueried
      /\ member[line.proc] = nj[2])
        => [name |-> nj[1], id |-> nj[2]] \in line.silos

\* A silo that had its name all the time is reported with its own identity, and
\* only for processes that are in it, also when the PID of the snapshot has become
\* another process's.
NothingInvented ==
  \A line \in report : \A s \in line.silos, nj \in steady :
     nj[1] = s.name => s.id = nj[2] /\ member[line.proc] = nj[2]

\* The line of a process that is still there is about that process: only one that
\* ended after the snapshot can have left its line to another.
OwnLine == \A line \in report : line.proc # line.from => state[line.from] = "gone"

=============================================================================
