--------------------------- MODULE SiloFind_proofs ---------------------------
(***************************************************************************)
(* SiloFind for any processes, PIDs, jobs and names: what silo find prints *)
(* about silos that keep their name is right and complete.                 *)
(***************************************************************************)
EXTENDS SiloFind, TLAPS

\* How a named silo is listed.
Listed(nj) == [name |-> nj[1], id |-> nj[2]]

\* silo find can see it.
CanSee(nj) == nj[2] \notin Denied /\ nj[1][1] \notin unlisted \cup shifted /\ nj[1] \notin unqueried

\* The phases that come after the listing of a directory.
After(dir) == IF dir = "global"
                THEN {"open_global", "session", "more_session", "open_session", "processes",
                      "compare", "done"}
                ELSE {"open_session", "processes", "compare", "done"}

\* Nothing is known before the snapshot; entries are only left while they are
\* listed and opened; a process is open only while it is compared.
InPhase ==
  /\ pc = "start" => listed = {} /\ opened = {} /\ report = {}
  /\ pc \notin {More[dir] : dir \in Listing} \cup Opening \cup {"failed"} => entries = {}
  /\ pc # "compare" => opened = {}
  /\ \A o, q \in opened : o = q
  /\ matches \subseteq listed

\* Steady silos are still there.
SteadyHolds == \A nj \in steady : holder[nj[1]] = nj[2] /\ nj[2] \in silos

\* The entries of the global directory are dealt with before the session's.
InSession == pc = "more_session" => \A n \in entries : n[1] = "session"

\* They are listed, or about to be, with their own identity.
Seen == \A nj \in steady : CanSee(nj) /\ pc \in After(nj[1][1])
                              => nj[1] \in entries \/ Listed(nj) \in listed
ListedRight == \A s \in listed, nj \in steady : s.name = nj[1] => s.id = nj[2]

\* The open process is, or will be, compared with each of them.
Compared ==
  \A o \in opened, nj \in steady :
     o.proc \notin late /\ CanSee(nj) /\ member[o.proc] = nj[2]
       => Listed(nj) \in pending \cup matches
MatchRight ==
  \A o \in opened : \A s \in matches, nj \in steady :
     s.name = nj[1] => member[o.proc] = nj[2]

\* Processes with one PID do not run at the same time, and those that silo find
\* knows of have run.
PidsDiffer ==
  \A p, q \in Procs : state[p] = "alive" /\ state[q] = "alive" /\ pid[p] = pid[q] => p = q
HaveRun == /\ \A p \in found : state[p] # "none"
           /\ \A o \in opened : state[o.proc] # "none" /\ state[o.from] # "none"
           /\ \A line \in report : state[line.proc] # "none" /\ state[line.from] # "none"
OwnOpened == \A o \in opened : o.proc # o.from => state[o.from] = "gone"

IInv == /\ TypeOK /\ InPhase /\ InSession
        /\ SteadyHolds /\ Seen /\ ListedRight /\ Compared /\ MatchRight
        /\ PidsDiffer /\ HaveRun /\ OwnOpened
        /\ NothingMissed /\ NothingInvented /\ OwnLine

\* What is written about the silos only.
AboutSilos == /\ SteadyHolds /\ Seen /\ ListedRight /\ Compared /\ MatchRight
              /\ NothingMissed /\ NothingInvented

\* What is written about the processes only.
AboutProcs == PidsDiffer /\ HaveRun /\ OwnOpened /\ OwnLine

-----------------------------------------------------------------------------

\* Every initial state is in the invariant.
LEMMA InitHolds == Init => IInv
<1> SUFFICES ASSUME Init PROVE IInv
  OBVIOUS
<1>1. TypeOK /\ InPhase /\ InSession
  BY DEF Init, TypeOK, InPhase, InSession, Listing, More, Opening
<1>2. AboutSilos /\ AboutProcs
  BY DEF Init, AboutSilos, AboutProcs, SteadyHolds, Seen, ListedRight, Compared, MatchRight,
         PidsDiffer, HaveRun, OwnOpened, NothingMissed, NothingInvented, OwnLine
<1> QED
  BY <1>1, <1>2 DEF IInv, AboutSilos, AboutProcs

\* A process starts: its PID is nobody's, and silo find knows nothing of it.
LEMMA StartKeeps == IInv /\ (\E p \in Procs : Start(p)) => IInv'
<1> SUFFICES ASSUME IInv, NEW p \in Procs, Start(p) PROVE IInv'
  OBVIOUS
<1> USE DEF IInv
<1>1. /\ state[p] = "none" /\ ~InUse(pid[p])
      /\ state' = [state EXCEPT ![p] = "alive"]
      /\ \E j \in Jobs \cup {NoJob} : member' = [member EXCEPT ![p] = j]
      /\ UNCHANGED <<pid, holder, silos, pc, entries, listed, unlisted, unqueried, shifted, found,
                     opened, pending, matches, report, steady, late>>
  BY DEF Start, TypeOK, jobVars, listVars, findVars, past
<1>2. TypeOK' /\ InPhase' /\ InSession' /\ SteadyHolds' /\ Seen' /\ ListedRight'
  BY <1>1 DEF TypeOK, InPhase, InSession, SteadyHolds, Seen, ListedRight, CanSee, Silo
<1>3. \A q \in Procs : state[q] # "none" => q # p /\ member'[q] = member[q] /\ state'[q] = state[q]
  BY <1>1 DEF TypeOK
<1>4. Compared' /\ MatchRight' /\ NothingMissed' /\ NothingInvented'
  BY <1>1, <1>3 DEF TypeOK, HaveRun, Compared, MatchRight, CanSee, NothingMissed, NothingInvented
<1>5. PidsDiffer' /\ HaveRun' /\ OwnOpened' /\ OwnLine'
  BY <1>1, <1>3 DEF TypeOK, InUse, PidsDiffer, HaveRun, OwnOpened, OwnLine
<1> QED
  BY <1>2, <1>4, <1>5

\* A process is assigned: it was in no job, so no silo contained it.
LEMMA AssignKeeps == IInv /\ (\E p \in Procs : Assign(p)) => IInv'
<1> SUFFICES ASSUME IInv, NEW p \in Procs, Assign(p) PROVE IInv'
  OBVIOUS
<1> USE DEF IInv
<1>1. /\ member[p] = NoJob
      /\ \E j \in Jobs \cup {NoJob} : member' = [member EXCEPT ![p] = j]
      /\ late' = late \cup {p}
      /\ UNCHANGED <<state, pid, holder, silos, pc, entries, listed, unlisted, unqueried, shifted, found, opened,
                     pending, matches, report, steady>>
  BY DEF Assign, TypeOK, jobVars, listVars, findVars
<1>2. TypeOK' /\ InPhase' /\ InSession' /\ SteadyHolds' /\ Seen' /\ ListedRight'
  BY <1>1 DEF TypeOK, InPhase, InSession, SteadyHolds, Seen, ListedRight, CanSee, Silo
<1>3. \A q \in Procs : q = p \/ member'[q] = member[q]
  BY <1>1 DEF TypeOK
<1>4. \A nj \in steady : nj[2] # NoJob
  BY FindAssumption DEF TypeOK
<1>5. Compared' /\ MatchRight' /\ NothingMissed' /\ NothingInvented'
  BY <1>1, <1>3, <1>4 DEF TypeOK, Compared, MatchRight, CanSee, NothingMissed, NothingInvented
<1>6. PidsDiffer' /\ HaveRun' /\ OwnOpened' /\ OwnLine'
  BY <1>1 DEF PidsDiffer, HaveRun, OwnOpened, OwnLine
<1> QED
  BY <1>2, <1>5, <1>6

\* A process ends.
LEMMA ExitKeeps == IInv /\ (\E p \in Procs : Exit(p)) => IInv'
<1> SUFFICES ASSUME IInv, NEW p \in Procs, Exit(p) PROVE IInv'
  OBVIOUS
<1> USE DEF IInv
<1>1. /\ state[p] = "alive" /\ state' = [state EXCEPT ![p] = "gone"]
      /\ UNCHANGED <<pid, member, holder, silos, pc, entries, listed, unlisted, unqueried, shifted, found, opened,
                     pending, matches, report, steady, late>>
  BY DEF Exit, jobVars, listVars, findVars, past
<1>2. TypeOK' /\ InPhase' /\ InSession'
  BY <1>1 DEF TypeOK, InPhase, InSession, Silo
<1>3. AboutSilos'
  BY <1>1 DEF AboutSilos, SteadyHolds, Seen, ListedRight, Compared, MatchRight, CanSee,
              NothingMissed, NothingInvented
<1>4. AboutProcs'
  BY <1>1 DEF TypeOK, AboutProcs, PidsDiffer, HaveRun, OwnOpened, OwnLine
<1> QED
  BY <1>2, <1>3, <1>4 DEF AboutSilos, AboutProcs

\* A job gets a name that was free, so no steady silo had it.
LEMMA CreateJobKeeps == IInv /\ (\E j \in Jobs, n \in Names : CreateJob(j, n)) => IInv'
<1> SUFFICES ASSUME IInv, NEW j \in Jobs, NEW n \in Names, CreateJob(j, n) PROVE IInv'
  OBVIOUS
<1> USE DEF IInv
<1>1. /\ holder[n] = NoJob /\ holder' = [holder EXCEPT ![n] = j]
      /\ shifted \subseteq shifted' /\ shifted' \subseteq shifted \cup {n[1]}
      /\ UNCHANGED <<state, pid, member, silos, pc, entries, listed, unlisted, unqueried, found, opened,
                     pending, matches, report, steady, late>>
  BY DEF CreateJob, Shift, procVars, findVars, past
<1>2. TypeOK' /\ InPhase' /\ InSession'
  BY <1>1 DEF TypeOK, InPhase, InSession, Silo, Names, Listing
<1>3. SteadyHolds'
  BY <1>1, FindAssumption DEF TypeOK, SteadyHolds
<1>4. AboutSilos'
  BY <1>1, <1>3 DEF AboutSilos, Seen, ListedRight, Compared, MatchRight, CanSee,
                    NothingMissed, NothingInvented
<1>5. AboutProcs'
  BY <1>1 DEF AboutProcs, PidsDiffer, HaveRun, OwnOpened, OwnLine
<1> QED
  BY <1>2, <1>4, <1>5 DEF AboutSilos, AboutProcs

\* A job becomes a silo.
LEMMA PromoteToSiloKeeps == IInv /\ (\E j \in Jobs : PromoteToSilo(j)) => IInv'
<1> SUFFICES ASSUME IInv, NEW j \in Jobs, PromoteToSilo(j) PROVE IInv'
  OBVIOUS
<1> USE DEF IInv
<1>1. /\ silos' = silos \cup {j}
      /\ UNCHANGED <<state, pid, member, holder, pc, entries, listed, unlisted, unqueried, shifted, found, opened,
                     pending, matches, report, steady, late>>
  BY DEF PromoteToSilo, procVars, listVars, findVars, past
<1>2. TypeOK' /\ InPhase' /\ InSession'
  BY <1>1 DEF TypeOK, InPhase, InSession, Silo
<1>3. AboutSilos'
  BY <1>1 DEF AboutSilos, SteadyHolds, Seen, ListedRight, Compared, MatchRight, CanSee,
              NothingMissed, NothingInvented
<1>4. AboutProcs'
  BY <1>1 DEF AboutProcs, PidsDiffer, HaveRun, OwnOpened, OwnLine
<1> QED
  BY <1>2, <1>3, <1>4 DEF AboutSilos, AboutProcs

\* A name becomes free, and its silo is steady no longer.
LEMMA CloseJobKeeps == IInv /\ (\E n \in Names : CloseJob(n)) => IInv'
<1> SUFFICES ASSUME IInv, NEW n \in Names, CloseJob(n) PROVE IInv'
  OBVIOUS
<1> USE DEF IInv
<1>1. /\ holder' = [holder EXCEPT ![n] = NoJob]
      /\ steady' = {nj \in steady : nj[1] # n}
      /\ shifted \subseteq shifted' /\ shifted' \subseteq shifted \cup {n[1]}
      /\ UNCHANGED <<state, pid, member, silos, pc, entries, listed, unlisted, unqueried, found, opened,
                     pending, matches, report, late>>
  BY DEF CloseJob, Shift, procVars, findVars
<1>2. TypeOK' /\ InPhase' /\ InSession'
  BY <1>1 DEF TypeOK, InPhase, InSession, Silo, Names, Listing
<1>3. SteadyHolds'
  BY <1>1 DEF TypeOK, SteadyHolds
<1>4. AboutSilos'
  BY <1>1, <1>3 DEF AboutSilos, Seen, ListedRight, Compared, MatchRight, CanSee,
                    NothingMissed, NothingInvented
<1>5. AboutProcs'
  BY <1>1 DEF AboutProcs, PidsDiffer, HaveRun, OwnOpened, OwnLine
<1> QED
  BY <1>2, <1>4, <1>5 DEF AboutSilos, AboutProcs

\* Another object comes or goes.
LEMMA OtherObjectKeeps == IInv /\ (\E dir \in Listing : OtherObject(dir)) => IInv'
<1> SUFFICES ASSUME IInv, NEW dir \in Listing, OtherObject(dir) PROVE IInv'
  OBVIOUS
<1> USE DEF IInv
<1>1. /\ shifted \subseteq shifted' /\ shifted' \subseteq shifted \cup {dir}
      /\ UNCHANGED <<state, pid, member, holder, silos, pc, entries, listed, unlisted, unqueried, found,
                     opened, pending, matches, report, steady, late>>
  BY DEF OtherObject, Shift, procVars, jobVars, findVars, past
<1>2. TypeOK' /\ InPhase' /\ InSession'
  BY <1>1 DEF TypeOK, InPhase, InSession, Silo
<1>3. AboutSilos'
  BY <1>1 DEF AboutSilos, SteadyHolds, Seen, ListedRight, Compared, MatchRight, CanSee,
              NothingMissed, NothingInvented
<1>4. AboutProcs'
  BY <1>1 DEF AboutProcs, PidsDiffer, HaveRun, OwnOpened, OwnLine
<1> QED
  BY <1>2, <1>3, <1>4 DEF AboutSilos, AboutProcs

\* silo find ends with an error.
LEMMA FailKeeps == IInv /\ Fail => IInv'
<1> SUFFICES ASSUME IInv, Fail PROVE IInv'
  OBVIOUS
<1> USE DEF IInv
<1>1. /\ pc' = "failed" /\ opened' = {}
      /\ UNCHANGED <<state, pid, member, holder, silos, entries, listed, unlisted, unqueried, shifted, found,
                     pending, matches, report, steady, late>>
  BY DEF Fail, procVars, jobVars, listVars, past
<1>2. TypeOK' /\ InPhase' /\ InSession'
  BY <1>1 DEF TypeOK, InPhase, InSession, Silo
<1>3. AboutSilos'
  BY <1>1 DEF AboutSilos, SteadyHolds, Seen, After, ListedRight, Compared, MatchRight, CanSee,
              NothingMissed, NothingInvented
<1>4. AboutProcs'
  BY <1>1 DEF AboutProcs, PidsDiffer, HaveRun, OwnOpened, OwnLine
<1> QED
  BY <1>2, <1>3, <1>4 DEF AboutSilos, AboutProcs

\* The snapshot, from which steadiness counts.
LEMMA SnapshotKeeps == IInv /\ Snapshot => IInv'
<1> SUFFICES ASSUME IInv, Snapshot PROVE IInv'
  OBVIOUS
<1> USE DEF IInv
<1>1. /\ pc = "start" /\ pc' = "global"
      /\ steady' = NamedSilos /\ late' = {}
      /\ UNCHANGED <<state, pid, member, holder, silos, entries, listed, unlisted, unqueried, shifted, opened,
                     pending, matches, report>>
      /\ found' \subseteq {p \in Procs : state[p] = "alive"}
  BY FindAssumption DEF Snapshot, Selections, procVars, jobVars, listVars
<1>2. TypeOK' /\ InPhase' /\ InSession'
  BY <1>1 DEF TypeOK, InPhase, InSession, Silo, NamedSilos, Listing, More, Opening
<1>3. SteadyHolds'
  BY <1>1 DEF SteadyHolds, NamedSilos
<1>4. AboutSilos'
  BY <1>1, <1>3 DEF AboutSilos, InPhase, Seen, After, ListedRight, Compared, MatchRight,
                    NothingMissed, NothingInvented
<1>5. AboutProcs'
  BY <1>1 DEF AboutProcs, InPhase, PidsDiffer, HaveRun, OwnOpened, OwnLine
<1> QED
  BY <1>2, <1>4, <1>5 DEF AboutSilos, AboutProcs

\* While a directory is listed nothing is said of its silos.
LEMMA ListingKeeps ==
  ASSUME IInv, NEW dir \in Listing,
         \/ pc = dir /\ pc' = More[dir]
         \/ pc = More[dir] /\ pc' = pc,
         entries' \subseteq entries \cup In(dir),
         UNCHANGED <<procVars, jobVars, listed, unlisted, unqueried, shifted, findVars, past>>
  PROVE  IInv'
<1> USE DEF IInv
<1>1. /\ opened = {}
      /\ UNCHANGED <<state, pid, member, holder, silos, listed, unlisted, unqueried, shifted, found, opened,
                     pending, matches, report, steady, late>>
  BY DEF InPhase, Listing, More, procVars, jobVars, findVars, past
<1>2. TypeOK' /\ InPhase' /\ InSession'
  BY <1>1 DEF TypeOK, InPhase, InSession, Silo, In, Listing, More, Opening
<1>3. Seen'
  <2> SUFFICES ASSUME NEW nj \in steady, CanSee(nj), pc' \in After(nj[1][1])
               PROVE  Listed(nj) \in listed
    BY <1>1 DEF Seen, CanSee, Listed
  <2>1. nj[1][1] \in Listing
    BY DEF TypeOK, Names, Listing
  <2>2. pc \in {"session", "more_session"} /\ nj[1][1] = "global" /\ nj[1] \notin In("session")
    BY <2>1 DEF After, Listing, More, In
  <2>3. CASE pc = "session"
    BY <2>2, <2>3 DEF Seen, After, InPhase, Listing, More, Opening
  <2>4. CASE pc = "more_session"
    <3>1. nj[1] \in entries \/ Listed(nj) \in listed
      BY <2>2, <2>4 DEF Seen, After
    <3> QED
      BY <2>2, <2>4, <3>1 DEF InSession
  <2> QED
    BY <2>2, <2>3, <2>4
<1>4. AboutSilos'
  BY <1>1, <1>3 DEF AboutSilos, SteadyHolds, ListedRight, Compared, MatchRight, CanSee,
                    NothingMissed, NothingInvented
<1>5. AboutProcs'
  BY <1>1 DEF AboutProcs, PidsDiffer, HaveRun, OwnOpened, OwnLine
<1> QED
  BY <1>2, <1>4, <1>5 DEF AboutSilos, AboutProcs

\* A directory has been listed: every named job of it is an entry, or the directory
\* has shifted or is unlisted.
LEMMA ListedKeeps ==
  ASSUME IInv, NEW dir \in Listing,
         pc \in {dir, More[dir]}, pc' = Opened[dir],
         \/ /\ In(dir) \subseteq entries \/ dir \in shifted
            /\ entries' = entries /\ unlisted' = unlisted
         \/ entries' = {} /\ unlisted' = unlisted \cup {dir},
         UNCHANGED <<procVars, jobVars, listed, unqueried, shifted, findVars, past>>
  PROVE  IInv'
<1> USE DEF IInv
<1>1. /\ opened = {}
      /\ UNCHANGED <<state, pid, member, holder, silos, listed, unqueried, shifted, found, opened, pending,
                     matches, report, steady, late>>
  BY DEF InPhase, Listing, More, procVars, jobVars, findVars, past
<1>2. TypeOK' /\ InPhase' /\ InSession'
  <2>1. pc' \in Opening
    BY DEF Listing, Opened, Opening
  <2>2. \A d \in Listing : pc' # More[d] /\ pc' # "start" /\ pc' # "compare"
    BY <2>1 DEF Listing, More, Opening
  <2>3. TypeOK'
    BY <1>1, <2>1 DEF TypeOK, Silo
  <2>4. InPhase' /\ InSession'
    BY <1>1, <2>1, <2>2 DEF InPhase, InSession, Listing, More
  <2> QED
    BY <2>3, <2>4
<1>3. Seen'
  <2> SUFFICES ASSUME NEW nj \in steady, CanSee(nj)', pc' \in After(nj[1][1])
               PROVE  nj[1] \in entries' \/ Listed(nj) \in listed
    BY <1>1 DEF Seen, CanSee, Listed
  <2>1. nj[1] \in Names /\ nj[1][1] \in Listing /\ holder[nj[1]] # NoJob
    BY FindAssumption DEF TypeOK, SteadyHolds, Names, Listing
  <2>2. CASE nj[1][1] = dir
    BY <1>1, <2>1, <2>2 DEF In, CanSee
  <2>3. CASE nj[1][1] # dir
    <3>1. dir = "session" /\ nj[1][1] = "global" /\ CanSee(nj) /\ pc \in After("global")
      BY <1>1, <2>1, <2>3 DEF CanSee, After, Listing, More, Opened
    <3>2. Listed(nj) \in listed
      BY <3>1 DEF Seen, InSession, InPhase, Listing, More, Opening
    <3> QED
      BY <3>2
  <2> QED
    BY <2>2, <2>3
<1>4. AboutSilos'
  BY <1>1, <1>3 DEF AboutSilos, SteadyHolds, ListedRight, Compared, MatchRight,
                    CanSee, Listing, NothingMissed, NothingInvented
<1>5. AboutProcs'
  BY <1>1 DEF AboutProcs, PidsDiffer, HaveRun, OwnOpened, OwnLine
<1> QED
  BY <1>2, <1>4, <1>5 DEF AboutSilos, AboutProcs

\* The calls of a listing.
LEMMA ListDirectoryKeeps ==
  IInv /\ (\E dir \in Listing : \/ ListDirectory(dir) \/ ListMore(dir)
                               \/ ListEnds(dir) \/ ListFails(dir)) => IInv'
<1> SUFFICES ASSUME IInv, NEW dir \in Listing,
                    ListDirectory(dir) \/ ListMore(dir) \/ ListEnds(dir) \/ ListFails(dir)
             PROVE  IInv'
  OBVIOUS
<1>1. CASE ListDirectory(dir)
  BY <1>1, ListingKeeps DEF ListDirectory
<1>2. CASE ListMore(dir)
  BY <1>2, ListingKeeps DEF ListMore
<1>3. CASE ListEnds(dir)
  BY <1>3, ListedKeeps DEF ListEnds, listVars
<1>4. CASE ListFails(dir)
  BY <1>4, ListedKeeps DEF ListFails
<1> QED
  BY <1>1, <1>2, <1>3, <1>4

\* An entry is opened: a silo that may be opened is listed.
LEMMA OpenEntryKeeps == IInv /\ (\E n \in Names : OpenEntry(n)) => IInv'
<1> SUFFICES ASSUME IInv, NEW n \in Names, OpenEntry(n) PROVE IInv'
  OBVIOUS
<1> USE DEF IInv
<1>1. /\ pc \in Opening /\ entries' = entries \ {n}
      /\ \/ /\ holder[n] \in silos \ Denied
            /\ listed' = listed \cup {[name |-> n, id |-> holder[n]]}
            /\ unqueried' = unqueried
         \/ unqueried' = unqueried \cup {n} /\ listed' = listed
         \/ holder[n] \notin silos \ Denied /\ listed' = listed /\ unqueried' = unqueried
      /\ UNCHANGED <<state, pid, member, holder, silos, pc, unlisted, shifted, found, opened, pending,
                     matches, report, steady, late>>
      /\ opened = {}
  BY DEF OpenEntry, InPhase, Opening, procVars, jobVars, findVars, past
<1>2. TypeOK' /\ InPhase' /\ InSession'
  BY <1>1 DEF TypeOK, InPhase, InSession, Silo, Opening
<1>3. Seen'
  BY <1>1 DEF TypeOK, Seen, CanSee, Listed, SteadyHolds
<1>4. ListedRight'
  BY <1>1 DEF TypeOK, Silo, ListedRight, SteadyHolds
<1>5. AboutSilos'
  BY <1>1, <1>3, <1>4 DEF AboutSilos, SteadyHolds, Compared, MatchRight, CanSee,
                          NothingMissed, NothingInvented
<1>6. AboutProcs'
  BY <1>1 DEF AboutProcs, PidsDiffer, HaveRun, OwnOpened, OwnLine
<1> QED
  BY <1>2, <1>5, <1>6 DEF AboutSilos, AboutProcs

\* A directory is done.
LEMMA DirectoryDoneKeeps == IInv /\ DirectoryDone => IInv'
<1> SUFFICES ASSUME IInv, DirectoryDone PROVE IInv'
  OBVIOUS
<1> USE DEF IInv
<1>1. /\ entries = {} /\ pc \in Opening /\ opened = {}
      /\ \/ pc' = "failed"
         \/ pc = "open_global" /\ pc' = "session"
         \/ pc = "open_session" /\ pc' = "processes"
      /\ UNCHANGED <<state, pid, member, holder, silos, entries, listed, unlisted, unqueried, shifted,
                     found, opened, pending, matches, report, steady, late>>
  BY DEF DirectoryDone, InPhase, Opening, procVars, jobVars, listVars, findVars, past
<1>2. TypeOK' /\ InPhase' /\ InSession'
  BY <1>1 DEF TypeOK, InPhase, InSession, Silo, Listing, More, Opening
<1>3. Seen'
  BY <1>1 DEF Seen, CanSee, After, Listed
<1>4. AboutSilos'
  BY <1>1, <1>3 DEF AboutSilos, SteadyHolds, ListedRight, Compared, MatchRight, CanSee,
                    NothingMissed, NothingInvented
<1>5. AboutProcs'
  BY <1>1 DEF AboutProcs, PidsDiffer, HaveRun, OwnOpened, OwnLine
<1> QED
  BY <1>2, <1>4, <1>5 DEF AboutSilos, AboutProcs

\* The process with the PID is opened; if it is another one, the first has ended.
LEMMA OpenProcessKeeps == IInv /\ (\E f \in Procs : OpenProcess(f)) => IInv'
<1> SUFFICES ASSUME IInv, NEW f \in Procs, OpenProcess(f) PROVE IInv'
  OBVIOUS
<1> USE DEF IInv
<1>1. PICK p \in Procs : /\ state[p] = "alive" /\ pid[p] = pid[f]
                         /\ opened' = {[from |-> f, proc |-> p]}
  BY DEF OpenProcess
<1>2. /\ pc = "processes" /\ pc' = "compare" /\ f \in found /\ entries = {}
      /\ found' = found \ {f} /\ pending' = listed /\ matches' = {}
      /\ UNCHANGED <<state, pid, member, holder, silos, entries, listed, unlisted, unqueried, shifted, report,
                     steady, late>>
  BY DEF OpenProcess, IsFirst, InPhase, Listing, More, Opening, procVars, jobVars, listVars, past
<1>3. TypeOK' /\ InPhase' /\ InSession'
  BY <1>1, <1>2 DEF TypeOK, InPhase, InSession, Silo, Listing, More, Opening
<1>4. Seen'
  BY <1>2 DEF Seen, CanSee, After, Listed
<1>5. Compared' /\ MatchRight'
  BY <1>1, <1>2 DEF TypeOK, Names, Seen, CanSee, After, Compared, MatchRight, Listed
<1>6. AboutSilos'
  BY <1>2, <1>4, <1>5 DEF AboutSilos, SteadyHolds, ListedRight, CanSee, NothingMissed,
                          NothingInvented
<1>7. AboutProcs'
  BY <1>1, <1>2 DEF TypeOK, AboutProcs, PidsDiffer, HaveRun, OwnOpened, OwnLine
<1> QED
  BY <1>3, <1>6, <1>7 DEF AboutSilos, AboutProcs

\* The open process is compared with the job that has the name now, which is the
\* silo itself when it is steady.
LEMMA CompareKeeps == IInv /\ (\E s \in listed : Compare(s)) => IInv'
<1> SUFFICES ASSUME IInv, NEW s \in listed, Compare(s) PROVE IInv'
  OBVIOUS
<1> USE DEF IInv
<1>1. /\ pc = "compare" /\ s \in pending /\ pending' = pending \ {s}
      /\ matches' = IF /\ holder[s.name] \in Jobs \ Denied
                       /\ \A o \in opened : member[o.proc] = holder[s.name]
                      THEN matches \cup {s} ELSE matches
      /\ UNCHANGED <<state, pid, member, holder, silos, pc, entries, listed, unlisted, unqueried, shifted, found,
                     opened, report, steady, late>>
  BY DEF Compare, procVars, jobVars, listVars, past
<1>2. TypeOK' /\ InPhase' /\ InSession'
  BY <1>1 DEF TypeOK, InPhase, InSession, Silo, Opening
<1>3. Compared'
  <2> SUFFICES ASSUME NEW o \in opened, NEW nj \in steady,
                      o.proc \notin late, CanSee(nj), member[o.proc] = nj[2]
               PROVE  Listed(nj) \in pending' \cup matches'
    BY <1>1 DEF Compared, CanSee, Listed
  <2>1. Listed(nj) \in pending \cup matches
    BY DEF Compared
  <2>2. CASE Listed(nj) = s
    <3>1. s.name = nj[1] /\ holder[s.name] = nj[2] /\ nj[2] \in Jobs \ Denied
      BY <2>2 DEF Listed, SteadyHolds, CanSee, TypeOK
    <3>2. \A q \in opened : member[q.proc] = holder[s.name]
      BY <3>1 DEF InPhase
    <3> QED
      BY <1>1, <2>2, <3>1, <3>2
  <2> QED
    BY <1>1, <2>1, <2>2
<1>4. MatchRight'
  BY <1>1 DEF TypeOK, MatchRight, SteadyHolds
<1>5. AboutSilos'
  BY <1>1, <1>3, <1>4 DEF AboutSilos, SteadyHolds, Seen, ListedRight, CanSee,
                          NothingMissed, NothingInvented
<1>6. AboutProcs'
  BY <1>1 DEF AboutProcs, PidsDiffer, HaveRun, OwnOpened, OwnLine
<1> QED
  BY <1>2, <1>5, <1>6 DEF AboutSilos, AboutProcs

\* The line of the process is printed.
LEMMA PrintLineKeeps == IInv /\ PrintLine => IInv'
<1> SUFFICES ASSUME IInv, PrintLine PROVE IInv'
  OBVIOUS
<1> USE DEF IInv
<1>1. /\ pc = "compare" /\ pc' = "processes" /\ pending = {} /\ opened' = {}
      /\ report' = report \cup
                     {[from |-> o.from, proc |-> o.proc, silos |-> matches] : o \in opened}
      /\ UNCHANGED <<state, pid, member, holder, silos, entries, listed, unlisted, unqueried, shifted, found, pending,
                     matches, steady, late>>
  BY DEF PrintLine, procVars, jobVars, listVars, past
<1>2. \A line \in report' : \/ line \in report
                            \/ /\ line.silos = matches
                               /\ \E o \in opened : o.from = line.from /\ o.proc = line.proc
  BY <1>1
<1>3. TypeOK' /\ InPhase' /\ InSession'
  BY <1>1 DEF TypeOK, InPhase, InSession, Silo, Listing, More, Opening
<1>4. NothingMissed'
  BY <1>1, <1>2 DEF NothingMissed, Compared, CanSee, Listed
<1>5. NothingInvented'
  BY <1>1, <1>2 DEF NothingInvented, MatchRight, ListedRight, InPhase
<1>6. AboutSilos'
  BY <1>1, <1>4, <1>5 DEF AboutSilos, SteadyHolds, Seen, After, ListedRight, CanSee, Compared,
                          MatchRight
<1>7. AboutProcs'
  BY <1>1, <1>2 DEF AboutProcs, PidsDiffer, HaveRun, OwnOpened, OwnLine
<1> QED
  BY <1>3, <1>6, <1>7 DEF AboutSilos, AboutProcs

\* All processes are done.
LEMMA DoneKeeps == IInv /\ Done => IInv'
<1> SUFFICES ASSUME IInv, Done PROVE IInv'
  OBVIOUS
<1> USE DEF IInv
<1>1. /\ pc = "processes" /\ pc' = "done"
      /\ UNCHANGED <<state, pid, member, holder, silos, entries, listed, unlisted, unqueried, shifted,
                     found, opened, pending, matches, report, steady, late>>
  BY DEF Done, procVars, jobVars, listVars, findVars, past
<1>2. TypeOK' /\ InPhase' /\ InSession'
  BY <1>1 DEF TypeOK, InPhase, InSession, Silo, Listing, More, Opening
<1>3. AboutSilos'
  BY <1>1 DEF AboutSilos, SteadyHolds, Seen, After, ListedRight, Compared, MatchRight, CanSee,
              Listed, NothingMissed, NothingInvented
<1>4. AboutProcs'
  BY <1>1 DEF AboutProcs, PidsDiffer, HaveRun, OwnOpened, OwnLine
<1> QED
  BY <1>2, <1>3, <1>4 DEF AboutSilos, AboutProcs

\* A step that changes nothing.
LEMMA StutterKeeps == IInv /\ UNCHANGED vars => IInv'
  BY DEF vars, procVars, jobVars, listVars, findVars, past, IInv, TypeOK, InPhase, InSession, SteadyHolds,
         Seen, ListedRight, Compared, MatchRight, CanSee, PidsDiffer, HaveRun, OwnOpened,
         NothingMissed, NothingInvented, OwnLine

\* Every step keeps the invariant.
LEMMA NextKeeps == IInv /\ [Next]_vars => IInv'
<1>1. IInv /\ Others => IInv'
  BY StartKeeps, AssignKeeps, ExitKeeps, CreateJobKeeps, PromoteToSiloKeeps, CloseJobKeeps,
     OtherObjectKeeps
  DEF Others
<1>2. IInv /\ Find => IInv'
  BY FailKeeps, SnapshotKeeps, ListDirectoryKeeps, OpenEntryKeeps, DirectoryDoneKeeps,
     OpenProcessKeeps, CompareKeeps, PrintLineKeeps, DoneKeeps
  DEF Find, NotFound, OpenEntryFails, OpenProcessFails, CompareFails
<1> QED
  BY <1>1, <1>2, StutterKeeps DEF Next

-----------------------------------------------------------------------------

\* The inductive invariant holds in every reachable state of silo find.
THEOREM Invariance == Spec => []IInv
  BY InitHolds, NextKeeps, PTL DEF Spec

\* silo find keeps its variables in their types.
THEOREM TypeCorrect == Spec => []TypeOK
<1>1. IInv => TypeOK BY DEF IInv
<1> QED BY <1>1, Invariance, PTL

\* A silo that was there all the time is in the line of each of its processes.
THEOREM NothingMissedHolds == Spec => []NothingMissed
<1>1. IInv => NothingMissed BY DEF IInv
<1> QED BY <1>1, Invariance, PTL

\* A silo that was there all the time is in no other line.
THEOREM NothingInventedHolds == Spec => []NothingInvented
<1>1. IInv => NothingInvented BY DEF IInv
<1> QED BY <1>1, Invariance, PTL

\* A line is about the process of the snapshot while that one runs.
THEOREM OwnLineHolds == Spec => []OwnLine
<1>1. IInv => OwnLine BY DEF IInv
<1> QED BY <1>1, Invariance, PTL

=============================================================================
