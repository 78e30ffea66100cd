------------------------------ MODULE SiloNames ------------------------------
(***************************************************************************)
(* How bindmount finds a silo by name when several logon sessions are in   *)
(* play, and the temporary directory that is named after the job.          *)
(*                                                                         *)
(* A job name lives in a namespace: one per session, and the global one,   *)
(* which is session 0's own.  siloLookupNames tries the caller's namespace *)
(* and then Global\, unless the name says which one it means.  Other       *)
(* programs may give a job of theirs, which is no silo, the same name.     *)
(* The clients run as one user, who has one %LOCALAPPDATA% in all sessions.*)
(***************************************************************************)
EXTENDS Naturals, Sequences, FiniteSets

CONSTANTS
  Execs,      \* `bindmount exec` invocations
  Entrants,   \* `silo exec` invocations
  Checkers,   \* `silo exists` invocations
  Foreign,    \* jobs of other programs
  Spaces,     \* namespaces
  Global,     \* the global one, which is session 0's
  Session,    \* the namespace of the session each client runs in
  NoJob       \* no job object

Clients == Execs \cup Entrants \cup Checkers
Jobs    == Execs \cup Foreign     \* an exec creates at most one job

ASSUME ClientsAssumption ==
  /\ Execs \cap (Entrants \cup Checkers \cup Foreign) = {}
  /\ Entrants \cap Checkers = {}
  /\ NoJob \notin Jobs

ASSUME SpacesAssumption ==
  /\ Global \in Spaces
  /\ Session \in [Clients -> Spaces]

\* How a name is typed: as it is, with Global\, with Local\.
Spellings == {"plain", "global", "local"}

VARIABLES
  typed,    \* how each client spells the name
  job,      \* the job that has the name in each namespace
  silos,    \* jobs promoted to a silo
  pc,       \* where each client is
  at,       \* the candidate it tries next
  present,  \* jobs that have had the name since the client began its search
  files     \* for each spelling, the silos whose files are in its temp directory

vars == <<typed, job, silos, pc, at, present, files>>

\* Fault: only the caller's own namespace is searched.
CandidatesOwn(c) == CASE typed[c] = "global" -> <<Global>>
                      [] OTHER -> <<Session[c]>>

\* siloLookupNames, as the namespaces its names are looked up in.
Candidates(c) == CASE typed[c] = "plain"  -> <<Session[c], Global>>
                   [] typed[c] = "global" -> <<Global>>
                   [] typed[c] = "local"  -> <<Session[c]>>

\* The namespace in which CreateJob puts the name.
Space(c) == IF typed[c] = "global" THEN Global ELSE Session[c]

\* The jobs that the name a client typed can stand for.
Meant(c)   == {Space(c)} \cup {s \in {Global} : typed[c] = "plain"}
Visible(c) == {job[s] : s \in Meant(c)} \ {NoJob}

Init == /\ typed \in [Clients -> Spellings]
        /\ job = [s \in Spaces |-> NoJob]
        /\ silos = {}
        /\ pc = [c \in Clients |-> "idle"]
        /\ at = [c \in Clients |-> 1]
        /\ present = [c \in Clients |-> {}]
        /\ files = [k \in Spellings |-> {}]

-----------------------------------------------------------------------------
(* Searching.                                                              *)

\* A client begins its search; what counts for an entrant are silos.
Begin(c) ==
  /\ pc[c] = "idle"
  /\ pc' = [pc EXCEPT ![c] = "search"]
  /\ present' = [present EXCEPT ![c] = IF c \in Entrants THEN Visible(c) \cap silos ELSE Visible(c)]
  /\ UNCHANGED <<typed, job, silos, at, files>>

Here(c) == Candidates(c)[at[c]]

IsLast(c)  == at[c] = Len(Candidates(c))
Missing(c) == job[Here(c)] = NoJob

Ends(c, how) == pc' = [pc EXCEPT ![c] = how] /\ UNCHANGED at
TriesNext(c) == at' = [at EXCEPT ![c] = @ + 1] /\ UNCHANGED pc

\* openSiloJob, for exec's existence check and for `silo exists`: a name that
\* is not found leads to the next candidate, any other answer ends the search.
\* exec refuses a name whose check fails; for `silo exists` a denied access
\* shows that the job is there, and any other error is reported.
Open(c) ==
  /\ c \in Execs \cup Checkers
  /\ pc[c] = "search"
  /\ \/ Missing(c) /\ ~IsLast(c) /\ TriesNext(c)
     \/ Missing(c) /\ IsLast(c) /\ Ends(c, IF c \in Execs THEN "create" ELSE "absent")
     \/ ~Missing(c) /\ Ends(c, IF c \in Execs THEN "failed" ELSE "exists")
     \/ Ends(c, "error")
  /\ UNCHANGED <<typed, job, silos, present, files>>

IsSilo(n)   == ~Missing(n) /\ job[Here(n)] \in silos
IsNoSilo(n) == ~Missing(n) /\ job[Here(n)] \notin silos

\* Fault: a job that is no silo ends the search.
OpenNamedSiloGivingUp(n) ==
  /\ pc[n] = "search"
  /\ \/ IsSilo(n) /\ Ends(n, "entered")
     \/ Ends(n, "error")
     \/ Missing(n) /\ ~IsLast(n) /\ TriesNext(n)
     \/ ((Missing(n) /\ IsLast(n)) \/ IsNoSilo(n)) /\ Ends(n, "failed")
  /\ UNCHANGED <<typed, job, silos, present, files>>

\* openNamedSilo, for `silo exec`: a job that is no silo is passed over as well;
\* a denied access, or any other error, ends the search.
OpenNamedSilo(n) ==
  /\ pc[n] = "search"
  /\ \/ IsSilo(n) /\ Ends(n, "entered")
     \/ Ends(n, "error")
     \/ (Missing(n) \/ IsNoSilo(n)) /\ ~IsLast(n) /\ TriesNext(n)
     \/ (Missing(n) \/ IsNoSilo(n)) /\ IsLast(n) /\ Ends(n, "failed")
  /\ UNCHANGED <<typed, job, silos, present, files>>

-----------------------------------------------------------------------------
(* exec with the PowerShell passthrough, once the name is found to be free. *)

\* Fault: a job that got the name in the meantime is used.
CreateReusing(e) ==
  /\ pc[e] = "create"
  /\ job' = [job EXCEPT ![Space(e)] = e]
  /\ pc' = [pc EXCEPT ![e] = "promote"]
  /\ UNCHANGED <<typed, silos, at, present, files>>

\* CreateJob refuses a name that exists in the namespace it creates in; it may
\* fail for another reason.
Create(e) ==
  /\ pc[e] = "create"
  /\ \/ /\ job[Space(e)] = NoJob
        /\ job' = [job EXCEPT ![Space(e)] = e]
        /\ pc' = [pc EXCEPT ![e] = "promote"]
     \/ UNCHANGED job /\ pc' = [pc EXCEPT ![e] = "failed"]
  /\ UNCHANGED <<typed, silos, at, present, files>>

Promote(e) ==
  /\ pc[e] = "promote"
  /\ silos' = silos \cup {e}
  /\ pc' = [pc EXCEPT ![e] = "temp"]
  /\ UNCHANGED <<typed, job, at, present, files>>

\* Fault: the directory is created and not cleared.
PrepareTempKeeping(e) ==
  /\ pc[e] = "temp"
  /\ pc' = [pc EXCEPT ![e] = "running"]
  /\ UNCHANGED <<typed, job, silos, at, present, files>>

\* prepareSiloTempDirectory: clear the directory named after the job name as it
\* was typed, whatever silo uses it, and map TEMP and TMP to it.
PrepareTemp(e) ==
  /\ pc[e] = "temp"
  /\ files' = [files EXCEPT ![typed[e]] = {}]
  /\ pc' = [pc EXCEPT ![e] = "running"]
  /\ UNCHANGED <<typed, job, silos, at, present>>

\* A process of the silo writes to its TEMP.
Write(e) ==
  /\ pc[e] = "running"
  /\ files' = [files EXCEPT ![typed[e]] = @ \cup {e}]
  /\ UNCHANGED <<typed, job, silos, pc, at, present>>

\* The name of job j goes away with its last handle.
Close(j) ==
  /\ job' = [s \in Spaces |-> IF job[s] = j THEN NoJob ELSE job[s]]
  /\ present' = [c \in Clients |-> present[c] \ {j}]

\* exec fails on the way, or its silo comes to its end.
End(e) ==
  /\ pc[e] \in {"promote", "temp", "running"}
  /\ Close(e)
  /\ pc' = [pc EXCEPT ![e] = "ended"]
  /\ UNCHANGED <<typed, silos, at, files>>

-----------------------------------------------------------------------------
(* Other programs.                                                         *)

ForeignCreate(f, s) ==
  /\ job[s] = NoJob
  /\ \A t \in Spaces : job[t] # f
  /\ job' = [job EXCEPT ![s] = f]
  /\ UNCHANGED <<typed, silos, pc, at, present, files>>

ForeignClose(f) ==
  /\ \E s \in Spaces : job[s] = f
  /\ Close(f)
  /\ UNCHANGED <<typed, silos, pc, at, files>>

Next == \/ \E c \in Clients : Begin(c) \/ Open(c)
        \/ \E n \in Entrants : OpenNamedSilo(n)
        \/ \E e \in Execs : \/ Create(e) \/ Promote(e) \/ PrepareTemp(e)
                            \/ Write(e) \/ End(e)
        \/ \E f \in Foreign : ForeignClose(f) \/ \E s \in Spaces : ForeignCreate(f, s)

Spec == Init /\ [][Next]_vars

-----------------------------------------------------------------------------
(* Properties.                                                             *)

\* Every variable has its type.
TypeOK ==
  /\ typed \in [Clients -> Spellings]
  /\ job \in [Spaces -> Jobs \cup {NoJob}]
  /\ silos \subseteq Execs
  /\ pc \in [Clients -> {"idle", "search", "failed", "error", "entered", "exists", "absent",
                         "create", "promote", "temp", "running", "ended"}]
  /\ at \in [Clients -> 1..2]
  /\ present \in [Clients -> SUBSET Jobs]
  /\ files \in [Spellings -> SUBSET Execs]

\* A search that ends empty missed nothing that was there all the time: `silo
\* exists` says "does not exist", and exec goes on to create, only when no job
\* had the name in any namespace it stands for since the search began.
AbsentMeansAbsent ==
  \A c \in Execs \cup Checkers :
     pc[c] \in {"absent", "create"} => present[c] = {}

\* silo exec finds the silo that is there all the time, also behind a job of
\* another program that has the same name in the caller's own namespace; only
\* an open that is denied, or fails by itself, keeps it away.
EntrantFindsSilo == \A n \in Entrants : pc[n] = "failed" => present[n] = {}

Held(e) == pc[e] \in {"promote", "temp", "running"}

\* Two silos that exec created never have one namespace's name at the same time.
OneHolder == \A e \in Execs : Held(e) => job[Space(e)] = e

\* "lets a later launch remove stale files left after a previous silo with the
\* same name exited" (exec_windows.go:494): a running silo finds files only of
\* silos that lived on in another namespace when its directory was cleared.
NoStaleFiles ==
  \A e \in Execs : pc[e] = "running" =>
     \A g \in files[typed[e]] : g = e \/ Space(g) # Space(e)

\* The files of a running silo are cleared by nobody who uses its namespace.
KeptInNamespace ==
  [][\A e \in Execs :
        pc[e] = "running" /\ e \in files[typed[e]] /\ e \notin files'[typed[e]] =>
           \E g \in Execs : /\ pc[g] = "temp" /\ pc'[g] = "running"
                            /\ Space(g) # Space(e)]_vars

-----------------------------------------------------------------------------
(* What the documentation says and the code does not do: see the findings. *)

\* "maps TEMP and TMP to a per-silo directory" (main_windows.go:385): no other
\* exec clears the directory of a silo that is running.
TempIsPerSilo ==
  [][\A e \in Execs : pc[e] = "running" /\ e \in files[typed[e]] =>
        e \in files'[typed[e]]]_vars

=============================================================================
